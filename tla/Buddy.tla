------------------------------- MODULE Buddy -------------------------------
(***************************************************************************)
(* The buddy system of kernel/buddy.c (identical from lab 4 to lab 7, but  *)
(* for an address offset in lab 6): memory_reserve at boot, then           *)
(* __allocate_pages and __free_pages, one loop iteration at a time.        *)
(*                                                                         *)
(* The caller is one thread of control.  What two preempted callers do to  *)
(* the pointers of the free lists is in BuddyList.  Here a free list is    *)
(* the set of its pages, so popping its first page is popping some page.   *)
(* Pages are indices: the shift by PAGE_SHIFT and the offset USER_MEM_BASE *)
(* (0) of buddy_malloc and buddy_free have nothing to distinguish.         *)
(***************************************************************************)
EXTENDS BuddyPages, FiniteSets

VARIABLES
    free_area,      \* free_area[k].free_list
    nr_free,        \* free_area[k].nr_free
    pc,             \* where the one caller is
    target,         \* target of the two loops
    current_order,  \* current_order of all three loops
    want,           \* the parameter order of __allocate_pages
    range,          \* <<start, end>> of memory_reserve, as pages
    asked,          \* history: pages main asked memory_reserve to withhold
    refused         \* history: order of the last refused request, or -1

lists   == <<free_area, nr_free>>
frame   == <<target, current_order, want, range>>
history == <<asked, withheld, live, refused>>
vars    == <<pages, lists, pc, frame, history>>

PCs    == {"boot", "reserve", "idle", "split", "merge", "corrupt"}

\* push_to_free_area and remove_from_free_area (pop_from_free_area too).
Push(p, k) == /\ free_area' = [free_area EXCEPT ![k] = @ \cup {p}]
              /\ nr_free'   = [nr_free EXCEPT ![k] = @ + 1]

RemoveFrom(p, k) == /\ free_area' = [free_area EXCEPT ![k] = @ \ {p}]
                    /\ nr_free'   = [nr_free EXCEPT ![k] = @ - 1]

\* A call that returns takes its locals with it.
Leave == target' = 0 /\ current_order' = 0 /\ want' = 0 /\ range' = <<0, 0>>

-----------------------------------------------------------------------------
(* buddy_init, then memory_reserve as often as main calls it.              *)

Init ==
    /\ order = [p \in Page |-> IF Aligned(p, MaxOrder) THEN MaxOrder ELSE -1]
    /\ status = [p \in Page |-> "FREE"]
    /\ free_area = [k \in Orders |->
          IF k = MaxOrder THEN {p \in Page : Aligned(p, MaxOrder)} ELSE {}]
    /\ nr_free = [k \in Orders |-> Cardinality(free_area[k])]
    /\ pc = "boot"
    /\ target = 0 /\ current_order = 0 /\ want = 0 /\ range = <<0, 0>>
    /\ asked = {} /\ withheld = {} /\ live = {} /\ refused = -1

\* start is rounded down to a page and end up: r is the pair of the results.
MemoryReserve(r) ==
    /\ pc = "boot"
    /\ pc' = "reserve"
    /\ range' = r
    /\ current_order' = MaxOrder
    /\ asked' = asked \cup ((r[1] .. r[2]) \cap Page)
    /\ UNCHANGED <<pages, lists, target, want, withheld, live, refused>>

\* The tests of the visit of a block: a block that Misses the range is left
\* where it is.  end is compared with <=, so the page at end counts.
Misses(b) == b[1] + Pow[b[2]] <= range[1] \/ b[1] > range[2]

Within(b) == \/ b[2] = 0
             \/ range[1] <= b[1] /\ b[1] + Pow[b[2]] <= range[2]

\* page->status = PAGE_RESERVED and off the list.
ReserveBlock(p) ==
    LET k == current_order IN
    /\ pc = "reserve"
    /\ p \in free_area[k]
    /\ ~ Misses(<<p, k>>)
    /\ Within(<<p, k>>)
    /\ status' = [status EXCEPT ![p] = "RESERVED"]
    /\ RemoveFrom(p, k)
    /\ withheld' = withheld \cup {<<p, k>>}
    /\ UNCHANGED <<order, pc, frame, asked, live, refused>>

\* A block the range cuts goes to the list below as two halves.
ReserveSplit(p) ==
    LET k == current_order
        buddy == BuddyOf(p, k - 1) IN
    /\ pc = "reserve"
    /\ p \in free_area[k]
    /\ ~ Misses(<<p, k>>)
    /\ ~ Within(<<p, k>>)
    /\ order' = [order EXCEPT ![p] = k - 1, ![buddy] = k - 1]
    /\ free_area' = [free_area EXCEPT ![k] = @ \ {p},
                                      ![k - 1] = @ \cup {buddy, p}]
    /\ nr_free' = [nr_free EXCEPT ![k] = @ - 1, ![k - 1] = @ + 2]
    /\ UNCHANGED <<status, pc, frame, history>>

\* Every block of the list visited: the next order, or back to main.
ReserveNext ==
    /\ pc = "reserve"
    /\ \A p \in free_area[current_order] : Misses(<<p, current_order>>)
    /\ IF current_order > 0
       THEN /\ current_order' = current_order - 1
            /\ UNCHANGED <<pc, target, want, range>>
       ELSE pc' = "boot" /\ Leave
    /\ UNCHANGED <<pages, lists, history>>

\* main makes all its calls, here in any order, before it runs a thread.
BootDone ==
    /\ pc = "boot"
    /\ \A r \in Ranges : (r[1] .. r[2]) \cap Page \subseteq asked
    /\ pc' = "idle"
    /\ UNCHANGED <<pages, lists, frame, history>>

-----------------------------------------------------------------------------
(* __allocate_pages                                                        *)

\* The first non-empty list from order k up gives its first block.
Take(k, c, p) ==
    /\ pc = "idle"
    /\ c >= k
    /\ p \in free_area[c]
    /\ \A i \in k .. c - 1 : free_area[i] = {}
    /\ RemoveFrom(p, c)
    /\ pc' = "split"
    /\ target' = p /\ current_order' = c /\ want' = k
    /\ UNCHANGED <<pages, range, history>>

\* A slip: only the list of the order asked for is looked at.
FailEarly(k) ==
    /\ pc = "idle" /\ free_area[k] = {}
    /\ refused' = k
    /\ UNCHANGED <<pages, lists, pc, frame, asked, withheld, live>>

\* target stays NULL: "Failed to allocate page!"
Fail(k) ==
    /\ pc = "idle"
    /\ \A i \in k .. MaxOrder : free_area[i] = {}
    /\ refused' = k
    /\ UNCHANGED <<pages, lists, pc, frame, asked, withheld, live>>

\* A slip: the half that is kept.
HalfKept(p, k) == p

\* The half of a block of order k + 1 at p that goes back to a list.
Half(p, k) == BuddyOf(p, k)

Split ==
    LET k == current_order - 1
        buddy == Half(target, k) IN
    /\ pc = "split"
    /\ current_order > want
    /\ current_order' = k
    /\ order' = [order EXCEPT ![buddy] = k]
    /\ status' = [status EXCEPT ![buddy] = "FREE"]
    /\ Push(buddy, k)
    /\ UNCHANGED <<pc, target, want, range, history>>

Return ==
    /\ pc = "split"
    /\ current_order <= want
    /\ order' = [order EXCEPT ![target] = want]
    /\ status' = [status EXCEPT ![target] = "USED"]
    /\ pc' = "idle"
    /\ live' = live \cup {<<target, want>>}
    /\ refused' = -1
    /\ Leave
    /\ UNCHANGED <<lists, asked, withheld>>

-----------------------------------------------------------------------------
(* __free_pages                                                            *)

Free(b) ==
    /\ pc = "idle"
    /\ b \in live
    /\ live' = live \ {b}
    /\ pc' = "merge"
    /\ target' = b[1]
    /\ current_order' = order[b[1]]
    /\ UNCHANGED <<pages, lists, want, range, asked, withheld, refused>>

\* Two slips: the loop ends one order early; it merges with a buddy in use.
CanMergeEarly ==
    /\ current_order < MaxOrder - 1
    /\ order[BuddyOf(target, current_order)] = current_order
    /\ status[BuddyOf(target, current_order)] # "USED"

CanMergeUsed ==
    /\ current_order < MaxOrder
    /\ order[BuddyOf(target, current_order)] = current_order

\* The loop's own test: only PAGE_USED stops it, PAGE_RESERVED does not.
CanMerge ==
    /\ current_order < MaxOrder
    /\ order[BuddyOf(target, current_order)] = current_order
    /\ status[BuddyOf(target, current_order)] # "USED"

Merge ==
    LET buddy == BuddyOf(target, current_order) IN
    /\ pc = "merge"
    /\ CanMerge
    /\ buddy \in free_area[current_order]
    /\ RemoveFrom(buddy, current_order)
    /\ target' = IF target < buddy THEN target ELSE buddy
    /\ current_order' = current_order + 1
    /\ UNCHANGED <<pages, pc, want, range, history>>

(***************************************************************************)
(* The buddy is on no list: list_del writes through the pointers it kept   *)
(* from its last list.  Sets say nothing of the lists after that, so this  *)
(* model stops; BuddyList, which has the pointers, goes on.                *)
(***************************************************************************)
MergeUnlisted ==
    LET buddy == BuddyOf(target, current_order) IN
    /\ pc = "merge"
    /\ CanMerge
    /\ buddy \notin free_area[current_order]
    /\ pc' = "corrupt"
    /\ UNCHANGED <<pages, lists, frame, history>>

Insert ==
    /\ pc = "merge"
    /\ ~ CanMerge
    /\ status' = [status EXCEPT ![target] = "FREE"]
    /\ order' = [order EXCEPT ![target] = current_order]
    /\ Push(target, current_order)
    /\ pc' = "idle"
    /\ Leave
    /\ UNCHANGED history

-----------------------------------------------------------------------------
\* The rest of a call that has begun.
Continue ==
    \/ \E p \in Page : ReserveBlock(p) \/ ReserveSplit(p)
    \/ ReserveNext
    \/ Split \/ Return
    \/ Merge \/ MergeUnlisted \/ Insert

Next ==
    \/ \E r \in Ranges : MemoryReserve(r)
    \/ BootDone
    \/ \E k \in Orders : Fail(k) \/ \E c \in Orders, p \in Page : Take(k, c, p)
    \/ \E b \in live : Free(b)
    \/ Continue

Spec == Init /\ [][Next]_vars

-----------------------------------------------------------------------------
(* Who holds what.  A holding is a block and its holder: a free list, a    *)
(* caller of buddy_malloc, memory_reserve, or the call in progress.        *)

Listed == {b \in Page \X Orders : b[1] \in free_area[b[2]]}

InHand ==
    IF pc \in {"split", "merge", "corrupt"} THEN {<<target, current_order>>}
    ELSE {}

Holdings ==
    ({"free"} \X Listed) \cup ({"live"} \X live)
        \cup ({"withheld"} \X withheld) \cup ({"hand"} \X InHand)

-----------------------------------------------------------------------------
(* Properties                                                              *)

\* Every field holds a value of its kind; lists hold heads of blocks that
\* are aligned to their order and lie in the pool.
TypeOK ==
    /\ order \in [Page -> Orders \cup {-1}]
    /\ status \in [Page -> Status]
    /\ free_area \in [Orders -> SUBSET Page]
    /\ nr_free \in [Orders -> Int]
    /\ pc \in PCs
    /\ target \in Page /\ current_order \in Orders /\ want \in Orders
    /\ range \in Nat \X Nat
    /\ asked \subseteq Page
    /\ withheld \subseteq Page \X Orders
    /\ live \subseteq Page \X Orders
    /\ refused \in Orders \cup {-1}

\* No page has two holders, so buddy_malloc never returns memory that is in
\* use, and no page is lost: while the lists are intact the blocks on the
\* lists, out with callers, withheld and in hand cut the pool exactly.
EveryPageHeldOnce == Partition(Holdings)

\* What __free_pages reads of a buddy: the header of the first page of every
\* block tells its order and its holder, whatever splits and merges left in
\* the headers of the pages inside blocks.
HeadersTell ==
    /\ \A b \in Listed : order[b[1]] = b[2] /\ status[b[1]] = "FREE"
    /\ \A b \in live : order[b[1]] = b[2] /\ status[b[1]] = "USED"
    /\ \A b \in withheld : order[b[1]] = b[2] /\ status[b[1]] = "RESERVED"

\* Between calls no free block has a free buddy of its order: a request is
\* refused only when the pool is really cut up (see Abstract).
Coalesced ==
    pc = "idle" =>
        \A b \in Listed : b[2] < MaxOrder =>
            BuddyOf(b[1], b[2]) \notin free_area[b[2]]

\* The count next to each list is its length.
CountsExact == \A k \in Orders : nr_free[k] = Cardinality(free_area[k])

\* memory_reserve withholds the pages from start to end, both included, and
\* not one page more, however the range lies across blocks already cut.
ReservedExactly ==
    pc \in {"boot", "idle"} => UNION {Span(b) : b \in withheld} = asked

(* Between calls the pool is as memory_reserve and __free_pages are to     *)
(* leave it: merged, counted, and without the reserved pages and no others.*)
PoolSound == Coalesced /\ CountsExact /\ ReservedExactly

\* Every page withheld so, the merge loop reads PAGE_RESERVED as free: that
\* is the only way it comes to a buddy that is on no list.  A header left
\* inside a larger block, or on one a caller holds, never misleads it.
OnlyReservedMisleads ==
    pc = "corrupt" =>
        <<BuddyOf(target, current_order), current_order>> \in withheld

\* __free_pages takes a buddy off a list only when it is on that list.
RemovesListedOnly == pc # "corrupt"

Abstract == INSTANCE PageAllocator
AllocatorPromise == Abstract!Spec
=============================================================================
