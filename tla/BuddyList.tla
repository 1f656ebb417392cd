----------------------------- MODULE BuddyList -----------------------------
(***************************************************************************)
(* The buddy system of kernel/buddy.c once more, with what Buddy leaves    *)
(* out: the pointers of the free lists, store by store, and several        *)
(* threads inside it.  System calls run with interrupts enabled (the       *)
(* trap_handler of lab 5 to lab 7), so a timer tick can switch threads     *)
(* between any two stores.  lab 6 brackets fork in disable_irq and         *)
(* enable_irq; lab 7 has the two calls commented out.  MaxCuts bounds how  *)
(* often a tick comes inside a call: 0 where calls are masked.             *)
(***************************************************************************)
EXTENDS BuddyPages, FiniteSets, KernelList

CONSTANTS
    Threads,    \* threads that call buddy_malloc and buddy_free
    MaxCuts,    \* how many calls are cut by a tick
    CutsAtCall  \* ... and how many at most before another call begins

ASSUME CutsAssumption == MaxCuts \in Nat /\ CutsAtCall \in Nat

VARIABLES
    links,      \* list.next and list.prev of pages and free list heads
    boot,       \* main in memory_reserve: what is to do and the two cursors
    th,         \* each thread: pc, locals of its call, stores to make
    running,    \* the thread that has the processor
    cuts,       \* history: how often it was taken from one inside a call
    torn        \* history: once such a call held a block or a list, or a
                \* reserved block was merged

cpu == <<running, cuts, torn>>
listsVars == <<links, order, status, boot, th, cpu, withheld, live>>

\* A list head is a node of its own, a number no page has.
ListHead(k) == -1 - k
Node == {ListHead(k) : k \in Orders} \cup Page

Idle == [pc |-> "idle", target |-> 0, current_order |-> 0, want |-> 0,
         stores |-> <<>>]

(***************************************************************************)
(* buddy_init puts the blocks of the top order on their list, each at its  *)
(* tail: they follow one another as they lie in the pool.  Every other     *)
(* node is left as INIT_LIST_HEAD leaves it.                               *)
(***************************************************************************)
Top == Pow[MaxOrder]
Follows(n) == IF n + Top \in Page THEN n + Top ELSE ListHead(MaxOrder)
Precedes(n) == IF n = 0 THEN ListHead(MaxOrder) ELSE n - Top

InitLinks ==
    [next |-> [n \in Node |-> CASE n = ListHead(MaxOrder) -> 0
                              [] n \in Page /\ Aligned(n, MaxOrder) -> Follows(n)
                              [] OTHER -> n],
     prev |-> [n \in Node |-> CASE n = ListHead(MaxOrder) -> NumPages - Top
                              [] n \in Page /\ Aligned(n, MaxOrder) -> Precedes(n)
                              [] OTHER -> n]]

ListsInit ==
    /\ links = InitLinks
    /\ order = [p \in Page |-> IF Aligned(p, MaxOrder) THEN MaxOrder ELSE -1]
    /\ status = [p \in Page |-> "FREE"]
    /\ boot = [todo |-> Ranges, range |-> <<0, 0>>, level |-> -1,
               pos |-> 0, n |-> 0]
    /\ th = [t \in Threads |-> Idle]
    /\ running \in Threads /\ cuts = 0 /\ torn = FALSE
    /\ withheld = {} /\ live = {}

Booted == boot.level = -1 /\ boot.todo = {}

-----------------------------------------------------------------------------
(* memory_reserve: list_for_each_safe(pos, n, ...) over one order's list   *)

\* The cursors at the start of the list of order k.
AtList(b, k) ==
    [b EXCEPT !.level = k, !.pos = links.next[ListHead(k)],
              !.n = links.next[links.next[ListHead(k)]]]

ReserveCall(r) ==
    /\ boot.level = -1
    /\ r \in boot.todo
    /\ boot' = AtList([boot EXCEPT !.range = r, !.todo = @ \ {r}], MaxOrder)
    /\ UNCHANGED <<links, pages, th, cpu, withheld, live>>

PageMisses(p, k) == p + Pow[k] <= boot.range[1] \/ p > boot.range[2]
PageWithin(p, k) == \/ k = 0
                    \/ boot.range[1] <= p /\ p + Pow[k] <= boot.range[2]

\* The body of the loop for the page at pos; then pos = n, n = pos->next.
ReserveVisit ==
    LET p == boot.pos
        k == boot.level
        buddy == BuddyOf(p, k - 1)
        off == ApplyAll(links, ListDel(links, p))
        one == ApplyAll(off, ListAddTail(off, buddy, ListHead(k - 1)))
        two == ApplyAll(one, ListAddTail(one, p, ListHead(k - 1)))
    IN
    /\ boot.level >= 0
    /\ p # ListHead(k)
    /\ \/ /\ PageMisses(p, k)
          /\ UNCHANGED <<links, pages, withheld>>
       \/ /\ ~ PageMisses(p, k) /\ PageWithin(p, k)
          /\ status' = [status EXCEPT ![p] = "RESERVED"]
          /\ links' = off
          /\ withheld' = withheld \cup {<<p, k>>}
          /\ UNCHANGED order
       \/ /\ ~ PageMisses(p, k) /\ ~ PageWithin(p, k)
          /\ order' = [order EXCEPT ![p] = k - 1, ![buddy] = k - 1]
          /\ links' = two
          /\ UNCHANGED <<status, withheld>>
    /\ boot' = [boot EXCEPT !.pos = boot.n, !.n = links'.next[boot.n]]
    /\ UNCHANGED <<th, cpu, live>>

\* pos is back at the head: the next order, or back to main.
ReserveLevel ==
    LET k == boot.level IN
    /\ k >= 0
    /\ boot.pos = ListHead(k)
    /\ boot' = IF k > 0 THEN AtList(boot, k - 1)
               ELSE [boot EXCEPT !.range = <<0, 0>>, !.level = -1,
                                 !.pos = 0, !.n = 0]
    /\ UNCHANGED <<links, pages, th, cpu, withheld, live>>

-----------------------------------------------------------------------------
(* Threads                                                                 *)

Inside(t) == th[t].pc \notin {"idle", "wild"}

\* A step of t takes the processor from a call of another thread.
CutsInto(t) == running # t /\ Inside(running)

\* Beyond the search for a list, and short of the last store.
Holding(t) == th[t].pc \notin {"scan", "end"} \/ th[t].stores # <<>>

CanRun(t) == Booted /\ (CutsInto(t) => cuts < MaxCuts)

At(t, pc) == CanRun(t) /\ th[t].pc = pc /\ th[t].stores = <<>>

Buddy(t) == BuddyOf(th[t].target, th[t].current_order)

\* A slip: the status of the buddy is not looked at.
MayMergeUsed(t) ==
    /\ th[t].current_order < MaxOrder
    /\ Buddy(t) \in Page => order[Buddy(t)] = th[t].current_order

\* What is read outside page_pool may tell anything: let it be a merge.
MayMerge(t) ==
    /\ th[t].current_order < MaxOrder
    /\ Buddy(t) \in Page => /\ order[Buddy(t)] = th[t].current_order
                            /\ status[Buddy(t)] # "USED"

\* The merge loop takes a block off a list that memory_reserve took off.
MergesReserved(t) ==
    /\ At(t, "merge") /\ MayMerge(t)
    /\ Buddy(t) \in Page /\ status[Buddy(t)] = "RESERVED"

Tears(t) == (CutsInto(t) /\ Holding(running)) \/ MergesReserved(t)

Runs(t) ==
    /\ running' = t
    /\ cuts' = IF CutsInto(t) THEN cuts + 1 ELSE cuts
    /\ torn' = (torn \/ Tears(t))

\* The record r with the fields of s for its own.
With(r, s) == [f \in DOMAIN r |-> IF f \in DOMAIN s THEN s[f] ELSE r[f]]

Goto(t, state) == Runs(t) /\ th' = [th EXCEPT ![t] = With(@, state)]

\* One store of a list operation.
StoreStep(t) ==
    /\ CanRun(t)
    /\ th[t].stores # <<>>
    /\ links' = Apply(links, Head(th[t].stores))
    /\ th' = [th EXCEPT ![t].stores = Tail(@)]
    /\ Runs(t)
    /\ UNCHANGED <<pages, boot, withheld, live>>

\* Calls are followed to their end after too many cuts; no more of them begin.
Begins(t) == At(t, "idle") /\ cuts <= CutsAtCall

AllocatePages(t, k) ==
    /\ Begins(t)
    /\ Goto(t, [pc |-> "scan", current_order |-> k, want |-> k])
    /\ UNCHANGED <<links, pages, boot, withheld, live>>

\* The list_empty test of the scan; past MAX_ORDER the call returns NULL.
Scan(t) ==
    LET k == th[t].current_order IN
    /\ At(t, "scan")
    /\ Goto(t, IF k > MaxOrder THEN Idle
               ELSE IF ListEmpty(links, ListHead(k))
                    THEN [current_order |-> k + 1]
                    ELSE [pc |-> "pop"])
    /\ UNCHANGED <<links, pages, boot, withheld, live>>

\* pop_from_free_area.  When the list has become empty since the test,
\* list_first_entry makes a page_t of the memory around a list head: the
\* thread is off the page pool and the model leaves it there, as it leaves
\* one whose buddy is no page (its block came from a list torn before).
Pop(t) ==
    LET p == links.next[ListHead(th[t].current_order)] IN
    /\ At(t, "pop")
    /\ Goto(t, IF p \in Page
               THEN [pc |-> "split", target |-> p, stores |-> ListDel(links, p)]
               ELSE [pc |-> "wild"])
    /\ UNCHANGED <<links, pages, boot, withheld, live>>

SplitStep(t) ==
    LET k == th[t].current_order - 1
        buddy == BuddyOf(th[t].target, k) IN
    /\ At(t, "split")
    /\ th[t].current_order > th[t].want
    /\ order' = [order EXCEPT ![buddy] = k]
    /\ status' = [status EXCEPT ![buddy] = "FREE"]
    /\ Goto(t, IF buddy \in Page
               THEN [current_order |-> k,
                     stores |-> ListAddTail(links, buddy, ListHead(k))]
               ELSE [pc |-> "wild"])
    /\ UNCHANGED <<links, boot, withheld, live>>

ReturnStep(t) ==
    LET p == th[t].target IN
    /\ At(t, "split")
    /\ th[t].current_order <= th[t].want
    /\ links' = ApplyAll(links, InitListHead(p))
    /\ order' = [order EXCEPT ![p] = th[t].want]
    /\ status' = [status EXCEPT ![p] = "USED"]
    /\ live' = live \cup {<<p, th[t].want>>}
    /\ Goto(t, Idle)
    /\ UNCHANGED <<boot, withheld>>

FreePages(t, b) ==
    /\ Begins(t)
    /\ live' = live \ {b}
    /\ Goto(t, [pc |-> "merge", target |-> b[1], current_order |-> order[b[1]]])
    /\ UNCHANGED <<links, pages, boot, withheld>>

MergeStep(t) ==
    /\ At(t, "merge")
    /\ MayMerge(t)
    /\ Goto(t, IF Buddy(t) \in Page
               THEN [target |-> IF th[t].target < Buddy(t) THEN th[t].target
                                ELSE Buddy(t),
                     current_order |-> th[t].current_order + 1,
                     stores |-> ListDel(links, Buddy(t))]
               ELSE [pc |-> "wild"])
    /\ UNCHANGED <<links, pages, boot, withheld, live>>

InsertStep(t) ==
    LET p == th[t].target
        k == th[t].current_order IN
    /\ At(t, "merge")
    /\ ~ MayMerge(t)
    /\ status' = [status EXCEPT ![p] = "FREE"]
    /\ order' = [order EXCEPT ![p] = k]
    /\ Goto(t, [pc |-> "end", stores |-> ListAdd(links, p, ListHead(k))])
    /\ UNCHANGED <<links, boot, withheld, live>>

End(t) ==
    /\ At(t, "end")
    /\ Goto(t, Idle)
    /\ UNCHANGED <<links, pages, boot, withheld, live>>

-----------------------------------------------------------------------------
ListsNext ==
    \/ \E r \in Ranges : ReserveCall(r)
    \/ ReserveVisit \/ ReserveLevel
    \/ \E t \in Threads :
          \/ StoreStep(t)
          \/ \E k \in Orders : AllocatePages(t, k)
          \/ Scan(t) \/ Pop(t) \/ SplitStep(t) \/ ReturnStep(t)
          \/ \E b \in live : FreePages(t, b)
          \/ MergeStep(t) \/ InsertStep(t) \/ End(t)

ListsSpec == ListsInit /\ [][ListsNext]_listsVars

-----------------------------------------------------------------------------
(* Properties                                                              *)

Calls == {"idle", "scan", "pop", "split", "merge", "end", "wild"}

\* Pointers point to pages or list heads, threads are where their code is.
LinksTyped ==
    /\ links \in [next : [Node -> Node], prev : [Node -> Node]]
    /\ order \in [Page -> Orders \cup {-1}]
    /\ status \in [Page -> {"FREE", "USED", "RESERVED"}]
    /\ \A t \in Threads : th[t].pc \in Calls /\ th[t].target \in Page
    /\ running \in Threads /\ cuts \in 0 .. MaxCuts

Quiet == Booted /\ \A t \in Threads : th[t].pc = "idle"

(* What follows holds unless a tick took the processor from a call that    *)
(* had seen a list with entries, held a block or was in the middle of its  *)
(* stores: while a call still searches, and after its last store, a tick   *)
(* is harmless.  The merge loop can do without a tick: it takes a reserved *)
(* block for a free one and takes it off a list it is not on.              *)

\* Between calls every free list is a sound ring, and it holds exactly the
\* blocks of its order that no one holds: each page of the pool is in one
\* listed, live or withheld block.
RingsHoldTheRest ==
    Quiet /\ ~ torn =>
        /\ \A k \in Orders : Sound(links, ListHead(k))
        /\ \A k \in Orders : Walk(links, ListHead(k)) \subseteq Page
        /\ Partition(({"free"} \X {b \in Page \X Orders :
                                     b[1] \in Walk(links, ListHead(b[2]))})
                     \cup ({"live"} \X live) \cup ({"withheld"} \X withheld))

\* list.h on list_first_entry: "Note, that list is expected to be not empty."
FirstEntryOfNonEmpty == ~ torn => \A t \in Threads : th[t].pc # "wild"

\* Memory that main reserved is never handed out by buddy_malloc.
ReservedStaysReserved == ~ torn => \A b \in live, c \in withheld : Apart(b, c)

\* No two callers hold the same page, whatever the pointers did.
NoDoubleAllocation == ~ torn => \A b, c \in live : b # c => Apart(b, c)

(* The lists, and with them who holds what, are sound unless torn.         *)
ListsSound ==
    /\ LinksTyped
    /\ RingsHoldTheRest
    /\ FirstEntryOfNonEmpty
    /\ ReservedStaysReserved
    /\ NoDoubleAllocation

\* What is allocated and freed is what PageAllocator promises.
Promised == INSTANCE PageAllocator WITH refused <- -1
ListsPromise ==
    Promised!Init /\ [][~ torn' => Promised!Next \/ UNCHANGED Promised!vars]_listsVars
=============================================================================
