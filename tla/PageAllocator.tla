--------------------------- MODULE PageAllocator ---------------------------
(***************************************************************************)
(* What the page allocator promises its callers, without a free list in    *)
(* sight: a caller owns the pages of its block alone until it gives it     *)
(* back, the pages memory_reserve withheld at boot are never handed out,   *)
(* and an allocation is refused only when no aligned block of the order    *)
(* asked for is wholly unowned.                                            *)
(***************************************************************************)
EXTENDS BlockGeometry

VARIABLES
    live,       \* blocks handed out by buddy_malloc and not freed
    withheld,   \* blocks taken out of circulation by memory_reserve
    refused     \* the order of the last refused request, -1 when none

vars == <<live, withheld, refused>>

Unowned(b) == \A c \in live \cup withheld : Apart(b, c)

Init ==
    /\ live = {}
    /\ withheld = {}
    /\ refused = -1

Withhold(b) ==
    /\ live = {}
    /\ Unowned(b)
    /\ withheld' = withheld \cup {b}
    /\ UNCHANGED <<live, refused>>

Allocate(b) ==
    /\ Unowned(b)
    /\ live' = live \cup {b}
    /\ refused' = -1
    /\ UNCHANGED withheld

Refuse(k) ==
    /\ \A b \in Block : b[2] = k => ~ Unowned(b)
    /\ refused' = k
    /\ UNCHANGED <<live, withheld>>

Release(b) ==
    /\ b \in live
    /\ live' = live \ {b}
    /\ UNCHANGED <<withheld, refused>>

Next ==
    \/ \E b \in Block : Withhold(b) \/ Allocate(b) \/ Release(b)
    \/ \E k \in Orders : Refuse(k)

Spec == Init /\ [][Next]_vars
=============================================================================
