--------------------------- MODULE BlockGeometry ---------------------------
(***************************************************************************)
(* The arithmetic of power-of-two blocks of pages, shared by the abstract  *)
(* page allocator and by the buddy system (kernel/buddy.c).  Pages are     *)
(* indices into page_pool; a block is a pair <<first page, order>> and     *)
(* holds Pow[order] pages.                                                 *)
(***************************************************************************)
EXTENDS Integers

CONSTANTS
    MaxOrder,   \* MAX_ORDER of buddy.h
    NumPages,   \* the pages buddy_init is given
    Pow         \* Pow[k] is 1 << k

Orders == 0 .. MaxOrder

(***************************************************************************)
(* Pow is the function k |-> 2^k, described by its first value, by         *)
(* doubling, and by the divisibility that follows from them by induction   *)
(* on the order.  buddy_init is only called with a whole number of blocks  *)
(* of the top order: main.c hands it 0x3C000 pages, 240 times 2^10.        *)
(***************************************************************************)
ASSUME OrderAssumption == MaxOrder \in Nat

ASSUME PowAssumption ==
    /\ Pow \in [Orders -> Nat \ {0}]
    /\ Pow[0] = 1
    /\ \A k \in Orders \ {MaxOrder} : Pow[k + 1] = 2 * Pow[k]
    /\ \A j, k \in Orders :
          j <= k => \E m \in 1 .. Pow[k] : Pow[k] = m * Pow[j]

ASSUME PoolAssumption ==
    /\ NumPages \in Nat \ {0}
    /\ \E q \in 1 .. NumPages : NumPages = q * Pow[MaxOrder]

Page == 0 .. NumPages - 1

Aligned(p, k) == \E q \in 0 .. p : p = q * Pow[k]

\* The pages of a block.
Span(b) == b[1] .. b[1] + Pow[b[2]] - 1

\* The blocks the pool can be cut into.
Block == {b \in Page \X Orders : Aligned(b[1], b[2])}

Apart(b, c) == Span(b) \cap Span(c) = {}

\* The blocks of a set of <<holder, block>> pairs cut the pool: no page is in
\* two of them and none is left out.
Partition(H) ==
    /\ \A g, h \in H : g # h => Apart(g[2], h[2])
    /\ \A x \in Page : \E h \in H : x \in Span(h[2])

(***************************************************************************)
(* get_buddy_index: index ^ (1 << order).  For an index aligned to the     *)
(* order the exclusive or sets or clears one bit, which is an addition or  *)
(* a subtraction; MCBuddy evaluates the two against each other.            *)
(***************************************************************************)
BuddyOf(p, k) == IF Aligned(p, k + 1) THEN p + Pow[k] ELSE p - Pow[k]
=============================================================================
