---------------------------- MODULE BuddyPages -----------------------------
(***************************************************************************)
(* What Buddy and BuddyList share: the headers of the pages, the calls of  *)
(* main to memory_reserve, and the history of who got which block.         *)
(***************************************************************************)
EXTENDS BlockGeometry

CONSTANT Ranges     \* the page ranges main passes to memory_reserve

\* Each call of main gives an address and its last byte: start <= end.
ASSUME RangesAssumption ==
    /\ Ranges \subseteq (Nat \X Nat)
    /\ \A r \in Ranges : r[1] <= r[2]

VARIABLES
    order,          \* page_t.order of every page; stale inside a block
    status,         \* page_t.status of every page; stale inside a block
    withheld,       \* history: blocks memory_reserve took off the lists
    live            \* history: blocks returned by buddy_malloc, not freed

pages == <<order, status>>

Status == {"FREE", "USED", "RESERVED"}
=============================================================================
