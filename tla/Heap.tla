-------------------------------- MODULE Heap -------------------------------
(***************************************************************************)
(* What allocate and free promise their callers: the bytes of an           *)
(* allocation lie in memory that no other allocation has.  A caller keeps  *)
(* what it was given in one of its pointers.                               *)
(***************************************************************************)
EXTENDS Integers

CONSTANTS Pointers, NULL

VARIABLE held   \* held[v] is [addr, size], or NULL

Bytes(r) == r.addr .. r.addr + r.size - 1

Disjoint(r, s) == Bytes(r) \cap Bytes(s) = {}

Init == held = [v \in Pointers |-> NULL]

Allocate(v) ==
    /\ held[v] = NULL
    /\ held'[v] # NULL
    /\ held'[v].size \in Nat
    /\ \A w \in Pointers \ {v} :
          /\ held'[w] = held[w]
          /\ held[w] # NULL => Disjoint(held'[v], held[w])

Release(v) ==
    /\ held[v] # NULL
    /\ held' = [held EXCEPT ![v] = NULL]

Next == \E v \in Pointers : Allocate(v) \/ Release(v)

Spec == Init /\ [][Next]_held
=============================================================================
