---------------------------- MODULE KernelList -----------------------------
(***************************************************************************)
(* The circular doubly linked lists of include/lib/list.h.  The links of   *)
(* all nodes, list heads included, are a record of two functions; an       *)
(* operation is the sequence of stores it makes, so that a module can run  *)
(* it store by store (BuddyList) or at once (Slab).                        *)
(***************************************************************************)
EXTENDS Naturals, Sequences, SequencesExt

Store(field, node, value) == [field |-> field, node |-> node, value |-> value]

Apply(links, s) == [links EXCEPT ![s.field][s.node] = s.value]

ApplyAll(links, stores) == FoldLeft(Apply, links, stores)

\* INIT_LIST_HEAD
InitListHead(n) == <<Store("next", n, n), Store("prev", n, n)>>

\* __list_add(new, prev, next)
ListAddBetween(new, prev, next) ==
    << Store("prev", next, new), Store("next", new, next),
       Store("prev", new, prev), Store("next", prev, new) >>

\* A slip: the tail for the head.
ListAddOpen(links, new, head) ==
    ListAddBetween(new, links.prev[head], links.next[head])

\* list_add and list_add_tail: the neighbour is read before the stores.
ListAdd(links, new, head)     == ListAddBetween(new, head, links.next[head])

ListAddTail(links, new, head) == ListAddBetween(new, links.prev[head], head)

\* list_del: entry->prev and entry->next are read, then __list_del.
ListDel(links, entry) ==
    << Store("prev", links.next[entry], links.prev[entry]),
       Store("next", links.prev[entry], links.next[entry]) >>

ListEmpty(links, head) == links.next[head] = head

\* Nodes that point to themselves, as INIT_LIST_HEAD leaves them.
SelfLinked(nodes) ==
    [next |-> [n \in nodes |-> n], prev |-> [n \in nodes |-> n]]

\* What a walk along next from head meets before it comes back to head, cut
\* short after as many steps as there are nodes.
Walk(links, head) ==
    LET nodes == DOMAIN links.next
        at[i \in Nat] == IF i = 0 THEN head ELSE links.next[at[i - 1]]
    IN  {at[i] : i \in {j \in 1 .. Cardinality(nodes) :
                            \A m \in 1 .. j : at[m] # head}}

\* A sound list: every node on the walk and the head are the prev of their next.
Sound(links, head) ==
    \A n \in {head} \cup Walk(links, head) : links.prev[links.next[n]] = n
=============================================================================
