---------------------------- MODULE MCBuddyList ----------------------------
EXTENDS BuddyList, TLC

MCPow == [k \in Orders |-> 2 ^ k]

\* A whole top block: nothing free is left beside what is reserved.
WholeBlock == {<<0, 3>>}

\* The links buddy_init leaves, from its calls of list_add_tail.
ASSUME InitLinksAssumption ==
    InitLinks =
        ApplyAll(SelfLinked(Node),
            FlattenSeq([i \in 1 .. NumPages \div Top |->
                ListAddBetween((i - 1) * Top,
                    IF i = 1 THEN ListHead(MaxOrder) ELSE (i - 2) * Top,
                    ListHead(MaxOrder))]))

ThreadsAlike == Permutations(Threads)
=============================================================================
