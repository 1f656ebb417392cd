------------------------------ MODULE MCBuddy ------------------------------
(* Small pools for TLC.                                                    *)
EXTENDS Buddy, Bitwise

MCPow == [k \in Orders |-> 2 ^ k]

\* Two ranges that overlap in a page, one of them across two top blocks, and
\* one of no length: the inclusive end still takes a page.  One top block
\* stays whole.
MCRanges == {<<2, 3>>, <<3, 4>>, <<6, 6>>}

\* The exclusive or of get_buddy_index is BuddyOf wherever a loop uses it.
ASSUME BuddyIsXor ==
    \A k \in Orders \ {MaxOrder}, p \in Page :
        Aligned(p, k) => BuddyOf(p, k) = (p ^^ Pow[k])
=============================================================================
