---------------------------- MODULE BuddyProofs ----------------------------
(***************************************************************************)
(* The safety of the buddy system for every pool and every list of         *)
(* reservations.  The invariants TLC checks are not inductive one by one:  *)
(* a merge keeps the partition because the header of the buddy tells the   *)
(* truth, and headers tell the truth because no other block starts inside  *)
(* the block whose header is written, which is the partition again.  IInv  *)
(* puts them together with what each pc knows.                             *)
(*                                                                         *)
(* The second half is about BuddyList, the same calls pointer by pointer   *)
(* and thread by thread.  What a free list holds is said by a closure, not *)
(* by a walk (Ring), so that list_del and list_add need no induction along *)
(* the list; the partition is then the one of the links as they will be    *)
(* when the call under way has made its stores (Made, Sane, LInv).         *)
(***************************************************************************)
EXTENDS Buddy, BuddyList, FiniteSetTheorems, SequenceTheorems, WellFoundedInduction, TLAPS

\* Every block anyone holds is a block the pool can be cut into.
HeldBlocks == \A h \in Holdings : h[2] \in Block

\* What is known at each pc.
Progress ==
    /\ pc = "split" => want <= current_order
    /\ pc \in {"boot", "reserve"} =>
          /\ live = {}
          /\ \A x \in Page : status[x] # "FREE" =>
                \E k \in Orders : <<x, k>> \in withheld
    /\ Ranges = {} => pc # "reserve" /\ withheld = {}
    /\ OnlyReservedMisleads

IInv ==
    /\ TypeOK
    /\ HeldBlocks
    /\ EveryPageHeldOnce
    /\ HeadersTell
    /\ Progress

-----------------------------------------------------------------------------
(* Arithmetic                                                              *)

\* A size is a positive number.
LEMMA PowPositive == ASSUME NEW k \in Orders
                     PROVE  Pow[k] \in Nat /\ Pow[k] > 0
  BY PowAssumption DEF Orders

\* The size of the next order is twice the size of this one.
LEMMA PowDoubles ==
    ASSUME NEW k \in Orders, k < MaxOrder
    PROVE  k + 1 \in Orders /\ Pow[k + 1] = 2 * Pow[k]
  BY PowAssumption, OrderAssumption DEF Orders

\* Multiplication by a size is monotonic.
LEMMA TimesMonotonic ==
    ASSUME NEW x \in Int, NEW y \in Int, NEW n \in Nat, x <= y
    PROVE  x * n <= y * n
  OBVIOUS

\* A product bounds its factors (Aligned asks for a bounded witness).
LEMMA TimesBounds ==
    ASSUME NEW q \in Nat, NEW n \in Nat, n > 0
    PROVE  q * n \in Nat /\ q \in 0 .. q * n
  <1>1. q * n \in Nat
    OBVIOUS
  <1>2. q * 1 <= q * n
    OBVIOUS
  <1> QED  BY <1>1, <1>2

\* A multiple of a size is aligned to its order.
LEMMA AlignedIntro ==
    ASSUME NEW q \in Nat, NEW k \in Orders
    PROVE  Aligned(q * Pow[k], k)
  BY PowPositive, TimesBounds DEF Aligned

\* A block aligned to an order is aligned to every order below it.
LEMMA AlignedBelow ==
    ASSUME NEW p \in Nat, NEW j \in Orders, NEW k \in Orders, j <= k,
           Aligned(p, k)
    PROVE  Aligned(p, j)
  <1>1. PICK a \in 0 .. p : p = a * Pow[k]
    BY DEF Aligned
  <1>2. PICK m \in 1 .. Pow[k] : Pow[k] = m * Pow[j]
    BY PowAssumption
  <1>3. Pow[j] \in Nat /\ Pow[k] \in Nat
    BY PowPositive
  <1>4. p = (a * m) * Pow[j] /\ a * m \in Nat
    BY <1>1, <1>2, <1>3
  <1> QED  BY <1>4, AlignedIntro

\* Two aligned blocks are apart, or the smaller lies inside the larger.
LEMMA Nested ==
    ASSUME NEW p \in Nat, NEW q \in Nat, NEW j \in Orders, NEW k \in Orders,
           j <= k, Aligned(p, k), Aligned(q, j)
    PROVE  \/ q + Pow[j] <= p
           \/ p + Pow[k] <= q
           \/ p <= q /\ q + Pow[j] <= p + Pow[k]
  <1>1. PICK a \in 0 .. p : p = a * Pow[j]
    BY AlignedBelow DEF Aligned
  <1>2. PICK b \in 0 .. q : q = b * Pow[j]
    BY DEF Aligned
  <1>3. PICK m \in 1 .. Pow[k] : Pow[k] = m * Pow[j]
    BY PowAssumption
  <1>4. Pow[j] \in Nat /\ Pow[k] \in Nat /\ a \in Nat /\ b \in Nat /\ m \in Nat
    BY PowPositive
  <1>5. /\ q + Pow[j] = (b + 1) * Pow[j]
        /\ p + Pow[k] = (a + m) * Pow[j]
    BY <1>1, <1>2, <1>3, <1>4
  <1>6. CASE b + 1 <= a
    <2>1. (b + 1) * Pow[j] <= a * Pow[j]
      BY <1>4, <1>6, TimesMonotonic
    <2> QED  BY <2>1, <1>1, <1>5
  <1>7. CASE a + m <= b
    <2>1. (a + m) * Pow[j] <= b * Pow[j]
      BY <1>4, <1>7, TimesMonotonic
    <2> QED  BY <2>1, <1>2, <1>5
  <1>8. CASE a <= b /\ b + 1 <= a + m
    <2>1. a * Pow[j] <= b * Pow[j] /\ (b + 1) * Pow[j] <= (a + m) * Pow[j]
      BY <1>4, <1>8, TimesMonotonic
    <2> QED  BY <2>1, <1>1, <1>2, <1>5
  <1> QED  BY <1>4, <1>6, <1>7, <1>8

\* An aligned block that starts in the pool ends in it.
LEMMA BlockInPool ==
    ASSUME NEW p \in Page, NEW k \in Orders, Aligned(p, k)
    PROVE  p + Pow[k] <= NumPages
  <1>1. PICK q \in 1 .. NumPages : NumPages = q * Pow[MaxOrder]
    BY PoolAssumption
  <1>2. MaxOrder \in Orders /\ NumPages \in Nat
    BY OrderAssumption, PoolAssumption DEF Orders
  <1>3. Aligned(NumPages, MaxOrder)
    BY <1>1, <1>2, AlignedIntro
  <1>4. Aligned(NumPages, k)
    BY <1>2, <1>3, AlignedBelow DEF Orders
  <1>5. PICK c \in 0 .. NumPages : NumPages = c * Pow[k]
    BY <1>4 DEF Aligned
  <1>6. PICK a \in 0 .. p : p = a * Pow[k]
    BY DEF Aligned
  <1>7. Pow[k] \in Nat /\ a \in Nat /\ c \in Nat /\ p < NumPages
    BY PowPositive, <1>2 DEF Page
  <1>8. ~ c <= a
    BY <1>5, <1>6, <1>7, TimesMonotonic
  <1>9. (a + 1) * Pow[k] <= c * Pow[k]
    BY <1>7, <1>8, TimesMonotonic
  <1> QED  BY <1>5, <1>6, <1>7, <1>9

-----------------------------------------------------------------------------
(* Buddies                                                                 *)

\* A block of the pool is a pair of a page and an order.
LEMMA BlockFields ==
    ASSUME NEW b \in Block
    PROVE  /\ b = <<b[1], b[2]>> /\ b[1] \in Page /\ b[2] \in Orders
           /\ Aligned(b[1], b[2])
           /\ b[1] \in Int /\ b[1] >= 0 /\ b[2] \in Int /\ Pow[b[2]] \in Nat
           /\ Pow[b[2]] > 0
           /\ b[1] + Pow[b[2]] <= NumPages
           /\ Span(b) \subseteq Page /\ b[1] \in Span(b)
  <1>1. b = <<b[1], b[2]>> /\ b[1] \in Page /\ b[2] \in Orders /\ Aligned(b[1], b[2])
    BY DEF Block
  <1>2. Pow[b[2]] \in Nat /\ Pow[b[2]] > 0
    BY <1>1, PowPositive
  <1>3. b[1] + Pow[b[2]] <= NumPages
    BY <1>1, BlockInPool
  <1> QED  BY <1>1, <1>2, <1>3, PoolAssumption, OrderAssumption
           DEF Page, Orders, Span

\* The halves of a block are a block, its buddy, and together the block.
LEMMA Halves ==
    ASSUME NEW p, NEW k \in Orders, k < MaxOrder, <<p, k + 1>> \in Block
    PROVE  /\ BuddyOf(p, k) = p + Pow[k]
           /\ <<p, k>> \in Block /\ <<p + Pow[k], k>> \in Block
           /\ Span(<<p, k + 1>>) = Span(<<p, k>>) \cup Span(<<p + Pow[k], k>>)
           /\ Apart(<<p, k>>, <<p + Pow[k], k>>)
  <1>1. /\ k + 1 \in Orders /\ Pow[k + 1] = 2 * Pow[k]
        /\ Pow[k] \in Nat /\ Pow[k] > 0
    BY PowDoubles, PowPositive
  <1>2. /\ p \in Page /\ Aligned(p, k + 1) /\ p + Pow[k + 1] <= NumPages
        /\ p \in Nat /\ NumPages \in Nat
    BY BlockFields, PoolAssumption DEF Block, Page
  <1>3. PICK a \in 0 .. p : p = a * Pow[k + 1]
    BY <1>2 DEF Aligned
  <1>4. a \in Nat /\ p = (2 * a) * Pow[k] /\ p + Pow[k] = (2 * a + 1) * Pow[k]
    BY <1>1, <1>2, <1>3
  <1>5. Aligned(p, k) /\ Aligned(p + Pow[k], k)
    <2>1. 2 * a \in Nat /\ 2 * a + 1 \in Nat
      BY <1>4
    <2> QED  BY <2>1, <1>4, AlignedIntro
  <1>6. p + Pow[k] \in Page
    BY <1>1, <1>2 DEF Page
  <1>7. <<p, k>> \in Block /\ <<p + Pow[k], k>> \in Block
    BY <1>2, <1>5, <1>6 DEF Block
  <1>8. Span(<<p, k + 1>>) = Span(<<p, k>>) \cup Span(<<p + Pow[k], k>>)
    BY <1>1, <1>2 DEF Span
  <1>9. Apart(<<p, k>>, <<p + Pow[k], k>>)
    BY <1>1, <1>2 DEF Span, Apart
  <1> QED  BY <1>2, <1>7, <1>8, <1>9 DEF BuddyOf

\* A block and its buddy are the halves of a block one order up, which
\* starts at the lower of the two.
LEMMA BuddyPair ==
    ASSUME NEW p, NEW k \in Orders, k < MaxOrder, <<p, k>> \in Block,
           NEW b, b = BuddyOf(p, k),
           NEW low, low = IF p < b THEN p ELSE b
    PROVE  /\ <<b, k>> \in Block /\ <<low, k + 1>> \in Block
           /\ p # b /\ Apart(<<p, k>>, <<b, k>>)
           /\ Span(<<low, k + 1>>) = Span(<<p, k>>) \cup Span(<<b, k>>)
  <1>1. /\ k + 1 \in Orders /\ Pow[k + 1] = 2 * Pow[k]
        /\ Pow[k] \in Nat /\ Pow[k] > 0
    BY PowDoubles, PowPositive
  <1>2. p \in Page /\ p \in Nat /\ Aligned(p, k) /\ p \in Int
    BY BlockFields, PoolAssumption DEF Block, Page
  <1>3. CASE Aligned(p, k + 1)
    <2>1. <<p, k + 1>> \in Block
      BY <1>1, <1>2, <1>3 DEF Block
    <2>2. b = p + Pow[k] /\ low = p
      BY <1>1, <1>2, <1>3 DEF BuddyOf
    <2> QED  BY <2>1, <2>2, <1>1, <1>2, Halves
  <1>4. CASE ~ Aligned(p, k + 1)
    <2>1. PICK a \in 0 .. p : p = a * Pow[k]
      BY <1>2 DEF Aligned
    <2>2. a \in Nat
      BY <1>2, <2>1
    <2>3. PICK q \in Nat : a = 2 * q \/ a = 2 * q + 1
      <3>1. a \div 2 \in Nat
        BY <2>2
      <3>2. a = 2 * (a \div 2) \/ a = 2 * (a \div 2) + 1
        BY <2>2
      <3> QED  BY <3>1, <3>2
    <2>4. a # 2 * q
      <3>1. SUFFICES ASSUME a = 2 * q PROVE FALSE
        OBVIOUS
      <3>2. p = q * Pow[k + 1]
        BY <1>1, <2>1, <3>1
      <3> QED  BY <3>2, <1>1, <1>4, AlignedIntro
    <2>5. b = p - Pow[k] /\ p = (2 * q + 1) * Pow[k]
      BY <1>4, <2>1, <2>3, <2>4 DEF BuddyOf
    <2>6. b = q * Pow[k + 1] /\ b \in Nat
      <3>1. b = (2 * q) * Pow[k]
        BY <2>5, <2>3, <1>1
      <3>2. b = q * Pow[k + 1]
        BY <3>1, <1>1
      <3> QED  BY <3>2, <1>1, TimesBounds
    <2>7. low = b /\ b \in Page /\ p = b + Pow[k]
      BY <2>5, <2>6, <1>1, <1>2, PoolAssumption DEF Page
    <2>8. <<b, k + 1>> \in Block
      BY <2>6, <2>7, <1>1, AlignedIntro DEF Block
    <2>9. Apart(<<p, k>>, <<b, k>>)
      BY <2>8, <2>7, Halves DEF Apart
    <2> QED  BY <2>7, <2>8, <2>9, <1>1, <1>2, Halves
  <1> QED  BY <1>3, <1>4

\* The buddy of the buddy is the block itself.
LEMMA BuddyTwice ==
    ASSUME NEW p, NEW k \in Orders, k < MaxOrder, <<p, k>> \in Block
    PROVE  BuddyOf(BuddyOf(p, k), k) = p
  <1> DEFINE b == BuddyOf(p, k)
  <1>1. /\ k + 1 \in Orders /\ Pow[k + 1] = 2 * Pow[k]
        /\ Pow[k] \in Nat /\ Pow[k] > 0
    BY PowDoubles, PowPositive
  <1>2. /\ <<b, k>> \in Block /\ p # b
        /\ <<IF p < b THEN p ELSE b, k + 1>> \in Block
    BY BuddyPair
  <1>3. p \in Nat /\ b \in Nat
    BY <1>2, PoolAssumption DEF Block, Page
  <1>4. CASE Aligned(p, k + 1)
    <2>1. b = p + Pow[k]
      BY <1>4 DEF BuddyOf
    <2>2. ~ Aligned(b, k + 1)
      <3>1. SUFFICES ASSUME Aligned(b, k + 1) PROVE FALSE
        OBVIOUS
      <3>2. k + 1 <= k + 1
        BY <1>1, OrderAssumption DEF Orders
      <3>3. \/ b + Pow[k + 1] <= p
            \/ p + Pow[k + 1] <= b
            \/ p <= b /\ b + Pow[k + 1] <= p + Pow[k + 1]
        BY <1>1, <1>3, <1>4, <3>1, <3>2, Nested
      <3> HIDE DEF b
      <3> QED  BY <3>3, <2>1, <1>1, <1>3
    <2>3. BuddyOf(b, k) = b - Pow[k]
      BY <2>2 DEF BuddyOf
    <2>4. b - Pow[k] = p
      BY <2>1, <1>1, <1>3
    <2> QED  BY <2>3, <2>4
  <1>5. CASE ~ Aligned(p, k + 1)
    <2>1. b = p - Pow[k]
      BY <1>5 DEF BuddyOf
    <2>2. Aligned(b, k + 1)
      <3>1. (IF p < b THEN p ELSE b) = b
        BY <2>1, <1>1, <1>3
      <3>2. <<b, k + 1>> \in Block
        BY <3>1, <1>2
      <3> QED  BY <3>2 DEF Block
    <2>3. BuddyOf(b, k) = b + Pow[k]
      BY <2>2 DEF BuddyOf
    <2>4. b + Pow[k] = p
      BY <2>1, <1>1, <1>3
    <2> QED  BY <2>3, <2>4
  <1> QED  BY <1>4, <1>5

\* A set of natural numbers has a least element.
LEMMA LeastNat ==
    ASSUME NEW T, T \subseteq Nat, T # {}
    PROVE  \E x \in T : \A y \in T : x <= y
  <1>1. PICK x \in T : \A y \in T : ~ (<<y, x>> \in OpToRel(<, Nat))
    BY WFMin, NatLessThanWellFounded, Zenon
  <1>2. \A y \in T : y \in Nat /\ x \in Nat
    OBVIOUS
  <1>3. \A y \in T : ~ (y < x)
    BY <1>1, <1>2, Zenon DEF OpToRel
  <1> QED  BY <1>2, <1>3

-----------------------------------------------------------------------------
(* Partitions                                                              *)

\* Handing a block to another holder keeps a partition.
LEMMA HandOver ==
    ASSUME NEW H, NEW h \in H, NEW g, Partition(H), g[2] = h[2]
    PROVE  Partition((H \ {h}) \cup {g})
  BY DEF Partition, Apart

\* Cutting a block in two keeps a partition.
LEMMA Cut ==
    ASSUME NEW H, NEW h \in H, NEW g1, NEW g2, Partition(H),
           Span(h[2]) = Span(g1[2]) \cup Span(g2[2]), Apart(g1[2], g2[2])
    PROVE  Partition((H \ {h}) \cup {g1, g2})
  BY DEF Partition, Apart

\* Joining two blocks keeps a partition.
LEMMA Join ==
    ASSUME NEW H, NEW h1 \in H, NEW h2 \in H, NEW g, Partition(H),
           Span(g[2]) = Span(h1[2]) \cup Span(h2[2])
    PROVE  Partition((H \ {h1, h2}) \cup {g})
  BY DEF Partition, Apart

\* In a partition of the pool, the buddy of a block is the first page of a
\* block that is not larger: what __free_pages reads there is a header.
LEMMA BuddyIsHead ==
    ASSUME NEW H, Partition(H), \A h \in H : h[2] \in Block,
           NEW h \in H, NEW p, NEW k \in Orders, h[2] = <<p, k>>, k < MaxOrder
    PROVE  \E g \in H : g[2][1] = BuddyOf(p, k) /\ g[2][2] <= k /\ g # h
  <1> DEFINE b == BuddyOf(p, k)
  <1>1. /\ <<p, k>> \in Block /\ <<b, k>> \in Block /\ p # b
        /\ Apart(<<p, k>>, <<b, k>>)
        /\ p + Pow[k] <= b \/ b + Pow[k] <= p
        /\ p \in Nat /\ b \in Nat /\ b \in Page
        /\ Aligned(p, k) /\ Aligned(b, k)
    <2>1. <<p, k>> \in Block
      OBVIOUS
    <2>2. <<b, k>> \in Block /\ p # b /\ Apart(<<p, k>>, <<b, k>>)
      BY <2>1, BuddyPair
    <2>3. p \in Nat /\ b \in Nat /\ b \in Page /\ Aligned(p, k) /\ Aligned(b, k)
      BY <2>1, <2>2, PoolAssumption DEF Block, Page
    <2>4. b = p + Pow[k] \/ b = p - Pow[k]
      BY DEF BuddyOf
    <2> QED  BY <2>1, <2>2, <2>3, <2>4, PowPositive
  <1>2. PICK g \in H : b \in Span(g[2])
    BY <1>1 DEF Partition
  <1> DEFINE q == g[2][1]
             j == g[2][2]
  <1>3. /\ g[2] \in Block /\ g[2] = <<q, j>> /\ q \in Nat /\ j \in Orders
        /\ Aligned(q, j) /\ j \in Int /\ k \in Int
        /\ Pow[j] \in Nat /\ Pow[k] \in Nat /\ Pow[k] > 0
        /\ q <= b /\ b < q + Pow[j]
    <2>1. g[2] \in Block
      OBVIOUS
    <2>2. /\ g[2] = <<q, j>> /\ q \in Page /\ j \in Orders /\ Aligned(q, j)
          /\ Pow[j] \in Nat
      BY <2>1, BlockFields
    <2>3. q \in Nat /\ j \in Int /\ k \in Int
      BY <2>2, PoolAssumption, OrderAssumption DEF Page, Orders
    <2>4. q <= b /\ b < q + Pow[j]
      BY <1>1, <1>2, <2>2, <2>3 DEF Span
    <2> QED  BY <2>1, <2>2, <2>3, <2>4, PowPositive
  <1>4. g # h
    BY <1>1, <1>3, PowPositive
  <1>5. j <= k
    <2>1. SUFFICES ASSUME k < j PROVE FALSE
      BY <1>3
    <2>2. k + 1 \in Orders /\ k + 1 <= j /\ Pow[k + 1] = 2 * Pow[k]
      BY <1>3, <2>1, PowDoubles
    <2> DEFINE low == IF p < b THEN p ELSE b
    <2>3. <<low, k + 1>> \in Block
      BY <1>1, BuddyPair
    <2>4. low \in Nat /\ Aligned(low, k + 1)
      BY <1>1, <2>3 DEF Block
    <2>5. \/ low + Pow[k + 1] <= q
          \/ q + Pow[j] <= low
          \/ q <= low /\ low + Pow[k + 1] <= q + Pow[j]
      BY <1>3, <2>2, <2>4, Nested
    <2>6. b = p + Pow[k] \/ b = p - Pow[k]
      BY DEF BuddyOf
    <2>7. q <= p /\ p < q + Pow[j]
      BY <1>1, <1>3, <2>2, <2>5, <2>6
    <2>8. p \in Span(g[2]) /\ p \in Span(h[2])
      BY <1>1, <1>3, <2>7 DEF Span
    <2> QED  BY <2>8, <1>4 DEF Partition, Apart
  <1>6. q = b
    <2>1. \/ q + Pow[j] <= b
          \/ b + Pow[k] <= q
          \/ b <= q /\ q + Pow[j] <= b + Pow[k]
      BY <1>1, <1>3, <1>5, Nested
    <2> QED  BY <2>1, <1>1, <1>3
  <1> QED  BY <1>4, <1>5, <1>6

-----------------------------------------------------------------------------
(* Holdings                                                                *)

\* Who the holdings are, one by one.
LEMMA HoldingCases ==
    ASSUME NEW h \in Holdings
    PROVE  /\ h = <<h[1], h[2]>>
           /\ \/ h[1] = "free" /\ h[2] \in Listed
              \/ h[1] = "live" /\ h[2] \in live
              \/ h[1] = "withheld" /\ h[2] \in withheld
              \/ h[1] = "hand" /\ h[2] \in InHand
  BY DEF Holdings

LEMMA HoldingIntro ==
    ASSUME NEW b
    PROVE  /\ b \in Listed <=> <<"free", b>> \in Holdings
           /\ b \in live <=> <<"live", b>> \in Holdings
           /\ b \in withheld <=> <<"withheld", b>> \in Holdings
           /\ b \in InHand <=> <<"hand", b>> \in Holdings
  BY DEF Holdings

\* No other block has a given page of a block for its first page.
LEMMA NoOtherHead ==
    ASSUME HeldBlocks, EveryPageHeldOnce, NEW g \in Holdings, NEW h \in Holdings,
           g # h, NEW x \in Span(h[2])
    PROVE  g[2][1] # x
  <1>1. g[2] \in Block
    BY DEF HeldBlocks
  <1>2. g[2][1] \in Span(g[2])
    BY <1>1, BlockFields
  <1> QED  BY <1>2 DEF EveryPageHeldOnce, Partition, Apart

\* A page of a held block is the first page of no other block.
LEMMA OtherHeads ==
    ASSUME HeldBlocks, EveryPageHeldOnce, NEW t, NEW c, <<t, c>> \in Holdings,
           NEW x \in Span(c)
    PROVE  /\ \A b \in Listed : b[1] = x => t = "free" /\ b = c
           /\ \A b \in live : b[1] = x => t = "live" /\ b = c
           /\ \A b \in withheld : b[1] = x => t = "withheld" /\ b = c
  <1> DEFINE h == <<t, c>>
  <1>1. \A g \in Holdings : g # h => g[2][1] # x
    <2> TAKE g \in Holdings
    <2> HAVE g # h
    <2>1. x \in Span(h[2])
      OBVIOUS
    <2> QED  BY <2>1, NoOtherHead
  <1>2. ASSUME NEW u, NEW b, <<u, b>> \in Holdings, b[1] = x
        PROVE  t = u /\ b = c
    <2>1. <<u, b>> = h
      BY <1>1, <1>2
    <2> QED  BY <2>1
  <1> QED  BY <1>2, HoldingIntro

\* Every page has a block of the top order around it.
LEMMA Floor ==
    ASSUME NEW x \in Nat, NEW n \in Nat, n > 0
    PROVE  \E q \in Nat : q * n <= x /\ x < q * n + n
  <1>1. x \div n \in Nat /\ x = n * (x \div n) + (x % n) /\ x % n \in 0 .. n - 1
    OBVIOUS
  <1> QED  BY <1>1

\* The blocks of the top order cut the pool.
LEMMA TopBlocks == Partition({"free"} \X {b \in Block : b[2] = MaxOrder})
  <1> DEFINE T == {b \in Block : b[2] = MaxOrder}
             H == {"free"} \X T
             n == Pow[MaxOrder]
  <1>1. MaxOrder \in Orders /\ n \in Nat /\ n > 0
    BY OrderAssumption, PowPositive DEF Orders
  <1>2. ASSUME NEW g \in H, NEW h \in H, g # h
        PROVE  Apart(g[2], h[2])
    <2>1. g[2] \in T /\ h[2] \in T /\ g[2] # h[2]
      BY <1>2
    <2> DEFINE p == g[2][1]
               q == h[2][1]
    <2>2. p # q /\ p \in Nat /\ q \in Nat /\ Aligned(p, MaxOrder) /\ Aligned(q, MaxOrder)
      BY <2>1, BlockFields
    <2>3. q + n <= p \/ p + n <= q \/ (p <= q /\ q + n <= p + n)
      BY <2>2, <1>1, Nested, OrderAssumption
    <2>4. q + n <= p \/ p + n <= q
      BY <2>2, <2>3, <1>1
    <2> QED  BY <2>1, <2>2, <2>4, <1>1 DEF Apart, Span
  <1>3. ASSUME NEW x \in Page PROVE \E h \in H : x \in Span(h[2])
    <2>1. x \in Nat
      BY PoolAssumption DEF Page
    <2>2. PICK q \in Nat : q * n <= x /\ x < q * n + n
      BY <1>1, <2>1, Floor
    <2> DEFINE p == q * n
    <2>3. p \in Nat /\ p \in Page /\ Aligned(p, MaxOrder)
      BY <1>1, <2>1, <2>2, AlignedIntro, TimesBounds, PoolAssumption DEF Page
    <2>4. <<"free", <<p, MaxOrder>>>> \in H
      BY <1>1, <2>3 DEF Block
    <2>5. x \in Span(<<p, MaxOrder>>)
      BY <1>1, <2>1, <2>2, <2>3 DEF Span
    <2> QED  BY <2>4, <2>5
  <1> QED  BY <1>2, <1>3 DEF Partition

-----------------------------------------------------------------------------
(* Initially                                                               *)

LEMMA InitInv == Init => IInv
  <1> SUFFICES ASSUME Init PROVE IInv
    OBVIOUS
  <1>1. /\ MaxOrder \in Orders /\ 0 \in Orders /\ 0 \in Page
        /\ Pow[MaxOrder] \in Nat /\ Pow[MaxOrder] > 0
    BY OrderAssumption, PoolAssumption, PowPositive DEF Orders, Page
  <1>2. Listed = {b \in Block : b[2] = MaxOrder}
    BY <1>1 DEF Init, Listed, Block
  <1>3. Holdings = {"free"} \X Listed
    BY DEF Init, Holdings, InHand
  <1>4. TypeOK
    <2>1. nr_free \in [Orders -> Int]
      <3>1. \A k \in Orders : Cardinality(free_area[k]) \in Int
        <4> TAKE k \in Orders
        <4>1. free_area[k] \subseteq Page
          BY DEF Init
        <4>2. IsFiniteSet(0 .. NumPages - 1)
          BY FS_Interval, PoolAssumption
        <4>3. IsFiniteSet(free_area[k])
          BY <4>1, <4>2, FS_Subset DEF Page
        <4>4. Cardinality(free_area[k]) \in Nat
          BY <4>3, FS_CardinalityType
        <4> QED  BY <4>4
      <3> QED  BY <3>1 DEF Init
    <2> QED  BY <1>1, <2>1 DEF Init, TypeOK, Status, PCs
  <1>5. HeldBlocks
    BY <1>2, <1>3 DEF HeldBlocks
  <1>6. EveryPageHeldOnce
    BY <1>2, <1>3, TopBlocks DEF EveryPageHeldOnce
  <1>7. HeadersTell
    BY <1>2, BlockFields DEF Init, HeadersTell
  <1>8. Progress
    BY DEF Init, Progress, OnlyReservedMisleads
  <1> QED  BY <1>4, <1>5, <1>6, <1>7, <1>8 DEF IInv

-----------------------------------------------------------------------------
(* What the two list operations do to Listed                               *)

LEMMA ListedAfterRemove ==
    ASSUME TypeOK, NEW p \in Page, NEW k \in Orders, p \in free_area[k], RemoveFrom(p, k)
    PROVE  /\ Listed' = Listed \ {<<p, k>>} /\ <<p, k>> \in Listed
           /\ free_area' \in [Orders -> SUBSET Page]
           /\ nr_free' \in [Orders -> Int]
  BY DEF TypeOK, Listed, RemoveFrom

LEMMA ListedAfterPush ==
    ASSUME TypeOK, NEW p \in Page, NEW k \in Orders, Push(p, k)
    PROVE  /\ Listed' = Listed \cup {<<p, k>>}
           /\ free_area' \in [Orders -> SUBSET Page]
           /\ nr_free' \in [Orders -> Int]
  BY DEF TypeOK, Listed, Push

-----------------------------------------------------------------------------
(* Every action preserves IInv                                             *)

LEMMA TakeInv ==
    ASSUME IInv, NEW k \in Orders, NEW c \in Orders, NEW p \in Page, Take(k, c, p)
    PROVE  IInv'
  <1> DEFINE g == <<"free", <<p, c>>>>
             h == <<"hand", <<p, c>>>>
  <1>1. /\ TypeOK /\ HeldBlocks /\ EveryPageHeldOnce /\ HeadersTell /\ Progress
        /\ Listed' = Listed \ {<<p, c>>} /\ <<p, c>> \in Listed
        /\ free_area' \in [Orders -> SUBSET Page]
        /\ nr_free' \in [Orders -> Int]
    BY ListedAfterRemove DEF IInv, Take
  <1>2. TypeOK'
    BY <1>1 DEF TypeOK, Take, pages, history, PCs
  <1>3. g \in Holdings /\ Holdings' = (Holdings \ {g}) \cup {h}
    <2>1. /\ InHand = {} /\ InHand' = {<<p, c>>}
          /\ live' = live /\ withheld' = withheld
      BY DEF Take, InHand, history
    <2> QED  BY <1>1, <2>1 DEF Holdings
  <1>4. HeldBlocks'
    BY <1>1, <1>3 DEF HeldBlocks
  <1>5. EveryPageHeldOnce'
    BY <1>1, <1>3, HandOver DEF EveryPageHeldOnce
  <1>6. HeadersTell'
    BY <1>1 DEF HeadersTell, Take, pages, history
  <1>7. Progress'
    BY <1>1, OrderAssumption DEF Progress, Take, OnlyReservedMisleads, Orders, history
  <1> QED  BY <1>2, <1>4, <1>5, <1>6, <1>7 DEF IInv

LEMMA MemoryReserveInv ==
    ASSUME IInv, NEW r \in Ranges, MemoryReserve(r)
    PROVE  IInv'
  <1>1. /\ TypeOK /\ HeldBlocks /\ EveryPageHeldOnce /\ HeadersTell /\ Progress
        /\ UNCHANGED <<pages, free_area, withheld, live>>
    BY DEF IInv, MemoryReserve, lists
  <1>2. TypeOK'
    BY <1>1, RangesAssumption, OrderAssumption
    DEF TypeOK, MemoryReserve, pages, lists, history, PCs, Orders
  <1>3. Holdings' = Holdings
    BY <1>1 DEF Holdings, Listed, InHand, MemoryReserve
  <1>4. HeldBlocks' /\ EveryPageHeldOnce' /\ HeadersTell'
    BY <1>1, <1>3 DEF HeldBlocks, EveryPageHeldOnce, HeadersTell, Listed, pages
  <1>5. Progress'
    BY <1>1 DEF Progress, MemoryReserve, OnlyReservedMisleads, pages
  <1> QED  BY <1>2, <1>4, <1>5 DEF IInv

LEMMA ReserveBlockInv ==
    ASSUME IInv, NEW p \in Page, ReserveBlock(p)
    PROVE  IInv'
  <1> DEFINE k == current_order
             g == <<"free", <<p, k>>>>
             h == <<"withheld", <<p, k>>>>
  <1>1. /\ TypeOK /\ HeldBlocks /\ EveryPageHeldOnce /\ HeadersTell /\ Progress
        /\ k \in Orders /\ p \in free_area[k] /\ pc = "reserve" /\ live = {}
    BY DEF IInv, TypeOK, Progress, ReserveBlock
  <1>2. /\ Listed' = Listed \ {<<p, k>>} /\ <<p, k>> \in Listed
        /\ free_area' \in [Orders -> SUBSET Page]
        /\ nr_free' \in [Orders -> Int]
    BY <1>1, ListedAfterRemove DEF ReserveBlock
  <1>3. TypeOK'
    BY <1>1, <1>2 DEF TypeOK, ReserveBlock, frame, Status
  <1>4. g \in Holdings /\ Holdings' = (Holdings \ {g}) \cup {h}
    <2>1. /\ InHand = {} /\ InHand' = {}
          /\ live' = live /\ withheld' = withheld \cup {<<p, k>>}
      BY <1>1 DEF ReserveBlock, InHand
    <2> QED  BY <1>2, <2>1 DEF Holdings
  <1>5. HeldBlocks'
    BY <1>1, <1>4 DEF HeldBlocks
  <1>6. EveryPageHeldOnce'
    BY <1>1, <1>4, HandOver DEF EveryPageHeldOnce
  <1>7. HeadersTell'
    <2>1. p \in Span(g[2])
      BY <1>1, <1>4, BlockFields DEF HeldBlocks
    <2>2. \A b \in Listed' : b \in Listed /\ b[1] # p
      BY <1>1, <1>2, <1>4, <2>1, OtherHeads
    <2>3. \A b \in withheld : b[1] # p
      BY <1>1, <1>4, <2>1, OtherHeads
    <2>4. \A b \in Listed' : b \in Listed /\ b[1] # p /\ b[1] \in Page
      BY <2>2 DEF Listed
    <2>5. \A b \in withheld : b[1] \in Page
      BY <1>1 DEF TypeOK
    <2>6. order[p] = k
      BY <1>1, <1>2 DEF HeadersTell
    <2> QED  BY <1>1, <2>3, <2>4, <2>5, <2>6
             DEF HeadersTell, ReserveBlock, TypeOK
  <1>8. Progress'
    BY <1>1 DEF Progress, ReserveBlock, OnlyReservedMisleads, TypeOK
  <1> QED  BY <1>3, <1>5, <1>6, <1>7, <1>8 DEF IInv

LEMMA ReserveSplitInv ==
    ASSUME IInv, NEW p \in Page, ReserveSplit(p)
    PROVE  IInv'
  <1> DEFINE k == current_order
             j == k - 1
             buddy == BuddyOf(p, j)
             h  == <<"free", <<p, k>>>>
             g1 == <<"free", <<p, j>>>>
             g2 == <<"free", <<buddy, j>>>>
  <1>1. /\ TypeOK /\ HeldBlocks /\ EveryPageHeldOnce /\ HeadersTell /\ Progress
        /\ k \in Orders /\ p \in free_area[k] /\ pc = "reserve" /\ live = {}
    BY DEF IInv, TypeOK, Progress, ReserveSplit
  <1>2. j \in Orders /\ j < MaxOrder /\ k = j + 1 /\ k # j
    BY <1>1, OrderAssumption DEF ReserveSplit, Within, Orders
  <1>3. <<p, k>> \in Listed /\ h \in Holdings /\ <<p, k>> \in Block
    <2>1. <<p, k>> \in Listed
      BY <1>1 DEF TypeOK, Listed
    <2>2. h \in Holdings
      BY <2>1, HoldingIntro
    <2> QED  BY <1>1, <2>1, <2>2 DEF HeldBlocks
  <1>4. /\ buddy = p + Pow[j] /\ <<p, j>> \in Block /\ <<buddy, j>> \in Block
        /\ Span(<<p, k>>) = Span(<<p, j>>) \cup Span(<<buddy, j>>)
        /\ Apart(<<p, j>>, <<buddy, j>>)
    BY <1>2, <1>3, Halves
  <1>5. buddy \in Page /\ p \in Span(<<p, k>>) /\ buddy \in Span(<<p, k>>)
    BY <1>4, BlockFields
  <1>6. /\ free_area' \in [Orders -> SUBSET Page] /\ nr_free' \in [Orders -> Int]
        /\ order' \in [Page -> Orders \cup {-1}]
    BY <1>1, <1>2, <1>5 DEF TypeOK, ReserveSplit
  <1>7. Listed' = (Listed \ {<<p, k>>}) \cup {<<p, j>>, <<buddy, j>>}
    BY <1>1, <1>2, <1>5 DEF TypeOK, ReserveSplit, Listed
  <1>8. TypeOK'
    BY <1>1, <1>6 DEF TypeOK, ReserveSplit, frame, history
  <1>9. Holdings' = (Holdings \ {h}) \cup {g1, g2}
    <2>1. InHand = {} /\ InHand' = {} /\ live' = live /\ withheld' = withheld
      BY <1>1 DEF ReserveSplit, InHand, history
    <2> QED  BY <1>7, <2>1 DEF Holdings
  <1>10. HeldBlocks'
    BY <1>1, <1>4, <1>9 DEF HeldBlocks
  <1>11. EveryPageHeldOnce'
    BY <1>1, <1>3, <1>4, <1>9, Cut DEF EveryPageHeldOnce
  <1>12. HeadersTell'
    <2>1. status[p] = "FREE"
      BY <1>1, <1>3 DEF HeadersTell
    <2>2. \A b \in withheld : b[1] # p /\ b[1] # buddy /\ b[1] \in Page
      BY <1>1, <1>3, <1>5, OtherHeads DEF TypeOK
    <2>3. status[buddy] = "FREE"
      BY <1>1, <1>5, <2>2 DEF Progress
    <2>4. \A b \in Listed \ {<<p, k>>} : b[1] # p /\ b[1] # buddy /\ b[1] \in Page
      BY <1>1, <1>3, <1>5, OtherHeads DEF Listed
    <2>5. \A b \in Listed' : order'[b[1]] = b[2] /\ status'[b[1]] = "FREE"
      BY <1>1, <1>5, <1>7, <2>1, <2>3, <2>4 DEF HeadersTell, ReserveSplit, TypeOK
    <2>6. \A b \in withheld : order'[b[1]] = b[2] /\ status'[b[1]] = "RESERVED"
      BY <1>1, <2>2 DEF HeadersTell, ReserveSplit, TypeOK
    <2> QED  BY <1>1, <2>5, <2>6 DEF HeadersTell, ReserveSplit, history
  <1>13. Progress'
    BY <1>1 DEF Progress, ReserveSplit, OnlyReservedMisleads, history
  <1> QED  BY <1>8, <1>10, <1>11, <1>12, <1>13 DEF IInv

LEMMA ReserveNextInv == ASSUME IInv, ReserveNext PROVE IInv'
  <1>1. /\ TypeOK /\ HeldBlocks /\ EveryPageHeldOnce /\ HeadersTell /\ Progress
        /\ UNCHANGED <<order, status, free_area, nr_free, asked, withheld, live, refused>>
        /\ pc = "reserve" /\ pc' \in {"reserve", "boot"}
    BY DEF IInv, ReserveNext, pages, lists, history
  <1>2. TypeOK'
    <2>1. 0 \in Page /\ 0 \in Orders
      BY PoolAssumption, OrderAssumption DEF Page, Orders
    <2>2. current_order > 0 => current_order - 1 \in Orders
      BY <1>1, OrderAssumption DEF TypeOK, Orders
    <2> QED  BY <1>1, <2>1, <2>2 DEF TypeOK, ReserveNext, Leave, PCs
  <1>3. Holdings' = Holdings
    BY <1>1 DEF Holdings, Listed, InHand
  <1>4. HeldBlocks' /\ EveryPageHeldOnce' /\ HeadersTell'
    BY <1>1, <1>3 DEF HeldBlocks, EveryPageHeldOnce, HeadersTell, Listed
  <1>5. Progress'
    BY <1>1 DEF Progress, OnlyReservedMisleads
  <1> QED  BY <1>2, <1>4, <1>5 DEF IInv

LEMMA BootDoneInv == ASSUME IInv, BootDone PROVE IInv'
  <1>1. /\ TypeOK /\ HeldBlocks /\ EveryPageHeldOnce /\ HeadersTell /\ Progress
        /\ UNCHANGED <<order, status, free_area, nr_free, withheld, live>>
        /\ pc = "boot" /\ pc' = "idle"
    BY DEF IInv, BootDone, pages, lists, history
  <1>2. TypeOK'
    BY <1>1 DEF TypeOK, BootDone, frame, history, PCs
  <1>3. Holdings' = Holdings
    BY <1>1 DEF Holdings, Listed, InHand
  <1>4. HeldBlocks' /\ EveryPageHeldOnce' /\ HeadersTell'
    BY <1>1, <1>3 DEF HeldBlocks, EveryPageHeldOnce, HeadersTell, Listed
  <1>5. Progress'
    BY <1>1 DEF Progress, OnlyReservedMisleads
  <1> QED  BY <1>2, <1>4, <1>5 DEF IInv

LEMMA FailInv == ASSUME IInv, NEW k \in Orders, Fail(k) PROVE IInv'
  <1>1. /\ TypeOK /\ HeldBlocks /\ EveryPageHeldOnce /\ HeadersTell /\ Progress
        /\ UNCHANGED <<order, status, free_area, nr_free, withheld, live, pc>>
        /\ pc = "idle"
    BY DEF IInv, Fail, pages, lists
  <1>2. TypeOK'
    BY <1>1 DEF TypeOK, Fail, frame
  <1>3. Holdings' = Holdings
    BY <1>1 DEF Holdings, Listed, InHand
  <1>4. HeldBlocks' /\ EveryPageHeldOnce' /\ HeadersTell'
    BY <1>1, <1>3 DEF HeldBlocks, EveryPageHeldOnce, HeadersTell, Listed
  <1>5. Progress'
    BY <1>1 DEF Progress, OnlyReservedMisleads
  <1> QED  BY <1>2, <1>4, <1>5 DEF IInv

LEMMA SplitInv == ASSUME IInv, Split PROVE IInv'
  <1> DEFINE c == current_order
             k == c - 1
             buddy == BuddyOf(target, k)
             h  == <<"hand", <<target, c>>>>
             g1 == <<"hand", <<target, k>>>>
             g2 == <<"free", <<buddy, k>>>>
  <1>1. /\ TypeOK /\ HeldBlocks /\ EveryPageHeldOnce /\ HeadersTell /\ Progress
        /\ pc = "split" /\ want < c /\ c \in Orders /\ want \in Orders
    BY DEF IInv, TypeOK, Split, Half, Orders
  <1>2. k \in Orders /\ k < MaxOrder /\ c = k + 1 /\ k # c /\ want <= k
    BY <1>1, OrderAssumption DEF Orders
  <1>3. h \in Holdings /\ <<target, c>> \in Block
    <2>1. h \in Holdings
      BY <1>1, HoldingIntro DEF InHand
    <2> QED  BY <1>1, <2>1 DEF HeldBlocks
  <1>4. /\ buddy = target + Pow[k]
        /\ <<target, k>> \in Block /\ <<buddy, k>> \in Block
        /\ Span(<<target, c>>) = Span(<<target, k>>) \cup Span(<<buddy, k>>)
        /\ Apart(<<target, k>>, <<buddy, k>>)
    BY <1>2, <1>3, Halves
  <1>5. buddy \in Page /\ buddy \in Span(<<target, c>>)
    BY <1>4, BlockFields
  <1>6. /\ Listed' = Listed \cup {<<buddy, k>>}
        /\ free_area' \in [Orders -> SUBSET Page]
        /\ nr_free' \in [Orders -> Int]
    BY <1>1, <1>2, <1>5, ListedAfterPush DEF Split, Half
  <1>7. TypeOK'
    BY <1>1, <1>2, <1>5, <1>6 DEF TypeOK, Split, Half, history, Status
  <1>8. Holdings' = (Holdings \ {h}) \cup {g1, g2}
    <2>1. /\ InHand = {<<target, c>>} /\ InHand' = {<<target, k>>}
          /\ live' = live /\ withheld' = withheld
      BY <1>1 DEF Split, Half, InHand, history
    <2> QED  BY <1>6, <2>1 DEF Holdings
  <1>9. HeldBlocks'
    BY <1>1, <1>4, <1>8 DEF HeldBlocks
  <1>10. EveryPageHeldOnce'
    BY <1>1, <1>3, <1>4, <1>8, Cut DEF EveryPageHeldOnce
  <1>11. HeadersTell'
    <2>1. \A b \in Listed \cup live \cup withheld : b[1] # buddy /\ b[1] \in Page
      BY <1>1, <1>3, <1>5, OtherHeads DEF Listed, TypeOK
    <2> QED  BY <1>1, <1>2, <1>5, <1>6, <2>1
             DEF HeadersTell, Split, Half, history, TypeOK
  <1>12. Progress'
    BY <1>1, <1>2 DEF Progress, Split, Half, OnlyReservedMisleads, history
  <1> QED  BY <1>7, <1>9, <1>10, <1>11, <1>12 DEF IInv

LEMMA ReturnInv == ASSUME IInv, Return PROVE IInv'
  <1> DEFINE h == <<"hand", <<target, want>>>>
             g == <<"live", <<target, want>>>>
  <1>1. /\ TypeOK /\ HeldBlocks /\ EveryPageHeldOnce /\ HeadersTell /\ Progress
        /\ pc = "split" /\ want = current_order /\ want \in Orders
        /\ target \in Page
    BY OrderAssumption DEF IInv, TypeOK, Progress, Return, Orders
  <1>2. /\ InHand = {<<target, want>>} /\ InHand' = {} /\ Listed' = Listed
        /\ live' = live \cup {<<target, want>>} /\ withheld' = withheld
    BY <1>1 DEF Return, InHand, lists, Listed
  <1>3. h \in Holdings /\ Holdings' = (Holdings \ {h}) \cup {g}
    BY <1>2 DEF Holdings
  <1>4. TypeOK'
    <2>1. 0 \in Page /\ 0 \in Orders
      BY PoolAssumption, OrderAssumption DEF Page, Orders
    <2> QED  BY <1>1, <2>1 DEF TypeOK, Return, Leave, lists, PCs, Status
  <1>5. HeldBlocks'
    BY <1>1, <1>3 DEF HeldBlocks
  <1>6. EveryPageHeldOnce'
    BY <1>1, <1>3, HandOver DEF EveryPageHeldOnce
  <1>7. HeadersTell'
    <2>1. target \in Span(<<target, want>>)
      BY <1>1, <1>3, BlockFields DEF HeldBlocks
    <2>2. \A b \in Listed \cup live \cup withheld : b[1] # target /\ b[1] \in Page
      BY <1>1, <1>3, <2>1, OtherHeads DEF Listed, TypeOK
    <2> QED  BY <1>1, <1>2, <2>2 DEF HeadersTell, Return, TypeOK
  <1>8. Progress'
    BY <1>1 DEF Progress, Return, OnlyReservedMisleads
  <1> QED  BY <1>4, <1>5, <1>6, <1>7, <1>8 DEF IInv

LEMMA FreeInv == ASSUME IInv, NEW b \in live, Free(b) PROVE IInv'
  <1> DEFINE h == <<"live", b>>
             g == <<"hand", b>>
  <1>1. /\ TypeOK /\ HeldBlocks /\ EveryPageHeldOnce /\ HeadersTell /\ Progress
        /\ pc = "idle" /\ b = <<b[1], b[2]>> /\ b[1] \in Page /\ b[2] \in Orders
        /\ order[b[1]] = b[2]
    BY DEF IInv, TypeOK, HeadersTell, Free
  <1>2. /\ InHand = {} /\ InHand' = {b} /\ Listed' = Listed
        /\ live' = live \ {b} /\ withheld' = withheld
    BY <1>1 DEF Free, InHand, lists, Listed
  <1>3. h \in Holdings /\ Holdings' = (Holdings \ {h}) \cup {g}
    BY <1>2 DEF Holdings
  <1>4. TypeOK'
    BY <1>1 DEF TypeOK, Free, pages, lists, PCs
  <1>5. HeldBlocks'
    BY <1>1, <1>3 DEF HeldBlocks
  <1>6. EveryPageHeldOnce'
    BY <1>1, <1>3, HandOver DEF EveryPageHeldOnce
  <1>7. HeadersTell'
    BY <1>1, <1>2 DEF HeadersTell, Free, pages
  <1>8. Progress'
    BY <1>1 DEF Progress, Free, OnlyReservedMisleads
  <1> QED  BY <1>4, <1>5, <1>6, <1>7, <1>8 DEF IInv

LEMMA MergeInv == ASSUME IInv, Merge PROVE IInv'
  <1> DEFINE k == current_order
             buddy == BuddyOf(target, k)
             low == IF target < buddy THEN target ELSE buddy
             h1 == <<"free", <<buddy, k>>>>
             h2 == <<"hand", <<target, k>>>>
             g  == <<"hand", <<low, k + 1>>>>
  <1>1. /\ TypeOK /\ HeldBlocks /\ EveryPageHeldOnce /\ HeadersTell /\ Progress
        /\ pc = "merge" /\ k \in Orders /\ k < MaxOrder /\ k + 1 \in Orders
        /\ buddy \in free_area[k]
    BY PowDoubles DEF IInv, TypeOK, Merge, CanMerge
  <1>2. h2 \in Holdings /\ <<target, k>> \in Block
    <2>1. h2 \in Holdings
      BY <1>1, HoldingIntro DEF InHand
    <2> QED  BY <1>1, <2>1 DEF HeldBlocks
  <1>3. /\ <<buddy, k>> \in Block /\ <<low, k + 1>> \in Block
        /\ Span(<<low, k + 1>>) = Span(<<target, k>>) \cup Span(<<buddy, k>>)
    BY <1>1, <1>2, BuddyPair
  <1>4. /\ Listed' = Listed \ {<<buddy, k>>} /\ <<buddy, k>> \in Listed
        /\ free_area' \in [Orders -> SUBSET Page]
        /\ nr_free' \in [Orders -> Int]
    <2>1. buddy \in Page
      BY <1>3 DEF Block
    <2> QED  BY <1>1, <2>1, ListedAfterRemove DEF Merge
  <1>5. TypeOK'
    <2>1. low \in Page
      BY <1>3 DEF Block
    <2> QED  BY <1>1, <1>4, <2>1 DEF TypeOK, Merge, pages, history
  <1>6. h1 \in Holdings /\ Holdings' = (Holdings \ {h1, h2}) \cup {g}
    <2>1. /\ InHand = {<<target, k>>} /\ InHand' = {<<low, k + 1>>}
          /\ live' = live /\ withheld' = withheld
      BY <1>1 DEF Merge, InHand, history
    <2> QED  BY <1>4, <2>1 DEF Holdings
  <1>7. HeldBlocks'
    BY <1>1, <1>3, <1>6 DEF HeldBlocks
  <1>8. EveryPageHeldOnce'
    <2>1. Span(g[2]) = Span(h1[2]) \cup Span(h2[2])
      BY <1>3
    <2> QED  BY <1>1, <1>2, <1>6, <2>1, Join DEF EveryPageHeldOnce
  <1>9. HeadersTell'
    BY <1>1, <1>4 DEF HeadersTell, Merge, pages, history
  <1>10. Progress'
    BY <1>1 DEF Progress, Merge, OnlyReservedMisleads, history
  <1> QED  BY <1>5, <1>7, <1>8, <1>9, <1>10 DEF IInv

\* The buddy's page is the first of some block that is not larger
\* (BuddyIsHead), so its header tells of that block: it has the order of the
\* block being freed and no caller has it, hence it is free or withheld; and
\* a free one is on the list.
LEMMA MergeUnlistedInv == ASSUME IInv, MergeUnlisted PROVE IInv'
  <1> DEFINE k == current_order
             buddy == BuddyOf(target, k)
             h == <<"hand", <<target, k>>>>
  <1>1. /\ TypeOK /\ HeldBlocks /\ EveryPageHeldOnce /\ HeadersTell /\ Progress
        /\ pc = "merge" /\ k \in Orders /\ k < MaxOrder
        /\ order[buddy] = k /\ status[buddy] # "USED"
        /\ buddy \notin free_area[k]
        /\ UNCHANGED <<pages, lists, frame, history>>
    BY DEF IInv, TypeOK, MergeUnlisted, CanMerge
  <1>2. h \in Holdings
    BY <1>1, HoldingIntro DEF InHand
  <1>3. PICK g \in Holdings : g[2][1] = buddy /\ g # h
    <2>1. Partition(Holdings) /\ (\A f \in Holdings : f[2] \in Block)
      BY <1>1 DEF HeldBlocks, EveryPageHeldOnce
    <2>2. h[2] = <<target, k>>
      OBVIOUS
    <2> HIDE DEF h
    <2> QED  BY <1>1, <1>2, <2>1, <2>2, BuddyIsHead
  <1>4. g[2] = <<g[2][1], g[2][2]>>
    BY <1>1, BlockFields DEF HeldBlocks
  <1>5. <<buddy, k>> \in withheld
    <2>1. CASE g[1] = "free" /\ g[2] \in Listed
      BY <1>1, <1>3, <2>1 DEF HeadersTell, Listed
    <2>2. CASE g[1] = "live" /\ g[2] \in live
      BY <1>1, <1>3, <2>2 DEF HeadersTell
    <2>3. CASE g[1] = "withheld" /\ g[2] \in withheld
      BY <1>1, <1>3, <1>4, <2>3 DEF HeadersTell
    <2>4. CASE g[1] = "hand" /\ g[2] \in InHand
      <3>1. g = h
        BY <1>1, <2>4, HoldingCases DEF InHand
      <3> QED  BY <3>1, <1>3
    <2> QED  BY <2>1, <2>2, <2>3, <2>4, HoldingCases
  <1>6. TypeOK'
    BY <1>1 DEF TypeOK, MergeUnlisted, pages, lists, frame, history, PCs
  <1>7. Holdings' = Holdings
    BY <1>1 DEF MergeUnlisted, Holdings, Listed, InHand, lists, frame, history
  <1>8. HeldBlocks' /\ EveryPageHeldOnce' /\ HeadersTell'
    BY <1>1, <1>7
    DEF HeldBlocks, EveryPageHeldOnce, HeadersTell, Listed, pages, lists, history
  <1>9. Progress'
    BY <1>1, <1>5 DEF Progress, MergeUnlisted, OnlyReservedMisleads, frame, history
  <1> QED  BY <1>6, <1>8, <1>9 DEF IInv

LEMMA InsertInv == ASSUME IInv, Insert PROVE IInv'
  <1> DEFINE k == current_order
             h == <<"hand", <<target, k>>>>
             g == <<"free", <<target, k>>>>
  <1>1. /\ TypeOK /\ HeldBlocks /\ EveryPageHeldOnce /\ HeadersTell /\ Progress
        /\ pc = "merge" /\ k \in Orders /\ target \in Page
    BY DEF IInv, TypeOK, Insert
  <1>2. /\ Listed' = Listed \cup {<<target, k>>}
        /\ free_area' \in [Orders -> SUBSET Page]
        /\ nr_free' \in [Orders -> Int]
    BY <1>1, ListedAfterPush DEF Insert
  <1>3. h \in Holdings /\ Holdings' = (Holdings \ {h}) \cup {g}
    <2>1. /\ InHand = {<<target, k>>} /\ InHand' = {}
          /\ live' = live /\ withheld' = withheld
      BY <1>1 DEF Insert, InHand, history
    <2> QED  BY <1>2, <2>1 DEF Holdings
  <1>4. TypeOK'
    <2>1. 0 \in Page /\ 0 \in Orders
      BY PoolAssumption, OrderAssumption DEF Page, Orders
    <2> QED  BY <1>1, <1>2, <2>1 DEF TypeOK, Insert, Leave, history, PCs, Status
  <1>5. HeldBlocks'
    BY <1>1, <1>3 DEF HeldBlocks
  <1>6. EveryPageHeldOnce'
    BY <1>1, <1>3, HandOver DEF EveryPageHeldOnce
  <1>7. HeadersTell'
    <2>1. target \in Span(<<target, k>>)
      BY <1>1, <1>3, BlockFields DEF HeldBlocks
    <2>2. \A b \in Listed \cup live \cup withheld : b[1] # target /\ b[1] \in Page
      BY <1>1, <1>3, <2>1, OtherHeads DEF Listed, TypeOK
    <2> QED  BY <1>1, <1>2, <2>2 DEF HeadersTell, Insert, history, TypeOK
  <1>8. Progress'
    BY <1>1 DEF Progress, Insert, OnlyReservedMisleads, history
  <1> QED  BY <1>4, <1>5, <1>6, <1>7, <1>8 DEF IInv

-----------------------------------------------------------------------------
(* The theorems                                                            *)

LEMMA NextInv == ASSUME IInv, [Next]_vars PROVE IInv'
  <1>1. CASE UNCHANGED vars
    <2>1. /\ UNCHANGED <<order, status, free_area, nr_free, pc, target, want>>
          /\ UNCHANGED <<current_order, range, asked, withheld, live, refused>>
      BY <1>1 DEF vars, pages, lists, frame, history
    <2>2. Holdings' = Holdings /\ Listed' = Listed
      BY <2>1 DEF Holdings, Listed, InHand
    <2> QED  BY <2>1, <2>2 DEF IInv, TypeOK, HeldBlocks, EveryPageHeldOnce,
                               HeadersTell, Progress, OnlyReservedMisleads
  <1>2. CASE Continue
    <2>1. CASE \E p \in Page : ReserveBlock(p) \/ ReserveSplit(p)
      BY <2>1, ReserveBlockInv, ReserveSplitInv
    <2>2. CASE ReserveNext
      BY <2>2, ReserveNextInv
    <2>3. CASE Split \/ Return
      BY <2>3, SplitInv, ReturnInv
    <2>4. CASE Merge \/ MergeUnlisted \/ Insert
      BY <2>4, MergeInv, MergeUnlistedInv, InsertInv
    <2> QED  BY <1>2, <2>1, <2>2, <2>3, <2>4 DEF Continue
  <1>3. CASE \E r \in Ranges : MemoryReserve(r)
    BY <1>3, MemoryReserveInv
  <1>4. CASE BootDone
    BY <1>4, BootDoneInv
  <1>5. CASE \E k \in Orders : Fail(k) \/ \E c \in Orders, p \in Page : Take(k, c, p)
    BY <1>5, FailInv, TakeInv
  <1>6. CASE \E b \in live : Free(b)
    BY <1>6, FreeInv
  <1> QED  BY <1>1, <1>2, <1>3, <1>4, <1>5, <1>6 DEF Next

\* The inductive invariant holds of every run of the buddy system.
THEOREM Inductive == Spec => []IInv
  <1>1. Init => IInv
    BY InitInv
  <1>2. IInv /\ [Next]_vars => IInv'
    BY NextInv
  <1> QED  BY <1>1, <1>2, PTL DEF Spec

\* Every field of the allocator keeps to the values of its kind.
THEOREM TypeCorrect == Spec => []TypeOK
  <1>1. IInv => TypeOK
    BY DEF IInv
  <1> QED  BY <1>1, Inductive, PTL

\* No page is handed out twice and none is lost: __allocate_pages and
\* __free_pages only cut, join and hand over blocks of one partition.
THEOREM NoPageTwiceNoPageLost == Spec => []EveryPageHeldOnce
  <1>1. IInv => EveryPageHeldOnce
    BY DEF IInv
  <1> QED  BY <1>1, Inductive, PTL

\* The headers __free_pages reads tell the order and the holder of a block.
THEOREM HeadersTruthful == Spec => []HeadersTell
  <1>1. IInv => HeadersTell
    BY DEF IInv
  <1> QED  BY <1>1, Inductive, PTL

\* Only a buddy that memory_reserve withheld is taken off a list it is not on.
THEOREM ReservedAlone == Spec => []OnlyReservedMisleads
  <1>1. IInv => OnlyReservedMisleads
    BY DEF IInv, Progress
  <1> QED  BY <1>1, Inductive, PTL

\* Without reservations the lists stay intact: __free_pages removes a buddy
\* only from the list it is on.
THEOREM ListsIntact == ASSUME Ranges = {} PROVE Spec => []RemovesListedOnly
  <1>1. IInv => RemovesListedOnly
    BY DEF IInv, Progress, OnlyReservedMisleads, RemovesListedOnly
  <1> QED  BY <1>1, Inductive, PTL
-----------------------------------------------------------------------------
(* The lists between calls: merged, counted, and without the reserved      *)
(* pages alone.  While memory_reserve visits the lists from the top down,  *)
(* the blocks of the orders it has done miss the range, so at the end all  *)
(* of them do and what it took off covers the range; and the only blocks   *)
(* it leaves next to a free buddy are halves one of which it has still to  *)
(* take off or to cut.                                                     *)

Covered == UNION {Span(b) : b \in withheld}

\* The buddy of a listed block is listed too.
Paired(b) == b[2] < MaxOrder /\ BuddyOf(b[1], b[2]) \in free_area[b[2]]

Reserving ==
    pc = "reserve" =>
        /\ range[1] <= range[2]
        /\ (range[1] .. range[2]) \cap Page \subseteq asked
        /\ Covered \subseteq asked
        /\ asked \subseteq Covered \cup (range[1] .. range[2])
        /\ \A b \in Listed : b[2] > current_order => Misses(b)
        /\ \A b \in Listed : Paired(b) =>
              /\ b[2] = current_order \/ b[2] = current_order - 1
              /\ ~ Misses(b) \/ ~ Misses(<<BuddyOf(b[1], b[2]), b[2]>>)

Settled ==
    pc # "reserve" =>
        /\ Covered = asked
        /\ \A b \in Listed : ~ Paired(b)

PInv == IInv /\ CountsExact /\ Reserving /\ Settled

\* The lists are finite, so their lengths are numbers.
LEMMA ListsFinite ==
    ASSUME TypeOK, NEW k \in Orders
    PROVE  IsFiniteSet(free_area[k]) /\ Cardinality(free_area[k]) \in Nat
  <1>1. free_area[k] \subseteq Page
    BY DEF TypeOK
  <1>2. IsFiniteSet(0 .. NumPages - 1)
    BY FS_Interval, PoolAssumption
  <1>3. IsFiniteSet(free_area[k])
    BY <1>1, <1>2, FS_Subset DEF Page
  <1> QED  BY <1>3, FS_CardinalityType

\* A page taken off a list it is on keeps the count exact.
LEMMA CountAfterRemove ==
    ASSUME TypeOK, CountsExact, NEW k \in Orders, NEW p \in free_area[k], RemoveFrom(p, k)
    PROVE  CountsExact'
  <1> SUFFICES ASSUME NEW j \in Orders PROVE nr_free'[j] = Cardinality(free_area'[j])
    BY DEF CountsExact
  <1>1. IsFiniteSet(free_area[k]) /\ Cardinality(free_area[k]) \in Nat
    BY ListsFinite
  <1>2. Cardinality(free_area[k] \ {p}) = Cardinality(free_area[k]) - 1
    BY <1>1, FS_RemoveElement
  <1> QED  BY <1>2 DEF RemoveFrom, CountsExact, TypeOK

\* So does a page put on a list it is not on.
LEMMA CountAfterPush ==
    ASSUME TypeOK, CountsExact, NEW k \in Orders, NEW p, p \notin free_area[k], Push(p, k)
    PROVE  CountsExact'
  <1> SUFFICES ASSUME NEW j \in Orders PROVE nr_free'[j] = Cardinality(free_area'[j])
    BY DEF CountsExact
  <1>1. IsFiniteSet(free_area[k]) /\ Cardinality(free_area[k]) \in Nat
    BY ListsFinite
  <1>2. Cardinality(free_area[k] \cup {p}) = Cardinality(free_area[k]) + 1
    BY <1>1, FS_AddElement
  <1> QED  BY <1>2 DEF Push, CountsExact, TypeOK

\* Shorter lists pair no blocks that were not paired.
LEMMA PairsFewer ==
    ASSUME \A k \in Orders : free_area'[k] \subseteq free_area[k]
    PROVE  /\ Listed' \subseteq Listed
           /\ \A b \in Listed' : Paired(b)' => Paired(b)
  BY DEF Listed, Paired

\* Every listed block is a block of the pool.
LEMMA ListedBlocks == ASSUME HeldBlocks, NEW b \in Listed PROVE b \in Block
  <1> DEFINE h == <<"free", b>>
  <1>1. h \in Holdings
    BY HoldingIntro
  <1>2. h[2] \in Block
    BY <1>1 DEF HeldBlocks
  <1> QED  BY <1>2

\* A block whose buddy is not listed makes no pair when it is put on its list.
LEMMA PairsAfterPush ==
    ASSUME TypeOK, HeldBlocks, NEW p \in Page, NEW k \in Orders, <<p, k>> \in Block,
           Push(p, k), k < MaxOrder => BuddyOf(p, k) \notin free_area[k],
           \A b \in Listed : ~ Paired(b)
    PROVE  \A b \in Listed' : ~ Paired(b)'
  <1> SUFFICES ASSUME NEW b \in Listed', b[2] < MaxOrder,
                      BuddyOf(b[1], b[2]) \in free_area'[b[2]]
               PROVE  FALSE
    BY DEF Paired
  <1>1. Listed' = Listed \cup {<<p, k>>}
    BY ListedAfterPush
  <1>2. free_area' = [free_area EXCEPT ![k] = @ \cup {p}] /\ b[2] \in Orders
    BY DEF Push, Listed
  <1>3. CASE b = <<p, k>>
    <2>1. BuddyOf(p, k) = p
      BY <1>2, <1>3 DEF TypeOK
    <2> QED  BY <2>1, <1>3, BuddyPair
  <1>4. CASE b \in Listed
    <2>1. b \in Block /\ b = <<b[1], b[2]>>
      BY <1>4, ListedBlocks, BlockFields
    <2>2. b[2] = k /\ BuddyOf(b[1], k) = p
      BY <1>2, <1>4 DEF Paired, TypeOK
    <2>3. BuddyOf(p, k) = b[1]
      BY <2>1, <2>2, BuddyTwice
    <2> QED  BY <2>2, <2>3, <1>4 DEF Listed
  <1> QED  BY <1>1, <1>3, <1>4
LEMMA InitPool == Init => PInv
  <1> SUFFICES ASSUME Init PROVE PInv
    OBVIOUS
  <1>1. IInv
    BY InitInv
  <1>2. CountsExact
    BY DEF Init, CountsExact
  <1>3. Reserving
    BY DEF Init, Reserving
  <1>4. Covered = asked
    BY DEF Init, Covered
  <1>5. \A b \in Listed : b[2] = MaxOrder
    BY OrderAssumption DEF Init, Listed, Orders
  <1>6. \A b \in Listed : ~ Paired(b)
    BY <1>5, OrderAssumption DEF Paired
  <1> QED  BY <1>1, <1>2, <1>3, <1>4, <1>6 DEF PInv, Settled

LEMMA MemoryReservePool ==
    ASSUME PInv, NEW r \in Ranges, MemoryReserve(r)
    PROVE  CountsExact' /\ Reserving' /\ Settled'
  <1>1. /\ pc = "boot" /\ pc' = "reserve" /\ range' = r /\ current_order' = MaxOrder
        /\ asked' = asked \cup ((r[1] .. r[2]) \cap Page)
        /\ UNCHANGED <<free_area, nr_free, withheld>>
    BY DEF MemoryReserve, lists
  <1>2. CountsExact'
    BY <1>1 DEF PInv, CountsExact
  <1>3. r[1] <= r[2]
    BY RangesAssumption
  <1>4. Covered' = Covered /\ Covered = asked /\ Listed' = Listed
        /\ \A b \in Listed : Paired(b)' = Paired(b) /\ ~ Paired(b)
    BY <1>1 DEF PInv, Settled, Covered, Listed, Paired
  <1>5. \A b \in Listed : ~ b[2] > MaxOrder
    BY OrderAssumption DEF Listed, Orders
  <1>6. Reserving'
    BY <1>1, <1>3, <1>4, <1>5 DEF Reserving
  <1> QED  BY <1>1, <1>2, <1>6 DEF Settled

\* A block memory_reserve takes off a list lies in the range.
LEMMA ReserveBlockPool ==
    ASSUME PInv, NEW p \in Page, ReserveBlock(p)
    PROVE  CountsExact' /\ Reserving' /\ Settled'
  <1> DEFINE k == current_order
  <1>1. /\ TypeOK /\ HeldBlocks /\ CountsExact /\ Reserving
        /\ pc = "reserve" /\ pc' = "reserve" /\ k \in Orders /\ p \in free_area[k]
        /\ ~ Misses(<<p, k>>) /\ Within(<<p, k>>) /\ RemoveFrom(p, k)
        /\ withheld' = withheld \cup {<<p, k>>}
        /\ UNCHANGED <<range, current_order, asked>>
    BY DEF PInv, IInv, TypeOK, ReserveBlock, frame
  <1>2. CountsExact'
    BY <1>1, CountAfterRemove
  <1>3. /\ Listed' \subseteq Listed
        /\ \A b \in Listed' : Paired(b)' => Paired(b)
    <2>1. \A j \in Orders : free_area'[j] \subseteq free_area[j]
      BY <1>1 DEF RemoveFrom, TypeOK
    <2> QED  BY <2>1, PairsFewer
  <1>4. <<p, k>> \in Listed /\ <<p, k>> \in Block
    BY <1>1, ListedBlocks DEF Listed
  <1>5. Span(<<p, k>>) \subseteq Page /\ p \in Int /\ Pow[k] \in Int
    BY <1>4, BlockFields
  <1>6. Span(<<p, k>>) \subseteq range[1] .. range[2]
    <2>1. range[1] \in Int /\ range[2] \in Int
      BY <1>1 DEF TypeOK
    <2>2. CASE k = 0
      <3>1. Pow[0] = 1
        BY PowAssumption
      <3> QED  BY <2>1, <2>2, <3>1, <1>1, <1>5 DEF Misses, Span
    <2>3. CASE k # 0
      <3>1. range[1] <= p /\ p + Pow[k] <= range[2]
        BY <2>3, <1>1 DEF Within
      <3> QED  BY <2>1, <3>1, <1>5 DEF Span
    <2> QED  BY <2>2, <2>3
  <1>7. Covered' = Covered \cup Span(<<p, k>>)
    BY <1>1 DEF Covered
  <1>8. Covered' \subseteq asked /\ asked \subseteq Covered' \cup (range[1] .. range[2])
    BY <1>1, <1>5, <1>6, <1>7 DEF Reserving
  <1>9. \A b \in Listed' : b[2] > current_order => Misses(b)
    BY <1>1, <1>3 DEF Reserving
  <1>10. \A b \in Listed' : Paired(b)' =>
              /\ b[2] = current_order \/ b[2] = current_order - 1
              /\ ~ Misses(b) \/ ~ Misses(<<BuddyOf(b[1], b[2]), b[2]>>)
    BY <1>1, <1>3 DEF Reserving
  <1>11. Reserving'
    BY <1>1, <1>8, <1>9, <1>10 DEF Reserving, Misses
  <1> QED  BY <1>1, <1>2, <1>11 DEF Settled

\* Every list done: what is still listed misses the range, so the pages of
\* the range are off the lists.
LEMMA ReserveNextPool ==
    ASSUME PInv, ReserveNext
    PROVE  CountsExact' /\ Reserving' /\ Settled'
  <1> DEFINE c == current_order
  <1>1. /\ TypeOK /\ HeldBlocks /\ EveryPageHeldOnce /\ Progress
        /\ CountsExact /\ Reserving /\ pc = "reserve" /\ c \in Orders /\ live = {}
        /\ \A p \in free_area[c] : Misses(<<p, c>>)
        /\ UNCHANGED <<free_area, nr_free, asked, withheld>>
    BY DEF PInv, IInv, TypeOK, Progress, ReserveNext, lists, history
  <1>2. CountsExact'
    BY <1>1 DEF CountsExact
  <1>3. /\ Listed' = Listed /\ Covered' = Covered
        /\ \A b \in Listed : Paired(b)' = Paired(b)
    BY <1>1 DEF Listed, Covered, Paired
  <1>4. \A b \in Listed : b = <<b[1], b[2]>> /\ b[2] \in Int /\ b[2] >= 0
                          /\ b[1] \in free_area[b[2]]
    BY OrderAssumption DEF Listed, Orders
  <1>5. c \in Int /\ c >= 0
    BY <1>1, OrderAssumption DEF Orders
  <1>6. \A b \in Listed : b[2] > c - 1 => Misses(b)
    <2> TAKE b \in Listed
    <2> HAVE b[2] > c - 1
    <2>1. b[2] > c \/ b[2] = c
      BY <1>4, <1>5
    <2>2. CASE b[2] > c
      BY <2>2, <1>1 DEF Reserving
    <2>3. CASE b[2] = c
      BY <2>3, <1>1, <1>4
    <2> QED  BY <2>1, <2>2, <2>3
  <1>7. \A b \in Listed : Paired(b) =>
           /\ b[2] = c - 1
           /\ ~ Misses(b) \/ ~ Misses(<<BuddyOf(b[1], b[2]), b[2]>>)
    <2> SUFFICES ASSUME NEW b \in Listed, Paired(b)
                 PROVE  /\ b[2] = c - 1
                        /\ ~ Misses(b) \/ ~ Misses(<<BuddyOf(b[1], b[2]), b[2]>>)
      OBVIOUS
    <2>1. /\ b[2] = c \/ b[2] = c - 1
          /\ ~ Misses(b) \/ ~ Misses(<<BuddyOf(b[1], b[2]), b[2]>>)
      BY <1>1 DEF Reserving
    <2>2. CASE b[2] = c
      <3>1. BuddyOf(b[1], b[2]) \in free_area[c]
        BY <2>2 DEF Paired
      <3>2. Misses(<<BuddyOf(b[1], b[2]), b[2]>>)
        BY <3>1, <2>2, <1>1
      <3>3. Misses(b)
        BY <2>2, <1>4, <1>5, <1>6
      <3> QED  BY <2>1, <3>2, <3>3
    <2> QED  BY <2>1, <2>2
  <1>8. CASE c > 0
    <2>1. pc' = "reserve" /\ current_order' = c - 1 /\ range' = range
      BY <1>1, <1>8 DEF ReserveNext
    <2>2. Reserving'
      BY <1>1, <1>3, <1>6, <1>7, <2>1 DEF Reserving, Misses
    <2> QED  BY <1>2, <2>1, <2>2 DEF Settled
  <1>9. CASE ~ c > 0
    <2>1. pc' = "boot" /\ c = 0
      BY <1>5, <1>9 DEF ReserveNext
    <2>2. \A b \in Listed : ~ Paired(b)
      <3> SUFFICES ASSUME NEW b \in Listed, Paired(b) PROVE FALSE
        OBVIOUS
      <3>1. b[2] = c - 1
        BY <1>7
      <3>2. b[2] >= 0
        BY <1>4
      <3> QED  BY <2>1, <3>1, <3>2
    <2>3. asked \subseteq Covered
      <3> SUFFICES ASSUME NEW x \in asked, x \notin Covered PROVE FALSE
        OBVIOUS
      <3>1. x \in range[1] .. range[2] /\ x \in Page /\ x \in Int
            /\ range[1] \in Int /\ range[2] \in Int
        BY <1>1 DEF Reserving, TypeOK, Page
      <3>2. PICK h \in Holdings : x \in Span(h[2])
        BY <3>1, <1>1 DEF EveryPageHeldOnce, Partition
      <3>3. h[2] \notin withheld
        BY <3>2 DEF Covered
      <3>4. h[2] \in Listed
        BY <3>3, <1>1, HoldingCases DEF InHand
      <3>5. Misses(h[2])
        BY <3>4, <2>1, <1>4, <1>6
      <3>6. h[2][1] \in Int /\ Pow[h[2][2]] \in Int
        BY <3>4, <1>1, ListedBlocks, BlockFields
      <3>7. h[2][1] <= x /\ x < h[2][1] + Pow[h[2][2]]
        BY <3>1, <3>2, <3>6 DEF Span
      <3> QED  BY <3>1, <3>5, <3>6, <3>7 DEF Misses
    <2>4. Settled'
      BY <1>1, <1>3, <2>2, <2>3 DEF Settled, Reserving
    <2> QED  BY <1>2, <2>1, <2>4 DEF Reserving
  <1> QED  BY <1>8, <1>9
\* A block that is cut reaches into the range, and so does one of its halves:
\* the two are listed next to each other until that half is visited.
LEMMA ReserveSplitPool ==
    ASSUME PInv, NEW p \in Page, ReserveSplit(p)
    PROVE  CountsExact' /\ Reserving' /\ Settled'
  <1> DEFINE k == current_order
             j == k - 1
             buddy == BuddyOf(p, j)
  <1>1. /\ TypeOK /\ HeldBlocks /\ EveryPageHeldOnce /\ CountsExact /\ Reserving
        /\ pc = "reserve" /\ pc' = "reserve" /\ k \in Orders /\ p \in free_area[k]
        /\ ~ Misses(<<p, k>>) /\ ~ Within(<<p, k>>)
        /\ free_area' = [free_area EXCEPT ![k] = @ \ {p}, ![j] = @ \cup {buddy, p}]
        /\ nr_free' = [nr_free EXCEPT ![k] = @ - 1, ![j] = @ + 2]
        /\ UNCHANGED <<range, current_order, asked, withheld>>
    BY DEF PInv, IInv, TypeOK, ReserveSplit, frame, history
  <1>2. j \in Orders /\ j < MaxOrder /\ k = j + 1 /\ k # j /\ j \in Int /\ k \in Int
    BY <1>1, OrderAssumption DEF Within, Orders
  <1>3. <<p, k>> \in Listed /\ <<p, k>> \in Block /\ <<"free", <<p, k>>>> \in Holdings
    BY <1>1, ListedBlocks, HoldingIntro DEF Listed
  <1>4. /\ buddy = p + Pow[j] /\ <<p, j>> \in Block /\ <<buddy, j>> \in Block
        /\ Span(<<p, k>>) = Span(<<p, j>>) \cup Span(<<buddy, j>>)
    BY <1>2, <1>3, Halves
  <1>5. /\ buddy \in Page /\ p \in Span(<<p, k>>) /\ buddy \in Span(<<p, k>>)
        /\ buddy # p /\ p \in Int /\ Pow[j] \in Int /\ Pow[j] > 0 /\ Pow[k] = 2 * Pow[j]
    <2>1. buddy # p
      BY <1>2, <1>4, BuddyPair
    <2>2. p \in Int
      BY <1>3, BlockFields
    <2>3. Pow[k] = 2 * Pow[j]
      BY <1>2, PowDoubles
    <2> QED  BY <1>2, <1>4, <2>1, <2>2, <2>3, BlockFields, PowPositive
  <1>6. p \notin free_area[j] /\ buddy \notin free_area[j]
    <2>1. \A b \in Listed : b[1] \in Span(<<p, k>>) => b = <<p, k>>
      BY <1>1, <1>3, OtherHeads
    <2>2. ASSUME NEW x \in Span(<<p, k>>), x \in free_area[j] PROVE FALSE
      <3>1. <<x, j>> \in Listed
        BY <1>1, <1>2, <2>2 DEF Listed, TypeOK
      <3>2. <<x, j>> = <<p, k>>
        BY <2>1, <2>2, <3>1
      <3> QED  BY <3>2, <1>2
    <2> QED  BY <2>2, <1>5
  <1>7. CountsExact'
    <2> SUFFICES ASSUME NEW i \in Orders PROVE nr_free'[i] = Cardinality(free_area'[i])
      BY DEF CountsExact
    <2>1. /\ IsFiniteSet(free_area[k]) /\ Cardinality(free_area[k]) \in Nat
          /\ IsFiniteSet(free_area[j]) /\ Cardinality(free_area[j]) \in Nat
      BY <1>1, <1>2, ListsFinite
    <2>2. Cardinality(free_area[k] \ {p}) = Cardinality(free_area[k]) - 1
      BY <1>1, <2>1, FS_RemoveElement
    <2>3. Cardinality(free_area[j] \cup {buddy, p}) = Cardinality(free_area[j]) + 2
      <3> DEFINE S == free_area[j] \cup {buddy}
      <3>1. IsFiniteSet(S) /\ Cardinality(S) = Cardinality(free_area[j]) + 1
        BY <1>6, <2>1, FS_AddElement
      <3>2. p \notin S
        BY <1>5, <1>6
      <3>3. Cardinality(S \cup {p}) = Cardinality(S) + 1
        <4> HIDE DEF S
        <4> QED  BY <3>1, <3>2, FS_AddElement
      <3>4. S \cup {p} = free_area[j] \cup {buddy, p}
        OBVIOUS
      <3>5. Cardinality(S \cup {p}) = Cardinality(free_area[j]) + 2
        <4>1. Cardinality(S \cup {p}) = Cardinality(free_area[j]) + 1 + 1
          BY <3>1, <3>3
        <4> HIDE DEF S, j
        <4> QED  BY <2>1, <4>1
      <3> QED  BY <3>4, <3>5
    <2>4. CASE i = k
      <3>1. free_area'[i] = free_area[k] \ {p} /\ nr_free'[i] = nr_free[k] - 1
        BY <2>4, <1>1, <1>2 DEF TypeOK
      <3> QED  BY <3>1, <2>2, <1>1 DEF CountsExact
    <2>5. CASE i = j
      <3>1. free_area'[i] = free_area[j] \cup {buddy, p} /\ nr_free'[i] = nr_free[j] + 2
        BY <2>5, <1>1, <1>2 DEF TypeOK
      <3> QED  BY <3>1, <2>3, <1>1, <1>2 DEF CountsExact
    <2>6. CASE i # k /\ i # j
      <3>1. free_area'[i] = free_area[i] /\ nr_free'[i] = nr_free[i]
        BY <2>6, <1>1 DEF TypeOK
      <3> QED  BY <3>1, <1>1 DEF CountsExact
    <2> QED  BY <2>4, <2>5, <2>6
  <1>8. Listed' = (Listed \ {<<p, k>>}) \cup {<<p, j>>, <<buddy, j>>}
    <2>1. p \in Page
      OBVIOUS
    <2>2. \A i \in Orders : free_area'[i] = IF i = k THEN free_area[k] \ {p}
                                  ELSE IF i = j THEN free_area[j] \cup {buddy, p}
                                  ELSE free_area[i]
      BY <1>1, <1>2 DEF TypeOK
    <2>3. \A b : b \in Listed' <=>
              b \in (Listed \ {<<p, k>>}) \cup {<<p, j>>, <<buddy, j>>}
      <3> TAKE b
      <3> DEFINE x == b[1]
                 i == b[2]
      <3>1. CASE b \notin Page \X Orders
        BY <3>1, <1>1, <1>2, <1>5, <2>1 DEF Listed
      <3>2. CASE b \in Page \X Orders
        <4>1. b = <<x, i>> /\ x \in Page /\ i \in Orders
          BY <3>2
        <4>2. b \in Listed <=> x \in free_area[i]
          BY <3>2 DEF Listed
        <4>3. b \in Listed' <=> x \in free_area'[i]
          BY <3>2 DEF Listed
        <4>4. k # j
          BY <1>2
        <4>5. CASE i = k
          <5>1. free_area'[i] = free_area[i] \ {p}
            BY <4>1, <4>5, <2>2
          <5>2. b # <<p, j>> /\ b # <<buddy, j>>
            BY <4>1, <4>4, <4>5
          <5>3. b = <<p, k>> <=> x = p
            BY <4>1, <4>5
          <5> QED  BY <4>2, <4>3, <5>1, <5>2, <5>3
        <4>6. CASE i = j
          <5>1. free_area'[i] = free_area[i] \cup {buddy, p}
            BY <4>1, <4>4, <4>6, <2>2
          <5>2. b # <<p, k>>
            BY <4>1, <4>4, <4>6
          <5>3. (b = <<p, j>> <=> x = p) /\ (b = <<buddy, j>> <=> x = buddy)
            BY <4>1, <4>6
          <5> QED  BY <4>2, <4>3, <5>1, <5>2, <5>3
        <4>7. CASE i # k /\ i # j
          <5>1. free_area'[i] = free_area[i]
            BY <4>1, <4>7, <2>2
          <5>2. b # <<p, k>> /\ b # <<p, j>> /\ b # <<buddy, j>>
            BY <4>1, <4>7
          <5> QED  BY <4>2, <4>3, <5>1, <5>2
        <4> QED  BY <4>5, <4>6, <4>7
      <3> QED  BY <3>1, <3>2
    <2> QED  BY <2>3
  <1>9. \A b \in Listed' : b[2] > k => Misses(b)
    BY <1>1, <1>2, <1>8 DEF Reserving
  <1>10. ~ Misses(<<p, j>>) \/ ~ Misses(<<buddy, j>>)
    <2>1. range[1] \in Int /\ range[2] \in Int /\ range[1] <= range[2]
      BY <1>1 DEF TypeOK, Reserving
    <2>2. ~ (p + 2 * Pow[j] <= range[1] \/ p > range[2])
      BY <1>1, <1>5 DEF Misses
    <2>3. \/ ~ (p + Pow[j] <= range[1] \/ p > range[2])
          \/ ~ ((p + Pow[j]) + Pow[j] <= range[1] \/ p + Pow[j] > range[2])
      BY <2>1, <2>2, <1>5
    <2> QED  BY <2>3, <1>4 DEF Misses
  <1>11. BuddyOf(buddy, j) = p
    BY <1>2, <1>4, BuddyTwice
  <1>12. ASSUME NEW b \in Listed', Paired(b)'
         PROVE  /\ b[2] = k \/ b[2] = k - 1
                /\ ~ Misses(b) \/ ~ Misses(<<BuddyOf(b[1], b[2]), b[2]>>)
    <2>1. CASE b = <<p, j>> \/ b = <<buddy, j>>
      BY <2>1, <1>10, <1>11
    <2>2. CASE b \in Listed /\ b # <<p, j>> /\ b # <<buddy, j>>
      <3> DEFINE c == BuddyOf(b[1], b[2])
      <3>1. b \in Block /\ b = <<b[1], b[2]>> /\ b[2] \in Orders /\ b[2] < MaxOrder
        BY <2>2, <1>1, <1>12, ListedBlocks, BlockFields DEF Paired
      <3>2. c \in free_area'[b[2]]
        BY <1>12 DEF Paired
      <3>3. b[2] = j => c # p /\ c # buddy
        <4>1. ASSUME b[2] = j, c = p \/ c = buddy PROVE FALSE
          <5>1. BuddyOf(c, j) = b[1]
            BY <3>1, <4>1, BuddyTwice
          <5>2. b[1] = buddy \/ b[1] = p
            BY <4>1, <5>1, <1>11
          <5> QED  BY <4>1, <5>2, <3>1, <2>2
        <4> QED  BY <4>1
      <3>4. c \in free_area[b[2]]
        BY <3>1, <3>2, <3>3, <1>1 DEF TypeOK
      <3>5. Paired(b)
        BY <3>1, <3>4 DEF Paired
      <3> QED  BY <3>5, <2>2, <1>1 DEF Reserving
    <2> QED  BY <2>1, <2>2, <1>8
  <1>13. Covered' = Covered
    BY <1>1 DEF Covered
  <1>14. Reserving'
    BY <1>1, <1>9, <1>12, <1>13 DEF Reserving, Misses
  <1> QED  BY <1>1, <1>7, <1>14 DEF Settled

-----------------------------------------------------------------------------
(* The calls keep the lists merged.                                        *)

\* A page of the block in hand is on no list.
LEMMA HandNotListed ==
    ASSUME HeldBlocks, EveryPageHeldOnce, NEW c \in InHand, NEW x \in Span(c),
           NEW k \in Orders, x \in Page
    PROVE  x \notin free_area[k]
  <1> SUFFICES ASSUME x \in free_area[k] PROVE FALSE
    OBVIOUS
  <1>1. <<x, k>> \in Listed
    BY DEF Listed
  <1>2. <<"hand", c>> \in Holdings
    BY HoldingIntro
  <1> QED  BY <1>1, <1>2, OtherHeads

\* A step that only shortens lists, outside memory_reserve.
LEMMA ShorterListsPool ==
    ASSUME PInv, pc # "reserve", pc' # "reserve", CountsExact',
           \A k \in Orders : free_area'[k] \subseteq free_area[k],
           UNCHANGED <<withheld, asked>>
    PROVE  CountsExact' /\ Reserving' /\ Settled'
  <1>1. /\ Listed' \subseteq Listed
        /\ \A b \in Listed' : Paired(b)' => Paired(b)
    BY PairsFewer
  <1>2. Covered' = Covered
    BY DEF Covered
  <1> QED  BY <1>1, <1>2 DEF PInv, Settled, Reserving

LEMMA TakePool ==
    ASSUME PInv, NEW k \in Orders, NEW c \in Orders, NEW p \in Page, Take(k, c, p)
    PROVE  CountsExact' /\ Reserving' /\ Settled'
  <1>1. /\ TypeOK /\ CountsExact /\ p \in free_area[c] /\ RemoveFrom(p, c)
        /\ pc = "idle" /\ pc' = "split" /\ UNCHANGED <<withheld, asked>>
    BY DEF PInv, IInv, Take, history
  <1>2. CountsExact'
    BY <1>1, CountAfterRemove
  <1>3. \A i \in Orders : free_area'[i] \subseteq free_area[i]
    BY <1>1 DEF RemoveFrom, TypeOK
  <1> QED  BY <1>1, <1>2, <1>3, ShorterListsPool

LEMMA SplitPool == ASSUME PInv, Split PROVE CountsExact' /\ Reserving' /\ Settled'
  <1> DEFINE c == current_order
             k == c - 1
             buddy == BuddyOf(target, k)
  <1>1. /\ TypeOK /\ HeldBlocks /\ EveryPageHeldOnce /\ CountsExact /\ Settled
        /\ pc = "split" /\ pc' = "split" /\ want < c /\ c \in Orders /\ want \in Orders
        /\ target \in Page /\ Push(buddy, k) /\ UNCHANGED <<withheld, asked>>
    BY DEF PInv, IInv, TypeOK, Split, Half, history, Orders
  <1>2. k \in Orders /\ k < MaxOrder /\ c = k + 1
    BY <1>1, OrderAssumption DEF Orders
  <1>3. <<target, c>> \in InHand /\ <<target, c>> \in Block
    <2>1. <<target, c>> \in InHand
      BY <1>1 DEF InHand
    <2>2. <<"hand", <<target, c>>>> \in Holdings
      BY <2>1, HoldingIntro
    <2> QED  BY <1>1, <2>1, <2>2 DEF HeldBlocks
  <1>4. /\ <<target, k>> \in Block /\ <<buddy, k>> \in Block /\ buddy \in Page
        /\ target \in Span(<<target, c>>) /\ buddy \in Span(<<target, c>>)
    <2>1. /\ buddy = target + Pow[k]
          /\ <<target, k>> \in Block /\ <<buddy, k>> \in Block
          /\ Span(<<target, c>>) = Span(<<target, k>>) \cup Span(<<buddy, k>>)
      BY <1>2, <1>3, Halves
    <2> QED  BY <2>1, BlockFields
  <1>5. buddy \notin free_area[k] /\ target \notin free_area[k]
    BY <1>1, <1>2, <1>3, <1>4, HandNotListed
  <1>6. CountsExact'
    BY <1>1, <1>2, <1>5, CountAfterPush
  <1>7. BuddyOf(buddy, k) = target
    BY <1>2, <1>4, BuddyTwice
  <1>8. \A b \in Listed' : ~ Paired(b)'
    <2>1. \A b \in Listed : ~ Paired(b)
      BY <1>1 DEF Settled
    <2> HIDE DEF buddy
    <2> QED  BY <1>1, <1>2, <1>4, <1>5, <1>7, <2>1, PairsAfterPush
  <1> QED  BY <1>1, <1>6, <1>8 DEF Settled, Reserving, Covered

LEMMA MergePool == ASSUME PInv, Merge PROVE CountsExact' /\ Reserving' /\ Settled'
  <1> DEFINE buddy == BuddyOf(target, current_order)
  <1>1. /\ TypeOK /\ CountsExact /\ buddy \in free_area[current_order]
        /\ current_order \in Orders /\ RemoveFrom(buddy, current_order)
        /\ pc = "merge" /\ pc' = "merge" /\ UNCHANGED <<withheld, asked>>
    BY DEF PInv, IInv, TypeOK, Merge, history
  <1>2. CountsExact'
    BY <1>1, CountAfterRemove
  <1>3. \A i \in Orders : free_area'[i] \subseteq free_area[i]
    BY <1>1 DEF RemoveFrom, TypeOK
  <1> QED  BY <1>1, <1>2, <1>3, ShorterListsPool

\* The loop ends with a block whose buddy is not listed: a listed buddy tells
\* its order and PAGE_FREE, and the loop goes on.
LEMMA InsertPool == ASSUME PInv, Insert PROVE CountsExact' /\ Reserving' /\ Settled'
  <1> DEFINE k == current_order
             buddy == BuddyOf(target, k)
  <1>1. /\ TypeOK /\ HeldBlocks /\ EveryPageHeldOnce /\ HeadersTell
        /\ CountsExact /\ Settled
        /\ pc = "merge" /\ pc' = "idle" /\ k \in Orders /\ target \in Page
        /\ ~ CanMerge /\ Push(target, k) /\ UNCHANGED <<withheld, asked>>
    BY DEF PInv, IInv, TypeOK, Insert, history
  <1>2. <<target, k>> \in InHand /\ <<target, k>> \in Block
    <2>1. <<target, k>> \in InHand
      BY <1>1 DEF InHand
    <2>2. <<"hand", <<target, k>>>> \in Holdings
      BY <2>1, HoldingIntro
    <2> QED  BY <1>1, <2>1, <2>2 DEF HeldBlocks
  <1>3. target \in Span(<<target, k>>)
    BY <1>2, BlockFields
  <1>4. target \notin free_area[k]
    BY <1>1, <1>2, <1>3, HandNotListed
  <1>5. CountsExact'
    BY <1>1, <1>4, CountAfterPush
  <1>6. k < MaxOrder => buddy \notin free_area[k]
    <2> SUFFICES ASSUME k < MaxOrder, buddy \in free_area[k] PROVE FALSE
      OBVIOUS
    <2>1. <<buddy, k>> \in Listed
      BY <1>1 DEF Listed, TypeOK
    <2>2. order[buddy] = k /\ status[buddy] = "FREE"
      BY <1>1, <2>1 DEF HeadersTell
    <2> QED  BY <1>1, <2>2 DEF CanMerge
  <1>7. \A b \in Listed' : ~ Paired(b)'
    <2>1. \A b \in Listed : ~ Paired(b)
      BY <1>1 DEF Settled
    <2> QED  BY <1>1, <1>2, <1>6, <2>1, PairsAfterPush
  <1> QED  BY <1>1, <1>5, <1>7 DEF Settled, Reserving, Covered
LEMMA NextPool == ASSUME PInv, [Next]_vars PROVE PInv'
  <1>1. IInv'
    BY NextInv DEF PInv
  <1>2. CountsExact' /\ Reserving' /\ Settled'
    <2>1. ASSUME UNCHANGED <<free_area, nr_free, withheld, asked>>,
                 pc # "reserve", pc' # "reserve"
          PROVE  CountsExact' /\ Reserving' /\ Settled'
      <3>1. CountsExact'
        BY <2>1 DEF PInv, CountsExact
      <3>2. \A k \in Orders : free_area'[k] \subseteq free_area[k]
        BY <2>1
      <3> QED  BY <2>1, <3>1, <3>2, ShorterListsPool
    <2>2. CASE UNCHANGED vars
      <3>1. UNCHANGED <<free_area, nr_free, withheld, asked, pc, range, current_order>>
        BY <2>2 DEF vars, lists, frame, history
      <3> QED  BY <3>1 DEF PInv, CountsExact, Reserving, Settled, Covered, Listed,
                           Paired, Misses
    <2>3. CASE \E r \in Ranges : MemoryReserve(r)
      BY <2>3, MemoryReservePool
    <2>4. CASE \E p \in Page : ReserveBlock(p) \/ ReserveSplit(p)
      BY <2>4, ReserveBlockPool, ReserveSplitPool
    <2>5. CASE ReserveNext
      BY <2>5, ReserveNextPool
    <2>6. CASE \E k \in Orders, c \in Orders, p \in Page : Take(k, c, p)
      BY <2>6, TakePool
    <2>7. CASE Split \/ Merge \/ Insert
      BY <2>7, SplitPool, MergePool, InsertPool
    <2>8. CASE \/ BootDone
               \/ \E k \in Orders : Fail(k)
               \/ \E b \in live : Free(b)
               \/ Return \/ MergeUnlisted
      BY <2>1, <2>8 DEF BootDone, Fail, Free, Return, MergeUnlisted, lists, history
    <2> QED  BY <2>2, <2>3, <2>4, <2>5, <2>6, <2>7, <2>8 DEF Next, Continue
  <1> QED  BY <1>1, <1>2 DEF PInv

\* PInv, the inductive invariant behind PoolSound, holds of every pool, for
\* every size of the memory and every number of orders.
THEOREM PoolInductive == Spec => []PInv
  <1>1. Init => PInv
    BY InitPool
  <1>2. PInv /\ [Next]_vars => PInv'
    BY NextPool
  <1> QED  BY <1>1, <1>2, PTL DEF Spec

\* Between calls the free blocks are merged, the counts exact, and the pages
\* memory_reserve was asked for withheld, they alone.
THEOREM PoolAlwaysSound == Spec => []PoolSound
  <1>1. PInv => PoolSound
    <2> SUFFICES ASSUME PInv PROVE PoolSound
      OBVIOUS
    <2>1. Coalesced
      BY DEF PInv, Settled, Paired, Coalesced
    <2>2. ReservedExactly
      BY DEF PInv, Settled, Covered, ReservedExactly
    <2> QED  BY <2>1, <2>2 DEF PInv, PoolSound
  <1> QED  BY <1>1, PoolInductive, PTL

-----------------------------------------------------------------------------
(* The buddy system does what PageAllocator promises.                      *)

\* Every page of a block that nobody owns is in a listed block: nothing is in
\* hand between calls.
LEMMA UnownedListed ==
    ASSUME PInv, pc = "idle", NEW b \in Block, Abstract!Unowned(b),
           NEW h \in Holdings, NEW x \in Span(b), x \in Span(h[2])
    PROVE  h[2] \in Listed
  <1>1. h[2] \notin live \cup withheld
    BY DEF Abstract!Unowned, Apart, Abstract!Apart, Abstract!Span, Span
  <1> QED  BY <1>1, HoldingCases DEF InHand
\* A block that meets a block at least as large lies inside it.
LEMMA MeetsInside ==
    ASSUME NEW b \in Block, NEW g \in Block, g[2] <= b[2],
           NEW x \in Span(b), x \in Span(g)
    PROVE  Span(g) \subseteq Span(b)
  <1>1. /\ b[1] \in Nat /\ g[1] \in Nat /\ b[2] \in Orders /\ g[2] \in Orders
        /\ Aligned(b[1], b[2]) /\ Aligned(g[1], g[2])
        /\ Pow[b[2]] \in Nat /\ Pow[g[2]] \in Nat
    BY BlockFields
  <1>2. \/ g[1] + Pow[g[2]] <= b[1]
        \/ b[1] + Pow[b[2]] <= g[1]
        \/ b[1] <= g[1] /\ g[1] + Pow[g[2]] <= b[1] + Pow[b[2]]
    BY <1>1, Nested
  <1>3. b[1] <= x /\ x < b[1] + Pow[b[2]] /\ g[1] <= x /\ x < g[1] + Pow[g[2]] /\ x \in Int
    BY <1>1 DEF Span
  <1>4. b[1] <= g[1] /\ g[1] + Pow[g[2]] <= b[1] + Pow[b[2]]
    BY <1>1, <1>2, <1>3
  <1> QED  BY <1>1, <1>4 DEF Span

\* A request is refused only when no aligned block of its order is unowned.
\* Otherwise such a block is made of listed blocks of lower orders; the buddy
\* of a smallest one of them is inside it too, so it is listed, of the same
\* order, and the two would have been merged.
LEMMA RefusedWhenCut ==
    ASSUME PInv, pc = "idle", NEW k \in Orders,
           \A i \in k .. MaxOrder : free_area[i] = {},
           NEW b \in Block, b[2] = k, Abstract!Unowned(b)
    PROVE  FALSE
  <1> DEFINE T == {j \in Orders : \E g \in Listed : g[2] = j /\ g[1] \in Span(b)}
  <1>1. /\ HeldBlocks /\ EveryPageHeldOnce
        /\ \A g \in Listed : ~ Paired(g)
    BY DEF PInv, IInv, Settled
  <1>2. k \in Int /\ k <= MaxOrder /\ MaxOrder \in Int
    BY OrderAssumption DEF Orders
  <1>3. \A g \in Listed : g \in Block /\ g[2] \in Orders /\ g[2] \in Int /\ g[2] < k
    <2> TAKE g \in Listed
    <2>1. g \in Block /\ g[2] \in Orders /\ g[2] \in Int /\ g[2] <= MaxOrder
      BY <1>1, ListedBlocks, BlockFields, OrderAssumption DEF Orders
    <2>2. free_area[g[2]] # {}
      BY DEF Listed
    <2>3. ~ k <= g[2]
      BY <2>1, <2>2, <1>2
    <2> QED  BY <2>1, <2>3, <1>2
  <1>4. T # {}
    <2>1. b[1] \in Span(b) /\ b[1] \in Page
      BY BlockFields
    <2>2. PICK h \in Holdings : b[1] \in Span(h[2])
      BY <2>1, <1>1 DEF EveryPageHeldOnce, Partition
    <2>3. h[2] \in Listed
      BY <2>1, <2>2, UnownedListed
    <2>4. Span(h[2]) \subseteq Span(b)
      BY <2>1, <2>2, <2>3, <1>2, <1>3, MeetsInside
    <2>5. h[2][1] \in Span(b) /\ h[2][2] \in Orders
      BY <2>3, <2>4, <1>3, BlockFields
    <2> QED  BY <2>3, <2>5
  <1>5. PICK j \in T : \A i \in T : j <= i
    <2>1. T \subseteq Nat
      BY OrderAssumption DEF Orders
    <2> HIDE DEF T
    <2> QED  BY <2>1, <1>4, LeastNat
  <1>6. PICK g \in Listed : g[2] = j /\ g[1] \in Span(b)
    BY <1>5
  <1> DEFINE q == g[1]
             bq == BuddyOf(q, j)
             low == IF q < bq THEN q ELSE bq
             h == <<"free", <<q, j>>>>
  <1>7. /\ g = <<q, j>> /\ g \in Block /\ j \in Orders /\ j \in Int
        /\ j < k /\ j < MaxOrder /\ q \in Span(g)
    BY <1>2, <1>3, <1>6, BlockFields
  <1>8. /\ <<bq, j>> \in Block /\ <<low, j + 1>> \in Block
        /\ Span(<<low, j + 1>>) = Span(<<q, j>>) \cup Span(<<bq, j>>)
    BY <1>7, BuddyPair
  <1>9. bq \in Span(b) /\ bq \in Page
    <2>1. q \in Span(<<low, j + 1>>) /\ bq \in Span(<<low, j + 1>>) /\ bq \in Page
      BY <1>7, <1>8, BlockFields
    <2>2. j + 1 <= k
      BY <1>2, <1>7
    <2>3. Span(<<low, j + 1>>) \subseteq Span(b)
      <3> HIDE DEF low, bq
      <3> QED  BY <2>1, <2>2, <1>6, <1>8, MeetsInside
    <2> QED  BY <2>1, <2>3
  <1>10. PICK f \in Holdings : f[2][1] = bq /\ f[2][2] <= j
    <2>1. h \in Holdings
      BY <1>6, <1>7, HoldingIntro
    <2>2. Partition(Holdings) /\ (\A f \in Holdings : f[2] \in Block)
      BY <1>1 DEF HeldBlocks, EveryPageHeldOnce
    <2>3. h[2] = <<q, j>>
      OBVIOUS
    <2> HIDE DEF h
    <2> QED  BY <1>7, <2>1, <2>2, <2>3, BuddyIsHead
  <1>11. f[2] \in Listed
    <2>1. bq \in Span(f[2])
      BY <1>1, <1>10, BlockFields DEF HeldBlocks
    <2> HIDE DEF bq
    <2> QED  BY <2>1, <1>9, UnownedListed
  <1>12. f[2][2] = j
    <2>1. f[2][2] \in T
      BY <1>3, <1>9, <1>10, <1>11
    <2>2. f[2][2] \in Int
      BY <1>3, <1>11
    <2> QED  BY <2>1, <2>2, <1>5, <1>7, <1>10
  <1>13. bq \in free_area[j]
    BY <1>10, <1>11, <1>12 DEF Listed
  <1> QED  BY <1>1, <1>6, <1>7, <1>13 DEF Paired
\* A block in hand or on a list is unowned.
LEMMA HeldUnowned ==
    ASSUME HeldBlocks, EveryPageHeldOnce, NEW t \in {"free", "hand"}, NEW b,
           <<t, b>> \in Holdings
    PROVE  b \in Abstract!Block /\ Abstract!Unowned(b)
  <1> DEFINE h == <<t, b>>
  <1>1. h[2] \in Block
    BY DEF HeldBlocks
  <1>2. ASSUME NEW c \in live \cup withheld PROVE Apart(b, c)
    <2>1. PICK u \in {"live", "withheld"} : <<u, c>> \in Holdings
      BY <1>2, HoldingIntro
    <2> DEFINE g == <<u, c>>
    <2>2. g # h /\ g[2] = c /\ h[2] = b
      OBVIOUS
    <2> HIDE DEF g, h
    <2>3. Apart(h[2], g[2])
      BY <2>1, <2>2 DEF EveryPageHeldOnce, Partition, h, g
    <2> QED  BY <2>2, <2>3
  <1> QED  BY <1>1, <1>2 DEF Abstract!Unowned, Abstract!Apart, Abstract!Span, Apart, Span,
              Abstract!Block, Block, Abstract!Page, Page, Abstract!Orders, Orders,
              Abstract!Aligned, Aligned

\* Each step of the buddy system is the step of PageAllocator a caller sees,
\* or none.
LEMMA StepPromised ==
    ASSUME PInv, [Next]_vars
    PROVE  [Abstract!Next]_(Abstract!vars)
  <1>1. HeldBlocks /\ EveryPageHeldOnce /\ TypeOK /\ Progress
    BY DEF PInv, IInv
  <1>2. ASSUME UNCHANGED <<live, withheld, refused>> PROVE UNCHANGED Abstract!vars
    BY <1>2 DEF Abstract!vars
  <1>3. CASE UNCHANGED vars
    BY <1>2, <1>3 DEF vars, history
  <1>4. ASSUME NEW p \in Page, ReserveBlock(p) PROVE Abstract!Next
    <2> DEFINE b == <<p, current_order>>
    <2>1. /\ b \in Listed /\ live = {} /\ withheld' = withheld \cup {b}
          /\ UNCHANGED <<live, refused>>
      BY <1>1, <1>4 DEF ReserveBlock, Progress, Listed, TypeOK
    <2>2. b \in Abstract!Block /\ Abstract!Unowned(b)
      <3> HIDE DEF b
      <3> QED  BY <1>1, <2>1, HoldingIntro, HeldUnowned
    <2>3. Abstract!Withhold(b)
      BY <2>1, <2>2 DEF Abstract!Withhold
    <2> HIDE DEF b
    <2> QED  BY <2>2, <2>3 DEF Abstract!Next
  <1>5. CASE Return
    <2> DEFINE b == <<target, want>>
    <2>1. /\ b \in InHand /\ live' = live \cup {b} /\ refused' = -1
          /\ UNCHANGED withheld
      BY <1>1, <1>5, OrderAssumption DEF Return, Progress, InHand, TypeOK, Orders
    <2>2. b \in Abstract!Block /\ Abstract!Unowned(b)
      <3> HIDE DEF b
      <3> QED  BY <1>1, <2>1, HoldingIntro, HeldUnowned
    <2>3. Abstract!Allocate(b)
      BY <2>1, <2>2 DEF Abstract!Allocate
    <2> HIDE DEF b
    <2> QED  BY <2>2, <2>3 DEF Abstract!Next
  <1>6. ASSUME NEW b \in live, Free(b) PROVE Abstract!Next
    <2>1. b \in Block
      <3> DEFINE h == <<"live", b>>
      <3>1. h \in Holdings
        BY HoldingIntro
      <3>2. h[2] \in Block
        BY <1>1, <3>1 DEF HeldBlocks
      <3> QED  BY <3>2
    <2>2. b \in Abstract!Block
      BY <2>1 DEF Abstract!Block, Block, Abstract!Page, Page, Abstract!Orders, Orders,
              Abstract!Aligned, Aligned
    <2>3. Abstract!Release(b)
      BY <1>6 DEF Free, Abstract!Release
    <2> QED  BY <2>2, <2>3 DEF Abstract!Next
  <1>7. ASSUME NEW k \in Orders, Fail(k) PROVE Abstract!Next
    <2>1. ASSUME NEW b \in Abstract!Block, b[2] = k, Abstract!Unowned(b) PROVE FALSE
      <3>1. b \in Block
        BY <2>1 DEF Abstract!Block, Block, Abstract!Page, Page, Abstract!Orders, Orders,
              Abstract!Aligned, Aligned
      <3> QED  BY <2>1, <3>1, <1>7, RefusedWhenCut DEF Fail
    <2>2. Abstract!Refuse(k)
      BY <1>7, <2>1 DEF Fail, Abstract!Refuse
    <2>3. k \in Abstract!Orders
      BY DEF Abstract!Orders, Orders
    <2> QED  BY <2>2, <2>3 DEF Abstract!Next
  <1>8. CASE \/ \E r \in Ranges : MemoryReserve(r)
             \/ BootDone
             \/ \E k \in Orders, c \in Orders, p \in Page : Take(k, c, p)
             \/ \E p \in Page : ReserveSplit(p)
             \/ ReserveNext \/ Split \/ Merge \/ MergeUnlisted \/ Insert
    BY <1>2, <1>8 DEF MemoryReserve, BootDone, Take, ReserveSplit, ReserveNext, Split,
                      Merge, MergeUnlisted, Insert, history
  <1> QED  BY <1>3, <1>4, <1>5, <1>6, <1>7, <1>8 DEF Next, Continue

\* buddy_malloc, buddy_free and memory_reserve implement PageAllocator: a
\* caller owns its block alone, withheld pages are never handed out, and a
\* request is refused only when the pool is really cut up.
THEOREM KeepsPromise == Spec => AllocatorPromise
  <1>1. Init => Abstract!Init
    BY DEF Init, Abstract!Init
  <1>2. PInv /\ [Next]_vars => [Abstract!Next]_(Abstract!vars)
    BY StepPromised
  <1> QED  BY <1>1, <1>2, PoolInductive, PTL DEF Spec, AllocatorPromise, Abstract!Spec

-----------------------------------------------------------------------------
(* Proof by the least number                                               *)

\* Where data would be counted up, LeastNat finds the first number that fails.
\* A set of numbers with 0 in it, and with each number the next, up to n.
LEMMA UpTo ==
    ASSUME NEW n \in Nat, NEW S, 0 \in S, \A k \in 1 .. n : k - 1 \in S => k \in S
    PROVE  \A k \in 0 .. n : k \in S
  <1> DEFINE Bad == {k \in 0 .. n : k \notin S}
  <1>1. SUFFICES ASSUME Bad # {} PROVE FALSE
    OBVIOUS
  <1>2. Bad \in SUBSET Nat
    OBVIOUS
  <1>3. PICK k \in Bad : \A m \in Bad : k <= m
    <2> HIDE DEF Bad
    <2> QED  BY <1>1, <1>2, LeastNat
  <1>4. k \in 1 .. n /\ k \notin S
    BY <1>3
  <1>5. k - 1 \in Bad
    BY <1>4
  <1> QED  BY <1>3, <1>4, <1>5

LEMMA GreatestIn ==
    ASSUME NEW n \in Nat, NEW s \in SUBSET (1 .. n), s # {}
    PROVE  Max(s) \in s /\ \A x \in s : x <= Max(s)
  <1> DEFINE S == {j \in 0 .. n : n - j \in s}
  <1>0. PICK y \in s : y \in 1 .. n
    OBVIOUS
  <1>1. S \in SUBSET Nat /\ n - y \in S
    BY <1>0
  <1>2. PICK m \in S : \A k \in S : m <= k
    <2> HIDE DEF S
    <2> QED  BY <1>1, LeastNat
  <1>3. \A x \in s : x \in 1 .. n /\ n - x \in S
    OBVIOUS
  <1>4. \A x \in s : n - m >= x
    <2>1. TAKE x \in s
    <2>2. x \in 1 .. n /\ m <= n - x /\ m \in 0 .. n
      BY <1>2, <1>3
    <2> QED  BY <2>2
  <1>5. n - m \in s
    BY <1>2
  <1>6. \E z \in s : \A x \in s : z >= x
    BY <1>4, <1>5
  <1>7. \A x \in s : x \in Int
    OBVIOUS
  <1> HIDE DEF S
  <1>8. Max(s) \in s /\ \A x \in s : Max(s) >= x
    BY <1>6 DEF Max
  <1> QED  BY <1>7, <1>8

-----------------------------------------------------------------------------
(* Folds.  The community modules define a fold by a recursive function on  *)
(* the sets of indices; it exists, since a fold of fewer indices does.     *)

FoldsOn(f, m, A, base, op) ==
    /\ f \in [SUBSET (1 .. m) -> A]
    /\ \A s \in SUBSET (1 .. m) :
        f[s] = IF s = {} THEN base ELSE op[Max(s)][f[s \ {Max(s)}]]

LEMMA FoldExists ==
    ASSUME NEW n \in Nat, NEW A, NEW base \in A, NEW op \in [1 .. n -> [A -> A]]
    PROVE  \E f : FoldsOn(f, n, A, base, op)
  <1> DEFINE S == {k \in 0 .. n : \E f : FoldsOn(f, k, A, base, op)}
  <1>1. 0 \in S
    <2> DEFINE f == [s \in SUBSET (1 .. 0) |-> base]
    <2>1. \A s \in SUBSET (1 .. 0) : s = {}
      OBVIOUS
    <2>2. FoldsOn(f, 0, A, base, op)
      BY <2>1 DEF FoldsOn
    <2> HIDE DEF f
    <2> QED  BY <2>2
  <1>2. ASSUME NEW k \in 1 .. n, k - 1 \in S PROVE k \in S
    <2>1. PICK f : FoldsOn(f, k - 1, A, base, op)
      BY <1>2
    <2> DEFINE g == [s \in SUBSET (1 .. k) |-> IF k \in s THEN op[k][f[s \ {k}]] ELSE f[s]]
    <2>2. \A s \in SUBSET (1 .. k) : s \ {k} \in SUBSET (1 .. k - 1)
      OBVIOUS
    <2>3. \A s \in SUBSET (1 .. k) : g[s] \in A
      BY <2>1, <2>2 DEF FoldsOn
    <2>4. ASSUME NEW s \in SUBSET (1 .. k)
          PROVE  g[s] = IF s = {} THEN base ELSE op[Max(s)][g[s \ {Max(s)}]]
      <3>1. CASE s = {}
        BY <3>1, <2>1, <2>2 DEF FoldsOn
      <3>2. CASE s # {} /\ k \in s
        <4>1. Max(s) \in s /\ k <= Max(s)
          <5>1. k \in Nat /\ s \in SUBSET (1 .. k)
            OBVIOUS
          <5> QED  BY ONLY <5>1, <3>2, GreatestIn
        <4>2. Max(s) = k
          <5>1. Max(s) \in 1 .. k
            BY <4>1
          <5> HIDE DEF g
          <5> QED  BY <4>1, <5>1
        <4>3. g[s \ {k}] = f[s \ {k}]
          BY <2>2
        <4> QED  BY <3>2, <4>2, <4>3
      <3>3. CASE s # {} /\ k \notin s
        <4>1. Max(s) \in s
          <5>1. k \in Nat /\ s \in SUBSET (1 .. k)
            OBVIOUS
          <5> QED  BY ONLY <5>1, <3>3, GreatestIn
        <4>2. s \in SUBSET (1 .. k - 1) /\ s \ {Max(s)} \in SUBSET (1 .. k) /\ k \notin s \ {Max(s)}
          BY <3>3, <2>2
        <4>3. g[s] = f[s] /\ g[s \ {Max(s)}] = f[s \ {Max(s)}]
          BY <3>3, <4>2
        <4>4. f[s] = op[Max(s)][f[s \ {Max(s)}]]
          BY <3>3, <4>2, <2>1 DEF FoldsOn
        <4> HIDE DEF g
        <4> QED  BY <3>3, <4>3, <4>4
      <3> QED  BY <3>1, <3>2, <3>3
    <2>5. FoldsOn(g, k, A, base, op)
      <3>1. g \in [SUBSET (1 .. k) -> A]
        BY <2>3
      <3> HIDE DEF g
      <3> QED  BY <3>1, <2>4 DEF FoldsOn
    <2> HIDE DEF g
    <2> QED  BY <2>5
  <1> HIDE DEF S
  <1>3. \A k \in 0 .. n : k \in S
    BY <1>1, <1>2, UpTo
  <1> QED  BY <1>3 DEF S

\* What a fold goes through, one index at a time.
LEMMA FoldPrefix ==
    ASSUME NEW n \in Nat, NEW k \in 1 .. n
    PROVE  /\ 1 .. k \in SUBSET (1 .. n) /\ 1 .. k # {}
           /\ Max(1 .. k) = k /\ (1 .. k) \ {Max(1 .. k)} = 1 .. k - 1
  <1>1. 1 .. k \in SUBSET (1 .. n) /\ k \in 1 .. k
    OBVIOUS
  <1>2. Max(1 .. k) \in 1 .. k /\ k <= Max(1 .. k)
    BY <1>1, GreatestIn
  <1> QED  BY <1>1, <1>2

-----------------------------------------------------------------------------
(* Stores (include/lib/list.h)                                             *)

Links == [next : [Node -> Node], prev : [Node -> Node]]
Stores == [field : {"next", "prev"}, node : Node, value : Node]

\* The links after stores that are still to be made.
LEMMA ApplyTyped ==
    ASSUME NEW l \in Links, NEW s \in Stores
    PROVE  Apply(l, s) \in Links
  BY DEF Links, Stores, Apply

LEMMA StoreTyped ==
    ASSUME NEW f \in {"next", "prev"}, NEW n \in Node, NEW w \in Node
    PROVE  Store(f, n, w) \in Stores
  BY DEF Store, Stores

LEMMA ApplyNext ==
    ASSUME NEW l \in Links, NEW n \in Node, NEW w \in Node
    PROVE  /\ Apply(l, Store("next", n, w)).next = [l.next EXCEPT ![n] = w]
           /\ Apply(l, Store("next", n, w)).prev = l.prev
  BY DEF Links, Store, Apply

LEMMA ApplyPrev ==
    ASSUME NEW l \in Links, NEW n \in Node, NEW w \in Node
    PROVE  /\ Apply(l, Store("prev", n, w)).prev = [l.prev EXCEPT ![n] = w]
           /\ Apply(l, Store("prev", n, w)).next = l.next
  BY DEF Links, Store, Apply

\* The fold of ApplyAll.
StoreFold(s, base, f) ==
    f = [S \in SUBSET DOMAIN s |->
            IF S = {} THEN base ELSE Apply(f[S \ {Max(S)}], s[Max(S)])]

LEMMA ApplyAllFold ==
    ASSUME NEW l, NEW s
    PROVE  ApplyAll(l, s) = (CHOOSE f : StoreFold(s, l, f))[DOMAIN s]
  BY DEF ApplyAll, FoldLeft, MapThenFoldSet, StoreFold

\* ApplyAll makes the stores one after another.
LEMMA AppliedEach ==
    ASSUME NEW l \in Links, NEW s \in Seq(Stores)
    PROVE  \E g \in [0 .. Len(s) -> Links] :
              /\ g[0] = l /\ \A k \in 1 .. Len(s) : g[k] = Apply(g[k - 1], s[k])
              /\ ApplyAll(l, s) = g[Len(s)]
  <1> DEFINE n == Len(s)
             op == [i \in 1 .. n |-> [a \in Links |-> Apply(a, s[i])]]
             F == CHOOSE f : StoreFold(s, l, f)
             g == [k \in 0 .. n |-> F[1 .. k]]
  <1>1. n \in Nat /\ DOMAIN s = 1 .. n /\ \A i \in 1 .. n : s[i] \in Stores
    BY LenProperties, ElementOfSeq
  <1>2. op \in [1 .. n -> [Links -> Links]]
    BY <1>1, ApplyTyped
  <1>4. PICK f : FoldsOn(f, n, Links, l, op)
    <2> HIDE DEF op, n
    <2> QED  BY <1>1, <1>2, FoldExists
  <1>5. \A S \in SUBSET (1 .. n) : S # {} => /\ Max(S) \in 1 .. n
                                             /\ S \ {Max(S)} \in SUBSET (1 .. n)
    <2> SUFFICES ASSUME NEW S \in SUBSET (1 .. n), S # {} PROVE Max(S) \in S
      OBVIOUS
    <2> HIDE DEF n
    <2> QED  BY <1>1, GreatestIn
  <1>6. StoreFold(s, l, f)
    <2>1. f \in [SUBSET (1 .. n) -> Links]
      BY <1>4 DEF FoldsOn
    <2>2. ASSUME NEW S \in SUBSET (1 .. n)
          PROVE  f[S] = IF S = {} THEN l ELSE Apply(f[S \ {Max(S)}], s[Max(S)])
      <3>1. CASE S = {}
        BY <3>1, <1>4 DEF FoldsOn
      <3>2. CASE S # {}
        <4>1. f[S] = op[Max(S)][f[S \ {Max(S)}]]
          BY <3>2, <1>4 DEF FoldsOn
        <4>2. Max(S) \in 1 .. n /\ f[S \ {Max(S)}] \in Links
          BY <3>2, <1>5, <2>1
        <4> HIDE DEF n
        <4> QED  BY <3>2, <4>1, <4>2
      <3> QED  BY <3>1, <3>2
    <2> HIDE DEF n, op
    <2> QED  BY <1>1, <2>1, <2>2 DEF StoreFold
  <1>7. StoreFold(s, l, F)
    <2> HIDE DEF n, op
    <2> QED  BY <1>6
  <1>8. /\ F[{}] = l
        /\ \A S \in SUBSET (1 .. n) : S # {} => F[S] = Apply(F[S \ {Max(S)}], s[Max(S)])
    <2> HIDE DEF F, n, op
    <2> QED  BY <1>1, <1>7 DEF StoreFold
  <1>9. g[0] = l
    <2>1. 1 .. 0 = {} /\ 0 \in 0 .. n
      BY <1>1
    <2> HIDE DEF F, n
    <2> QED  BY <1>8, <2>1
  <1>10. ASSUME NEW k \in 1 .. n PROVE g[k] = Apply(g[k - 1], s[k])
    <2>1. /\ 1 .. k \in SUBSET (1 .. n) /\ 1 .. k # {}
          /\ Max(1 .. k) = k /\ (1 .. k) \ {Max(1 .. k)} = 1 .. k - 1
      BY <1>1, FoldPrefix
    <2>2. F[1 .. k] = Apply(F[1 .. k - 1], s[k])
      <3> HIDE DEF F, n
      <3> QED  BY <1>8, <2>1
    <2>3. k \in 0 .. n /\ k - 1 \in 0 .. n
      BY <1>1
    <2> HIDE DEF F, n
    <2> QED  BY <2>2, <2>3
  <1> HIDE DEF g
  <1>11. \A k \in 0 .. n : g[k] \in Links
    <2> DEFINE S == {k \in 0 .. n : g[k] \in Links}
    <2>1. 0 \in S
      BY <1>1, <1>9
    <2>2. \A k \in 1 .. n : k - 1 \in S => k \in S
      <3> TAKE k \in 1 .. n
      <3> HAVE k - 1 \in S
      <3>1. s[k] \in Stores /\ k \in 0 .. n
        BY <1>1
      <3>2. Apply(g[k - 1], s[k]) \in Links
        BY <3>1, ApplyTyped
      <3> QED  BY <1>10, <3>1, <3>2
    <2>3. \A k \in 0 .. n : k \in S
      <3> HIDE DEF S, n
      <3> QED  BY <1>1, <2>1, <2>2, UpTo
    <2> QED  BY <2>3
  <1>12. g \in [0 .. n -> Links] /\ ApplyAll(l, s) = g[n]
    <2>1. ApplyAll(l, s) = F[1 .. n]
      BY <1>1, ApplyAllFold
    <2>2. n \in 0 .. n
      BY <1>1
    <2>3. g[n] = F[1 .. n] /\ DOMAIN g = 0 .. n /\ g = [k \in 0 .. n |-> g[k]]
      <3> HIDE DEF F, n
      <3> QED  BY <2>2 DEF g
    <2> HIDE DEF F, n
    <2> QED  BY <1>11, <2>1, <2>3
  <1> QED  BY <1>9, <1>10, <1>12

\* All stores made, the links are links.
LEMMA AppliedTyped ==
    ASSUME NEW l \in Links, NEW s \in Seq(Stores)
    PROVE  ApplyAll(l, s) \in Links
  <1>1. PICK g \in [0 .. Len(s) -> Links] : ApplyAll(l, s) = g[Len(s)]
    BY AppliedEach
  <1>2. Len(s) \in 0 .. Len(s)
    BY LenProperties
  <1> QED  BY <1>1, <1>2

\* The first store made, the others lead to the same links.
LEMMA OneApplied ==
    ASSUME NEW l \in Links, NEW s \in Seq(Stores), s # <<>>
    PROVE  /\ Head(s) \in Stores /\ Tail(s) \in Seq(Stores) /\ Apply(l, Head(s)) \in Links
           /\ ApplyAll(Apply(l, Head(s)), Tail(s)) = ApplyAll(l, s)
  <1> DEFINE n == Len(s)
             m == Apply(l, Head(s))
             r == Tail(s)
  <1>1. /\ Head(s) \in Stores /\ Head(s) = s[1] /\ r \in Seq(Stores)
        /\ n \in Nat /\ n >= 1 /\ Len(r) = n - 1
        /\ \A i \in 1 .. n - 1 : r[i] = s[i + 1]
    BY HeadTailProperties, EmptySeq, LenProperties, ElementOfSeq
  <1>2. m \in Links
    BY <1>1, ApplyTyped
  <1> HIDE DEF m, r
  <1>3. PICK g \in [0 .. n -> Links] :
            /\ g[0] = l /\ \A k \in 1 .. n : g[k] = Apply(g[k - 1], s[k])
            /\ ApplyAll(l, s) = g[n]
    BY AppliedEach
  <1>4. PICK h \in [0 .. Len(r) -> Links] :
            /\ h[0] = m /\ \A k \in 1 .. Len(r) : h[k] = Apply(h[k - 1], r[k])
            /\ ApplyAll(m, r) = h[Len(r)]
    BY <1>1, <1>2, AppliedEach
  <1> HIDE DEF n
  <1> DEFINE S == {k \in 0 .. n - 1 : h[k] = g[k + 1]}
  <1>5. 0 \in S
    <2>1. g[1] = Apply(g[0], s[1])
      BY <1>1, <1>3
    <2> QED  BY <1>1, <1>3, <1>4, <2>1 DEF m
  <1>6. ASSUME NEW k \in 1 .. n - 1, k - 1 \in S PROVE k \in S
    <2>1. h[k - 1] = g[k - 1 + 1] /\ k - 1 + 1 = k
      BY <1>1, <1>6
    <2>2. h[k] = Apply(h[k - 1], r[k]) /\ r[k] = s[k + 1]
      BY <1>1, <1>4
    <2>3. g[k + 1] = Apply(g[k + 1 - 1], s[k + 1]) /\ k + 1 - 1 = k
      BY <1>1, <1>3
    <2> QED  BY <1>1, <2>1, <2>2, <2>3
  <1>7. n - 1 \in S
    <2> HIDE DEF S
    <2>1. n - 1 \in Nat /\ n - 1 \in 0 .. n - 1
      BY <1>1
    <2> QED  BY <1>5, <1>6, <2>1, UpTo
  <1>8. h[n - 1] = g[n]
    BY <1>1, <1>7
  <1> QED  BY <1>1, <1>2, <1>3, <1>4, <1>8 DEF m, r

\* No store, and a store followed by others.
LEMMA NoneApplied == ASSUME NEW l \in Links PROVE ApplyAll(l, <<>>) = l
  <1> DEFINE s == <<>>
  <1>1. s \in Seq(Stores) /\ Len(s) = 0
    OBVIOUS
  <1> HIDE DEF s
  <1>2. PICK g \in [0 .. Len(s) -> Links] : g[0] = l /\ ApplyAll(l, s) = g[Len(s)]
    BY <1>1, AppliedEach
  <1> QED  BY <1>1, <1>2 DEF s

LEMMA FirstApplied ==
    ASSUME NEW l \in Links, NEW a \in Stores, NEW s, s \in Seq(Stores), s # <<>>,
           Head(s) = a
    PROVE  ApplyAll(l, s) = ApplyAll(Apply(l, a), Tail(s)) /\ Apply(l, a) \in Links
  BY OneApplied

LEMMA TwoApplied ==
    ASSUME NEW l \in Links, NEW a \in Stores, NEW b \in Stores
    PROVE  /\ <<a, b>> \in Seq(Stores)
           /\ Apply(l, a) \in Links
           /\ ApplyAll(l, <<a, b>>) = Apply(Apply(l, a), b)
  <1> DEFINE s == <<a, b>>
             r == <<b>>
             z == <<>>
  <1>1. /\ Head(s) = a /\ Tail(s) = r /\ Head(r) = b /\ Tail(r) = z
        /\ s # <<>> /\ r # <<>>
    OBVIOUS
  <1>2. s \in Seq(Stores) /\ r \in Seq(Stores)
    OBVIOUS
  <1> HIDE DEF s, r, z
  <1>3. ApplyAll(l, s) = ApplyAll(Apply(l, a), Tail(s)) /\ Apply(l, a) \in Links
    BY <1>1, <1>2, FirstApplied
  <1>4. /\ ApplyAll(Apply(l, a), r) = ApplyAll(Apply(Apply(l, a), b), Tail(r))
        /\ Apply(Apply(l, a), b) \in Links
    BY <1>1, <1>2, <1>3, FirstApplied
  <1>5. ApplyAll(Apply(Apply(l, a), b), z) = Apply(Apply(l, a), b)
    BY <1>4, NoneApplied DEF z
  <1> QED  BY <1>1, <1>2, <1>3, <1>4, <1>5 DEF s

LEMMA FourApplied ==
    ASSUME NEW l \in Links, NEW a \in Stores, NEW b \in Stores, NEW c \in Stores, NEW d \in Stores
    PROVE  /\ <<a, b, c, d>> \in Seq(Stores)
           /\ Apply(l, a) \in Links /\ Apply(Apply(l, a), b) \in Links
           /\ Apply(Apply(Apply(l, a), b), c) \in Links
           /\ ApplyAll(l, <<a, b, c, d>>) = Apply(Apply(Apply(Apply(l, a), b), c), d)
  <1> DEFINE s == <<a, b, c, d>>
             r == <<b, c, d>>
  <1>1. /\ Head(s) = a /\ Tail(s) = r /\ Head(r) = b /\ Tail(r) = <<c, d>>
        /\ s # <<>> /\ r # <<>>
    OBVIOUS
  <1>2. s \in Seq(Stores) /\ r \in Seq(Stores)
    OBVIOUS
  <1> HIDE DEF s, r
  <1>3. ApplyAll(l, s) = ApplyAll(Apply(l, a), Tail(s)) /\ Apply(l, a) \in Links
    BY <1>1, <1>2, FirstApplied
  <1>4. /\ ApplyAll(Apply(l, a), r) = ApplyAll(Apply(Apply(l, a), b), Tail(r))
        /\ Apply(Apply(l, a), b) \in Links
    BY <1>1, <1>2, <1>3, FirstApplied
  <1>5. /\ Apply(Apply(Apply(l, a), b), c) \in Links
        /\ ApplyAll(Apply(Apply(l, a), b), <<c, d>>) = Apply(Apply(Apply(Apply(l, a), b), c), d)
    BY <1>4, TwoApplied
  <1> QED  BY <1>1, <1>2, <1>3, <1>4, <1>5 DEF s

\* What the operations of list.h do to the links.
LEMMA DeletedLinks ==
    ASSUME NEW l \in Links, NEW e \in Node
    PROVE  /\ ListDel(l, e) \in Seq(Stores) /\ ApplyAll(l, ListDel(l, e)) \in Links
           /\ ApplyAll(l, ListDel(l, e)).prev = [l.prev EXCEPT ![l.next[e]] = l.prev[e]]
           /\ ApplyAll(l, ListDel(l, e)).next = [l.next EXCEPT ![l.prev[e]] = l.next[e]]
  <1> DEFINE n == l.next[e]
             p == l.prev[e]
             a == Store("prev", n, p)
             b == Store("next", p, n)
  <1>1. n \in Node /\ p \in Node
    BY DEF Links
  <1>2. ListDel(l, e) = <<a, b>> /\ a \in Stores /\ b \in Stores
    BY <1>1, StoreTyped DEF ListDel
  <1>3. /\ Apply(l, a) \in Links /\ ApplyAll(l, <<a, b>>) = Apply(Apply(l, a), b)
        /\ <<a, b>> \in Seq(Stores)
    <2> HIDE DEF a, b
    <2> QED  BY <1>2, TwoApplied
  <1>4. Apply(l, a).prev = [l.prev EXCEPT ![n] = p] /\ Apply(l, a).next = l.next
    BY <1>1, ApplyPrev
  <1>5. /\ Apply(Apply(l, a), b).next = [Apply(l, a).next EXCEPT ![p] = n]
        /\ Apply(Apply(l, a), b).prev = Apply(l, a).prev
    BY <1>1, <1>3, ApplyNext
  <1>6. ApplyAll(l, ListDel(l, e)) \in Links
    BY <1>2, <1>3, AppliedTyped
  <1> HIDE DEF a, b
  <1> QED  BY <1>2, <1>3, <1>4, <1>5, <1>6

LEMMA AddedLinks ==
    ASSUME NEW l \in Links, NEW x \in Node, NEW p \in Node, NEW n \in Node,
           NEW r, r = ApplyAll(l, ListAddBetween(x, p, n))
    PROVE  /\ ListAddBetween(x, p, n) \in Seq(Stores) /\ r \in Links
           /\ r.prev = [l.prev EXCEPT ![n] = x, ![x] = p]
           /\ r.next = [l.next EXCEPT ![x] = n, ![p] = x]
  <1> DEFINE a == Store("prev", n, x)
             b == Store("next", x, n)
             c == Store("prev", x, p)
             d == Store("next", p, x)
             l1 == Apply(l, a)
             l2 == Apply(l1, b)
             l3 == Apply(l2, c)
  <1>1. /\ ListAddBetween(x, p, n) = <<a, b, c, d>>
        /\ a \in Stores /\ b \in Stores /\ c \in Stores /\ d \in Stores
    BY StoreTyped DEF ListAddBetween
  <1>2. /\ <<a, b, c, d>> \in Seq(Stores)
        /\ l1 \in Links /\ l2 \in Links /\ l3 \in Links
        /\ ApplyAll(l, <<a, b, c, d>>) = Apply(l3, d)
    <2> HIDE DEF a, b, c, d
    <2> QED  BY <1>1, FourApplied
  <1>3. l1.prev = [l.prev EXCEPT ![n] = x] /\ l1.next = l.next
    BY ApplyPrev
  <1> HIDE DEF l1
  <1>4. l2.next = [l1.next EXCEPT ![x] = n] /\ l2.prev = l1.prev
    BY <1>2, ApplyNext
  <1> HIDE DEF l2
  <1>5. l3.prev = [l2.prev EXCEPT ![x] = p] /\ l3.next = l2.next
    BY <1>2, ApplyPrev
  <1> HIDE DEF l3
  <1>6. Apply(l3, d).next = [l3.next EXCEPT ![p] = x] /\ Apply(l3, d).prev = l3.prev
    BY <1>2, ApplyNext
  <1>7. r = Apply(l3, d) /\ ListAddBetween(x, p, n) \in Seq(Stores)
    <2> HIDE DEF a, b, c, d
    <2> QED  BY <1>1, <1>2
  <1>8. r \in Links
    BY <1>7, AppliedTyped
  <1> HIDE DEF a, b, c, d
  <1> QED  BY <1>3, <1>4, <1>5, <1>6, <1>7, <1>8

LEMMA SelfLinkedOne ==
    ASSUME NEW l \in Links, NEW x \in Node
    PROVE  /\ ApplyAll(l, InitListHead(x)) \in Links
           /\ ApplyAll(l, InitListHead(x)).prev = [l.prev EXCEPT ![x] = x]
           /\ ApplyAll(l, InitListHead(x)).next = [l.next EXCEPT ![x] = x]
  <1> DEFINE a == Store("next", x, x)
             b == Store("prev", x, x)
  <1>2. InitListHead(x) = <<a, b>> /\ a \in Stores /\ b \in Stores
    BY StoreTyped DEF InitListHead
  <1>3. /\ Apply(l, a) \in Links /\ ApplyAll(l, <<a, b>>) = Apply(Apply(l, a), b)
        /\ <<a, b>> \in Seq(Stores)
    <2> HIDE DEF a, b
    <2> QED  BY <1>2, TwoApplied
  <1>4. Apply(l, a).next = [l.next EXCEPT ![x] = x] /\ Apply(l, a).prev = l.prev
    BY ApplyNext
  <1>5. /\ Apply(Apply(l, a), b).prev = [Apply(l, a).prev EXCEPT ![x] = x]
        /\ Apply(Apply(l, a), b).next = Apply(l, a).next
    BY <1>3, ApplyPrev
  <1>6. ApplyAll(l, InitListHead(x)) \in Links
    BY <1>2, <1>3, AppliedTyped
  <1> HIDE DEF a, b
  <1> QED  BY <1>2, <1>3, <1>4, <1>5, <1>6

-----------------------------------------------------------------------------
(* Rings.  A free list holds the set L when its head h and L form a ring:  *)
(* prev undoes next and next undoes prev, and whoever has h and follows    *)
(* next has all of L.  A walk is not mentioned, so that deleting and       *)
(* adding a node need no induction along it.                               *)

Closed(l, S) == \A n \in S : l.next[n] \in S

Ring(l, h, L) ==
    /\ h \notin L
    /\ \A n \in {h} \cup L : /\ l.next[n] \in {h} \cup L /\ l.prev[l.next[n]] = n
                             /\ l.prev[n] \in {h} \cup L /\ l.next[l.prev[n]] = n
    /\ \A S \in SUBSET ({h} \cup L) : h \in S /\ Closed(l, S) => L \subseteq S

\* A node that was deleted is passed over in both directions.
LEMMA RingDeleted ==
    ASSUME NEW l \in Links, NEW h, NEW L, {h} \cup L \subseteq Node, Ring(l, h, L), NEW x \in L,
           NEW r, r.prev = [l.prev EXCEPT ![l.next[x]] = l.prev[x]],
           r.next = [l.next EXCEPT ![l.prev[x]] = l.next[x]]
    PROVE  Ring(r, h, L \ {x})
  <1> DEFINE R == {h} \cup L
             b == l.next[x]
             a == l.prev[x]
  <1>1. /\ h \notin L /\ x \in R /\ x # h /\ a \in R /\ b \in R
        /\ l.next[a] = x /\ l.prev[b] = x
        /\ \A n \in R : /\ l.next[n] \in R /\ l.prev[l.next[n]] = n
                        /\ l.prev[n] \in R /\ l.next[l.prev[n]] = n
    BY DEF Ring
  <1>2. DOMAIN l.next = Node /\ DOMAIN l.prev = Node /\ R \subseteq Node
    BY DEF Links
  <1>3. \A S \in SUBSET R : h \in S /\ Closed(l, S) => L \subseteq S
    BY DEF Ring
  <1>4. a # x /\ b # x
    <2>1. a \in R \ {x}
      <3>1. CASE a = x
        <4>1. l.next[x] = x
          BY <3>1, <1>1
        <4>2. \A n \in R \ {x} : l.next[n] \in R \ {x}
          BY <4>1, <1>1
        <4>3. h \in R \ {x} /\ R \ {x} \in SUBSET R
          BY <1>1
        <4>4. L \subseteq R \ {x}
          <5> HIDE DEF R
          <5> QED  BY <4>2, <4>3, <1>3 DEF Closed
        <4> QED  BY <4>4
      <3>2. CASE a # x
        BY <3>2, <1>1
      <3> QED  BY <3>1, <3>2
    <2> QED  BY <2>1, <1>1
  <1>5. \A n \in R : /\ r.next[n] = IF n = a THEN b ELSE l.next[n]
                     /\ r.prev[n] = IF n = b THEN a ELSE l.prev[n]
    BY <1>1, <1>2
  <1>6. {h} \cup (L \ {x}) = R \ {x}
    BY <1>1
  <1> HIDE DEF R, a, b
  <1>7. \A n \in R \ {x} :
            /\ r.next[n] \in R \ {x} /\ r.prev[r.next[n]] = n
            /\ r.prev[n] \in R \ {x} /\ r.next[r.prev[n]] = n
    <2> TAKE n \in R \ {x}
    <2>1. r.next[n] \in R \ {x} /\ r.prev[r.next[n]] = n
      <3>1. CASE n = a
        BY <3>1, <1>1, <1>4, <1>5
      <3>2. CASE n # a
        BY <3>2, <1>1, <1>4, <1>5 DEF a, b
      <3> QED  BY <3>1, <3>2
    <2>2. r.prev[n] \in R \ {x} /\ r.next[r.prev[n]] = n
      <3>1. CASE n = b
        BY <3>1, <1>1, <1>4, <1>5
      <3>2. CASE n # b
        BY <3>2, <1>1, <1>4, <1>5 DEF a, b
      <3> QED  BY <3>1, <3>2
    <2> QED  BY <2>1, <2>2
  <1>8. ASSUME NEW S \in SUBSET (R \ {x}), h \in S, Closed(r, S)
        PROVE  L \ {x} \subseteq S
    <2>1. CASE a \in S
      <3>1. b \in S
        BY <2>1, <1>5, <1>8, <1>1 DEF Closed
      <3>2. Closed(l, S \cup {x})
        <4> SUFFICES ASSUME NEW n \in S \cup {x} PROVE l.next[n] \in S \cup {x}
          BY DEF Closed
        <4>1. CASE n = x
          BY <4>1, <3>1 DEF b
        <4>2. CASE n = a
          BY <4>2, <1>1
        <4>3. CASE n # x /\ n # a
          BY <4>3, <1>5, <1>8 DEF Closed
        <4> QED  BY <4>1, <4>2, <4>3
      <3> QED  BY <3>2, <1>8, <1>3, <1>1
    <2>2. CASE a \notin S
      <3>1. Closed(l, S)
        BY <2>2, <1>5, <1>8 DEF Closed
      <3>2. L \subseteq S /\ (a = h \/ a \in L)
        BY <3>1, <1>8, <1>3, <1>1 DEF R
      <3> QED  BY <3>1, <3>2, <2>2, <1>8, <1>3
    <2> QED  BY <2>1, <2>2
  <1>9. h \notin L \ {x}
    BY <1>1
  <1> QED  BY <1>6, <1>7, <1>8, <1>9 DEF Ring

\* A node that was added lies between two neighbours.
LEMMA RingAdded ==
    ASSUME NEW l \in Links, NEW h, NEW L, {h} \cup L \subseteq Node, Ring(l, h, L),
           NEW x \in Node, x \notin {h} \cup L, NEW a \in {h} \cup L, NEW b, b = l.next[a],
           NEW r, r.prev = [l.prev EXCEPT ![b] = x, ![x] = a],
           r.next = [l.next EXCEPT ![x] = b, ![a] = x]
    PROVE  Ring(r, h, L \cup {x})
  <1> DEFINE R == {h} \cup L
  <1>1. /\ h \notin L /\ x \notin R /\ a \in R /\ b \in R
        /\ l.next[a] = b /\ l.prev[b] = a
        /\ \A n \in R : /\ l.next[n] \in R /\ l.prev[l.next[n]] = n
                        /\ l.prev[n] \in R /\ l.next[l.prev[n]] = n
    BY DEF Ring
  <1>2. DOMAIN l.next = Node /\ DOMAIN l.prev = Node /\ R \subseteq Node
    BY DEF Links
  <1>3. \A S \in SUBSET R : h \in S /\ Closed(l, S) => L \subseteq S
    BY DEF Ring
  <1>4. {h} \cup (L \cup {x}) = R \cup {x}
    OBVIOUS
  <1>5. /\ \A n \in R : /\ r.next[n] = IF n = a THEN x ELSE l.next[n]
                        /\ r.prev[n] = IF n = b THEN x ELSE l.prev[n]
        /\ r.next[x] = b /\ r.prev[x] = a
    BY <1>1, <1>2
  <1>6. h \in R /\ L \subseteq R
    OBVIOUS
  <1> HIDE DEF R
  <1>7. \A n \in R \cup {x} :
            /\ r.next[n] \in R \cup {x} /\ r.prev[r.next[n]] = n
            /\ r.prev[n] \in R \cup {x} /\ r.next[r.prev[n]] = n
    <2> TAKE n \in R \cup {x}
    <2>1. CASE n = x
      BY <2>1, <1>1, <1>5
    <2>2. CASE n # x
      <3>1. r.next[n] \in R \cup {x} /\ r.prev[r.next[n]] = n
        <4>1. CASE n = a
          BY <4>1, <1>1, <1>5
        <4>2. CASE n # a
          <5>1. n \in R /\ r.next[n] = l.next[n] /\ l.next[n] \in R /\ l.prev[l.next[n]] = n
            BY <2>2, <4>2, <1>1, <1>5
          <5>2. l.next[n] # b
            BY <5>1, <4>2, <1>1
          <5> QED  BY <5>1, <5>2, <1>5
        <4> QED  BY <4>1, <4>2
      <3>2. r.prev[n] \in R \cup {x} /\ r.next[r.prev[n]] = n
        <4>1. CASE n = b
          BY <4>1, <1>1, <1>5
        <4>2. CASE n # b
          <5>1. n \in R /\ r.prev[n] = l.prev[n] /\ l.prev[n] \in R /\ l.next[l.prev[n]] = n
            BY <2>2, <4>2, <1>1, <1>5
          <5>2. l.prev[n] # a
            BY <5>1, <4>2, <1>1
          <5> QED  BY <5>1, <5>2, <1>5
        <4> QED  BY <4>1, <4>2
      <3> QED  BY <3>1, <3>2
    <2> QED  BY <2>1, <2>2
  <1>8. ASSUME NEW S \in SUBSET (R \cup {x}), h \in S, Closed(r, S)
        PROVE  L \cup {x} \subseteq S
    <2>1. Closed(l, S \ {x})
      <3> SUFFICES ASSUME NEW n \in S \ {x} PROVE l.next[n] \in S \ {x}
        BY DEF Closed
      <3>0. n \in R /\ n \in S /\ r.next[n] \in S
        BY <1>8 DEF Closed
      <3>1. CASE n = a
        <4>1. x \in S
          BY <3>0, <3>1, <1>5
        <4>2. b \in S
          BY <4>1, <1>5, <1>8 DEF Closed
        <4> QED  BY <4>2, <3>1, <1>1
      <3>2. CASE n # a
        BY <3>0, <3>2, <1>1, <1>5
      <3> QED  BY <3>1, <3>2
    <2>2. S \ {x} \in SUBSET R /\ h \in S \ {x}
      BY <1>1, <1>6, <1>8
    <2>3. L \subseteq S
      BY <2>1, <2>2, <1>3
    <2>4. a \in S
      BY <2>3, <1>8 DEF R
    <2>5. x \in S
      BY <2>4, <1>1, <1>5, <1>8 DEF Closed
    <2> QED  BY <2>3, <2>5
  <1>9. h \notin L \cup {x}
    BY <1>1, <1>6
  <1> QED  BY <1>4, <1>7, <1>8, <1>9 DEF Ring

\* Stores elsewhere leave a ring alone.
LEMMA RingKept ==
    ASSUME NEW l, NEW r, NEW h, NEW L, Ring(l, h, L),
           \A n \in {h} \cup L : r.next[n] = l.next[n] /\ r.prev[n] = l.prev[n]
    PROVE  Ring(r, h, L)
  <1>1. \A n \in {h} \cup L : /\ r.next[n] \in {h} \cup L /\ r.prev[r.next[n]] = n
                              /\ r.prev[n] \in {h} \cup L /\ r.next[r.prev[n]] = n
    BY DEF Ring
  <1>2. \A S \in SUBSET ({h} \cup L) : Closed(r, S) => Closed(l, S)
    BY DEF Closed
  <1> QED  BY <1>1, <1>2 DEF Ring

\* Only an empty list's head points to itself, and no node of a list does.
LEMMA RingEmpty ==
    ASSUME NEW l, NEW h, NEW L, Ring(l, h, L)
    PROVE  /\ l.next[h] = h <=> L = {}
           /\ \A n \in L : l.next[n] # n
  <1>1. ASSUME l.next[h] = h PROVE L = {}
    <2>1. Closed(l, {h}) /\ {h} \in SUBSET ({h} \cup L)
      BY <1>1 DEF Closed
    <2> QED  BY <2>1 DEF Ring
  <1>2. L = {} => l.next[h] = h
    BY DEF Ring
  <1>3. ASSUME NEW n \in L, l.next[n] = n PROVE FALSE
    <2> DEFINE S == ({h} \cup L) \ {n}
    <2>1. Closed(l, S)
      BY <1>3 DEF Closed, Ring
    <2>2. h \in S
      BY DEF Ring
    <2> QED  BY <2>1, <2>2 DEF Ring
  <1> QED  BY <1>1, <1>2, <1>3

(***************************************************************************)
(* Walk.  The function it follows next with exists, because it does up to  *)
(* every number; it comes to each node of a ring, to each only once before *)
(* it is back at the head, so the bound it stops at is not too small.      *)
(***************************************************************************)
UpToSteps(l, h, n, g) == g[0] = h /\ \A i \in 1 .. n : g[i] = l.next[g[i - 1]]

WalkAt(l, h, f) == f = [i \in Nat |-> IF i = 0 THEN h ELSE l.next[f[i - 1]]]

LEMMA StepsExist ==
    ASSUME NEW l, NEW h, NEW n \in Nat
    PROVE  \E g : UpToSteps(l, h, n, g)
  <1> DEFINE S == {k \in 0 .. n : \E g : UpToSteps(l, h, k, g)}
  <1>1. 0 \in S
    <2> DEFINE g == [i \in {0} |-> h]
    <2>1. UpToSteps(l, h, 0, g)
      BY DEF UpToSteps
    <2> HIDE DEF g
    <2> QED  BY <2>1
  <1>2. ASSUME NEW k \in 1 .. n, k - 1 \in S PROVE k \in S
    <2>1. PICK g : UpToSteps(l, h, k - 1, g)
      BY <1>2
    <2> DEFINE f == [i \in 0 .. k |-> IF i = k THEN l.next[g[k - 1]] ELSE g[i]]
    <2>2. f[0] = h
      BY <2>1 DEF UpToSteps
    <2>3. ASSUME NEW i \in 1 .. k PROVE f[i] = l.next[f[i - 1]]
      <3>1. i - 1 \in 0 .. k /\ i - 1 # k /\ f[i - 1] = g[i - 1]
        OBVIOUS
      <3>2. CASE i = k
        BY <3>1, <3>2
      <3>3. CASE i # k
        <4>1. i \in 1 .. k - 1 /\ f[i] = g[i]
          BY <3>3
        <4> HIDE DEF f
        <4> QED  BY <3>1, <4>1, <2>1 DEF UpToSteps
      <3> QED  BY <3>2, <3>3
    <2> HIDE DEF f
    <2>4. UpToSteps(l, h, k, f)
      BY <2>2, <2>3 DEF UpToSteps
    <2> QED  BY <2>4
  <1> HIDE DEF S
  <1>3. n \in S
    BY <1>1, <1>2, UpTo
  <1> QED  BY <1>3 DEF S

LEMMA StepsAgree ==
    ASSUME NEW l, NEW h, NEW n \in Nat, NEW m \in n .. n + 1, NEW f, NEW g,
           UpToSteps(l, h, n, f), UpToSteps(l, h, m, g)
    PROVE  f[n] = g[n]
  <1> DEFINE S == {k \in 0 .. n : f[k] = g[k]}
  <1>1. 0 \in S
    BY DEF UpToSteps
  <1>2. ASSUME NEW k \in 1 .. n, k - 1 \in S PROVE k \in S
    BY <1>2 DEF UpToSteps
  <1> HIDE DEF S
  <1>3. n \in S
    BY <1>1, <1>2, UpTo
  <1> QED  BY <1>3 DEF S

LEMMA WalkAtExists ==
    ASSUME NEW l, NEW h
    PROVE  \E f : WalkAt(l, h, f)
  <1> DEFINE G(n) == CHOOSE g : UpToSteps(l, h, n, g)
             f == [i \in Nat |-> G(i)[i]]
  <1>1. \A n \in Nat : UpToSteps(l, h, n, G(n))
    BY StepsExist
  <1> HIDE DEF G
  <1>2. ASSUME NEW i \in Nat PROVE f[i] = IF i = 0 THEN h ELSE l.next[f[i - 1]]
    <2>1. CASE i = 0
      BY <2>1, <1>1 DEF UpToSteps
    <2>2. CASE i # 0
      <3>1. /\ i - 1 \in Nat /\ i \in 1 .. i /\ i \in i - 1 .. i - 1 + 1
            /\ f[i] = G(i)[i] /\ f[i - 1] = G(i - 1)[i - 1]
        BY <2>2
      <3>2. G(i)[i] = l.next[G(i)[i - 1]]
        BY <1>1, <3>1 DEF UpToSteps
      <3>3. G(i - 1)[i - 1] = G(i)[i - 1]
        BY <1>1, <3>1, StepsAgree
      <3> HIDE DEF f
      <3> QED  BY <2>2, <3>1, <3>2, <3>3
    <2> QED  BY <2>1, <2>2
  <1>3. f = [i \in Nat |-> IF i = 0 THEN h ELSE l.next[f[i - 1]]]
    <2>1. f = [i \in Nat |-> f[i]]
      OBVIOUS
    <2> HIDE DEF f
    <2> QED  BY <1>2, <2>1
  <1> HIDE DEF f
  <1> QED  BY <1>3 DEF WalkAt

\* The nodes are finitely many.
LEMMA NodesFinite == IsFiniteSet(Node) /\ Cardinality(Node) \in Nat
  <1>1. IsFiniteSet(Page)
    BY FS_Interval, PoolAssumption DEF Page
  <1>2. IsFiniteSet(- 1 - MaxOrder .. - 1)
    BY FS_Interval, OrderAssumption
  <1>3. {ListHead(k) : k \in Orders} \subseteq - 1 - MaxOrder .. - 1
    BY OrderAssumption DEF Orders, ListHead
  <1>4. IsFiniteSet({ListHead(k) : k \in Orders})
    BY <1>2, <1>3, FS_Subset
  <1>5. IsFiniteSet(Node)
    BY <1>1, <1>4, FS_Union DEF Node
  <1> QED  BY <1>5, FS_CardinalityType

\* A walk meets what the ring holds.
LEMMA RingWalk ==
    ASSUME NEW l \in Links, NEW h, NEW L, {h} \cup L \subseteq Node, Ring(l, h, L)
    PROVE  Walk(l, h) = L
  <1> DEFINE at == CHOOSE f : WalkAt(l, h, f)
             R == {h} \cup L
             Ahead(j) == j \in Nat /\ j >= 1 /\ \A m \in 1 .. j : at[m] # h
             N == Cardinality(Node)
  <1>1. /\ at[0] = h
        /\ \A i \in Nat : at[i + 1] = l.next[at[i]]
    <2>1. WalkAt(l, h, at)
      BY WalkAtExists
    <2> HIDE DEF at
    <2>2. \A i \in Nat : at[i] = IF i = 0 THEN h ELSE l.next[at[i - 1]]
      BY <2>1 DEF WalkAt
    <2>3. \A i \in Nat : i + 1 \in Nat /\ i + 1 # 0 /\ i + 1 - 1 = i
      OBVIOUS
    <2> QED  BY <2>2, <2>3
  <1>2. Walk(l, h) = {at[i] : i \in {j \in 1 .. N : \A m \in 1 .. j : at[m] # h}}
    BY DEF Walk, WalkAt, Links
  <1>3. /\ h \notin L
        /\ \A n \in R : /\ l.next[n] \in R /\ l.prev[l.next[n]] = n
                        /\ l.prev[n] \in R /\ l.next[l.prev[n]] = n
        /\ \A S \in SUBSET R : h \in S /\ Closed(l, S) => L \subseteq S
    BY DEF Ring
  <1>4. N \in Nat /\ IsFiniteSet(Node)
    BY NodesFinite
  <1> HIDE DEF at
  <1>5. \A i \in Nat : at[i] \in R
    <2> TAKE n \in Nat
    <2> DEFINE S == {k \in 0 .. n : at[k] \in R}
    <2>1. 0 \in S
      BY <1>1
    <2>2. ASSUME NEW k \in 1 .. n, k - 1 \in S PROVE k \in S
      <3>1. k - 1 \in Nat /\ k - 1 + 1 = k
        OBVIOUS
      <3>2. at[k] = l.next[at[k - 1]]
        BY <3>1, <1>1
      <3> QED  BY <2>2, <3>2, <1>3
    <2> HIDE DEF S
    <2>3. n \in S
      BY <2>1, <2>2, UpTo
    <2> QED  BY <2>3 DEF S
  <1> HIDE DEF N
  <1>6. \A j : Ahead(j) => at[j] \in L
    BY <1>5
  \* A walk that met a node twice would have met the head in between.
  <1>7. ASSUME NEW j, Ahead(j), NEW c \in 0 .. j, NEW d \in 0 .. j, c < d, at[c] = at[d]
        PROVE  FALSE
    <2> DEFINE S == {k \in 0 .. c : at[c - k] = at[d - k]}
    <2>1. 0 \in S
      BY <1>7
    <2>2. ASSUME NEW k \in 1 .. c, k - 1 \in S PROVE k \in S
      <3>1. /\ c - k \in Nat /\ d - k \in Nat /\ c - (k - 1) = c - k + 1
            /\ d - (k - 1) = d - k + 1 /\ k \in 0 .. c
        BY <1>7
      <3>2. at[c - k + 1] = l.next[at[c - k]] /\ at[d - k + 1] = l.next[at[d - k]]
        BY <3>1, <1>1
      <3>3. at[c - k + 1] = at[d - k + 1]
        BY <2>2, <3>1
      <3>4. at[c - k] = at[d - k]
        <4>1. at[c - k] \in R /\ at[d - k] \in R
          BY <3>1, <1>5
        <4>2. l.next[at[c - k]] = l.next[at[d - k]]
          BY <3>2, <3>3
        <4> HIDE DEF R
        <4> QED  BY <4>1, <4>2, <1>3
      <3> QED  BY <3>1, <3>4
    <2>3. c \in Nat /\ c \in 0 .. c
      OBVIOUS
    <2>4. c \in S
      <3> HIDE DEF S
      <3> QED  BY <2>1, <2>2, <2>3, UpTo
    <2>5. at[0] = at[d - c] /\ d - c \in 1 .. j
      BY <2>4, <1>7
    <2> QED  BY <2>5, <1>1, <1>7
  <1>8. ASSUME NEW j, Ahead(j) PROVE j <= N
    <2> DEFINE f == [i \in 1 .. j |-> at[i]]
    <2>1. f \in [1 .. j -> Node]
      BY <1>5, <1>8
    <2>2. \A c, d \in 1 .. j : c < d => f[c] # f[d]
      BY <1>7, <1>8
    <2>3. \A c, d \in 1 .. j : f[c] = f[d] => c = d
      <3> TAKE c, d \in 1 .. j
      <3> HAVE f[c] = f[d]
      <3>1. ~ (c < d) /\ ~ (d < c) /\ c \in Int /\ d \in Int
        <4> HIDE DEF f
        <4> QED  BY <2>2
      <3> QED  BY <3>1
    <2>4. f \in Injection(1 .. j, Node)
      <3> HIDE DEF f
      <3> QED  BY <2>1, <2>3 DEF Injection, IsInjective
    <2>5. Cardinality(1 .. j) <= Cardinality(Node)
      <3> HIDE DEF f
      <3> QED  BY <2>4, <1>4, FS_Injection
    <2>6. Cardinality(1 .. j) = j
      <3>1. Cardinality(1 .. j) = IF 1 > j THEN 0 ELSE j - 1 + 1
        BY <1>8, FS_Interval
      <3> QED  BY <3>1, <1>8
    <2> QED  BY <2>5, <2>6 DEF N
  <1>9. ASSUME NEW n \in L PROVE \E j : Ahead(j) /\ at[j] = n
    <2> DEFINE S == {h} \cup {m \in L : \E j : Ahead(j) /\ at[j] = m}
    <2>1. ASSUME NEW m \in S PROVE l.next[m] \in S
      <3>1. CASE l.next[m] = h
        BY <3>1
      <3>2. CASE m = h /\ l.next[m] # h
        <4>1. at[1] = l.next[m] /\ Ahead(1)
          BY <3>2, <1>1
        <4> QED  BY <4>1, <1>6
      <3>3. CASE m # h /\ l.next[m] # h
        <4>1. PICK j : Ahead(j) /\ at[j] = m
          BY <3>3
        <4>2. at[j + 1] = l.next[m]
          BY <4>1, <1>1
        <4>3. Ahead(j + 1)
          BY <4>1, <4>2, <3>3
        <4> QED  BY <4>2, <4>3, <1>6
      <3> QED  BY <3>1, <3>2, <3>3
    <2>2. S \in SUBSET R /\ h \in S
      OBVIOUS
    <2>3. L \subseteq S
      <3> HIDE DEF S
      <3> QED  BY <2>1, <2>2, <1>3 DEF Closed
    <2> QED  BY <2>3, <1>3
  <1>10. Walk(l, h) \subseteq L
    BY <1>2, <1>4, <1>6
  <1>11. ASSUME NEW n \in L PROVE n \in Walk(l, h)
    <2>1. PICK j : Ahead(j) /\ at[j] = n
      BY <1>9
    <2>2. j \in 1 .. N
      BY <2>1, <1>8, <1>4
    <2> QED  BY <2>1, <2>2, <1>2
  <1> QED  BY <1>10, <1>11

-----------------------------------------------------------------------------
(* Threads                                                                 *)

Thread ==
    [pc : Calls, target : Page, current_order : 0 .. MaxOrder + 1, want : Orders,
     stores : Seq(Stores)]

At5(c, p, k, w, s) ==
    [pc |-> c, target |-> p, current_order |-> k, want |-> w, stores |-> s]

LEMMA ThreadFields ==
    ASSUME NEW r \in Thread
    PROVE  /\ r = At5(r.pc, r.target, r.current_order, r.want, r.stores)
           /\ r.pc \in Calls /\ r.target \in Page /\ r.current_order \in 0 .. MaxOrder + 1
           /\ r.want \in Orders /\ r.stores \in Seq(Stores)
           /\ DOMAIN r = {"pc", "target", "current_order", "want", "stores"}
  BY DEF Thread, At5

LEMMA MergedThread ==
    ASSUME NEW r \in Thread, NEW c, NEW p, NEW k, NEW w, NEW s
    PROVE  /\ With(r, [pc |-> c]) = At5(c, r.target, r.current_order, r.want, r.stores)
           /\ With(r, [pc |-> c, current_order |-> k, want |-> w])
              = At5(c, r.target, k, w, r.stores)
           /\ With(r, [current_order |-> k]) = At5(r.pc, r.target, k, r.want, r.stores)
           /\ With(r, [pc |-> c, target |-> p, stores |-> s])
              = At5(c, p, r.current_order, r.want, s)
           /\ With(r, [current_order |-> k, stores |-> s]) = At5(r.pc, r.target, k, r.want, s)
           /\ With(r, [pc |-> c, target |-> p, current_order |-> k])
              = At5(c, p, k, r.want, r.stores)
           /\ With(r, [target |-> p, current_order |-> k, stores |-> s])
              = At5(r.pc, p, k, r.want, s)
           /\ With(r, [pc |-> c, stores |-> s]) = At5(c, r.target, r.current_order, r.want, s)
           /\ With(r, Idle) = Idle
  <1>1. DOMAIN r = {"pc", "target", "current_order", "want", "stores"}
    BY ThreadFields
  <1>2. With(r, [pc |-> c]) = At5(c, r.target, r.current_order, r.want, r.stores)
    BY <1>1 DEF With, At5
  <1>3. With(r, Idle) = Idle
    BY <1>1 DEF With, Idle
  <1>4. With(r, [pc |-> c, current_order |-> k, want |-> w]) = At5(c, r.target, k, w, r.stores)
    BY <1>1 DEF With, At5
  <1>5. With(r, [current_order |-> k]) = At5(r.pc, r.target, k, r.want, r.stores)
    BY <1>1 DEF With, At5
  <1>6. With(r, [pc |-> c, target |-> p, stores |-> s]) = At5(c, p, r.current_order, r.want, s)
    BY <1>1 DEF With, At5
  <1>7. With(r, [current_order |-> k, stores |-> s]) = At5(r.pc, r.target, k, r.want, s)
    BY <1>1 DEF With, At5
  <1>8. With(r, [pc |-> c, target |-> p, current_order |-> k]) = At5(c, p, k, r.want, r.stores)
    BY <1>1 DEF With, At5
  <1>9. With(r, [target |-> p, current_order |-> k, stores |-> s]) = At5(r.pc, p, k, r.want, s)
    BY <1>1 DEF With, At5
  <1>10. With(r, [pc |-> c, stores |-> s]) = At5(c, r.target, r.current_order, r.want, s)
    BY <1>1 DEF With, At5
  <1> QED  BY <1>2, <1>3, <1>4, <1>5, <1>6, <1>7, <1>8, <1>9, <1>10

-----------------------------------------------------------------------------
(* The rings of all orders                                                 *)

Lists == [Orders -> SUBSET Page]

\* Lists that gain and lose a page, headers of which one is written.
Plus(L, k, x) == [L EXCEPT ![k] = @ \cup {x}]
Minus(L, k, x) == [L EXCEPT ![k] = @ \ {x}]
Put(f, x, w) == [f EXCEPT ![x] = w]

LEMMA PlusMinus ==
    ASSUME NEW L \in Lists, NEW k \in Orders, NEW x \in Page
    PROVE  /\ Plus(L, k, x) \in Lists /\ Minus(L, k, x) \in Lists
           /\ Plus(L, k, x)[k] = L[k] \cup {x} /\ Minus(L, k, x)[k] = L[k] \ {x}
           /\ \A j \in Orders : j # k => Plus(L, k, x)[j] = L[j] /\ Minus(L, k, x)[j] = L[j]
  BY DEF Lists, Plus, Minus

Rings(l, L) ==
    /\ \A k \in Orders : Ring(l, ListHead(k), L[k])
    /\ \A j, k \in Orders : j # k => L[j] \cap L[k] = {}

\* The walks are the rings.
WalksOf(l) == [k \in Orders |-> Walk(l, ListHead(k))]

LEMMA HeadsApart ==
    /\ Page \subseteq Node
    /\ \A k \in Orders : ListHead(k) \in Node /\ ListHead(k) \notin Page
    /\ \A j, k \in Orders : j # k => ListHead(j) # ListHead(k)
  BY PoolAssumption, OrderAssumption DEF Node, ListHead, Orders, Page

LEMMA RingsWalked ==
    ASSUME NEW l \in Links, NEW L \in Lists, Rings(l, L)
    PROVE  WalksOf(l) = L /\ \A k \in Orders : Walk(l, ListHead(k)) = L[k]
  <1>1. ASSUME NEW k \in Orders PROVE Walk(l, ListHead(k)) = L[k]
    <2>1. {ListHead(k)} \cup L[k] \subseteq Node
      BY HeadsApart DEF Lists
    <2> QED  BY <2>1, RingWalk DEF Rings
  <1>2. L = [k \in Orders |-> L[k]]
    BY DEF Lists
  <1> QED  BY <1>1, <1>2 DEF WalksOf

\* What lies on one ring lies on no other.
LEMMA RingsApart ==
    ASSUME NEW l \in Links, NEW L \in Lists, Rings(l, L), NEW j \in Orders, NEW k \in Orders, j # k,
           NEW n \in {ListHead(j)} \cup L[j]
    PROVE  n \notin {ListHead(k)} \cup L[k]
  BY HeadsApart DEF Rings, Lists

\* A page taken off its list.
LEMMA RingsDeleted ==
    ASSUME NEW l \in Links, NEW L \in Lists, Rings(l, L), NEW k \in Orders, NEW x \in L[k],
           NEW r, r = ApplyAll(l, ListDel(l, x)), NEW M, M = Minus(L, k, x)
    PROVE  r \in Links /\ M \in Lists /\ Rings(r, M)
  <1> DEFINE h == ListHead(k)
             a == l.prev[x]
             b == l.next[x]
  <1>1. x \in Node /\ {h} \cup L[k] \subseteq Node /\ Ring(l, h, L[k])
    BY HeadsApart DEF Lists, Rings
  <1>2. /\ r \in Links
        /\ r.prev = [l.prev EXCEPT ![b] = a] /\ r.next = [l.next EXCEPT ![a] = b]
    BY <1>1, DeletedLinks
  <1>3. Ring(r, h, L[k] \ {x})
    BY <1>1, <1>2, RingDeleted
  <1>4. M \in Lists /\ M[k] = L[k] \ {x} /\ \A j \in Orders : j # k => M[j] = L[j]
    <2>1. x \in Page
      BY DEF Lists
    <2> QED  BY <2>1, PlusMinus
  <1>5. a \in {h} \cup L[k] /\ b \in {h} \cup L[k] /\ DOMAIN l.next = Node /\ DOMAIN l.prev = Node
    BY <1>1 DEF Ring, Links
  <1> HIDE DEF h, a, b
  <1>6. ASSUME NEW j \in Orders, j # k PROVE Ring(r, ListHead(j), L[j])
    <2>1. Ring(l, ListHead(j), L[j]) /\ {ListHead(j)} \cup L[j] \subseteq Node
      BY HeadsApart DEF Rings, Lists
    <2>2. ASSUME NEW n \in {ListHead(j)} \cup L[j] PROVE n # a /\ n # b /\ n \in Node
      <3>1. n \notin {h} \cup L[k]
        BY <1>6, <2>2, RingsApart DEF h
      <3> QED  BY <1>5, <2>1, <3>1
    <2>3. \A n \in {ListHead(j)} \cup L[j] : r.next[n] = l.next[n] /\ r.prev[n] = l.prev[n]
      BY <1>2, <1>5, <2>2
    <2> QED  BY <2>1, <2>3, RingKept
  <1>7. \A j, i \in Orders : j # i => M[j] \cap M[i] = {}
    <2>1. \A j, i \in Orders : j # i => L[j] \cap L[i] = {}
      BY DEF Rings
    <2>2. \A j \in Orders : M[j] \subseteq L[j]
      BY <1>4
    <2> QED  BY <2>1, <2>2
  <1> QED  BY <1>2, <1>3, <1>4, <1>6, <1>7 DEF Rings, h

\* A page put on a list, after a node of the ring.
LEMMA RingsAdded ==
    ASSUME NEW l \in Links, NEW L \in Lists, Rings(l, L), NEW k \in Orders, NEW x \in Page,
           \A j \in Orders : x \notin L[j],
           NEW a \in {ListHead(k)} \cup L[k], NEW b, b = l.next[a],
           NEW r, r = ApplyAll(l, ListAddBetween(x, a, b)), NEW M, M = Plus(L, k, x)
    PROVE  /\ ListAddBetween(x, a, b) \in Seq(Stores)
           /\ r \in Links /\ M \in Lists /\ Rings(r, M)
  <1> DEFINE h == ListHead(k)
  <1>1. /\ x \in Node /\ {h} \cup L[k] \subseteq Node /\ Ring(l, h, L[k])
        /\ a \in Node /\ b \in Node /\ b \in {h} \cup L[k]
        /\ DOMAIN l.next = Node /\ DOMAIN l.prev = Node
    <2>1. x \in Node /\ {h} \cup L[k] \subseteq Node /\ Ring(l, h, L[k])
      BY HeadsApart DEF Lists, Rings
    <2>2. b \in {h} \cup L[k]
      BY <2>1 DEF Ring
    <2> QED  BY <2>1, <2>2 DEF Links
  <1>2. /\ r \in Links /\ ListAddBetween(x, a, b) \in Seq(Stores)
        /\ r.prev = [l.prev EXCEPT ![b] = x, ![x] = a]
        /\ r.next = [l.next EXCEPT ![x] = b, ![a] = x]
    <2>1. x \in Node /\ a \in Node /\ b \in Node
      BY <1>1
    <2> HIDE DEF h
    <2> QED  BY ONLY l \in Links, r = ApplyAll(l, ListAddBetween(x, a, b)), <2>1, AddedLinks
  <1>3. x \notin {h} \cup L[k]
    BY HeadsApart
  <1>4. Ring(r, h, L[k] \cup {x})
    <2> HIDE DEF h
    <2> QED  BY <1>1, <1>2, <1>3, RingAdded DEF h
  <1>5. M \in Lists /\ M[k] = L[k] \cup {x} /\ \A j \in Orders : j # k => M[j] = L[j]
    BY PlusMinus
  <1> HIDE DEF h
  <1>6. ASSUME NEW j \in Orders, j # k PROVE Ring(r, ListHead(j), L[j])
    <2>1. Ring(l, ListHead(j), L[j]) /\ {ListHead(j)} \cup L[j] \subseteq Node
      BY HeadsApart DEF Rings, Lists
    <2>2. ASSUME NEW n \in {ListHead(j)} \cup L[j] PROVE n # a /\ n # b /\ n # x /\ n \in Node
      <3>1. n \notin {h} \cup L[k]
        BY <1>6, <2>2, RingsApart DEF h
      <3>2. n # x
        BY HeadsApart
      <3> QED  BY <1>1, <2>1, <3>1, <3>2 DEF h
    <2>3. \A n \in {ListHead(j)} \cup L[j] : r.next[n] = l.next[n] /\ r.prev[n] = l.prev[n]
      BY <1>1, <1>2, <2>2
    <2> QED  BY <2>1, <2>3, RingKept
  <1>7. ASSUME NEW j \in Orders, NEW i \in Orders, j # i PROVE M[j] \cap M[i] = {}
    <2>1. L[j] \cap L[i] = {} /\ x \notin L[i] /\ x \notin L[j]
      BY <1>7 DEF Rings
    <2> QED  BY <1>5, <1>7, <2>1
  <1> QED  BY <1>2, <1>4, <1>5, <1>6, <1>7 DEF Rings, h

\* list_add and list_add_tail.
LEMMA RingsPushed ==
    ASSUME NEW l \in Links, NEW L \in Lists, Rings(l, L), NEW k \in Orders, NEW x \in Page,
           \A j \in Orders : x \notin L[j],
           NEW s, s \in {ListAdd(l, x, ListHead(k)), ListAddTail(l, x, ListHead(k))},
           NEW M, M = Plus(L, k, x)
    PROVE  /\ s \in Seq(Stores) /\ ApplyAll(l, s) \in Links /\ M \in Lists
           /\ Rings(ApplyAll(l, s), M)
  <1> DEFINE h == ListHead(k)
  <1>1. Ring(l, h, L[k])
    BY DEF Rings
  <1>2. CASE s = ListAdd(l, x, h)
    <2>1. s = ListAddBetween(x, h, l.next[h])
      BY <1>2 DEF ListAdd
    <2> QED  BY <2>1, RingsAdded
  <1>3. CASE s = ListAddTail(l, x, h)
    <2> DEFINE a == l.prev[h]
    <2>1. a \in {h} \cup L[k] /\ l.next[a] = h
      BY <1>1 DEF Ring
    <2>2. s = ListAddBetween(x, a, h)
      BY <1>3 DEF ListAddTail
    <2> HIDE DEF a
    <2> QED  BY <2>1, <2>2, RingsAdded
  <1> QED  BY <1>2, <1>3

\* INIT_LIST_HEAD of a page that is on no list.
LEMMA RingsBeside ==
    ASSUME NEW l \in Links, NEW L \in Lists, Rings(l, L), NEW x \in Page,
           \A j \in Orders : x \notin L[j], NEW r, r = ApplyAll(l, InitListHead(x))
    PROVE  r \in Links /\ Rings(r, L)
  <1>1. /\ r \in Links /\ x \in Node
        /\ r.prev = [l.prev EXCEPT ![x] = x] /\ r.next = [l.next EXCEPT ![x] = x]
        /\ DOMAIN l.next = Node /\ DOMAIN l.prev = Node
    BY SelfLinkedOne, HeadsApart DEF Links
  <1>2. ASSUME NEW j \in Orders PROVE Ring(r, ListHead(j), L[j])
    <2>1. Ring(l, ListHead(j), L[j]) /\ {ListHead(j)} \cup L[j] \subseteq Node
      BY HeadsApart DEF Rings, Lists
    <2>2. \A n \in {ListHead(j)} \cup L[j] : n # x /\ n \in Node
      BY <2>1, HeadsApart
    <2>3. \A n \in {ListHead(j)} \cup L[j] : r.next[n] = l.next[n] /\ r.prev[n] = l.prev[n]
      BY <1>1, <2>2
    <2> QED  BY <2>1, <2>3, RingKept
  <1> QED  BY <1>1, <1>2 DEF Rings

-----------------------------------------------------------------------------
(* Who holds what: the lists, and A, the blocks of everybody else as pairs *)
(* of a holder and a block.  Each step moves a block from one holder to    *)
(* another, cuts one in two or joins two, which keeps a partition.         *)

FreeOn(L) == {"free"} \X {b \in Page \X Orders : b[1] \in L[b[2]]}

Holder == {"free", "live", "withheld", "hand"}

\* The status the header of a holder's block has.
Mark(c) == CASE c = "live" -> "USED" [] c = "withheld" -> "RESERVED" [] OTHER -> "FREE"

\* Nothing is known of the header of a block in hand.
Tells(h, o, s) == h[1] # "hand" => o[h[2][1]] = h[2][2] /\ s[h[2][1]] = Mark(h[1])

\* Whether c holds a block, and the holders once it does and once it does not.
Has(A, c, x, k) == <<c, <<x, k>>>> \in A
Given(A, c, x, k) == A \cup {<<c, <<x, k>>>>}
Taken(A, c, x, k) == A \ {<<c, <<x, k>>>>}

Sane(l, L, A, o, s) ==
    /\ l \in Links /\ L \in Lists /\ Rings(l, L)
    /\ o \in [Page -> Orders \cup {-1}] /\ s \in [Page -> Status]
    /\ A \subseteq (Holder \ {"free"}) \X Block
    /\ FreeOn(L) \subseteq Holder \X Block
    /\ Partition(FreeOn(L) \cup A)
    /\ \A h \in FreeOn(L) \cup A : Tells(h, o, s)

LEMMA FreeIn ==
    ASSUME NEW L \in Lists, NEW x, NEW k
    PROVE  <<"free", <<x, k>>>> \in FreeOn(L) <=> k \in Orders /\ x \in L[k]
  BY DEF FreeOn, Lists

LEMMA FreeGrows ==
    ASSUME NEW L \in Lists, NEW k \in Orders, NEW x \in Page
    PROVE  /\ Plus(L, k, x) \in Lists
           /\ FreeOn(Plus(L, k, x)) = FreeOn(L) \cup {<<"free", <<x, k>>>>}
           /\ Minus(L, k, x) \in Lists
           /\ FreeOn(Minus(L, k, x)) = FreeOn(L) \ {<<"free", <<x, k>>>>}
  <1>1. Plus(L, k, x) \in Lists /\ Minus(L, k, x) \in Lists
    BY PlusMinus
  <1>2. ASSUME NEW b \in Page \X Orders
        PROVE  /\ b[1] \in Plus(L, k, x)[b[2]] <=> b[1] \in L[b[2]] \/ b = <<x, k>>
               /\ b[1] \in Minus(L, k, x)[b[2]] <=> b[1] \in L[b[2]] /\ b # <<x, k>>
    BY DEF Lists, Plus, Minus
  <1>3. <<x, k>> \in Page \X Orders
    OBVIOUS
  <1> QED  BY <1>1, <1>2, <1>3 DEF FreeOn

\* A page of a block that someone holds is the first page of no other.
LEMMA OnlyHead ==
    ASSUME NEW H, H \subseteq Holder \X Block, Partition(H), NEW h \in H, NEW x \in Span(h[2]),
           NEW g \in H, g[2][1] = x
    PROVE  g = h
  <1>1. g[2] \in Block
    OBVIOUS
  <1>2. x \in Span(g[2])
    BY <1>1, BlockFields
  <1> QED  BY <1>2 DEF Partition, Apart

LEMMA HeadOf ==
    ASSUME NEW h \in Holder \X Block
    PROVE  /\ h = <<h[1], h[2]>> /\ h[2] \in Block /\ h[1] \in Holder
           /\ h[2][1] \in Page /\ h[2][2] \in Orders /\ h[2] = <<h[2][1], h[2][2]>>
           /\ h[2][1] \in Span(h[2])
  <1>1. h[2] \in Block /\ h = <<h[1], h[2]>> /\ h[1] \in Holder
    OBVIOUS
  <1> QED  BY <1>1, BlockFields

\* Headers written at pages of the block of h tell of no other block.
LEMMA OthersTell ==
    ASSUME NEW H, H \subseteq Holder \X Block, Partition(H), NEW h \in H,
           NEW o, NEW s, NEW p, NEW r,
           \A x \in Page : x \notin Span(h[2]) => p[x] = o[x] /\ r[x] = s[x],
           NEW g \in H, g # h, Tells(g, o, s)
    PROVE  Tells(g, p, r)
  <1>1. g[2][1] \in Page /\ g[2][1] \notin Span(h[2])
    BY HeadOf, OnlyHead
  <1> QED  BY <1>1 DEF Tells

\* A block that is held has its first page on no list but its own.
LEMMA OffLists ==
    ASSUME NEW l, NEW L, NEW A, NEW o, NEW s, Sane(l, L, A, o, s), NEW h \in A,
           NEW x \in Span(h[2]), NEW j \in Orders
    PROVE  x \notin L[j]
  <1> SUFFICES ASSUME x \in L[j] PROVE FALSE
    OBVIOUS
  <1> DEFINE g == <<"free", <<x, j>>>>
  <1>1. g \in FreeOn(L) /\ g[2][1] = x /\ g[1] = "free"
    BY FreeIn DEF Sane
  <1>2. h[1] # "free" /\ FreeOn(L) \cup A \subseteq Holder \X Block /\ Partition(FreeOn(L) \cup A)
    BY DEF Sane
  <1> HIDE DEF g
  <1>3. g = h
    BY <1>1, <1>2, OnlyHead
  <1> QED  BY <1>1, <1>2, <1>3

\* A page taken off its list, by a caller or by memory_reserve.
LEMMA SaneTaken ==
    ASSUME NEW l, NEW L, NEW A, NEW o, NEW s, Sane(l, L, A, o, s),
           NEW k \in Orders, NEW x \in L[k], NEW c \in {"hand", "withheld"},
           NEW r, r = ApplyAll(l, ListDel(l, x)), NEW M, M = Minus(L, k, x),
           NEW t, t = s \/ c = "withheld", t = Put(s, x, "RESERVED") \/ c = "hand"
    PROVE  Sane(r, M, Given(A, c, x, k), o, t)
  <1> DEFINE H == FreeOn(L) \cup A
             h == <<"free", <<x, k>>>>
             g == <<c, <<x, k>>>>
  <1>1. /\ l \in Links /\ L \in Lists /\ Rings(l, L) /\ x \in Page
        /\ o \in [Page -> Orders \cup {-1}] /\ s \in [Page -> Status]
        /\ A \subseteq (Holder \ {"free"}) \X Block
        /\ H \subseteq Holder \X Block /\ Partition(H) /\ \A f \in H : Tells(f, o, s)
    BY DEF Sane, Lists
  <1>2. h \in FreeOn(L) /\ h \notin A /\ h \in H
    <2>1. h \in FreeOn(L)
      BY <1>1, FreeIn
    <2> QED  BY <1>1, <2>1
  <1>3. <<x, k>> \in Block /\ h[2] = g[2] /\ h[2] = <<x, k>> /\ x \in Span(h[2])
    <2>1. h[2] \in Block /\ h[2] = <<x, k>> /\ h[2] = g[2]
      BY <1>1, <1>2
    <2> QED  BY <2>1, BlockFields
  <1>4. M \in Lists /\ FreeOn(M) = FreeOn(L) \ {h} /\ r \in Links /\ Rings(r, M)
    BY <1>1, FreeGrows, RingsDeleted
  <1> DEFINE B == A \cup {g}
  <1>5. FreeOn(M) \cup B = (H \ {h}) \cup {g}
    BY <1>2, <1>4
  <1>6. g \in (Holder \ {"free"}) \X Block
    BY <1>3 DEF Holder
  <1>7. Partition((H \ {h}) \cup {g})
    <2> HIDE DEF H, h, g
    <2> QED  BY <1>1, <1>2, <1>3, HandOver
  <1>8. t \in [Page -> Status] /\ \A y \in Page : y # x => t[y] = s[y]
    BY <1>1 DEF Status, Put
  <1>9. ASSUME NEW f \in H, f # h PROVE Tells(f, o, t)
    <2>1. \A y \in Page : y \notin Span(h[2]) => o[y] = o[y] /\ t[y] = s[y]
      BY <1>3, <1>8
    <2>2. H \subseteq Holder \X Block /\ Partition(H) /\ h \in H /\ Tells(f, o, s)
      BY <1>1, <1>2, <1>9
    <2> HIDE DEF H, h
    <2> QED  BY ONLY <1>9, <2>1, <2>2, OthersTell
  <1>10. Tells(g, o, t)
    <2>1. o[x] = k
      BY <1>1, <1>2 DEF Tells
    <2>2. CASE c = "hand"
      BY <2>2 DEF Tells
    <2>3. CASE c = "withheld"
      <3>1. t[x] = "RESERVED"
        BY <1>1, <2>3 DEF Put
      <3> QED  BY <2>1, <2>3, <3>1 DEF Tells, Mark
    <2> QED  BY <2>2, <2>3
  <1>11. B \subseteq (Holder \ {"free"}) \X Block /\ FreeOn(M) \subseteq Holder \X Block
    BY <1>1, <1>4, <1>6
  <1> HIDE DEF H, h, g
  <1>12. Partition(FreeOn(M) \cup B) /\ \A f \in FreeOn(M) \cup B : Tells(f, o, t)
    BY <1>5, <1>7, <1>9, <1>10
  <1> HIDE DEF B
  <1>13. Sane(r, M, B, o, t)
    BY <1>1, <1>4, <1>8, <1>11, <1>12 DEF Sane
  <1> QED  BY <1>13 DEF B, g, Given

\* A block that changes hands between callers: returned or freed.
LEMMA SaneHanded ==
    ASSUME NEW l, NEW L, NEW A, NEW o, NEW s, Sane(l, L, A, o, s),
           NEW d, NEW x, NEW k, Has(A, d, x, k), NEW c \in {"hand", "live"},
           NEW r, r \in Links, Rings(r, L),
           NEW p, p \in [Page -> Orders \cup {-1}], NEW t, t \in [Page -> Status],
           \A y \in Page : y # x => p[y] = o[y] /\ t[y] = s[y],
           c = "live" => p[x] = k /\ t[x] = "USED"
    PROVE  Sane(r, L, Given(Taken(A, d, x, k), c, x, k), p, t)
  <1> DEFINE H == FreeOn(L) \cup A
             b == <<x, k>>
             h == <<d, b>>
             g == <<c, b>>
             B == (A \ {h}) \cup {g}
  <1>0. h \in A /\ h[2] = b /\ Tells(g, p, t)
    <2>1. CASE c = "hand"
      BY <2>1 DEF Tells, Has
    <2>2. CASE c = "live"
      BY <2>2 DEF Tells, Mark, Has
    <2> QED  BY <2>1, <2>2
  <1>1. /\ L \in Lists /\ A \subseteq (Holder \ {"free"}) \X Block
        /\ H \subseteq Holder \X Block /\ Partition(H) /\ \A f \in H : Tells(f, o, s)
    BY DEF Sane
  <1>2. h \notin FreeOn(L) /\ h \in H /\ b \in Block /\ b[1] \in Span(h[2]) /\ g[2] = h[2]
    <2>1. h[1] # "free" /\ h[2] \in Block
      BY <1>0, <1>1
    <2> QED  BY <1>0, <2>1, BlockFields DEF FreeOn
  <1>3. FreeOn(L) \cup B = (H \ {h}) \cup {g}
    BY <1>2
  <1>4. B \subseteq (Holder \ {"free"}) \X Block
    BY <1>1, <1>2 DEF Holder
  <1>5. Partition((H \ {h}) \cup {g})
    <2> HIDE DEF H
    <2> QED  BY <1>1, <1>2, HandOver
  <1>6. ASSUME NEW f \in H, f # h PROVE Tells(f, p, t)
    <2>1. \A y \in Page : y \notin Span(h[2]) => p[y] = o[y] /\ t[y] = s[y]
      BY <1>2
    <2>2. H \subseteq Holder \X Block /\ Partition(H) /\ h \in H /\ Tells(f, o, s)
      BY <1>1, <1>2, <1>6
    <2> HIDE DEF H, B, h, g
    <2> QED  BY ONLY <1>6, <2>1, <2>2, OthersTell
  <1> HIDE DEF H, h, g
  <1>7. \A f \in FreeOn(L) \cup B : Tells(f, p, t)
    BY <1>0, <1>3, <1>6
  <1>8. FreeOn(L) \subseteq Holder \X Block
    BY DEF Sane
  <1>9. Partition(FreeOn(L) \cup B)
    BY <1>3, <1>5
  <1> HIDE DEF B
  <1>10. Sane(r, L, B, p, t)
    BY <1>1, <1>4, <1>7, <1>8, <1>9 DEF Sane
  <1> QED  BY <1>10 DEF B, h, g, Given, Taken

\* The upper half of a block in hand goes to its list.
LEMMA SaneSplit ==
    ASSUME NEW l, NEW L, NEW A, NEW o, NEW s, Sane(l, L, A, o, s),
           NEW x, NEW k \in Orders, k < MaxOrder, NEW j, j = k + 1, Has(A, "hand", x, j),
           NEW y, y = BuddyOf(x, k),
           NEW r, r = ApplyAll(l, ListAddTail(l, y, ListHead(k))),
           NEW M, M = Plus(L, k, y),
           NEW p, p = Put(o, y, k), NEW t, t = Put(s, y, "FREE")
    PROVE  /\ x \in Page /\ y \in Page /\ ListAddTail(l, y, ListHead(k)) \in Seq(Stores)
           /\ Sane(r, M, Given(Taken(A, "hand", x, j), "hand", x, k), p, t)
  <1> DEFINE H == FreeOn(L) \cup A
             h == <<"hand", <<x, k + 1>>>>
             g == <<"hand", <<x, k>>>>
             B == (A \ {h}) \cup {g}
             f == <<"free", <<y, k>>>>
  <1>1. /\ l \in Links /\ L \in Lists /\ Rings(l, L)
        /\ o \in [Page -> Orders \cup {-1}] /\ s \in [Page -> Status]
        /\ A \subseteq (Holder \ {"free"}) \X Block
        /\ H \subseteq Holder \X Block /\ Partition(H) /\ \A e \in H : Tells(e, o, s)
    BY DEF Sane
  <1>0. h \in A
    BY DEF Has
  <1>2. /\ h \in H /\ h[2] = <<x, k + 1>> /\ h[2] \in Block /\ h \notin FreeOn(L)
        /\ g[2] = <<x, k>> /\ f[2] = <<y, k>>
    BY <1>0, <1>1 DEF FreeOn
  <1>3. /\ y = x + Pow[k] /\ <<x, k>> \in Block /\ <<y, k>> \in Block
        /\ Span(h[2]) = Span(g[2]) \cup Span(f[2]) /\ Apart(g[2], f[2])
    BY <1>2, Halves
  <1>4. /\ x \in Page /\ y \in Page /\ y \in Span(h[2])
    <2>1. x \in Page /\ y \in Page /\ y \in Span(<<y, k>>)
      BY <1>3, BlockFields
    <2> QED  BY <2>1, <1>2, <1>3
  <1>5. \A i \in Orders : y \notin L[i]
    BY <1>0, <1>4, OffLists
  <1>6. /\ M \in Lists /\ FreeOn(M) = FreeOn(L) \cup {f}
        /\ ListAddTail(l, y, ListHead(k)) \in Seq(Stores) /\ r \in Links /\ Rings(r, M)
    <2>1. M \in Lists /\ FreeOn(M) = FreeOn(L) \cup {f}
      BY <1>1, <1>4, FreeGrows
    <2> QED  BY <1>1, <1>4, <1>5, <2>1, RingsPushed
  <1>7. FreeOn(M) \cup B = (H \ {h}) \cup {g, f}
    BY <1>2, <1>6
  <1>8. B \subseteq (Holder \ {"free"}) \X Block /\ FreeOn(M) \subseteq Holder \X Block
    <2>1. f \in Holder \X Block /\ g \in (Holder \ {"free"}) \X Block
      BY <1>2, <1>3 DEF Holder
    <2> HIDE DEF f
    <2> QED  BY <1>1, <1>6, <2>1
  <1>9. /\ p \in [Page -> Orders \cup {-1}] /\ t \in [Page -> Status]
        /\ \A z \in Page : z # y => p[z] = o[z] /\ t[z] = s[z]
        /\ Tells(f, p, t) /\ Tells(g, p, t)
    BY <1>1, <1>4 DEF Status, Tells, Mark, Put
  <1>10. ASSUME NEW e \in H, e # h PROVE Tells(e, p, t)
    <2>1. \A z \in Page : z \notin Span(h[2]) => p[z] = o[z] /\ t[z] = s[z]
      BY <1>4, <1>9
    <2>2. H \subseteq Holder \X Block /\ Partition(H) /\ h \in H /\ Tells(e, o, s)
      BY <1>1, <1>2, <1>10
    <2> HIDE DEF H, B, f
    <2> QED  BY ONLY <1>10, <2>1, <2>2, OthersTell
  <1> HIDE DEF H, f
  <1>11. Partition(FreeOn(M) \cup B)
    <2>1. Partition((H \ {h}) \cup {g, f})
      BY <1>1, <1>2, <1>3, Cut
    <2> QED  BY <2>1, <1>7
  <1>12. \A e \in FreeOn(M) \cup B : Tells(e, p, t)
    BY <1>7, <1>9, <1>10
  <1> HIDE DEF B
  <1>13. Sane(r, M, B, p, t)
    BY <1>6, <1>8, <1>9, <1>11, <1>12 DEF Sane
  <1> QED  BY <1>4, <1>6, <1>13 DEF B, Given, Taken

\* A block in hand goes to its list.
LEMMA SaneInserted ==
    ASSUME NEW l, NEW L, NEW A, NEW o, NEW s, Sane(l, L, A, o, s),
           NEW x, NEW k \in Orders, Has(A, "hand", x, k),
           NEW w, w \in {ListAdd(l, x, ListHead(k)), ListAddTail(l, x, ListHead(k))},
           NEW r, r = ApplyAll(l, w),
           NEW M, M = Plus(L, k, x),
           NEW p, p = Put(o, x, k), NEW t, t = Put(s, x, "FREE")
    PROVE  /\ x \in Page /\ w \in Seq(Stores)
           /\ Sane(r, M, Taken(A, "hand", x, k), p, t)
  <1> DEFINE H == FreeOn(L) \cup A
             h == <<"hand", <<x, k>>>>
             B == A \ {h}
             f == <<"free", <<x, k>>>>
  <1>1. /\ l \in Links /\ L \in Lists /\ Rings(l, L)
        /\ o \in [Page -> Orders \cup {-1}] /\ s \in [Page -> Status]
        /\ A \subseteq (Holder \ {"free"}) \X Block
        /\ H \subseteq Holder \X Block /\ Partition(H) /\ \A e \in H : Tells(e, o, s)
    BY DEF Sane
  <1>0. h \in A
    BY DEF Has
  <1>2. /\ h \in H /\ h[2] = <<x, k>> /\ h[2] \in Block /\ h \notin FreeOn(L)
        /\ f[2] = h[2]
    BY <1>0, <1>1 DEF FreeOn
  <1>3. x \in Page /\ x \in Span(h[2])
    BY <1>2, BlockFields
  <1>4. \A j \in Orders : x \notin L[j]
    BY <1>0, <1>3, OffLists
  <1>5. /\ M \in Lists /\ FreeOn(M) = FreeOn(L) \cup {f}
        /\ w \in Seq(Stores) /\ r \in Links /\ Rings(r, M)
    <2>1. M \in Lists /\ FreeOn(M) = FreeOn(L) \cup {f}
      BY <1>1, <1>3, FreeGrows
    <2> QED  BY <1>1, <1>3, <1>4, <2>1, RingsPushed
  <1>6. FreeOn(M) \cup B = (H \ {h}) \cup {f}
    BY <1>2, <1>5
  <1>7. B \subseteq (Holder \ {"free"}) \X Block /\ FreeOn(M) \subseteq Holder \X Block
    <2>1. f \in Holder \X Block
      BY <1>2 DEF Holder
    <2> HIDE DEF f
    <2> QED  BY <1>1, <1>5, <2>1
  <1>8. /\ p \in [Page -> Orders \cup {-1}] /\ t \in [Page -> Status]
        /\ \A z \in Page : z # x => p[z] = o[z] /\ t[z] = s[z]
        /\ Tells(f, p, t)
    BY <1>1, <1>3 DEF Status, Tells, Mark, Put
  <1>9. ASSUME NEW e \in H, e # h PROVE Tells(e, p, t)
    <2>1. \A z \in Page : z \notin Span(h[2]) => p[z] = o[z] /\ t[z] = s[z]
      BY <1>3, <1>8
    <2>2. H \subseteq Holder \X Block /\ Partition(H) /\ h \in H /\ Tells(e, o, s)
      BY <1>1, <1>2, <1>9
    <2> HIDE DEF H, f, B
    <2> QED  BY ONLY <1>9, <2>1, <2>2, OthersTell
  <1> HIDE DEF H, f
  <1>10. Partition(FreeOn(M) \cup B)
    <2>1. Partition((H \ {h}) \cup {f})
      BY <1>1, <1>2, HandOver
    <2> QED  BY <2>1, <1>6
  <1>11. \A e \in FreeOn(M) \cup B : Tells(e, p, t)
    BY <1>6, <1>8, <1>9
  <1> HIDE DEF B
  <1>12. Sane(r, M, B, p, t)
    BY <1>5, <1>7, <1>8, <1>10, <1>11 DEF Sane
  <1> QED  BY <1>3, <1>5, <1>12 DEF B, Taken

\* The block in hand and the buddy taken off its list are one block.  The
\* buddy's page is the first of some block that is not larger (BuddyIsHead),
\* so its header tells of that block: it has the order of the one in hand and
\* is neither used nor reserved, hence it is free and on its list.
LEMMA SaneMerged ==
    ASSUME NEW l, NEW L, NEW A, NEW o, NEW s, Sane(l, L, A, o, s),
           NEW x, NEW k \in Orders, k < MaxOrder, NEW j, j = k + 1, Has(A, "hand", x, k),
           \A e \in A : e[1] = "hand" => e = <<"hand", <<x, k>>>>,
           NEW y, y = BuddyOf(x, k), o[y] = k, s[y] = "FREE",
           NEW low, low = IF x < y THEN x ELSE y,
           NEW r, r = ApplyAll(l, ListDel(l, y)), NEW M, M = Minus(L, k, y)
    PROVE  /\ y \in L[k] /\ low \in Page /\ j \in Orders
           /\ Sane(r, M, Given(Taken(A, "hand", x, k), "hand", low, j), o, s)
  <1> DEFINE H == FreeOn(L) \cup A
             h == <<"hand", <<x, k>>>>
             g == <<"hand", <<low, k + 1>>>>
             B == (A \ {h}) \cup {g}
             f == <<"free", <<y, k>>>>
  <1>1. /\ l \in Links /\ L \in Lists /\ Rings(l, L)
        /\ o \in [Page -> Orders \cup {-1}] /\ s \in [Page -> Status]
        /\ A \subseteq (Holder \ {"free"}) \X Block
        /\ H \subseteq Holder \X Block /\ Partition(H) /\ \A e \in H : Tells(e, o, s)
    BY DEF Sane
  <1>0. h \in A
    BY DEF Has
  <1>2. /\ h \in H /\ h[2] = <<x, k>> /\ h[2] \in Block /\ h \notin FreeOn(L)
        /\ g[2] = <<low, k + 1>> /\ f[2] = <<y, k>>
    BY <1>0, <1>1 DEF FreeOn
  <1>3. /\ <<y, k>> \in Block /\ <<low, k + 1>> \in Block
        /\ Span(g[2]) = Span(h[2]) \cup Span(f[2])
    BY <1>2, BuddyPair
  <1>4. f \in FreeOn(L)
    <2>1. PICK e \in H : e[2][1] = y /\ e # h
      <3>1. \A d \in H : d[2] \in Block
        BY <1>1
      <3> HIDE DEF H, f, B
      <3> QED  BY <1>1, <1>2, <3>1, BuddyIsHead
    <2>2. e = <<e[1], e[2]>> /\ e[1] \in Holder /\ e[2] = <<y, e[2][2]>> /\ e[2][2] \in Orders
      <3> HIDE DEF H
      <3> QED  BY <1>1, <2>1, HeadOf
    <2>3. e[1] # "hand"
      BY <2>1, <2>2 DEF FreeOn
    <2>4. e[1] = "free" /\ e[2][2] = k
      BY <1>1, <2>1, <2>2, <2>3 DEF Tells, Mark, Holder
    <2>5. e = f
      BY <2>2, <2>4
    <2> QED  BY <1>1, <2>1, <2>5
  <1>5. y \in L[k]
    BY <1>1, <1>4, FreeIn
  <1>6. low \in Page /\ k + 1 \in Orders /\ y \in Page
    BY <1>3, BlockFields
  <1>7. M \in Lists /\ FreeOn(M) = FreeOn(L) \ {f} /\ r \in Links /\ Rings(r, M)
    BY <1>1, <1>5, <1>6, FreeGrows, RingsDeleted
  <1>8. FreeOn(M) \cup B = (H \ {f, h}) \cup {g}
    BY <1>1, <1>2, <1>4, <1>7
  <1>9. B \subseteq (Holder \ {"free"}) \X Block /\ FreeOn(M) \subseteq Holder \X Block
    <2>1. g \in (Holder \ {"free"}) \X Block
      BY <1>3 DEF Holder
    <2> QED  BY <1>1, <1>7, <2>1
  <1>10. Tells(g, o, s)
    BY DEF Tells
  <1> HIDE DEF H, f
  <1>11. Partition(FreeOn(M) \cup B)
    <2>1. f \in H
      BY <1>4 DEF H
    <2>2. Partition((H \ {f, h}) \cup {g})
      <3>1. Span(g[2]) = Span(f[2]) \cup Span(h[2])
        BY <1>3
      <3> QED  BY ONLY <1>1, <1>2, <2>1, <3>1, Join
    <2> QED  BY <2>2, <1>8
  <1>12. \A e \in FreeOn(M) \cup B : Tells(e, o, s)
    BY <1>1, <1>8, <1>10
  <1> HIDE DEF B
  <1>13. Sane(r, M, B, o, s)
    BY <1>1, <1>7, <1>9, <1>11, <1>12 DEF Sane
  <1> QED  BY <1>5, <1>6, <1>13 DEF B, Given, Taken

\* The page __free_pages looks at is a page.
LEMMA BuddyInPool ==
    ASSUME NEW l, NEW L, NEW A, NEW o, NEW s, Sane(l, L, A, o, s),
           NEW x, NEW k \in Orders, k < MaxOrder, Has(A, "hand", x, k)
    PROVE  BuddyOf(x, k) \in Page
  <1>1. <<x, k>> \in Block
    BY DEF Sane, Has
  <1>2. <<BuddyOf(x, k), k>> \in Block
    BY <1>1, BuddyPair
  <1> QED  BY <1>2, BlockFields

\* memory_reserve cuts a listed block: taken off, its upper half listed one
\* order down, then the lower half behind it.
LEMMA SaneCut ==
    ASSUME NEW l, NEW L, NEW A, NEW o, NEW s, Sane(l, L, A, o, s),
           NEW k \in Orders, k < MaxOrder, NEW j, j = k + 1, NEW x \in L[j],
           \A e \in A : e[1] # "hand",
           NEW y, y = BuddyOf(x, k), y \in Page => s[y] = "FREE",
           NEW off, off = ApplyAll(l, ListDel(l, x)),
           NEW one, one = ApplyAll(off, ListAddTail(off, y, ListHead(k))),
           NEW two, two = ApplyAll(one, ListAddTail(one, x, ListHead(k))),
           NEW p, p = Put(Put(o, y, k), x, k)
    PROVE  /\ y \in Page
           /\ \E M \in Lists : M[j] = L[j] \ {x} /\ Sane(two, M, A, p, s)
  <1> DEFINE M1 == Minus(L, j, x)
             M2 == Plus(M1, k, y)
             M3 == Plus(M2, k, x)
             A1 == Given(A, "hand", x, j)
             A2 == Given(Taken(A1, "hand", x, j), "hand", x, k)
             A3 == Taken(A2, "hand", x, k)
             o2 == Put(o, y, k)
             s2 == Put(s, y, "FREE")
             s3 == Put(s2, x, "FREE")
  <1>1. /\ L \in Lists /\ j \in Orders /\ j # k /\ x \in Page /\ s[x] = "FREE"
        /\ o \in [Page -> Orders \cup {-1}] /\ s \in [Page -> Status]
    <2>1. L \in Lists /\ j \in Orders /\ j # k /\ x \in Page
      BY OrderAssumption DEF Sane, Lists, Orders
    <2>2. <<"free", <<x, j>>>> \in FreeOn(L)
      BY <2>1, FreeIn
    <2>3. Tells(<<"free", <<x, j>>>>, o, s)
      BY <2>2 DEF Sane
    <2>4. s[x] = "FREE"
      BY <2>3 DEF Tells, Mark
    <2> QED  BY <2>1, <2>4 DEF Sane
  <1>2. Sane(off, M1, A1, o, s) /\ Has(A1, "hand", x, j)
    <2>1. Has(A1, "hand", x, j)
      BY DEF Has, Given
    <2> QED  BY <1>1, <2>1, SaneTaken
  <1>3. y \in Page /\ Sane(one, M2, A2, o2, s2) /\ Has(A2, "hand", x, k)
    <2>1. Has(A2, "hand", x, k)
      BY DEF Has, Given
    <2> HIDE DEF M1, A1
    <2> QED  BY <1>2, <2>1, SaneSplit
  <1>4. Sane(two, M3, A3, p, s3)
    <2> HIDE DEF M2, A2, o2, s2
    <2> QED  BY <1>3, SaneInserted DEF o2
  <1>5. A3 = A
    BY DEF Given, Taken
  <1>6. s3 = s
    BY <1>1, <1>3 DEF Put
  <1>7. M3 \in Lists /\ M3[j] = L[j] \ {x}
    <2>1. M3 \in Lists
      BY <1>4 DEF Sane
    <2>2. M1 \in Lists /\ M1[j] = L[j] \ {x}
      BY <1>1, PlusMinus
    <2>3. M2 \in Lists /\ M2[j] = M1[j]
      <3>1. M1 \in Lists /\ y \in Page /\ k \in Orders /\ j \in Orders /\ j # k
        BY <1>1, <1>3, <2>2
      <3> HIDE DEF M1
      <3> QED  BY ONLY <3>1, PlusMinus
    <2>4. M3[j] = M2[j]
      <3> HIDE DEF M2
      <3> QED  BY <1>1, <2>3, PlusMinus
    <2> QED  BY <2>1, <2>2, <2>3, <2>4
  <1> HIDE DEF M3, A3, s3
  <1> QED  BY <1>3, <1>4, <1>5, <1>6, <1>7

-----------------------------------------------------------------------------
(* The invariant.  Made is what the links are once the call under way has  *)
(* made its stores; at most one call is under way unless a tick tore one.  *)

Made == ApplyAll(links, th[running].stores)

HandOf(r) == IF r.pc \in {"split", "merge"} THEN {<<r.target, r.current_order>>} ELSE {}

OwnersOf(r, l, w) == ({"live"} \X l) \cup ({"withheld"} \X w) \cup ({"hand"} \X HandOf(r))

\* What a call knows of the lists and of its order.
KnowsOf(r, L) ==
    /\ r.pc # "wild"
    /\ r.pc \in {"scan", "pop", "split"} => r.want <= r.current_order
    /\ r.pc = "pop" => L[r.current_order] # {}

\* A thread that may lose the processor and tear nothing.
Calm(r) == r.pc \in {"idle", "scan", "end"} /\ r.stores = <<>>

Whole ==
    /\ Sane(Made, WalksOf(Made), OwnersOf(th[running], live, withheld), order, status)
    /\ \A t \in Threads : KnowsOf(th[t], WalksOf(Made)) /\ (t # running => Calm(th[t]))

\* Whatever was torn, the fields hold values of their kinds.
Fits(r) ==
    /\ r \in Thread
    /\ r.pc \in {"pop", "split", "merge"} => r.current_order \in Orders
    /\ r.stores # <<>> => r.pc \in {"split", "merge", "end"}

Kinds ==
    /\ links \in Links
    /\ order \in [Page -> Orders \cup {-1}] /\ status \in [Page -> Status]
    /\ DOMAIN th = Threads /\ th = [t \in Threads |-> th[t]]
    /\ \A t \in Threads : Fits(th[t])
    /\ running \in Threads /\ cuts \in 0 .. MaxCuts /\ torn \in BOOLEAN
    /\ live \subseteq Page \X Orders /\ withheld \subseteq Page \X Orders
    /\ \A b \in live : order[b[1]] \in Orders

Boots == [todo : SUBSET Ranges, range : Nat \X Nat, level : Orders \cup {-1},
          pos : Node, n : Node]

\* Where main is in memory_reserve; no thread runs before it is done.
Booting ==
    /\ boot \in Boots
    /\ ~ Booted =>
          /\ ~ torn /\ live = {} /\ \A t \in Threads : th[t] = Idle
          /\ \A x \in Page : status[x] # "FREE" => \E k \in Orders : <<x, k>> \in withheld
    /\ boot.level >= 0 =>
          /\ boot.pos \in {ListHead(boot.level)} \cup WalksOf(Made)[boot.level]
          /\ boot.n = links.next[boot.pos]

LInv == Kinds /\ Booting /\ (~ torn => Whole)

-----------------------------------------------------------------------------
(* A step of a thread                                                      *)

LEMMA IdleFits ==
    /\ Fits(Idle) /\ Calm(Idle) /\ HandOf(Idle) = {} /\ Idle.stores = <<>>
    /\ \A L : KnowsOf(Idle, L)
  <1>1. 0 \in Page /\ 0 \in Orders /\ 0 \in 0 .. MaxOrder + 1
    BY PoolAssumption, OrderAssumption DEF Page, Orders
  <1>2. <<>> \in Seq(Stores)
    OBVIOUS
  <1>3. Idle \in Thread
    BY <1>1, <1>2 DEF Idle, Thread, Calls
  <1>4. Idle.pc = "idle" /\ Idle.stores = <<>>
    BY DEF Idle
  <1> QED  BY <1>3, <1>4 DEF Fits, Calm, HandOf, KnowsOf

\* The fields after a step of t, whatever it did.
LEMMA Went ==
    ASSUME Kinds, NEW t \in Threads, CanRun(t), Runs(t), NEW r, Fits(r),
           th' = [th EXCEPT ![t] = r]
    PROVE  /\ DOMAIN th' = Threads /\ th' = [u \in Threads |-> th'[u]]
           /\ th'[t] = r /\ \A u \in Threads : u # t => th'[u] = th[u]
           /\ \A u \in Threads : Fits(th'[u])
           /\ running' = t /\ running' \in Threads
           /\ cuts' \in 0 .. MaxCuts /\ torn' \in BOOLEAN
  <1>1. /\ DOMAIN th' = Threads /\ th' = [u \in Threads |-> th'[u]]
        /\ th'[t] = r /\ \A u \in Threads : u # t => th'[u] = th[u]
    BY DEF Kinds
  <1>2. cuts' \in 0 .. MaxCuts
    BY CutsAssumption DEF Kinds, CanRun, Runs
  <1>3. torn' \in BOOLEAN
    BY DEF Kinds, Runs
  <1> QED  BY <1>1, <1>2, <1>3 DEF Kinds, Runs

\* A thread that gets the processor and tears nothing finds the lists whole.
LEMMA Untorn ==
    ASSUME Kinds, ~ torn => Whole, NEW t \in Threads, Runs(t), ~ torn',
           NEW l, l = ApplyAll(links, th[t].stores)
    PROVE  /\ Sane(l, WalksOf(l), OwnersOf(th[t], live, withheld), order, status)
           /\ KnowsOf(th[t], WalksOf(l))
           /\ \A u \in Threads : u # t => Calm(th[u]) /\ \A L : KnowsOf(th[u], L)
  <1>1. Whole /\ ~ torn
    BY DEF Runs
  <1>2. ASSUME NEW u \in Threads, Calm(th[u]) PROVE \A L : KnowsOf(th[u], L)
    BY <1>1, <1>2 DEF Whole, KnowsOf, Calm
  <1>3. CASE t = running
    BY <1>1, <1>2, <1>3 DEF Whole, Made
  <1>4. CASE t # running
    <2>1. ~ Inside(running) \/ ~ Holding(running)
      BY <1>4 DEF Runs, Tears, CutsInto
    <2>2. running \in Threads /\ Fits(th[running]) /\ th[running].pc # "wild"
          /\ th[running].pc \in Calls
      BY <1>1 DEF Kinds, Whole, KnowsOf, Fits, Thread
    <2>3. Calm(th[running])
      <3>1. CASE ~ Inside(running)
        BY <2>2, <3>1 DEF Inside, Calm, Fits
      <3>2. CASE ~ Holding(running)
        BY <3>2 DEF Holding, Calm
      <3> QED  BY <2>1, <3>1, <3>2
    <2>4. Calm(th[t])
      BY <1>1, <1>4 DEF Whole
    <2>5. HandOf(th[t]) = {} /\ HandOf(th[running]) = {}
      BY <2>3, <2>4 DEF Calm, HandOf
    <2>6. OwnersOf(th[t], live, withheld) = OwnersOf(th[running], live, withheld)
      BY <2>5 DEF OwnersOf
    <2>7. l = Made
      BY <2>3, <2>4 DEF Calm, Made
    <2>8. \A u \in Threads : u # t => Calm(th[u])
      BY <1>1, <2>3 DEF Whole
    <2> QED  BY <1>1, <1>2, <2>6, <2>7, <2>8 DEF Whole
  <1> QED  BY <1>3, <1>4

\* ... and leaves them whole when its step does.
LEMMA Kept ==
    ASSUME NEW t \in Threads, running' = t, NEW r, th'[t] = r,
           \A u \in Threads : u # t => th'[u] = th[u],
           \A u \in Threads : u # t => Calm(th[u]) /\ \A L : KnowsOf(th[u], L),
           NEW l, l = ApplyAll(links', r.stores), NEW L, NEW A,
           Sane(l, L, A, order', status'), A = OwnersOf(r, live', withheld'),
           KnowsOf(r, L)
    PROVE  Whole'
  <1>1. Made' = l
    BY DEF Made
  <1>2. WalksOf(l) = L
    BY RingsWalked DEF Sane
  <1>3. WalksOf(Made') = L
    BY <1>1, <1>2
  <1>4. OwnersOf(th'[running'], live', withheld') = A
    OBVIOUS
  <1>5. \A u \in Threads : KnowsOf(th'[u], L) /\ (u # running' => Calm(th'[u]))
    OBVIOUS
  <1>6. Sane(Made', WalksOf(Made'), OwnersOf(th'[running'], live', withheld'), order', status')
    BY <1>1, <1>3, <1>4
  <1> QED  BY <1>3, <1>5, <1>6 DEF Whole

\* Once main is done, nothing changes for it.
LEMMA StaysBooted ==
    ASSUME Booting, Booted, boot' = boot
    PROVE  Booting'
  <1>1. boot.level = -1 /\ boot'.level = -1 /\ Booted'
    BY DEF Booted
  <1> QED  BY <1>1 DEF Booting

LEMMA At5Fields ==
    ASSUME NEW c, NEW p, NEW k, NEW w, NEW s, NEW r, r = At5(c, p, k, w, s)
    PROVE  /\ r.pc = c /\ r.target = p /\ r.current_order = k /\ r.want = w /\ r.stores = s
           /\ c \in Calls /\ p \in Page /\ k \in 0 .. MaxOrder + 1 /\ w \in Orders
              /\ s \in Seq(Stores) => r \in Thread
           /\ HandOf(r) = IF c \in {"split", "merge"} THEN {<<p, k>>} ELSE {}
  BY DEF At5, Thread, HandOf

\* What a step of t finds.
LEMMA Found ==
    ASSUME Kinds, NEW t \in Threads
    PROVE  /\ th[t] \in Thread
           /\ th[t].pc \in Calls /\ th[t].target \in Page
           /\ th[t].current_order \in 0 .. MaxOrder + 1
           /\ th[t].want \in Orders /\ th[t].stores \in Seq(Stores)
           /\ th[t].pc \in {"pop", "split", "merge"} => th[t].current_order \in Orders
           /\ th[t].stores # <<>> => th[t].pc \in {"split", "merge", "end"}
           /\ links \in Links
           /\ th[t].stores = <<>> => ApplyAll(links, th[t].stores) = links
  <1>1. th[t] \in Thread /\ links \in Links
    BY DEF Kinds, Fits
  <1> QED  BY <1>1, ThreadFields, NoneApplied DEF Kinds, Fits

LEMMA StoreStepWhole ==
    ASSUME LInv, NEW t \in Threads, StoreStep(t)
    PROVE  Kinds' /\ (~ torn' => Whole')
  <1> DEFINE r == [th[t] EXCEPT !.stores = Tail(@)]
             s == th[t].stores
             l == ApplyAll(links, s)
  <1>1. /\ Kinds /\ (~ torn => Whole) /\ CanRun(t) /\ Runs(t) /\ s # <<>>
        /\ th' = [th EXCEPT ![t] = r] /\ links' = Apply(links, Head(s))
        /\ UNCHANGED <<order, status, live, withheld>>
    BY DEF LInv, StoreStep, pages
  <1>2. /\ th[t] \in Thread /\ s \in Seq(Stores) /\ links \in Links
        /\ th[t].pc \in {"split", "merge", "end"}
        /\ th[t].pc \in {"pop", "split", "merge"} => th[t].current_order \in Orders
    BY <1>1, Found
  <1>3. /\ Tail(s) \in Seq(Stores) /\ links' \in Links
        /\ ApplyAll(links', Tail(s)) = l
    <2> HIDE DEF s
    <2> QED  BY <1>1, <1>2, OneApplied
  <1>4. /\ r \in Thread /\ r.pc = th[t].pc /\ r.stores = Tail(s) /\ r.want = th[t].want
        /\ r.current_order = th[t].current_order /\ r.target = th[t].target
    <2>1. s \in Seq(Stores) /\ Tail(s) \in Seq(Stores)
      BY <1>2, <1>3
    <2> QED  BY <1>2, <2>1 DEF Thread
  <1> HIDE DEF r, s, l
  <1>5. Fits(r)
    BY <1>2, <1>4 DEF Fits
  <1>6. /\ running' = t /\ th'[t] = r /\ (\A u \in Threads : u # t => th'[u] = th[u])
        /\ Kinds'
    <2>1. /\ DOMAIN th' = Threads /\ th' = [u \in Threads |-> th'[u]]
          /\ th'[t] = r /\ \A u \in Threads : u # t => th'[u] = th[u]
          /\ \A u \in Threads : Fits(th'[u])
          /\ running' = t /\ running' \in Threads
          /\ cuts' \in 0 .. MaxCuts /\ torn' \in BOOLEAN
      BY <1>1, <1>5, Went
    <2> QED  BY <1>1, <1>3, <2>1 DEF Kinds
  <1>7. ASSUME ~ torn' PROVE Whole'
    <2>1. /\ Sane(l, WalksOf(l), OwnersOf(th[t], live, withheld), order, status)
          /\ KnowsOf(th[t], WalksOf(l))
          /\ \A u \in Threads : u # t => Calm(th[u]) /\ \A L : KnowsOf(th[u], L)
      BY <1>1, <1>7, Untorn DEF l, s
    <2>2. OwnersOf(r, live', withheld') = OwnersOf(th[t], live, withheld)
      BY <1>1, <1>4 DEF OwnersOf, HandOf
    <2>3. KnowsOf(r, WalksOf(l))
      BY <1>4, <2>1 DEF KnowsOf
    <2>4. l = ApplyAll(links', r.stores)
      BY <1>3, <1>4
    <2>5. Sane(l, WalksOf(l), OwnersOf(r, live', withheld'), order', status')
      BY <1>1, <2>1, <2>2
    <2> QED  BY <1>6, <2>1, <2>3, <2>4, <2>5, Kept
  <1> QED  BY <1>6, <1>7

LEMMA StepKinds ==
    ASSUME Kinds, NEW t \in Threads, CanRun(t), Runs(t), NEW r, Fits(r),
           th' = [th EXCEPT ![t] = r], links' \in Links,
           order' \in [Page -> Orders \cup {-1}], status' \in [Page -> Status],
           live' \subseteq Page \X Orders, withheld' \subseteq Page \X Orders,
           \A b \in live' : order'[b[1]] \in Orders
    PROVE  /\ Kinds' /\ running' = t /\ th'[t] = r
           /\ \A u \in Threads : u # t => th'[u] = th[u]
  <1>1. /\ DOMAIN th' = Threads /\ th' = [u \in Threads |-> th'[u]]
        /\ th'[t] = r /\ \A u \in Threads : u # t => th'[u] = th[u]
        /\ \A u \in Threads : Fits(th'[u])
        /\ running' = t /\ running' \in Threads
        /\ cuts' \in 0 .. MaxCuts /\ torn' \in BOOLEAN
    BY Went
  <1> QED  BY <1>1 DEF Kinds

\* A step that leaves pages and links as they are.
LEMMA QuietStep ==
    ASSUME LInv, NEW t \in Threads, CanRun(t), Runs(t), NEW r, Fits(r),
           th' = [th EXCEPT ![t] = r], UNCHANGED <<links, order, status, live, withheld>>,
           th[t].stores = <<>>, r.stores = <<>>, HandOf(r) = HandOf(th[t]),
           ~ torn' => KnowsOf(r, WalksOf(links))
    PROVE  Kinds' /\ (~ torn' => Whole')
  <1>1. Kinds /\ (~ torn => Whole)
    BY DEF LInv
  <1>2. /\ Kinds' /\ running' = t /\ th'[t] = r
        /\ \A u \in Threads : u # t => th'[u] = th[u]
    <2>1. /\ links' \in Links
          /\ order' \in [Page -> Orders \cup {-1}] /\ status' \in [Page -> Status]
          /\ live' \subseteq Page \X Orders /\ withheld' \subseteq Page \X Orders
          /\ \A b \in live' : order'[b[1]] \in Orders
      BY <1>1 DEF Kinds
    <2> QED  BY <1>1, <2>1, StepKinds
  <1>3. links = ApplyAll(links, th[t].stores) /\ links' = ApplyAll(links', r.stores)
    BY <1>1, Found
  <1>4. ASSUME ~ torn' PROVE Whole'
    <2>1. /\ Sane(links, WalksOf(links), OwnersOf(th[t], live, withheld), order, status)
          /\ \A u \in Threads : u # t => Calm(th[u]) /\ \A L : KnowsOf(th[u], L)
      BY <1>1, <1>3, <1>4, Untorn
    <2>2. OwnersOf(r, live', withheld') = OwnersOf(th[t], live, withheld)
      BY DEF OwnersOf
    <2>3. Sane(links', WalksOf(links), OwnersOf(r, live', withheld'), order', status')
      BY <2>1, <2>2
    <2> QED  BY <1>2, <1>3, <1>4, <2>1, <2>3, Kept
  <1> QED  BY <1>2, <1>4

\* What a step of t that is at a label knows.
LEMMA AtLabel ==
    ASSUME LInv, NEW t \in Threads, NEW c, At(t, c)
    PROVE  /\ CanRun(t) /\ th[t].pc = c /\ th[t].stores = <<>> /\ Kinds /\ (~ torn => Whole)
           /\ Booted /\ links = ApplyAll(links, th[t].stores)
  BY Found DEF LInv, At, CanRun

LEMMA AllocatePagesWhole ==
    ASSUME LInv, NEW t \in Threads, NEW k \in Orders, AllocatePages(t, k)
    PROVE  Kinds' /\ (~ torn' => Whole')
  <1> DEFINE r == With(th[t], [pc |-> "scan", current_order |-> k, want |-> k])
             z == <<>>
  <1>1. /\ At(t, "idle") /\ Runs(t) /\ th' = [th EXCEPT ![t] = r]
        /\ UNCHANGED <<links, order, status, live, withheld>>
    BY DEF AllocatePages, Begins, Goto, pages
  <1>2. /\ CanRun(t) /\ th[t].pc = "idle" /\ th[t].stores = z /\ Kinds
        /\ th[t] \in Thread /\ th[t].target \in Page
    BY <1>1, AtLabel, Found
  <1>3. r = At5("scan", th[t].target, k, k, th[t].stores)
    BY <1>2, ThreadFields DEF With, At5
  <1>4. z \in Seq(Stores) /\ k \in 0 .. MaxOrder + 1 /\ k <= k
    BY OrderAssumption DEF Orders
  <1> HIDE DEF r
  <1>5. /\ r.pc = "scan" /\ r.current_order = k /\ r.want = k /\ r.stores = th[t].stores
        /\ r \in Thread /\ HandOf(r) = {}
    <2>1. "scan" \in Calls
      BY DEF Calls
    <2> HIDE DEF z
    <2> QED  BY <1>2, <1>3, <1>4, <2>1, At5Fields
  <1>6. Fits(r) /\ HandOf(th[t]) = {} /\ \A L : KnowsOf(r, L)
    BY <1>2, <1>4, <1>5 DEF Fits, KnowsOf, HandOf
  <1> QED  BY <1>1, <1>2, <1>5, <1>6, QuietStep

LEMMA EndWhole ==
    ASSUME LInv, NEW t \in Threads, End(t)
    PROVE  Kinds' /\ (~ torn' => Whole')
  <1>1. /\ At(t, "end") /\ Runs(t) /\ th' = [th EXCEPT ![t] = With(th[t], Idle)]
        /\ UNCHANGED <<links, order, status, live, withheld>>
    BY DEF End, Goto, pages
  <1>2. /\ CanRun(t) /\ th[t].pc = "end" /\ th[t].stores = <<>>
        /\ th[t] \in Thread /\ With(th[t], Idle) = Idle
    BY <1>1, AtLabel, Found, MergedThread
  <1>3. HandOf(th[t]) = {}
    BY <1>2 DEF HandOf
  <1> QED  BY <1>1, <1>2, <1>3, IdleFits, QuietStep

LEMMA ScanWhole ==
    ASSUME LInv, NEW t \in Threads, Scan(t)
    PROVE  Kinds' /\ (~ torn' => Whole')
  <1> DEFINE k == th[t].current_order
             p == th[t].target
             w == th[t].want
             z == <<>>
  <1>1. /\ At(t, "scan") /\ Runs(t)
        /\ th' = [th EXCEPT ![t] =
                    With(th[t], IF k > MaxOrder THEN Idle
                                ELSE IF ListEmpty(links, ListHead(k)) THEN [current_order |-> k + 1]
                                ELSE [pc |-> "pop"])]
        /\ UNCHANGED <<links, order, status, live, withheld>>
    BY DEF Scan, Goto, pages
  <1>2. /\ CanRun(t) /\ th[t].pc = "scan" /\ th[t].stores = z /\ Kinds /\ (~ torn => Whole)
        /\ th[t] \in Thread /\ p \in Page /\ k \in 0 .. MaxOrder + 1 /\ w \in Orders
        /\ links = ApplyAll(links, th[t].stores) /\ links \in Links
    BY <1>1, AtLabel, Found
  <1>3. HandOf(th[t]) = {} /\ z \in Seq(Stores)
    BY <1>2 DEF HandOf
  <1>4. ASSUME ~ torn'
        PROVE  w <= k /\ \A j \in Orders : Ring(links, ListHead(j), WalksOf(links)[j])
    <2>1. /\ Sane(links, WalksOf(links), OwnersOf(th[t], live, withheld), order, status)
          /\ KnowsOf(th[t], WalksOf(links))
      BY <1>1, <1>2, <1>4, Untorn
    <2> QED  BY <1>2, <2>1 DEF Sane, Rings, KnowsOf
  <1>5. CASE k > MaxOrder
    <2>1. With(th[t], Idle) = Idle /\ th' = [th EXCEPT ![t] = Idle]
      BY <1>1, <1>2, <1>5, MergedThread
    <2> QED  BY <1>1, <1>2, <1>3, <2>1, IdleFits, QuietStep
  <1>6. CASE ~ (k > MaxOrder) /\ ListEmpty(links, ListHead(k))
    <2> DEFINE r == With(th[t], [current_order |-> k + 1])
    <2>1. th' = [th EXCEPT ![t] = r]
      BY <1>1, <1>6
    <2>2. r = At5(th[t].pc, p, k + 1, w, th[t].stores)
      BY <1>2, MergedThread
    <2>3. k + 1 \in 0 .. MaxOrder + 1 /\ "scan" \in Calls /\ (~ torn' => w <= k + 1)
      BY <1>2, <1>4, <1>6, OrderAssumption DEF Calls, Orders
    <2> HIDE DEF r, p, w
    <2>4. /\ r.pc = "scan" /\ r.current_order = k + 1 /\ r.want = w /\ r.stores = th[t].stores
          /\ r \in Thread /\ HandOf(r) = {}
      <3> HIDE DEF z, k
      <3> QED  BY <1>2, <1>3, <2>2, <2>3, At5Fields
    <2>5. Fits(r) /\ (~ torn' => KnowsOf(r, WalksOf(links)))
      BY <1>2, <2>3, <2>4 DEF Fits, KnowsOf
    <2> QED  BY <1>1, <1>2, <1>3, <2>1, <2>4, <2>5, QuietStep
  <1>7. CASE ~ (k > MaxOrder) /\ ~ ListEmpty(links, ListHead(k))
    <2> DEFINE r == With(th[t], [pc |-> "pop"])
    <2>1. th' = [th EXCEPT ![t] = r]
      BY <1>1, <1>7
    <2>2. r = At5("pop", p, k, w, th[t].stores)
      BY <1>2, MergedThread
    <2>3. k \in Orders /\ "pop" \in Calls
      BY <1>2, <1>7, OrderAssumption DEF Calls, Orders
    <2>4. ASSUME ~ torn' PROVE WalksOf(links)[k] # {} /\ w <= k
      <3>1. Ring(links, ListHead(k), WalksOf(links)[k]) /\ w <= k
        BY <1>4, <2>3, <2>4
      <3>2. links.next[ListHead(k)] # ListHead(k)
        BY <1>7 DEF ListEmpty
      <3> HIDE DEF k
      <3> QED  BY <3>1, <3>2, RingEmpty
    <2> HIDE DEF r, p, w
    <2>5. /\ r.pc = "pop" /\ r.current_order = k /\ r.want = w /\ r.stores = th[t].stores
          /\ r \in Thread /\ HandOf(r) = {}
      <3> HIDE DEF z, k
      <3> QED  BY <1>2, <1>3, <2>2, <2>3, At5Fields
    <2>6. Fits(r) /\ (~ torn' => KnowsOf(r, WalksOf(links)))
      BY <1>2, <2>3, <2>4, <2>5 DEF Fits, KnowsOf
    <2> QED  BY <1>1, <1>2, <1>3, <2>1, <2>5, <2>6, QuietStep
  <1> QED  BY <1>5, <1>6, <1>7

\* A step of t after which the lists are whole again, with its stores made.
LEMMA MovingStep ==
    ASSUME LInv, NEW t \in Threads, CanRun(t), Runs(t), NEW r, Fits(r),
           th' = [th EXCEPT ![t] = r], links' \in Links,
           order' \in [Page -> Orders \cup {-1}], status' \in [Page -> Status],
           live' \subseteq Page \X Orders, withheld' \subseteq Page \X Orders,
           \A b \in live' : order'[b[1]] \in Orders,
           ~ torn' => \E L : /\ Sane(ApplyAll(links', r.stores), L,
                                     OwnersOf(r, live', withheld'), order', status')
                             /\ KnowsOf(r, L)
    PROVE  Kinds' /\ (~ torn' => Whole')
  <1>1. Kinds /\ (~ torn => Whole)
    BY DEF LInv
  <1>2. /\ Kinds' /\ running' = t /\ th'[t] = r
        /\ \A u \in Threads : u # t => th'[u] = th[u]
    BY <1>1, StepKinds
  <1>3. ASSUME ~ torn' PROVE Whole'
    <2>1. \A u \in Threads : u # t => Calm(th[u]) /\ \A L : KnowsOf(th[u], L)
      BY <1>1, <1>3, Untorn
    <2> DEFINE l == ApplyAll(links', r.stores)
               A == OwnersOf(r, live', withheld')
    <2>2. PICK L : Sane(l, L, A, order', status') /\ KnowsOf(r, L)
      BY <1>3
    <2> HIDE DEF l, A
    <2> QED  BY <1>2, <2>1, <2>2, Kept DEF l, A
  <1> QED  BY <1>2, <1>3

\* What a step of t that tears nothing finds at a label.
LEMMA FoundWhole ==
    ASSUME LInv, NEW t \in Threads, NEW c, At(t, c), Runs(t), ~ torn',
           NEW A, A = OwnersOf(th[t], live, withheld), NEW L, L = WalksOf(links)
    PROVE  Sane(links, L, A, order, status) /\ KnowsOf(th[t], L) /\ L \in Lists
  <1>1. Kinds /\ (~ torn => Whole) /\ links = ApplyAll(links, th[t].stores)
    BY AtLabel
  <1>2. Sane(links, L, A, order, status) /\ KnowsOf(th[t], L)
    BY <1>1, Untorn
  <1> QED  BY <1>2 DEF Sane

\* The types that every step keeps.
LEMMA Typed ==
    ASSUME Kinds
    PROVE  /\ links \in Links
           /\ order \in [Page -> Orders \cup {-1}] /\ status \in [Page -> Status]
           /\ live \subseteq Page \X Orders /\ withheld \subseteq Page \X Orders
           /\ \A b \in live : order[b[1]] \in Orders
           /\ \A p \in Page, k \in Orders, c \in Status :
                 /\ Put(order, p, k) \in [Page -> Orders \cup {-1}]
                 /\ Put(status, p, c) \in [Page -> Status]
                 /\ \A b \in live : Put(order, p, k)[b[1]] \in Orders
  <1>1. /\ links \in Links
        /\ order \in [Page -> Orders \cup {-1}] /\ status \in [Page -> Status]
        /\ live \subseteq Page \X Orders /\ withheld \subseteq Page \X Orders
        /\ \A b \in live : order[b[1]] \in Orders
    BY DEF Kinds
  <1>2. ASSUME NEW p \in Page, NEW k \in Orders, NEW c \in Status
        PROVE  /\ Put(order, p, k) \in [Page -> Orders \cup {-1}]
               /\ Put(status, p, c) \in [Page -> Status]
               /\ \A b \in live : Put(order, p, k)[b[1]] \in Orders
    <2>1. Put(order, p, k) \in [Page -> Orders \cup {-1}] /\ Put(status, p, c) \in [Page -> Status]
      BY <1>1 DEF Put
    <2>2. ASSUME NEW b \in live PROVE Put(order, p, k)[b[1]] \in Orders
      <3>1. b[1] \in Page /\ order[b[1]] \in Orders
        BY <1>1
      <3> QED  BY <1>1, <3>1 DEF Put
    <2> QED  BY <2>1, <2>2
  <1> QED  BY <1>1, <1>2

LEMMA PopWhole ==
    ASSUME LInv, NEW t \in Threads, Pop(t)
    PROVE  Kinds' /\ (~ torn' => Whole')
  <1> DEFINE k == th[t].current_order
             w == th[t].want
             h == ListHead(k)
             p == links.next[h]
             s == ListDel(links, p)
             r == IF p \in Page THEN With(th[t], [pc |-> "split", target |-> p, stores |-> s])
                  ELSE With(th[t], [pc |-> "wild"])
             L == WalksOf(links)
             A == OwnersOf(th[t], live, withheld)
  <1>1. /\ At(t, "pop") /\ Runs(t) /\ th' = [th EXCEPT ![t] = r]
        /\ UNCHANGED <<links, order, status, live, withheld>>
    BY DEF Pop, Goto, pages
  <1>2. /\ CanRun(t) /\ th[t].pc = "pop" /\ th[t].stores = <<>> /\ Kinds
        /\ th[t] \in Thread /\ th[t].target \in Page /\ k \in Orders /\ w \in Orders
        /\ k \in 0 .. MaxOrder + 1 /\ links \in Links
        /\ th[t].stores \in Seq(Stores)
    <2>1. CanRun(t) /\ th[t].pc = "pop" /\ th[t].stores = <<>> /\ Kinds
      BY <1>1, AtLabel
    <2> QED  BY <2>1, Found
  <1>3. HandOf(th[t]) = {} /\ <<>> \in Seq(Stores) /\ "split" \in Calls /\ "wild" \in Calls
    BY <1>2 DEF HandOf, Calls
  <1>4. ASSUME ~ torn'
        PROVE  Sane(links, L, A, order, status) /\ L[k] # {} /\ w <= k /\ L \in Lists /\ p \in L[k]
    <2>1. Sane(links, L, A, order, status) /\ KnowsOf(th[t], L) /\ L \in Lists
      <3> HIDE DEF L, A
      <3> QED  BY <1>1, <1>4, FoundWhole DEF L, A
    <2>2. L[k] # {} /\ w <= k
      BY <1>2, <2>1 DEF KnowsOf
    <2>3. Ring(links, h, L[k])
      BY <1>2, <2>1 DEF Sane, Rings
    <2> HIDE DEF L, h
    <2>4. p \in L[k]
      <3>1. p # h
        BY <2>2, <2>3, RingEmpty
      <3>2. p \in {h} \cup L[k]
        BY <2>3 DEF Ring
      <3> QED  BY <3>1, <3>2
    <2> QED  BY <2>1, <2>2, <2>4
  <1>5. CASE p \in Page
    <2>1. p \in Node
      BY <1>5, HeadsApart
    <2>2. s \in Seq(Stores)
      <3> HIDE DEF p
      <3> QED  BY <1>2, <2>1, DeletedLinks
    <2> HIDE DEF s, p, w, k
    <2>3. r = At5("split", p, k, w, s)
      BY <1>2, <1>5, ThreadFields DEF With, At5, k, w
    <2> HIDE DEF r
    <2>4. /\ r.pc = "split" /\ r.target = p /\ r.current_order = k /\ r.want = w /\ r.stores = s
          /\ r \in Thread /\ HandOf(r) = {<<p, k>>}
      BY <1>2, <1>3, <1>5, <2>2, <2>3, At5Fields
    <2>5. Fits(r)
      BY <1>2, <2>4 DEF Fits
    <2>6. ASSUME ~ torn'
          PROVE  \E M : /\ Sane(ApplyAll(links', r.stores), M,
                                OwnersOf(r, live', withheld'), order', status')
                        /\ KnowsOf(r, M)
      <3>1. Sane(links, L, A, order, status) /\ w <= k /\ p \in L[k]
        BY <1>4, <2>6
      <3> DEFINE M == Minus(L, k, p)
                 B == Given(A, "hand", p, k)
                 d == ApplyAll(links, s)
      <3>2. Sane(d, M, B, order, status)
        <4> HIDE DEF L, A
        <4> QED  BY <1>2, <3>1, SaneTaken DEF s
      <3>3. B = OwnersOf(r, live', withheld')
        BY <1>1, <1>3, <2>4 DEF OwnersOf, Given
      <3>4. KnowsOf(r, M)
        BY <2>4, <3>1 DEF KnowsOf
      <3>5. d = ApplyAll(links', r.stores) /\ order' = order /\ status' = status
        BY <1>1, <2>4
      <3> HIDE DEF M, B, d
      <3> QED  BY <3>2, <3>3, <3>4, <3>5
    <2> QED  BY <1>1, <1>2, <2>5, <2>6, MovingStep, Typed
  <1>6. CASE p \notin Page
    <2> HIDE DEF p, w, k
    <2>1. r = At5("wild", th[t].target, k, w, th[t].stores)
      BY <1>2, <1>6, MergedThread DEF k, w
    <2> HIDE DEF r
    <2>2. r.pc = "wild" /\ r.stores = th[t].stores /\ r \in Thread
      <3>1. /\ th[t].stores \in Seq(Stores) /\ th[t].target \in Page /\ "wild" \in Calls
            /\ k \in 0 .. MaxOrder + 1 /\ w \in Orders
        BY <1>2, <1>3
      <3> QED  BY ONLY <2>1, <3>1, At5Fields
    <2>3. Fits(r)
      BY <1>2, <2>2 DEF Fits
    <2>4. torn'
      BY <1>2, <1>4, <1>6 DEF Lists
    <2> QED  BY <1>1, <1>2, <2>3, <2>4, MovingStep, Typed
  <1> QED  BY <1>5, <1>6

\* The stores of list.h go to nodes.
LEMMA StoresTyped ==
    ASSUME NEW l \in Links, NEW x \in Page, NEW k \in Orders
    PROVE  /\ ListAdd(l, x, ListHead(k)) \in Seq(Stores)
           /\ ListAddTail(l, x, ListHead(k)) \in Seq(Stores)
           /\ ListDel(l, x) \in Seq(Stores) /\ ApplyAll(l, ListDel(l, x)) \in Links
           /\ ApplyAll(l, InitListHead(x)) \in Links
  <1> DEFINE h == ListHead(k)
             a == l.prev[h]
             b == l.next[h]
  <1>1. x \in Node /\ h \in Node
    BY HeadsApart
  <1>2. a \in Node /\ b \in Node
    BY <1>1 DEF Links
  <1> HIDE DEF h, a, b
  <1>3. ListAddBetween(x, h, b) \in Seq(Stores) /\ ListAddBetween(x, a, h) \in Seq(Stores)
    BY <1>1, <1>2, AddedLinks
  <1>4. ListDel(l, x) \in Seq(Stores) /\ ApplyAll(l, ListDel(l, x)) \in Links
    BY <1>1, DeletedLinks
  <1>5. ApplyAll(l, InitListHead(x)) \in Links
    BY <1>1, SelfLinkedOne
  <1> QED  BY <1>3, <1>4, <1>5 DEF ListAdd, ListAddTail, h, a, b

LEMMA SplitStepWhole ==
    ASSUME LInv, NEW t \in Threads, SplitStep(t)
    PROVE  Kinds' /\ (~ torn' => Whole')
  <1> DEFINE j == th[t].current_order
             k == j - 1
             w == th[t].want
             x == th[t].target
             y == BuddyOf(x, k)
             s == ListAddTail(links, y, ListHead(k))
             r == IF y \in Page THEN With(th[t], [current_order |-> k, stores |-> s])
                  ELSE With(th[t], [pc |-> "wild"])
             L == WalksOf(links)
             A == OwnersOf(th[t], live, withheld)
  <1>1. /\ At(t, "split") /\ Runs(t) /\ th' = [th EXCEPT ![t] = r] /\ j > w
        /\ order' = Put(order, y, k) /\ status' = Put(status, y, "FREE")
        /\ UNCHANGED <<links, live, withheld>>
    BY DEF SplitStep, Goto, Put
  <1>2. /\ CanRun(t) /\ th[t].pc = "split" /\ th[t].stores = <<>> /\ Kinds
        /\ th[t] \in Thread /\ x \in Page /\ j \in Orders /\ w \in Orders
        /\ j \in 0 .. MaxOrder + 1 /\ links \in Links /\ th[t].stores \in Seq(Stores)
    <2>1. CanRun(t) /\ th[t].pc = "split" /\ th[t].stores = <<>> /\ Kinds
      BY <1>1, AtLabel
    <2> QED  BY <2>1, Found
  <1>3. /\ k \in Orders /\ k < MaxOrder /\ j = k + 1 /\ w <= k
        /\ k \in 0 .. MaxOrder + 1
    BY <1>1, <1>2, OrderAssumption DEF Orders
  <1>4. HandOf(th[t]) = {<<x, j>>} /\ "split" \in Calls /\ "wild" \in Calls /\ "FREE" \in Status
    BY <1>2 DEF HandOf, Calls, Status
  <1>5. Has(A, "hand", x, j)
    BY <1>4 DEF Has, OwnersOf
  <1>6. ASSUME ~ torn' PROVE Sane(links, L, A, order, status) /\ L \in Lists
    <2> HIDE DEF L, A
    <2> QED  BY <1>1, <1>6, FoundWhole DEF L, A
  <1>7. CASE y \in Page
    <2>1. s \in Seq(Stores)
      <3> HIDE DEF y, k
      <3> QED  BY <1>2, <1>3, <1>7, StoresTyped
    <2> HIDE DEF s, y, w, k, x, j
    <2>2. r = At5("split", x, k, w, s)
      BY <1>2, <1>7, ThreadFields DEF With, At5, w, x
    <2> HIDE DEF r
    <2>3. /\ r.pc = "split" /\ r.target = x /\ r.current_order = k /\ r.want = w /\ r.stores = s
          /\ r \in Thread /\ HandOf(r) = {<<x, k>>}
      BY <1>2, <1>3, <1>4, <2>1, <2>2, At5Fields
    <2>4. Fits(r)
      BY <1>3, <2>3 DEF Fits
    <2>5. /\ links' \in Links
          /\ order' \in [Page -> Orders \cup {-1}] /\ status' \in [Page -> Status]
          /\ live' \subseteq Page \X Orders /\ withheld' \subseteq Page \X Orders
          /\ \A b \in live' : order'[b[1]] \in Orders
      BY <1>1, <1>2, <1>3, <1>4, <1>7, Typed
    <2>6. ASSUME ~ torn'
          PROVE  \E M : /\ Sane(ApplyAll(links', r.stores), M,
                                OwnersOf(r, live', withheld'), order', status')
                        /\ KnowsOf(r, M)
      <3>1. Sane(links, L, A, order, status)
        BY <1>6, <2>6
      <3> DEFINE M == Plus(L, k, y)
                 B == Given(Taken(A, "hand", x, j), "hand", x, k)
                 d == ApplyAll(links, s)
      <3>2. Sane(d, M, B, order', status')
        <4> HIDE DEF L, A
        <4> QED  BY <1>1, <1>3, <1>5, <3>1, SaneSplit DEF s, y
      <3>3. B = OwnersOf(r, live', withheld')
        BY <1>1, <1>4, <2>3 DEF OwnersOf, Given, Taken
      <3>4. KnowsOf(r, M)
        BY <2>3, <1>3 DEF KnowsOf
      <3>5. d = ApplyAll(links', r.stores)
        BY <1>1, <2>3
      <3> HIDE DEF M, B, d
      <3> QED  BY <3>2, <3>3, <3>4, <3>5
    <2> QED  BY <1>1, <1>2, <2>4, <2>5, <2>6, MovingStep
  <1>8. CASE y \notin Page
    <2>1. order' = order /\ status' = status
      BY <1>1, <1>2, <1>8, Typed DEF Put
    <2> HIDE DEF y, w, k, x, j
    <2>2. r = At5("wild", x, j, w, th[t].stores)
      BY <1>2, <1>8, ThreadFields DEF With, At5, j, w, x
    <2> HIDE DEF r
    <2>3. r.pc = "wild" /\ r.stores = th[t].stores /\ r \in Thread
      <3>1. /\ th[t].stores \in Seq(Stores) /\ x \in Page /\ "wild" \in Calls
            /\ j \in 0 .. MaxOrder + 1 /\ w \in Orders
        BY <1>2, <1>4
      <3> QED  BY ONLY <2>2, <3>1, At5Fields
    <2>4. Fits(r)
      BY <1>2, <2>3 DEF Fits
    <2>5. torn'
      <3> SUFFICES ASSUME ~ torn' PROVE FALSE
        OBVIOUS
      <3>1. Sane(links, L, A, order, status)
        BY <1>6
      <3> HIDE DEF L, A
      <3> DEFINE z == k + 1
      <3>2. <<x, z>> \in Block /\ z \in Orders
        BY <1>3, <1>2, <1>5, <3>1 DEF Has, Sane
      <3>3. BuddyOf(x, k) = x + Pow[k] /\ <<x + Pow[k], k>> \in Block
        BY <1>3, <3>2, Halves
      <3>4. y \in Page
        BY <3>3, BlockFields DEF y
      <3> QED  BY <1>8, <3>4
    <2> QED  BY <1>1, <1>2, <2>1, <2>4, <2>5, MovingStep, Typed
  <1> QED  BY <1>7, <1>8

LEMMA ReturnStepWhole ==
    ASSUME LInv, NEW t \in Threads, ReturnStep(t)
    PROVE  Kinds' /\ (~ torn' => Whole')
  <1> DEFINE j == th[t].current_order
             k == th[t].want
             x == th[t].target
             l == ApplyAll(links, InitListHead(x))
             L == WalksOf(links)
             A == OwnersOf(th[t], live, withheld)
  <1>1. /\ At(t, "split") /\ Runs(t) /\ th' = [th EXCEPT ![t] = With(th[t], Idle)] /\ j <= k
        /\ links' = l
        /\ order' = Put(order, x, k) /\ status' = Put(status, x, "USED")
        /\ live' = live \cup {<<x, k>>} /\ withheld' = withheld
    BY DEF ReturnStep, Goto, Put
  <1>2. /\ CanRun(t) /\ th[t].pc = "split" /\ Kinds
        /\ th[t] \in Thread /\ x \in Page /\ j \in Orders /\ k \in Orders /\ links \in Links
    <2>1. CanRun(t) /\ th[t].pc = "split" /\ Kinds
      BY <1>1, AtLabel
    <2> QED  BY <2>1, Found
  <1>3. HandOf(th[t]) = {<<x, j>>} /\ "USED" \in Status
    BY <1>2 DEF HandOf, Status
  <1>4. Has(A, "hand", x, j)
    BY <1>3 DEF Has, OwnersOf
  <1>5. ASSUME ~ torn' PROVE Sane(links, L, A, order, status) /\ L \in Lists /\ k <= j
    <2>1. Sane(links, L, A, order, status) /\ L \in Lists /\ KnowsOf(th[t], L)
      <3> HIDE DEF L, A
      <3> QED  BY <1>1, <1>5, FoundWhole DEF L, A
    <2> QED  BY <1>2, <2>1 DEF KnowsOf
  <1> HIDE DEF x, k, j
  <1>6. th' = [th EXCEPT ![t] = Idle]
    BY <1>1, <1>2, MergedThread
  <1>7. /\ l \in Links
        /\ order' \in [Page -> Orders \cup {-1}] /\ status' \in [Page -> Status]
        /\ live' \subseteq Page \X Orders /\ withheld' \subseteq Page \X Orders
        /\ \A b \in live' : order'[b[1]] \in Orders
    <2>1. l \in Links
      BY <1>2, StoresTyped
    <2>2. order'[x] = k
      BY <1>1, <1>2, Typed DEF Put
    <2>3. ASSUME NEW b \in live' PROVE order'[b[1]] \in Orders
      <3>1. CASE b = <<x, k>>
        BY <1>2, <2>2, <3>1
      <3>2. CASE b \in live
        BY <1>1, <1>2, <3>2, Typed
      <3> QED  BY <1>1, <3>1, <3>2
    <2>4. order' \in [Page -> Orders \cup {-1}] /\ status' \in [Page -> Status]
      BY <1>1, <1>2, <1>3, Typed
    <2>5. live' \subseteq Page \X Orders /\ withheld' \subseteq Page \X Orders
      BY <1>1, <1>2, Typed
    <2> QED  BY <2>1, <2>3, <2>4, <2>5
  <1>8. ASSUME ~ torn'
        PROVE  \E M : /\ Sane(ApplyAll(links', Idle.stores), M,
                              OwnersOf(Idle, live', withheld'), order', status')
                      /\ KnowsOf(Idle, M)
    <2>1. Sane(links, L, A, order, status) /\ L \in Lists /\ j = k
      BY <1>1, <1>2, <1>5, <1>8, OrderAssumption DEF Orders
    <2>2. \A i \in Orders : x \notin L[i]
      <3> DEFINE h == <<"hand", <<x, j>>>>
      <3>1. h \in A /\ h[2] = <<x, j>>
        BY <1>4 DEF Has
      <3>2. h[2] \in Block
        BY <2>1, <3>1 DEF Sane
      <3>3. x \in Span(h[2])
        BY <3>1, <3>2, BlockFields
      <3> HIDE DEF h, L, A
      <3> QED  BY <2>1, <3>1, <3>3, OffLists
    <2>3. Rings(l, L)
      <3>1. Rings(links, L)
        BY <2>1 DEF Sane
      <3> HIDE DEF L
      <3> QED  BY <1>2, <2>1, <2>2, <3>1, RingsBeside
    <2> DEFINE B == Given(Taken(A, "hand", x, k), "live", x, k)
    <2>4. Sane(l, L, B, order', status')
      <3>1. /\ order'[x] = k /\ status'[x] = "USED"
            /\ \A y \in Page : y # x => order'[y] = order[y] /\ status'[y] = status[y]
        BY <1>1, <1>2, Typed DEF Put
      <3>2. Has(A, "hand", x, k) /\ "live" \in {"hand", "live"}
        BY <1>4, <2>1
      <3> HIDE DEF L, A, l
      <3> QED  BY <1>7, <2>1, <2>3, <3>1, <3>2, SaneHanded
    <2>5. OwnersOf(Idle, live', withheld') = B
      BY <1>1, <1>3, <2>1, IdleFits DEF OwnersOf, Given, Taken
    <2>6. ApplyAll(links', Idle.stores) = l
      BY <1>1, <1>7, IdleFits, NoneApplied
    <2> HIDE DEF B, L, l
    <2> QED  BY <2>4, <2>5, <2>6, IdleFits
  <1> HIDE DEF l
  <1> QED  BY <1>1, <1>2, <1>6, <1>7, <1>8, MovingStep, IdleFits

LEMMA FreePagesWhole ==
    ASSUME LInv, NEW t \in Threads, NEW b \in live, FreePages(t, b)
    PROVE  Kinds' /\ (~ torn' => Whole')
  <1> DEFINE x == b[1]
             k == b[2]
             j == order[x]
             w == th[t].want
             r == With(th[t], [pc |-> "merge", target |-> x, current_order |-> j])
             L == WalksOf(links)
             A == OwnersOf(th[t], live, withheld)
  <1>1. /\ At(t, "idle") /\ Runs(t) /\ th' = [th EXCEPT ![t] = r]
        /\ live' = live \ {b} /\ UNCHANGED <<links, order, status, withheld>>
    BY DEF FreePages, Begins, Goto, pages
  <1>2. /\ CanRun(t) /\ th[t].pc = "idle" /\ th[t].stores = <<>> /\ Kinds
        /\ th[t] \in Thread /\ w \in Orders /\ links \in Links /\ th[t].stores \in Seq(Stores)
    <2>1. CanRun(t) /\ th[t].pc = "idle" /\ th[t].stores = <<>> /\ Kinds
      BY <1>1, AtLabel
    <2> QED  BY <2>1, Found
  <1>3. /\ b = <<x, k>> /\ x \in Page /\ k \in Orders /\ j \in Orders /\ j \in 0 .. MaxOrder + 1
    BY <1>2, Typed, OrderAssumption DEF Orders
  <1>4. HandOf(th[t]) = {} /\ "merge" \in Calls
    BY <1>2 DEF HandOf, Calls
  <1>5. Has(A, "live", x, k)
    BY <1>3 DEF Has, OwnersOf
  <1>6. ASSUME ~ torn' PROVE Sane(links, L, A, order, status) /\ L \in Lists
    <2> HIDE DEF L, A
    <2> QED  BY <1>1, <1>6, FoundWhole DEF L, A
  <1> HIDE DEF x, k, j, w
  <1>7. r = At5("merge", x, j, w, th[t].stores)
    BY <1>2, ThreadFields DEF With, At5, w
  <1> HIDE DEF r
  <1>8. /\ r.pc = "merge" /\ r.target = x /\ r.current_order = j /\ r.stores = th[t].stores
        /\ r \in Thread /\ HandOf(r) = {<<x, j>>}
    <2>1. th[t].stores \in Seq(Stores) /\ w \in Orders
      BY <1>2
    <2> QED  BY ONLY <1>3, <1>4, <1>7, <2>1, At5Fields
  <1>9. Fits(r)
    BY <1>2, <1>3, <1>8 DEF Fits
  <1>10. ASSUME ~ torn'
         PROVE  \E M : /\ Sane(ApplyAll(links', r.stores), M,
                               OwnersOf(r, live', withheld'), order', status')
                       /\ KnowsOf(r, M)
    <2>1. Sane(links, L, A, order, status)
      BY <1>6, <1>10
    <2>2. j = k
      <3> DEFINE h == <<"live", b>>
      <3>1. h \in A
        BY DEF OwnersOf
      <3>2. Tells(h, order, status)
        <4> HIDE DEF h
        <4> QED  BY <2>1, <3>1 DEF Sane
      <3> QED  BY <3>2 DEF Tells, j, x, k
    <2> DEFINE B == Given(Taken(A, "live", x, k), "hand", x, k)
    <2>3. Sane(links, L, B, order, status)
      <3>1. /\ links \in Links /\ Rings(links, L)
            /\ order \in [Page -> Orders \cup {-1}] /\ status \in [Page -> Status]
        BY <2>1 DEF Sane
      <3>2. "hand" \in {"hand", "live"}
        OBVIOUS
      <3> HIDE DEF L, A
      <3> QED  BY <1>5, <2>1, <3>1, <3>2, SaneHanded
    <2>4. OwnersOf(r, live', withheld') = B
      BY <1>1, <1>3, <1>4, <1>8, <2>2 DEF OwnersOf, Given, Taken
    <2>5. ApplyAll(links', r.stores) = links
      BY <1>1, <1>2, <1>8, NoneApplied
    <2>6. KnowsOf(r, L)
      BY <1>8 DEF KnowsOf
    <2> HIDE DEF B, L
    <2> QED  BY <1>1, <2>3, <2>4, <2>5, <2>6
  <1>11. /\ links' \in Links
         /\ order' \in [Page -> Orders \cup {-1}] /\ status' \in [Page -> Status]
         /\ live' \subseteq Page \X Orders /\ withheld' \subseteq Page \X Orders
         /\ \A c \in live' : order'[c[1]] \in Orders
    BY <1>1, <1>2, Typed
  <1> QED  BY <1>1, <1>2, <1>9, <1>10, <1>11, MovingStep

LEMMA InsertStepWhole ==
    ASSUME LInv, NEW t \in Threads, InsertStep(t)
    PROVE  Kinds' /\ (~ torn' => Whole')
  <1> DEFINE k == th[t].current_order
             w == th[t].want
             x == th[t].target
             s == ListAdd(links, x, ListHead(k))
             r == With(th[t], [pc |-> "end", stores |-> s])
             L == WalksOf(links)
             A == OwnersOf(th[t], live, withheld)
  <1>1. /\ At(t, "merge") /\ Runs(t) /\ th' = [th EXCEPT ![t] = r]
        /\ order' = Put(order, x, k) /\ status' = Put(status, x, "FREE")
        /\ UNCHANGED <<links, live, withheld>>
    BY DEF InsertStep, Goto, Put
  <1>2. /\ CanRun(t) /\ th[t].pc = "merge" /\ Kinds
        /\ th[t] \in Thread /\ x \in Page /\ k \in Orders /\ w \in Orders /\ links \in Links
        /\ k \in 0 .. MaxOrder + 1
    <2>1. CanRun(t) /\ th[t].pc = "merge" /\ Kinds
      BY <1>1, AtLabel
    <2> QED  BY <2>1, Found
  <1>3. HandOf(th[t]) = {<<x, k>>} /\ "end" \in Calls /\ "FREE" \in Status
    BY <1>2 DEF HandOf, Calls, Status
  <1>4. Has(A, "hand", x, k)
    BY <1>3 DEF Has, OwnersOf
  <1>5. ASSUME ~ torn' PROVE Sane(links, L, A, order, status) /\ L \in Lists
    <2> HIDE DEF L, A
    <2> QED  BY <1>1, <1>5, FoundWhole DEF L, A
  <1>6. s \in Seq(Stores)
    <2> HIDE DEF x, k
    <2> QED  BY <1>2, StoresTyped
  <1> HIDE DEF s, x, k, w
  <1>7. r = At5("end", x, k, w, s)
    BY <1>2, ThreadFields DEF With, At5, w, k, x
  <1> HIDE DEF r
  <1>8. /\ r.pc = "end" /\ r.stores = s /\ r \in Thread /\ HandOf(r) = {}
    <2>1. x \in Page /\ k \in 0 .. MaxOrder + 1 /\ w \in Orders
      BY <1>2
    <2> QED  BY ONLY <1>3, <1>6, <1>7, <2>1, At5Fields
  <1>9. Fits(r)
    BY <1>8 DEF Fits
  <1>10. ASSUME ~ torn'
         PROVE  \E M : /\ Sane(ApplyAll(links', r.stores), M,
                               OwnersOf(r, live', withheld'), order', status')
                       /\ KnowsOf(r, M)
    <2>1. Sane(links, L, A, order, status)
      BY <1>5, <1>10
    <2> DEFINE M == Plus(L, k, x)
               B == Taken(A, "hand", x, k)
               d == ApplyAll(links, s)
    <2>2. Sane(d, M, B, order', status')
      <3>1. s \in {ListAdd(links, x, ListHead(k)), ListAddTail(links, x, ListHead(k))}
        BY DEF s
      <3> HIDE DEF L, A
      <3> QED  BY <1>1, <1>2, <1>4, <2>1, <3>1, SaneInserted
    <2>3. OwnersOf(r, live', withheld') = B
      BY <1>1, <1>3, <1>8 DEF OwnersOf, Taken
    <2>4. ApplyAll(links', r.stores) = d
      BY <1>1, <1>8
    <2>5. KnowsOf(r, M)
      BY <1>8 DEF KnowsOf
    <2> HIDE DEF M, B, d
    <2> QED  BY <2>2, <2>3, <2>4, <2>5
  <1>11. /\ links' \in Links
         /\ order' \in [Page -> Orders \cup {-1}] /\ status' \in [Page -> Status]
         /\ live' \subseteq Page \X Orders /\ withheld' \subseteq Page \X Orders
         /\ \A c \in live' : order'[c[1]] \in Orders
    BY <1>1, <1>2, <1>3, Typed
  <1> QED  BY <1>1, <1>2, <1>9, <1>10, <1>11, MovingStep

LEMMA MergeStepWhole ==
    ASSUME LInv, NEW t \in Threads, MergeStep(t)
    PROVE  Kinds' /\ (~ torn' => Whole')
  <1> DEFINE k == th[t].current_order
             j == k + 1
             w == th[t].want
             x == th[t].target
             y == BuddyOf(x, k)
             low == IF x < y THEN x ELSE y
             s == ListDel(links, y)
             r == IF y \in Page
                  THEN With(th[t], [target |-> low, current_order |-> j, stores |-> s])
                  ELSE With(th[t], [pc |-> "wild"])
             L == WalksOf(links)
             A == OwnersOf(th[t], live, withheld)
  <1>1. /\ At(t, "merge") /\ Runs(t) /\ th' = [th EXCEPT ![t] = r]
        /\ UNCHANGED <<links, order, status, live, withheld>>
        /\ k < MaxOrder /\ Buddy(t) = y /\ MayMerge(t)
        /\ y \in Page => order[y] = k /\ status[y] # "USED"
    BY DEF MergeStep, MayMerge, Buddy, Goto, pages
  <1>2. /\ CanRun(t) /\ th[t].pc = "merge" /\ Kinds
        /\ th[t] \in Thread /\ x \in Page /\ k \in Orders /\ w \in Orders /\ links \in Links
        /\ k \in 0 .. MaxOrder + 1 /\ th[t].stores \in Seq(Stores) /\ th[t].stores = <<>>
    <2>1. CanRun(t) /\ th[t].pc = "merge" /\ Kinds /\ th[t].stores = <<>>
      BY <1>1, AtLabel
    <2> QED  BY <2>1, Found
  <1>3. /\ HandOf(th[t]) = {<<x, k>>} /\ "merge" \in Calls /\ "wild" \in Calls
        /\ j \in Orders /\ j \in 0 .. MaxOrder + 1
    BY <1>1, <1>2, OrderAssumption DEF HandOf, Calls, Orders
  <1>4. Has(A, "hand", x, k) /\ \A e \in A : e[1] = "hand" => e = <<"hand", <<x, k>>>>
    BY <1>3 DEF Has, OwnersOf
  <1>5. ASSUME ~ torn' PROVE Sane(links, L, A, order, status) /\ L \in Lists
    <2> HIDE DEF L, A
    <2> QED  BY <1>1, <1>5, FoundWhole DEF L, A
  <1>6. CASE y \in Page
    <2>1. s \in Seq(Stores)
      <3> HIDE DEF y
      <3> QED  BY <1>2, <1>6, StoresTyped
    <2>2. low \in Page
      BY <1>2, <1>6
    <2> HIDE DEF low, s, y, w, k, x, j
    <2>3. r = At5("merge", low, j, w, s)
      BY <1>2, <1>6, ThreadFields DEF With, At5, w
    <2> HIDE DEF r
    <2>4. /\ r.pc = "merge" /\ r.target = low /\ r.current_order = j /\ r.stores = s
          /\ r \in Thread /\ HandOf(r) = {<<low, j>>}
      <3>1. w \in Orders
        BY <1>2
      <3> QED  BY ONLY <1>3, <2>1, <2>2, <2>3, <3>1, At5Fields
    <2>5. Fits(r)
      BY <1>3, <2>4 DEF Fits
    <2>6. ASSUME ~ torn'
          PROVE  \E M : /\ Sane(ApplyAll(links', r.stores), M,
                                OwnersOf(r, live', withheld'), order', status')
                        /\ KnowsOf(r, M)
      <3>1. Sane(links, L, A, order, status)
        BY <1>5, <2>6
      <3>2. status[y] = "FREE"
        <4>1. ~ MergesReserved(t)
          BY <1>1, <2>6 DEF Runs, Tears
        <4>2. status[y] # "RESERVED"
          BY <4>1, <1>1, <1>6 DEF MergesReserved
        <4>3. status[y] \in Status
          BY <1>2, <1>6, Typed
        <4> QED  BY <1>1, <1>6, <4>2, <4>3 DEF Status
      <3> DEFINE M == Minus(L, k, y)
                 B == Given(Taken(A, "hand", x, k), "hand", low, j)
                 d == ApplyAll(links, s)
      <3>3. Sane(d, M, B, order, status)
        <4>1. /\ j = k + 1 /\ y = BuddyOf(x, k) /\ low = (IF x < y THEN x ELSE y)
              /\ s = ListDel(links, y) /\ order[y] = k /\ k < MaxOrder /\ k \in Orders
          BY <1>1, <1>2, <1>6 DEF j, y, low, s
        <4> HIDE DEF L, A
        <4> QED  BY ONLY <1>4, <3>1, <3>2, <4>1, SaneMerged
      <3>4. B = OwnersOf(r, live', withheld')
        BY <1>1, <1>3, <2>4 DEF OwnersOf, Given, Taken
      <3>5. KnowsOf(r, M)
        BY <2>4 DEF KnowsOf
      <3>6. d = ApplyAll(links', r.stores) /\ order' = order /\ status' = status
        BY <1>1, <2>4
      <3> HIDE DEF M, B, d
      <3> QED  BY <3>3, <3>4, <3>5, <3>6
    <2> QED  BY <1>1, <1>2, <2>5, <2>6, MovingStep, Typed
  <1>7. CASE y \notin Page
    <2> HIDE DEF y, w, k, x, j
    <2>1. r = At5("wild", x, k, w, th[t].stores)
      BY <1>2, <1>7, ThreadFields DEF With, At5, k, w, x
    <2> HIDE DEF r
    <2>2. r.pc = "wild" /\ r.stores = th[t].stores /\ r \in Thread
      <3>1. /\ th[t].stores \in Seq(Stores) /\ x \in Page /\ "wild" \in Calls
            /\ k \in 0 .. MaxOrder + 1 /\ w \in Orders
        BY <1>2, <1>3
      <3> QED  BY ONLY <2>1, <3>1, At5Fields
    <2>3. Fits(r)
      BY <1>2, <2>2 DEF Fits
    <2>4. torn'
      <3> SUFFICES ASSUME ~ torn' PROVE FALSE
        OBVIOUS
      <3>1. Sane(links, L, A, order, status) /\ Has(A, "hand", x, k)
        BY <1>4, <1>5
      <3>2. y \in Page
        <4> HIDE DEF L, A
        <4> QED  BY <1>1, <1>2, <3>1, BuddyInPool DEF y
      <3> QED  BY <1>7, <3>2
    <2> QED  BY <1>1, <1>2, <2>3, <2>4, MovingStep, Typed
  <1> QED  BY <1>6, <1>7

-----------------------------------------------------------------------------
(* memory_reserve                                                          *)

\* Before main is done every thread is idle, so the lists are what they are.
LEMMA BootFound ==
    ASSUME LInv, ~ Booted, NEW A, A = OwnersOf(Idle, live, withheld), NEW L, L = WalksOf(links)
    PROVE  /\ ~ torn /\ live = {} /\ Kinds /\ Booting /\ boot \in Boots
           /\ \A t \in Threads : th[t] = Idle
           /\ Sane(links, L, A, order, status) /\ L \in Lists /\ links \in Links
           /\ \A e \in A : e[1] # "hand"
           /\ \A x \in Page : status[x] # "FREE" => \E k \in Orders : <<x, k>> \in withheld
           /\ boot.level >= 0 => /\ boot.pos \in {ListHead(boot.level)} \cup L[boot.level]
                                 /\ boot.n = links.next[boot.pos]
  <1>1. /\ ~ torn /\ live = {} /\ Kinds /\ Booting /\ Whole /\ boot \in Boots
        /\ \A t \in Threads : th[t] = Idle
        /\ \A x \in Page : status[x] # "FREE" => \E k \in Orders : <<x, k>> \in withheld
    BY DEF LInv, Booting, Boots
  <1>2. running \in Threads /\ links \in Links
    BY <1>1 DEF Kinds
  <1>3. th[running] = Idle /\ th[running].stores = <<>>
    BY <1>1, <1>2, IdleFits
  <1>4. Made = links
    BY <1>2, <1>3, NoneApplied DEF Made
  <1>5. Sane(links, L, A, order, status)
    BY <1>1, <1>3, <1>4 DEF Whole
  <1>6. L \in Lists
    BY <1>5 DEF Sane
  <1>7. \A e \in A : e[1] # "hand"
    BY IdleFits DEF OwnersOf
  <1>8. boot.level >= 0 => /\ boot.pos \in {ListHead(boot.level)} \cup L[boot.level]
                           /\ boot.n = links.next[boot.pos]
    BY <1>1, <1>4 DEF Booting
  <1> QED  BY <1>1, <1>2, <1>5, <1>6, <1>7, <1>8

LEMMA BootKept ==
    ASSUME LInv, ~ Booted, UNCHANGED <<th, running, cuts, torn, live>>,
           NEW A, A = OwnersOf(Idle, live', withheld'), NEW L,
           Sane(links', L, A, order', status'), withheld' \subseteq Page \X Orders,
           \A x \in Page : status'[x] # "FREE" => \E k \in Orders : <<x, k>> \in withheld',
           boot' \in Boots,
           boot'.level >= 0 => /\ boot'.pos \in {ListHead(boot'.level)} \cup L[boot'.level]
                               /\ boot'.n = links'.next[boot'.pos]
    PROVE  LInv'
  <1>1. /\ ~ torn /\ live = {} /\ Kinds /\ \A t \in Threads : th[t] = Idle
    BY BootFound
  <1>2. /\ links' \in Links
        /\ order' \in [Page -> Orders \cup {-1}] /\ status' \in [Page -> Status]
    BY DEF Sane
  <1>3. Kinds'
    BY <1>1, <1>2 DEF Kinds
  <1>4. th[running] = Idle /\ running \in Threads /\ th[running].stores = <<>>
    BY <1>1, IdleFits DEF Kinds
  <1>5. Made' = links'
    BY <1>2, <1>4, NoneApplied DEF Made
  <1>6. WalksOf(links') = L
    BY <1>2, RingsWalked DEF Sane
  <1>7. WalksOf(Made') = L
    BY <1>5, <1>6
  <1>8. Whole'
    <2>1. Sane(Made', WalksOf(Made'), OwnersOf(th'[running'], live', withheld'), order', status')
      BY <1>4, <1>5, <1>7
    <2>2. \A t \in Threads : KnowsOf(th'[t], L) /\ Calm(th'[t])
      BY <1>1, IdleFits
    <2> QED  BY <1>7, <2>1, <2>2 DEF Whole
  <1>9. Booting'
    BY <1>1, <1>7 DEF Booting, Boots
  <1> QED  BY <1>3, <1>8, <1>9 DEF LInv

\* The cursors at the start of a list.
LEMMA Listing ==
    ASSUME NEW b \in Boots, NEW k \in Orders, NEW L, NEW A, Sane(links, L, A, order, status),
           NEW a, a = AtList(b, k)
    PROVE  /\ a \in Boots /\ a.level = k /\ a.level >= 0
           /\ a.pos \in {ListHead(k)} \cup L[k] /\ a.n = links.next[a.pos]
  <1> DEFINE h == ListHead(k)
             p == links.next[h]
  <1>1. links \in Links /\ h \in Node /\ Ring(links, h, L[k])
    BY HeadsApart DEF Sane, Rings
  <1>2. p \in {h} \cup L[k] /\ p \in Node /\ links.next[p] \in Node
    BY <1>1 DEF Ring, Links
  <1>3. a = [b EXCEPT !.level = k, !.pos = p, !.n = links.next[p]]
    BY DEF AtList
  <1> HIDE DEF h, p
  <1>4. a \in Boots /\ a.level = k /\ a.pos = p /\ a.n = links.next[p]
    BY <1>2, <1>3 DEF Boots
  <1>5. k >= 0
    BY OrderAssumption DEF Orders
  <1> QED  BY <1>2, <1>4, <1>5 DEF h

LEMMA ReserveCallWhole ==
    ASSUME LInv, NEW c \in Ranges, ReserveCall(c)
    PROVE  LInv'
  <1> DEFINE A == OwnersOf(Idle, live, withheld)
             L == WalksOf(links)
             b == [boot EXCEPT !.range = c, !.todo = @ \ {c}]
  <1>1. /\ ~ Booted /\ boot' = AtList(b, MaxOrder) /\ MaxOrder \in Orders
        /\ UNCHANGED <<links, order, status, th, running, cuts, torn, withheld, live>>
    BY OrderAssumption DEF ReserveCall, Booted, pages, cpu, Orders
  <1>2. /\ Kinds /\ boot \in Boots /\ Sane(links, L, A, order, status)
        /\ \A x \in Page : status[x] # "FREE" => \E k \in Orders : <<x, k>> \in withheld
    BY <1>1, BootFound
  <1>3. b \in Boots
    BY <1>2, RangesAssumption DEF Boots
  <1> HIDE DEF A, L, b
  <1>4. /\ boot' \in Boots /\ boot'.level = MaxOrder
        /\ boot'.pos \in {ListHead(MaxOrder)} \cup L[MaxOrder] /\ boot'.n = links.next[boot'.pos]
    BY <1>1, <1>2, <1>3, Listing
  <1>5. A = OwnersOf(Idle, live', withheld') /\ Sane(links', L, A, order', status')
    BY <1>1, <1>2 DEF A
  <1>6. withheld' \subseteq Page \X Orders
    BY <1>1, <1>2, Typed
  <1> QED  BY <1>1, <1>2, <1>4, <1>5, <1>6, BootKept

LEMMA ReserveLevelWhole ==
    ASSUME LInv, ReserveLevel
    PROVE  LInv'
  <1> DEFINE A == OwnersOf(Idle, live, withheld)
             L == WalksOf(links)
             k == boot.level
  <1>1. /\ ~ Booted /\ k >= 0
        /\ boot' = IF k > 0 THEN AtList(boot, k - 1)
                   ELSE [boot EXCEPT !.range = <<0, 0>>, !.level = -1, !.pos = 0, !.n = 0]
        /\ UNCHANGED <<links, order, status, th, running, cuts, torn, withheld, live>>
    BY DEF ReserveLevel, Booted, pages, cpu
  <1>2. /\ Kinds /\ boot \in Boots /\ Sane(links, L, A, order, status)
        /\ \A x \in Page : status[x] # "FREE" => \E j \in Orders : <<x, j>> \in withheld
    BY <1>1, BootFound
  <1>3. k \in Orders
    BY <1>1, <1>2, OrderAssumption DEF Boots, Orders
  <1> HIDE DEF A, L
  <1>4. /\ boot' \in Boots
        /\ boot'.level >= 0 => /\ boot'.pos \in {ListHead(boot'.level)} \cup L[boot'.level]
                               /\ boot'.n = links.next[boot'.pos]
    <2>1. CASE k > 0
      <3>1. k - 1 \in Orders /\ boot' = AtList(boot, k - 1)
        BY <1>1, <1>3, <2>1, OrderAssumption DEF Orders
      <3> HIDE DEF k
      <3> QED  BY <1>2, <3>1, Listing
    <2>2. CASE ~ (k > 0)
      <3>1. boot' = [boot EXCEPT !.range = <<0, 0>>, !.level = -1, !.pos = 0, !.n = 0]
        BY <1>1, <2>2
      <3>2. 0 \in Node /\ <<0, 0>> \in Nat \X Nat
        BY HeadsApart, PoolAssumption DEF Page
      <3> DEFINE z == <<0, 0>>
      <3>3. /\ boot' = [boot EXCEPT !.range = z, !.level = -1, !.pos = 0, !.n = 0]
            /\ z \in Nat \X Nat
        BY <3>1, <3>2
      <3> HIDE DEF z
      <3>4. boot' \in Boots /\ boot'.level = -1
        BY <1>2, <3>2, <3>3 DEF Boots
      <3> QED  BY <3>4
    <2> QED  BY <2>1, <2>2
  <1>5. A = OwnersOf(Idle, live', withheld') /\ Sane(links', L, A, order', status')
    BY <1>1, <1>2 DEF A
  <1>6. withheld' \subseteq Page \X Orders
    BY <1>1, <1>2, Typed
  <1> HIDE DEF k
  <1> QED  BY <1>1, <1>2, <1>4, <1>5, <1>6, BootKept

\* The block of the loop is reserved, or cut in two: what is on the list now
\* is what was there without it.
LEMMA ReserveVisitLists ==
    ASSUME LInv, ReserveVisit, NEW A, A = OwnersOf(Idle, live, withheld),
           NEW L, L = WalksOf(links), NEW k, k = boot.level, NEW p, p = boot.pos
    PROVE  /\ ~ Booted /\ k \in Orders /\ p \in L[k]
           /\ \E M \in Lists :
                 /\ Sane(links', M, OwnersOf(Idle, live', withheld'), order', status')
                 /\ M[k] \in {L[k], L[k] \ {p}}
           /\ withheld' \subseteq Page \X Orders
           /\ \A x \in Page : status'[x] # "FREE" => \E j \in Orders : <<x, j>> \in withheld'
  <1> DEFINE y == BuddyOf(p, k - 1)
             off == ApplyAll(links, ListDel(links, p))
             one == ApplyAll(off, ListAddTail(off, y, ListHead(k - 1)))
             two == ApplyAll(one, ListAddTail(one, p, ListHead(k - 1)))
  <1>1. /\ ~ Booted /\ k >= 0 /\ p # ListHead(k) /\ UNCHANGED <<th, live>>
        /\ \/ UNCHANGED <<links, order, status, withheld>>
           \/ /\ status' = [status EXCEPT ![p] = "RESERVED"] /\ links' = off
              /\ withheld' = withheld \cup {<<p, k>>} /\ order' = order
           \/ /\ ~ PageWithin(p, k) /\ order' = [order EXCEPT ![p] = k - 1, ![y] = k - 1]
              /\ links' = two /\ UNCHANGED <<status, withheld>>
    BY DEF ReserveVisit, Booted, pages
  <1>2. /\ Sane(links, L, A, order, status) /\ L \in Lists /\ boot \in Boots
        /\ \A e \in A : e[1] # "hand"
        /\ \A x \in Page : status[x] # "FREE" => \E j \in Orders : <<x, j>> \in withheld
        /\ k >= 0 => p \in {ListHead(k)} \cup L[k]
        /\ Kinds
    BY <1>1, BootFound
  <1>3. /\ k \in Orders /\ p \in L[k] /\ p \in Page
        /\ withheld \subseteq Page \X Orders /\ order \in [Page -> Orders \cup {-1}]
        /\ status \in [Page -> Status]
    <2>1. k \in Orders /\ p \in L[k]
      BY <1>1, <1>2, OrderAssumption DEF Boots, Orders
    <2> QED  BY <1>2, <2>1 DEF Lists, Kinds
  <1> HIDE DEF off, y
  <1>4. CASE UNCHANGED <<links, order, status, withheld>>
    BY <1>1, <1>2, <1>3, <1>4
  <1>5. CASE /\ status' = [status EXCEPT ![p] = "RESERVED"] /\ links' = off
             /\ withheld' = withheld \cup {<<p, k>>} /\ order' = order
    <2> DEFINE M == Minus(L, k, p)
               B == Given(A, "withheld", p, k)
    <2>1. status' = Put(status, p, "RESERVED")
      BY <1>5 DEF Put
    <2>2. Sane(links', M, B, order', status')
      <3> DEFINE c == "withheld"
      <3>1. /\ c \in {"hand", "withheld"} /\ B = Given(A, c, p, k) /\ M = Minus(L, k, p)
            /\ status' = status \/ c = "withheld"
            /\ status' = Put(status, p, "RESERVED") \/ c = "hand"
        BY <2>1
      <3>2. links' = ApplyAll(links, ListDel(links, p)) /\ order' = order
        BY <1>5 DEF off
      <3> HIDE DEF c, B, M
      <3> QED  BY ONLY <1>2, <1>3, <3>1, <3>2, SaneTaken
    <2>3. B = OwnersOf(Idle, live', withheld')
      BY <1>1, <1>5 DEF OwnersOf, Given
    <2>4. M \in Lists /\ M[k] = L[k] \ {p}
      BY <1>2, <1>3, PlusMinus
    <2>5. withheld' \subseteq Page \X Orders
      BY <1>3, <1>5
    <2>6. \A x \in Page : status'[x] # "FREE" => \E j \in Orders : <<x, j>> \in withheld'
      BY <1>2, <1>3, <1>5
    <2> HIDE DEF M, B
    <2> QED  BY <1>1, <1>3, <2>2, <2>3, <2>4, <2>5, <2>6
  <1>6. CASE /\ ~ PageWithin(p, k) /\ order' = [order EXCEPT ![p] = k - 1, ![y] = k - 1]
             /\ links' = two /\ UNCHANGED <<status, withheld>>
    <2> DEFINE i == k - 1
    <2>1. i \in Orders /\ i < MaxOrder /\ k = i + 1
      BY <1>3, <1>6, OrderAssumption DEF PageWithin, Orders
    <2>2. y \in Page => status[y] = "FREE"
      <3> SUFFICES ASSUME y \in Page, status[y] # "FREE" PROVE FALSE
        OBVIOUS
      <3> DEFINE h == <<"free", <<p, k>>>>
                 H == FreeOn(L) \cup A
      <3>1. PICK j \in Orders : <<y, j>> \in withheld
        BY <1>2
      <3> DEFINE g == <<"withheld", <<y, j>>>>
      <3>2. h \in H /\ h[2] = <<p, k>> /\ h[1] = "free"
        BY <1>2, <1>3, FreeIn
      <3>3. g \in H /\ g[2][1] = y /\ g[1] = "withheld"
        BY <3>1 DEF OwnersOf
      <3>4. H \subseteq Holder \X Block /\ Partition(H)
        BY <1>2 DEF Sane
      <3>5. <<p, k>> \in Block
        <4> HIDE DEF H, h
        <4>1. h[2] \in Block
          BY <3>2, <3>4
        <4> QED  BY <3>2, <4>1
      <3>6. y \in Span(<<p, k>>)
        <4>1. /\ y = p + Pow[i] /\ <<y, i>> \in Block
              /\ Span(<<p, k>>) = Span(<<p, i>>) \cup Span(<<y, i>>)
          BY <2>1, <3>5, Halves DEF y
        <4>2. y \in Span(<<y, i>>)
          BY <4>1, BlockFields
        <4> QED  BY <4>1, <4>2
      <3> HIDE DEF h, g, H
      <3>7. g = h
        BY <3>2, <3>3, <3>4, <3>6, OnlyHead
      <3> QED  BY <3>2, <3>3, <3>7
    <2> DEFINE o == Put(Put(order, y, i), p, i)
    <2>3. /\ y \in Page
          /\ \E M \in Lists : M[k] = L[k] \ {p} /\ Sane(two, M, A, o, status)
      <3> HIDE DEF i
      <3>1. y = BuddyOf(p, i)
        BY DEF y, i
      <3>2. /\ one = ApplyAll(off, ListAddTail(off, y, ListHead(i)))
            /\ two = ApplyAll(one, ListAddTail(one, p, ListHead(i)))
        BY DEF i
      <3>3. off = ApplyAll(links, ListDel(links, p))
        BY DEF off
      <3> HIDE DEF one, two, o
      <3>4. o = Put(Put(order, y, i), p, i)
        BY DEF o
      <3> QED  BY ONLY <1>2, <1>3, <2>1, <2>2, <3>1, <3>2, <3>3, <3>4, SaneCut
    <2>4. o = order'
      BY <1>3, <1>6, <2>1, <2>3 DEF Put
    <2> HIDE DEF o, two
    <2>5. A = OwnersOf(Idle, live', withheld')
      BY <1>1, <1>6
    <2> QED  BY <1>1, <1>2, <1>3, <1>6, <2>3, <2>4, <2>5
  <1> HIDE DEF two
  <1> QED  BY <1>1, <1>4, <1>5, <1>6

LEMMA ReserveVisitWhole ==
    ASSUME LInv, ReserveVisit
    PROVE  LInv'
  <1> DEFINE A == OwnersOf(Idle, live, withheld)
             B == OwnersOf(Idle, live', withheld')
             L == WalksOf(links)
             k == boot.level
             p == boot.pos
             n == boot.n
             m == links'.next[n]
             h == ListHead(k)
  <1>1. /\ ~ Booted /\ k \in Orders /\ p \in L[k] /\ k >= 0
        /\ withheld' \subseteq Page \X Orders
        /\ \A x \in Page : status'[x] # "FREE" => \E j \in Orders : <<x, j>> \in withheld'
    BY ReserveVisitLists DEF ReserveVisit
  <1>2. PICK M \in Lists : Sane(links', M, B, order', status') /\ M[k] \in {L[k], L[k] \ {p}}
    BY ReserveVisitLists
  <1>3. /\ UNCHANGED <<th, running, cuts, torn, live>>
        /\ boot' = [boot EXCEPT !.pos = n, !.n = m]
    BY DEF ReserveVisit, cpu
  <1>4. /\ Sane(links, L, A, order, status) /\ boot \in Boots /\ n = links.next[p]
        /\ links \in Links
    BY <1>1, BootFound
  <1>5. Ring(links, h, L[k]) /\ Ring(links', h, M[k])
    BY <1>1, <1>2, <1>4 DEF Sane, Rings
  <1>6. n \in {h} \cup M[k]
    <2>1. n \in {h} \cup L[k]
      BY <1>1, <1>4, <1>5 DEF Ring
    <2>2. n # p
      BY <1>1, <1>4, <1>5, RingEmpty
    <2> QED  BY <1>2, <2>1, <2>2
  <1>7. n \in Node /\ m \in Node
    <2>1. n \in Node
      BY <1>4 DEF Boots
    <2> QED  BY <1>2, <2>1 DEF Sane, Links
  <1> HIDE DEF A, B, L, n, m
  <1>8. /\ boot' \in Boots /\ boot'.level = k /\ boot'.pos = n /\ boot'.n = m
    BY <1>3, <1>4, <1>7 DEF Boots
  <1>9. /\ boot'.pos \in {ListHead(boot'.level)} \cup M[boot'.level]
        /\ boot'.n = links'.next[boot'.pos]
    BY <1>6, <1>8 DEF m, n
  <1> HIDE DEF k, p, h
  <1> QED  BY <1>1, <1>2, <1>3, <1>8, <1>9, BootKept DEF B

-----------------------------------------------------------------------------
(* buddy_init                                                              *)

Firsts == {p \in Page : Aligned(p, MaxOrder)}

\* The blocks of the top order lie one after another from 0 to the end.
LEMMA FirstsFollow ==
    /\ MaxOrder \in Orders /\ Top \in Nat /\ Top > 0 /\ NumPages \in Nat
    /\ 0 \in Firsts /\ NumPages - Top \in Firsts
    /\ \A p \in Firsts : /\ p \in Nat /\ p + Top <= NumPages
                         /\ p + Top \in Page => p + Top \in Firsts
                         /\ p # 0 => p - Top \in Firsts
    /\ \A S : 0 \in S /\ (\A p \in Firsts : p \in S /\ p + Top \in Page => p + Top \in S)
              => Firsts \subseteq S
  <1>1. MaxOrder \in Orders /\ Top \in Nat /\ Top > 0 /\ NumPages \in Nat /\ NumPages > 0
    BY PowPositive, OrderAssumption, PoolAssumption DEF Orders, Top
  <1>2. PICK q \in 1 .. NumPages : NumPages = q * Top
    BY PoolAssumption DEF Top
  <1>3. ASSUME NEW a \in Nat, a * Top \in Page PROVE a * Top \in Firsts
    BY <1>1, <1>3, AlignedIntro DEF Firsts, Top
  <1>4. ASSUME NEW p \in Firsts
        PROVE  /\ p \in Nat /\ p + Top <= NumPages /\ p \in Page
               /\ \E a \in Nat : p = a * Top
    <2>1. p \in Page /\ p \in Nat /\ Aligned(p, MaxOrder)
      BY <1>1 DEF Firsts, Page
    <2>2. p + Top <= NumPages
      BY <1>1, <2>1, BlockInPool DEF Top
    <2> QED  BY <2>1, <2>2 DEF Aligned, Top
  <1>5. 0 \in Firsts
    <2>1. 0 = 0 * Top /\ 0 \in Page
      BY <1>1 DEF Page
    <2> QED  BY <2>1, <1>3
  <1>6. NumPages - Top \in Firsts
    <2>1. NumPages - Top = (q - 1) * Top /\ q - 1 \in Nat
      BY <1>1, <1>2
    <2>2. (q - 1) * Top \in Nat
      BY <1>1, <2>1
    <2>3. NumPages - Top \in Page
      BY <1>1, <2>1, <2>2 DEF Page
    <2> QED  BY <2>1, <2>3, <1>3
  <1>7. ASSUME NEW p \in Firsts, p + Top \in Page PROVE p + Top \in Firsts
    <2>1. PICK a \in Nat : p = a * Top
      BY <1>4
    <2>2. p + Top = (a + 1) * Top /\ a + 1 \in Nat
      BY <1>1, <2>1
    <2> QED  BY <2>2, <1>3, <1>7
  <1>8. ASSUME NEW p \in Firsts, p # 0 PROVE p - Top \in Firsts
    <2>1. PICK a \in Nat : p = a * Top
      BY <1>4
    <2>2. a # 0
      BY <1>1, <1>8, <2>1
    <2>3. p - Top = (a - 1) * Top /\ a - 1 \in Nat
      BY <1>1, <2>1, <2>2
    <2>4. (a - 1) * Top \in Nat
      BY <1>1, <2>3
    <2>5. p - Top \in Page
      BY <1>1, <1>4, <2>3, <2>4 DEF Page
    <2> QED  BY <2>3, <2>5, <1>3
  <1>9. ASSUME NEW S, 0 \in S,
               \A p \in Firsts : p \in S /\ p + Top \in Page => p + Top \in S,
               NEW r \in Firsts
        PROVE  r \in S
    <2>1. PICK n \in Nat : r = n * Top
      BY <1>4
    <2> DEFINE K == {a \in 0 .. n : a * Top \in S}
    <2>2. 0 \in K
      BY <1>1, <1>9
    <2>3. ASSUME NEW k \in 1 .. n, k - 1 \in K PROVE k \in K
      <3>1. k - 1 \in Nat /\ (k - 1) * Top \in S /\ k \in Nat /\ k <= n
        BY <2>3
      <3>2. k * Top = (k - 1) * Top + Top
        BY <1>1, <3>1
      <3>3. k * Top <= n * Top /\ (k - 1) * Top \in Nat /\ k * Top \in Nat
        BY <1>1, <3>1, TimesMonotonic
      <3>4. r <= NumPages - 1 /\ r \in Nat
        BY <1>1, <1>4 DEF Page
      <3>5. k * Top \in Page
        BY <1>1, <2>1, <3>3, <3>4 DEF Page
      <3>6. (k - 1) * Top \in Page
        BY <1>1, <3>2, <3>3, <3>5 DEF Page
      <3>7. (k - 1) * Top \in Firsts
        BY <1>3, <3>1, <3>6
      <3>8. k * Top \in S
        BY <1>9, <3>1, <3>2, <3>5, <3>7
      <3> QED  BY <3>8
    <2> HIDE DEF K
    <2>4. n \in K
      <3>1. \A k \in 0 .. n : k \in K
        BY <2>2, <2>3, UpTo
      <3> QED  BY <3>1
    <2> QED  BY <2>1, <2>4 DEF K
  <1> QED  BY <1>1, <1>4, <1>5, <1>6, <1>7, <1>8, <1>9

LEMMA InitRing ==
    /\ InitLinks \in Links
    /\ Ring(InitLinks, ListHead(MaxOrder), Firsts)
    /\ \A k \in Orders : k # MaxOrder => Ring(InitLinks, ListHead(k), {})
  <1> DEFINE l == InitLinks
             h == ListHead(MaxOrder)
  <1>1. /\ MaxOrder \in Orders /\ Top \in Nat /\ Top > 0 /\ NumPages \in Nat
        /\ 0 \in Firsts /\ NumPages - Top \in Firsts
        /\ \A p \in Firsts : /\ p \in Nat /\ p + Top <= NumPages
                             /\ p + Top \in Page => p + Top \in Firsts
                             /\ p # 0 => p - Top \in Firsts
    BY FirstsFollow
  <1>2. /\ h \in Node /\ h \notin Page /\ Firsts \subseteq Page /\ Page \subseteq Node
        /\ \A k \in Orders : ListHead(k) \in Node /\ ListHead(k) \notin Page
        /\ \A k \in Orders : k # MaxOrder => ListHead(k) # h
    BY <1>1, HeadsApart DEF Firsts
  <1> HIDE DEF h
  <1>3. /\ DOMAIN l.next = Node /\ DOMAIN l.prev = Node
        /\ l.next[h] = 0 /\ l.prev[h] = NumPages - Top
        /\ \A p \in Firsts : l.next[p] = Follows(p) /\ l.prev[p] = Precedes(p)
        /\ \A n \in Node : n # h /\ n \notin Firsts => l.next[n] = n /\ l.prev[n] = n
    BY <1>2 DEF InitLinks, Firsts, h
  <1>4. \A p \in Firsts :
            /\ Follows(p) = IF p + Top \in Page THEN p + Top ELSE h
            /\ Precedes(p) = IF p = 0 THEN h ELSE p - Top
    BY DEF Follows, Precedes, h
  <1>5. l \in Links
    <2>1. \A n \in Node : l.next[n] \in Node /\ l.prev[n] \in Node
      BY <1>1, <1>2, <1>3, <1>4
    <2>2. /\ l = [next |-> l.next, prev |-> l.prev]
          /\ l.next = [n \in Node |-> l.next[n]] /\ l.prev = [n \in Node |-> l.prev[n]]
      BY DEF InitLinks
    <2> HIDE DEF l
    <2>3. l.next \in [Node -> Node] /\ l.prev \in [Node -> Node]
      BY <2>1, <2>2
    <2> QED  BY <2>2, <2>3 DEF Links
  <1> HIDE DEF l
  <1>6. Ring(l, h, Firsts)
    <2>1. ASSUME NEW n \in {h} \cup Firsts
          PROVE  /\ l.next[n] \in {h} \cup Firsts /\ l.prev[l.next[n]] = n
                 /\ l.prev[n] \in {h} \cup Firsts /\ l.next[l.prev[n]] = n
      <3>1. CASE n = h
        <4>1. l.prev[0] = h
          BY <1>1, <1>3, <1>4
        <4>2. NumPages - Top + Top \notin Page
          BY <1>1 DEF Page
        <4>3. l.next[NumPages - Top] = h
          BY <1>1, <1>3, <1>4, <4>2
        <4> QED  BY <3>1, <1>1, <1>3, <4>1, <4>3
      <3>2. CASE n \in Firsts
        <4>0. n \in Page /\ n \in Nat
          BY <1>1, <1>2, <3>2
        <4>1. l.next[n] \in {h} \cup Firsts /\ l.prev[l.next[n]] = n
          <5>1. CASE n + Top \in Page
            <6>1. n + Top \in Firsts /\ n + Top # 0 /\ (n + Top) - Top = n
              BY <1>1, <3>2, <4>0, <5>1
            <6> QED  BY <1>3, <1>4, <3>2, <5>1, <6>1
          <5>2. CASE n + Top \notin Page
            <6>1. n = NumPages - Top
              BY <1>1, <3>2, <4>0, <5>2 DEF Page
            <6> QED  BY <1>3, <1>4, <3>2, <5>2, <6>1
          <5> QED  BY <5>1, <5>2
        <4>2. l.prev[n] \in {h} \cup Firsts /\ l.next[l.prev[n]] = n
          <5>1. CASE n = 0
            BY <1>3, <1>4, <3>2, <5>1
          <5>2. CASE n # 0
            <6>1. n - Top \in Firsts /\ (n - Top) + Top = n
              BY <1>1, <3>2, <4>0, <5>2
            <6> DEFINE m == n - Top
            <6>2. m \in Firsts /\ m + Top = n
              BY <6>1
            <6>3. l.prev[n] = m
              BY <1>3, <1>4, <3>2, <5>2
            <6> HIDE DEF m
            <6>4. l.next[m] = n
              BY <1>3, <1>4, <4>0, <6>2
            <6> QED  BY <6>2, <6>3, <6>4
          <5> QED  BY <5>1, <5>2
        <4> QED  BY <4>1, <4>2
      <3> QED  BY <3>1, <3>2
    <2>2. ASSUME NEW S \in SUBSET ({h} \cup Firsts), h \in S, Closed(l, S)
          PROVE  Firsts \subseteq S
      <3>1. 0 \in S
        BY <1>3, <2>2 DEF Closed
      <3>2. \A p \in Firsts : p \in S /\ p + Top \in Page => p + Top \in S
        BY <1>3, <1>4, <2>2 DEF Closed
      <3> QED  BY <3>1, <3>2, FirstsFollow
    <2>3. h \notin Firsts
      BY <1>2
    <2> QED  BY <2>1, <2>2, <2>3 DEF Ring
  <1>7. ASSUME NEW k \in Orders, k # MaxOrder PROVE Ring(l, ListHead(k), {})
    <2>1. ListHead(k) \in Node /\ ListHead(k) # h /\ ListHead(k) \notin Firsts
      BY <1>2, <1>7
    <2>2. l.next[ListHead(k)] = ListHead(k) /\ l.prev[ListHead(k)] = ListHead(k)
      BY <1>3, <2>1
    <2> QED  BY <2>2 DEF Ring
  <1> QED  BY <1>5, <1>6, <1>7 DEF l, h

LEMMA InitWhole == ListsInit => LInv
  <1> SUFFICES ASSUME ListsInit PROVE LInv
    OBVIOUS
  <1> DEFINE L == [k \in Orders |-> IF k = MaxOrder THEN Firsts ELSE {}]
             A == OwnersOf(Idle, live, withheld)
  <1>1. /\ links = InitLinks /\ th = [t \in Threads |-> Idle] /\ running \in Threads
        /\ order = [p \in Page |-> IF Aligned(p, MaxOrder) THEN MaxOrder ELSE -1]
        /\ status = [p \in Page |-> "FREE"]
        /\ cuts = 0 /\ torn = FALSE /\ withheld = {} /\ live = {}
    BY DEF ListsInit
  <1>2. /\ MaxOrder \in Orders /\ 0 \in Page /\ 0 \in Node
    BY OrderAssumption, PoolAssumption, HeadsApart DEF Orders, Page
  <1>3. \A t \in Threads : th[t] = Idle
    BY <1>1
  <1>4. links \in Links
    BY <1>1, InitRing
  <1>5. /\ order \in [Page -> Orders \cup {-1}] /\ status \in [Page -> Status]
        /\ \A x \in Firsts : order[x] = MaxOrder /\ status[x] = "FREE"
        /\ \A x \in Page : status[x] = "FREE"
    BY <1>1, <1>2 DEF Firsts, Status
  <1>6. Kinds
    <2>1. DOMAIN th = Threads /\ th = [t \in Threads |-> th[t]]
      BY <1>1
    <2>2. \A t \in Threads : Fits(th[t])
      BY <1>3, IdleFits
    <2>3. cuts \in 0 .. MaxCuts
      <3>1. cuts = 0
        BY <1>1
      <3> QED  BY <3>1, CutsAssumption
    <2>4. torn \in BOOLEAN
      BY <1>1
    <2>5. live \subseteq Page \X Orders /\ withheld \subseteq Page \X Orders
      BY <1>1
    <2>6. \A b \in live : order[b[1]] \in Orders
      BY <1>1
    <2> QED  BY <1>1, <1>4, <1>5, <2>1, <2>2, <2>3, <2>4, <2>5, <2>6 DEF Kinds
  <1>7. Made = links
    BY <1>1, <1>3, <1>4, NoneApplied, IdleFits DEF Made
  <1>8. L \in Lists /\ L[MaxOrder] = Firsts /\ \A k \in Orders : k # MaxOrder => L[k] = {}
    BY <1>2 DEF Lists, Firsts
  <1>9. Rings(links, L)
    BY <1>1, <1>8, InitRing DEF Rings
  <1> HIDE DEF L
  <1>10. A = {}
    BY <1>1, IdleFits DEF OwnersOf
  <1>11. FreeOn(L) = {"free"} \X {b \in Block : b[2] = MaxOrder}
    <2>1. ASSUME NEW b
          PROVE  b \in Page \X Orders /\ b[1] \in L[b[2]] <=> b \in Block /\ b[2] = MaxOrder
      BY <1>2, <1>8 DEF Block, Firsts
    <2> QED  BY <2>1 DEF FreeOn
  <1>12. Sane(links, L, A, order, status)
    <2>1. FreeOn(L) \subseteq Holder \X Block
      BY <1>11 DEF Holder
    <2>2. Partition(FreeOn(L) \cup A)
      BY <1>10, <1>11, TopBlocks
    <2>3. ASSUME NEW g \in FreeOn(L) \cup A PROVE Tells(g, order, status)
      <3>1. g[1] = "free" /\ g[2] \in Block /\ g[2][2] = MaxOrder
        BY <1>10, <1>11, <2>3
      <3>2. g[2][1] \in Firsts
        BY <3>1, BlockFields DEF Firsts
      <3> QED  BY <1>5, <3>1, <3>2 DEF Tells, Mark
    <2> QED  BY <1>4, <1>5, <1>8, <1>9, <1>10, <2>1, <2>2, <2>3 DEF Sane
  <1>13. WalksOf(Made) = L
    BY <1>4, <1>7, <1>8, <1>9, RingsWalked
  <1>14. Whole
    BY <1>3, <1>7, <1>12, <1>13, <1>1, IdleFits DEF Whole
  <1>15. Booting
    <2> DEFINE z == <<0, 0>>
    <2>1. z \in Nat \X Nat /\ 0 \in Node /\ -1 \in Orders \cup {-1}
      BY <1>2
    <2>2. boot = [todo |-> Ranges, range |-> z, level |-> -1, pos |-> 0, n |-> 0]
      BY DEF ListsInit
    <2> HIDE DEF z
    <2>3. boot \in Boots /\ boot.level = -1
      BY <2>1, <2>2 DEF Boots
    <2>4. ~ (boot.level >= 0)
      BY <2>3
    <2>5. /\ ~ torn /\ live = {} /\ \A t \in Threads : th[t] = Idle
          /\ \A x \in Page : status[x] # "FREE" => \E k \in Orders : <<x, k>> \in withheld
      BY <1>1, <1>3, <1>5
    <2> QED  BY <2>3, <2>4, <2>5 DEF Booting
  <1> QED  BY <1>6, <1>14, <1>15 DEF LInv

-----------------------------------------------------------------------------
(* Together                                                                *)

\* What a thread does leaves main where it is.
LEMMA ThreadStep ==
    ASSUME LInv, NEW t \in Threads,
           \/ StoreStep(t)
           \/ \E k \in Orders : AllocatePages(t, k)
           \/ Scan(t) \/ Pop(t) \/ SplitStep(t) \/ ReturnStep(t)
           \/ \E b \in live : FreePages(t, b)
           \/ MergeStep(t) \/ InsertStep(t) \/ End(t)
    PROVE  LInv'
  <1>1. Kinds' /\ (~ torn' => Whole')
    <2>1. CASE StoreStep(t)
      BY <2>1, StoreStepWhole
    <2>2. CASE \E k \in Orders : AllocatePages(t, k)
      BY <2>2, AllocatePagesWhole
    <2>3. CASE Scan(t)
      BY <2>3, ScanWhole
    <2>4. CASE Pop(t)
      BY <2>4, PopWhole
    <2>5. CASE SplitStep(t)
      BY <2>5, SplitStepWhole
    <2>6. CASE ReturnStep(t)
      BY <2>6, ReturnStepWhole
    <2>7. CASE \E b \in live : FreePages(t, b)
      BY <2>7, FreePagesWhole
    <2>8. CASE MergeStep(t)
      BY <2>8, MergeStepWhole
    <2>9. CASE InsertStep(t)
      BY <2>9, InsertStepWhole
    <2>10. CASE End(t)
      BY <2>10, EndWhole
    <2> QED  BY <2>1, <2>2, <2>3, <2>4, <2>5, <2>6, <2>7, <2>8, <2>9, <2>10
  <1>2. CanRun(t) /\ boot' = boot
    BY DEF StoreStep, AllocatePages, Scan, Pop, SplitStep, ReturnStep, FreePages, MergeStep,
           InsertStep, End, Begins, At
  <1>3. Booting'
    BY <1>2, StaysBooted DEF LInv, CanRun
  <1> QED  BY <1>1, <1>3 DEF LInv

LEMMA ListsNextInv == ASSUME LInv, [ListsNext]_listsVars PROVE LInv'
  <1>1. CASE UNCHANGED listsVars
    BY <1>1 DEF listsVars, cpu, LInv, Kinds, Booting, Booted, Whole, Made
  <1>2. CASE \E c \in Ranges : ReserveCall(c)
    BY <1>2, ReserveCallWhole
  <1>3. CASE ReserveVisit
    BY <1>3, ReserveVisitWhole
  <1>4. CASE ReserveLevel
    BY <1>4, ReserveLevelWhole
  <1>5. ASSUME NEW t \in Threads,
               \/ StoreStep(t)
               \/ \E k \in Orders : AllocatePages(t, k)
               \/ Scan(t) \/ Pop(t) \/ SplitStep(t) \/ ReturnStep(t)
               \/ \E b \in live : FreePages(t, b)
               \/ MergeStep(t) \/ InsertStep(t) \/ End(t)
        PROVE  LInv'
    BY <1>5, ThreadStep
  <1> QED  BY <1>1, <1>2, <1>3, <1>4, <1>5 DEF ListsNext

\* The invariant of the lists holds in every state: the links hold what no one
\* holds as soon as the call under way has made its stores.
THEOREM ListsInductive == ListsSpec => []LInv
  <1>1. ListsInit => LInv
    BY InitWhole
  <1>2. LInv /\ [ListsNext]_listsVars => LInv'
    BY ListsNextInv
  <1> QED  BY <1>1, <1>2, PTL DEF ListsSpec

LEMMA WholeSound == ASSUME LInv PROVE ListsSound
  <1> DEFINE L == WalksOf(Made)
             A == OwnersOf(th[running], live, withheld)
  <1>1. Kinds /\ (~ torn => Whole)
    BY DEF LInv
  <1>2. LinksTyped
    BY <1>1 DEF LinksTyped, Kinds, Fits, Thread, Links, Status
  <1>3. ASSUME ~ torn
        PROVE  /\ Sane(Made, L, A, order, status)
               /\ L \in Lists /\ Made \in Links /\ Rings(Made, L)
               /\ Partition(FreeOn(L) \cup A)
               /\ \A t \in Threads : KnowsOf(th[t], L)
    BY <1>1, <1>3 DEF Whole, Sane
  <1>4. ({"live"} \X live) \cup ({"withheld"} \X withheld) \subseteq A
    BY DEF OwnersOf
  <1>5. RingsHoldTheRest
    <2> SUFFICES ASSUME Quiet, ~ torn
                 PROVE  /\ \A k \in Orders : Sound(links, ListHead(k))
                        /\ \A k \in Orders : Walk(links, ListHead(k)) \subseteq Page
                        /\ Partition(({"free"} \X {b \in Page \X Orders :
                                                     b[1] \in Walk(links, ListHead(b[2]))})
                                     \cup ({"live"} \X live) \cup ({"withheld"} \X withheld))
      BY DEF RingsHoldTheRest
    <2>1. th[running].pc = "idle" /\ th[running].stores = <<>> /\ links \in Links
      BY <1>1 DEF Kinds, Quiet, Fits
    <2>2. Made = links /\ HandOf(th[running]) = {}
      BY <2>1, NoneApplied DEF Made, HandOf
    <2> HIDE DEF L
    <2>3. /\ L \in Lists /\ Rings(links, L) /\ Partition(FreeOn(L) \cup A)
          /\ \A k \in Orders : Walk(links, ListHead(k)) = L[k]
      <3>1. L \in Lists /\ Rings(links, L) /\ Partition(FreeOn(L) \cup A)
        BY <1>3, <2>2
      <3> QED  BY <2>1, <3>1, RingsWalked
    <2>4. ASSUME NEW k \in Orders
          PROVE  Sound(links, ListHead(k)) /\ Walk(links, ListHead(k)) \subseteq Page
      <3>1. Ring(links, ListHead(k), L[k]) /\ L[k] \subseteq Page
        BY <2>3 DEF Rings, Lists
      <3> QED  BY <2>3, <3>1 DEF Sound, Ring
    <2>5. FreeOn(L) = {"free"} \X {b \in Page \X Orders : b[1] \in Walk(links, ListHead(b[2]))}
      BY <2>3 DEF FreeOn
    <2>6. A = ({"live"} \X live) \cup ({"withheld"} \X withheld)
      BY <2>2 DEF OwnersOf
    <2>7. FreeOn(L) \cup A = ({"free"} \X {b \in Page \X Orders :
                                             b[1] \in Walk(links, ListHead(b[2]))})
                             \cup ({"live"} \X live) \cup ({"withheld"} \X withheld)
      BY <2>5, <2>6
    <2> QED  BY <2>3, <2>4, <2>7
  <1>6. FirstEntryOfNonEmpty
    BY <1>3 DEF FirstEntryOfNonEmpty, KnowsOf
  <1>7. ASSUME ~ torn, NEW g \in ({"live"} \X live) \cup ({"withheld"} \X withheld),
               NEW h \in ({"live"} \X live) \cup ({"withheld"} \X withheld), g # h
        PROVE  Apart(g[2], h[2])
    BY <1>3, <1>4, <1>7 DEF Partition
  <1>8. ReservedStaysReserved
    <2> SUFFICES ASSUME ~ torn, NEW b \in live, NEW c \in withheld PROVE Apart(b, c)
      BY DEF ReservedStaysReserved
    <2> DEFINE g == <<"live", b>>
               h == <<"withheld", c>>
    <2>1. /\ g \in ({"live"} \X live) \cup ({"withheld"} \X withheld) /\ g[2] = b
          /\ h \in ({"live"} \X live) \cup ({"withheld"} \X withheld) /\ h[2] = c /\ g # h
      OBVIOUS
    <2> HIDE DEF g, h
    <2> QED  BY <1>7, <2>1
  <1>9. NoDoubleAllocation
    <2> SUFFICES ASSUME ~ torn, NEW b \in live, NEW c \in live, b # c PROVE Apart(b, c)
      BY DEF NoDoubleAllocation
    <2> DEFINE g == <<"live", b>>
               h == <<"live", c>>
    <2>1. /\ g \in ({"live"} \X live) \cup ({"withheld"} \X withheld) /\ g[2] = b
          /\ h \in ({"live"} \X live) \cup ({"withheld"} \X withheld) /\ h[2] = c /\ g # h
      OBVIOUS
    <2> HIDE DEF g, h
    <2> QED  BY <1>7, <2>1
  <1> QED  BY <1>2, <1>5, <1>6, <1>8, <1>9 DEF ListsSound

\* The free lists of buddy.c are sound rings between calls, they hold what no
\* one holds, and no page has two owners, unless a tick cuts a call that holds
\* something or a reserved block is merged: for every pool and any number of
\* threads and cuts.
THEOREM ListsAlwaysSound == ListsSpec => []ListsSound
  <1>1. LInv => ListsSound
    BY WholeSound
  <1> QED  BY <1>1, ListsInductive, PTL

-----------------------------------------------------------------------------
(* The calls do what PageAllocator promises, lists, threads and all.       *)

\* A block on a list or in hand is unowned.
LEMMA OthersUnowned ==
    ASSUME NEW l, NEW L, NEW r, NEW A, A = OwnersOf(r, live, withheld), NEW o, NEW s,
           Sane(l, L, A, o, s), NEW h \in FreeOn(L) \cup A, h[1] \in {"free", "hand"},
           NEW b, b = h[2]
    PROVE  b \in Promised!Block /\ Promised!Unowned(b)
  <1>1. b \in Block
    BY DEF Sane
  <1>2. ASSUME NEW c \in live \cup withheld PROVE Apart(b, c)
    <2>1. PICK u \in {"live", "withheld"} : <<u, c>> \in A
      BY <1>2 DEF OwnersOf
    <2> DEFINE g == <<u, c>>
    <2>2. g \in A /\ g # h /\ g[2] = c
      BY <2>1
    <2> HIDE DEF g
    <2> QED  BY <2>2 DEF Sane, Partition
  <1> QED  BY <1>1, <1>2 DEF Promised!Unowned, Promised!Apart, Promised!Span, Apart, Span,
              Promised!Block, Block, Promised!Page, Page, Promised!Orders, Orders,
              Promised!Aligned, Aligned

\* buddy_malloc returns a block no one owns.
LEMMA ReturnPromised ==
    ASSUME LInv, NEW t \in Threads, ReturnStep(t), ~ torn'
    PROVE  Promised!Next
  <1> DEFINE j == th[t].current_order
             k == th[t].want
             x == th[t].target
             b == <<x, k>>
             L == WalksOf(links)
             A == OwnersOf(th[t], live, withheld)
  <1>1. /\ At(t, "split") /\ Runs(t) /\ j <= k
        /\ live' = live \cup {b} /\ withheld' = withheld
    BY DEF ReturnStep, Goto
  <1>2. /\ th[t].pc = "split" /\ j \in Orders /\ k \in Orders
    <2>1. CanRun(t) /\ th[t].pc = "split" /\ Kinds
      BY <1>1, AtLabel
    <2> QED  BY <2>1, Found
  <1>3. Sane(links, L, A, order, status) /\ k <= j
    <2>1. Sane(links, L, A, order, status) /\ KnowsOf(th[t], L)
      <3> HIDE DEF L, A
      <3> QED  BY <1>1, FoundWhole DEF L, A
    <2> QED  BY <1>2, <2>1 DEF KnowsOf
  <1>4. j = k
    BY <1>1, <1>2, <1>3, OrderAssumption DEF Orders
  <1> DEFINE h == <<"hand", b>>
  <1>5. h \in A /\ h[1] = "hand" /\ h[2] = b
    BY <1>2, <1>4 DEF OwnersOf, HandOf
  <1> HIDE DEF h, b, L
  <1>6. b \in Promised!Block /\ Promised!Unowned(b)
    <2> HIDE DEF A
    <2>1. A = OwnersOf(th[t], live, withheld)
      BY DEF A
    <2> QED  BY ONLY <1>3, <1>5, <2>1, OthersUnowned
  <1>7. Promised!Allocate(b)
    BY <1>1, <1>6 DEF Promised!Allocate
  <1> QED  BY <1>6, <1>7 DEF Promised!Next

\* buddy_free takes back a block that is owned.
LEMMA FreePromised ==
    ASSUME LInv, NEW t \in Threads, NEW b \in live, FreePages(t, b), ~ torn'
    PROVE  Promised!Next
  <1> DEFINE L == WalksOf(links)
             A == OwnersOf(th[t], live, withheld)
  <1>1. At(t, "idle") /\ Runs(t) /\ live' = live \ {b} /\ withheld' = withheld
    BY DEF FreePages, Begins, Goto
  <1>2. Sane(links, L, A, order, status)
    <2> HIDE DEF L, A
    <2> QED  BY <1>1, FoundWhole DEF L, A
  <1>3. b \in Block
    <2> DEFINE h == <<"live", b>>
    <2>1. h \in A /\ h[2] = b
      BY DEF OwnersOf
    <2> HIDE DEF h
    <2> QED  BY <1>2, <2>1 DEF Sane
  <1>4. b \in Promised!Block
    BY <1>3 DEF Promised!Block, Block, Promised!Page, Page, Promised!Orders, Orders,
                Promised!Aligned, Aligned
  <1>5. Promised!Release(b)
    BY <1>1 DEF Promised!Release
  <1> QED  BY <1>4, <1>5 DEF Promised!Next

\* memory_reserve withholds a block of a list, before anything is owned.
LEMMA ReservePromised ==
    ASSUME LInv, ReserveVisit
    PROVE  Promised!Next \/ UNCHANGED Promised!vars
  <1> DEFINE p == boot.pos
             k == boot.level
             b == <<p, k>>
             L == WalksOf(links)
             A == OwnersOf(Idle, live, withheld)
  <1>1. live' = live /\ withheld' \in {withheld, withheld \cup {b}}
    BY DEF ReserveVisit
  <1>2. ~ Booted /\ k \in Orders /\ p \in L[k]
    BY ReserveVisitLists
  <1>3. live = {} /\ Sane(links, L, A, order, status) /\ L \in Lists
    BY <1>2, BootFound
  <1> DEFINE h == <<"free", b>>
  <1>4. h \in FreeOn(L) /\ h[1] = "free" /\ h[2] = b
    BY <1>2, <1>3, FreeIn
  <1> HIDE DEF h, b, L
  <1>5. b \in Promised!Block /\ Promised!Unowned(b)
    <2> HIDE DEF A
    <2>1. A = OwnersOf(Idle, live, withheld)
      BY DEF A
    <2>2. h \in FreeOn(L) \cup A /\ h[1] \in {"free", "hand"}
      BY <1>4
    <2> QED  BY ONLY <1>3, <1>4, <2>1, <2>2, OthersUnowned
  <1>6. CASE withheld' = withheld
    BY <1>1, <1>6 DEF Promised!vars
  <1>7. CASE withheld' = withheld \cup {b}
    <2>1. Promised!Withhold(b)
      BY <1>1, <1>3, <1>5, <1>7 DEF Promised!Withhold
    <2> QED  BY <1>5, <2>1 DEF Promised!Next
  <1> QED  BY <1>1, <1>6, <1>7

LEMMA ListsStepPromised ==
    ASSUME LInv, [ListsNext]_listsVars, ~ torn'
    PROVE  Promised!Next \/ UNCHANGED Promised!vars
  <1>1. ASSUME UNCHANGED <<live, withheld>> PROVE UNCHANGED Promised!vars
    BY <1>1 DEF Promised!vars
  <1>2. CASE UNCHANGED listsVars
    BY <1>1, <1>2 DEF listsVars
  <1>3. CASE ReserveVisit
    BY <1>3, ReservePromised
  <1>4. CASE (\E c \in Ranges : ReserveCall(c)) \/ ReserveLevel
    BY <1>1, <1>4 DEF ReserveCall, ReserveLevel
  <1>5. ASSUME NEW t \in Threads, ReturnStep(t) PROVE Promised!Next
    BY <1>5, ReturnPromised
  <1>6. ASSUME NEW t \in Threads, NEW b \in live, FreePages(t, b) PROVE Promised!Next
    BY <1>6, FreePromised
  <1>7. ASSUME NEW t \in Threads,
               \/ StoreStep(t)
               \/ \E k \in Orders : AllocatePages(t, k)
               \/ Scan(t) \/ Pop(t) \/ SplitStep(t)
               \/ MergeStep(t) \/ InsertStep(t) \/ End(t)
        PROVE  UNCHANGED Promised!vars
    BY <1>1, <1>7 DEF StoreStep, AllocatePages, Scan, Pop, SplitStep, MergeStep, InsertStep, End
  <1> QED  BY <1>2, <1>3, <1>4, <1>5, <1>6, <1>7 DEF ListsNext

\* Pointer by pointer, with threads in each other's way, buddy_malloc and
\* buddy_free still implement PageAllocator for as long as nothing is torn.
THEOREM ListsKeepPromise == ListsSpec => ListsPromise
  <1>1. ListsInit => Promised!Init
    BY DEF ListsInit, Promised!Init
  <1>2. LInv /\ [ListsNext]_listsVars
        => [~ torn' => Promised!Next \/ UNCHANGED Promised!vars]_listsVars
    BY ListsStepPromised
  <1> QED  BY <1>1, <1>2, ListsInductive, PTL DEF ListsSpec, ListsPromise
=============================================================================
