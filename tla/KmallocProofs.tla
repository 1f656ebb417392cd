--------------------------- MODULE KmallocProofs ---------------------------
(***************************************************************************)
(* The safety of allocate and free for every size of the memory, of a page *)
(* and of a slab cache, and any number of pointers.                        *)
(*                                                                         *)
(* What is invariant is stated of a heap given by its parts, so that a new *)
(* slab, and the chunk that is taken from it, are two steps of the proof   *)
(* where they are one of the code.                                         *)
(***************************************************************************)
EXTENDS Kmalloc, FiniteSetTheorems, SequenceTheorems, WellFoundedInduction, TLAPS

-----------------------------------------------------------------------------
(* Blocks of pages                                                         *)

\* A size is a positive number.
LEMMA PowPositive == ASSUME NEW k \in Orders
                     PROVE  Pow[k] \in Nat /\ Pow[k] > 0
  BY PowAssumption DEF Orders

\* Multiplication by a size is monotonic.
LEMMA TimesMonotonic ==
    ASSUME NEW x \in Int, NEW y \in Int, NEW n \in Nat, x <= y
    PROVE  x * n <= y * n
  OBVIOUS

\* A product bounds its factors (Aligned asks for a bounded witness).
LEMMA TimesBounds ==
    ASSUME NEW q \in Nat, NEW n \in Nat, n > 0
    PROVE  q * n \in Nat /\ q \in 0 .. q * n
  <1>1. q * n \in Nat
    OBVIOUS
  <1>2. q * 1 <= q * n
    OBVIOUS
  <1> QED  BY <1>1, <1>2

\* A multiple of a size is aligned to its order.
LEMMA AlignedIntro ==
    ASSUME NEW q \in Nat, NEW k \in Orders
    PROVE  Aligned(q * Pow[k], k)
  BY PowPositive, TimesBounds DEF Aligned

\* A block aligned to an order is aligned to every order below it.
LEMMA AlignedBelow ==
    ASSUME NEW p \in Nat, NEW j \in Orders, NEW k \in Orders, j <= k,
           Aligned(p, k)
    PROVE  Aligned(p, j)
  <1>1. PICK a \in 0 .. p : p = a * Pow[k]
    BY DEF Aligned
  <1>2. PICK m \in 1 .. Pow[k] : Pow[k] = m * Pow[j]
    BY PowAssumption
  <1>3. Pow[j] \in Nat /\ Pow[k] \in Nat
    BY PowPositive
  <1>4. p = (a * m) * Pow[j] /\ a * m \in Nat
    BY <1>1, <1>2, <1>3
  <1> QED  BY <1>4, AlignedIntro

\* An aligned block that starts in the pool ends in it.
LEMMA BlockInPool ==
    ASSUME NEW p \in Page, NEW k \in Orders, Aligned(p, k)
    PROVE  p + Pow[k] <= NumPages
  <1>1. PICK q \in 1 .. NumPages : NumPages = q * Pow[MaxOrder]
    BY PoolAssumption
  <1>2. MaxOrder \in Orders /\ NumPages \in Nat
    BY OrderAssumption, PoolAssumption DEF Orders
  <1>3. Aligned(NumPages, MaxOrder)
    BY <1>1, <1>2, AlignedIntro
  <1>4. Aligned(NumPages, k)
    BY <1>2, <1>3, AlignedBelow DEF Orders
  <1>5. PICK c \in 0 .. NumPages : NumPages = c * Pow[k]
    BY <1>4 DEF Aligned
  <1>6. PICK a \in 0 .. p : p = a * Pow[k]
    BY DEF Aligned
  <1>7. Pow[k] \in Nat /\ a \in Nat /\ c \in Nat /\ p < NumPages
    BY PowPositive, <1>2 DEF Page
  <1>8. ~ c <= a
    BY <1>5, <1>6, <1>7, TimesMonotonic
  <1>9. (a + 1) * Pow[k] <= c * Pow[k]
    BY <1>7, <1>8, TimesMonotonic
  <1> QED  BY <1>5, <1>6, <1>7, <1>9

\* A block of the pool is a pair of a page and an order.
LEMMA BlockFields ==
    ASSUME NEW b \in Block
    PROVE  /\ b = <<b[1], b[2]>> /\ b[1] \in Page /\ b[2] \in Orders
           /\ Aligned(b[1], b[2])
           /\ b[1] \in Int /\ b[1] >= 0 /\ b[2] \in Int /\ Pow[b[2]] \in Nat
           /\ Pow[b[2]] > 0
           /\ b[1] + Pow[b[2]] <= NumPages
           /\ Span(b) \subseteq Page /\ b[1] \in Span(b)
  <1>1. b = <<b[1], b[2]>> /\ b[1] \in Page /\ b[2] \in Orders /\ Aligned(b[1], b[2])
    BY DEF Block
  <1>2. Pow[b[2]] \in Nat /\ Pow[b[2]] > 0
    BY <1>1, PowPositive
  <1>3. b[1] + Pow[b[2]] <= NumPages
    BY <1>1, BlockInPool
  <1> QED  BY <1>1, <1>2, <1>3, PoolAssumption, OrderAssumption
           DEF Page, Orders, Span

\* A set of natural numbers has a least element.
LEMMA LeastNat ==
    ASSUME NEW T, T \subseteq Nat, T # {}
    PROVE  \E x \in T : \A y \in T : x <= y
  <1>1. PICK x \in T : \A y \in T : ~ (<<y, x>> \in OpToRel(<, Nat))
    BY WFMin, NatLessThanWellFounded, Zenon
  <1>2. \A y \in T : y \in Nat /\ x \in Nat
    OBVIOUS
  <1>3. \A y \in T : ~ (y < x)
    BY <1>1, <1>2, Zenon DEF OpToRel
  <1> QED  BY <1>2, <1>3

-----------------------------------------------------------------------------
(* Addresses                                                               *)

\* The cache of any size has chunks, and they fit between header and end.
LEMMA ChunksFit ==
    ASSUME NEW c \in Caches
    PROVE  /\ ObjSize(c) \in Nat /\ ObjSize(c) > 0 /\ NumObjs(c) \in Nat
           /\ NumObjs(c) > 0
           /\ HeaderSize + NumObjs(c) * ObjSize(c) <= PageSize
           /\ HeaderSize \in Nat /\ HeaderSize > 0 /\ PageSize \in Nat /\ PageSize > 0
  <1> DEFINE O == ObjSize(c)
             U == PageSize - HeaderSize
  <1>1. /\ O \in Nat /\ O > 0 /\ O <= SlabMax /\ PageSize \in Nat /\ SlabMax \in Nat
        /\ HeaderSize \in 1 .. PageSize - SlabMax
    BY SizeAssumption, SlabAssumption
  <1>2. U \in Nat /\ U >= O
    BY <1>1
  <1> HIDE DEF O, U
  <1>3. U \div O \in Int /\ U \div O > 0 /\ (U \div O) * O <= U
    BY <1>1, <1>2
  <1>4. NumObjs(c) = U \div O /\ O = ObjSize(c) /\ U = PageSize - HeaderSize
    BY DEF NumObjs, O, U
  <1> QED  BY <1>1, <1>3, <1>4

\* The page of an address, and the place in it.
LEMMA PageOf ==
    ASSUME NEW p \in Nat, NEW x \in Nat, x < PageSize
    PROVE  /\ (p * PageSize + x) \div PageSize = p
           /\ (p * PageSize + x) % PageSize = x
  BY SizeAssumption

\* A chunk lies in its page, behind the header.
LEMMA ChunkInPage ==
    ASSUME NEW c \in Caches, NEW p \in Nat, NEW i \in 1 .. NumObjs(c)
    PROVE  /\ Chunk(c, p, i) \in Nat
           /\ Chunk(c, p, i) \div PageSize = p
           /\ Chunk(c, p, i) % PageSize # 0
           /\ p * PageSize <= Chunk(c, p, i)
           /\ Chunk(c, p, i) + ObjSize(c) <= (p + 1) * PageSize
  <1>1. (i - 1) * ObjSize(c) \in Nat
    BY ChunksFit
  <1>2. i * ObjSize(c) <= NumObjs(c) * ObjSize(c)
    BY ChunksFit, TimesMonotonic
  <1>3. i * ObjSize(c) = (i - 1) * ObjSize(c) + ObjSize(c)
    BY ChunksFit
  <1> DEFINE x == HeaderSize + (i - 1) * ObjSize(c)
  <1>4. x \in Nat /\ x > 0 /\ x + ObjSize(c) <= PageSize /\ x < PageSize
    <2> DEFINE y == (i - 1) * ObjSize(c)  z == NumObjs(c) * ObjSize(c)
    <2>1. y \in Nat /\ y + ObjSize(c) <= z /\ HeaderSize + z <= PageSize /\ z \in Nat
      BY <1>1, <1>2, <1>3, ChunksFit
    <2> HIDE DEF y, z
    <2>2. x = HeaderSize + y
      BY DEF x, y
    <2> QED  BY <2>1, <2>2, ChunksFit
  <1> HIDE DEF x
  <1>5. Chunk(c, p, i) = p * PageSize + x
    <2> DEFINE y == (i - 1) * ObjSize(c)  z == p * PageSize
    <2>1. y \in Nat /\ z \in Nat
      BY <1>1, ChunksFit
    <2>2. x = HeaderSize + y /\ Chunk(c, p, i) = z + HeaderSize + y
      BY DEF x, Chunk
    <2> HIDE DEF y, z
    <2>3. Chunk(c, p, i) = z + x
      BY <2>1, <2>2, ChunksFit
    <2> QED  BY <2>3 DEF z
  <1>6. p * PageSize \in Nat /\ (p + 1) * PageSize = p * PageSize + PageSize
    BY ChunksFit
  <1>7. Chunk(c, p, i) \div PageSize = p /\ Chunk(c, p, i) % PageSize = x
    BY <1>4, <1>5, PageOf
  <1> DEFINE z == p * PageSize  w == (p + 1) * PageSize
  <1>8. z \in Nat /\ w = z + PageSize /\ Chunk(c, p, i) = z + x
    BY <1>5, <1>6
  <1> HIDE DEF z, w
  <1>9. z <= Chunk(c, p, i) /\ Chunk(c, p, i) + ObjSize(c) <= w /\ Chunk(c, p, i) \in Nat
    BY <1>4, <1>8, ChunksFit
  <1> QED  BY <1>4, <1>7, <1>9 DEF z, w

\* Chunks of one slab do not overlap.
LEMMA ChunksApart ==
    ASSUME NEW c \in Caches, NEW p \in Nat, NEW i \in 1 .. NumObjs(c),
           NEW j \in 1 .. NumObjs(c), i < j
    PROVE  Chunk(c, p, i) + ObjSize(c) <= Chunk(c, p, j)
  <1>1. i * ObjSize(c) <= (j - 1) * ObjSize(c)
    BY ChunksFit, TimesMonotonic
  <1>2. i * ObjSize(c) = (i - 1) * ObjSize(c) + ObjSize(c)
    BY ChunksFit
  <1> DEFINE y == (i - 1) * ObjSize(c)  w == (j - 1) * ObjSize(c)  z == p * PageSize
  <1>3. y \in Int /\ w \in Int /\ z \in Int /\ y + ObjSize(c) <= w
    BY <1>1, <1>2, ChunksFit
  <1>4. Chunk(c, p, i) = z + HeaderSize + y /\ Chunk(c, p, j) = z + HeaderSize + w
    BY DEF Chunk
  <1> HIDE DEF y, w, z
  <1> QED  BY <1>3, <1>4, ChunksFit
\* The argument of allocate is what the caller meant.
LEMMA IntKeepsSizes ==
    ASSUME NEW n \in Sizes
    PROVE  n \in Nat /\ ToInt(n) = n
  <1> DEFINE h == 2 ^ (IntBits - 1)  w == 2 ^ IntBits
  <1>1. h \in Nat /\ w = 2 * h /\ n \in Nat /\ n < h
    BY SizeAssumption
  <1>2. ToInt(n) = ((n + h) % w) - h
    BY DEF ToInt
  <1> HIDE DEF h, w
  <1>3. (n + h) % w = n + h
    BY <1>1
  <1> QED  BY <1>1, <1>2, <1>3

\* The block that buddy_malloc looks for holds what was asked for.
LEMMA OrderHolds ==
    ASSUME NEW n \in Nat, IsPages(n)
    PROVE  OrderFor(n) \in Orders /\ n <= Pow[OrderFor(n)] * PageSize
  <1> DEFINE m == (n + PageSize - 1) \div PageSize
  <1>1. PageSize \in Nat /\ PageSize > 0
    <2>1. 0 \in Nat /\ SlabMax \in Nat /\ HeaderSize \in 1 .. PageSize - SlabMax /\ PageSize \in Nat
      BY SizeAssumption, SlabAssumption
    <2> QED  BY <2>1
  <1>2. m \in Int /\ n <= m * PageSize
    BY <1>1
  <1>3. MaxOrder \in Orders /\ Pow[MaxOrder] \in Nat
    BY OrderAssumption, PowPositive DEF Orders
  <1>4. m <= Pow[MaxOrder]
    <2> DEFINE q == Pow[MaxOrder]
    <2>1. n < q * PageSize /\ q \in Nat
      BY <1>3 DEF IsPages
    <2> HIDE DEF q
    <2>2. n + PageSize - 1 < q * PageSize + PageSize
      BY <2>1, <1>1
    <2>3. ~ (m > q)
      <3> SUFFICES ASSUME m >= q + 1 PROVE FALSE
        BY <1>2, <2>1
      <3>1. (q + 1) * PageSize <= m * PageSize
        BY <1>1, <1>2, <2>1, TimesMonotonic
      <3>2. m * PageSize <= n + PageSize - 1
        BY <1>1
      <3>3. (q + 1) * PageSize = q * PageSize + PageSize
        BY <1>1, <2>1
      <3> DEFINE a == q * PageSize  b == m * PageSize  d == (q + 1) * PageSize
      <3>4. a \in Int /\ b \in Int /\ d \in Int /\ d <= b /\ b <= n + PageSize - 1
            /\ d = a + PageSize /\ n < a
        BY <1>1, <1>2, <2>1, <3>1, <3>2, <3>3
      <3> HIDE DEF a, b, d
      <3> QED  BY <3>4, <1>1
    <2> QED  BY <2>1, <2>3, <1>2 DEF q
  <1> HIDE DEF m
  <1> DEFINE T == {k \in Orders : Pow[k] >= m}
  <1>5. T \subseteq Nat /\ MaxOrder \in T
    BY <1>3, <1>4 DEF Orders
  <1>6. PICK k \in T : \A j \in T : k <= j
    BY <1>5, LeastNat
  <1>7. Pow[k] >= m /\ \A j \in 0 .. k - 1 : Pow[j] < m
    <2>1. \A j \in 0 .. k - 1 : j \in Orders /\ ~ (k <= j)
      BY <1>6, OrderAssumption DEF Orders
    <2> QED  BY <1>2, <1>6, <2>1, PowPositive
  <1>8. OrderFor(n) = CHOOSE o \in Orders : Pow[o] >= m /\ \A j \in 0 .. o - 1 : Pow[j] < m
    BY DEF OrderFor, m
  <1>9. OrderFor(n) \in Orders /\ Pow[OrderFor(n)] >= m
    BY <1>6, <1>7, <1>8
  <1> DEFINE q == Pow[OrderFor(n)]
  <1>10. q \in Nat /\ m <= q
    BY <1>2, <1>9, PowPositive
  <1> HIDE DEF q
  <1>11. m * PageSize <= q * PageSize /\ m * PageSize \in Int /\ q * PageSize \in Int
    BY <1>1, <1>2, <1>10, TimesMonotonic
  <1>12. n <= q * PageSize
    BY <1>2, <1>11
  <1> QED  BY <1>9, <1>12 DEF q

\* Of two blocks that are apart, one ends before the other begins.
LEMMA BlocksInOrder ==
    ASSUME NEW b \in Block, NEW d \in Block, Apart(b, d)
    PROVE  \/ (b[1] + Pow[b[2]]) * PageSize <= d[1] * PageSize
           \/ (d[1] + Pow[d[2]]) * PageSize <= b[1] * PageSize
  <1>1. /\ b[1] \in Int /\ Pow[b[2]] \in Nat /\ Pow[b[2]] > 0
        /\ d[1] \in Int /\ Pow[d[2]] \in Nat /\ Pow[d[2]] > 0
    BY BlockFields
  <1>2. b[1] + Pow[b[2]] <= d[1] \/ d[1] + Pow[d[2]] <= b[1]
    <2>1. ~ (d[1] \in Span(b) /\ d[1] \in Span(d)) /\ ~ (b[1] \in Span(b) /\ b[1] \in Span(d))
      BY DEF Apart
    <2> QED  BY <1>1, <2>1 DEF Span
  <1>3. PageSize \in Nat
    BY SizeAssumption
  <1> QED  BY <1>1, <1>2, <1>3, TimesMonotonic

-----------------------------------------------------------------------------
(* Sequences                                                               *)

\* The rest of a list of different entries.
LEMMA TailOf ==
    ASSUME NEW T, NEW s \in Seq(T), s # <<>>, IsInjective(s)
    PROVE  /\ Head(s) \in T /\ Head(s) \in ToSet(s)
           /\ Tail(s) \in Seq(T) /\ IsInjective(Tail(s)) /\ Len(Tail(s)) = Len(s) - 1
           /\ ToSet(Tail(s)) = ToSet(s) \ {Head(s)}
  <1>1. /\ Head(s) \in T /\ Tail(s) \in Seq(T) /\ Len(Tail(s)) = Len(s) - 1
        /\ \A i \in 1 .. Len(Tail(s)) : Tail(s)[i] = s[i + 1]
    BY HeadTailProperties
  <1>2. DOMAIN s = 1 .. Len(s) /\ Len(s) \in Nat /\ DOMAIN Tail(s) = 1 .. Len(s) - 1
    BY <1>1, LenProperties
  <1>3. Len(s) > 0 /\ Head(s) = s[1]
    BY EmptySeq
  <1>4. IsInjective(Tail(s))
    BY <1>1, <1>2 DEF IsInjective
  <1>5. ToSet(Tail(s)) = {s[i] : i \in 2 .. Len(s)}
    <2>1. \A i \in 2 .. Len(s) : i - 1 \in DOMAIN Tail(s) /\ Tail(s)[i - 1] = s[i]
      BY <1>1, <1>2
    <2>2. \A i \in DOMAIN Tail(s) : i + 1 \in 2 .. Len(s) /\ Tail(s)[i] = s[i + 1]
      BY <1>1, <1>2
    <2> DEFINE u == Tail(s)
    <2>3. u = Tail(s)
      OBVIOUS
    <2> HIDE DEF u
    <2>4. ToSet(u) \subseteq {s[i] : i \in 2 .. Len(s)}
      BY <2>2, <2>3 DEF ToSet
    <2>5. {s[i] : i \in 2 .. Len(s)} \subseteq ToSet(u)
      BY <2>1, <2>3 DEF ToSet
    <2> QED  BY <2>3, <2>4, <2>5
  <1>6. \A i \in 2 .. Len(s) : s[i] # s[1]
    BY <1>2, <1>3 DEF IsInjective
  <1>7. ToSet(s) = {s[i] : i \in 2 .. Len(s)} \cup {s[1]}
    <2>1. \A i \in 1 .. Len(s) : i = 1 \/ i \in 2 .. Len(s)
      BY <1>2
    <2>2. \A i \in 2 .. Len(s) : i \in 1 .. Len(s)
      BY <1>2
    <2>3. 1 \in 1 .. Len(s)
      BY <1>2, <1>3
    <2> QED  BY <1>2, <2>1, <2>2, <2>3 DEF ToSet
  <1> QED  BY <1>1, <1>3, <1>4, <1>5, <1>6, <1>7

\* A new first entry.
LEMMA Pushed ==
    ASSUME NEW T, NEW s \in Seq(T), NEW x \in T, x \notin ToSet(s), IsInjective(s)
    PROVE  /\ <<x>> \o s \in Seq(T) /\ IsInjective(<<x>> \o s)
           /\ Len(<<x>> \o s) = Len(s) + 1 /\ ToSet(<<x>> \o s) = ToSet(s) \cup {x}
  <1> DEFINE u == <<x>> \o s
  <1>1. <<x>> \in Seq(T) /\ Len(<<x>>) = 1 /\ <<x>>[1] = x
    OBVIOUS
  <1>2. /\ u \in Seq(T) /\ Len(u) = 1 + Len(s)
        /\ \A i \in 1 .. 1 + Len(s) : u[i] = IF i <= 1 THEN <<x>>[i] ELSE s[i - 1]
    BY <1>1, ConcatProperties
  <1>3. DOMAIN s = 1 .. Len(s) /\ Len(s) \in Nat /\ DOMAIN u = 1 .. Len(s) + 1
    BY <1>2, LenProperties
  <1> HIDE DEF u
  <1>4. u[1] = x /\ \A i \in 2 .. Len(s) + 1 : u[i] = s[i - 1] /\ i - 1 \in DOMAIN s
    BY <1>1, <1>2, <1>3
  <1>5. \A i \in DOMAIN s : u[i + 1] = s[i] /\ i + 1 \in DOMAIN u /\ s[i] # x
    BY <1>3, <1>4 DEF ToSet
  <1>6. \A i \in DOMAIN u : i = 1 \/ i \in 2 .. Len(s) + 1
    BY <1>3
  <1>7. 1 \in DOMAIN u
    BY <1>3
  <1>8. ToSet(u) = ToSet(s) \cup {x}
    BY <1>4, <1>5, <1>6, <1>7 DEF ToSet
  <1>9. IsInjective(u)
    <2> SUFFICES ASSUME NEW i \in DOMAIN u, NEW j \in DOMAIN u, u[i] = u[j] PROVE i = j
      BY DEF IsInjective
    <2>1. CASE i = 1 \/ j = 1
      BY <2>1, <1>4, <1>5, <1>6
    <2>2. CASE i # 1 /\ j # 1
      <3>1. s[i - 1] = s[j - 1] /\ i - 1 \in DOMAIN s /\ j - 1 \in DOMAIN s
        BY <2>2, <1>4, <1>6
      <3>2. i - 1 = j - 1
        BY <3>1 DEF IsInjective
      <3> QED  BY <3>2, <1>3
    <2> QED  BY <2>1, <2>2
  <1> QED  BY <1>2, <1>8, <1>9 DEF u

\* list_del takes out the entry it is given and nothing else.
LEMMA Unlinked ==
    ASSUME NEW T, NEW s \in Seq(T), NEW x \in ToSet(s), IsInjective(s)
    PROVE  /\ Unlink(s, x) \in Seq(T) /\ IsInjective(Unlink(s, x))
           /\ ToSet(Unlink(s, x)) = ToSet(s) \ {x}
  <1> DEFINE k == CHOOSE i \in DOMAIN s : s[i] = x
             n == Len(s)
             u == Unlink(s, x)
  <1>1. DOMAIN s = 1 .. n /\ n \in Nat /\ \A i \in 1 .. n : s[i] \in T
    BY LenProperties
  <1>2. k \in 1 .. n /\ s[k] = x
    <2>1. \E i \in DOMAIN s : s[i] = x
      BY DEF ToSet
    <2> QED  BY <2>1, <1>1
  <1>3. u = SubSeq(s, 1, k - 1) \o SubSeq(s, k + 1, n)
    BY DEF Unlink, RemoveAt
  <1> HIDE DEF k, n, u
  <1> DEFINE a == SubSeq(s, 1, k - 1)  b == SubSeq(s, k + 1, n)
  <1>4. a \in Seq(T) /\ Len(a) = k - 1 /\ \A i \in 1 .. k - 1 : a[i] = s[i]
    <2>1. 1 \in Int /\ k - 1 \in Int /\ (\A i \in 1 .. k - 1 : s[i] \in T)
      BY <1>1, <1>2
    <2>2. /\ a \in Seq(T) /\ Len(a) = IF 1 <= k - 1 THEN (k - 1) - 1 + 1 ELSE 0
          /\ \A i \in 1 .. (k - 1) - 1 + 1 : a[i] = s[1 + i - 1]
      BY <2>1, SubSeqProperties
    <2> QED  BY <1>1, <1>2, <2>2
  <1>5. b \in Seq(T) /\ Len(b) = n - k /\ \A i \in 1 .. n - k : b[i] = s[k + i]
    <2>1. k + 1 \in Int /\ n \in Int /\ (\A i \in k + 1 .. n : s[i] \in T)
      BY <1>1, <1>2
    <2>2. /\ b \in Seq(T) /\ Len(b) = IF k + 1 <= n THEN n - (k + 1) + 1 ELSE 0
          /\ \A i \in 1 .. n - (k + 1) + 1 : b[i] = s[k + 1 + i - 1]
      BY <2>1, SubSeqProperties
    <2> QED  BY <1>1, <1>2, <2>2
  <1> HIDE DEF a, b
  <1>6. /\ u \in Seq(T) /\ Len(u) = n - 1
        /\ \A i \in 1 .. n - 1 : u[i] = IF i < k THEN s[i] ELSE s[i + 1]
    <2>1. u = a \o b
      BY <1>3 DEF a, b
    <2>2. /\ u \in Seq(T) /\ Len(u) = (k - 1) + (n - k)
          /\ \A i \in 1 .. (k - 1) + (n - k) : u[i] = IF i <= k - 1 THEN a[i] ELSE b[i - (k - 1)]
      BY <2>1, <1>4, <1>5, ConcatProperties
    <2>3. Len(u) = n - 1
      BY <2>2, <1>1, <1>2
    <2>4. ASSUME NEW i \in 1 .. n - 1, i < k PROVE u[i] = s[i]
      BY <2>2, <2>4, <1>1, <1>2, <1>4
    <2>5. ASSUME NEW i \in 1 .. n - 1, ~ (i < k) PROVE u[i] = s[i + 1]
      <3>1. i - (k - 1) \in 1 .. n - k /\ k + (i - (k - 1)) = i + 1
        BY <2>5, <1>1, <1>2
      <3>2. u[i] = b[i - (k - 1)]
        BY <2>2, <2>5, <1>1, <1>2
      <3> QED  BY <3>1, <3>2, <1>5
    <2> QED  BY <2>2, <2>3, <2>4, <2>5
  <1>7. DOMAIN u = 1 .. n - 1
    BY <1>6, LenProperties
  <1> DEFINE at(i) == IF i < k THEN i ELSE i + 1
  <1>8. \A i \in DOMAIN u : u[i] = s[at(i)] /\ at(i) \in DOMAIN s /\ at(i) # k
    BY <1>1, <1>2, <1>6, <1>7
  <1>9. IsInjective(u)
    <2> SUFFICES ASSUME NEW i \in DOMAIN u, NEW j \in DOMAIN u, u[i] = u[j] PROVE i = j
      BY DEF IsInjective
    <2>1. at(i) = at(j)
      BY <1>8 DEF IsInjective
    <2> QED  BY <2>1, <1>1, <1>2, <1>7
  <1>10. ToSet(u) \subseteq ToSet(s) \ {x}
    <2> SUFFICES ASSUME NEW i \in DOMAIN u PROVE u[i] \in ToSet(s) /\ u[i] # x
      BY DEF ToSet
    <2>1. u[i] = s[at(i)] /\ at(i) \in DOMAIN s /\ at(i) # k
      BY <1>8
    <2>2. k \in DOMAIN s /\ s[k] = x
      BY <1>1, <1>2
    <2> HIDE DEF at
    <2> QED  BY <2>1, <2>2 DEF ToSet, IsInjective
  <1>11. ToSet(s) \ {x} \subseteq ToSet(u)
    <2> SUFFICES ASSUME NEW j \in DOMAIN s, s[j] # x PROVE s[j] \in ToSet(u)
      BY DEF ToSet
    <2>1. j # k
      BY <1>2
    <2>2. CASE j < k
      <3>1. j \in DOMAIN u /\ u[j] = s[j]
        BY <2>2, <1>1, <1>2, <1>6, <1>7
      <3> QED  BY <3>1 DEF ToSet
    <2>3. CASE j > k
      <3>1. j - 1 \in DOMAIN u /\ u[j - 1] = s[j]
        BY <2>3, <1>1, <1>2, <1>6, <1>7
      <3> QED  BY <3>1 DEF ToSet
    <2> QED  BY <2>1, <2>2, <2>3, <1>1, <1>2
  <1> QED  BY <1>6, <1>9, <1>10, <1>11 DEF u
-----------------------------------------------------------------------------
(* A heap: blocks B, slabs S, partial lists P, full lists F, pointers H.   *)

Slab == [cache : Caches, free_list : Seq(Nat), free_count : Nat]
Given == [addr : Nat, size : Nat]

Typed(B, S, P, F, H) ==
    /\ B \subseteq Block
    /\ DOMAIN S \subseteq Page /\ \A p \in DOMAIN S : S[p] \in Slab
    /\ P \in [Caches -> Seq(Page)] /\ F \in [Caches -> Seq(Page)]
    /\ H \in [Pointers -> Given \cup {NULL}]

\* What slab_create may write over: the blocks handed out, and page 0.
Pages(B) == B \cup {<<0, 0>>}

HasPages(B, S, r) ==
    \E b \in B : /\ b[1] \notin DOMAIN S /\ r.addr = b[1] * PageSize
                 /\ r.size <= Pow[b[2]] * PageSize

HasChunk(S, r) ==
    \E p \in DOMAIN S : \E i \in 1 .. NumObjs(S[p].cache) :
        r.addr = Chunk(S[p].cache, p, i) /\ r.size <= ObjSize(S[p].cache)

\* Every slab and every allocation has its own part of the memory.
Placed(B, S, H) ==
    /\ <<0, 0>> \notin B
    /\ \A b, d \in Pages(B) : b # d => Apart(b, d)
    /\ \A p \in DOMAIN S : <<p, 0>> \in Pages(B)
    /\ \A v \in Pointers : H[v] # NULL => HasPages(B, S, H[v]) \/ HasChunk(S, H[v])
    /\ \A v, w \in Pointers :
          v # w /\ H[v] # NULL /\ H[w] # NULL => H[v].addr # H[w].addr

\* A slab is on one list of its cache, which tells whether it has a chunk.
Lists(S, P, F) ==
    \A c \in Caches :
        /\ IsInjective(P[c]) /\ IsInjective(F[c])
        /\ \A p \in ToSet(P[c]) : p \in DOMAIN S /\ S[p].cache = c /\ S[p].free_count > 0
        /\ \A p \in ToSet(F[c]) : p \in DOMAIN S /\ S[p].cache = c /\ S[p].free_count = 0
        /\ \A p \in DOMAIN S : S[p].cache = c => p \in ToSet(P[c]) \cup ToSet(F[c])

Out(H, p) == {v \in Pointers : H[v] # NULL /\ H[v].addr \div PageSize = p}
OutAddr(H, p) == {H[v].addr : v \in Out(H, p)}
Chunks(c, p) == {Chunk(c, p, i) : i \in 1 .. NumObjs(c)}

\* Each chunk of a slab is on its free list or with one pointer.
Accounted(s, H, p) ==
    /\ s.free_count = Len(s.free_list)
    /\ IsInjective(s.free_list)
    /\ ToSet(s.free_list) \cap OutAddr(H, p) = {}
    /\ ToSet(s.free_list) \cup OutAddr(H, p) = Chunks(s.cache, p)
    /\ IsFiniteSet(Out(H, p))
    /\ s.free_count + Cardinality(Out(H, p)) = NumObjs(s.cache)

Sound(B, S, P, F, H) ==
    /\ Typed(B, S, P, F, H) /\ Placed(B, S, H) /\ Lists(S, P, F)
    /\ \A p \in DOMAIN S : Accounted(S[p], H, p)

IInv == Sound(blocks, slabs, partial, full, held)

-----------------------------------------------------------------------------
(* What is so in any sound heap                                            *)

\* The pages of slabs and blocks are blocks of the pool.
LEMMA PagesAreBlocks ==
    ASSUME NEW B, B \subseteq Block
    PROVE  Pages(B) \subseteq Block /\ \A p \in Page : <<p, 0>> \in Block
  <1>1. 0 \in Page /\ 0 \in Orders /\ Page \subseteq Nat
    BY PoolAssumption, OrderAssumption DEF Page, Orders
  <1>2. \A p \in Page : Aligned(p, 0)
    <2>1. Pow[0] = 1
      BY PowAssumption
    <2>2. \A p \in Page : p \in 0 .. p /\ p = p * 1
      BY <1>1
    <2> QED  BY <2>1, <2>2 DEF Aligned
  <1>3. \A p \in Page : <<p, 0>> \in Block
    BY <1>1, <1>2 DEF Block
  <1> QED  BY <1>1, <1>3 DEF Pages

\* The page of a block's address is the block's first.
LEMMA BlockAddress ==
    ASSUME NEW b \in Block
    PROVE  /\ b[1] * PageSize \in Nat
           /\ (b[1] * PageSize) \div PageSize = b[1] /\ (b[1] * PageSize) % PageSize = 0
  <1>1. b[1] \in Nat /\ PageSize \in Nat /\ PageSize > 0
    <2>1. HeaderSize \in 1 .. PageSize - SlabMax /\ PageSize \in Nat /\ SlabMax \in Nat
      BY SizeAssumption, SlabAssumption
    <2> QED  BY <2>1, BlockFields
  <1>2. /\ (b[1] * PageSize + 0) \div PageSize = b[1]
        /\ (b[1] * PageSize + 0) % PageSize = 0
    BY <1>1, PageOf
  <1>3. b[1] * PageSize + 0 = b[1] * PageSize /\ b[1] * PageSize \in Nat
    BY <1>1
  <1> QED  BY <1>2, <1>3

\* What a pointer has tells its page.
LEMMA PageTells ==
    ASSUME NEW B, NEW S, NEW P, NEW F, NEW H, Typed(B, S, P, F, H), Placed(B, S, H),
           NEW v \in Pointers, H[v] # NULL,
           NEW p, p = H[v].addr \div PageSize
    PROVE  \/ /\ H[v].addr % PageSize = 0 /\ p \notin DOMAIN S
              /\ \E b \in B : b[1] = p /\ H[v].addr = b[1] * PageSize
                              /\ H[v].size <= Pow[b[2]] * PageSize
           \/ /\ H[v].addr % PageSize # 0 /\ p \in DOMAIN S
              /\ \E i \in 1 .. NumObjs(S[p].cache) :
                    H[v].addr = Chunk(S[p].cache, p, i) /\ H[v].size <= ObjSize(S[p].cache)
  <1>1. CASE HasPages(B, S, H[v])
    <2>1. PICK b \in B : /\ b[1] \notin DOMAIN S /\ H[v].addr = b[1] * PageSize
                         /\ H[v].size <= Pow[b[2]] * PageSize
      BY <1>1 DEF HasPages
    <2>2. b \in Block
      BY DEF Typed
    <2>3. H[v].addr \div PageSize = b[1] /\ H[v].addr % PageSize = 0
      BY <2>1, <2>2, BlockAddress
    <2> QED  BY <2>1, <2>3
  <1>2. CASE HasChunk(S, H[v])
    <2>0. PICK q \in DOMAIN S : \E i \in 1 .. NumObjs(S[q].cache) :
             H[v].addr = Chunk(S[q].cache, q, i) /\ H[v].size <= ObjSize(S[q].cache)
      BY <1>2 DEF HasChunk
    <2>1. PICK i \in 1 .. NumObjs(S[q].cache) :
             H[v].addr = Chunk(S[q].cache, q, i) /\ H[v].size <= ObjSize(S[q].cache)
      BY <2>0
    <2>2. q \in Nat /\ S[q].cache \in Caches
      BY DEF Typed, Slab, Page
    <2>3. H[v].addr \div PageSize = q /\ H[v].addr % PageSize # 0
      BY <2>1, <2>2, ChunkInPage
    <2> QED  BY <2>1, <2>3
  <1> QED  BY <1>1, <1>2 DEF Placed

\* No two allocations share a byte.
LEMMA Separate ==
    ASSUME NEW B, NEW S, NEW P, NEW F, NEW H, Typed(B, S, P, F, H), Placed(B, S, H),
           NEW v \in Pointers, NEW w \in Pointers, v # w, H[v] # NULL, H[w] # NULL
    PROVE  HeapOf!Disjoint(H[v], H[w])
  <1> DEFINE r == H[v]  s == H[w]
  <1>1. r \in Given /\ s \in Given /\ r.addr # s.addr
    BY DEF Typed, Placed
  <1> SUFFICES r.addr + r.size <= s.addr \/ s.addr + s.size <= r.addr
    <2>1. r.addr \in Nat /\ r.size \in Nat /\ s.addr \in Nat /\ s.size \in Nat
      BY <1>1 DEF Given
    <2> HIDE DEF r, s
    <2>2. HeapOf!Disjoint(r, s)
      BY <2>1 DEF HeapOf!Disjoint, HeapOf!Bytes
    <2> QED  BY <2>2 DEF r, s
  <1>2. ASSUME NEW x \in Pointers, H[x] # NULL
        PROVE  \E b \in Pages(B) :
                  /\ b[1] * PageSize <= H[x].addr
                  /\ H[x].addr + H[x].size <= (b[1] + Pow[b[2]]) * PageSize
                  /\ \/ H[x].addr = b[1] * PageSize /\ b[1] \notin DOMAIN S
                     \/ /\ b[1] \in DOMAIN S
                        /\ \E i \in 1 .. NumObjs(S[b[1]].cache) :
                              /\ H[x].addr = Chunk(S[b[1]].cache, b[1], i)
                              /\ H[x].size <= ObjSize(S[b[1]].cache)
    <2> DEFINE a == H[x].addr  z == H[x].size  p == a \div PageSize
    <2>1. a \in Nat /\ z \in Nat /\ PageSize \in Nat
      BY <1>2, SizeAssumption DEF Typed, Given
    <2>2. CASE /\ p \notin DOMAIN S
               /\ \E b \in B : b[1] = p /\ a = b[1] * PageSize /\ z <= Pow[b[2]] * PageSize
      <3>1. PICK b \in B : b[1] = p /\ a = b[1] * PageSize /\ z <= Pow[b[2]] * PageSize
        BY <2>2
      <3>2. b[1] \in Nat /\ Pow[b[2]] \in Nat
        BY BlockFields DEF Typed
      <3>3. (b[1] + Pow[b[2]]) * PageSize = b[1] * PageSize + Pow[b[2]] * PageSize
        BY <2>1, <3>2
      <3> DEFINE j == b[1] * PageSize  k == Pow[b[2]] * PageSize  m == (b[1] + Pow[b[2]]) * PageSize
      <3>4. j \in Int /\ k \in Int /\ m = j + k /\ a = j /\ z <= k
        BY <3>1, <3>2, <3>3, <2>1
      <3> HIDE DEF j, k, m
      <3>5. j <= a /\ a + z <= m
        BY <3>4, <2>1
      <3> QED  BY <2>2, <3>1, <3>5 DEF Pages, j, m
    <2>3. CASE /\ p \in DOMAIN S
               /\ \E i \in 1 .. NumObjs(S[p].cache) :
                     a = Chunk(S[p].cache, p, i) /\ z <= ObjSize(S[p].cache)
      <3> DEFINE b == <<p, 0>>
      <3>1. PICK i \in 1 .. NumObjs(S[p].cache) :
               a = Chunk(S[p].cache, p, i) /\ z <= ObjSize(S[p].cache)
        BY <2>3
      <3>2. p \in Nat /\ S[p].cache \in Caches /\ b \in Pages(B)
        BY <2>3 DEF Typed, Slab, Page, Placed
      <3>3. /\ p * PageSize <= a /\ a + ObjSize(S[p].cache) <= (p + 1) * PageSize
        BY <3>1, <3>2, ChunkInPage
      <3>4. ObjSize(S[p].cache) \in Nat /\ (p + 1) * PageSize \in Int
        BY <3>2, <2>1, ChunksFit
      <3>5. a + z <= (p + 1) * PageSize
        <4> DEFINE k == (p + 1) * PageSize
        <4>1. k \in Int /\ a + ObjSize(S[p].cache) <= k
          BY <3>3, <3>4
        <4> HIDE DEF k, a, z
        <4>2. a + z <= k
          BY <4>1, <2>1, <3>1, <3>4
        <4> QED  BY <4>2 DEF k
      <3>6. b[1] = p /\ Pow[b[2]] = 1
        BY PowAssumption
      <3> QED  BY <2>3, <3>1, <3>2, <3>3, <3>5, <3>6
    <2> QED  BY <1>2, <2>2, <2>3, PageTells
  <1>3. PICK b \in Pages(B) :
           /\ b[1] * PageSize <= r.addr
           /\ r.addr + r.size <= (b[1] + Pow[b[2]]) * PageSize
           /\ \/ r.addr = b[1] * PageSize /\ b[1] \notin DOMAIN S
              \/ /\ b[1] \in DOMAIN S
                 /\ \E i \in 1 .. NumObjs(S[b[1]].cache) :
                       r.addr = Chunk(S[b[1]].cache, b[1], i) /\ r.size <= ObjSize(S[b[1]].cache)
    BY <1>2
  <1>4. PICK d \in Pages(B) :
           /\ d[1] * PageSize <= s.addr
           /\ s.addr + s.size <= (d[1] + Pow[d[2]]) * PageSize
           /\ \/ s.addr = d[1] * PageSize /\ d[1] \notin DOMAIN S
              \/ /\ d[1] \in DOMAIN S
                 /\ \E i \in 1 .. NumObjs(S[d[1]].cache) :
                       s.addr = Chunk(S[d[1]].cache, d[1], i) /\ s.size <= ObjSize(S[d[1]].cache)
    BY <1>2
  <1>5. /\ b \in Block /\ d \in Block /\ r.addr \in Nat /\ r.size \in Nat
        /\ s.addr \in Nat /\ s.size \in Nat
    BY <1>1, PagesAreBlocks DEF Typed, Given
  <1>6. CASE b # d
    <2> DEFINE bs == b[1] * PageSize  be == (b[1] + Pow[b[2]]) * PageSize
               ds == d[1] * PageSize  de == (d[1] + Pow[d[2]]) * PageSize
    <2>1. be <= ds \/ de <= bs
      BY <1>5, <1>6, BlocksInOrder DEF Placed
    <2>2. bs \in Int /\ be \in Int /\ ds \in Int /\ de \in Int
      <3>1. /\ b[1] \in Int /\ d[1] \in Int /\ Pow[b[2]] \in Nat /\ Pow[d[2]] \in Nat
            /\ PageSize \in Nat
        BY <1>5, BlockFields, SizeAssumption
      <3> QED  BY <3>1
    <2>3. bs <= r.addr /\ r.addr + r.size <= be /\ ds <= s.addr /\ s.addr + s.size <= de
      BY <1>3, <1>4
    <2> HIDE DEF bs, be, ds, de, r, s
    <2> QED  BY <2>1, <2>2, <2>3, <1>5
  <1>7. CASE b = d
    <2> DEFINE c == S[b[1]].cache
    <2>1. b[1] \in DOMAIN S
      BY <1>1, <1>3, <1>4, <1>7
    <2>2. PICK i \in 1 .. NumObjs(c) : r.addr = Chunk(c, b[1], i) /\ r.size <= ObjSize(c)
      BY <1>3, <2>1
    <2>3. PICK j \in 1 .. NumObjs(c) : s.addr = Chunk(c, b[1], j) /\ s.size <= ObjSize(c)
      BY <1>4, <1>7, <2>1
    <2>4. c \in Caches /\ b[1] \in Nat /\ ObjSize(c) \in Nat /\ NumObjs(c) \in Nat
      BY <2>1, ChunksFit DEF Typed, Slab, Page
    <2>5. i < j \/ j < i
      BY <1>1, <2>2, <2>3, <2>4
    <2>6. \/ r.addr + ObjSize(c) <= s.addr
          \/ s.addr + ObjSize(c) <= r.addr
      BY <2>2, <2>3, <2>4, <2>5, ChunksApart
    <2> HIDE DEF c, r, s
    <2> QED  BY <1>5, <2>2, <2>3, <2>4, <2>6
  <1> QED  BY <1>6, <1>7
-----------------------------------------------------------------------------
(* What the operations do to a sound heap                                  *)

\* Outside its own page an allocation is not seen.
LEMMA OutElsewhere ==
    ASSUME NEW H, NEW H2, NEW v \in Pointers, NEW p,
           \A w \in Pointers \ {v} : H2[w] = H[w],
           H[v] # NULL => H[v].addr \div PageSize # p,
           H2[v] # NULL => H2[v].addr \div PageSize # p
    PROVE  Out(H2, p) = Out(H, p) /\ OutAddr(H2, p) = OutAddr(H, p)
  <1>1. \A w \in Pointers : w \in Out(H2, p) <=> w \in Out(H, p)
    BY DEF Out
  <1>2. Out(H2, p) = Out(H, p) /\ v \notin Out(H, p)
    BY <1>1 DEF Out
  <1>3. \A w \in Out(H, p) : H2[w] = H[w]
    BY <1>2 DEF Out
  <1> QED  BY <1>2, <1>3 DEF OutAddr

\* A new allocation in page p.
LEMMA OutMore ==
    ASSUME NEW H, NEW H2, NEW v \in Pointers, NEW p,
           \A w \in Pointers \ {v} : H2[w] = H[w],
           H[v] = NULL, H2[v] # NULL, H2[v].addr \div PageSize = p
    PROVE  /\ OutAddr(H2, p) = OutAddr(H, p) \cup {H2[v].addr}
           /\ Out(H2, p) = Out(H, p) \cup {v} /\ v \notin Out(H, p)
  <1>1. Out(H2, p) = Out(H, p) \cup {v} /\ v \notin Out(H, p)
    BY DEF Out
  <1>2. \A w \in Out(H, p) : H2[w] = H[w]
    BY <1>1 DEF Out
  <1>3. OutAddr(H2, p) = OutAddr(H, p) \cup {H2[v].addr}
    BY <1>1, <1>2 DEF OutAddr
  <1> QED  BY <1>1, <1>3

\* A heap without its free blocks: what buddy_malloc gives joins it.
LEMMA NewPages ==
    ASSUME NEW B, NEW S, NEW H, Placed(B, S, H), B \subseteq Block,
           NEW b \in Block, b[1] # 0, \A d \in B : Apart(b, d)
    PROVE  /\ <<0, 0>> \notin B \cup {b}
           /\ \A c, d \in Pages(B \cup {b}) : c # d => Apart(c, d)
           /\ \A v \in Pointers : H[v] # NULL =>
                 HasPages(B \cup {b}, S, H[v]) \/ HasChunk(S, H[v])
           /\ b[1] \notin DOMAIN S
           /\ \A d \in B : d[1] # b[1]
  <1>1. /\ b[1] \in Int /\ b[1] > 0 /\ Pow[b[2]] \in Nat /\ Pow[b[2]] > 0
        /\ b[1] \in Span(b)
    BY BlockFields DEF Span
  <1>2. Apart(b, <<0, 0>>) /\ Apart(<<0, 0>>, b)
    <2>1. Span(<<0, 0>>) = 0 .. 0
      BY PowAssumption DEF Span
    <2> QED  BY <1>1, <2>1 DEF Apart, Span
  <1>3. \A d \in B : Apart(d, b)
    BY DEF Apart
  <1>4. \A d \in B : d[1] # b[1]
    <2> SUFFICES ASSUME NEW d \in B, d[1] = b[1] PROVE FALSE
      OBVIOUS
    <2>1. d \in Block /\ d[1] \in Span(d)
      <3>1. d \in Block
        OBVIOUS
      <3> QED  BY <3>1, BlockFields DEF Span
    <2> QED  BY <1>1, <2>1 DEF Apart
  <1>5. b[1] \notin DOMAIN S
    <2> SUFFICES ASSUME b[1] \in DOMAIN S PROVE FALSE
      OBVIOUS
    <2>1. <<b[1], 0>> \in B
      BY <1>1 DEF Placed, Pages
    <2> QED  BY <2>1, <1>4
  <1>6. \A v \in Pointers : HasPages(B, S, H[v]) => HasPages(B \cup {b}, S, H[v])
    BY DEF HasPages
  <1>7. \A c, d \in Pages(B \cup {b}) : c # d => Apart(c, d)
    <2>1. \A c, d \in Pages(B) : c # d => Apart(c, d)
      BY DEF Placed
    <2>2. \A d \in Pages(B) : Apart(b, d) /\ Apart(d, b)
      BY <1>2, <1>3 DEF Pages
    <2>3. Pages(B \cup {b}) = Pages(B) \cup {b}
      BY DEF Pages
    <2> QED  BY <2>1, <2>2, <2>3
  <1>8. <<0, 0>> \notin B \cup {b}
    BY <1>1 DEF Placed
  <1> QED  BY <1>4, <1>5, <1>6, <1>7, <1>8 DEF Placed

\* allocate of whole pages.
LEMMA PagesAllocated ==
    ASSUME NEW B, NEW S, NEW P, NEW F, NEW H, Sound(B, S, P, F, H),
           NEW b \in Block, b[1] # 0, \A d \in B : Apart(b, d),
           NEW v \in Pointers, H[v] = NULL, NEW n \in Nat, n <= Pow[b[2]] * PageSize,
           NEW H2, H2 = [H EXCEPT ![v] = [addr |-> b[1] * PageSize, size |-> n]]
    PROVE  Sound(B \cup {b}, S, P, F, H2)
  <1>1. /\ Typed(B, S, P, F, H) /\ Placed(B, S, H) /\ B \subseteq Block
        /\ H \in [Pointers -> Given \cup {NULL}]
    BY DEF Sound, Typed
  <1> DEFINE r == [addr |-> b[1] * PageSize, size |-> n]
  <1>2. /\ r \in Given /\ r.addr = b[1] * PageSize /\ r.size = n
        /\ r.addr \div PageSize = b[1]
    BY BlockAddress DEF Given
  <1>3. H2 = [H EXCEPT ![v] = r]
    OBVIOUS
  <1> HIDE DEF r
  <1>4. /\ H2 \in [Pointers -> Given \cup {NULL}] /\ H2[v] = r
        /\ \A w \in Pointers \ {v} : H2[w] = H[w]
    BY <1>1, <1>2, <1>3
  <1>5. /\ <<0, 0>> \notin B \cup {b}
        /\ \A c, d \in Pages(B \cup {b}) : c # d => Apart(c, d)
        /\ \A w \in Pointers : H[w] # NULL =>
              HasPages(B \cup {b}, S, H[w]) \/ HasChunk(S, H[w])
        /\ b[1] \notin DOMAIN S
        /\ \A d \in B : d[1] # b[1]
    BY <1>1, NewPages
  <1>6. Typed(B \cup {b}, S, P, F, H2)
    BY <1>1, <1>4 DEF Typed
  <1>7. \A w \in Pointers : H[w] # NULL => H[w].addr \div PageSize # b[1]
    <2> SUFFICES ASSUME NEW w \in Pointers, H[w] # NULL, H[w].addr \div PageSize = b[1]
                 PROVE  FALSE
      OBVIOUS
    <2> QED  BY <1>1, <1>5, PageTells
  <1>8. Placed(B \cup {b}, S, H2)
    <2>1. HasPages(B \cup {b}, S, r)
      BY <1>2, <1>5 DEF HasPages
    <2>2. \A w \in Pointers : H2[w] # NULL =>
             HasPages(B \cup {b}, S, H2[w]) \/ HasChunk(S, H2[w])
      BY <2>1, <1>4, <1>5
    <2>3. \A w \in Pointers \ {v} : H[w] # NULL => H[w].addr # r.addr
      BY <1>2, <1>7
    <2>4. \A w, x \in Pointers :
             w # x /\ H2[w] # NULL /\ H2[x] # NULL => H2[w].addr # H2[x].addr
      BY <2>3, <1>1, <1>4 DEF Placed
    <2>5. \A p \in DOMAIN S : <<p, 0>> \in Pages(B \cup {b})
      BY <1>1 DEF Placed, Pages
    <2> QED  BY <2>2, <2>4, <2>5, <1>5 DEF Placed
  <1>9. \A p \in DOMAIN S : Accounted(S[p], H2, p)
    <2> SUFFICES ASSUME NEW p \in DOMAIN S PROVE Accounted(S[p], H2, p)
      OBVIOUS
    <2>0. /\ \A w \in Pointers \ {v} : H2[w] = H[w]
          /\ H[v] # NULL => H[v].addr \div PageSize # p
          /\ H2[v] # NULL => H2[v].addr \div PageSize # p
      BY <1>2, <1>4, <1>5
    <2>1. Out(H2, p) = Out(H, p) /\ OutAddr(H2, p) = OutAddr(H, p)
      BY ONLY <2>0, OutElsewhere
    <2>2. Accounted(S[p], H, p)
      BY DEF Sound
    <2> QED  BY <2>1, <2>2 DEF Accounted
  <1>10. Lists(S, P, F)
    BY DEF Sound
  <1> QED  BY <1>6, <1>8, <1>9, <1>10 DEF Sound

\* What slab_create does for cache c, which has no slab with a chunk: a slab on
\* page p, and the blocks that are out are then C.
Creating(B, S, P, c, p, C, S2, P2) ==
    /\ P[c] = <<>> /\ p \notin DOMAIN S
    /\ \/ p = 0 /\ C = B
       \/ p # 0 /\ C = B \cup {<<p, 0>>} /\ \A d \in B : Apart(<<p, 0>>, d)
    /\ S2 = [q \in DOMAIN S \cup {p} |-> IF q = p THEN NewSlab(c, p) ELSE S[q]]
    /\ P2 = [P EXCEPT ![c] = <<p>>]

\* slab_create on a page of its own, or on page 0 when there is none.
LEMMA SlabCreated ==
    ASSUME NEW B, NEW S, NEW P, NEW F, NEW H, Sound(B, S, P, F, H),
           NEW c \in Caches, NEW p \in Page, NEW C, NEW S2, NEW P2,
           Creating(B, S, P, c, p, C, S2, P2)
    PROVE  Sound(C, S2, P2, F, H)
  <1> SUFFICES ASSUME P[c] = <<>>, p \notin DOMAIN S,
                      \/ p = 0 /\ C = B
                      \/ p # 0 /\ C = B \cup {<<p, 0>>} /\ \A d \in B : Apart(<<p, 0>>, d),
                      S2 = [q \in DOMAIN S \cup {p} |-> IF q = p THEN NewSlab(c, p) ELSE S[q]],
                      P2 = [P EXCEPT ![c] = <<p>>]
               PROVE  Sound(C, S2, P2, F, H)
    BY DEF Creating
  <1>1. /\ Typed(B, S, P, F, H) /\ Placed(B, S, H) /\ Lists(S, P, F) /\ B \subseteq Block
        /\ P \in [Caches -> Seq(Page)] /\ F \in [Caches -> Seq(Page)]
        /\ \A q \in DOMAIN S : Accounted(S[q], H, q) /\ S[q] \in Slab
    BY DEF Sound, Typed
  <1>2. <<p, 0>> \in Block /\ p \in Nat
    <2>1. <<p, 0>> \in Block
      BY <1>1, PagesAreBlocks
    <2>2. p \in Nat
      BY DEF Page
    <2> QED  BY <2>1, <2>2
  <1> DEFINE s == NewSlab(c, p)
  <1>3. /\ s \in Slab /\ s.cache = c /\ s.free_count = NumObjs(c) /\ s.free_count > 0
        /\ Len(s.free_list) = NumObjs(c) /\ IsInjective(s.free_list)
        /\ ToSet(s.free_list) = Chunks(c, p)
    <2> DEFINE n == NumObjs(c)  l == [i \in 1 .. n |-> Chunk(c, p, i)]
    <2>1. n \in Nat /\ n > 0
      BY ChunksFit
    <2>2. \A i \in 1 .. n : Chunk(c, p, i) \in Nat
      BY <1>2, ChunkInPage
    <2>3. l \in [1 .. n -> Nat] /\ DOMAIN l = 1 .. n /\ \A i \in 1 .. n : l[i] = Chunk(c, p, i)
      BY <2>2
    <2>4. s = [cache |-> c, free_list |-> l, free_count |-> n]
      BY DEF NewSlab
    <2> HIDE DEF l
    <2>5. l \in Seq(Nat) /\ Len(l) = n
      BY ONLY <2>1, <2>3
    <2>6. IsInjective(l)
      <3> SUFFICES ASSUME NEW i \in 1 .. n, NEW j \in 1 .. n, i < j PROVE l[i] # l[j]
        BY <2>1, <2>3 DEF IsInjective
      <3>1. Chunk(c, p, i) + ObjSize(c) <= Chunk(c, p, j)
        BY <1>2, ChunksApart
      <3>2. ObjSize(c) \in Nat /\ ObjSize(c) > 0
        BY ChunksFit
      <3> QED  BY <2>2, <2>3, <3>1, <3>2
    <2>7. ToSet(l) = Chunks(c, p)
      BY <2>3 DEF ToSet, Chunks
    <2> HIDE DEF n, s
    <2>8. n = NumObjs(c)
      BY DEF n
    <2>9. /\ s.cache = c /\ s.free_list = l /\ s.free_count = n
      BY <2>4
    <2>10. s \in Slab
      BY <2>1, <2>4, <2>5 DEF Slab
    <2> QED  BY <2>1, <2>5, <2>6, <2>7, <2>8, <2>9, <2>10
  <1>4. /\ DOMAIN S2 = DOMAIN S \cup {p} /\ S2[p] = s
        /\ \A q \in DOMAIN S : S2[q] = S[q] /\ q # p
    OBVIOUS
  <1> HIDE DEF s
  <1>5. P2 \in [Caches -> Seq(Page)] /\ P2[c] = <<p>> /\ \A d \in Caches \ {c} : P2[d] = P[d]
    BY <1>1
  <1>6. /\ C \subseteq Block /\ <<0, 0>> \notin C /\ B \subseteq C
        /\ \A b, d \in Pages(C) : b # d => Apart(b, d)
        /\ <<p, 0>> \in Pages(C)
        /\ \A b \in B : b[1] # p
    <2>1. CASE p = 0 /\ C = B
      <3>1. \A b \in B : b[1] # 0
        <4> SUFFICES ASSUME NEW b \in B, b[1] = 0 PROVE FALSE
          OBVIOUS
        <4>1. b \in Block /\ b # <<0, 0>> /\ b \in Pages(B) /\ <<0, 0>> \in Pages(B)
          BY <1>1 DEF Placed, Pages
        <4>2. Apart(b, <<0, 0>>)
          BY <4>1, <1>1 DEF Placed
        <4>3. 0 \in Span(b) /\ 0 \in Span(<<0, 0>>)
          <5>1. Pow[b[2]] \in Nat /\ Pow[b[2]] > 0
            BY <4>1, BlockFields
          <5>2. 0 \in Span(b)
            BY <4>1, <5>1 DEF Span
          <5>3. Span(<<0, 0>>) = 0 .. 0 + 1 - 1
            BY PowAssumption DEF Span
          <5> QED  BY <5>2, <5>3
        <4> QED  BY <4>2, <4>3 DEF Apart
      <3> QED  BY <2>1, <3>1, <1>1 DEF Placed, Pages
    <2>2. CASE p # 0 /\ C = B \cup {<<p, 0>>} /\ \A d \in B : Apart(<<p, 0>>, d)
      <3> DEFINE e == <<p, 0>>
      <3>1. e[1] = p /\ e \in Block /\ p # 0 /\ C = B \cup {e} /\ \A d \in B : Apart(e, d)
        BY <2>2, <1>2
      <3> HIDE DEF e
      <3>2. /\ <<0, 0>> \notin B \cup {e}
            /\ \A b, d \in Pages(B \cup {e}) : b # d => Apart(b, d)
            /\ \A d \in B : d[1] # e[1]
        BY <3>1, <1>1, NewPages
      <3>3. e \in Pages(C)
        BY <3>1 DEF Pages
      <3>4. C \subseteq Block
        BY <3>1, <1>1
      <3> QED  BY <3>1, <3>2, <3>3, <3>4 DEF e
    <2> QED  BY <2>1, <2>2
  <1>7. Typed(C, S2, P2, F, H)
    BY <1>1, <1>3, <1>4, <1>5, <1>6 DEF Typed
  <1>8. Placed(C, S2, H)
    <2>1. \A q \in DOMAIN S2 : <<q, 0>> \in Pages(C)
      BY <1>1, <1>4, <1>6 DEF Placed, Pages
    <2>2. ASSUME NEW v \in Pointers, HasPages(B, S, H[v]) PROVE HasPages(C, S2, H[v])
      BY <2>2, <1>4, <1>6 DEF HasPages
    <2>3. ASSUME NEW v \in Pointers, HasChunk(S, H[v]) PROVE HasChunk(S2, H[v])
      BY <2>3, <1>4 DEF HasChunk
    <2> QED  BY <2>1, <2>2, <2>3, <1>1, <1>6 DEF Placed
  <1>9. \A v \in Pointers : H[v] # NULL => H[v].addr \div PageSize # p
    <2> SUFFICES ASSUME NEW v \in Pointers, H[v] # NULL, H[v].addr \div PageSize = p
                 PROVE  FALSE
      OBVIOUS
    <2>1. p \in DOMAIN S \/ \E b \in B : b[1] = p
      <3>1. /\ Typed(B, S, P, F, H) /\ Placed(B, S, H) /\ H[v] # NULL
            /\ p = H[v].addr \div PageSize
        BY <1>1
      <3> QED  BY ONLY <3>1, PageTells
    <2> QED  BY <1>6, <2>1
  <1>10. \A q \in DOMAIN S2 : Accounted(S2[q], H, q)
    <2>1. Out(H, p) = {} /\ OutAddr(H, p) = {}
      BY <1>9 DEF Out, OutAddr
    <2>2. IsFiniteSet(Out(H, p)) /\ Cardinality(Out(H, p)) = 0
      BY <2>1, FS_EmptySet
    <2>3. Accounted(s, H, p)
      BY <1>3, <2>1, <2>2, ChunksFit DEF Accounted
    <2> QED  BY <2>3, <1>1, <1>4
  <1>11. Lists(S2, P2, F)
    <2> SUFFICES ASSUME NEW d \in Caches
                 PROVE  /\ IsInjective(P2[d]) /\ IsInjective(F[d])
                        /\ \A q \in ToSet(P2[d]) : q \in DOMAIN S2 /\ S2[q].cache = d
                                                   /\ S2[q].free_count > 0
                        /\ \A q \in ToSet(F[d]) : q \in DOMAIN S2 /\ S2[q].cache = d
                                                  /\ S2[q].free_count = 0
                        /\ \A q \in DOMAIN S2 : S2[q].cache = d
                                => q \in ToSet(P2[d]) \cup ToSet(F[d])
      BY DEF Lists
    <2>1. /\ IsInjective(P[d]) /\ IsInjective(F[d])
          /\ \A q \in ToSet(P[d]) : q \in DOMAIN S /\ S[q].cache = d /\ S[q].free_count > 0
          /\ \A q \in ToSet(F[d]) : q \in DOMAIN S /\ S[q].cache = d /\ S[q].free_count = 0
          /\ \A q \in DOMAIN S : S[q].cache = d => q \in ToSet(P[d]) \cup ToSet(F[d])
      BY <1>1 DEF Lists
    <2>2. CASE d # c
      BY <2>1, <2>2, <1>3, <1>4, <1>5
    <2>3. CASE d = c
      <3>1. DOMAIN <<p>> = {1} /\ <<p>>[1] = p
        OBVIOUS
      <3>2. ToSet(<<p>>) = {p} /\ IsInjective(<<p>>)
        BY <3>1 DEF ToSet, IsInjective
      <3>3. ToSet(P[d]) = {}
        BY <2>3 DEF ToSet
      <3> QED  BY <2>1, <2>3, <3>2, <3>3, <1>3, <1>4, <1>5
    <2> QED  BY <2>2, <2>3
  <1> QED  BY <1>7, <1>8, <1>10, <1>11 DEF Sound
\* An allocation in page p that ends.
LEMMA OutLess ==
    ASSUME NEW H, NEW H2, NEW v \in Pointers, NEW p,
           \A w \in Pointers \ {v} : H2[w] = H[w],
           H[v] # NULL, H2[v] = NULL, H[v].addr \div PageSize = p,
           \A w \in Pointers \ {v} : H[w] # NULL => H[w].addr # H[v].addr
    PROVE  /\ OutAddr(H2, p) = OutAddr(H, p) \ {H[v].addr}
           /\ H[v].addr \in OutAddr(H, p)
           /\ Out(H2, p) = Out(H, p) \ {v} /\ v \in Out(H, p)
  <1>1. Out(H2, p) = Out(H, p) \ {v} /\ v \in Out(H, p) /\ Out(H, p) \subseteq Pointers
    BY DEF Out
  <1>2. \A w \in Out(H2, p) : H2[w] = H[w] /\ H[w] # NULL /\ w \in Pointers \ {v}
    BY <1>1 DEF Out
  <1>3. OutAddr(H2, p) = OutAddr(H, p) \ {H[v].addr}
    BY <1>1, <1>2 DEF OutAddr
  <1>4. H[v].addr \in OutAddr(H, p)
    BY <1>1 DEF OutAddr
  <1> QED  BY <1>1, <1>3, <1>4

\* What slab_malloc does, with slab p first on the partial list: chunk a goes
\* to v, and what is left of the slab to the list it belongs on.
Taking(S, P, F, H, c, p, v, n, a, left, S2, P2, F2, H2) ==
    /\ P[c] # <<>> /\ p = Head(P[c])
    /\ H[v] = NULL /\ n <= ObjSize(c)
    /\ a = Head(S[p].free_list)
    /\ left = [S[p] EXCEPT !.free_list = Tail(@), !.free_count = @ - 1]
    /\ S2 = [q \in DOMAIN S \cup {p} |-> IF q = p THEN left ELSE S[q]]
    /\ H2 = [H EXCEPT ![v] = [addr |-> a, size |-> n]]
    /\ \/ /\ left.free_count = 0
          /\ P2 = [P EXCEPT ![c] = Tail(P[c])] /\ F2 = [F EXCEPT ![c] = <<p>> \o @]
       \/ left.free_count # 0 /\ P2 = P /\ F2 = F

\* slab_malloc, with a slab on the partial list.
LEMMA ChunkTaken ==
    ASSUME NEW B, NEW S, NEW P, NEW F, NEW H, Sound(B, S, P, F, H),
           NEW c \in Caches, NEW v \in Pointers, NEW n \in Nat,
           NEW p, NEW a, NEW left, NEW S2, NEW P2, NEW F2, NEW H2,
           Taking(S, P, F, H, c, p, v, n, a, left, S2, P2, F2, H2)
    PROVE  Sound(B, S2, P2, F2, H2) /\ H2[v] # NULL
  <1> SUFFICES ASSUME P[c] # <<>>, p = Head(P[c]), H[v] = NULL, n <= ObjSize(c),
                      a = Head(S[p].free_list),
                      left = [S[p] EXCEPT !.free_list = Tail(@), !.free_count = @ - 1],
                      S2 = [q \in DOMAIN S \cup {p} |-> IF q = p THEN left ELSE S[q]],
                      H2 = [H EXCEPT ![v] = [addr |-> a, size |-> n]],
                      \/ /\ left.free_count = 0
                         /\ P2 = [P EXCEPT ![c] = Tail(P[c])] /\ F2 = [F EXCEPT ![c] = <<p>> \o @]
                      \/ left.free_count # 0 /\ P2 = P /\ F2 = F
               PROVE  Sound(B, S2, P2, F2, H2) /\ H2[v] # NULL
    BY DEF Taking
  <1>1. /\ Typed(B, S, P, F, H) /\ Placed(B, S, H) /\ Lists(S, P, F) /\ B \subseteq Block
        /\ P \in [Caches -> Seq(Page)] /\ F \in [Caches -> Seq(Page)]
        /\ H \in [Pointers -> Given \cup {NULL}] /\ DOMAIN S \subseteq Page
        /\ \A q \in DOMAIN S : Accounted(S[q], H, q) /\ S[q] \in Slab
    BY DEF Sound, Typed
  <1>2. \A d \in Caches :
           /\ P[d] \in Seq(Page) /\ F[d] \in Seq(Page)
           /\ IsInjective(P[d]) /\ IsInjective(F[d])
           /\ \A q \in ToSet(P[d]) : q \in DOMAIN S /\ S[q].cache = d /\ S[q].free_count > 0
           /\ \A q \in ToSet(F[d]) : q \in DOMAIN S /\ S[q].cache = d /\ S[q].free_count = 0
           /\ \A q \in DOMAIN S : S[q].cache = d => q \in ToSet(P[d]) \cup ToSet(F[d])
    BY <1>1 DEF Lists
  <1>3. /\ p \in ToSet(P[c]) /\ Tail(P[c]) \in Seq(Page) /\ IsInjective(Tail(P[c]))
        /\ ToSet(Tail(P[c])) = ToSet(P[c]) \ {p}
    BY <1>2, TailOf
  <1> DEFINE s == S[p]
  <1>4. /\ p \in DOMAIN S /\ p \in Page /\ p \in Nat /\ s \in Slab /\ Accounted(s, H, p)
        /\ s.cache = c /\ s.free_count > 0
    BY SMTT(30), <1>1, <1>2, <1>3 DEF Page
  <1>5. /\ s.free_list \in Seq(Nat) /\ s.free_count \in Nat /\ s.free_count = Len(s.free_list)
        /\ IsInjective(s.free_list) /\ ToSet(s.free_list) \cap OutAddr(H, p) = {}
        /\ ToSet(s.free_list) \cup OutAddr(H, p) = Chunks(c, p)
        /\ IsFiniteSet(Out(H, p)) /\ s.free_count + Cardinality(Out(H, p)) = NumObjs(c)
    BY <1>4 DEF Accounted, Slab
  <1>6. s.free_list # <<>>
    BY SMTT(30), <1>4, <1>5
  <1>7. /\ a \in Nat /\ a \in ToSet(s.free_list)
        /\ Tail(s.free_list) \in Seq(Nat) /\ IsInjective(Tail(s.free_list))
        /\ Len(Tail(s.free_list)) = Len(s.free_list) - 1
        /\ ToSet(Tail(s.free_list)) = ToSet(s.free_list) \ {a}
    BY <1>5, <1>6, TailOf
  <1>8. /\ left \in Slab /\ left.cache = c /\ left.free_list = Tail(s.free_list)
        /\ left.free_count = s.free_count - 1
    <2>1. left = [cache |-> s.cache, free_list |-> Tail(s.free_list),
                  free_count |-> s.free_count - 1]
      BY <1>4 DEF Slab
    <2>2. s.free_count - 1 \in Nat /\ s.cache \in Caches
      BY SMTT(30), <1>4, <1>5
    <2> QED  BY <2>1, <2>2, <1>4, <1>7 DEF Slab
  <1>9. /\ DOMAIN S2 = DOMAIN S /\ S2[p] = left /\ \A q \in DOMAIN S \ {p} : S2[q] = S[q]
    BY <1>4
  <1>10. \A q \in DOMAIN S : S2[q].cache = S[q].cache
    BY <1>4, <1>8, <1>9
  <1> DEFINE r == [addr |-> a, size |-> n]
  <1>11. r \in Given /\ r.addr = a /\ r.size = n
    BY <1>7 DEF Given
  <1>12. H2 = [H EXCEPT ![v] = r]
    OBVIOUS
  <1> HIDE DEF r
  <1>13. /\ H2 \in [Pointers -> Given \cup {NULL}] /\ H2[v] = r /\ r # NULL
         /\ \A w \in Pointers \ {v} : H2[w] = H[w]
    <2>1. r # NULL
      BY <1>11, SlabAssumption DEF Given
    <2> QED  BY <2>1, <1>1, <1>11, <1>12
  <1> HIDE DEF s
  <1>14. PICK i \in 1 .. NumObjs(c) : a = Chunk(c, p, i)
    BY <1>5, <1>7 DEF Chunks
  <1>15. a \div PageSize = p
    <2>1. c \in Caches
      OBVIOUS
    <2> QED  BY ONLY <2>1, <1>4, <1>14, ChunkInPage
  <1>16. \A w \in Pointers : H[w] # NULL => H[w].addr # a
    <2> SUFFICES ASSUME NEW w \in Pointers, H[w] # NULL, H[w].addr = a PROVE FALSE
      OBVIOUS
    <2>1. a \in OutAddr(H, p)
      BY <1>15 DEF OutAddr, Out
    <2> QED  BY <2>1, <1>5, <1>7
  <1>17. /\ P2 \in [Caches -> Seq(Page)] /\ F2 \in [Caches -> Seq(Page)]
         /\ \A d \in Caches \ {c} : P2[d] = P[d] /\ F2[d] = F[d]
         /\ \/ /\ left.free_count = 0 /\ P2[c] = Tail(P[c]) /\ F2[c] = <<p>> \o F[c]
            \/ /\ left.free_count # 0 /\ P2[c] = P[c] /\ F2[c] = F[c]
    <2>1. <<p>> \o F[c] \in Seq(Page)
      BY SMTT(30), <1>2, <1>4, ConcatProperties
    <2>2. CASE /\ left.free_count = 0
               /\ P2 = [P EXCEPT ![c] = Tail(P[c])] /\ F2 = [F EXCEPT ![c] = <<p>> \o @]
      <3>1. F2 = [F EXCEPT ![c] = <<p>> \o F[c]]
        BY <2>2
      <3> QED  BY <2>1, <2>2, <3>1, <1>1, <1>3
    <2>3. CASE left.free_count # 0 /\ P2 = P /\ F2 = F
      BY <2>3, <1>1
    <2> QED  BY <2>2, <2>3
  <1>18. Typed(B, S2, P2, F2, H2)
    BY <1>1, <1>8, <1>9, <1>13, <1>17 DEF Typed
  <1>19. Placed(B, S2, H2)
    <2>1. HasChunk(S2, r)
      BY <1>4, <1>8, <1>9, <1>11, <1>14 DEF HasChunk
    <2>2. ASSUME NEW w \in Pointers, HasPages(B, S, H[w]) PROVE HasPages(B, S2, H[w])
      BY <2>2, <1>9 DEF HasPages
    <2>3. ASSUME NEW w \in Pointers, HasChunk(S, H[w]) PROVE HasChunk(S2, H[w])
      BY <2>3, <1>9, <1>10 DEF HasChunk
    <2>4. \A w \in Pointers : H2[w] # NULL => HasPages(B, S2, H2[w]) \/ HasChunk(S2, H2[w])
      BY <2>1, <2>2, <2>3, <1>1, <1>13 DEF Placed
    <2>5. \A w, x \in Pointers :
             w # x /\ H2[w] # NULL /\ H2[x] # NULL => H2[w].addr # H2[x].addr
      BY <1>1, <1>11, <1>13, <1>16 DEF Placed
    <2> QED  BY <2>4, <2>5, <1>1, <1>9 DEF Placed
  <1>20. Lists(S2, P2, F2)
    <2>1. ASSUME NEW d \in Caches \ {c}
          PROVE  \A q \in DOMAIN S : S[q].cache = d => q # p
      BY <2>1, <1>4 DEF s
    <2>2. ASSUME NEW d \in Caches
          PROVE  /\ IsInjective(P2[d]) /\ IsInjective(F2[d])
                 /\ \A q \in ToSet(P2[d]) : q \in DOMAIN S2 /\ S2[q].cache = d
                                            /\ S2[q].free_count > 0
                 /\ \A q \in ToSet(F2[d]) : q \in DOMAIN S2 /\ S2[q].cache = d
                                           /\ S2[q].free_count = 0
                 /\ \A q \in DOMAIN S2 : S2[q].cache = d
                                => q \in ToSet(P2[d]) \cup ToSet(F2[d])
      <3>1. CASE d # c
        <4>1. /\ P2[d] = P[d] /\ F2[d] = F[d]
              /\ \A q \in DOMAIN S : S[q].cache = d => q # p
          BY <3>1, <2>1, <2>2, <1>17
        <4>2. \A q \in DOMAIN S : S2[q].cache = d => S2[q] = S[q]
          BY <4>1, <1>9, <1>10
        <4>3. \A q \in DOMAIN S : S[q].cache = d => S2[q] = S[q]
          BY <4>2, <1>10
        <4>4. \A q \in ToSet(P[d]) : q \in DOMAIN S2 /\ S2[q].cache = d /\ S2[q].free_count > 0
          <5> SUFFICES ASSUME NEW q \in ToSet(P[d])
                       PROVE  q \in DOMAIN S2 /\ S2[q].cache = d /\ S2[q].free_count > 0
            OBVIOUS
          <5>1. q \in DOMAIN S /\ S[q].cache = d /\ S[q].free_count > 0
            BY <2>2, <1>2
          <5> QED  BY <5>1, <4>3, <1>9
        <4>5. \A q \in ToSet(F[d]) : q \in DOMAIN S2 /\ S2[q].cache = d /\ S2[q].free_count = 0
          <5> SUFFICES ASSUME NEW q \in ToSet(F[d])
                       PROVE  q \in DOMAIN S2 /\ S2[q].cache = d /\ S2[q].free_count = 0
            OBVIOUS
          <5>1. q \in DOMAIN S /\ S[q].cache = d /\ S[q].free_count = 0
            BY <2>2, <1>2
          <5> QED  BY <5>1, <4>3, <1>9
        <4>6. \A q \in DOMAIN S2 : S2[q].cache = d => q \in ToSet(P[d]) \cup ToSet(F[d])
          BY <2>2, <1>2, <1>9, <1>10
        <4>7. IsInjective(P[d]) /\ IsInjective(F[d])
          BY <2>2, <1>2
        <4> QED  BY <4>1, <4>4, <4>5, <4>6, <4>7
      <3>2. CASE d = c /\ left.free_count = 0 /\ P2[c] = Tail(P[c]) /\ F2[c] = <<p>> \o F[c]
        <4>1. p \notin ToSet(F[c])
          BY SMTT(30), <1>2, <1>4 DEF s
        <4>2. IsInjective(F2[c]) /\ ToSet(F2[c]) = ToSet(F[c]) \cup {p}
          BY <3>2, <4>1, <1>2, <1>4, Pushed
        <4> QED  BY ZenonT(30), <3>2, <4>1, <4>2, <1>2, <1>3, <1>8, <1>9
      <3>3. CASE d = c /\ left.free_count # 0 /\ P2[c] = P[c] /\ F2[c] = F[c]
        <4>1. left.free_count > 0 /\ p \notin ToSet(F[c])
          <5>1. \A q \in ToSet(F[c]) : S[q].free_count = 0
            BY <1>2, <1>4
          <5>2. p \notin ToSet(F[c])
            BY SMTT(30), <5>1, <1>4 DEF s
          <5>3. left.free_count > 0
            <6>1. left.free_count # 0
              BY <3>3
            <6>2. left.free_count \in Nat
              BY <1>8 DEF Slab
            <6> QED  BY ONLY <6>1, <6>2
          <5> QED  BY <5>2, <5>3
        <4>2. \A q \in ToSet(P[c]) : S2[q].cache = c /\ S2[q].free_count > 0
          BY <4>1, <1>2, <1>8, <1>9
        <4>3. \A q \in ToSet(F[c]) : S2[q] = S[q]
          BY <4>1, <1>2, <1>9
        <4>4. \A q \in ToSet(P[d]) : q \in DOMAIN S2 /\ S2[q].cache = d /\ S2[q].free_count > 0
          BY <3>3, <4>2, <1>2, <1>9
        <4>5. \A q \in ToSet(F[d]) : q \in DOMAIN S2 /\ S2[q].cache = d /\ S2[q].free_count = 0
          <5> SUFFICES ASSUME NEW q \in ToSet(F[d])
                       PROVE  q \in DOMAIN S2 /\ S2[q].cache = d /\ S2[q].free_count = 0
            OBVIOUS
          <5>1. q \in DOMAIN S /\ S[q].cache = d /\ S[q].free_count = 0
            BY <2>2, <1>2
          <5>2. S2[q] = S[q]
            BY <3>3, <4>3
          <5> QED  BY <5>1, <5>2, <1>9
        <4>6. \A q \in DOMAIN S2 : S2[q].cache = d => q \in ToSet(P[d]) \cup ToSet(F[d])
          BY <2>2, <1>2, <1>9, <1>10
        <4>7. IsInjective(P[d]) /\ IsInjective(F[d])
          BY <2>2, <1>2
        <4> QED  BY <3>3, <4>4, <4>5, <4>6, <4>7
      <3> QED  BY <3>1, <3>2, <3>3, <1>17
    <2> QED  BY <2>2 DEF Lists
  <1>21. \A q \in DOMAIN S2 : Accounted(S2[q], H2, q)
    <2> SUFFICES ASSUME NEW q \in DOMAIN S PROVE Accounted(S2[q], H2, q)
      BY <1>9
    <2>1. CASE q # p
      <3>1. /\ v \in Pointers /\ \A w \in Pointers \ {v} : H2[w] = H[w]
            /\ H[v] # NULL => H[v].addr \div PageSize # q
            /\ H2[v] # NULL => H2[v].addr \div PageSize # q
        BY <2>1, <1>11, <1>13, <1>15
      <3>2. Out(H2, q) = Out(H, q) /\ OutAddr(H2, q) = OutAddr(H, q)
        BY ONLY <3>1, OutElsewhere
      <3>3. Accounted(S[q], H, q) /\ S2[q] = S[q]
        BY <2>1, <1>1, <1>9
      <3> QED  BY <3>2, <3>3 DEF Accounted
    <2>2. CASE q = p
      <3>1. /\ v \in Pointers /\ \A w \in Pointers \ {v} : H2[w] = H[w]
            /\ H[v] = NULL /\ H2[v] # NULL /\ H2[v].addr \div PageSize = p /\ H2[v].addr = a
        BY <1>11, <1>13, <1>15
      <3>2. /\ OutAddr(H2, p) = OutAddr(H, p) \cup {a}
            /\ IsFiniteSet(Out(H2, p))
            /\ Cardinality(Out(H2, p)) = Cardinality(Out(H, p)) + 1
            /\ Cardinality(Out(H, p)) \in Nat
        <4>1. v \in Pointers /\ IsFiniteSet(Out(H, p))
          BY <1>5
        <4>2. /\ OutAddr(H2, p) = OutAddr(H, p) \cup {H2[v].addr}
              /\ Out(H2, p) = Out(H, p) \cup {v} /\ v \notin Out(H, p)
          BY ONLY <4>1, <3>1, OutMore
        <4>3. Cardinality(Out(H, p)) \in Nat
          BY <4>1, FS_CardinalityType
        <4>4. /\ IsFiniteSet(Out(H, p) \cup {v})
              /\ Cardinality(Out(H, p) \cup {v}) = Cardinality(Out(H, p)) + 1
          BY <4>1, <4>2, FS_AddElement
        <4> QED  BY <4>2, <4>3, <4>4, <3>1
      <3>3. ToSet(left.free_list) = ToSet(s.free_list) \ {a}
        BY <1>7, <1>8
      <3>4. /\ ToSet(left.free_list) \cap OutAddr(H2, p) = {}
            /\ ToSet(left.free_list) \cup OutAddr(H2, p) = Chunks(c, p)
        <4>1. /\ ToSet(s.free_list) \cap OutAddr(H, p) = {} /\ a \in ToSet(s.free_list)
              /\ ToSet(s.free_list) \cup OutAddr(H, p) = Chunks(c, p)
          BY <1>5, <1>7
        <4>2. OutAddr(H2, p) = OutAddr(H, p) \cup {a}
          BY <3>2
        <4> QED  BY ONLY <4>1, <4>2, <3>3
      <3>5. left.free_count = Len(left.free_list) /\ IsInjective(left.free_list)
        BY <1>5, <1>7, <1>8
      <3>6. left.free_count + Cardinality(Out(H2, p)) = NumObjs(c)
        <4> DEFINE k == Cardinality(Out(H2, p))  m == Cardinality(Out(H, p))
        <4>1. /\ m \in Nat /\ k = m + 1 /\ s.free_count \in Nat /\ s.free_count + m = NumObjs(c)
              /\ left.free_count = s.free_count - 1
          BY <3>2, <1>5, <1>8
        <4> HIDE DEF k, m
        <4>2. left.free_count + k = NumObjs(c)
          BY SMTT(30), <4>1
        <4> QED  BY <4>2 DEF k
      <3> QED  BY <2>2, <3>2, <3>4, <3>5, <3>6, <1>8, <1>9 DEF Accounted
    <2> QED  BY <2>1, <2>2
  <1>22. H2[v] # NULL
    BY <1>13
  <1> QED  BY <1>18, <1>19, <1>20, <1>21, <1>22 DEF Sound
\* buddy_free of a pointer's pages.
LEMMA PagesFreed ==
    ASSUME NEW B, NEW S, NEW P, NEW F, NEW H, Sound(B, S, P, F, H),
           NEW v \in Pointers, H[v] # NULL, H[v].addr % PageSize = 0,
           NEW b \in B, b[1] = H[v].addr \div PageSize,
           NEW H2, H2 = [H EXCEPT ![v] = NULL]
    PROVE  Sound(B \ {b}, S, P, F, H2)
  <1>1. /\ Typed(B, S, P, F, H) /\ Placed(B, S, H) /\ B \subseteq Block
        /\ H \in [Pointers -> Given \cup {NULL}]
    BY DEF Sound, Typed
  <1>2. /\ H2 \in [Pointers -> Given \cup {NULL}] /\ H2[v] = NULL
        /\ \A w \in Pointers \ {v} : H2[w] = H[w]
    BY <1>1
  <1> DEFINE p == H[v].addr \div PageSize
  <1>3. /\ p \notin DOMAIN S /\ b[1] = p
        /\ \E d \in B : d[1] = p /\ H[v].addr = d[1] * PageSize
    BY <1>1, PageTells
  <1>4. H[v].addr = b[1] * PageSize /\ b[1] \notin DOMAIN S
    BY <1>3
  <1> HIDE DEF p
  <1>5. Typed(B \ {b}, S, P, F, H2)
    BY <1>1, <1>2 DEF Typed
  <1>6. Placed(B \ {b}, S, H2)
    <2>1. \A q \in DOMAIN S : <<q, 0>> \in Pages(B \ {b})
      <3> SUFFICES ASSUME NEW q \in DOMAIN S PROVE <<q, 0>> \in Pages(B \ {b})
        OBVIOUS
      <3>1. <<q, 0>> # b
        BY <1>4
      <3> QED  BY <3>1, <1>1 DEF Placed, Pages
    <2>2. ASSUME NEW w \in Pointers \ {v}, H[w] # NULL, HasPages(B, S, H[w])
          PROVE  HasPages(B \ {b}, S, H[w])
      <3>1. PICK d \in B : /\ d[1] \notin DOMAIN S /\ H[w].addr = d[1] * PageSize
                           /\ H[w].size <= Pow[d[2]] * PageSize
        BY <2>2 DEF HasPages
      <3>2. H[w].addr # H[v].addr
        BY <1>1, <2>2 DEF Placed
      <3>3. d # b
        BY <3>1, <3>2, <1>4
      <3> QED  BY <3>1, <3>3 DEF HasPages
    <2>3. \A w \in Pointers : H2[w] # NULL =>
             HasPages(B \ {b}, S, H2[w]) \/ HasChunk(S, H2[w])
      BY <2>2, <1>1, <1>2 DEF Placed
    <2>4. \A w, x \in Pointers :
             w # x /\ H2[w] # NULL /\ H2[x] # NULL => H2[w].addr # H2[x].addr
      BY <1>1, <1>2 DEF Placed
    <2>5. <<0, 0>> \notin B \ {b} /\ \A d, e \in Pages(B \ {b}) : d # e => Apart(d, e)
      BY <1>1 DEF Placed, Pages
    <2> QED  BY <2>1, <2>3, <2>4, <2>5 DEF Placed
  <1>7. \A q \in DOMAIN S : Accounted(S[q], H2, q)
    <2> SUFFICES ASSUME NEW q \in DOMAIN S PROVE Accounted(S[q], H2, q)
      OBVIOUS
    <2>1. /\ \A w \in Pointers \ {v} : H2[w] = H[w]
          /\ H[v] # NULL => H[v].addr \div PageSize # q
          /\ H2[v] # NULL => H2[v].addr \div PageSize # q
      BY <1>2, <1>3 DEF p
    <2>2. Out(H2, q) = Out(H, q) /\ OutAddr(H2, q) = OutAddr(H, q)
      BY ONLY ZenonT(30), <2>1, OutElsewhere
    <2>3. Accounted(S[q], H, q)
      BY DEF Sound
    <2> QED  BY <2>2, <2>3 DEF Accounted
  <1>8. Lists(S, P, F)
    BY DEF Sound
  <1> QED  BY <1>5, <1>6, <1>7, <1>8 DEF Sound

\* What slab_free does with chunk a, the i-th on page p, of pointer v: the slab
\* has it back, and goes back to the partial list when it is its first.
Giving(S, P, F, H, v, a, p, c, i, back, S2, P2, F2, H2) ==
    /\ H[v] # NULL /\ a = H[v].addr /\ p \in DOMAIN S /\ c = S[p].cache
    /\ i \in 1 .. NumObjs(c) /\ a = Chunk(c, p, i)
    /\ back = [S[p] EXCEPT !.free_list = <<a>> \o @, !.free_count = @ + 1]
    /\ S2 = [S EXCEPT ![p] = back]
    /\ H2 = [H EXCEPT ![v] = NULL]
    /\ \/ /\ back.free_count = 1 /\ F[c] # <<>>
          /\ F2 = [F EXCEPT ![c] = Unlink(@, p)] /\ P2 = [P EXCEPT ![c] = <<p>> \o @]
       \/ ~ (back.free_count = 1 /\ F[c] # <<>>) /\ P2 = P /\ F2 = F

\* slab_free.
LEMMA ChunkFreed ==
    ASSUME NEW B, NEW S, NEW P, NEW F, NEW H, Sound(B, S, P, F, H),
           NEW v \in Pointers, NEW a, NEW p, NEW c, NEW i, NEW back,
           NEW S2, NEW P2, NEW F2, NEW H2,
           Giving(S, P, F, H, v, a, p, c, i, back, S2, P2, F2, H2)
    PROVE  Sound(B, S2, P2, F2, H2)
  <1> SUFFICES ASSUME H[v] # NULL, a = H[v].addr, p \in DOMAIN S, c = S[p].cache,
                      i \in 1 .. NumObjs(c), a = Chunk(c, p, i),
                      back = [S[p] EXCEPT !.free_list = <<a>> \o @, !.free_count = @ + 1],
                      S2 = [S EXCEPT ![p] = back],
                      H2 = [H EXCEPT ![v] = NULL],
                      \/ /\ back.free_count = 1 /\ F[c] # <<>>
                         /\ F2 = [F EXCEPT ![c] = Unlink(@, p)]
                         /\ P2 = [P EXCEPT ![c] = <<p>> \o @]
                      \/ ~ (back.free_count = 1 /\ F[c] # <<>>) /\ P2 = P /\ F2 = F
               PROVE  Sound(B, S2, P2, F2, H2)
    BY DEF Giving
  <1>1. /\ Typed(B, S, P, F, H) /\ Placed(B, S, H) /\ Lists(S, P, F) /\ B \subseteq Block
        /\ P \in [Caches -> Seq(Page)] /\ F \in [Caches -> Seq(Page)]
        /\ H \in [Pointers -> Given \cup {NULL}] /\ DOMAIN S \subseteq Page
        /\ \A q \in DOMAIN S : Accounted(S[q], H, q) /\ S[q] \in Slab
    BY DEF Sound, Typed
  <1>2. \A d \in Caches :
           /\ P[d] \in Seq(Page) /\ F[d] \in Seq(Page)
           /\ IsInjective(P[d]) /\ IsInjective(F[d])
           /\ \A q \in ToSet(P[d]) : q \in DOMAIN S /\ S[q].cache = d /\ S[q].free_count > 0
           /\ \A q \in ToSet(F[d]) : q \in DOMAIN S /\ S[q].cache = d /\ S[q].free_count = 0
           /\ \A q \in DOMAIN S : S[q].cache = d => q \in ToSet(P[d]) \cup ToSet(F[d])
    BY <1>1 DEF Lists
  <1> DEFINE s == S[p]
  <1>3. p \in DOMAIN S
    OBVIOUS
  <1>4. /\ p \in Page /\ p \in Nat /\ s \in Slab /\ Accounted(s, H, p) /\ c \in Caches
        /\ s.cache = c
    BY <1>1, <1>3 DEF Page, Slab
  <1>5. i \in 1 .. NumObjs(c) /\ a = Chunk(c, p, i)
    OBVIOUS
  <1>6. a \in Nat /\ a \div PageSize = p
    BY ONLY <1>4, <1>5, ChunkInPage
  <1>7. /\ s.free_list \in Seq(Nat) /\ s.free_count \in Nat /\ s.free_count = Len(s.free_list)
        /\ IsInjective(s.free_list) /\ ToSet(s.free_list) \cap OutAddr(H, p) = {}
        /\ ToSet(s.free_list) \cup OutAddr(H, p) = Chunks(c, p)
        /\ IsFiniteSet(Out(H, p)) /\ s.free_count + Cardinality(Out(H, p)) = NumObjs(c)
    BY <1>4 DEF Accounted, Slab
  <1>8. /\ H2 \in [Pointers -> Given \cup {NULL}] /\ H2[v] = NULL
        /\ \A w \in Pointers \ {v} : H2[w] = H[w]
    BY <1>1
  <1>9. /\ OutAddr(H2, p) = OutAddr(H, p) \ {a} /\ a \in OutAddr(H, p)
        /\ Out(H2, p) = Out(H, p) \ {v} /\ v \in Out(H, p)
    <2>1. /\ \A w \in Pointers \ {v} : H2[w] = H[w]
          /\ H[v] # NULL /\ H2[v] = NULL /\ H[v].addr \div PageSize = p /\ H[v].addr = a
          /\ \A w \in Pointers \ {v} : H[w] # NULL => H[w].addr # H[v].addr
          /\ v \in Pointers
      BY <1>1, <1>6, <1>8 DEF Placed
    <2>2. /\ OutAddr(H2, p) = OutAddr(H, p) \ {H[v].addr}
          /\ H[v].addr \in OutAddr(H, p)
          /\ Out(H2, p) = Out(H, p) \ {v} /\ v \in Out(H, p)
      BY ONLY <2>1, OutLess
    <2> QED  BY <2>1, <2>2
  <1>10. /\ <<a>> \o s.free_list \in Seq(Nat) /\ IsInjective(<<a>> \o s.free_list)
         /\ Len(<<a>> \o s.free_list) = Len(s.free_list) + 1
         /\ ToSet(<<a>> \o s.free_list) = ToSet(s.free_list) \cup {a}
    <2>1. a \notin ToSet(s.free_list)
      BY <1>7, <1>9
    <2> QED  BY <2>1, <1>6, <1>7, Pushed
  <1>11. /\ back \in Slab /\ back.cache = c /\ back.free_list = <<a>> \o s.free_list
         /\ back.free_count = s.free_count + 1
    <2>1. back = [cache |-> s.cache, free_list |-> <<a>> \o s.free_list,
                  free_count |-> s.free_count + 1]
      BY <1>4 DEF Slab
    <2>2. s.free_count + 1 \in Nat
      BY <1>7
    <2> QED  BY <2>1, <2>2, <1>4, <1>10 DEF Slab
  <1>12. /\ DOMAIN S2 = DOMAIN S /\ S2[p] = back /\ \A q \in DOMAIN S \ {p} : S2[q] = S[q]
    BY <1>3
  <1>13. \A q \in DOMAIN S : S2[q].cache = S[q].cache
    BY <1>4, <1>11, <1>12
  <1> HIDE DEF s
  <1>14. /\ P2 \in [Caches -> Seq(Page)] /\ F2 \in [Caches -> Seq(Page)]
         /\ \A d \in Caches \ {c} : P2[d] = P[d] /\ F2[d] = F[d]
         /\ \/ /\ s.free_count = 0 /\ p \in ToSet(F[c])
               /\ F2[c] = Unlink(F[c], p) /\ P2[c] = <<p>> \o P[c]
            \/ s.free_count > 0 /\ P2[c] = P[c] /\ F2[c] = F[c]
    <2>1. s.free_count = 0 => p \in ToSet(F[c])
      <3>1. p \in ToSet(P[c]) => s.free_count > 0
        BY <1>2, <1>4 DEF s
      <3>2. p \in ToSet(P[c]) \cup ToSet(F[c])
        BY <1>2, <1>3, <1>4 DEF s
      <3> QED  BY <3>1, <3>2, <1>7
    <2>2. p \in ToSet(F[c]) => F[c] # <<>>
      BY DEF ToSet
    <2>3. CASE s.free_count = 0
      <3>1. back.free_count = 1 /\ p \in ToSet(F[c]) /\ F[c] # <<>>
        BY <2>1, <2>2, <2>3, <1>11
      <3>2. F2 = [F EXCEPT ![c] = Unlink(F[c], p)] /\ P2 = [P EXCEPT ![c] = <<p>> \o P[c]]
        BY <3>1
      <3>3. Unlink(F[c], p) \in Seq(Page)
        BY <3>1, <1>2, <1>4, Unlinked
      <3>4. <<p>> \o P[c] \in Seq(Page)
        BY <1>2, <1>4, ConcatProperties
      <3> QED  BY <2>3, <3>1, <3>2, <3>3, <3>4, <1>1, <1>4
    <2>4. CASE s.free_count > 0
      <3>1. P2 = P /\ F2 = F
        BY <2>4, <1>7, <1>11
      <3> QED  BY <2>4, <3>1, <1>1
    <2> QED  BY SMTT(30), <2>3, <2>4, <1>7
  <1>15. Typed(B, S2, P2, F2, H2)
    BY <1>1, <1>8, <1>11, <1>12, <1>14 DEF Typed
  <1>16. Placed(B, S2, H2)
    <2>1. ASSUME NEW w \in Pointers, HasPages(B, S, H[w]) PROVE HasPages(B, S2, H[w])
      BY <2>1, <1>12 DEF HasPages
    <2>2. ASSUME NEW w \in Pointers, HasChunk(S, H[w]) PROVE HasChunk(S2, H[w])
      BY <2>2, <1>12, <1>13 DEF HasChunk
    <2>3. \A w \in Pointers : H2[w] # NULL => HasPages(B, S2, H2[w]) \/ HasChunk(S2, H2[w])
      BY <2>1, <2>2, <1>1, <1>8 DEF Placed
    <2>4. \A w, x \in Pointers :
             w # x /\ H2[w] # NULL /\ H2[x] # NULL => H2[w].addr # H2[x].addr
      BY <1>1, <1>8 DEF Placed
    <2> QED  BY <2>3, <2>4, <1>1, <1>12 DEF Placed
  <1>17. Lists(S2, P2, F2)
    <2>1. ASSUME NEW d \in Caches
          PROVE  /\ IsInjective(P2[d]) /\ IsInjective(F2[d])
                 /\ \A q \in ToSet(P2[d]) : q \in DOMAIN S2 /\ S2[q].cache = d
                                            /\ S2[q].free_count > 0
                 /\ \A q \in ToSet(F2[d]) : q \in DOMAIN S2 /\ S2[q].cache = d
                                           /\ S2[q].free_count = 0
                 /\ \A q \in DOMAIN S2 : S2[q].cache = d
                                => q \in ToSet(P2[d]) \cup ToSet(F2[d])
      <3>0. /\ \A q \in ToSet(P[d]) : q \in DOMAIN S /\ S[q].cache = d /\ S[q].free_count > 0
            /\ \A q \in ToSet(F[d]) : q \in DOMAIN S /\ S[q].cache = d /\ S[q].free_count = 0
            /\ \A q \in DOMAIN S : S[q].cache = d => q \in ToSet(P[d]) \cup ToSet(F[d])
            /\ IsInjective(P[d]) /\ IsInjective(F[d])
            /\ P[d] \in Seq(Page) /\ F[d] \in Seq(Page)
        BY <2>1, <1>2
      <3>1. \A q \in ToSet(P[d]) : S2[q].cache = d /\ S2[q].free_count > 0
        <4> SUFFICES ASSUME NEW q \in ToSet(P[d]) PROVE S2[q].cache = d /\ S2[q].free_count > 0
          OBVIOUS
        <4>1. q \in DOMAIN S /\ S[q].cache = d /\ S[q].free_count > 0
          BY <3>0
        <4>2. back.free_count > 0
          BY <1>7, <1>11
        <4>3. q = p => S2[q] = back /\ back.cache = d
          BY <4>1, <1>4, <1>11, <1>12 DEF s
        <4> QED  BY <4>1, <4>2, <4>3, <1>12
      <3>2. \A q \in ToSet(F[d]) : q # p => S2[q].cache = d /\ S2[q].free_count = 0
        BY <3>0, <1>12
      <3>3. d # c => p \notin ToSet(F[d])
        BY <3>0, <1>4 DEF s
      <3>4. CASE d # c
        <4>1. P2[d] = P[d] /\ F2[d] = F[d]
          BY <2>1, <3>4, <1>14
        <4> QED  BY <4>1, <3>0, <3>1, <3>2, <3>3, <3>4, <1>12, <1>13
      <3>5. CASE /\ d = c /\ s.free_count = 0 /\ p \in ToSet(F[c])
                 /\ F2[c] = Unlink(F[c], p) /\ P2[c] = <<p>> \o P[c]
        <4>1. p \notin ToSet(P[c])
          <5>1. p \in ToSet(P[c]) => s.free_count > 0
            BY <1>2, <1>4 DEF s
          <5> QED  BY <5>1, <3>5
        <4>2. IsInjective(P2[c]) /\ ToSet(P2[c]) = ToSet(P[c]) \cup {p}
          BY <4>1, <3>0, <3>5, <1>4, Pushed
        <4>3. IsInjective(F2[c]) /\ ToSet(F2[c]) = ToSet(F[c]) \ {p}
          BY <3>0, <3>5, Unlinked
        <4>4. p \in DOMAIN S2 /\ S2[p].cache = c /\ S2[p].free_count > 0
          <5>1. back.free_count > 0 /\ back.cache = c
            BY <1>7, <1>11
          <5>2. p \in DOMAIN S2 /\ S2[p] = back
            BY <1>3, <1>12
          <5> QED  BY <5>1, <5>2
        <4>5. \A q \in ToSet(P2[d]) : q \in DOMAIN S2 /\ S2[q].cache = d /\ S2[q].free_count > 0
          BY <4>2, <4>4, <3>0, <3>1, <3>5, <1>12
        <4>6. \A q \in ToSet(F2[d]) : q \in DOMAIN S2 /\ S2[q].cache = d /\ S2[q].free_count = 0
          BY <4>3, <3>0, <3>2, <3>5, <1>12
        <4>7. \A q \in DOMAIN S2 : S2[q].cache = d => q \in ToSet(P2[d]) \cup ToSet(F2[d])
          BY <4>2, <4>3, <3>0, <3>5, <1>12, <1>13
        <4> QED  BY <4>2, <4>3, <4>5, <4>6, <4>7, <3>5
      <3>6. CASE d = c /\ s.free_count > 0 /\ P2[c] = P[c] /\ F2[c] = F[c]
        <4>1. p \notin ToSet(F[c])
          <5>1. p \in ToSet(F[c]) => s.free_count = 0
            BY <1>2, <1>4 DEF s
          <5> QED  BY <5>1, <3>6
        <4> QED  BY <4>1, <3>0, <3>1, <3>2, <3>6, <1>12, <1>13
      <3> QED  BY <3>4, <3>5, <3>6, <1>14
    <2> QED  BY <2>1 DEF Lists
  <1>18. \A q \in DOMAIN S2 : Accounted(S2[q], H2, q)
    <2> SUFFICES ASSUME NEW q \in DOMAIN S PROVE Accounted(S2[q], H2, q)
      BY <1>12
    <2>1. CASE q # p
      <3>1. /\ \A w \in Pointers \ {v} : H2[w] = H[w]
            /\ H[v] # NULL => H[v].addr \div PageSize # q
            /\ H2[v] # NULL => H2[v].addr \div PageSize # q
        BY <2>1, <1>6, <1>8
      <3>2. Out(H2, q) = Out(H, q) /\ OutAddr(H2, q) = OutAddr(H, q)
        BY ONLY <3>1, OutElsewhere
      <3>3. Accounted(S[q], H, q) /\ S2[q] = S[q]
        BY <2>1, <1>1, <1>12
      <3> QED  BY <3>2, <3>3 DEF Accounted
    <2>2. CASE q = p
      <3>1. ToSet(back.free_list) = ToSet(s.free_list) \cup {a}
        BY <1>10, <1>11
      <3>2. /\ ToSet(back.free_list) \cap OutAddr(H2, p) = {}
            /\ ToSet(back.free_list) \cup OutAddr(H2, p) = Chunks(c, p)
        BY <3>1, <1>7, <1>9
      <3>3. back.free_count = Len(back.free_list) /\ IsInjective(back.free_list)
        BY <1>7, <1>10, <1>11
      <3>4. Cardinality(Out(H, p)) \in Nat
        BY <1>7, FS_CardinalityType
      <3>5. /\ IsFiniteSet(Out(H, p) \ {v})
            /\ Cardinality(Out(H, p) \ {v}) = Cardinality(Out(H, p)) - 1
        BY <1>7, <1>9, FS_RemoveElement
      <3>6. IsFiniteSet(Out(H2, p)) /\ Cardinality(Out(H2, p)) = Cardinality(Out(H, p)) - 1
        BY <3>5, <1>9
      <3>7. back.free_count + Cardinality(Out(H2, p)) = NumObjs(c)
        <4> DEFINE k == Cardinality(Out(H2, p))  m == Cardinality(Out(H, p))
        <4>1. /\ m \in Nat /\ k = m - 1 /\ s.free_count \in Nat /\ s.free_count + m = NumObjs(c)
              /\ back.free_count = s.free_count + 1
          BY <3>4, <3>6, <1>7, <1>11
        <4> HIDE DEF k, m
        <4>2. back.free_count + k = NumObjs(c)
          BY <4>1
        <4> QED  BY <4>2 DEF k
      <3> QED  BY <2>2, <3>2, <3>3, <3>6, <3>7, <1>11, <1>12 DEF Accounted
    <2> QED  BY <2>1, <2>2
  <1> QED  BY <1>15, <1>16, <1>17, <1>18 DEF Sound
-----------------------------------------------------------------------------
(* The steps of the code                                                   *)

LEMMA InitSound == Init => IInv
  <1> SUFFICES ASSUME Init PROVE IInv
    OBVIOUS
  <1>1. /\ blocks = {} /\ DOMAIN slabs = {} /\ held = [v \in Pointers |-> NULL]
        /\ partial = [c \in Caches |-> <<>>] /\ full = [c \in Caches |-> <<>>]
    BY DEF Init
  <1>2. ToSet(<<>>) = {} /\ IsInjective(<<>>) /\ <<>> \in Seq(Page)
    BY DEF ToSet, IsInjective
  <1>3. Typed(blocks, slabs, partial, full, held)
    BY <1>1, <1>2 DEF Typed
  <1>4. Lists(slabs, partial, full)
    <2>1. \A c \in Caches : partial[c] = <<>> /\ full[c] = <<>>
      BY <1>1
    <2> QED  BY <1>1, <1>2, <2>1 DEF Lists
  <1>5. Placed(blocks, slabs, held)
    BY <1>1 DEF Placed, Pages
  <1> QED  BY <1>1, <1>3, <1>4, <1>5 DEF IInv, Sound

\* slab_malloc has slab s on page p, first of cache c's partial list part, in a
\* heap of slabs S and partial lists P.
Chosen(S, P, c, p, s, part) ==
    /\ P[c] # <<>> /\ p = Head(P[c]) /\ s = S[p] /\ s.cache = c
    /\ part = P[c] /\ P = [partial EXCEPT ![c] = part]
    /\ DOMAIN S = DOMAIN slabs \cup {p}
    /\ \A q \in DOMAIN slabs \ {p} : S[q] = slabs[q]

\* The chunk it takes, whether the slab was there or is new.
LEMMA TakeSound ==
    ASSUME partial \in [Caches -> Seq(Page)],
           NEW v \in Pointers, held[v] = NULL, NEW n \in Nat, NEW c \in Caches,
           n <= ObjSize(c),
           NEW B, NEW S, NEW P, Sound(B, S, P, full, held),
           NEW p, NEW s, NEW part, Chosen(S, P, c, p, s, part),
           TakeChunk(v, n, p, s, part)
    PROVE  Sound(B, slabs', partial', full', held') /\ held'[v] # NULL
  <1> SUFFICES ASSUME P[c] # <<>>, p = Head(P[c]), s = S[p], s.cache = c,
                      part = P[c], P = [partial EXCEPT ![c] = part],
                      DOMAIN S = DOMAIN slabs \cup {p},
                      \A q \in DOMAIN slabs \ {p} : S[q] = slabs[q]
               PROVE  Sound(B, slabs', partial', full', held') /\ held'[v] # NULL
    BY DEF Chosen
  <1> DEFINE left == [s EXCEPT !.free_list = Tail(@), !.free_count = @ - 1]
             a == Head(s.free_list)
  <1>1. /\ held' = [held EXCEPT ![v] = [addr |-> a, size |-> n]]
        /\ slabs' = [q \in DOMAIN slabs \cup {p} |-> IF q = p THEN left ELSE slabs[q]]
        /\ \/ /\ left.free_count = 0 /\ partial' = [partial EXCEPT ![c] = Tail(part)]
              /\ full' = [full EXCEPT ![c] = <<p>> \o @]
           \/ left.free_count # 0 /\ partial' = [partial EXCEPT ![c] = part] /\ full' = full
    BY DEF TakeChunk
  <1>2. slabs' = [q \in DOMAIN S \cup {p} |-> IF q = p THEN left ELSE S[q]]
    <2>1. DOMAIN S \cup {p} = DOMAIN slabs \cup {p}
      OBVIOUS
    <2>2. \A q \in DOMAIN S \cup {p} : q # p => S[q] = slabs[q]
      OBVIOUS
    <2> HIDE DEF left
    <2> QED  BY <1>1, <2>1, <2>2
  <1>3. /\ p = Head(P[c]) /\ a = Head(S[p].free_list)
        /\ left = [S[p] EXCEPT !.free_list = Tail(@), !.free_count = @ - 1]
    OBVIOUS
  <1>4. \/ /\ left.free_count = 0
           /\ partial' = [P EXCEPT ![c] = Tail(P[c])] /\ full' = [full EXCEPT ![c] = <<p>> \o @]
        \/ left.free_count # 0 /\ partial' = P /\ full' = full
    <2>1. [P EXCEPT ![c] = Tail(P[c])] = [partial EXCEPT ![c] = Tail(part)]
      OBVIOUS
    <2> HIDE DEF left
    <2> QED  BY <1>1, <2>1
  <1> HIDE DEF left, a
  <1>5. /\ Sound(B, S, P, full, held) /\ c \in Caches /\ P[c] # <<>> /\ v \in Pointers
        /\ held[v] = NULL /\ n \in Nat /\ n <= ObjSize(c)
    OBVIOUS
  <1>6. PICK S2, P2, F2, H2 : S2 = slabs' /\ P2 = partial' /\ F2 = full' /\ H2 = held'
    OBVIOUS
  <1>7. /\ H2 = [held EXCEPT ![v] = [addr |-> a, size |-> n]]
        /\ S2 = [q \in DOMAIN S \cup {p} |-> IF q = p THEN left ELSE S[q]]
        /\ \/ /\ left.free_count = 0
              /\ P2 = [P EXCEPT ![c] = Tail(P[c])] /\ F2 = [full EXCEPT ![c] = <<p>> \o @]
           \/ left.free_count # 0 /\ P2 = P /\ F2 = full
    BY <1>1, <1>2, <1>4, <1>6
  <1>8. Taking(S, P, full, held, c, p, v, n, a, left, S2, P2, F2, H2)
    BY <1>3, <1>5, <1>7 DEF Taking
  <1>9. Sound(B, S2, P2, F2, H2) /\ H2[v] # NULL
    BY <1>5, <1>8, ChunkTaken
  <1> QED  BY <1>6, <1>9

\* slab_malloc with a slab that has a chunk.
LEMMA FromPartialSound ==
    ASSUME IInv, NEW v \in Pointers, held[v] = NULL, NEW n \in Nat, NEW c \in Caches,
           n <= ObjSize(c), FromPartial(v, n, c)
    PROVE  IInv' /\ held'[v] # NULL
  <1>1. /\ Sound(blocks, slabs, partial, full, held)
        /\ partial \in [Caches -> Seq(Page)]
    BY DEF IInv, Sound, Typed
  <1> DEFINE p == Head(partial[c])
  <1>2. /\ partial[c] # <<>> /\ TakeChunk(v, n, p, slabs[p], partial[c])
        /\ blocks' = blocks
    BY DEF FromPartial
  <1>3. p \in DOMAIN slabs /\ slabs[p].cache = c
    <2>1. Lists(slabs, partial, full) /\ partial[c] \in Seq(Page)
      BY <1>1 DEF Sound
    <2>2. p \in ToSet(partial[c])
      BY <2>1, <1>2, TailOf DEF Lists
    <2> QED  BY <2>1, <2>2 DEF Lists
  <1>4. partial = [partial EXCEPT ![c] = partial[c]]
    BY <1>1
  <1>5. DOMAIN slabs = DOMAIN slabs \cup {p}
    BY <1>3
  <1>6. Chosen(slabs, partial, c, p, slabs[p], partial[c])
    BY <1>2, <1>3, <1>4, <1>5 DEF Chosen
  <1> HIDE DEF p
  <1>7. Sound(blocks, slabs', partial', full', held') /\ held'[v] # NULL
    BY <1>1, <1>2, <1>6, TakeSound
  <1> QED  BY <1>2, <1>7 DEF IInv
\* The first chunk of a new slab on page p.
LEMMA NewSlabTaken ==
    ASSUME Sound(blocks, slabs, partial, full, held),
           NEW v \in Pointers, held[v] = NULL, NEW n \in Nat, NEW c \in Caches,
           n <= ObjSize(c), NEW p \in Page, p \notin DOMAIN slabs, partial[c] = <<>>,
           NEW C, \/ p = 0 /\ C = blocks
                  \/ /\ p # 0 /\ C = blocks \cup {<<p, 0>>}
                     /\ \A d \in blocks : Apart(<<p, 0>>, d),
           TakeChunk(v, n, p, NewSlab(c, p), <<p>>)
    PROVE  Sound(C, slabs', partial', full', held') /\ held'[v] # NULL
  <1>1. partial \in [Caches -> Seq(Page)]
    BY DEF Sound, Typed
  <1>2. PICK S : S = [q \in DOMAIN slabs \cup {p} |-> IF q = p THEN NewSlab(c, p) ELSE slabs[q]]
    OBVIOUS
  <1>3. PICK P : P = [partial EXCEPT ![c] = <<p>>]
    OBVIOUS
  <1>4. Creating(blocks, slabs, partial, c, p, C, S, P)
    BY <1>2, <1>3 DEF Creating
  <1>5. Sound(C, S, P, full, held)
    BY <1>4, SlabCreated
  <1>6. P[c] = <<p>> /\ P[c] # <<>> /\ Head(P[c]) = p
    BY <1>1, <1>3
  <1>7. S[p] = NewSlab(c, p) /\ NewSlab(c, p).cache = c
    BY <1>2 DEF NewSlab
  <1>8. DOMAIN S = DOMAIN slabs \cup {p} /\ \A q \in DOMAIN slabs \ {p} : S[q] = slabs[q]
    BY <1>2
  <1>9. Chosen(S, P, c, p, NewSlab(c, p), <<p>>)
    BY <1>3, <1>6, <1>7, <1>8 DEF Chosen
  <1> QED  BY <1>1, <1>5, <1>9, TakeSound

\* slab_malloc with a new slab, on a page that the buddy system has.
LEMMA FromNewSlabSound ==
    ASSUME IInv, NEW v \in Pointers, held[v] = NULL, NEW n \in Nat, NEW c \in Caches,
           n <= ObjSize(c), FromNewSlab(v, n, c)
    PROVE  IInv' /\ held'[v] # NULL
  <1>1. /\ Sound(blocks, slabs, partial, full, held)
        /\ Typed(blocks, slabs, partial, full, held) /\ Placed(blocks, slabs, held)
        /\ partial \in [Caches -> Seq(Page)] /\ blocks \subseteq Block
    BY DEF IInv, Sound, Typed
  <1>2. PICK b \in FreeBlocks(0) :
           /\ blocks' = blocks \cup {b}
           /\ TakeChunk(v, n, b[1], NewSlab(c, b[1]), <<b[1]>>)
    BY DEF FromNewSlab
  <1>3. /\ b \in Block /\ b[2] = 0 /\ b[1] # 0 /\ \A d \in blocks : Apart(b, d)
    BY DEF FreeBlocks, Unowned
  <1> DEFINE p == b[1]
  <1>4. b = <<p, 0>> /\ p \in Page /\ p # 0
    BY <1>3 DEF Block
  <1>5. p \notin DOMAIN slabs
    <2>1. /\ <<0, 0>> \notin blocks \cup {b}
          /\ \A e, d \in Pages(blocks \cup {b}) : e # d => Apart(e, d)
          /\ \A w \in Pointers : held[w] # NULL =>
                HasPages(blocks \cup {b}, slabs, held[w]) \/ HasChunk(slabs, held[w])
          /\ b[1] \notin DOMAIN slabs
          /\ \A d \in blocks : d[1] # b[1]
      BY <1>1, <1>3, NewPages
    <2> QED  BY <2>1
  <1>6. TakeChunk(v, n, p, NewSlab(c, p), <<p>>) /\ blocks' = blocks \cup {<<p, 0>>}
    BY <1>2, <1>4
  <1>7. p # 0 /\ \A d \in blocks : Apart(<<p, 0>>, d)
    BY <1>3, <1>4
  <1> HIDE DEF p
  <1>8. partial[c] = <<>>
    BY DEF FromNewSlab
  <1>9. Sound(blocks \cup {<<p, 0>>}, slabs', partial', full', held') /\ held'[v] # NULL
    BY <1>1, <1>4, <1>5, <1>6, <1>7, <1>8, NewSlabTaken
  <1> QED  BY <1>6, <1>9 DEF IInv

\* slab_malloc when there is no page: the slab at NULL.
LEMMA FromNullSlabSound ==
    ASSUME IInv, NEW v \in Pointers, held[v] = NULL, NEW n \in Nat, NEW c \in Caches,
           n <= ObjSize(c), FromNullSlab(v, n, c)
    PROVE  IInv' /\ held'[v] # NULL
  <1>1. /\ Sound(blocks, slabs, partial, full, held)
        /\ partial \in [Caches -> Seq(Page)]
    BY DEF IInv, Sound, Typed
  <1>2. /\ partial[c] = <<>> /\ 0 \notin DOMAIN slabs /\ blocks' = blocks
        /\ TakeChunk(v, n, 0, NewSlab(c, 0), <<0>>)
    BY DEF FromNullSlab
  <1>3. 0 \in Page
    BY PoolAssumption DEF Page
  <1>4. Sound(blocks, slabs', partial', full', held') /\ held'[v] # NULL
    BY <1>1, <1>2, <1>3, NewSlabTaken
  <1> QED  BY <1>2, <1>4 DEF IInv
\* What a step does to the pointers: v gets an allocation, or gives it back.
GivenTo(v) ==
    /\ held[v] = NULL /\ held'[v] # NULL
    /\ \A w \in Pointers \ {v} : held'[w] = held[w]

\* allocate of at most SLAB_ALLOC_MAX bytes.
LEMMA AllocateChunkSound ==
    ASSUME IInv, NEW v \in Pointers, NEW n \in Sizes, AllocateChunk(v, n)
    PROVE  IInv' /\ GivenTo(v)
  <1>1. n \in Nat /\ ToInt(n) = n
    BY IntKeepsSizes
  <1>2. held[v] = NULL
    BY DEF AllocateChunk
  <1>3. PICK c \in Caches : /\ ObjSize(c) >= n
                            /\ \/ FromPartial(v, n, c) \/ FromNewSlab(v, n, c)
                               \/ FromNullSlab(v, n, c)
    BY <1>1 DEF AllocateChunk
  <1>4. n <= ObjSize(c)
    BY <1>1, <1>3, ChunksFit
  <1>5. IInv' /\ held'[v] # NULL
    BY <1>1, <1>2, <1>3, <1>4, FromPartialSound, FromNewSlabSound, FromNullSlabSound
  <1>6. \E r : held' = [held EXCEPT ![v] = r]
    BY <1>3 DEF FromPartial, FromNewSlab, FromNullSlab, TakeChunk
  <1>7. DOMAIN held = Pointers
    BY DEF IInv, Sound, Typed
  <1> QED  BY <1>2, <1>5, <1>6, <1>7 DEF GivenTo

\* allocate of more.
LEMMA AllocatePagesSound ==
    ASSUME IInv, NEW v \in Pointers, NEW n \in Sizes, AllocatePages(v, n)
    PROVE  IInv' /\ GivenTo(v)
  <1>1. n \in Nat /\ ToInt(n) = n
    BY IntKeepsSizes
  <1>2. /\ held[v] = NULL /\ IsPages(n)
        /\ slabs' = slabs /\ partial' = partial /\ full' = full
    BY <1>1 DEF AllocatePages
  <1>3. PICK b \in FreeBlocks(OrderFor(n)) :
           /\ blocks' = blocks \cup {b}
           /\ held' = [held EXCEPT ![v] = [addr |-> b[1] * PageSize, size |-> n]]
    BY <1>1 DEF AllocatePages
  <1>4. /\ b \in Block /\ b[2] = OrderFor(n) /\ b[1] # 0 /\ \A d \in blocks : Apart(b, d)
    BY DEF FreeBlocks, Unowned
  <1>5. n <= Pow[b[2]] * PageSize
    BY <1>1, <1>2, <1>4, OrderHolds
  <1>6. Sound(blocks, slabs, partial, full, held)
    BY DEF IInv
  <1>7. Sound(blocks \cup {b}, slabs, partial, full, held')
    BY <1>1, <1>2, <1>3, <1>4, <1>5, <1>6, PagesAllocated
  <1>8. IInv'
    BY <1>2, <1>3, <1>7 DEF IInv
  <1>9. held \in [Pointers -> Given \cup {NULL}]
    BY <1>6 DEF Sound, Typed
  <1> DEFINE r == [addr |-> b[1] * PageSize, size |-> n]
  <1>10. r # NULL
    BY <1>1, <1>4, BlockAddress, SlabAssumption
  <1>11. held' = [held EXCEPT ![v] = r]
    BY <1>3
  <1> HIDE DEF r
  <1>12. GivenTo(v)
    BY <1>2, <1>9, <1>10, <1>11 DEF GivenTo
  <1> QED  BY <1>8, <1>12

\* free of pages.
LEMMA FreePagesSound ==
    ASSUME IInv, NEW v \in Pointers, FreePages(v)
    PROVE  IInv'
  <1>1. /\ held[v] # NULL /\ held[v].addr % PageSize = 0 /\ held' = [held EXCEPT ![v] = NULL]
        /\ slabs' = slabs /\ partial' = partial /\ full' = full
    BY DEF FreePages
  <1>2. PICK b \in blocks : b[1] = held[v].addr \div PageSize /\ blocks' = blocks \ {b}
    BY DEF FreePages
  <1>3. Sound(blocks, slabs, partial, full, held)
    BY DEF IInv
  <1>4. Sound(blocks \ {b}, slabs, partial, full, held')
    BY <1>1, <1>2, <1>3, PagesFreed
  <1> QED  BY <1>1, <1>2, <1>4 DEF IInv

\* free of a chunk.
LEMMA FreeChunkSound ==
    ASSUME IInv, NEW v \in Pointers, FreeChunk(v)
    PROVE  IInv'
  <1>1. /\ Sound(blocks, slabs, partial, full, held)
        /\ Typed(blocks, slabs, partial, full, held) /\ Placed(blocks, slabs, held)
    BY DEF IInv, Sound
  <1>2. PICK a : a = held[v].addr
    OBVIOUS
  <1>3. PICK p : p = a \div PageSize
    OBVIOUS
  <1>4. PICK c : c = slabs[p].cache
    OBVIOUS
  <1>5. PICK back : back = [slabs[p] EXCEPT !.free_list = <<a>> \o @, !.free_count = @ + 1]
    OBVIOUS
  <1>6. /\ held[v] # NULL /\ a % PageSize # 0 /\ slabs' = [slabs EXCEPT ![p] = back]
        /\ held' = [held EXCEPT ![v] = NULL] /\ blocks' = blocks
        /\ \/ /\ back.free_count = 1 /\ full[c] # <<>>
              /\ full' = [full EXCEPT ![c] = Unlink(@, p)]
              /\ partial' = [partial EXCEPT ![c] = <<p>> \o @]
           \/ /\ ~ (back.free_count = 1 /\ full[c] # <<>>)
              /\ partial' = partial /\ full' = full
    BY <1>2, <1>3, <1>4, <1>5 DEF FreeChunk, NoLongerFull
  <1>7. /\ p \in DOMAIN slabs
        /\ \E i \in 1 .. NumObjs(c) : a = Chunk(c, p, i) /\ held[v].size <= ObjSize(c)
    <2>1. p = held[v].addr \div PageSize /\ held[v].addr % PageSize # 0 /\ held[v] # NULL
      BY <1>2, <1>3, <1>6
    <2>2. \/ /\ held[v].addr % PageSize = 0 /\ p \notin DOMAIN slabs
             /\ \E b \in blocks : b[1] = p /\ held[v].addr = b[1] * PageSize
                                  /\ held[v].size <= Pow[b[2]] * PageSize
          \/ /\ held[v].addr % PageSize # 0 /\ p \in DOMAIN slabs
             /\ \E i \in 1 .. NumObjs(slabs[p].cache) :
                   /\ held[v].addr = Chunk(slabs[p].cache, p, i)
                   /\ held[v].size <= ObjSize(slabs[p].cache)
      BY ONLY <1>1, <2>1, PageTells
    <2> QED  BY <1>2, <1>4, <2>1, <2>2
  <1>8. PICK i \in 1 .. NumObjs(c) : a = Chunk(c, p, i)
    BY <1>7
  <1>9. Giving(slabs, partial, full, held, v, a, p, c, i, back, slabs', partial', full', held')
    BY <1>2, <1>4, <1>5, <1>6, <1>7, <1>8 DEF Giving
  <1>10. Sound(blocks, slabs', partial', full', held')
    BY <1>1, <1>9, ChunkFreed
  <1> QED  BY <1>6, <1>10 DEF IInv
LEMMA NextSound == IInv /\ [Next]_vars => IInv'
  <1> SUFFICES ASSUME IInv, [Next]_vars PROVE IInv'
    OBVIOUS
  <1>1. ASSUME NEW v \in Pointers, NEW n \in Sizes, AllocatePages(v, n) PROVE IInv'
    BY <1>1, AllocatePagesSound
  <1>2. ASSUME NEW v \in Pointers, NEW n \in Sizes, AllocateChunk(v, n) PROVE IInv'
    BY <1>2, AllocateChunkSound
  <1>3. ASSUME NEW v \in Pointers, FreePages(v) PROVE IInv'
    BY <1>3, FreePagesSound
  <1>4. ASSUME NEW v \in Pointers, FreeChunk(v) PROVE IInv'
    BY <1>4, FreeChunkSound
  <1>5. CASE UNCHANGED vars
    <2>1. /\ blocks' = blocks /\ slabs' = slabs /\ partial' = partial
          /\ full' = full /\ held' = held
      BY <1>5 DEF vars
    <2> QED  BY <2>1 DEF IInv
  <1> QED  BY <1>1, <1>2, <1>3, <1>4, <1>5 DEF Next

\* In every reachable state each slab and each allocation has a part of the
\* memory of its own, and each chunk of a slab is on its free list or with the
\* one pointer it was given to.
THEOREM Inductive == Spec => []IInv
  <1> QED  BY InitSound, NextSound, PTL DEF Spec

-----------------------------------------------------------------------------
(* What the runs check                                                     *)

\* Two lists without an entry in common.
LEMMA BothLists ==
    ASSUME NEW T, NEW s \in Seq(T), NEW t \in Seq(T), IsInjective(s), IsInjective(t),
           ToSet(s) \cap ToSet(t) = {}
    PROVE  IsInjective(s \o t)
  <1>1. /\ s \o t \in Seq(T) /\ Len(s \o t) = Len(s) + Len(t)
        /\ \A i \in 1 .. Len(s) + Len(t) :
              (s \o t)[i] = IF i <= Len(s) THEN s[i] ELSE t[i - Len(s)]
    BY ConcatProperties
  <1> DEFINE u == s \o t  m == Len(s)  k == Len(t)
  <1>2. /\ m \in Nat /\ k \in Nat /\ DOMAIN s = 1 .. m /\ DOMAIN t = 1 .. k
        /\ DOMAIN u = 1 .. m + k
        /\ \A i \in 1 .. m + k : u[i] = IF i <= m THEN s[i] ELSE t[i - m]
    BY <1>1, LenProperties
  <1> HIDE DEF u, m, k
  <1>3. \A i \in 1 .. m : s[i] \in ToSet(s)
    BY <1>2 DEF ToSet
  <1>4. \A i \in 1 .. k : t[i] \in ToSet(t)
    BY <1>2 DEF ToSet
  <1> SUFFICES ASSUME NEW i \in 1 .. m + k, NEW j \in 1 .. m + k, u[i] = u[j] PROVE i = j
    BY <1>2 DEF IsInjective, u
  <1>5. CASE i <= m /\ j <= m
    <2>1. i \in 1 .. m /\ j \in 1 .. m /\ s[i] = s[j]
      BY <1>2, <1>5
    <2> QED  BY <2>1, <1>2 DEF IsInjective
  <1>6. CASE i > m /\ j > m
    <2>1. i - m \in 1 .. k /\ j - m \in 1 .. k /\ t[i - m] = t[j - m]
      BY <1>2, <1>6
    <2>2. i - m = j - m
      BY <2>1, <1>2 DEF IsInjective
    <2> QED  BY <2>2, <1>2
  <1>7. CASE i <= m /\ j > m
    <2>1. i \in 1 .. m /\ j - m \in 1 .. k /\ s[i] = t[j - m]
      BY <1>2, <1>7
    <2> QED  BY <2>1, <1>3, <1>4
  <1>8. CASE i > m /\ j <= m
    <2>1. j \in 1 .. m /\ i - m \in 1 .. k /\ s[j] = t[i - m]
      BY <1>2, <1>8
    <2> QED  BY <2>1, <1>3, <1>4
  <1> QED  BY <1>2, <1>5, <1>6, <1>7, <1>8

LEMMA AccountsFollow == IInv => SlabsAccountForChunks
  <1> SUFFICES ASSUME IInv, NEW c \in Caches
               PROVE  /\ IsInjective(partial[c] \o full[c])
                      /\ \A p \in Listed(c) :
                            LET s == slabs[p]
                                out == {v \in Pointers : held[v] # NULL
                                           /\ held[v].addr \div PageSize = p}
                            IN  /\ s.cache = c
                                /\ s.free_count = Len(s.free_list)
                                /\ IsInjective(s.free_list)
                                /\ s.free_count = 0 <=> p \in ToSet(full[c])
                                /\ ToSet(s.free_list) \cup {held[v].addr : v \in out}
                                      = ToSet(NewSlab(c, p).free_list)
                                /\ s.free_count + Cardinality(out) = NumObjs(c)
    BY DEF SlabsAccountForChunks
  <1>1. /\ partial[c] \in Seq(Page) /\ full[c] \in Seq(Page)
        /\ IsInjective(partial[c]) /\ IsInjective(full[c])
        /\ \A p \in ToSet(partial[c]) :
              p \in DOMAIN slabs /\ slabs[p].cache = c /\ slabs[p].free_count > 0
        /\ \A p \in ToSet(full[c]) :
              p \in DOMAIN slabs /\ slabs[p].cache = c /\ slabs[p].free_count = 0
        /\ \A p \in DOMAIN slabs : Accounted(slabs[p], held, p) /\ p \in Page
    BY DEF IInv, Sound, Typed, Lists
  <1>2. ToSet(partial[c]) \cap ToSet(full[c]) = {}
    BY <1>1
  <1>3. IsInjective(partial[c] \o full[c])
    BY <1>1, <1>2, BothLists
  <1>4. ASSUME NEW p \in Listed(c)
        PROVE  /\ slabs[p].cache = c
               /\ slabs[p].free_count = Len(slabs[p].free_list)
               /\ IsInjective(slabs[p].free_list)
               /\ slabs[p].free_count = 0 <=> p \in ToSet(full[c])
               /\ ToSet(slabs[p].free_list) \cup OutAddr(held, p) = ToSet(NewSlab(c, p).free_list)
               /\ slabs[p].free_count + Cardinality(Out(held, p)) = NumObjs(c)
    <2>1. /\ p \in DOMAIN slabs /\ slabs[p].cache = c /\ p \in Page
          /\ slabs[p].free_count = 0 <=> p \in ToSet(full[c])
      BY <1>1 DEF Listed
    <2>2. Accounted(slabs[p], held, p)
      BY <1>1, <2>1
    <2>3. ToSet(NewSlab(c, p).free_list) = Chunks(c, p)
      BY DEF ToSet, NewSlab, Chunks
    <2> QED  BY <2>1, <2>2, <2>3 DEF Accounted
  <1> QED  BY <1>3, <1>4 DEF Out, OutAddr

LEMMA GoesHome == IInv => FreeGoesHome
  <1> SUFFICES ASSUME IInv, NEW v \in Pointers, held[v] # NULL, NEW p,
                      p = held[v].addr \div PageSize
               PROVE  IF held[v].addr % PageSize = 0
                      THEN p \notin DOMAIN slabs /\ \E b \in blocks : b[1] = p
                      ELSE /\ p \in DOMAIN slabs
                           /\ held[v].addr + held[v].size <= (p + 1) * PageSize
    BY DEF FreeGoesHome
  <1>1. /\ Typed(blocks, slabs, partial, full, held) /\ Placed(blocks, slabs, held)
        /\ held[v] # NULL /\ p = held[v].addr \div PageSize
    BY DEF IInv, Sound
  <1>2. \/ /\ held[v].addr % PageSize = 0 /\ p \notin DOMAIN slabs
           /\ \E b \in blocks : b[1] = p /\ held[v].addr = b[1] * PageSize
                                /\ held[v].size <= Pow[b[2]] * PageSize
        \/ /\ held[v].addr % PageSize # 0 /\ p \in DOMAIN slabs
           /\ \E i \in 1 .. NumObjs(slabs[p].cache) :
                 /\ held[v].addr = Chunk(slabs[p].cache, p, i)
                 /\ held[v].size <= ObjSize(slabs[p].cache)
    BY ONLY <1>1, PageTells
  <1>3. CASE held[v].addr % PageSize = 0
    BY <1>2, <1>3
  <1>4. CASE held[v].addr % PageSize # 0
    <2>1. /\ p \in DOMAIN slabs
          /\ \E i \in 1 .. NumObjs(slabs[p].cache) :
                 /\ held[v].addr = Chunk(slabs[p].cache, p, i)
                 /\ held[v].size <= ObjSize(slabs[p].cache)
      BY <1>2, <1>4
    <2>2. PICK c : c = slabs[p].cache
      OBVIOUS
    <2>3. c \in Caches /\ p \in Nat /\ held[v].addr \in Nat /\ held[v].size \in Nat
      <3>1. p \in DOMAIN slabs /\ DOMAIN slabs \subseteq Page /\ slabs[p] \in Slab
        BY <1>1, <2>1 DEF Typed
      <3>2. c \in Caches /\ p \in Nat
        BY <3>1, <2>2 DEF Slab, Page
      <3>3. held[v] \in Given
        BY <1>1 DEF Typed
      <3>4. held[v].addr \in Nat /\ held[v].size \in Nat
        BY <3>3 DEF Given
      <3> QED  BY <3>2, <3>4
    <2>4. PICK i \in 1 .. NumObjs(c) : held[v].addr = Chunk(c, p, i) /\ held[v].size <= ObjSize(c)
      BY <2>1, <2>2
    <2>5. Chunk(c, p, i) + ObjSize(c) <= (p + 1) * PageSize
      BY <2>3, ChunkInPage
    <2> DEFINE a == held[v].addr  z == held[v].size  k == (p + 1) * PageSize  o == ObjSize(c)
    <2>6. /\ a \in Nat /\ z \in Nat /\ k \in Int /\ o \in Nat /\ a + o <= k /\ z <= o
      BY <2>3, <2>4, <2>5, ChunksFit
    <2> HIDE DEF a, z, k, o
    <2>7. a + z <= k
      BY ONLY <2>6
    <2> QED  BY <1>4, <2>1, <2>7 DEF a, z, k
  <1> QED  BY <1>3, <1>4

\* Slabs, their lists and the pointers that are out always agree, and a
\* pointer always goes back to the allocator it came from.
THEOREM HeapAlwaysSound == Spec => []HeapSound
  <1>1. IInv => TypeOK
    BY DEF IInv, Sound, Typed, TypeOK, Slab, Given
  <1>2. IInv => HeapSound
    BY <1>1, AccountsFollow, GoesHome DEF HeapSound
  <1> QED  BY <1>2, Inductive, PTL
\* A pointer gets an allocation: what the promise calls Allocate.
LEMMA AllocateKeeps ==
    ASSUME IInv', NEW v \in Pointers, GivenTo(v)
    PROVE  HeapOf!Allocate(v)
  <1>1. PICK B, S, P, F, H : /\ B = blocks' /\ S = slabs' /\ P = partial'
                             /\ F = full' /\ H = held'
    OBVIOUS
  <1>2. Typed(B, S, P, F, H) /\ Placed(B, S, H)
    BY <1>1 DEF IInv, Sound
  <1>3. held[v] = NULL /\ H[v] # NULL /\ \A w \in Pointers \ {v} : H[w] = held[w]
    BY <1>1 DEF GivenTo
  <1>4. H[v].size \in Nat
    <2>1. H[v] \in Given
      BY <1>2, <1>3 DEF Typed
    <2> QED  BY <2>1 DEF Given
  <1>5. ASSUME NEW w \in Pointers \ {v}, held[w] # NULL
        PROVE  HeapOf!Disjoint(H[v], held[w])
    <2>1. H[w] = held[w] /\ H[w] # NULL /\ v # w
      BY <1>3, <1>5
    <2>2. HeapOf!Disjoint(H[v], H[w])
      BY ONLY <1>2, <1>3, <2>1, Separate
    <2> QED  BY <2>1, <2>2
  <1>6. H = held'
    BY <1>1
  <1> QED  BY <1>3, <1>4, <1>5, <1>6 DEF HeapOf!Allocate

\* Every step of the heap is a step of what it promises, or none.
LEMMA StepKeepsPromise ==
    ASSUME IInv, IInv', [Next]_vars
    PROVE  [HeapOf!Next]_held
  <1>1. ASSUME NEW v \in Pointers, NEW n \in Sizes, AllocatePages(v, n)
        PROVE  HeapOf!Next
    <2>1. HeapOf!Allocate(v)
      BY <1>1, AllocatePagesSound, AllocateKeeps
    <2> QED  BY <2>1 DEF HeapOf!Next
  <1>2. ASSUME NEW v \in Pointers, NEW n \in Sizes, AllocateChunk(v, n)
        PROVE  HeapOf!Next
    <2>1. HeapOf!Allocate(v)
      BY <1>2, AllocateChunkSound, AllocateKeeps
    <2> QED  BY <2>1 DEF HeapOf!Next
  <1>3. ASSUME NEW v \in Pointers, FreePages(v) \/ FreeChunk(v)
        PROVE  HeapOf!Next
    <2>1. HeapOf!Release(v)
      BY <1>3 DEF FreePages, FreeChunk, HeapOf!Release
    <2> QED  BY <2>1 DEF HeapOf!Next
  <1>4. CASE UNCHANGED vars
    BY <1>4 DEF vars
  <1> QED  BY <1>1, <1>2, <1>3, <1>4 DEF Next

\* allocate only ever hands out memory that is large enough and that no other
\* pointer has; free takes back what it is given and nothing else.
THEOREM KeepsPromise == Spec => HeapPromise
  <1>1. Init => HeapOf!Init
    BY DEF Init, HeapOf!Init
  <1>2. IInv /\ IInv' /\ [Next]_vars => [HeapOf!Next]_held
    BY StepKeepsPromise
  <1> QED  BY <1>1, <1>2, Inductive, PTL DEF Spec, HeapPromise, HeapOf!Spec
=============================================================================
