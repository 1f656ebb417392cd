------------------------------- MODULE Kmalloc -----------------------------
(***************************************************************************)
(* The kernel's dynamic memory: allocate and free of kernel/kmalloc.c,     *)
(* which choose between the slab allocator of kernel/slab.c and the buddy  *)
(* system by size and by alignment.  The buddy system is what it promises  *)
(* (PageAllocator): some block that no one holds, NULL when there is none. *)
(*                                                                         *)
(* Addresses are bytes.  The sizes of pages, headers and chunks are        *)
(* constants, so that TLC can have pages of 64 bytes.                      *)
(***************************************************************************)
EXTENDS BlockGeometry, FiniteSets, Sequences, SequencesExt

CONSTANTS
    PageSize,       \* PAGE_SIZE
    HeaderSize,     \* ALIGN8(sizeof(slab_t))
    SlabShift,      \* SLAB_SHIFT
    CacheCount,     \* SLAB_CACHE_COUNT
    SlabMax,        \* SLAB_ALLOC_MAX
    IntBits,        \* the width of an int
    Sizes,          \* the arguments callers pass to allocate
    Pointers,       \* the callers' pointers
    NULL

ASSUME SlabAssumption ==
    /\ SlabMax = 2 ^ (SlabShift + CacheCount - 1)
    /\ HeaderSize \in 1 .. PageSize - SlabMax
    /\ NULL \notin [addr : Nat, size : Nat]

VARIABLES
    blocks,     \* page blocks the buddy system has handed out
    slabs,      \* the slab_t at the start of each slab page
    partial,    \* slab_caches[i].partial, first entry first
    full,       \* slab_caches[i].full
    held        \* what the callers were given and have not freed

vars == <<blocks, slabs, partial, full, held>>

Caches == 0 .. CacheCount - 1

\* slab_init
ObjSize(c) == 2 ^ (c + SlabShift)

(***************************************************************************)
(* Arithmetic of powers of two, spelled out because nothing below computes *)
(* with them; callers pass sizes that an int holds: there is less memory   *)
(* than that.                                                              *)
(***************************************************************************)
ASSUME SizeAssumption ==
    /\ PageSize \in Nat /\ SlabMax \in Nat
    /\ \A c \in Caches : ObjSize(c) \in 1 .. SlabMax
    /\ 2 ^ (IntBits - 1) \in Nat /\ 2 ^ IntBits = 2 * 2 ^ (IntBits - 1)
    /\ Sizes \subseteq 0 .. 2 ^ (IntBits - 1) - 1

\* The argument of allocate(int) is the value modulo the width of an int.
ToInt(n) == ((n + 2 ^ (IntBits - 1)) % 2 ^ IntBits) - 2 ^ (IntBits - 1)

\* The least order whose block holds size bytes (buddy_malloc).
OrderFor(size) ==
    LET n == (size + PageSize - 1) \div PageSize
    IN  CHOOSE k \in Orders : Pow[k] >= n /\ \A j \in 0 .. k - 1 : Pow[j] < n

\* Page 0 is reserved at boot; its address is NULL.
Unowned(b) == b[1] # 0 /\ \A c \in blocks : Apart(b, c)

FreeBlocks(k) == {b \in Block : b[2] = k /\ Unowned(b)}

Init ==
    /\ blocks = {}
    /\ slabs = [p \in {} |-> 0]
    /\ partial = [c \in Caches |-> <<>>]
    /\ full = [c \in Caches |-> <<>>]
    /\ held = [v \in Pointers |-> NULL]

-----------------------------------------------------------------------------
(* slab_malloc                                                             *)

NumObjs(c) == (PageSize - HeaderSize) \div ObjSize(c)

\* A slip: chunks half as far apart.
ChunkTooNear(c, p, i) == p * PageSize + HeaderSize + (i - 1) * 4

\* The address of the i-th chunk of a slab of cache c on page p.
Chunk(c, p, i) == p * PageSize + HeaderSize + (i - 1) * ObjSize(c)

\* The slab_t that slab_create writes at the start of page p, with a free
\* list of all chunks in the order of their addresses.
NewSlab(c, p) ==
    [cache |-> c,
     free_list |-> [i \in 1 .. NumObjs(c) |-> Chunk(c, p, i)],
     free_count |-> NumObjs(c)]

\* The first chunk of slab s on page p goes to v; a slab that has no more
\* goes from the head of the partial list (part) to the full one.
TakeChunk(v, size, p, s, part) ==
    LET c == s.cache
        left == [s EXCEPT !.free_list = Tail(@), !.free_count = @ - 1]
    IN
    /\ held' = [held EXCEPT ![v] = [addr |-> Head(s.free_list), size |-> size]]
    /\ slabs' = [q \in DOMAIN slabs \cup {p} |-> IF q = p THEN left ELSE slabs[q]]
    /\ IF left.free_count = 0
       THEN /\ partial' = [partial EXCEPT ![c] = Tail(part)]
            /\ full' = [full EXCEPT ![c] = <<p>> \o @]
       ELSE /\ partial' = [partial EXCEPT ![c] = part]
            /\ UNCHANGED full

FromPartial(v, size, c) ==
    /\ partial[c] # <<>>
    /\ LET p == Head(partial[c])
       IN  TakeChunk(v, size, p, slabs[p], partial[c])
    /\ UNCHANGED blocks

\* slab_create, then the chunk.
FromNewSlab(v, size, c) ==
    /\ partial[c] = <<>>
    /\ \E b \in FreeBlocks(0) :
          /\ blocks' = blocks \cup {b}
          /\ TakeChunk(v, size, b[1], NewSlab(c, b[1]), <<b[1]>>)

\* slab_create does not look at what buddy_malloc returned: without a page
\* the new slab is written at NULL, over page 0.  A second one would be
\* written over the first, list links included: the model stops short of it.
FromNullSlab(v, size, c) ==
    /\ partial[c] = <<>>
    /\ 0 \notin DOMAIN slabs
    /\ FreeBlocks(0) = {}
    /\ TakeChunk(v, size, 0, NewSlab(c, 0), <<0>>)
    /\ UNCHANGED blocks

-----------------------------------------------------------------------------
(* allocate(n) for the pointer v                                           *)

IsPages(size) == size > SlabMax /\ size < Pow[MaxOrder] * PageSize

AllocatePages(v, n) ==
    /\ held[v] = NULL
    /\ IsPages(ToInt(n))
    /\ \E b \in FreeBlocks(OrderFor(ToInt(n))) :
          /\ blocks' = blocks \cup {b}
          /\ held' = [held EXCEPT ![v] = [addr |-> b[1] * PageSize, size |-> n]]
    /\ UNCHANGED <<slabs, partial, full>>

AllocateChunk(v, n) ==
    /\ held[v] = NULL
    /\ ToInt(n) <= SlabMax
    /\ \E c \in Caches :
          /\ ObjSize(c) >= ToInt(n)
          /\ \A d \in 0 .. c - 1 : ObjSize(d) < ToInt(n)
          /\ \/ FromPartial(v, n, c)
             \/ FromNewSlab(v, n, c)
             \/ FromNullSlab(v, n, c)

\* A request for more than the largest block, or for pages there are none
\* of, returns NULL and changes nothing.

-----------------------------------------------------------------------------
(* free                                                                    *)

\* A page-aligned address goes to buddy_free.
FreePages(v) ==
    /\ held[v] # NULL
    /\ held[v].addr % PageSize = 0
    /\ \E b \in blocks :
          /\ b[1] = held[v].addr \div PageSize
          /\ blocks' = blocks \ {b}
    /\ held' = [held EXCEPT ![v] = NULL]
    /\ UNCHANGED <<slabs, partial, full>>

\* A slip: the list is left one chunk too late.
NoLongerFullLate(s) == s.free_count = 2

\* The first chunk has come back.
NoLongerFull(s) == s.free_count = 1

\* list_del
Unlink(list, p) == RemoveAt(list, CHOOSE i \in DOMAIN list : list[i] = p)

\* Any other to slab_free, which finds the slab_t at the start of its page.
FreeChunk(v) ==
    LET addr == held[v].addr
        p == addr \div PageSize
        s == slabs[p]
        back == [s EXCEPT !.free_list = <<addr>> \o @, !.free_count = @ + 1]
        c == s.cache
    IN
    /\ held[v] # NULL
    /\ addr % PageSize # 0
    /\ slabs' = [slabs EXCEPT ![p] = back]
    /\ held' = [held EXCEPT ![v] = NULL]
    /\ IF NoLongerFull(back) /\ full[c] # <<>>
       THEN /\ full' = [full EXCEPT ![c] = Unlink(@, p)]
            /\ partial' = [partial EXCEPT ![c] = <<p>> \o @]
       ELSE UNCHANGED <<partial, full>>
    /\ UNCHANGED blocks

Next ==
    \E v \in Pointers :
       \/ \E n \in Sizes : AllocatePages(v, n) \/ AllocateChunk(v, n)
       \/ FreePages(v)
       \/ FreeChunk(v)

Spec == Init /\ [][Next]_vars

-----------------------------------------------------------------------------
(* Properties                                                              *)

\* Lists hold pages, slabs belong to caches, pointers are addresses or NULL.
TypeOK ==
    /\ blocks \subseteq Block
    /\ \A c \in Caches : partial[c] \in Seq(Page) /\ full[c] \in Seq(Page)
    /\ \A p \in DOMAIN slabs : p \in Page /\ slabs[p].cache \in Caches
    /\ \A v \in Pointers : held[v] # NULL => held[v].addr \in Nat

Listed(c) == ToSet(partial[c]) \cup ToSet(full[c])

\* The lists of a cache and the counts in its slabs agree: a slab is listed
\* once, on the full list exactly when it has no chunk left, and every chunk
\* is on the free list or with one caller.
SlabsAccountForChunks ==
    \A c \in Caches :
        /\ IsInjective(partial[c] \o full[c])
        /\ \A p \in Listed(c) :
              LET s == slabs[p]
                  out == {v \in Pointers : held[v] # NULL
                             /\ held[v].addr \div PageSize = p}
              IN  /\ s.cache = c
                  /\ s.free_count = Len(s.free_list)
                  /\ IsInjective(s.free_list)
                  /\ s.free_count = 0 <=> p \in ToSet(full[c])
                  /\ ToSet(s.free_list) \cup {held[v].addr : v \in out}
                        = ToSet(NewSlab(c, p).free_list)
                  /\ s.free_count + Cardinality(out) = NumObjs(c)

\* A pointer goes back to the allocator it came from: a chunk is never
\* page-aligned and lies in a slab page, a block starts a page of its own.
FreeGoesHome ==
    \A v \in Pointers : held[v] # NULL =>
        LET p == held[v].addr \div PageSize IN
        IF held[v].addr % PageSize = 0
        THEN p \notin DOMAIN slabs /\ \E b \in blocks : b[1] = p
        ELSE p \in DOMAIN slabs /\ held[v].addr + held[v].size <= (p + 1) * PageSize

(* Slabs, their lists and the pointers that are out agree.                 *)
HeapSound == TypeOK /\ SlabsAccountForChunks /\ FreeGoesHome

\* allocate hands out memory that is large enough and that no one else has.
HeapOf == INSTANCE Heap
HeapPromise == HeapOf!Spec
=============================================================================
