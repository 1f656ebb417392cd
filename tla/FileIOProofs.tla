---------------------------- MODULE FileIOProofs ----------------------------
(***************************************************************************)
(* Files for any number of tasks, descriptors and struct files, any file   *)
(* size and any bytes.                                                     *)
(*                                                                         *)
(* A call is cut into steps, so what it read from its struct file in one   *)
(* step has to hold in the next: that rests on the struct file being the   *)
(* call's own.  Owned says so of every struct file that is not leaked: it  *)
(* is free, or of one open descriptor, or of one call, or of one exec that *)
(* has not closed it, or a parent is filling it for its child.             *)
(***************************************************************************)
EXTENDS FileIO, FiniteSetTheorems, TLAPS

Kinds == Nodes \cup {"none", "initramfs"}
AnyByte == Bytes \cup {Old} \cup {Program[i] : i \in DOMAIN Program}
Sizes == 0 .. SizeMod - 1
Records == [node : Kinds, pos : Sizes]

WritePcs == {"test", "set"}
ReadPcs == {"short", "copy", "advance"}

Calls ==
    [pc : {"user", "unborn", "wild"}]
        \cup [pc : {"test", "close", "again"}, obj : Objs]
        \cup [pc : {"set"}, obj : Objs, seen : Nat]
        \cup [pc : {"clear"}, fd : Fds]
        \cup [pc : {"fork"}, child : Tasks, fd : Nat]
        \cup [pc : {"fill"}, child : Tasks, fd : Fds, obj : Objs]
        \cup [pc : {"short"}, obj : Objs, n : Counts, node : Kinds, whole : BOOLEAN]
        \cup [pc : {"copy"}, obj : Objs, n : Counts, node : Kinds, whole : BOOLEAN, len : Nat]
        \cup [pc : {"advance"}, obj : Objs, n : Counts, node : Kinds, whole : BOOLEAN,
              got : Seq(AnyByte)]

Typed ==
    /\ data \in [1 .. MAX_FILE_SIZE -> AnyByte]
    /\ datasize \in 0 .. MAX_FILE_SIZE /\ top \in 0 .. MAX_FILE_SIZE
    /\ file \in [Objs -> Records]
    /\ free \in Seq(Objs)
    /\ fds \in [Tasks -> [Fds -> Objs \cup {0}]]
    /\ call \in [Tasks -> Calls]
    /\ out = [t \in Tasks |-> out[t]]
    /\ past \subseteq Events

IsFree(o) == \E i \in 1 .. Len(free) : free[i] = o
HasOpen(t, o) == \E fd \in Fds : IsOpen(t, fd) /\ fds[t][fd] = o
Writes(t, o) == call[t].pc \in WritePcs /\ call[t].obj = o
Reads(t, o) == call[t].pc \in ReadPcs /\ call[t].obj = o
Loads(t, o) == call[t].pc = "close" /\ call[t].obj = o
Fills(t, o) == call[t].pc = "fill" /\ call[t].obj = o
InCall(t, o) == Writes(t, o) \/ Reads(t, o) \/ Loads(t, o)

\* The struct file of a call is of the kind the call found it to be, and no
\* one fills a struct file that says what it is.  A write stays in its page,
\* and goes to set the size only from where the size was less.
OnFiles ==
    \A t \in Tasks : LET c == call[t] IN
        /\ c.pc \in WritePcs =>
              file[c.obj].node = "tmpfs" /\ file[c.obj].pos <= MAX_FILE_SIZE
        /\ c.pc = "set" => c.seen < file[c.obj].pos
        /\ c.pc \in ReadPcs => c.node # "none" /\ file[c.obj].node = c.node
        /\ c.pc = "short" => ~ c.whole
        /\ c.pc = "close" => file[c.obj].node = "initramfs"
        /\ c.pc = "fill" => fds[t][c.fd] # 0 /\ file[c.obj].node = "none"

FreeOnce == \A i, j \in 1 .. Len(free) : free[i] = free[j] => i = j
FreeIsNone == \A o \in Objs : IsFree(o) => file[o].node = "none"
FdsApart ==
    \A t, u \in Tasks, i, j \in Fds :
        IsOpen(t, i) /\ IsOpen(u, j) /\ fds[t][i] = fds[u][j] => t = u /\ i = j
FdsNotFree == \A t \in Tasks, o \in Objs : HasOpen(t, o) => ~ IsFree(o)
CallsApart ==
    \A t \in Tasks, o \in Objs : InCall(t, o) =>
        /\ ~ IsFree(o)
        /\ \A u \in Tasks : HasOpen(u, o) => u = t /\ ~ Loads(t, o)
        /\ \A u \in Tasks : InCall(u, o) => u = t
FillsApart ==
    \A t \in Tasks, o \in Objs : Fills(t, o) =>
        /\ ~ IsFree(o)
        /\ \A u \in Tasks : Fills(u, o) => u = t
        /\ \A u \in Tasks, j \in Fds :
              IsOpen(u, j) /\ fds[u][j] = o => u = call[t].child /\ j = call[t].fd
Owned == FreeOnce /\ FreeIsNone /\ FdsApart /\ FdsNotFree /\ CallsApart /\ FillsApart

\* The first m bytes of a file are there, and none is what the page held.
FilledIn(bytes, node, m) ==
    /\ node = "tmpfs" => m <= MAX_FILE_SIZE /\ \A i \in 1 .. m : bytes[i] # Old
    /\ node = "initramfs" => m <= Len(Program)
Filled(node, m) == FilledIn(data, node, m)

\* What makes reads sound while no position is moved past the end.  The file
\* and what lies before any position are filled;
Calm == "beyond" \notin past /\ "reused" \notin past
FilesFilled ==
    /\ Filled("tmpfs", datasize)
    /\ \A o \in Objs : Filled(file[o].node, file[o].pos)

\* a read under way copies, and moves by, what is filled, and no more than was
\* asked for unless the size has grown on it;
ReadSound(t) ==
    LET c == call[t] p == file[c.obj].pos IN
    /\ c.pc = "copy" => Filled(c.node, p + c.len) /\ (c.whole => c.len = c.n)
    /\ c.pc = "advance" => \A i \in 1 .. Len(c.got) : c.got[i] # Old
    /\ c.pc = "advance" /\ c.whole => Filled(c.node, p + c.n) /\ Len(c.got) = c.n
    /\ "grown" \notin past =>
        /\ c.pc = "short" => c.n + p > Size(c.node)
        /\ c.pc = "copy" => c.len <= c.n
        /\ c.pc = "advance" => Len(c.got) <= c.n
    /\ "shrunk" \notin past /\ c.pc \in {"copy", "advance"} /\ c.whole => c.n + p <= Size(c.node)

\* and only a write under way stands past the end.
PositionsInFile ==
    "shrunk" \notin past =>
        \A o \in Objs : file[o].node = "tmpfs" /\ file[o].pos > datasize =>
            \E t \in Tasks : Writes(t, o)

Quiet == Calm => FilesFilled /\ PositionsInFile /\ \A t \in Tasks : ReadSound(t)

LEMMA Constants ==
    /\ 0 \notin Objs /\ Objs \subseteq Nat
    /\ Len(Program) \in Nat /\ DOMAIN Program = 1 .. Len(Program)
    /\ [i \in Objs |-> i] \in Seq(Objs)
    /\ Fds \subseteq Nat
<1>1. Cardinality(Objs) \in Nat /\ Objs = 1 .. Cardinality(Objs)
  BY FileAssumption, FS_CardinalityType
<1>2. PICK n \in Nat : n = Cardinality(Objs) /\ Objs = 1 .. n
  BY <1>1
<1>3. [i \in 1 .. n |-> i] \in Seq(Objs)
  BY <1>2
<1>4. [i \in Objs |-> i] \in Seq(Objs)
  BY <1>2, <1>3
<1>5. Len(Program) \in Nat /\ DOMAIN Program = 1 .. Len(Program)
  BY FileAssumption
<1>6. 0 \notin Objs /\ Objs \subseteq Nat
  BY <1>2
<1>. QED
  BY <1>4, <1>5, <1>6 DEF Fds

LEMMA MaxOfTwo ==
    ASSUME NEW m \in Int, NEW n \in Int
    PROVE  Max({m, n}) = IF m < n THEN n ELSE m
BY DEF Max

\* The first chunk is taken off the free list.
LEMMA TakeFirst ==
    ASSUME free \in Seq(Objs), free # <<>>
    PROVE  /\ Head(free) \in Objs /\ Tail(free) \in Seq(Objs)
           /\ Head(free) = free[1] /\ Len(free) \in Nat /\ 1 \in 1 .. Len(free)
           /\ Len(Tail(free)) = Len(free) - 1
           /\ \A i \in 1 .. Len(Tail(free)) : i + 1 \in 1 .. Len(free) /\ Tail(free)[i] = free[i + 1]
OBVIOUS

\* A chunk is put before the others.
LEMMA PutFirst ==
    ASSUME free \in Seq(Objs), NEW o \in Objs
    PROVE  /\ Freed(o) \in Seq(Objs) /\ Len(free) \in Nat
           /\ Len(Freed(o)) = Len(free) + 1
           /\ Freed(o)[1] = o
           /\ \A i \in 2 .. Len(free) + 1 : i - 1 \in 1 .. Len(free) /\ Freed(o)[i] = free[i - 1]
BY DEF Freed

\* What the free list holds when the first chunk is taken, and after one is
\* put back.
LEMMA Taken ==
    ASSUME free \in Seq(Objs), free # <<>>, FreeOnce, free' = Tail(free)
    PROVE  FreeOnce' /\ IsFree(Head(free))
           /\ \A o : IsFree(o)' <=> IsFree(o) /\ o # Head(free)
<1>1. FreeOnce'
  BY TakeFirst DEF FreeOnce
<1>2. IsFree(Head(free))
  BY TakeFirst DEF IsFree
<1>3. ASSUME NEW o, IsFree(o)' PROVE IsFree(o) /\ o # Head(free)
  <2>1. PICK i \in 1 .. Len(Tail(free)) : Tail(free)[i] = o
    BY <1>3 DEF IsFree
  <2>2. i + 1 \in 1 .. Len(free) /\ free[i + 1] = o /\ i + 1 # 1
    BY <2>1, TakeFirst
  <2>. QED
    BY <2>2, TakeFirst DEF IsFree, FreeOnce
<1>4. ASSUME NEW o, IsFree(o), o # Head(free) PROVE IsFree(o)'
  <2>1. PICK i \in 1 .. Len(free) : free[i] = o
    BY <1>4 DEF IsFree
  <2>2. i # 1
    BY <1>4, <2>1, TakeFirst
  <2>3. i - 1 \in 1 .. Len(Tail(free)) /\ Tail(free)[i - 1] = o
    BY <2>1, <2>2, TakeFirst
  <2>. QED
    BY <2>3 DEF IsFree
<1>. QED
  BY <1>1, <1>2, <1>3, <1>4

LEMMA PutBack ==
    ASSUME free \in Seq(Objs), FreeOnce, NEW r \in Objs, ~ IsFree(r), free' = Freed(r)
    PROVE  FreeOnce' /\ \A o : IsFree(o)' <=> IsFree(o) \/ o = r
<1>1. PICK n \in Nat : n = Len(free)
  BY PutFirst
<1>2. free' = Freed(r) /\ Len(free') = n + 1 /\ free'[1] = r
  BY <1>1, PutFirst
<1>3. \A i \in 1 .. n : free'[i + 1] = free[i]
  <2>1. ASSUME NEW i \in 1 .. n PROVE free'[i + 1] = free[i]
    <3>1. i + 1 \in 2 .. n + 1 /\ (i + 1) - 1 = i
      BY <1>1
    <3>. QED
      BY SMTT(30), <1>1, <1>2, <3>1, PutFirst
  <2>. QED
    BY <2>1
<1>4. \A i \in 1 .. n + 1 : i # 1 => i - 1 \in 1 .. n /\ free'[i] = free[i - 1]
  <2>1. ASSUME NEW i \in 1 .. n + 1, i # 1 PROVE i - 1 \in 1 .. n /\ (i - 1) + 1 = i
    BY <1>1, <2>1
  <2>. QED
    BY <1>3, <2>1
<1>5. \A i \in 1 .. n : free[i] # r
  BY <1>1 DEF IsFree
<1>6. FreeOnce'
  <2>. SUFFICES ASSUME NEW i \in 1 .. n + 1, NEW j \in 1 .. n + 1, free'[i] = free'[j]
                PROVE  i = j
    BY <1>2 DEF FreeOnce
  <2>1. CASE i = 1 \/ j = 1
    BY <1>2, <1>4, <1>5, <2>1
  <2>2. CASE i # 1 /\ j # 1
    <3>1. i - 1 = j - 1
      BY <1>1, <1>4, <2>2 DEF FreeOnce
    <3>. QED
      BY <1>1, <3>1
  <2>. QED
    BY <2>1, <2>2
<1>7. ASSUME NEW o, IsFree(o)' PROVE IsFree(o) \/ o = r
  <2>1. PICK i \in 1 .. n + 1 : free'[i] = o
    BY <1>2, <1>7 DEF IsFree
  <2>. QED
    BY <1>1, <1>2, <1>4, <2>1 DEF IsFree
<1>8. ASSUME NEW o, IsFree(o) \/ o = r PROVE IsFree(o)'
  <2>1. CASE o = r
    <3>1. 1 \in 1 .. n + 1
      BY <1>1
    <3>. QED
      BY <1>2, <2>1, <3>1 DEF IsFree
  <2>2. CASE IsFree(o)
    <3>1. PICK i \in 1 .. n : free[i] = o
      BY <1>1, <2>2 DEF IsFree
    <3>2. i + 1 \in 1 .. n + 1 /\ free'[i + 1] = o
      BY <1>1, <1>3, <3>1
    <3>. QED
      BY <1>2, <3>2 DEF IsFree
  <2>. QED
    BY <1>8, <2>1, <2>2
<1>. QED
  BY <1>6, <1>7, <1>8

LEMMA Sizing ==
    /\ MAX_FILE_SIZE \in Nat /\ SizeMod \in Nat /\ MAX_FILE_SIZE < SizeMod
    /\ \A n \in Counts \cup {Len(Program)} :
        n \in Sizes /\ n + MAX_FILE_SIZE < SizeMod /\ n + Len(Program) < SizeMod
    /\ \A m \in Sizes : Wrapped(m) = m
    /\ \A m \in Sizes, n \in Sizes : Wrapped(m + n) \in Sizes
    /\ \A m \in Offsets : Wrapped(m) \in Sizes
<1>1. MAX_FILE_SIZE \in Nat /\ SizeMod \in Nat /\ Len(Program) \in Nat
      /\ Len(Program) + MAX_FILE_SIZE < SizeMod
  BY FileAssumption, Constants
<1>2. \A n \in Counts \cup {Len(Program)} :
        n \in Sizes /\ n + MAX_FILE_SIZE < SizeMod /\ n + Len(Program) < SizeMod
  BY <1>1, FileAssumption DEF Sizes
<1>3. \A m \in Sizes : Wrapped(m) = m
  BY <1>1 DEF Sizes, Wrapped
<1>4. \A m \in Sizes, n \in Sizes : Wrapped(m + n) \in Sizes
  BY <1>1 DEF Sizes, Wrapped
<1>5. \A m \in Offsets : Wrapped(m) \in Sizes
  BY <1>1, FileAssumption DEF Sizes, Wrapped
<1>. QED
  BY <1>1, <1>2, <1>3, <1>4, <1>5

LEMMA CallKinds ==
    ASSUME NEW c \in Calls
    PROVE  /\ c.pc \in {"user", "unborn", "wild", "test", "close", "again", "set", "clear",
                        "fork", "fill", "short", "copy", "advance"}
           /\ c.pc \in {"test", "close", "again"} => c \in [pc : {"test", "close", "again"}, obj : Objs]
           /\ c.pc = "set" => c \in [pc : {"set"}, obj : Objs, seen : Nat]
           /\ c.pc = "clear" => c \in [pc : {"clear"}, fd : Fds]
           /\ c.pc = "fork" => c \in [pc : {"fork"}, child : Tasks, fd : Nat]
           /\ c.pc = "fill" => c \in [pc : {"fill"}, child : Tasks, fd : Fds, obj : Objs]
           /\ c.pc = "short" =>
                 c \in [pc : {"short"}, obj : Objs, n : Counts, node : Kinds, whole : BOOLEAN]
           /\ c.pc = "copy" =>
                 c \in [pc : {"copy"}, obj : Objs, n : Counts, node : Kinds, whole : BOOLEAN, len : Nat]
           /\ c.pc = "advance" =>
                 c \in [pc : {"advance"}, obj : Objs, n : Counts, node : Kinds, whole : BOOLEAN,
                        got : Seq(AnyByte)]
BY DEF Calls

\* Whatever a call works on is a struct file.
LEMMA CallObjs ==
    ASSUME Typed, NEW t \in Tasks, NEW o
    PROVE  /\ InCall(t, o) \/ Fills(t, o) => o \in Objs
           /\ call[t].pc \in WritePcs \cup ReadPcs \cup {"close", "again", "fill"} => call[t].obj \in Objs
           /\ HasOpen(t, o) => o \in Objs
<1>1. call[t].pc \in WritePcs \cup ReadPcs \cup {"close", "again", "fill"} => call[t].obj \in Objs
  BY CallKinds DEF Typed, WritePcs, ReadPcs
<1>. QED
  BY <1>1 DEF InCall, Writes, Reads, Loads, Fills, HasOpen, IsOpen, Typed

LEMMA Changed ==
    ASSUME file \in [Objs -> Records], NEW o \in Objs, NEW v \in Records, file' = [file EXCEPT ![o] = v]
    PROVE  /\ file' \in [Objs -> Records] /\ file'[o] = v
           /\ \A r \in Objs \ {o} : file'[r] = file[r]
OBVIOUS

LEMMA SizeTyped ==
    ASSUME Typed, NEW node
    PROVE  Size(node) \in Sizes /\ Size(node) \in Nat
BY Sizing, Constants DEF Size, Sizes, Typed

LEMMA SpanTyped ==
    ASSUME Typed, NEW node \in Kinds, NEW p \in Nat, NEW n \in Nat
    PROVE  Span(node, p, n) \in Seq(AnyByte) /\ Len(Span(node, p, n)) = n
<1>. DEFINE At_(i) == IF p + i > SizeMod THEN p + i - SizeMod ELSE p + i
<1>1. \A j \in DOMAIN Holds(node) : Holds(node)[j] \in AnyByte
  BY DEF Typed, Holds, AnyByte
<1>2. \A i \in 1 .. n :
          (IF At_(i) \in DOMAIN Holds(node) THEN Holds(node)[At_(i)] ELSE Old) \in AnyByte
  BY <1>1 DEF AnyByte
<1>3. Span(node, p, n) \in [1 .. n -> AnyByte]
  BY <1>2 DEF Span
<1>. QED
  BY <1>3

\* A call of t moves t on, and fork starts another task; no call that has
\* begun is touched by another.
LEMMA CallMoves ==
    ASSUME Typed, OnFiles, NEW t \in Tasks, Call(t) \/ Step(t)
    PROVE  /\ call' \in [Tasks -> Calls]
           /\ \A u \in Tasks \ {t} : call'[u] = call[u] \/ (call[u].pc = "unborn" /\ call'[u] = Idle)
           /\ call[t].pc # "unborn"
           /\ call'[t].pc # "unborn"
<1>. DEFINE P == /\ call' \in [Tasks -> Calls]
                 /\ \A u \in Tasks \ {t} :
                        call'[u] = call[u] \/ (call[u].pc = "unborn" /\ call'[u] = Idle)
                 /\ call'[t].pc # "unborn" /\ call[t].pc # "unborn"
<1>0. call \in [Tasks -> Calls] /\ Idle \in Calls /\ [pc |-> "wild"] \in Calls
  BY DEF Typed, Calls, Idle
<1>1. ASSUME NEW c \in Calls, c.pc # "unborn", call' = [call EXCEPT ![t] = c], call[t].pc # "unborn"
      PROVE  P
  BY <1>0, <1>1
<1>2. ASSUME UNCHANGED call, call[t].pc # "unborn" PROVE P
  BY <1>0, <1>2
<1>3. [pc |-> "wild"].pc # "unborn" /\ Idle.pc # "unborn"
  BY DEF Idle
<1>. USE DEF At, Goto, GoWild
<1>4. CASE Call(t)
  <2>1. CASE ExecOpen(t)
    <3>1. Head(free) \in Objs /\ call[t].pc = "user"
      BY <2>1, TakeFirst DEF ExecOpen, Typed
    <3>2. [pc |-> "close", obj |-> Head(free)] \in Calls
      BY <3>1 DEF Calls
    <3>. QED
      BY <1>1, <2>1, <3>1, <3>2 DEF ExecOpen
  <2>2. CASE Unfilled(t)
    BY <1>0, <1>1, <1>3, <2>2 DEF Unfilled
  <2>3. ASSUME NEW child \in Tasks, Fork(t, child) PROVE P
    <3>1. /\ call[t].pc = "user" /\ call[child].pc = "unborn" /\ child # t
          /\ call' = [call EXCEPT ![t] = [pc |-> "fork", child |-> child, fd |-> 1], ![child] = Idle]
      BY <2>3 DEF Fork
    <3>2. [pc |-> "fork", child |-> child, fd |-> 1] \in Calls
      BY DEF Calls
    <3>. QED
      BY <1>0, <3>1, <3>2
  <2>4. ASSUME NEW fd \in Fds, NEW node \in Nodes, Open(t, fd, node) PROVE P
    BY <1>2, <2>4 DEF Open
  <2>5. ASSUME NEW fd \in Fds, Close(t, fd) PROVE P
    <3>1. [pc |-> "clear", fd |-> fd] \in Calls
      BY DEF Calls
    <3>. QED
      BY <1>1, <2>5, <3>1 DEF Close, Begins
  <2>6. ASSUME NEW fd \in Fds, NEW p \in Offsets, Lseek(t, fd, p) PROVE P
    BY <1>2, <2>6 DEF Lseek, Begins
  <2>7. ASSUME NEW fd \in Fds, NEW b \in Bytes, NEW n \in Counts, WriteCopy(t, fd, b, n) PROVE P
    <3>1. fds[t][fd] \in Objs /\ call[t].pc = "user"
      BY <2>7 DEF WriteCopy, Begins, Typed
    <3>2. [pc |-> "test", obj |-> fds[t][fd]] \in Calls
      BY <3>1 DEF Calls
    <3>3. \/ call' = [call EXCEPT ![t] = [pc |-> "test", obj |-> fds[t][fd]]]
          \/ call' = [call EXCEPT ![t] = [pc |-> "wild"]]
      BY <2>7 DEF WriteCopy
    <3>. QED
      BY <1>0, <1>1, <1>3, <3>1, <3>2, <3>3
  <2>8. ASSUME NEW fd \in Fds, NEW n \in Counts, ReadTest(t, fd, n) PROVE P
    <3>. DEFINE o == fds[t][fd]
                k == file[o].node
    <3>1. o \in Objs /\ call[t].pc = "user" /\ n \in Nat /\ k \in Kinds
      BY <2>8, FileAssumption DEF ReadTest, Begins, Typed, Records
    <3>2. /\ [pc |-> "short", obj |-> o, n |-> n, node |-> k, whole |-> FALSE] \in Calls
          /\ [pc |-> "copy", obj |-> o, n |-> n, node |-> k, whole |-> TRUE, len |-> n] \in Calls
      BY <3>1 DEF Calls
    <3>3. \/ call' = [call EXCEPT ![t] = [pc |-> "short", obj |-> o, n |-> n, node |-> k, whole |-> FALSE]]
          \/ call' = [call EXCEPT ![t] = [pc |-> "copy", obj |-> o, n |-> n, node |-> k, whole |-> TRUE,
                                        len |-> n]]
      BY <2>8 DEF ReadTest
    <3>. QED
      BY <1>1, <3>1, <3>2, <3>3
  <2>. QED
    BY <1>4, <2>1, <2>2, <2>3, <2>4, <2>5, <2>6, <2>7, <2>8 DEF Call
<1>5. CASE Step(t)
  <2>. DEFINE c == call[t]
  <2>0. c \in Calls
    BY <1>0
  <2>1. CASE CloseClear(t) \/ WriteSet(t) \/ ReadAdvance(t)
    BY <1>0, <1>1, <1>3, <2>1 DEF CloseClear, WriteSet, ReadAdvance
  <2>2. CASE ForkAllocate(t)
    <3>1. c \in [pc : {"fork"}, child : Tasks, fd : Nat] /\ c.pc = "fork"
      BY <2>0, <2>2, CallKinds DEF ForkAllocate
    <3>2. [c EXCEPT !.fd = @ + 1] \in Calls /\ [c EXCEPT !.fd = @ + 1].pc = "fork"
      BY <3>1 DEF Calls
    <3>3. CASE c.fd \in Fds /\ fds[t][c.fd] # 0 /\ free # <<>>
      <4>1. Head(free) \in Objs
        BY <3>3, TakeFirst DEF Typed
      <4>2. [pc |-> "fill", child |-> c.child, fd |-> c.fd, obj |-> Head(free)] \in Calls
        BY <3>1, <3>3, <4>1 DEF Calls
      <4>. QED
        BY <1>1, <2>2, <3>1, <3>3, <4>2 DEF ForkAllocate, ForkCopies
    <3>4. CASE ~ (c.fd \in Fds /\ fds[t][c.fd] # 0 /\ free # <<>>)
      <4>1. call' = [call EXCEPT ![t] = Idle] \/ call' = [call EXCEPT ![t] = [c EXCEPT !.fd = @ + 1]]
        BY <2>2, <3>4 DEF ForkAllocate
      <4>. QED
        BY <1>0, <1>1, <1>3, <3>1, <3>2, <4>1
    <3>. QED
      BY <3>3, <3>4
  <2>3. CASE ForkFill(t)
    <3>1. c \in [pc : {"fill"}, child : Tasks, fd : Fds, obj : Objs] /\ c.pc = "fill"
      BY <2>0, <2>3, CallKinds DEF ForkFill
    <3>2. [pc |-> "fork", child |-> c.child, fd |-> c.fd + 1] \in Calls
      <4>1. c.child \in Tasks /\ c.fd \in Fds
        BY <3>1
      <4>. HIDE DEF c
      <4>2. c.fd + 1 \in Nat
        BY <4>1, Constants DEF Fds
      <4>. QED
        BY <4>1, <4>2 DEF Calls
    <3>3. \/ call' = [call EXCEPT ![t] = [pc |-> "fork", child |-> c.child, fd |-> c.fd + 1]]
          \/ call' = [call EXCEPT ![t] = [pc |-> "wild"]]
      BY <2>3 DEF ForkFill
    <3>. QED
      BY <1>0, <1>1, <1>3, <3>1, <3>2, <3>3
  <2>4. CASE WriteTest(t)
    <3>1. c \in [pc : {"test", "close", "again"}, obj : Objs] /\ c.pc = "test"
      BY <2>0, <2>4, CallKinds DEF WriteTest
    <3>2. [pc |-> "set", obj |-> c.obj, seen |-> datasize] \in Calls
      BY <3>1, Sizing DEF Calls, Typed
    <3>3. \/ call' = [call EXCEPT ![t] = [pc |-> "set", obj |-> c.obj, seen |-> datasize]]
          \/ call' = [call EXCEPT ![t] = Idle]
      BY <2>4 DEF WriteTest
    <3>. QED
      BY <1>0, <1>1, <1>3, <3>1, <3>2, <3>3
  <2>5. CASE ReadLen(t)
    <3>. DEFINE l == Size(c.node) - file[c.obj].pos
    <3>1. c \in [pc : {"short"}, obj : Objs, n : Counts, node : Kinds, whole : BOOLEAN] /\ c.pc = "short"
      BY <2>0, <2>5, CallKinds DEF ReadLen
    <3>2. file[c.obj].pos \in Nat /\ Size(c.node) \in Nat
      BY <3>1, SizeTyped DEF Typed, Records, Sizes
    <3>3. CASE Size(c.node) < file[c.obj].pos
      BY <1>0, <1>1, <1>3, <2>5, <3>1, <3>3 DEF ReadLen
    <3>4. CASE ~ (Size(c.node) < file[c.obj].pos)
      <4>1. l \in Nat
        BY <3>2, <3>4
      <4>2. [pc |-> "copy", obj |-> c.obj, n |-> c.n, node |-> c.node, whole |-> FALSE, len |-> l] \in Calls
        BY <3>1, <4>1 DEF Calls
      <4>3. call' = [call EXCEPT ![t] = [pc |-> "copy", obj |-> c.obj, n |-> c.n, node |-> c.node,
                                         whole |-> FALSE, len |-> l]]
        BY <2>5, <3>4 DEF ReadLen, LenLeft
      <4>. QED
        BY <1>1, <3>1, <4>2, <4>3
    <3>. QED
      BY <3>3, <3>4
  <2>6. CASE ReadCopy(t)
    <3>. DEFINE g == Span(c.node, file[c.obj].pos, c.len)
    <3>1. c \in [pc : {"copy"}, obj : Objs, n : Counts, node : Kinds, whole : BOOLEAN, len : Nat]
          /\ c.pc = "copy"
      BY <2>0, <2>6, CallKinds DEF ReadCopy
    <3>2. g \in Seq(AnyByte)
      <4>1. file[c.obj].pos \in Nat
        BY <3>1 DEF Typed, Records, Sizes
      <4>. QED
        BY <3>1, <4>1, SpanTyped
    <3>. HIDE DEF g
    <3>3. [pc |-> "advance", obj |-> c.obj, n |-> c.n, node |-> c.node, whole |-> c.whole, got |-> g] \in Calls
      BY <3>1, <3>2 DEF Calls
    <3>4. call' = [call EXCEPT ![t] = [pc |-> "advance", obj |-> c.obj, n |-> c.n, node |-> c.node,
                                       whole |-> c.whole, got |-> g]]
      BY <2>6 DEF ReadCopy, g
    <3>. QED
      BY <1>1, <3>1, <3>3, <3>4
  <2>7. CASE ExecClose(t)
    <3>1. c \in [pc : {"test", "close", "again"}, obj : Objs] /\ c.pc = "close"
      BY <2>0, <2>7, CallKinds DEF ExecClose
    <3>2. [c EXCEPT !.pc = "again"] \in Calls /\ [c EXCEPT !.pc = "again"].pc = "again"
      BY <3>1 DEF Calls
    <3>. QED
      BY <1>1, <2>7, <3>1, <3>2 DEF ExecClose
  <2>8. CASE ExecReadAgain(t)
    <3>1. c.pc = "again" /\ (call' = [call EXCEPT ![t] = Idle] \/ call' = [call EXCEPT ![t] = [pc |-> "wild"]])
      BY <2>8 DEF ExecReadAgain
    <3>. QED
      BY <1>0, <1>1, <1>3, <3>1
  <2>. QED
    BY <1>5, <2>1, <2>2, <2>3, <2>4, <2>5, <2>6, <2>7, <2>8 DEF Step
<1>. QED
  BY <1>4, <1>5

\* Which struct file a step of t changes: a free one, one of its own, the one
\* it fills for its child, or the one exec has closed.
Fresh(o) == IsFree(o)
Own(t, o) == (HasOpen(t, o) /\ call[t].pc = "user" /\ file[o].node # "none") \/ InCall(t, o)
Copied(t, o) ==
    /\ Fills(t, o) /\ fds[call[t].child][call[t].fd] = o
    /\ call'[t].pc = "fork"
    /\ file'[o] = file[fds[t][call[t].fd]]
Again(t, o) ==
    /\ call[t] = [pc |-> "again", obj |-> o] /\ call'[t] # call[t]
    /\ file'[o].node = file[o].node
    /\ file[o].node # "none" => "reused" \in past'
    /\ file[o].node = "tmpfs" /\ file[o].pos <= MAX_FILE_SIZE =>
          file[o].pos <= file'[o].pos /\ file'[o].pos <= MAX_FILE_SIZE

LEMMA FileMoves ==
    ASSUME Typed, OnFiles, NEW t \in Tasks, Call(t) \/ Step(t)
    PROVE  \/ UNCHANGED file
           \/ \E o \in Objs, v \in Records :
                /\ file' = [file EXCEPT ![o] = v]
                /\ Fresh(o) \/ Own(t, o) \/ Copied(t, o) \/ Again(t, o)
<1>. DEFINE P == \/ UNCHANGED file
                 \/ \E o \in Objs, v \in Records :
                      /\ file' = [file EXCEPT ![o] = v]
                      /\ Fresh(o) \/ Own(t, o) \/ Copied(t, o) \/ Again(t, o)
            c == call[t]
<1>0. c \in Calls
  BY DEF Typed
<1>. USE DEF At
<1>1. ASSUME NEW fd \in Fds, NEW v \in Records, Begins(t, fd), file' = [file EXCEPT ![fds[t][fd]] = v]
      PROVE  P
  <2>1. fds[t][fd] \in Objs /\ c.pc = "user"
    BY <1>1 DEF Begins, Typed
  <2>2. HasOpen(t, fds[t][fd]) /\ file[fds[t][fd]].node # "none"
    BY <1>1, <2>1 DEF HasOpen, IsOpen, Begins
  <2>. QED
    BY <1>1, <2>1, <2>2 DEF Own
<1>2. ASSUME NEW v \in Records, InCall(t, c.obj), file' = [file EXCEPT ![c.obj] = v] PROVE P
  <2>1. c.obj \in Objs
    BY <1>2, CallObjs
  <2>. QED
    BY <1>2, <2>1 DEF Own
<1>3. ASSUME NEW v \in Records, free # <<>>, file' = [file EXCEPT ![Head(free)] = v] PROVE P
  <2>1. Head(free) \in Objs /\ IsFree(Head(free))
    BY <1>3, TakeFirst DEF IsFree, Typed
  <2>. QED
    BY <1>3, <2>1 DEF Fresh
<1>4. \A o \in Objs, p \in Sizes : [file[o] EXCEPT !.pos = p] \in Records
  BY DEF Typed, Records
<1>5. \A o \in Objs : [file[o] EXCEPT !.node = "none"] \in Records
  BY DEF Typed, Records, Kinds
<1>6. CASE Call(t)
  <2>1. CASE ExecOpen(t)
    <3>1. [node |-> "initramfs", pos |-> Len(Program)] \in Records
      BY Sizing DEF Records, Kinds
    <3>. QED
      BY <1>3, <2>1, <3>1 DEF ExecOpen
  <2>2. CASE Unfilled(t) \/ \E child \in Tasks : Fork(t, child)
    BY <2>2 DEF Unfilled, Fork
  <2>3. ASSUME NEW fd \in Fds, NEW node \in Nodes, Open(t, fd, node) PROVE P
    <3>1. [node |-> node, pos |-> 0] \in Records
      BY Sizing DEF Records, Kinds, Sizes
    <3>. QED
      BY <1>3, <2>3, <3>1 DEF Open
  <2>4. ASSUME NEW fd \in Fds, Close(t, fd) PROVE P
    <3>1. fds[t][fd] \in Objs
      BY <2>4 DEF Close, Begins, Typed
    <3>. QED
      BY <1>1, <1>5, <2>4, <3>1 DEF Close
  <2>5. ASSUME NEW fd \in Fds, NEW p \in Offsets, Lseek(t, fd, p) PROVE P
    <3>1. fds[t][fd] \in Objs /\ Wrapped(p) \in Sizes
      BY <2>5, Sizing DEF Lseek, Begins, Typed
    <3>. QED
      BY <1>1, <1>4, <2>5, <3>1 DEF Lseek
  <2>6. ASSUME NEW fd \in Fds, NEW b \in Bytes, NEW n \in Counts, WriteCopy(t, fd, b, n) PROVE P
    <3>. DEFINE o == fds[t][fd]
    <3>1. o \in Objs /\ file[o].pos \in Sizes
      BY <2>6 DEF WriteCopy, Begins, Typed, Records
    <3>2. CASE file[o].pos + n <= MAX_FILE_SIZE
      <4>1. file[o].pos + n \in Sizes
        <5>1. n \in Nat /\ MAX_FILE_SIZE \in Nat /\ SizeMod \in Nat /\ MAX_FILE_SIZE < SizeMod
          BY Sizing DEF Sizes
        <5>2. file[o].pos \in Nat
          BY <3>1, <5>1 DEF Sizes
        <5>. QED
          BY <3>2, <5>1, <5>2 DEF Sizes
      <4>2. file' = [file EXCEPT ![o] = [file[o] EXCEPT !.pos = file[o].pos + n]] /\ Begins(t, fd)
        <5>1. file[o].pos + n \in Int /\ MAX_FILE_SIZE \in Int
          BY <4>1, Sizing DEF Sizes
        <5>. QED
          BY <2>6, <3>2, <5>1 DEF WriteCopy
      <4>. QED
        BY <1>1, <1>4, <3>1, <4>1, <4>2
    <3>3. CASE ~ (file[o].pos + n <= MAX_FILE_SIZE)
      BY <2>6, <3>3 DEF WriteCopy
    <3>. QED
      BY <3>2, <3>3
  <2>7. ASSUME NEW fd \in Fds, NEW n \in Counts, ReadTest(t, fd, n) PROVE P
    BY <2>7 DEF ReadTest
  <2>. QED
    BY <1>6, <2>1, <2>2, <2>3, <2>4, <2>5, <2>6, <2>7 DEF Call
<1>7. CASE Step(t)
  <2>1. CASE CloseClear(t) \/ ForkAllocate(t) \/ WriteTest(t) \/ WriteSet(t) \/ ReadLen(t) \/ ReadCopy(t)
    BY <2>1 DEF CloseClear, ForkAllocate, WriteTest, WriteSet, ReadLen, ReadCopy
  <2>2. CASE ForkFill(t)
    <3>1. c \in [pc : {"fill"}, child : Tasks, fd : Fds, obj : Objs] /\ c.pc = "fill"
      BY <1>0, <2>2, CallKinds DEF ForkFill
    <3>2. fds[t][c.fd] \in Objs
      BY <3>1 DEF OnFiles, Typed
    <3>3. file[fds[t][c.fd]] \in Records
      BY <3>2 DEF Typed
    <3>4. CASE ~ UNCHANGED file
      <4>1. /\ fds[c.child][c.fd] = c.obj /\ file' = [file EXCEPT ![c.obj] = file[fds[t][c.fd]]]
            /\ call' = [call EXCEPT ![t] = [pc |-> "fork", child |-> c.child, fd |-> c.fd + 1]]
        BY <2>2, <3>4 DEF ForkFill, Goto
      <4>2. Copied(t, c.obj)
        BY <3>1, <4>1 DEF Copied, Fills, Typed
      <4>. QED
        BY <3>1, <3>3, <4>1, <4>2
    <3>. QED
      BY <3>4
  <2>3. CASE ReadAdvance(t)
    <3>1. c \in [pc : {"advance"}, obj : Objs, n : Counts, node : Kinds, whole : BOOLEAN,
                 got : Seq(AnyByte)] /\ c.pc = "advance"
      BY <1>0, <2>3, CallKinds DEF ReadAdvance
    <3>2. file[c.obj].pos \in Sizes /\ Size(c.node) \in Sizes /\ c.n \in Sizes
      BY <3>1, SizeTyped, Sizing DEF Typed, Records
    <3>. DEFINE p == IF c.whole THEN Wrapped(file[c.obj].pos + c.n)
                     ELSE Advanced(file[c.obj].pos, Size(c.node))
    <3>3. p \in Sizes
      <4>1. Advanced(file[c.obj].pos, Size(c.node)) = Size(c.node)
        BY <3>2 DEF Advanced, Sizes
      <4>. QED
        BY <3>2, <4>1, Sizing
    <3>4. file' = [file EXCEPT ![c.obj] = [file[c.obj] EXCEPT !.pos = p]]
      BY <2>3 DEF ReadAdvance
    <3>5. InCall(t, c.obj)
      BY <3>1 DEF InCall, Reads, ReadPcs
    <3>. HIDE DEF p
    <3>. QED
      BY <1>2, <1>4, <3>1, <3>3, <3>4, <3>5
  <2>4. CASE ExecClose(t)
    <3>1. c.obj \in Objs /\ InCall(t, c.obj)
      BY <2>4, CallObjs DEF ExecClose, InCall, Loads
    <3>2. file' = [file EXCEPT ![c.obj] = [file[c.obj] EXCEPT !.node = "none"]]
      BY <2>4 DEF ExecClose
    <3>. QED
      BY <1>2, <1>5, <3>1, <3>2
  <2>5. CASE ExecReadAgain(t) /\ ~ UNCHANGED file
    <3>. DEFINE o == c.obj
    <3>1. c \in [pc : {"test", "close", "again"}, obj : Objs] /\ c.pc = "again"
      BY <1>0, <2>5, CallKinds DEF ExecReadAgain
    <3>2. file[o].pos \in Sizes /\ Size(file[o].node) \in Sizes
      BY <3>1, SizeTyped DEF Typed, Records
    <3>3. PICK n \in Sizes :
            /\ file' = [file EXCEPT ![o] = [file[o] EXCEPT !.pos = Wrapped(file[o].pos + n)]]
            /\ call' = [call EXCEPT ![t] = Idle]
            /\ file[o].node # "none" =>
                /\ "reused" \in past'
                /\ \/ n = Len(Program) /\ Wrapped(n + file[o].pos) <= Size(file[o].node)
                   \/ file[o].pos <= Size(file[o].node) /\ n = Size(file[o].node) - file[o].pos
      <4>1. CASE file[o].node = "none"
        <5>1. PICK n \in 0 .. Len(Program) : file' = [file EXCEPT ![o].pos = Wrapped(@ + n)]
                                            /\ call' = [call EXCEPT ![t] = Idle]
          BY <2>5, <4>1 DEF ExecReadAgain, Goto
        <5>2. n \in Sizes
          BY <5>1, Sizing DEF Sizes
        <5>. QED
          BY <4>1, <5>1, <5>2
      <4>2. CASE file[o].node # "none"
        <5>1. "reused" \in past' /\ call' = [call EXCEPT ![t] = Idle]
          BY <2>5, <4>2 DEF ExecReadAgain, Goto
        <5>2. \/ /\ Wrapped(Len(Program) + file[o].pos) <= Size(file[o].node)
                 /\ file' = [file EXCEPT ![o].pos = Wrapped(@ + Len(Program))]
              \/ /\ file[o].pos <= Size(file[o].node)
                 /\ file' = [file EXCEPT ![o].pos = Wrapped(@ + (Size(file[o].node) - file[o].pos))]
          BY <2>5, <4>2 DEF ExecReadAgain
        <5>3. Len(Program) \in Sizes
              /\ (file[o].pos <= Size(file[o].node) => Size(file[o].node) - file[o].pos \in Sizes)
          BY <3>2, Sizing DEF Sizes
        <5>. QED
          BY <5>1, <5>2, <5>3
      <4>. QED
        BY <4>1, <4>2
    <3>4. Wrapped(file[o].pos + n) \in Sizes
      BY <3>2, Sizing
    <3>5. file'[o].node = file[o].node /\ file'[o].pos = Wrapped(file[o].pos + n)
      BY <3>1, <3>3, <3>4 DEF Typed, Records
    <3>6. ASSUME file[o].node = "tmpfs", file[o].pos <= MAX_FILE_SIZE
          PROVE  file[o].pos <= file'[o].pos /\ file'[o].pos <= MAX_FILE_SIZE
      <4>1. Size(file[o].node) = datasize /\ datasize <= MAX_FILE_SIZE /\ datasize \in Nat
        BY <3>6, Sizing DEF Size, Typed
      <4>2. CASE n = Len(Program)
        <5>0. n \in Sizes /\ n + MAX_FILE_SIZE < SizeMod /\ MAX_FILE_SIZE \in Nat /\ SizeMod \in Nat
          BY <4>2, Sizing
        <5>1. file[o].pos + n = n + file[o].pos /\ file[o].pos + n \in Sizes
          BY <3>2, <3>6, <5>0 DEF Sizes
        <5>2. Wrapped(n + file[o].pos) = file[o].pos + n
          BY <5>1, Sizing
        <5>3. file[o].pos + n <= Size(file[o].node)
          BY <3>2, <3>3, <3>6, <4>1, <4>2, <5>1, <5>2 DEF Sizes
        <5>. QED
          BY <3>2, <3>5, <4>1, <5>1, <5>2, <5>3, Sizing DEF Sizes
      <4>3. CASE file[o].pos <= Size(file[o].node) /\ n = Size(file[o].node) - file[o].pos
        <5>1. file[o].pos + n = datasize /\ datasize \in Sizes
          BY <3>2, <3>3, <4>1, <4>3, Sizing DEF Sizes
        <5>. QED
          BY <3>5, <4>1, <4>3, <5>1, Sizing
      <4>. QED
        BY <3>3, <3>6, <4>2, <4>3
    <3>7. c = [pc |-> "again", obj |-> o] /\ call'[t] # c
      BY <3>1, <3>3 DEF Idle, Typed
    <3>8. Again(t, o)
      BY <3>3, <3>5, <3>6, <3>7 DEF Again
    <3>9. [file[o] EXCEPT !.pos = Wrapped(file[o].pos + n)] \in Records
      BY <1>4, <3>1, <3>4
    <3>. QED
      BY <3>1, <3>3, <3>8, <3>9
  <2>. QED
    BY <1>7, <2>1, <2>2, <2>3, <2>4, <2>5 DEF Step
<1>. QED
  BY <1>6, <1>7

LEMMA PastGrows ==
    ASSUME NEW t \in Tasks, Call(t) \/ Step(t)
    PROVE  past \subseteq past'
<1>1. CASE Call(t)
  BY <1>1 DEF Call, Unfilled, Open, Close, Lseek, Fork, WriteCopy, ReadTest, ExecOpen
<1>2. CASE Step(t)
  BY <1>2 DEF Step, CloseClear, ForkAllocate, ForkFill, WriteTest, WriteSet, ReadLen, ReadCopy,
              ReadAdvance, ExecClose, ExecReadAgain
<1>. QED
  BY <1>1, <1>2

\* What has been counted of a write stays in the page.
LEMMA WriteEnds ==
    ASSUME Typed, OnFiles, NEW t \in Tasks, call[t].pc \in WritePcs
    PROVE  LET p == file[call[t].obj].pos IN
           /\ call[t].obj \in Objs /\ p \in 0 .. MAX_FILE_SIZE
           /\ Max({top, p}) = (IF top < p THEN p ELSE top) /\ Max({top, p}) \in 0 .. MAX_FILE_SIZE
<1>1. call[t].obj \in Objs
  BY CallObjs
<1>2. file[call[t].obj].pos \in 0 .. MAX_FILE_SIZE
  BY <1>1, Sizing DEF OnFiles, Typed, Records, Sizes
<1>3. top \in Int /\ file[call[t].obj].pos \in Int /\ top \in 0 .. MAX_FILE_SIZE
  BY <1>2, Sizing DEF Typed
<1>4. Max({top, file[call[t].obj].pos})
          = IF top < file[call[t].obj].pos THEN file[call[t].obj].pos ELSE top
  BY <1>3, MaxOfTwo
<1>. QED
  BY <1>1, <1>2, <1>3, <1>4

LEMMA TypedKept ==
    ASSUME Typed, OnFiles, NEW t \in Tasks, Call(t) \/ Step(t)
    PROVE  Typed'
<1>1. call' \in [Tasks -> Calls]
  BY CallMoves
<1>2. file' \in [Objs -> Records]
  <2>1. CASE UNCHANGED file
    BY <2>1 DEF Typed
  <2>2. CASE ~ UNCHANGED file
    <3>1. PICK o \in Objs, v \in Records : file' = [file EXCEPT ![o] = v]
      BY <2>2, FileMoves
    <3>. QED
      BY <3>1, Changed DEF Typed
  <2>. QED
    BY <2>1, <2>2
<1>3. past' \subseteq Events
  <2>1. past' \subseteq past \cup Events
    <3>1. CASE Call(t)
      BY <3>1 DEF Call, Unfilled, Open, Close, Lseek, Fork, WriteCopy, ReadTest, ExecOpen, Events
    <3>2. CASE Step(t)
      BY <3>2 DEF Step, CloseClear, ForkAllocate, ForkFill, WriteTest, WriteSet, ReadLen, ReadCopy,
                  ReadAdvance, ExecClose, ExecReadAgain, Events
    <3>. QED
      BY <3>1, <3>2
  <2>. QED
    BY <2>1 DEF Typed
<1>4. out' = [u \in Tasks |-> out'[u]]
  <2>1. UNCHANGED out \/ \E r : out' = [out EXCEPT ![t] = r]
    <3>1. CASE Call(t)
      BY <3>1 DEF Call, Unfilled, Open, Close, Lseek, Fork, WriteCopy, ReadTest, ExecOpen, Returns
    <3>2. CASE Step(t)
      BY <3>2 DEF Step, CloseClear, ForkAllocate, ForkFill, WriteTest, WriteSet, ReadLen, ReadCopy,
                  ReadAdvance, ExecClose, ExecReadAgain, Returns
    <3>. QED
      BY <3>1, <3>2
  <2>. QED
    BY <2>1 DEF Typed
<1>5. datasize' \in 0 .. MAX_FILE_SIZE /\ top' \in 0 .. MAX_FILE_SIZE
  <2>1. CASE UNCHANGED <<datasize, top>>
    BY <2>1 DEF Typed
  <2>2. CASE WriteTest(t)
    <3>1. call[t].pc \in WritePcs /\ UNCHANGED datasize
          /\ (top' = top \/ top' = Max({top, file[call[t].obj].pos}))
      BY <2>2 DEF WriteTest, At, WritePcs
    <3>. QED
      BY <3>1, WriteEnds DEF Typed
  <2>3. CASE WriteSet(t)
    <3>1. call[t].pc \in WritePcs /\ datasize' = file[call[t].obj].pos
          /\ top' = Max({top, file[call[t].obj].pos})
      BY <2>3 DEF WriteSet, At, WritePcs
    <3>. QED
      BY <3>1, WriteEnds
  <2>4. CASE Call(t)
    BY <2>1, <2>4 DEF Call, Unfilled, Open, Close, Lseek, Fork, WriteCopy, ReadTest, ExecOpen
  <2>5. CASE Step(t) /\ ~ WriteTest(t) /\ ~ WriteSet(t)
    BY <2>1, <2>5 DEF Step, CloseClear, ForkAllocate, ForkFill, ReadLen, ReadCopy, ReadAdvance,
                      ExecClose, ExecReadAgain
  <2>. QED
    BY <2>2, <2>3, <2>4, <2>5
<1>6. data' \in [1 .. MAX_FILE_SIZE -> AnyByte]
  <2>1. ASSUME NEW fd \in Fds, NEW b \in Bytes, NEW n \in Counts, WriteCopy(t, fd, b, n)
        PROVE  data' \in [1 .. MAX_FILE_SIZE -> AnyByte]
    <3>1. b \in AnyByte
      BY DEF AnyByte
    <3>2. UNCHANGED data \/ data' = [i \in DOMAIN data |->
                IF i \in file[fds[t][fd]].pos + 1 .. file[fds[t][fd]].pos + n THEN b ELSE data[i]]
      BY <2>1 DEF WriteCopy
    <3>. QED
      BY <3>1, <3>2 DEF Typed
  <2>2. CASE Call(t) /\ \A fd \in Fds, b \in Bytes, n \in Counts : ~ WriteCopy(t, fd, b, n)
    BY <2>2 DEF Call, Unfilled, Open, Close, Lseek, Fork, ReadTest, ExecOpen, Typed
  <2>3. CASE Step(t)
    BY <2>3 DEF Step, CloseClear, ForkAllocate, ForkFill, WriteTest, WriteSet, ReadLen, ReadCopy,
                ReadAdvance, ExecClose, ExecReadAgain, Typed
  <2>. QED
    BY <2>1, <2>2, <2>3
<1>7. free' \in Seq(Objs) /\ fds' \in [Tasks -> [Fds -> Objs \cup {0}]]
  <2>. DEFINE P == free' \in Seq(Objs) /\ fds' \in [Tasks -> [Fds -> Objs \cup {0}]]
  <2>1. CASE UNCHANGED <<free, fds>>
    BY <2>1 DEF Typed
  <2>2. ASSUME NEW fd \in Fds, NEW node \in Nodes, Open(t, fd, node) PROVE P
    BY <2>2, TakeFirst DEF Open, Typed
  <2>3. ASSUME NEW fd \in Fds, Close(t, fd) PROVE P
    <3>1. fds[t][fd] \in Objs
      BY <2>3 DEF Close, Begins, Typed
    <3>. QED
      BY <2>3, <3>1, PutFirst DEF Close, Typed
  <2>4. CASE ExecOpen(t)
    BY <2>4, TakeFirst DEF ExecOpen, Typed
  <2>5. CASE CloseClear(t)
    <3>1. fds' = [fds EXCEPT ![t][call[t].fd] = 0] /\ UNCHANGED free
      BY <2>5 DEF CloseClear, Cleared
    <3>. QED
      BY <3>1 DEF Typed
  <2>6. CASE ForkAllocate(t)
    <3>1. \/ UNCHANGED <<free, fds>>
          \/ /\ free # <<>> /\ free' = Tail(free)
             /\ fds' = [fds EXCEPT ![call[t].child][call[t].fd] = Head(free)]
      BY <2>6 DEF ForkAllocate, ForkCopies
    <3>2. ASSUME free # <<>>, free' = Tail(free),
                 fds' = [fds EXCEPT ![call[t].child][call[t].fd] = Head(free)]
          PROVE  P
      BY <3>2, TakeFirst DEF Typed
    <3>. QED
      BY <2>1, <3>1, <3>2
  <2>7. CASE ExecClose(t)
    <3>1. call[t].obj \in Objs
      BY <2>7, CallObjs DEF ExecClose, At
    <3>. QED
      BY <2>7, <3>1, PutFirst DEF ExecClose, Typed
  <2>8. CASE Call(t)
    BY <2>1, <2>2, <2>3, <2>4, <2>8 DEF Call, Unfilled, Lseek, Fork, WriteCopy, ReadTest
  <2>9. CASE Step(t)
    BY <2>1, <2>5, <2>6, <2>7, <2>9 DEF Step, ForkFill, WriteTest, WriteSet, ReadLen, ReadCopy,
                                        ReadAdvance, ExecReadAgain
  <2>. QED
    BY <2>8, <2>9
<1>. QED
  BY <1>1, <1>2, <1>3, <1>4, <1>5, <1>6, <1>7 DEF Typed

LEMMA SizeKept ==
    ASSUME Typed, OnFiles, SizeCoversWrites, NEW t \in Tasks, Call(t) \/ Step(t)
    PROVE  SizeCoversWrites'
<1>. DEFINE p == file[call[t].obj].pos
<1>0. top \in Int /\ datasize \in Int
  BY DEF Typed
<1>1. CASE WriteTest(t)
  <2>1. call[t].pc \in WritePcs
        /\ top' = (IF datasize < p THEN top ELSE Max({top, p})) /\ UNCHANGED <<datasize, past>>
    BY <1>1 DEF WriteTest, At, WritePcs, Longer
  <2>2. p \in Int /\ Max({top, p}) = (IF top < p THEN p ELSE top)
    BY <2>1, WriteEnds
  <2>. QED
    BY <1>0, <2>1, <2>2 DEF SizeCoversWrites
<1>2. CASE WriteSet(t)
  <2>1. call[t].pc \in WritePcs /\ call[t].pc = "set" /\ top' = Max({top, p}) /\ datasize' = p
    BY <1>2 DEF WriteSet, At, WritePcs
  <2>2. p \in Int /\ Max({top, p}) = (IF top < p THEN p ELSE top)
    BY <2>1, WriteEnds
  <2>3. "shrunk" \notin past' => "shrunk" \notin past /\ (datasize > p => datasize = call[t].seen)
    BY <1>2 DEF WriteSet
  <2>4. call[t].seen < p /\ call[t].seen \in Int
    BY <2>1, CallKinds DEF OnFiles, Typed
  <2>. QED
    BY <1>0, <2>1, <2>2, <2>3, <2>4 DEF SizeCoversWrites
<1>3. CASE ~ WriteTest(t) /\ ~ WriteSet(t)
  <2>1. UNCHANGED <<datasize, top>>
    <3>1. CASE Call(t)
      BY <3>1 DEF Call, Unfilled, Open, Close, Lseek, Fork, WriteCopy, ReadTest, ExecOpen
    <3>2. CASE Step(t)
      BY <1>3, <3>2 DEF Step, CloseClear, ForkAllocate, ForkFill, ReadLen, ReadCopy, ReadAdvance,
                        ExecClose, ExecReadAgain
    <3>. QED
      BY <3>1, <3>2
  <2>. QED
    BY <2>1, PastGrows DEF SizeCoversWrites
<1>. QED
  BY <1>1, <1>2, <1>3

\* What a step of t leaves to a call of another, and to a struct file that
\* another fills: only the read through the closed file reaches one, and it
\* says so in past.
LEMMA OthersFiles ==
    ASSUME Typed, OnFiles, Owned, NEW t \in Tasks, Call(t) \/ Step(t),
           NEW u \in Tasks \ {t}, NEW o \in Objs, InCall(u, o) \/ Fills(u, o)
    PROVE  /\ call'[u] = call[u]
           /\ file'[o] = file[o] \/ Again(t, o)
<1>1. call'[u] = call[u]
  <2>1. call[u].pc # "unborn"
    BY DEF InCall, Writes, Reads, Loads, Fills, WritePcs, ReadPcs
  <2>. QED
    BY <2>1, CallMoves
<1>2. ~ Fresh(o)
  BY DEF Owned, CallsApart, FillsApart, Fresh
<1>3. ~ Own(t, o)
  <2>1. CASE InCall(u, o)
    BY <2>1 DEF Owned, CallsApart, Own
  <2>2. CASE Fills(u, o)
    <3>1. call[u].pc = "fill" /\ call[u].obj = o /\ file[o].node = "none"
      BY <2>2 DEF Fills, OnFiles
    <3>2. ~ InCall(t, o)
      BY <3>1, FileAssumption DEF InCall, Writes, Reads, Loads, OnFiles
    <3>. QED
      BY <3>1, <3>2 DEF Own
  <2>. QED
    BY <2>1, <2>2
<1>4. ~ Copied(t, o)
  <2>1. CASE InCall(u, o)
    <3>1. file[o].node # "none"
      BY <2>1 DEF InCall, Writes, Reads, Loads, OnFiles
    <3>. QED
      BY <3>1 DEF Copied, Fills, OnFiles
  <2>2. CASE Fills(u, o)
    BY <2>2 DEF Copied, Owned, FillsApart
  <2>. QED
    BY <2>1, <2>2
<1>. QED
  BY <1>1, <1>2, <1>3, <1>4, FileMoves, Changed DEF Typed

\* Only a fork reaches another's table, with a struct file off the free list.
LEMMA OthersTables ==
    ASSUME Typed, NEW t \in Tasks, Call(t) \/ Step(t), NEW u \in Tasks \ {t}, NEW i \in Fds,
           fds'[u][i] # fds[u][i]
    PROVE  /\ ForkAllocate(t) /\ u = call[t].child /\ i = call[t].fd
           /\ fds'[u][i] = Head(free) /\ free # <<>> /\ fds'[u][i] \in Objs
<1>1. CASE Call(t)
  BY <1>1 DEF Call, Unfilled, Open, Close, Lseek, Fork, WriteCopy, ReadTest, ExecOpen, Typed
<1>2. CASE Step(t) /\ ~ ForkAllocate(t)
  <2>1. UNCHANGED fds \/ fds' = [fds EXCEPT ![t][call[t].fd] = 0]
    BY <1>2 DEF Step, CloseClear, Cleared, ForkFill, WriteTest, WriteSet, ReadLen, ReadCopy, ReadAdvance,
                ExecClose, ExecReadAgain
  <2>. QED
    BY <2>1 DEF Typed
<1>3. CASE ForkAllocate(t)
  <2>1. /\ free # <<>>
        /\ fds' = [fds EXCEPT ![call[t].child][call[t].fd] = Head(free)]
    BY <1>3 DEF ForkAllocate, ForkCopies
  <2>2. call[t] \in [pc : {"fork"}, child : Tasks, fd : Nat] /\ Head(free) \in Objs
    BY <1>3, <2>1, CallKinds, TakeFirst DEF ForkAllocate, At, Typed
  <2>. QED
    BY <1>3, <2>1, <2>2 DEF Typed
<1>. QED
  BY <1>1, <1>2, <1>3

\* OnFiles for one call.
CallOnFile(t) ==
    LET c == call[t] IN
    /\ c.pc \in WritePcs =>
          file[c.obj].node = "tmpfs" /\ file[c.obj].pos <= MAX_FILE_SIZE
    /\ c.pc = "set" => c.seen < file[c.obj].pos
    /\ c.pc \in ReadPcs => c.node # "none" /\ file[c.obj].node = c.node
    /\ c.pc = "short" => ~ c.whole
    /\ c.pc = "close" => file[c.obj].node = "initramfs"
    /\ c.pc = "fill" => fds[t][c.fd] # 0 /\ file[c.obj].node = "none"

LEMMA OnFilesOthers ==
    ASSUME Typed, Typed', OnFiles, Owned, NEW t \in Tasks, Call(t) \/ Step(t), NEW u \in Tasks \ {t}
    PROVE  CallOnFile(u)'
<1>. DEFINE c == call[u]
            o == c.obj
<1>1. CallOnFile(u)
  BY DEF OnFiles, CallOnFile
<1>2. CASE c.pc \in WritePcs \cup ReadPcs \cup {"close", "fill"}
  <2>1. o \in Objs /\ (InCall(u, o) \/ Fills(u, o))
    BY <1>2, CallObjs DEF InCall, Writes, Reads, Loads, Fills
  <2>2. call'[u] = c /\ (file'[o] = file[o] \/ Again(t, o))
    BY <2>1, OthersFiles
  <2>3. file'[o].node = file[o].node
    BY <2>2 DEF Again
  <2>4. c.pc \in WritePcs => file[o].pos <= file'[o].pos /\ file'[o].pos <= MAX_FILE_SIZE
    <3>1. file[o].pos \in Int
      BY <2>1 DEF Typed, Records, Sizes
    <3>. QED
      BY <1>1, <2>2, <3>1 DEF CallOnFile, Again
  <2>5. c.pc = "set" => c.seen < file'[o].pos
    <3>1. file[o].pos \in Int /\ file'[o].pos \in Int
      BY <2>1 DEF Typed, Records, Sizes
    <3>2. c.pc = "set" => c.seen \in Int
      BY CallKinds DEF Typed
    <3>. QED
      BY <1>1, <2>4, <3>1, <3>2 DEF CallOnFile, WritePcs
  <2>6. c.pc = "fill" => fds'[u][c.fd] # 0
    <3>1. c.pc = "fill" => c.fd \in Fds /\ fds[u][c.fd] # 0
      BY <1>1, CallKinds DEF CallOnFile, Typed
    <3>2. \A i \in Fds : fds'[u][i] # fds[u][i] => fds'[u][i] \in Objs
      BY OthersTables
    <3>. QED
      BY <3>1, <3>2, Constants
  <2>. QED
    BY <1>1, <2>2, <2>3, <2>4, <2>5, <2>6 DEF CallOnFile
<1>3. CASE c.pc \notin WritePcs \cup ReadPcs \cup {"close", "fill"}
  <2>1. call'[u].pc \notin WritePcs \cup ReadPcs \cup {"close", "fill"}
    BY <1>3, CallMoves DEF Idle, WritePcs, ReadPcs
  <2>. QED
    BY <2>1 DEF CallOnFile, WritePcs, ReadPcs
<1>. QED
  BY <1>2, <1>3

LEMMA OnFilesKept ==
    ASSUME Typed, Typed', OnFiles, Owned, NEW t \in Tasks, Call(t) \/ Step(t)
    PROVE  OnFiles'
<1>. DEFINE c == call[t]
            Q == CallOnFile(t)'
<1>. SUFFICES Q
  <2>1. \A u \in Tasks : u # t => CallOnFile(u)'
    BY OnFilesOthers
  <2>2. Q => \A u \in Tasks : CallOnFile(u)'
    BY <2>1
  <2>. QED
    BY <2>2 DEF OnFiles, CallOnFile
<1>. USE DEF At, Goto, GoWild
<1>0. c \in Calls /\ CallOnFile(t)
  BY DEF Typed, OnFiles, CallOnFile
<1>1. ASSUME call'[t].pc \in {"user", "wild", "clear", "fork", "again"} PROVE Q
  BY <1>1 DEF CallOnFile, WritePcs, ReadPcs
<1>2. ASSUME call' = [call EXCEPT ![t] = Idle] \/ call' = [call EXCEPT ![t] = [pc |-> "wild"]] PROVE Q
  BY <1>1, <1>2 DEF Idle, Typed
<1>3. CASE Call(t)
  <2>1. CASE ExecOpen(t)
    <3>1. Head(free) \in Objs
      BY <2>1, TakeFirst DEF ExecOpen, Typed
    <3>2. call'[t] = [pc |-> "close", obj |-> Head(free)] /\ file'[Head(free)].node = "initramfs"
      BY <2>1, <3>1 DEF ExecOpen, Typed
    <3>. QED
      BY <3>2 DEF CallOnFile, WritePcs, ReadPcs
  <2>2. CASE Unfilled(t)
    BY <1>2, <2>2 DEF Unfilled
  <2>3. ASSUME NEW child \in Tasks, Fork(t, child) PROVE Q
    <3>1. call'[t].pc = "fork"
      BY <2>3 DEF Fork, Typed
    <3>. QED
      BY <1>1, <3>1
  <2>4. ASSUME NEW fd \in Fds, NEW node \in Nodes, Open(t, fd, node) PROVE Q
    BY <1>1, <2>4 DEF Open
  <2>5. ASSUME NEW fd \in Fds, Close(t, fd) PROVE Q
    BY <1>1, <2>5 DEF Close, Typed
  <2>6. ASSUME NEW fd \in Fds, NEW p \in Offsets, Lseek(t, fd, p) PROVE Q
    BY <1>1, <2>6 DEF Lseek, Begins
  <2>7. ASSUME NEW fd \in Fds, NEW b \in Bytes, NEW n \in Counts, WriteCopy(t, fd, b, n) PROVE Q
    <3>. DEFINE o == fds[t][fd]
    <3>1. o \in Objs /\ file[o].node = "tmpfs" /\ file[o].pos \in Int /\ n \in Int
      BY <2>7, FileAssumption DEF WriteCopy, Begins, Typed, Records, Sizes
    <3>2. CASE file[o].pos + n <= MAX_FILE_SIZE
      <4>1. /\ file' = [file EXCEPT ![o].pos = file[o].pos + n]
            /\ call' = [call EXCEPT ![t] = [pc |-> "test", obj |-> o]]
        BY <2>7, <3>1, <3>2, Sizing DEF WriteCopy
      <4>2. file'[o].node = "tmpfs" /\ file'[o].pos = file[o].pos + n
            /\ call'[t] = [pc |-> "test", obj |-> o]
        BY <3>1, <4>1 DEF Typed, Records
      <4>. QED
        BY <3>2, <4>2 DEF CallOnFile, WritePcs, ReadPcs
    <3>3. CASE ~ (file[o].pos + n <= MAX_FILE_SIZE)
      BY <1>2, <2>7, <3>3 DEF WriteCopy
    <3>. QED
      BY <3>2, <3>3
  <2>8. ASSUME NEW fd \in Fds, NEW n \in Counts, ReadTest(t, fd, n) PROVE Q
    <3>. DEFINE o == fds[t][fd]
                k == file[o].node
    <3>1. k # "none" /\ UNCHANGED file
          /\ \/ call'[t] = [pc |-> "short", obj |-> o, n |-> n, node |-> k, whole |-> FALSE]
             \/ call'[t] = [pc |-> "copy", obj |-> o, n |-> n, node |-> k, whole |-> TRUE, len |-> n]
      BY <2>8 DEF ReadTest, Begins, Typed
    <3>2. /\ call'[t].pc \in {"short", "copy"} /\ call'[t].obj = o /\ call'[t].node = k
          /\ call'[t].pc = "short" => ~ call'[t].whole
      BY <3>1
    <3>. QED
      BY <3>1, <3>2 DEF CallOnFile, WritePcs, ReadPcs
  <2>. QED
    BY <1>3, <2>1, <2>2, <2>3, <2>4, <2>5, <2>6, <2>7, <2>8 DEF Call
<1>4. CASE Step(t)
  <2>1. CASE CloseClear(t) \/ WriteSet(t) \/ ReadAdvance(t)
    BY <1>2, <2>1 DEF CloseClear, WriteSet, ReadAdvance
  <2>2. CASE ForkAllocate(t)
    <3>1. c \in [pc : {"fork"}, child : Tasks, fd : Nat] /\ c.pc = "fork"
      BY <1>0, <2>2, CallKinds DEF ForkAllocate
    <3>2. CASE c.fd \in Fds /\ fds[t][c.fd] # 0 /\ free # <<>>
      <4>1. Head(free) \in Objs /\ Head(free) # 0 /\ IsFree(Head(free))
        BY <3>2, TakeFirst, Constants DEF IsFree, Typed
      <4>2. /\ call' = [call EXCEPT ![t] = [pc |-> "fill", child |-> c.child, fd |-> c.fd,
                                            obj |-> Head(free)]]
            /\ fds' = [fds EXCEPT ![c.child][c.fd] = Head(free)] /\ UNCHANGED file
        BY <2>2, <3>2 DEF ForkAllocate, ForkCopies
      <4>3. /\ call'[t] = [pc |-> "fill", child |-> c.child, fd |-> c.fd, obj |-> Head(free)]
            /\ fds'[t][c.fd] # 0
        BY <3>1, <3>2, <4>1, <4>2 DEF Typed
      <4>4. file'[Head(free)].node = "none"
        BY <4>1, <4>2 DEF Owned, FreeIsNone
      <4>. QED
        BY <4>3, <4>4 DEF CallOnFile, WritePcs, ReadPcs
    <3>3. CASE ~ (c.fd \in Fds /\ fds[t][c.fd] # 0 /\ free # <<>>)
      <4>1. call' = [call EXCEPT ![t] = Idle] \/ call' = [call EXCEPT ![t] = [c EXCEPT !.fd = @ + 1]]
        BY <2>2, <3>3 DEF ForkAllocate
      <4>2. CASE call' = [call EXCEPT ![t] = Idle]
        BY <1>2, <4>2
      <4>3. CASE call' = [call EXCEPT ![t] = [c EXCEPT !.fd = @ + 1]]
        <5>1. call'[t].pc = "fork"
          BY <3>1, <4>3 DEF Typed
        <5>. QED
          BY <1>1, <5>1
      <4>. QED
        BY <4>1, <4>2, <4>3
    <3>. QED
      BY <3>2, <3>3
  <2>3. CASE ForkFill(t)
    <3>1. \/ call'[t] = [pc |-> "fork", child |-> c.child, fd |-> c.fd + 1]
          \/ call'[t] = [pc |-> "wild"]
      BY <2>3 DEF ForkFill, Typed
    <3>. QED
      BY <1>1, <3>1
  <2>4. CASE WriteTest(t)
    <3>1. c \in [pc : {"test", "close", "again"}, obj : Objs] /\ c.pc = "test" /\ UNCHANGED file
      BY <1>0, <2>4, CallKinds DEF WriteTest
    <3>2. CASE datasize < file[c.obj].pos
      <4>1. call'[t] = [pc |-> "set", obj |-> c.obj, seen |-> datasize]
        BY <2>4, <3>2 DEF WriteTest, Longer, Typed
      <4>. QED
        BY <1>0, <3>1, <3>2, <4>1 DEF CallOnFile, WritePcs, ReadPcs
    <3>3. CASE ~ (datasize < file[c.obj].pos)
      BY <1>2, <2>4, <3>3 DEF WriteTest, Longer
    <3>. QED
      BY <3>2, <3>3
  <2>5. CASE ReadLen(t)
    <3>1. UNCHANGED file /\ c.pc = "short"
      BY <2>5 DEF ReadLen
    <3>2. \/ call'[t].pc = "wild"
          \/ call'[t].pc = "copy" /\ call'[t].obj = c.obj /\ call'[t].node = c.node
      BY <2>5 DEF ReadLen, Typed
    <3>. QED
      BY <1>0, <1>1, <3>1, <3>2 DEF CallOnFile, WritePcs, ReadPcs
  <2>6. CASE ReadCopy(t)
    <3>1. UNCHANGED file /\ c.pc = "copy"
      BY <2>6 DEF ReadCopy
    <3>2. call'[t].pc = "advance" /\ call'[t].obj = c.obj /\ call'[t].node = c.node
      BY <2>6 DEF ReadCopy, Typed
    <3>. QED
      BY <1>0, <3>1, <3>2 DEF CallOnFile, WritePcs, ReadPcs
  <2>7. CASE ExecClose(t)
    <3>1. c \in [pc : {"test", "close", "again"}, obj : Objs]
      BY <1>0, <2>7, CallKinds DEF ExecClose
    <3>2. call'[t].pc = "again"
      BY <2>7, <3>1 DEF ExecClose, Typed
    <3>. QED
      BY <1>1, <3>2
  <2>8. CASE ExecReadAgain(t)
    BY <1>2, <2>8 DEF ExecReadAgain
  <2>. QED
    BY <1>4, <2>1, <2>2, <2>3, <2>4, <2>5, <2>6, <2>7, <2>8 DEF Step
<1>. QED
  BY <1>3, <1>4

\* Owned, said of one struct file.
OneOwner(o) ==
    /\ IsFree(o) => \A t \in Tasks : ~ HasOpen(t, o) /\ ~ InCall(t, o) /\ ~ Fills(t, o)
    /\ \A t, u \in Tasks, i, j \in Fds :
          IsOpen(t, i) /\ IsOpen(u, j) /\ fds[t][i] = o /\ fds[u][j] = o => t = u /\ i = j
    /\ \A t, u \in Tasks : InCall(t, o) /\ HasOpen(u, o) => u = t /\ ~ Loads(t, o)
    /\ \A t, u \in Tasks : InCall(t, o) /\ InCall(u, o) => u = t
    /\ \A t, u \in Tasks : Fills(t, o) /\ Fills(u, o) => u = t
    /\ \A t, u \in Tasks, j \in Fds : Fills(t, o) /\ IsOpen(u, j) /\ fds[u][j] = o =>
          u = call[t].child /\ j = call[t].fd

LEMMA OwnedByOne ==
    ASSUME Typed
    PROVE  Owned <=> FreeOnce /\ FreeIsNone /\ \A o \in Objs : OneOwner(o)
<1>1. ASSUME Owned, NEW o \in Objs PROVE OneOwner(o)
  <2>1. IsFree(o) => \A t \in Tasks : ~ HasOpen(t, o) /\ ~ InCall(t, o) /\ ~ Fills(t, o)
    BY <1>1 DEF Owned, FdsNotFree, CallsApart, FillsApart
  <2>2. \A t, u \in Tasks, i, j \in Fds :
            IsOpen(t, i) /\ IsOpen(u, j) /\ fds[t][i] = o /\ fds[u][j] = o => t = u /\ i = j
    BY <1>1 DEF Owned, FdsApart
  <2>3. /\ \A t, u \in Tasks : InCall(t, o) /\ HasOpen(u, o) => u = t /\ ~ Loads(t, o)
        /\ \A t, u \in Tasks : InCall(t, o) /\ InCall(u, o) => u = t
    BY <1>1 DEF Owned, CallsApart
  <2>4. /\ \A t, u \in Tasks : Fills(t, o) /\ Fills(u, o) => u = t
        /\ \A t, u \in Tasks, j \in Fds : Fills(t, o) /\ IsOpen(u, j) /\ fds[u][j] = o =>
              u = call[t].child /\ j = call[t].fd
    BY <1>1 DEF Owned, FillsApart
  <2>. QED
    BY <2>1, <2>2, <2>3, <2>4 DEF OneOwner
<1>2. ASSUME FreeOnce, FreeIsNone, \A o \in Objs : OneOwner(o) PROVE Owned
  <2>1. FdsApart
    <3>. SUFFICES ASSUME NEW t \in Tasks, NEW u \in Tasks, NEW i \in Fds, NEW j \in Fds,
                         IsOpen(t, i), IsOpen(u, j), fds[t][i] = fds[u][j]
                  PROVE  t = u /\ i = j
      BY DEF FdsApart
    <3>1. fds[t][i] \in Objs
      BY DEF IsOpen, Typed
    <3>. QED
      BY <1>2, <3>1 DEF OneOwner
  <2>2. FdsNotFree
    BY <1>2 DEF FdsNotFree, OneOwner
  <2>3. CallsApart
    BY <1>2 DEF CallsApart, OneOwner
  <2>4. FillsApart
    BY <1>2 DEF FillsApart, OneOwner
  <2>. QED
    BY <1>2, <2>1, <2>2, <2>3, <2>4 DEF Owned
<1>. QED
  BY <1>1, <1>2 DEF Owned

\* What a step of t leaves to the others is what they had.
LEMMA OthersOwn ==
    ASSUME Typed, OnFiles, NEW t \in Tasks, Call(t) \/ Step(t), NEW u \in Tasks \ {t}
    PROVE  /\ \A i \in Fds : IsOpen(u, i)' /\ fds'[u][i] = fds[u][i] => IsOpen(u, i)
           /\ \A o : /\ InCall(u, o)' => InCall(u, o)
                     /\ Loads(u, o)' => Loads(u, o)
                     /\ Fills(u, o)' => Fills(u, o) /\ call'[u] = call[u]
<1>1. CASE call'[u] = call[u]
  BY <1>1 DEF IsOpen, InCall, Writes, Reads, Loads, Fills
<1>2. CASE call[u].pc = "unborn" /\ call'[u] = Idle
  <2>1. \A i \in Fds : call[u] # [pc |-> "clear", fd |-> i]
    BY <1>2
  <2>2. call'[u].pc = "user"
    BY <1>2 DEF Idle
  <2>. QED
    BY <2>1, <2>2 DEF IsOpen, InCall, Writes, Reads, Loads, Fills, WritePcs, ReadPcs
<1>. QED
  BY <1>1, <1>2, CallMoves

\* A step of t that changes the owner of r alone.
LEMMA OwnerMoves ==
    ASSUME Typed, Typed', OnFiles, Owned, NEW t \in Tasks, Call(t) \/ Step(t), NEW r,
           FreeOnce', FreeIsNone',
           \A o \in Objs : o # r /\ IsFree(o)' => IsFree(o),
           \A u \in Tasks, i \in Fds : u # t /\ fds'[u][i] # r => fds'[u][i] = fds[u][i],
           \A i \in Fds : IsOpen(t, i)' /\ fds'[t][i] # r => IsOpen(t, i) /\ fds'[t][i] = fds[t][i],
           \A o : o # r /\ InCall(t, o)' => InCall(t, o) \/ (HasOpen(t, o) /\ ~ Loads(t, o)'),
           \A o : o # r /\ Loads(t, o)' => Loads(t, o),
           \A o : o # r => ~ Fills(t, o)',
           r \in Objs => OneOwner(r)'
    PROVE  Owned'
<1>. SUFFICES ASSUME NEW o \in Objs, o # r PROVE OneOwner(o)'
  <2>1. Typed' => (Owned <=> FreeOnce /\ FreeIsNone /\ \A o \in Objs : OneOwner(o))'
    BY OwnedByOne, PTL
  <2>. QED
    BY <2>1
<1>0. OneOwner(o)
  BY OwnedByOne
<1>1. \A u \in Tasks, i \in Fds : IsOpen(u, i)' /\ fds'[u][i] = o => IsOpen(u, i) /\ fds[u][i] = o
  BY OthersOwn
<1>2. \A u \in Tasks : HasOpen(u, o)' => HasOpen(u, o)
  BY <1>1 DEF HasOpen
<1>3. ASSUME NEW u \in Tasks, InCall(u, o)'
      PROVE  InCall(u, o) \/ (HasOpen(u, o) /\ ~ Loads(u, o)')
  <2>1. CASE u = t
    BY <1>3, <2>1
  <2>2. CASE u # t
    BY <1>3, <2>2, OthersOwn
  <2>. QED
    BY <2>1, <2>2
<1>4. \A u \in Tasks : Loads(u, o)' => Loads(u, o)
  BY OthersOwn
<1>5. \A u \in Tasks : Fills(u, o)' => Fills(u, o) /\ call'[u] = call[u]
  BY OthersOwn
<1>6. \A u, w \in Tasks : HasOpen(u, o) /\ HasOpen(w, o) => u = w
  BY <1>0 DEF OneOwner, HasOpen
<1>7. (IsFree(o) => \A u \in Tasks : ~ HasOpen(u, o) /\ ~ InCall(u, o) /\ ~ Fills(u, o))'
  BY <1>0, <1>2, <1>3, <1>5 DEF OneOwner
<1>8. (\A u, w \in Tasks, i, j \in Fds :
          IsOpen(u, i) /\ IsOpen(w, j) /\ fds[u][i] = o /\ fds[w][j] = o => u = w /\ i = j)'
  BY <1>0, <1>1 DEF OneOwner
<1>9. (\A u, w \in Tasks : InCall(u, o) /\ HasOpen(w, o) => w = u /\ ~ Loads(u, o))'
  BY <1>0, <1>2, <1>3, <1>4, <1>6 DEF OneOwner
<1>10. (\A u, w \in Tasks : InCall(u, o) /\ InCall(w, o) => w = u)'
  BY <1>0, <1>3, <1>6 DEF OneOwner
<1>11. (\A u, w \in Tasks : Fills(u, o) /\ Fills(w, o) => w = u)'
  BY <1>0, <1>5 DEF OneOwner
<1>12. (\A u, w \in Tasks, j \in Fds : Fills(u, o) /\ IsOpen(w, j) /\ fds[w][j] = o =>
          w = call[u].child /\ j = call[u].fd)'
  BY <1>0, <1>1, <1>5 DEF OneOwner
<1>. QED
  BY <1>7, <1>8, <1>9, <1>10, <1>11, <1>12 DEF OneOwner

\* A step of t that neither takes a struct file nor gives one back; a call
\* begins on an open one, and goes on with its own.
LEMMA OwnerStays ==
    ASSUME Typed, Typed', OnFiles, Owned, NEW t \in Tasks, Call(t) \/ Step(t),
           UNCHANGED <<free, fds>>, call[t].pc # "clear",
           \A o \in Objs : IsFree(o) => file'[o].node = file[o].node,
           call'[t].pc \in WritePcs \cup ReadPcs =>
              \/ call[t].pc \in WritePcs \cup ReadPcs /\ call'[t].obj = call[t].obj
              \/ HasOpen(t, call'[t].obj),
           call'[t].pc \notin {"close", "fill"}
    PROVE  Owned'
<1>1. FreeOnce' /\ FreeIsNone' /\ \A o : IsFree(o)' <=> IsFree(o)
  <2>1. FreeOnce' /\ \A o : IsFree(o)' <=> IsFree(o)
    BY DEF Owned, FreeOnce, IsFree
  <2>. QED
    BY <2>1 DEF Owned, FreeIsNone
<1>2. \A i \in Fds : IsOpen(t, i)' => IsOpen(t, i)
  <2>1. \A i \in Fds : call[t] # [pc |-> "clear", fd |-> i]
    OBVIOUS
  <2>. QED
    BY <2>1 DEF IsOpen
<1>3. \A o : ~ Loads(t, o)' /\ ~ Fills(t, o)'
  BY DEF Loads, Fills
<1>4. ASSUME NEW o, InCall(t, o)' PROVE InCall(t, o) \/ (HasOpen(t, o) /\ ~ Loads(t, o)')
  <2>1. call'[t].pc \in WritePcs \cup ReadPcs /\ call'[t].obj = o
    BY <1>3, <1>4 DEF InCall, Writes, Reads
  <2>2. CASE call[t].pc \in WritePcs \cup ReadPcs /\ call'[t].obj = call[t].obj
    BY <2>1, <2>2 DEF InCall, Writes, Reads
  <2>3. CASE HasOpen(t, call'[t].obj)
    BY <1>3, <2>1, <2>3
  <2>. QED
    BY <2>1, <2>2, <2>3
<1>5. 0 \notin Objs
  BY Constants
<1>. DEFINE r == 0
<1>6. \A u \in Tasks, i \in Fds : fds'[u][i] = fds[u][i]
  OBVIOUS
<1>7. r \in Objs => OneOwner(r)'
  BY <1>5
<1>. HIDE DEF r
<1>. QED
  BY <1>1, <1>2, <1>3, <1>4, <1>6, <1>7, OwnerMoves

\* The first free chunk has no owner.
LEMMA FirstHasNone ==
    ASSUME Typed, Owned, free # <<>>
    PROVE  /\ Head(free) \in Objs
           /\ \A t \in Tasks : /\ ~ HasOpen(t, Head(free))
                               /\ ~ InCall(t, Head(free))
                               /\ ~ Fills(t, Head(free))
<1>1. Head(free) \in Objs /\ free \in Seq(Objs)
  BY TakeFirst DEF Typed
<1>2. IsFree(Head(free))
  BY <1>1, Taken, TakeFirst DEF IsFree
<1>. QED
  BY <1>1, <1>2 DEF Owned, FdsNotFree, CallsApart, FillsApart

LEMMA OwnedWhenTaken ==
    ASSUME Typed, Typed', OnFiles, Owned, NEW t \in Tasks, Call(t) \/ Step(t), NEW r,
           free # <<>>, free' = Tail(free), r = Head(free), call[t].pc # "clear",
           \A o \in Objs \ {r} : file'[o] = file[o],
           \A u \in Tasks, i \in Fds : fds'[u][i] # r => fds'[u][i] = fds[u][i],
           \A o : o # r => ~ Loads(t, o)' /\ ~ Fills(t, o)' /\ ~ InCall(t, o)',
           OneOwner(r)'
    PROVE  Owned'
<1>1. FreeOnce' /\ \A o : IsFree(o)' <=> IsFree(o) /\ o # r
  BY Taken DEF Typed, Owned
<1>2. FreeIsNone'
  BY <1>1 DEF Owned, FreeIsNone
<1>3. \A i \in Fds : IsOpen(t, i)' /\ fds'[t][i] # r => IsOpen(t, i) /\ fds'[t][i] = fds[t][i]
  <2>1. \A i \in Fds : call[t] # [pc |-> "clear", fd |-> i]
    OBVIOUS
  <2>. QED
    BY <2>1 DEF IsOpen
<1>4. \A o \in Objs : o # r /\ IsFree(o)' => IsFree(o)
  BY <1>1
<1>5. \A o : o # r => ~ Loads(t, o)' /\ ~ Fills(t, o)' /\ ~ InCall(t, o)'
  OBVIOUS
<1>6. r \in Objs => OneOwner(r)'
  OBVIOUS
<1>7. \A u \in Tasks, i \in Fds : u # t /\ fds'[u][i] # r => fds'[u][i] = fds[u][i]
  OBVIOUS
<1>8. \A o : o # r /\ InCall(t, o)' => InCall(t, o) \/ (HasOpen(t, o) /\ ~ Loads(t, o)')
  BY <1>5
<1>9. \A o : o # r /\ Loads(t, o)' => Loads(t, o)
  BY <1>5
<1>10. \A o : o # r => ~ Fills(t, o)'
  BY <1>5
<1>. QED
  BY <1>1, <1>2, <1>3, <1>4, <1>6, <1>7, <1>8, <1>9, <1>10, OwnerMoves

LEMMA OwnedWhenGiven ==
    ASSUME Typed, Typed', OnFiles, Owned, NEW t \in Tasks, Call(t) \/ Step(t), NEW r \in Objs,
           free' = Freed(r), ~ IsFree(r), UNCHANGED fds,
           file' = [file EXCEPT ![r].node = "none"],
           call'[t].pc \in {"clear", "again"}, call[t].pc # "clear",
           \A u \in Tasks : ~ HasOpen(u, r)' /\ (u # t => ~ InCall(u, r) /\ ~ Fills(u, r))
    PROVE  Owned'
<1>1. FreeOnce' /\ \A o : IsFree(o)' <=> IsFree(o) \/ o = r
  BY PutBack DEF Typed, Owned
<1>2. file'[r].node = "none" /\ \A o \in Objs \ {r} : file'[o] = file[o]
  <2>1. [file[r] EXCEPT !.node = "none"].node = "none"
    BY DEF Typed, Records
  <2>. QED
    BY <2>1 DEF Typed
<1>3. FreeIsNone'
  BY <1>1, <1>2 DEF Owned, FreeIsNone
<1>4. \A o : ~ InCall(t, o)' /\ ~ Loads(t, o)' /\ ~ Fills(t, o)'
  BY DEF InCall, Writes, Reads, Loads, Fills, WritePcs, ReadPcs
<1>5. \A i \in Fds : IsOpen(t, i)' => IsOpen(t, i)
  <2>1. \A i \in Fds : call[t] # [pc |-> "clear", fd |-> i]
    OBVIOUS
  <2>. QED
    BY <2>1 DEF IsOpen
<1>6. \A u \in Tasks : ~ HasOpen(u, r)' /\ ~ InCall(u, r)' /\ ~ Fills(u, r)'
  BY <1>4, OthersOwn
<1>7. OneOwner(r)'
  <2>1. \A u \in Tasks, j \in Fds : ~ (IsOpen(u, j)' /\ fds'[u][j] = r)
    BY <1>6 DEF HasOpen
  <2>. QED
    BY <1>6, <2>1 DEF OneOwner
<1>8. \A u \in Tasks, i \in Fds : fds'[u][i] = fds[u][i]
  OBVIOUS
<1>. QED
  BY <1>1, <1>3, <1>4, <1>5, <1>7, <1>8, OwnerMoves

LEMMA OwnedOpen ==
    ASSUME Typed, Typed', OnFiles, Owned, NEW t \in Tasks, Call(t) \/ Step(t),
           \/ \E fd \in Fds, node \in Nodes : Open(t, fd, node)
           \/ ExecOpen(t)
    PROVE  Owned'
<1>1. free # <<>> /\ call[t].pc = "user" /\ free' = Tail(free)
  BY DEF Open, ExecOpen, At
<1>2. PICK r : r = Head(free)
  OBVIOUS
<1>3. r \in Objs /\ \A u \in Tasks : ~ HasOpen(u, r) /\ ~ InCall(u, r) /\ ~ Fills(u, r)
  BY <1>1, <1>2, FirstHasNone
<1>4. ~ IsFree(r)'
  BY <1>1, <1>2, Taken DEF Typed, Owned
<1>5. \A u \in Tasks : u # t => ~ InCall(u, r)' /\ ~ Fills(u, r)'
  BY <1>3, OthersOwn
<1>6. \A u \in Tasks, i \in Fds : IsOpen(u, i)' /\ u # t /\ fds'[u][i] = fds[u][i] => IsOpen(u, i)
  BY OthersOwn
<1>7. \A u \in Tasks, i \in Fds : ~ (fds[u][i] = r /\ IsOpen(u, i))
  BY <1>3 DEF HasOpen
<1>8. \A i \in Fds : call[t] # [pc |-> "clear", fd |-> i]
  BY <1>1
<1>9. CASE \E fd \in Fds, node \in Nodes : Open(t, fd, node)
  <2>1. PICK fd \in Fds, node \in Nodes : Open(t, fd, node)
    BY <1>9
  <2>2. /\ fds' = [fds EXCEPT ![t][fd] = r] /\ UNCHANGED call
        /\ file' = [file EXCEPT ![r] = [node |-> node, pos |-> 0]]
    BY <1>2, <2>1 DEF Open
  <2>3. \A u \in Tasks, i \in Fds : fds'[u][i] = IF u = t /\ i = fd THEN r ELSE fds[u][i]
    BY <2>2 DEF Typed
  <2>4. \A o : ~ Loads(t, o)' /\ ~ Fills(t, o)' /\ ~ InCall(t, o)'
    BY <1>1, <2>2 DEF InCall, Writes, Reads, Loads, Fills, WritePcs, ReadPcs
  <2>5. \A u \in Tasks, i \in Fds : IsOpen(u, i)' /\ fds'[u][i] = r => u = t /\ i = fd
    <3>. SUFFICES ASSUME NEW u \in Tasks, NEW i \in Fds, IsOpen(u, i)', fds'[u][i] = r,
                         ~ (u = t /\ i = fd)
                  PROVE  FALSE
      OBVIOUS
    <3>1. fds'[u][i] = fds[u][i]
      BY <2>3
    <3>2. IsOpen(u, i)
      BY <1>6, <1>8, <2>2, <3>1 DEF IsOpen
    <3>. QED
      BY <1>7, <3>1, <3>2
  <2>6. OneOwner(r)'
    <3>1. \A u \in Tasks : ~ Loads(u, r)' /\ ~ Fills(u, r)' /\ ~ InCall(u, r)'
      BY <1>5, <2>4 DEF InCall
    <3>. QED
      BY <1>4, <2>5, <3>1 DEF OneOwner
  <2>7. \A o \in Objs \ {r} : file'[o] = file[o]
    BY <2>2 DEF Typed
  <2>8. \A u \in Tasks, i \in Fds : fds'[u][i] # r => fds'[u][i] = fds[u][i]
    BY <2>3
  <2>9. call[t].pc # "clear"
    BY <1>1
  <2>. QED
    BY <1>1, <1>2, <2>4, <2>6, <2>7, <2>8, <2>9, OwnedWhenTaken
<1>10. CASE ExecOpen(t)
  <2>1. /\ call' = [call EXCEPT ![t] = [pc |-> "close", obj |-> r]] /\ UNCHANGED fds
        /\ file' = [file EXCEPT ![r] = [node |-> "initramfs", pos |-> Len(Program)]]
    BY <1>2, <1>10 DEF ExecOpen, Goto
  <2>2. call'[t] = [pc |-> "close", obj |-> r]
    BY <2>1 DEF Typed
  <2>3. \A o : o # r => ~ Loads(t, o)' /\ ~ Fills(t, o)' /\ ~ InCall(t, o)'
    BY <2>2 DEF InCall, Writes, Reads, Loads, Fills, WritePcs, ReadPcs
  <2>4. ASSUME NEW u \in Tasks, NEW i \in Fds, IsOpen(u, i)', fds'[u][i] = r PROVE FALSE
    <3>1. IsOpen(u, i)
      BY <1>6, <1>8, <2>1, <2>4 DEF IsOpen
    <3>. QED
      BY <1>7, <2>1, <2>4, <3>1
  <2>5. OneOwner(r)'
    <3>1. ~ Fills(t, r)'
      BY <2>2 DEF Fills
    <3>2. \A u \in Tasks : ~ HasOpen(u, r)'
      BY <2>4 DEF HasOpen
    <3>. QED
      BY <1>4, <1>5, <2>4, <3>1, <3>2 DEF OneOwner
  <2>6. \A o \in Objs \ {r} : file'[o] = file[o]
    BY <2>1 DEF Typed
  <2>7. \A u \in Tasks, i \in Fds : fds'[u][i] # r => fds'[u][i] = fds[u][i]
    BY <2>1
  <2>8. call[t].pc # "clear"
    BY <1>1
  <2>. QED
    BY <1>1, <1>2, <2>3, <2>5, <2>6, <2>7, <2>8, OwnedWhenTaken
<1>. QED
  BY <1>9, <1>10

LEMMA OwnedForkAllocate ==
    ASSUME Typed, Typed', OnFiles, Owned, NEW t \in Tasks, ForkAllocate(t)
    PROVE  Owned'
<1>. DEFINE c == call[t]
<1>0. Call(t) \/ Step(t)
  BY DEF Step
<1>1. c \in [pc : {"fork"}, child : Tasks, fd : Nat] /\ c.pc = "fork" /\ UNCHANGED file
  BY CallKinds DEF ForkAllocate, At, Typed
<1>2. CASE c.fd \in Fds /\ fds[t][c.fd] # 0 /\ free # <<>>
  <2>1. PICK r : r = Head(free)
    OBVIOUS
  <2>2. r \in Objs /\ \A u \in Tasks : ~ HasOpen(u, r) /\ ~ InCall(u, r) /\ ~ Fills(u, r)
    BY <1>2, <2>1, FirstHasNone
  <2>3. /\ fds' = [fds EXCEPT ![c.child][c.fd] = r] /\ free' = Tail(free)
        /\ call' = [call EXCEPT ![t] = [pc |-> "fill", child |-> c.child, fd |-> c.fd, obj |-> r]]
    BY <1>2, <2>1 DEF ForkAllocate, ForkCopies, Goto
  <2>4. call'[t] = [pc |-> "fill", child |-> c.child, fd |-> c.fd, obj |-> r]
    BY <2>3 DEF Typed
  <2>5. \A u \in Tasks, i \in Fds : fds'[u][i] = IF u = c.child /\ i = c.fd THEN r ELSE fds[u][i]
    BY <1>1, <1>2, <2>3 DEF Typed
  <2>6. ~ IsFree(r)'
    BY <1>2, <2>1, <2>3, Taken DEF Typed, Owned
  <2>7. \A u \in Tasks : u # t => ~ InCall(u, r)' /\ ~ Fills(u, r)'
    BY <1>0, <2>2, OthersOwn
  <2>8. \A o : o # r => ~ Loads(t, o)' /\ ~ Fills(t, o)' /\ ~ InCall(t, o)'
    BY <2>4 DEF InCall, Writes, Reads, Loads, Fills, WritePcs, ReadPcs
  <2>9. ~ InCall(t, r)'
    BY <2>4 DEF InCall, Writes, Reads, Loads, WritePcs, ReadPcs
  <2>10. \A u \in Tasks, i \in Fds : IsOpen(u, i)' /\ fds'[u][i] = r => u = c.child /\ i = c.fd
    <3>. SUFFICES ASSUME NEW u \in Tasks, NEW i \in Fds, IsOpen(u, i)', fds'[u][i] = r,
                         ~ (u = c.child /\ i = c.fd)
                  PROVE  FALSE
      OBVIOUS
    <3>1. fds'[u][i] = fds[u][i]
      BY <2>5
    <3>2. IsOpen(u, i)
      <4>1. CASE u = t
        <5>1. call[u] # [pc |-> "clear", fd |-> i]
          BY <1>1, <4>1
        <5>. QED
          BY <3>1, <5>1 DEF IsOpen
      <4>2. CASE u # t
        BY <1>0, <3>1, <4>2, OthersOwn
      <4>. QED
        BY <4>1, <4>2
    <3>. QED
      BY <2>2, <3>1, <3>2 DEF HasOpen
  <2>11. OneOwner(r)'
    <3>1. \A u \in Tasks : ~ InCall(u, r)'
      BY <2>7, <2>9
    <3>2. \A u, w \in Tasks : Fills(u, r)' /\ Fills(w, r)' => w = u
      BY <2>7
    <3>3. \A u, w \in Tasks, j \in Fds : Fills(u, r)' /\ IsOpen(w, j)' /\ fds'[w][j] = r =>
              w = call'[u].child /\ j = call'[u].fd
      BY <2>4, <2>7, <2>10
    <3>. QED
      BY <2>6, <2>10, <3>1, <3>2, <3>3 DEF OneOwner
  <2>12. \A o \in Objs \ {r} : file'[o] = file[o]
    BY <1>1
  <2>13. \A u \in Tasks, i \in Fds : fds'[u][i] # r => fds'[u][i] = fds[u][i]
    BY <2>5
  <2>14. call[t].pc # "clear"
    BY <1>1
  <2>. QED
    BY <1>0, <1>2, <2>1, <2>3, <2>8, <2>11, <2>12, <2>13, <2>14, OwnedWhenTaken
<1>3. CASE ~ (c.fd \in Fds /\ fds[t][c.fd] # 0 /\ free # <<>>)
  <2>1. /\ UNCHANGED <<free, fds>>
        /\ call' = [call EXCEPT ![t] = Idle] \/ call' = [call EXCEPT ![t] = [c EXCEPT !.fd = @ + 1]]
    BY <1>3 DEF ForkAllocate, Goto
  <2>2. call'[t].pc \in {"user", "fork"}
    <3>1. Idle.pc = "user" /\ [c EXCEPT !.fd = @ + 1].pc = "fork"
      BY <1>1 DEF Idle
    <3>. QED
      BY <2>1, <3>1 DEF Typed
  <2>. QED
    BY <1>0, <1>1, <2>1, <2>2, OwnerStays DEF WritePcs, ReadPcs
<1>. QED
  BY <1>2, <1>3

LEMMA OwnedKept ==
    ASSUME Typed, Typed', OnFiles, Owned, NEW t \in Tasks, Call(t) \/ Step(t)
    PROVE  Owned'
<1>. DEFINE c == call[t]
<1>. USE DEF At, Goto, GoWild
<1>0. c \in Calls
  BY DEF Typed
<1>1. \A o \in Objs, v \in Records : [file EXCEPT ![o] = v] \in [Objs -> Records]
  BY DEF Typed
<1>2. ASSUME UNCHANGED <<free, fds>>, c.pc # "clear",
             \A o \in Objs : IsFree(o) => file'[o].node = file[o].node,
             call'[t].pc \in {"user", "wild", "fork"}
      PROVE  Owned'
  BY <1>2, OwnerStays DEF WritePcs, ReadPcs
<1>3. ASSUME call' = [call EXCEPT ![t] = Idle] \/ call' = [call EXCEPT ![t] = [pc |-> "wild"]]
      PROVE  call'[t].pc \in {"user", "wild"}
  BY <1>3 DEF Idle, Typed
<1>4. ASSUME NEW o \in Objs, NEW p, file' = [file EXCEPT ![o].pos = p]
      PROVE  \A q \in Objs : file'[q].node = file[q].node
  BY <1>4 DEF Typed, Records
<1>5. CASE Call(t)
  <2>1. CASE ExecOpen(t)
    BY <2>1, OwnedOpen, <1>5
  <2>2. CASE Unfilled(t)
    BY <1>2, <1>3, <2>2 DEF Unfilled
  <2>3. ASSUME NEW child \in Tasks, Fork(t, child) PROVE Owned'
    <3>1. call'[t].pc = "fork"
      BY <2>3 DEF Fork, Typed
    <3>. QED
      BY <1>2, <2>3, <3>1 DEF Fork
  <2>4. ASSUME NEW fd \in Fds, NEW node \in Nodes, Open(t, fd, node) PROVE Owned'
    BY <1>5, <2>4, OwnedOpen
  <2>5. ASSUME NEW fd \in Fds, Close(t, fd) PROVE Owned'
    <3>. DEFINE r == fds[t][fd]
    <3>1. r \in Objs /\ c.pc = "user" /\ r # 0
      BY <2>5 DEF Close, Begins, Typed
    <3>2. /\ free' = Freed(r) /\ UNCHANGED fds /\ file' = [file EXCEPT ![r].node = "none"]
          /\ call' = [call EXCEPT ![t] = [pc |-> "clear", fd |-> fd]]
      BY <2>5 DEF Close
    <3>3. call'[t] = [pc |-> "clear", fd |-> fd]
      BY <3>2 DEF Typed
    <3>4. IsOpen(t, fd) /\ file[r].node # "none"
      BY <2>5 DEF Close, Begins, IsOpen
    <3>5. PICK q : q = r
      OBVIOUS
    <3>6. HasOpen(t, q) /\ ~ IsFree(q) /\ ~ InCall(t, q)
      <4>1. HasOpen(t, q)
        BY <3>4, <3>5 DEF HasOpen
      <4>. QED
        BY <3>1, <3>5, <4>1 DEF Owned, FdsNotFree, InCall, Writes, Reads, Loads, WritePcs, ReadPcs
    <3>7. \A u \in Tasks : u # t => ~ InCall(u, q) /\ ~ Fills(u, q)
      BY <3>1, <3>4, <3>5, <3>6 DEF Owned, CallsApart, Fills, OnFiles
    <3>8. ASSUME NEW u \in Tasks, HasOpen(u, q)' PROVE FALSE
      <4>1. PICK j \in Fds : IsOpen(u, j)' /\ fds[u][j] = q
        BY <3>2, <3>8 DEF HasOpen
      <4>2. IsOpen(u, j)
        <5>1. CASE u = t
          <6>1. call[u] # [pc |-> "clear", fd |-> j]
            BY <3>1, <5>1
          <6>. QED
            BY <3>2, <4>1, <6>1 DEF IsOpen
        <5>2. CASE u # t
          BY <3>2, <4>1, <5>2, OthersOwn
        <5>. QED
          BY <5>1, <5>2
      <4>3. u = t /\ j = fd
        BY <3>4, <3>5, <4>1, <4>2 DEF Owned, FdsApart
      <4>. QED
        BY <3>3, <4>1, <4>3 DEF IsOpen
    <3>. HIDE DEF r
    <3>9. call'[t].pc = "clear" /\ c.pc # "clear" /\ q \in Objs
      BY <3>1, <3>3, <3>5
    <3>10. free' = Freed(q) /\ UNCHANGED fds /\ file' = [file EXCEPT ![q].node = "none"]
      BY <3>2, <3>5
    <3>. QED
      BY <3>6, <3>7, <3>8, <3>9, <3>10, OwnedWhenGiven
  <2>6. ASSUME NEW fd \in Fds, NEW p \in Offsets, Lseek(t, fd, p) PROVE Owned'
    <3>1. fds[t][fd] \in Objs
      BY <2>6 DEF Lseek, Begins, Typed
    <3>2. \A o \in Objs : file'[o].node = file[o].node
      BY <1>4, <2>6, <3>1 DEF Lseek
    <3>. QED
      BY <1>2, <2>6, <3>2 DEF Lseek, Begins
  <2>7. ASSUME NEW fd \in Fds, NEW b \in Bytes, NEW n \in Counts, WriteCopy(t, fd, b, n) PROVE Owned'
    <3>1. fds[t][fd] \in Objs /\ c.pc = "user" /\ UNCHANGED <<free, fds>> /\ HasOpen(t, fds[t][fd])
      BY <2>7 DEF WriteCopy, Begins, Typed, HasOpen, IsOpen
    <3>2. \A o \in Objs : file'[o].node = file[o].node
      <4>1. \/ file' = [file EXCEPT ![fds[t][fd]].pos = file[fds[t][fd]].pos + n]
            \/ UNCHANGED file
        BY <2>7 DEF WriteCopy
      <4>. QED
        BY <1>4, <3>1, <4>1
    <3>3. \/ call'[t] = [pc |-> "test", obj |-> fds[t][fd]]
          \/ call'[t].pc = "wild"
      BY <2>7 DEF WriteCopy, Typed
    <3>4. CASE call'[t] = [pc |-> "test", obj |-> fds[t][fd]]
      <4>1. call'[t].pc = "test" /\ call'[t].obj = fds[t][fd]
        BY <3>4
      <4>. QED
        BY <3>1, <3>2, <4>1, OwnerStays
    <3>. QED
      BY <1>2, <3>1, <3>2, <3>3, <3>4
  <2>8. ASSUME NEW fd \in Fds, NEW n \in Counts, ReadTest(t, fd, n) PROVE Owned'
    <3>1. c.pc = "user" /\ UNCHANGED <<file, free, fds>> /\ HasOpen(t, fds[t][fd])
      BY <2>8 DEF ReadTest, Begins, HasOpen, IsOpen
    <3>2. call'[t].pc \in {"short", "copy"} /\ call'[t].obj = fds[t][fd]
      BY <2>8 DEF ReadTest, Typed
    <3>. QED
      BY <3>1, <3>2, OwnerStays
  <2>. QED
    BY <1>5, <2>1, <2>2, <2>3, <2>4, <2>5, <2>6, <2>7, <2>8 DEF Call
<1>6. CASE Step(t)
  <2>1. CASE CloseClear(t)
    <3>1. c \in [pc : {"clear"}, fd : Fds]
      BY <1>0, <2>1, CallKinds DEF CloseClear
    <3>2. /\ c = [pc |-> "clear", fd |-> c.fd] /\ c.fd \in Fds
          /\ fds' = [fds EXCEPT ![t][c.fd] = 0] /\ call' = [call EXCEPT ![t] = Idle]
          /\ UNCHANGED <<free, file>>
      BY <2>1, <3>1 DEF CloseClear, Cleared
    <3>3. \A u \in Tasks, i \in Fds : fds'[u][i] = IF u = t /\ i = c.fd THEN 0 ELSE fds[u][i]
      BY <3>2 DEF Typed
    <3>4. FreeOnce' /\ FreeIsNone' /\ \A o : IsFree(o)' <=> IsFree(o)
      BY <3>2 DEF Owned, FreeOnce, FreeIsNone, IsFree
    <3>5. ASSUME NEW i \in Fds, IsOpen(t, i)' PROVE IsOpen(t, i) /\ fds'[t][i] = fds[t][i]
      <4>1. i # c.fd /\ fds[t][i] # 0 /\ fds'[t][i] = fds[t][i]
        BY <3>3, <3>5 DEF IsOpen
      <4>2. c # [pc |-> "clear", fd |-> i]
        BY <3>2, <4>1
      <4>. QED
        BY <4>1, <4>2 DEF IsOpen
    <3>6. \A o : ~ InCall(t, o)' /\ ~ Loads(t, o)' /\ ~ Fills(t, o)'
      <4>1. call'[t].pc = "user"
        BY <3>2 DEF Idle, Typed
      <4>. QED
        BY <4>1 DEF InCall, Writes, Reads, Loads, Fills, WritePcs, ReadPcs
    <3>. DEFINE r == 0
    <3>7. r \in Objs => OneOwner(r)'
      BY Constants
    <3>. HIDE DEF r
    <3>8. \A u \in Tasks, i \in Fds : u # t => fds'[u][i] = fds[u][i]
      BY <3>3
    <3>. QED
      BY <1>6, <3>4, <3>5, <3>6, <3>7, <3>8, OwnerMoves
  <2>2. CASE ForkAllocate(t)
    BY <2>2, OwnedForkAllocate
  <2>3. CASE ForkFill(t)
    <3>1. c \in [pc : {"fill"}, child : Tasks, fd : Fds, obj : Objs] /\ c.pc = "fill"
      BY <1>0, <2>3, CallKinds DEF ForkFill
    <3>2. ~ IsFree(c.obj)
      BY <3>1 DEF Owned, FillsApart, Fills
    <3>3. \A o \in Objs : o # c.obj => file'[o] = file[o]
      BY <2>3 DEF ForkFill, Typed
    <3>4. call'[t].pc \in {"wild", "fork"}
      BY <2>3 DEF ForkFill, Typed
    <3>. QED
      BY <1>2, <2>3, <3>1, <3>2, <3>3, <3>4 DEF ForkFill
  <2>4. CASE WriteTest(t)
    <3>1. c.pc = "test" /\ UNCHANGED <<file, free, fds>>
      BY <2>4 DEF WriteTest
    <3>2. \/ call' = [call EXCEPT ![t] = Idle]
          \/ call'[t] = [pc |-> "set", obj |-> c.obj, seen |-> datasize]
      BY <2>4 DEF WriteTest, Typed
    <3>3. CASE call'[t] = [pc |-> "set", obj |-> c.obj, seen |-> datasize]
      <4>1. call'[t].pc = "set" /\ call'[t].obj = c.obj
        BY <3>3
      <4>. QED
        BY <3>1, <4>1, OwnerStays DEF WritePcs
    <3>. QED
      BY <1>2, <1>3, <3>1, <3>2, <3>3
  <2>5. CASE WriteSet(t)
    BY <1>2, <1>3, <2>5 DEF WriteSet
  <2>6. CASE ReadLen(t)
    <3>1. c.pc = "short" /\ UNCHANGED <<file, free, fds>>
      BY <2>6 DEF ReadLen
    <3>2. call'[t].pc = "wild" \/ (call'[t].pc = "copy" /\ call'[t].obj = c.obj)
      BY <2>6 DEF ReadLen, Typed
    <3>. QED
      BY <3>1, <3>2, OwnerStays DEF WritePcs, ReadPcs
  <2>7. CASE ReadCopy(t)
    <3>1. c.pc = "copy" /\ UNCHANGED <<file, free, fds>>
      BY <2>7 DEF ReadCopy
    <3>2. call'[t].pc = "advance" /\ call'[t].obj = c.obj
      BY <2>7 DEF ReadCopy, Typed
    <3>. QED
      BY <3>1, <3>2, OwnerStays DEF WritePcs, ReadPcs
  <2>8. CASE ReadAdvance(t)
    <3>1. c.pc = "advance" /\ UNCHANGED <<free, fds>> /\ c.obj \in Objs
      BY <2>8, CallObjs DEF ReadAdvance, ReadPcs
    <3>2. \A o \in Objs : file'[o].node = file[o].node
      BY <1>4, <2>8, <3>1 DEF ReadAdvance
    <3>. QED
      BY <1>2, <1>3, <2>8, <3>1, <3>2 DEF ReadAdvance
  <2>9. CASE ExecClose(t)
    <3>. DEFINE r == c.obj
    <3>1. c \in [pc : {"test", "close", "again"}, obj : Objs] /\ c.pc = "close"
      BY <1>0, <2>9, CallKinds DEF ExecClose
    <3>2. free' = Freed(r) /\ UNCHANGED fds /\ file' = [file EXCEPT ![r].node = "none"]
      BY <2>9 DEF ExecClose
    <3>3. call'[t].pc = "again"
      BY <2>9, <3>1 DEF ExecClose, Typed
    <3>4. PICK q : q = r
      OBVIOUS
    <3>5. InCall(t, q) /\ Loads(t, q) /\ q \in Objs
      BY <3>1, <3>4 DEF InCall, Loads
    <3>6. ~ IsFree(q) /\ \A u \in Tasks : ~ HasOpen(u, q) /\ (u # t => ~ InCall(u, q))
      BY <3>5 DEF Owned, CallsApart
    <3>7. \A u \in Tasks : ~ Fills(u, q)
      BY <3>4, <3>1 DEF Fills, OnFiles
    <3>8. ASSUME NEW u \in Tasks, HasOpen(u, q)' PROVE FALSE
      <4>1. PICK j \in Fds : IsOpen(u, j)' /\ fds[u][j] = q
        BY <3>2, <3>8 DEF HasOpen
      <4>2. IsOpen(u, j)
        <5>1. CASE u = t
          <6>1. call[u] # [pc |-> "clear", fd |-> j]
            BY <3>1, <5>1
          <6>. QED
            BY <3>2, <4>1, <6>1 DEF IsOpen
        <5>2. CASE u # t
          BY <1>6, <3>2, <4>1, <5>2, OthersOwn
        <5>. QED
          BY <5>1, <5>2
      <4>. QED
        BY <3>6, <4>1, <4>2 DEF HasOpen
    <3>9. c.pc # "clear" /\ free' = Freed(q) /\ file' = [file EXCEPT ![q].node = "none"]
      BY <3>1, <3>2, <3>4
    <3>. HIDE DEF r
    <3>. QED
      BY <1>6, <3>2, <3>3, <3>5, <3>6, <3>7, <3>8, <3>9, OwnedWhenGiven
  <2>10. CASE ExecReadAgain(t)
    <3>1. c.pc = "again" /\ c.obj \in Objs /\ UNCHANGED <<free, fds>>
      BY <2>10, CallObjs DEF ExecReadAgain
    <3>2. \A o \in Objs : file'[o].node = file[o].node
      <4>1. UNCHANGED file \/ \E p : file' = [file EXCEPT ![c.obj].pos = p]
        BY <2>10 DEF ExecReadAgain
      <4>. QED
        BY <1>4, <3>1, <4>1
    <3>. QED
      BY <1>2, <1>3, <2>10, <3>1, <3>2 DEF ExecReadAgain
  <2>. QED
    BY <1>6, <2>1, <2>2, <2>3, <2>4, <2>5, <2>6, <2>7, <2>8, <2>9, <2>10 DEF Step
<1>. QED
  BY <1>5, <1>6

-----------------------------------------------------------------------------
\* Reads.  What is filled, and what a step does to it.
LEMMA FilledWithin ==
    ASSUME Typed, NEW node, NEW m \in Nat, NEW k \in Nat, Filled(node, m), k <= m
    PROVE  Filled(node, k)
BY Sizing, Constants DEF Filled, FilledIn

LEMMA FilledBelow ==
    ASSUME Typed, NEW node \in {"tmpfs", "initramfs"}, NEW m \in Nat, Filled(node, m)
    PROVE  m \in Sizes /\ \A n \in Counts : Wrapped(n + m) = n + m
<1>1. \A n \in Counts : n \in Nat /\ n + MAX_FILE_SIZE < SizeMod /\ n + Len(Program) < SizeMod
  BY Sizing DEF Sizes
<1>2. m <= MAX_FILE_SIZE \/ m <= Len(Program)
  BY DEF Filled, FilledIn
<1>3. \A n \in Counts : n + m \in Sizes
  BY <1>1, <1>2, Sizing, Constants DEF Sizes
<1>4. Len(Program) < SizeMod
  BY Sizing DEF Sizes
<1>. QED
  BY <1>2, <1>3, <1>4, Sizing, Constants DEF Sizes

LEMMA FilledSpan ==
    ASSUME Typed, NEW node \in {"tmpfs", "initramfs"}, NEW p \in Nat, NEW n \in Nat, Filled(node, p + n)
    PROVE  \A i \in 1 .. Len(Span(node, p, n)) : Span(node, p, n)[i] # Old
<1>1. Len(Span(node, p, n)) = n
  <2>1. node \in Kinds \/ node = "tmpfs"
    BY DEF Kinds
  <2>2. Span(node, p, n) = [i \in 1 .. n |-> Span(node, p, n)[i]]
    BY DEF Span
  <2>. QED
    BY <2>2
<1>. SUFFICES ASSUME NEW i \in 1 .. n PROVE Span(node, p, n)[i] # Old
  BY <1>1
<1>2. p + i \in 1 .. p + n /\ p + n \in Sizes
  BY FilledBelow
<1>3. ~ (p + i > SizeMod)
  BY <1>2, Sizing DEF Sizes
<1>4. Span(node, p, n)[i] = IF p + i \in DOMAIN Holds(node) THEN Holds(node)[p + i] ELSE Old
  BY <1>3 DEF Span
<1>5. CASE node = "tmpfs"
  <2>1. p + n <= MAX_FILE_SIZE /\ data[p + i] # Old
    BY <1>2, <1>5 DEF Filled, FilledIn
  <2>2. p + i \in DOMAIN data /\ Holds(node) = data
    BY <1>2, <1>5, <2>1, Sizing DEF Typed, Holds, Sizes
  <2>. QED
    BY <1>4, <2>1, <2>2
<1>6. CASE node = "initramfs"
  <2>1. p + n <= Len(Program)
    BY <1>6 DEF Filled, FilledIn
  <2>2. p + i \in DOMAIN Program /\ Holds(node) = Program
    BY <1>2, <1>6, <2>1, Constants DEF Holds, Sizes
  <2>. QED
    BY <1>4, <2>2, FileAssumption
<1>. QED
  BY <1>5, <1>6

LEMMA FilledSize ==
    ASSUME Typed, FilesFilled, NEW node \in {"tmpfs", "initramfs"}
    PROVE  Filled(node, Size(node)) /\ Size(node) \in Nat
BY SizeTyped, Sizing, Constants DEF FilesFilled, Filled, FilledIn, Size

\* No byte that was written becomes what the page held before.
LEMMA FilledKept ==
    ASSUME Typed, NEW t \in Tasks, Call(t) \/ Step(t), NEW node, NEW m \in Nat, Filled(node, m)
    PROVE  FilledIn(data', node, m)
<1>1. \A i \in 1 .. MAX_FILE_SIZE : data[i] # Old => data'[i] # Old
  <2>1. CASE UNCHANGED data
    BY <2>1
  <2>2. ASSUME NEW fd \in Fds, NEW b \in Bytes, NEW n \in Counts, WriteCopy(t, fd, b, n)
        PROVE  \A i \in 1 .. MAX_FILE_SIZE : data[i] # Old => data'[i] # Old
    <3>1. UNCHANGED data \/
          data' = [i \in DOMAIN data |->
                      IF i \in file[fds[t][fd]].pos + 1 .. file[fds[t][fd]].pos + n THEN b ELSE data[i]]
      BY <2>2 DEF WriteCopy
    <3>2. b # Old /\ DOMAIN data = 1 .. MAX_FILE_SIZE
      BY FileAssumption DEF Typed
    <3>. QED
      BY <3>1, <3>2
  <2>3. CASE Call(t)
    BY <2>1, <2>2, <2>3 DEF Call, Unfilled, Open, Close, Lseek, Fork, ReadTest, ExecOpen
  <2>4. CASE Step(t)
    BY <2>1, <2>4 DEF Step, CloseClear, ForkAllocate, ForkFill, WriteTest, WriteSet, ReadLen, ReadCopy,
                      ReadAdvance, ExecClose, ExecReadAgain
  <2>. QED
    BY <2>3, <2>4
<1>2. node = "tmpfs" => \A i \in 1 .. m : i \in 1 .. MAX_FILE_SIZE
  BY Sizing DEF Filled, FilledIn
<1>. QED
  BY <1>1, <1>2 DEF Filled, FilledIn

\* The size changes only in WriteSet, and then it grows, or says so.
LEMMA SizeMoves ==
    ASSUME Typed, OnFiles, NEW t \in Tasks, Call(t) \/ Step(t)
    PROVE  /\ WriteSet(t) \/ datasize' = datasize
           /\ "shrunk" \notin past' => datasize <= datasize'
           /\ \A u \in Tasks : "grown" \notin past' /\ ShortRead(u) => datasize' = datasize
<1>1. CASE WriteSet(t)
  <2>. DEFINE p == file[call[t].obj].pos
  <2>1. call[t].pc \in WritePcs /\ call[t].pc = "set" /\ datasize' = p
    BY <1>1 DEF WriteSet, At, WritePcs
  <2>2. p \in Int /\ datasize \in Int
    <3>0. p \in 0 .. MAX_FILE_SIZE
      BY <2>1, WriteEnds
    <3>1. p \in Int
      BY <3>0, Sizing
    <3>. QED
      BY <3>1 DEF Typed
  <2>3. call[t].seen < p /\ call[t].seen \in Int
    BY <2>1, CallKinds DEF OnFiles, Typed
  <2>4. "shrunk" \notin past' => (datasize > p => datasize = call[t].seen)
    BY <1>1 DEF WriteSet
  <2>5. \A u \in Tasks : "grown" \notin past' => ~ ShortRead(u)
    BY <1>1 DEF WriteSet
  <2>. QED
    BY <1>1, <2>1, <2>2, <2>3, <2>4, <2>5
<1>2. CASE ~ WriteSet(t)
  <2>1. datasize' = datasize
    <3>1. CASE Call(t)
      BY <3>1 DEF Call, Unfilled, Open, Close, Lseek, Fork, WriteCopy, ReadTest, ExecOpen
    <3>2. CASE Step(t)
      BY <1>2, <3>2 DEF Step, CloseClear, ForkAllocate, ForkFill, WriteTest, ReadLen, ReadCopy,
                        ReadAdvance, ExecClose, ExecReadAgain
    <3>. QED
      BY <3>1, <3>2
  <2>2. datasize \in Int
    BY DEF Typed
  <2>. QED
    BY <2>1, <2>2
<1>. QED
  BY <1>1, <1>2

\* A read under way in another task.
LEMMA OthersReads ==
    ASSUME Typed, Typed', OnFiles, Owned, NEW t \in Tasks, Call(t) \/ Step(t), NEW u \in Tasks \ {t},
           Calm', ReadSound(u)
    PROVE  ReadSound(u)'
<1>. DEFINE c == call[u]
            o == c.obj
            p == file[o].pos
<1>1. CASE c.pc \in ReadPcs
  <2>1. o \in Objs /\ InCall(u, o)
    BY <1>1, CallObjs DEF InCall, Reads
  <2>2. call'[u] = c /\ file'[o] = file[o]
    <3>1. call'[u] = c /\ (file'[o] = file[o] \/ Again(t, o))
      BY <2>1, OthersFiles
    <3>2. file[o].node # "none"
      BY <1>1 DEF OnFiles
    <3>. QED
      BY <3>1, <3>2 DEF Again, Calm
  <2>3. p \in Nat /\ c.n \in Nat /\ (c.pc = "copy" => c.len \in Nat)
    BY <1>1, <2>1, CallKinds, Sizing, FileAssumption DEF Typed, Records, Sizes, ReadPcs
  <2>4. p + c.n \in Nat /\ (c.pc = "copy" => p + c.len \in Nat)
    BY <2>3
  <2>5. /\ Filled(c.node, p + c.n) => FilledIn(data', c.node, p + c.n)
        /\ c.pc = "copy" /\ Filled(c.node, p + c.len) => FilledIn(data', c.node, p + c.len)
    BY <2>4, FilledKept
  <2>. DEFINE z == IF c.node = "tmpfs" THEN datasize' ELSE Len(Program)
  <2>6. "grown" \notin past' /\ c.pc = "short" => z = Size(c.node)
    <3>1. c.pc = "short" => ~ c.whole
      BY DEF OnFiles
    <3>2. c.pc = "short" /\ c.node = "tmpfs" => ShortRead(u)
      BY <3>1 DEF ShortRead
    <3>. QED
      BY <2>2, <3>2, SizeMoves DEF Size
  <2>7. "shrunk" \notin past' => Size(c.node) <= z
    <3>1. Len(Program) <= Len(Program)
      BY Constants
    <3>. QED
      BY <2>2, <3>1, SizeMoves DEF Size
  <2>8. Size(c.node) \in Int /\ z \in Int
    BY Constants DEF Size, Typed
  <2>9. "grown" \notin past' => "grown" \notin past
    BY PastGrows
  <2>10. "shrunk" \notin past' => "shrunk" \notin past
    BY PastGrows
  <2>11. call'[u].pc = c.pc /\ call'[u].obj = o /\ file'[call'[u].obj].pos = p
    BY <2>2
  <2>12. "grown" \notin past' /\ c.pc = "short" => c.n + p > z
    BY <2>6, <2>9 DEF ReadSound
  <2>13. "shrunk" \notin past' /\ c.pc \in {"copy", "advance"} /\ c.whole => c.n + p <= z
    BY <2>3, <2>7, <2>8, <2>10 DEF ReadSound
  <2>14. /\ c.pc = "copy" => FilledIn(data', c.node, p + c.len) /\ (c.whole => c.len = c.n)
         /\ c.pc = "advance" /\ c.whole => FilledIn(data', c.node, p + c.n) /\ Len(c.got) = c.n
    BY <2>5 DEF ReadSound
  <2>15. "grown" \notin past' =>
            (c.pc = "copy" => c.len <= c.n) /\ (c.pc = "advance" => Len(c.got) <= c.n)
    BY <2>9 DEF ReadSound
  <2>16. c.pc = "advance" => \A i \in 1 .. Len(c.got) : c.got[i] # Old
    BY DEF ReadSound
  <2>. QED
    BY <2>2, <2>12, <2>13, <2>14, <2>15, <2>16 DEF ReadSound, Filled, Size
<1>2. CASE c.pc \notin ReadPcs
  <2>1. call'[u].pc \notin ReadPcs
    BY <1>2, CallMoves DEF Idle, ReadPcs
  <2>. QED
    BY <2>1 DEF ReadSound, ReadPcs
<1>. QED
  BY <1>1, <1>2

\* A struct file that has moved is where the file is filled, and in the file
\* unless a write has moved it.
Landed(t, o) ==
    /\ FilledIn(data', file'[o].node, file'[o].pos)
    /\ "shrunk" \notin past' /\ file'[o].node = "tmpfs" =>
          file'[o].pos <= datasize' \/ Writes(t, o)'

LEMMA LandsInFile ==
    ASSUME Typed, NEW t \in Tasks, Call(t) \/ Step(t), FilesFilled, NEW o \in Objs,
           file'[o].node \in Kinds, file'[o].pos \in Nat, UNCHANGED datasize,
           file'[o].node \in {"tmpfs", "initramfs"} => file'[o].pos <= Size(file'[o].node)
    PROVE  Landed(t, o)
<1>. DEFINE k == file'[o].node
            p == file'[o].pos
<1>1. CASE k \in {"tmpfs", "initramfs"}
  <2>1. PICK m : m = Size(k)
    OBVIOUS
  <2>2. Filled(k, m) /\ m \in Nat /\ p <= m
    BY <1>1, <2>1, FilledSize
  <2>3. Filled(k, p)
    BY <2>2, FilledWithin
  <2>4. FilledIn(data', k, p)
    BY <2>3, FilledKept
  <2>5. k = "tmpfs" => p <= datasize'
    BY <1>1 DEF Size
  <2>. QED
    BY <2>4, <2>5 DEF Landed
<1>2. CASE k \notin {"tmpfs", "initramfs"}
  BY <1>2 DEF Landed, FilledIn
<1>. QED
  BY <1>1, <1>2

LEMMA FilesLand ==
    ASSUME Typed, Typed', OnFiles, Owned, NEW t \in Tasks, Call(t) \/ Step(t),
           Calm', FilesFilled, PositionsInFile, ReadSound(t), NEW o \in Objs, file'[o] # file[o]
    PROVE  Landed(t, o)
<1>. DEFINE c == call[t]
            Q == Landed(t, o)
<1>. USE DEF At, Goto, GoWild
<1>0. c \in Calls /\ file'[o] \in Records /\ file[o] \in Records /\ datasize \in Nat
  BY DEF Typed
<1>1. file'[o].node \in Kinds /\ file'[o].pos \in Nat /\ file[o].node \in Kinds /\ file[o].pos \in Nat
  BY <1>0 DEF Records, Sizes
<1>2. ASSUME UNCHANGED datasize,
             file'[o].node \in {"tmpfs", "initramfs"} => file'[o].pos <= Size(file'[o].node)
      PROVE  Q
  BY <1>1, <1>2, LandsInFile
<1>3. ASSUME UNCHANGED datasize, file'[o].node \notin {"tmpfs", "initramfs"} PROVE Q
  BY <1>2, <1>3
<1>4. ASSUME NEW r, NEW p, file' = [file EXCEPT ![r].pos = p]
      PROVE  r = o /\ file'[o].node = file[o].node /\ file'[o].pos = p
  BY <1>0, <1>4 DEF Typed, Records
<1>5. \A m, n \in Nat : m - n \in Int
  OBVIOUS
<1>6. Len(Program) \in Nat /\ Size(file[o].node) \in Nat
  BY Constants, SizeTyped
<1>7. CASE Call(t)
  <2>1. CASE ExecOpen(t)
    <3>1. file' = [file EXCEPT ![Head(free)] = [node |-> "initramfs", pos |-> Len(Program)]]
          /\ UNCHANGED datasize
      BY <2>1 DEF ExecOpen
    <3>2. file'[o] = [node |-> "initramfs", pos |-> Len(Program)]
      BY <3>1 DEF Typed
    <3>3. file'[o].pos <= Size(file'[o].node)
      BY <1>6, <3>2 DEF Size
    <3>. QED
      BY <1>2, <3>1, <3>3
  <2>2. CASE Unfilled(t)
    BY <2>2 DEF Unfilled
  <2>3. ASSUME NEW child \in Tasks, Fork(t, child) PROVE Q
    BY <2>3 DEF Fork
  <2>4. ASSUME NEW fd \in Fds, NEW node \in Nodes, Open(t, fd, node) PROVE Q
    <3>1. file' = [file EXCEPT ![Head(free)] = [node |-> node, pos |-> 0]] /\ UNCHANGED datasize
      BY <2>4 DEF Open
    <3>2. file'[o] = [node |-> node, pos |-> 0]
      BY <3>1 DEF Typed
    <3>3. Size(file'[o].node) \in Nat
      BY SizeTyped
    <3>4. file'[o].pos <= Size(file'[o].node)
      BY <3>2, <3>3
    <3>. QED
      BY <1>2, <3>1, <3>4
  <2>5. ASSUME NEW fd \in Fds, Close(t, fd) PROVE Q
    <3>1. file' = [file EXCEPT ![fds[t][fd]].node = "none"] /\ UNCHANGED datasize
      BY <2>5 DEF Close
    <3>2. file'[o].node = "none"
      BY <1>0, <3>1 DEF Typed, Records
    <3>. QED
      BY <1>3, <3>1, <3>2
  <2>6. ASSUME NEW fd \in Fds, NEW q \in Offsets, Lseek(t, fd, q) PROVE Q
    <3>1. /\ file' = [file EXCEPT ![fds[t][fd]].pos = Wrapped(q)] /\ UNCHANGED datasize
          /\ ~ (Wrapped(q) > Size(file[fds[t][fd]].node))
      BY <2>6 DEF Lseek, Calm
    <3>2. fds[t][fd] = o /\ file'[o].node = file[o].node /\ file'[o].pos = Wrapped(q)
      BY <1>4, <3>1
    <3>3. file'[o].pos <= Size(file'[o].node)
      BY <1>1, <1>6, <3>1, <3>2
    <3>. QED
      BY <1>2, <3>1, <3>3
  <2>7. ASSUME NEW fd \in Fds, NEW b \in Bytes, NEW n \in Counts, WriteCopy(t, fd, b, n) PROVE Q
    <3>. DEFINE r == fds[t][fd]
                p == file[r].pos
    <3>0. r \in Objs /\ file[r].node = "tmpfs"
      BY <2>7 DEF WriteCopy, Begins, Typed
    <3>1. /\ p + n <= MAX_FILE_SIZE
          /\ data' = [i \in DOMAIN data |-> IF i \in p + 1 .. p + n THEN b ELSE data[i]]
          /\ file' = [file EXCEPT ![r].pos = p + n]
          /\ call' = [call EXCEPT ![t] = [pc |-> "test", obj |-> r]]
      BY <2>7 DEF WriteCopy
    <3>2. r = o /\ file'[o].node = "tmpfs" /\ file'[o].pos = p + n
      BY <1>4, <3>0, <3>1
    <3>3. call'[t] = [pc |-> "test", obj |-> o]
      BY <3>1, <3>2 DEF Typed
    <3>4. Writes(t, o)'
      BY <3>3 DEF Writes, WritePcs
    <3>5. b # Old /\ DOMAIN data = 1 .. MAX_FILE_SIZE /\ n \in Nat /\ p \in Nat /\ MAX_FILE_SIZE \in Nat
      BY <1>1, <3>2, FileAssumption DEF Typed
    <3>6. \A i \in 1 .. p : data[i] # Old
      BY <3>0 DEF FilesFilled, Filled, FilledIn
    <3>7. ASSUME NEW i \in 1 .. p + n PROVE data'[i] # Old
      <4>1. i \in DOMAIN data /\ (i \in 1 .. p \/ i \in p + 1 .. p + n)
        BY <3>1, <3>5
      <4>. QED
        BY <3>1, <3>5, <3>6, <4>1
    <3>8. FilledIn(data', file'[o].node, file'[o].pos)
      BY <3>1, <3>2, <3>7 DEF FilledIn
    <3>. QED
      BY <3>4, <3>8 DEF Landed
  <2>8. ASSUME NEW fd \in Fds, NEW n \in Counts, ReadTest(t, fd, n) PROVE Q
    BY <2>8 DEF ReadTest
  <2>. QED
    BY <1>7, <2>1, <2>2, <2>3, <2>4, <2>5, <2>6, <2>7, <2>8 DEF Call
<1>8. CASE Step(t)
  <2>1. CASE CloseClear(t) \/ ForkAllocate(t) \/ WriteTest(t) \/ WriteSet(t) \/ ReadLen(t) \/ ReadCopy(t)
    BY <2>1 DEF CloseClear, ForkAllocate, WriteTest, WriteSet, ReadLen, ReadCopy
  <2>2. CASE ForkFill(t)
    <3>. DEFINE q == fds[t][c.fd]
    <3>1. c \in [pc : {"fill"}, child : Tasks, fd : Fds, obj : Objs] /\ c.pc = "fill"
      BY <1>0, <2>2, CallKinds DEF ForkFill
    <3>2. q \in Objs
      BY <3>1 DEF OnFiles, Typed
    <3>3. file'[o] = file[q] /\ UNCHANGED <<data, datasize>>
      BY <2>2 DEF ForkFill, Typed
    <3>4. FilledIn(data', file'[o].node, file'[o].pos)
      BY <3>2, <3>3 DEF FilesFilled, Filled
    <3>5. IsOpen(t, c.fd)
      <4>1. c # [pc |-> "clear", fd |-> c.fd]
        BY <3>1
      <4>. QED
        BY <3>1, <4>1 DEF IsOpen, OnFiles
    <3>6. ASSUME NEW u \in Tasks, Writes(u, q) PROVE FALSE
      <4>1. InCall(u, q) /\ HasOpen(t, q)
        BY <3>1, <3>5, <3>6 DEF InCall, HasOpen
      <4>2. t = u
        BY <3>2, <4>1 DEF Owned, CallsApart
      <4>. QED
        BY <3>1, <3>6, <4>2 DEF Writes, WritePcs
    <3>7. "shrunk" \notin past' /\ file[q].node = "tmpfs" => file[q].pos <= datasize
      <4>1. file[q].pos \in Int
        BY <3>2 DEF Typed, Records, Sizes
      <4>. QED
        BY <1>0, <3>2, <3>6, <4>1, PastGrows DEF PositionsInFile
    <3>. QED
      BY <3>3, <3>4, <3>7 DEF Landed
  <2>3. CASE ReadAdvance(t)
    <3>1. c \in [pc : {"advance"}, obj : Objs, n : Counts, node : Kinds, whole : BOOLEAN,
                 got : Seq(AnyByte)] /\ c.pc = "advance" /\ UNCHANGED <<data, datasize>>
      BY <1>0, <2>3, CallKinds DEF ReadAdvance
    <3>2. file' = [file EXCEPT ![c.obj].pos = IF c.whole THEN Wrapped(file[c.obj].pos + c.n)
                                              ELSE Advanced(file[c.obj].pos, Size(c.node))]
      BY <2>3 DEF ReadAdvance
    <3>3. c.obj = o /\ file'[o].node = file[o].node
          /\ file'[o].pos = IF c.whole THEN Wrapped(file[o].pos + c.n) ELSE Advanced(file[o].pos, Size(c.node))
      BY <1>4, <3>2
    <3>4. file[o].node = c.node /\ c.node \in {"tmpfs", "initramfs"}
      BY <3>1, <3>3, FileAssumption DEF OnFiles, ReadPcs, Kinds
    <3>5. CASE c.whole
      <4>1. Filled(c.node, file[o].pos + c.n)
        BY <3>1, <3>3, <3>5 DEF ReadSound
      <4>2. c.n \in Nat
        BY <3>1, FileAssumption
      <4>3. Wrapped(file[o].pos + c.n) = file[o].pos + c.n
        <5>1. file[o].pos + c.n \in Nat
          BY <1>1, <4>2
        <5>2. file[o].pos + c.n \in Sizes
          BY <3>4, <4>1, <5>1, FilledBelow
        <5>. QED
          BY <5>2, Sizing
      <4>4. FilledIn(data', file'[o].node, file'[o].pos)
        BY <3>1, <3>3, <3>4, <3>5, <4>1, <4>3 DEF Filled
      <4>5. "shrunk" \notin past' => c.n + file[o].pos <= Size(c.node)
        BY <3>1, <3>3, <3>5, PastGrows DEF ReadSound
      <4>6. "shrunk" \notin past' /\ file'[o].node = "tmpfs" => file'[o].pos <= datasize'
        BY <1>1, <3>1, <3>3, <3>4, <3>5, <4>2, <4>3, <4>5 DEF Size
      <4>. QED
        BY <4>4, <4>6 DEF Landed
    <3>6. CASE ~ c.whole
      <4>1. file'[o].pos = Size(file'[o].node)
        BY <1>1, <1>6, <3>3, <3>4, <3>6 DEF Advanced
      <4>. QED
        BY <1>1, <1>2, <3>1, <4>1
    <3>. QED
      BY <3>1, <3>5, <3>6
  <2>4. CASE ExecClose(t)
    <3>1. file' = [file EXCEPT ![c.obj].node = "none"] /\ UNCHANGED datasize
      BY <2>4 DEF ExecClose
    <3>2. file'[o].node = "none"
      BY <1>0, <3>1 DEF Typed, Records
    <3>. QED
      BY <1>3, <3>1, <3>2
  <2>5. CASE ExecReadAgain(t)
    <3>1. UNCHANGED datasize /\ \E p : file' = [file EXCEPT ![c.obj].pos = p]
      BY <2>5 DEF ExecReadAgain
    <3>2. c.obj = o /\ file'[o].node = file[o].node
      BY <1>4, <3>1
    <3>3. file[o].node = "none"
      BY <2>5, <3>2 DEF ExecReadAgain, Calm
    <3>. QED
      BY <1>3, <3>1, <3>2, <3>3
  <2>. QED
    BY <1>8, <2>1, <2>2, <2>3, <2>4, <2>5 DEF Step
<1>. QED
  BY <1>7, <1>8

LEMMA FilesFilledKept ==
    ASSUME Typed, Typed', OnFiles, Owned, NEW t \in Tasks, Call(t) \/ Step(t),
           Calm', FilesFilled, PositionsInFile, ReadSound(t)
    PROVE  FilesFilled'
<1>1. FilledIn(data', "tmpfs", datasize')
  <2>1. CASE datasize' = datasize
    <3>1. Filled("tmpfs", datasize) /\ datasize \in Nat
      BY DEF FilesFilled, Typed
    <3>. QED
      BY <2>1, <3>1, FilledKept
  <2>2. CASE WriteSet(t)
    <3>1. call[t].pc \in WritePcs /\ datasize' = file[call[t].obj].pos /\ UNCHANGED data
      BY <2>2 DEF WriteSet, At, WritePcs
    <3>2. call[t].obj \in Objs /\ file[call[t].obj].node = "tmpfs"
      BY <3>1, CallObjs DEF OnFiles
    <3>. QED
      BY <3>1, <3>2 DEF FilesFilled, Filled
  <2>. QED
    BY <2>1, <2>2, SizeMoves
<1>2. ASSUME NEW o \in Objs PROVE FilledIn(data', file'[o].node, file'[o].pos)
  <2>1. CASE file'[o] = file[o]
    <3>1. Filled(file[o].node, file[o].pos) /\ file[o].pos \in Nat
      BY DEF FilesFilled, Typed, Records, Sizes
    <3>. QED
      BY <2>1, <3>1, FilledKept
  <2>2. CASE file'[o] # file[o]
    BY <2>2, FilesLand DEF Landed
  <2>. QED
    BY <2>1, <2>2
<1>. QED
  BY <1>1, <1>2 DEF FilesFilled, Filled

LEMMA PositionsInFileKept ==
    ASSUME Typed, Typed', OnFiles, Owned, NEW t \in Tasks, Call(t) \/ Step(t),
           Calm', FilesFilled, PositionsInFile, ReadSound(t)
    PROVE  PositionsInFile'
<1>. SUFFICES ASSUME "shrunk" \notin past', NEW o \in Objs, file'[o].node = "tmpfs",
                     file'[o].pos > datasize'
              PROVE  \E u \in Tasks : Writes(u, o)'
  BY DEF PositionsInFile
<1>0. file'[o].pos \in Int /\ datasize \in Int /\ datasize' \in Int /\ datasize <= datasize'
  BY SizeMoves DEF Typed, Records, Sizes
<1>1. CASE file'[o] # file[o]
  BY <1>0, <1>1, FilesLand DEF Landed
<1>2. CASE file'[o] = file[o]
  <2>1. PICK u \in Tasks : Writes(u, o)
    BY <1>0, <1>2, PastGrows DEF PositionsInFile
  <2>2. CASE u # t
    <3>1. call[u].pc # "unborn"
      BY <2>1 DEF Writes, WritePcs
    <3>2. call'[u] = call[u]
      BY <2>2, <3>1, CallMoves
    <3>. QED
      BY <2>1, <3>2 DEF Writes
  <2>3. CASE u = t
    <3>. DEFINE c == call[t]
    <3>1. c.pc \in {"test", "set"} /\ c.obj = o
      BY <2>1, <2>3 DEF Writes, WritePcs
    <3>2. WriteTest(t) \/ WriteSet(t)
      <4>1. ~ Call(t)
        BY <3>1 DEF Call, ExecOpen, Unfilled, Fork, Open, Close, Lseek, WriteCopy, ReadTest, Begins, At
      <4>2. Step(t)
        BY <4>1
      <4>. QED
        BY <3>1, <4>2 DEF Step, CloseClear, ForkAllocate, ForkFill, WriteTest, WriteSet, ReadLen, ReadCopy,
                        ReadAdvance, ExecClose, ExecReadAgain, At
    <3>3. CASE WriteSet(t)
      <4>1. datasize' = file[o].pos
        BY <3>1, <3>3 DEF WriteSet
      <4>. QED
        BY <1>0, <1>2, <4>1
    <3>4. CASE WriteTest(t)
      <4>1. datasize' = datasize
        BY <3>4 DEF WriteTest
      <4>2. datasize < file[o].pos
        BY <1>0, <1>2, <4>1
      <4>3. call' = [call EXCEPT ![t] = [pc |-> "set", obj |-> o, seen |-> datasize]]
        BY <3>1, <3>4, <4>2 DEF WriteTest, Longer, Goto
      <4>4. call'[t] = [pc |-> "set", obj |-> o, seen |-> datasize]
        BY <4>3 DEF Typed
      <4>. QED
        BY <4>4 DEF Writes, WritePcs
    <3>. QED
      BY <3>2, <3>3, <3>4
  <2>. QED
    BY <2>2, <2>3
<1>. QED
  BY <1>1, <1>2

\* The steps of a read.
LEMMA ReadsBegin ==
    ASSUME Typed, Typed', OnFiles, NEW t \in Tasks, NEW fd \in Fds, NEW n \in Counts, ReadTest(t, fd, n),
           Calm', FilesFilled
    PROVE  ReadSound(t)'
<1>. DEFINE o == fds[t][fd]
            k == file[o].node
            p == file[o].pos
<1>1. /\ o \in Objs /\ k \in {"tmpfs", "initramfs"} /\ p \in Nat /\ n \in Nat
      /\ UNCHANGED <<data, datasize, file, past>>
  BY FileAssumption DEF ReadTest, Begins, Typed, Records, Kinds, Sizes
<1>2. Filled(k, p)
  BY <1>1 DEF FilesFilled
<1>3. Wrapped(n + p) = n + p
  BY <1>1, <1>2, FilledBelow
<1>4. Size(k) \in Nat /\ Filled(k, Size(k))
  BY <1>1, FilledSize
<1>5. CASE n + p > Size(k)
  <2>1. call'[t] = [pc |-> "short", obj |-> o, n |-> n, node |-> k, whole |-> FALSE]
    BY <1>3, <1>5 DEF ReadTest, Goto, Typed
  <2>2. call'[t].pc = "short" /\ call'[t].obj = o /\ call'[t].n = n /\ call'[t].node = k
    BY <2>1
  <2>. QED
    BY <1>1, <1>5, <2>2 DEF ReadSound, Size
<1>6. CASE ~ (n + p > Size(k))
  <2>1. call'[t] = [pc |-> "copy", obj |-> o, n |-> n, node |-> k, whole |-> TRUE, len |-> n]
    BY <1>3, <1>6 DEF ReadTest, Goto, Typed
  <2>2. PICK m : m = Size(k)
    OBVIOUS
  <2>3. Filled(k, p + n)
    BY <1>1, <1>4, <1>6, <2>2, FilledWithin
  <2>4. n + p <= Size(k)
    BY <1>1, <1>4, <1>6
  <2>5. /\ call'[t].pc = "copy" /\ call'[t].obj = o /\ call'[t].n = n /\ call'[t].node = k /\ call'[t].len = n
        /\ call'[t].whole
    BY <2>1
  <2>6. n <= n
    BY <1>1
  <2>. QED
    BY <1>1, <2>3, <2>4, <2>5, <2>6 DEF ReadSound, Size, Filled
<1>. QED
  BY <1>5, <1>6

LEMMA ReadsGoOn ==
    ASSUME Typed, Typed', OnFiles, NEW t \in Tasks, ReadLen(t) \/ ReadCopy(t), Calm', FilesFilled, ReadSound(t)
    PROVE  ReadSound(t)'
<1>. DEFINE c == call[t]
            o == c.obj
            k == c.node
            p == file[o].pos
<1>1. UNCHANGED <<data, datasize, file, past>>
  BY DEF ReadLen, ReadCopy
<1>2. c \in Calls /\ c.pc \in {"short", "copy"} /\ (ReadLen(t) => c.pc = "short") /\ (ReadCopy(t) => c.pc = "copy")
  BY DEF ReadLen, ReadCopy, At, Typed
<1>3. o \in Objs /\ c.n \in Nat /\ k \in {"tmpfs", "initramfs"} /\ (c.pc = "copy" => c.len \in Nat)
  BY <1>2, CallKinds, CallObjs, FileAssumption DEF OnFiles, ReadPcs, Kinds
<1>4. p \in Nat
  BY <1>3 DEF Typed, Records, Sizes
<1>5. CASE ReadLen(t)
  <2>1. CASE Size(k) < p
    <3>1. call'[t] = [pc |-> "wild"]
      BY <1>5, <2>1 DEF ReadLen, Goto, Typed
    <3>2. call'[t].pc = "wild"
      BY <3>1
    <3>. QED
      BY <3>2 DEF ReadSound
  <2>2. CASE ~ (Size(k) < p)
    <3>. DEFINE l == Size(k) - p
    <3>1. call'[t] = [pc |-> "copy", obj |-> o, n |-> c.n, node |-> k, whole |-> FALSE, len |-> l]
      BY <1>5, <2>2 DEF ReadLen, LenLeft, Goto, Typed
    <3>2. /\ call'[t].pc = "copy" /\ call'[t].obj = o /\ call'[t].n = c.n /\ call'[t].node = k
          /\ call'[t].len = l /\ ~ call'[t].whole
      BY <3>1
    <3>3. Filled(k, Size(k)) /\ Size(k) \in Nat
      BY <1>3, FilledSize
    <3>4. p + l = Size(k)
      BY <1>4, <3>3
    <3>5. "grown" \notin past' => l <= c.n
      BY <1>1, <1>2, <1>3, <1>4, <1>5, <3>3 DEF ReadSound
    <3>6. FilledIn(data', k, p + l)
      BY <1>1, <3>3, <3>4 DEF Filled
    <3>. HIDE DEF l
    <3>. QED
      BY <1>1, <3>2, <3>5, <3>6 DEF ReadSound, Filled
  <2>. QED
    BY <2>1, <2>2
<1>6. CASE ReadCopy(t)
  <2>1. PICK g : g = Span(k, p, c.len)
    OBVIOUS
  <2>2. call'[t] = [pc |-> "advance", obj |-> o, n |-> c.n, node |-> k, whole |-> c.whole, got |-> g]
    BY <1>6, <2>1 DEF ReadCopy, Goto, Typed
  <2>3. /\ call'[t].pc = "advance" /\ call'[t].obj = o /\ call'[t].n = c.n /\ call'[t].node = k
        /\ call'[t].got = g /\ call'[t].whole = c.whole
    BY <2>2
  <2>4. Filled(k, p + c.len)
    BY <1>2, <1>6 DEF ReadSound
  <2>5. \A i \in 1 .. Len(g) : g[i] # Old
    BY <1>2, <1>3, <1>4, <1>6, <2>1, <2>4, FilledSpan
  <2>6. Len(g) = c.len
    <3>1. k \in Kinds
      BY <1>2, <1>6, CallKinds
    <3>. QED
      BY <1>2, <1>3, <1>4, <1>6, <2>1, <3>1, SpanTyped
  <2>7. c.whole => FilledIn(data', k, p + c.n) /\ Len(g) = c.n
    BY <1>1, <1>2, <1>6, <2>4, <2>6 DEF ReadSound, Filled
  <2>8. "grown" \notin past' => Len(g) <= c.n
    BY <1>1, <1>2, <1>6, <2>6 DEF ReadSound
  <2>9. "shrunk" \notin past' /\ c.whole => c.n + p <= Size(k)
    BY <1>1, <1>2, <1>6 DEF ReadSound
  <2>. QED
    BY <1>1, <2>3, <2>5, <2>7, <2>8, <2>9 DEF ReadSound, Filled, Size
<1>. QED
  BY <1>5, <1>6

LEMMA ReadsKept ==
    ASSUME Typed, Typed', OnFiles, NEW t \in Tasks, Call(t) \/ Step(t), Calm', FilesFilled, ReadSound(t)
    PROVE  ReadSound(t)'
<1>. DEFINE Q == ReadSound(t)'
<1>. USE DEF At, Goto, GoWild
<1>0. \A c : [pc |-> "fork", child |-> c, fd |-> 1].pc = "fork" /\ Idle.pc = "user"
  BY DEF Idle
<1>1. ASSUME call'[t].pc \notin ReadPcs PROVE Q
  BY <1>1 DEF ReadSound, ReadPcs
<1>2. ASSUME call' = [call EXCEPT ![t] = Idle] \/ call' = [call EXCEPT ![t] = [pc |-> "wild"]] PROVE Q
  <2>1. call'[t].pc \in {"user", "wild"}
    BY <1>2 DEF Idle, Typed
  <2>. QED
    BY <1>1, <2>1 DEF ReadPcs
<1>3. CASE Call(t)
  <2>1. CASE ExecOpen(t)
    <3>1. call'[t].pc = "close"
      BY <2>1 DEF ExecOpen, Typed
    <3>. QED
      BY <1>1, <3>1 DEF ReadPcs
  <2>2. CASE Unfilled(t)
    BY <1>2, <2>2 DEF Unfilled
  <2>3. ASSUME NEW child \in Tasks, Fork(t, child) PROVE Q
    <3>1. call'[t].pc = "fork"
      BY <2>3 DEF Fork, Typed
    <3>. QED
      BY <1>1, <3>1 DEF ReadPcs
  <2>4. ASSUME NEW fd \in Fds, NEW node \in Nodes, Open(t, fd, node) PROVE Q
    BY <1>1, <2>4 DEF Open, ReadPcs
  <2>5. ASSUME NEW fd \in Fds, Close(t, fd) PROVE Q
    <3>1. call'[t].pc = "clear"
      BY <2>5 DEF Close, Typed
    <3>. QED
      BY <1>1, <3>1 DEF ReadPcs
  <2>6. ASSUME NEW fd \in Fds, NEW p \in Offsets, Lseek(t, fd, p) PROVE Q
    BY <1>1, <2>6 DEF Lseek, Begins, ReadPcs
  <2>7. ASSUME NEW fd \in Fds, NEW b \in Bytes, NEW n \in Counts, WriteCopy(t, fd, b, n) PROVE Q
    <3>1. call'[t].pc \in {"test", "wild"}
      BY <2>7 DEF WriteCopy, Typed
    <3>. QED
      BY <1>1, <3>1 DEF ReadPcs
  <2>8. ASSUME NEW fd \in Fds, NEW n \in Counts, ReadTest(t, fd, n) PROVE Q
    BY <2>8, ReadsBegin
  <2>. QED
    BY <1>3, <2>1, <2>2, <2>3, <2>4, <2>5, <2>6, <2>7, <2>8 DEF Call
<1>4. CASE Step(t)
  <2>1. CASE CloseClear(t) \/ WriteSet(t) \/ ReadAdvance(t) \/ ExecReadAgain(t)
    BY <1>2, <2>1 DEF CloseClear, WriteSet, ReadAdvance, ExecReadAgain
  <2>2. CASE ForkAllocate(t) \/ ForkFill(t) \/ ExecClose(t) \/ WriteTest(t)
    <3>1. call'[t].pc \notin ReadPcs
      <4>0. call[t] \in Calls /\ call'[t] \in Calls
        BY DEF Typed
      <4>1. CASE ForkAllocate(t)
        <5>1. call[t] \in [pc : {"fork"}, child : Tasks, fd : Nat]
          BY <4>0, <4>1, CallKinds DEF ForkAllocate
        <5>. QED
          BY <4>1, <5>1 DEF ForkAllocate, Typed, ReadPcs, Idle
      <4>2. CASE ForkFill(t)
        BY <4>2 DEF ForkFill, Typed, ReadPcs
      <4>3. CASE ExecClose(t)
        <5>1. call[t] \in [pc : {"test", "close", "again"}, obj : Objs]
          BY <4>0, <4>3, CallKinds DEF ExecClose
        <5>. QED
          BY <4>3, <5>1 DEF ExecClose, Typed, ReadPcs
      <4>4. CASE WriteTest(t)
        BY <4>4 DEF WriteTest, Typed, ReadPcs, Idle
      <4>. QED
        BY <2>2, <4>1, <4>2, <4>3, <4>4
    <3>. QED
      BY <1>1, <3>1
  <2>3. CASE ReadLen(t) \/ ReadCopy(t)
    BY <2>3, ReadsGoOn
  <2>. QED
    BY <1>4, <2>1, <2>2, <2>3 DEF Step
<1>. QED
  BY <1>3, <1>4

LEMMA QuietKept ==
    ASSUME Typed, Typed', OnFiles, Owned, Quiet, NEW t \in Tasks, Call(t) \/ Step(t)
    PROVE  Quiet'
<1>. SUFFICES ASSUME Calm' PROVE FilesFilled' /\ PositionsInFile' /\ \A u \in Tasks : ReadSound(u)'
  BY DEF Quiet
<1>1. FilesFilled /\ PositionsInFile /\ \A u \in Tasks : ReadSound(u)
  BY PastGrows DEF Quiet, Calm
<1>2. FilesFilled' /\ PositionsInFile'
  BY <1>1, FilesFilledKept, PositionsInFileKept
<1>3. ASSUME NEW u \in Tasks PROVE ReadSound(u)'
  <2>1. CASE u = t
    BY <1>1, <2>1, ReadsKept
  <2>2. CASE u # t
    BY <1>1, <2>2, OthersReads
  <2>. QED
    BY <2>1, <2>2
<1>. QED
  BY <1>2, <1>3

-----------------------------------------------------------------------------
IInv == Typed /\ OnFiles /\ Owned /\ SizeCoversWrites /\ Quiet

LEMMA InitHolds == Init => IInv
<1>. SUFFICES ASSUME Init PROVE IInv
  OBVIOUS
<1>. USE DEF Init
<1>1. free \in Seq(Objs)
  BY Constants
<1>2. Typed
  <2>1. Nothing \in Records
    BY Sizing DEF Nothing, Records, Kinds, Sizes
  <2>2. Idle \in Calls /\ [pc |-> "unborn"] \in Calls
    BY DEF Idle, Calls
  <2>. QED
    BY <1>1, <2>1, <2>2, Sizing DEF Typed, AnyByte
<1>3. \A t \in Tasks : call[t].pc \in {"user", "unborn"}
  BY DEF Idle
<1>4. OnFiles /\ SizeCoversWrites
  BY <1>3 DEF OnFiles, SizeCoversWrites, WritePcs, ReadPcs
<1>5. Owned
  <2>1. \A i \in 1 .. Len(free) : free[i] = i
    BY <1>1, Constants
  <2>2. FreeOnce
    BY <2>1 DEF FreeOnce
  <2>3. \A t \in Tasks, i \in Fds : ~ IsOpen(t, i)
    BY DEF IsOpen
  <2>4. \A t \in Tasks : \A o : ~ InCall(t, o) /\ ~ Fills(t, o) /\ ~ HasOpen(t, o)
    BY <1>3, <2>3 DEF InCall, Writes, Reads, Loads, Fills, HasOpen, WritePcs, ReadPcs
  <2>. QED
    BY <2>2, <2>3, <2>4 DEF Owned, FreeIsNone, FdsApart, FdsNotFree, CallsApart, FillsApart, Nothing
<1>6. Quiet
  <2>1. FilesFilled
    BY Sizing DEF FilesFilled, Filled, FilledIn, Nothing
  <2>2. PositionsInFile
    BY DEF PositionsInFile, Nothing
  <2>3. \A t \in Tasks : ReadSound(t)
    BY <1>3 DEF ReadSound
  <2>. QED
    BY <2>1, <2>2, <2>3 DEF Quiet
<1>. QED
  BY <1>2, <1>4, <1>5, <1>6 DEF IInv

LEMMA IInvKept ==
    ASSUME IInv, [Next]_vars
    PROVE  IInv'
<1>1. ASSUME NEW t \in Tasks, Call(t) \/ Step(t) PROVE IInv'
  <2>1. Typed'
    BY <1>1, TypedKept DEF IInv
  <2>2. OnFiles' /\ Owned' /\ SizeCoversWrites' /\ Quiet'
    BY <1>1, <2>1, OnFilesKept, OwnedKept, SizeKept, QuietKept DEF IInv
  <2>. QED
    BY <2>1, <2>2 DEF IInv
<1>2. CASE UNCHANGED vars
  BY <1>2 DEF vars, IInv, Typed, OnFiles, Owned, FreeOnce, FreeIsNone, FdsApart, FdsNotFree, CallsApart,
              FillsApart, IsFree, HasOpen, IsOpen, InCall, Writes, Reads, Loads, Fills, SizeCoversWrites,
              Quiet, Calm, FilesFilled, Filled, FilledIn, PositionsInFile, ReadSound, Size
<1>. QED
  BY <1>1, <1>2 DEF Next

\* IInv, what open, close, lseek64, read, write, fork and exec keep of the
\* tables, the struct files, their free list and the bytes, holds throughout.
THEOREM Inductive == Spec => []IInv
<1>1. IInv /\ [Next]_vars => IInv'
  BY IInvKept
<1>. QED
  BY <1>1, InitHolds, PTL DEF Spec

(* No open descriptor shares its struct file with another, and none has one *)
(* that is free, between any two steps of open, of close, which frees       *)
(* before it clears, of fork's loop and of exec.                            *)
THEOREM DescriptorsApart == Spec => []EachDescriptorItsOwnFile
<1>1. IInv => EachDescriptorItsOwnFile
  <2>1. IInv => DOMAIN free = 1 .. Len(free)
    BY DEF IInv, Typed
  <2>2. IInv => \A t \in Tasks, i \in Fds : IsOpen(t, i) => HasOpen(t, fds[t][i]) /\ fds[t][i] \in Objs
    BY DEF IInv, Typed, IsOpen, HasOpen
  <2>. QED
    BY <2>1, <2>2 DEF IInv, Owned, FdsApart, FdsNotFree, IsFree, EachDescriptorItsOwnFile
<1>. QED
  BY <1>1, Inductive, PTL

(* The struct file of an open descriptor moves in calls of its own task,    *)
(* when the parent fills it in fork, and when an exec reads again through   *)
(* the struct file that it closed; at no other time.                        *)
THEOREM PositionsAlwaysMoveAlone == Spec => PositionsMoveAlone
<1>. DEFINE Alone_(t, fd) ==
         LET o == fds[t][fd] IN
         IsOpen(t, fd) /\ fds'[t][fd] = o /\ file'[o] # file[o] =>
             \/ Call(t) \/ Step(t)
             \/ \E u \in Tasks : /\ call[u] # call'[u]
                                /\ \/ call[u] = [pc |-> "fill", child |-> t, fd |-> fd, obj |-> o]
                                   \/ call[u] = [pc |-> "again", obj |-> o]
<1>1. ASSUME IInv, Next, NEW t \in Tasks, NEW fd \in Fds PROVE Alone_(t, fd)
  <2>. USE <1>1 DEF IInv
  <2>1. PICK s \in Tasks : Call(s) \/ Step(s)
    BY DEF Next
  <2>2. PICK o : o = fds[t][fd]
    OBVIOUS
  <2>. SUFFICES ASSUME IsOpen(t, fd), file'[o] # file[o], s # t
                PROVE  \E u \in Tasks : /\ call[u] # call'[u]
                                        /\ \/ call[u] = [pc |-> "fill", child |-> t, fd |-> fd, obj |-> o]
                                           \/ call[u] = [pc |-> "again", obj |-> o]
    BY <2>1, <2>2
  <2>3. HasOpen(t, o) /\ o \in Objs
    BY <2>2 DEF HasOpen, IsOpen, Typed
  <2>4. Fresh(o) \/ Own(s, o) \/ Copied(s, o) \/ Again(s, o)
    <3>1. PICK r \in Objs, v \in Records :
            /\ file' = [file EXCEPT ![r] = v]
            /\ Fresh(r) \/ Own(s, r) \/ Copied(s, r) \/ Again(s, r)
      BY <2>1, FileMoves
    <3>2. r = o
      BY <2>3, <3>1, Changed DEF Typed
    <3>. QED
      BY <3>1, <3>2
  <2>5. ~ Fresh(o)
    BY <2>3 DEF Fresh, Owned, FdsNotFree
  <2>6. ~ Own(s, o)
    <3>1. ~ HasOpen(s, o)
      BY <2>2 DEF HasOpen, Owned, FdsApart
    <3>2. ~ InCall(s, o)
      BY <2>3 DEF Owned, CallsApart
    <3>. QED
      BY <3>1, <3>2 DEF Own
  <2>7. CASE Copied(s, o)
    <3>1. Fills(s, o) /\ call'[s].pc = "fork"
      BY <2>7 DEF Copied
    <3>2. call[s].child = t /\ call[s].fd = fd
      BY <2>2, <2>3, <3>1 DEF Owned, FillsApart
    <3>3. call[s] \in [pc : {"fill"}, child : Tasks, fd : Fds, obj : Objs] /\ call[s].obj = o
          /\ call[s].pc = "fill"
      BY <3>1, CallKinds DEF Fills, Typed
    <3>4. call[s] = [pc |-> "fill", child |-> t, fd |-> fd, obj |-> o]
      BY <3>2, <3>3
    <3>. QED
      BY <3>1, <3>3, <3>4
  <2>8. CASE Again(s, o)
    BY <2>8 DEF Again
  <2>. QED
    BY <2>4, <2>5, <2>6, <2>7, <2>8
<1>2. IInv /\ [Next]_vars => [\A t \in Tasks, fd \in Fds : Alone_(t, fd)]_vars
  BY <1>1
<1>. QED
  BY <1>2, Inductive, PTL DEF Spec, PositionsMoveAlone

(* The file is as long as the furthest write that has set its size, unless  *)
(* one set it back that another had set since its test.                     *)
THEOREM FileAlwaysSound == Spec => []FileSound
<1>1. IInv => FileSound
  BY DEF IInv, Typed, Records, Kinds, Sizes, TypeOK, FileSound
<1>. QED
  BY <1>1, Inductive, PTL

(* A read, whole or short, copies only bytes that were written, no more     *)
(* than was asked for, and does not leave the page.                         *)
THEOREM ReadsAlwaysSound == Spec => ReadsAreSound
<1>. DEFINE Sound(t) ==
         /\ call[t].pc = "advance" /\ call'[t] = Idle => \A i \in DOMAIN out'[t] : out'[t][i] # Old
         /\ call'[t].pc = "advance" /\ "grown" \notin past' => Len(call'[t].got) <= call'[t].n
         /\ call[t].pc = "short" /\ "shrunk" \notin past' => call'[t].pc # "wild"
<1>1. ASSUME IInv, IInv', Next, past' \cap {"beyond", "reused"} = {}, NEW t \in Tasks
      PROVE  Sound(t)
  <2>. USE <1>1 DEF IInv
  <2>. DEFINE c == call[t]
  <2>1. PICK s \in Tasks : Call(s) \/ Step(s)
    BY DEF Next
  <2>2. Calm /\ Calm' /\ past \subseteq past'
    BY <2>1, PastGrows DEF Calm
  <2>3. PositionsInFile /\ ReadSound(t) /\ ReadSound(t)'
    BY <2>2 DEF Quiet
  <2>4. call'[t].pc = "advance" /\ "grown" \notin past' => Len(call'[t].got) <= call'[t].n
    BY <2>3 DEF ReadSound
  <2>5. ASSUME c.pc \in {"short", "advance"}, call'[t] # c
        PROVE  /\ c.pc = "advance" => ReadAdvance(t)
               /\ c.pc = "short" => ReadLen(t)
    <3>1. s = t
      BY <2>1, <2>5, CallMoves
    <3>2. ~ Call(t)
      BY <2>5 DEF Call, ExecOpen, Unfilled, Fork, Open, Close, Lseek, WriteCopy, ReadTest, Begins, At
    <3>. QED
      BY <2>1, <2>5, <3>1, <3>2 DEF Step, CloseClear, ForkAllocate, ForkFill, WriteTest, WriteSet, ReadLen,
          ReadCopy, ReadAdvance, ExecClose, ExecReadAgain, At
  <2>6. ASSUME c.pc = "advance", call'[t] = Idle PROVE \A i \in DOMAIN out'[t] : out'[t][i] # Old
    <3>1. ReadAdvance(t)
      <4>1. call'[t] # c
        BY <2>6 DEF Idle
      <4>. QED
        BY <2>5, <2>6, <4>1
    <3>2. out'[t] = c.got
      BY <3>1 DEF ReadAdvance, Returns, Typed
    <3>3. c.got \in Seq(AnyByte)
      BY <2>6, CallKinds DEF Typed
    <3>. QED
      BY <2>3, <2>6, <3>2, <3>3 DEF ReadSound
  <2>7. ASSUME c.pc = "short", "shrunk" \notin past', call'[t].pc = "wild" PROVE FALSE
    <3>1. ReadLen(t)
      <4>1. call'[t] # c
        BY <2>7
      <4>. QED
        BY <2>5, <2>7, <4>1
    <3>2. c.obj \in Objs /\ c.node = file[c.obj].node /\ c.node \in {"tmpfs", "initramfs"}
      BY <2>7, CallKinds, CallObjs, FileAssumption DEF Typed, OnFiles, ReadPcs, Kinds
    <3>3. file[c.obj].pos \in Nat /\ Size(c.node) \in Nat
      BY <3>2, SizeTyped DEF Typed, Records, Sizes
    <3>4. Size(c.node) < file[c.obj].pos
      <4>1. CASE ~ (Size(c.node) < file[c.obj].pos)
        <5>1. call'[t].pc = "copy"
          BY <3>1, <4>1 DEF ReadLen, Goto, Typed
        <5>. QED
          BY <2>7, <5>1
      <4>. QED
        BY <4>1
    <3>5. CASE c.node = "tmpfs"
      <4>1. file[c.obj].pos > datasize /\ "shrunk" \notin past
        BY <2>2, <2>7, <3>3, <3>4, <3>5 DEF Size
      <4>2. PICK u \in Tasks : Writes(u, c.obj)
        BY <2>3, <3>2, <3>5, <4>1 DEF PositionsInFile
      <4>3. InCall(u, c.obj) /\ InCall(t, c.obj)
        BY <2>7, <4>2 DEF InCall, Reads, ReadPcs
      <4>4. u = t
        BY <3>2, <4>3 DEF Owned, CallsApart
      <4>. QED
        BY <2>7, <4>2, <4>4 DEF Writes, WritePcs
    <3>6. CASE c.node = "initramfs"
      <4>1. Filled(file[c.obj].node, file[c.obj].pos)
        BY <2>2, <3>2 DEF Quiet, FilesFilled
      <4>. QED
        BY <3>2, <3>3, <3>4, <3>6, <4>1, Constants DEF Filled, FilledIn, Size
    <3>. QED
      BY <3>2, <3>5, <3>6
  <2>. QED
    BY <2>4, <2>6, <2>7
<1>2. IInv /\ IInv' /\ [Next]_vars
        => [past' \cap {"beyond", "reused"} = {} => \A t \in Tasks : Sound(t)]_vars
  BY <1>1
<1>. QED
  BY <1>2, Inductive, PTL DEF Spec, ReadsAreSound


-----------------------------------------------------------------------------
(* The file of one task is a ByteFile.  While no other task is born, what a *)
(* read has counted or copied is still what lies at its position, and its   *)
(* struct file is that of an open descriptor.                               *)

OthersUnborn == \A t \in Tasks \ {FirstTask} : call[t].pc = "unborn"

Left(c) == IF c.whole THEN c.n ELSE Size(c.node) - file[c.obj].pos

WhileAlone ==
    LET c == call[FirstTask] IN
    OthersUnborn =>
        /\ c.pc \notin {"fork", "fill"}
        /\ c.pc \in WritePcs \cup ReadPcs => HasOpen(FirstTask, c.obj)
        /\ c.pc = "copy" => c.len = Left(c)
        /\ c.pc = "advance" => c.got = Span(c.node, file[c.obj].pos, Left(c))

Content == SubSeq(data, 1, Max({datasize} \cup Writing))
Positions == [fd \in Fds |-> IF IsOpen(FirstTask, fd) THEN file[fds[FirstTask][fd]].pos ELSE -1]

LEMMA FirstBytes ==
    ASSUME NEW d \in [1 .. MAX_FILE_SIZE -> AnyByte], NEW m \in 0 .. MAX_FILE_SIZE
    PROVE  /\ SubSeq(d, 1, m) = [i \in 1 .. m |-> d[i]]
           /\ Len(SubSeq(d, 1, m)) = m
<1>1. m \in Nat /\ d \in Seq(AnyByte) /\ Len(d) = MAX_FILE_SIZE
  BY FileAssumption
<1>2. SubSeq(d, 1, m) = [i \in 1 .. m |-> d[i]]
  BY <1>1
<1>. QED
  BY <1>1, <1>2

LEMMA MaxOfOne ==
    ASSUME NEW m \in Int
    PROVE  Max({m}) = m
BY DEF Max

\* Only the first task moves, and no other was born before.
LEMMA FirstMoves ==
    ASSUME Typed, OnFiles, NEW t \in Tasks, Call(t) \/ Step(t), OthersUnborn'
    PROVE  t = FirstTask /\ OthersUnborn
<1>1. t = FirstTask
  BY CallMoves DEF OthersUnborn
<1>2. \A u \in Tasks \ {t} : call'[u] = call[u] \/ (call[u].pc = "unborn" /\ call'[u] = Idle)
  BY CallMoves
<1>. QED
  BY <1>1, <1>2 DEF OthersUnborn, Idle

LEMMA WhileAloneKept ==
    ASSUME IInv, WhileAlone, Typed', NEW t \in Tasks, Call(t) \/ Step(t)
    PROVE  WhileAlone'
<1>. USE DEF IInv
<1>. SUFFICES ASSUME OthersUnborn' PROVE WhileAlone'
  BY DEF WhileAlone
<1>. DEFINE c == call[FirstTask]
            Q == WhileAlone'
<1>1. t = FirstTask /\ OthersUnborn /\ FirstTask \in Tasks
  BY FirstMoves, FileAssumption
<1>. USE DEF At, Goto, GoWild
<1>2. ASSUME call'[FirstTask].pc \in {"user", "wild", "clear", "close", "again"} PROVE Q
  BY <1>2 DEF WhileAlone, WritePcs, ReadPcs
<1>3. ASSUME call' = [call EXCEPT ![t] = Idle] \/ call' = [call EXCEPT ![t] = [pc |-> "wild"]] PROVE Q
  BY <1>1, <1>2, <1>3 DEF Idle, Typed
<1>4. c \in Calls
  BY <1>1 DEF Typed
<1>5. ASSUME NEW o, HasOpen(FirstTask, o), UNCHANGED fds, call'[FirstTask].pc # "clear"
      PROVE  HasOpen(FirstTask, o)'
  <2>1. PICK fd \in Fds : IsOpen(FirstTask, fd) /\ fds[FirstTask][fd] = o
    BY <1>5 DEF HasOpen
  <2>2. call'[FirstTask] # [pc |-> "clear", fd |-> fd]
    BY <1>5
  <2>. QED
    BY <1>5, <2>1, <2>2 DEF HasOpen, IsOpen
<1>6. CASE Call(t)
  <2>1. CASE ExecOpen(t)
    <3>1. call'[t].pc = "close"
      BY <2>1 DEF ExecOpen, Typed
    <3>. QED
      BY <1>1, <1>2, <3>1
  <2>2. CASE Unfilled(t)
    BY <1>3, <2>2 DEF Unfilled
  <2>3. ASSUME NEW child \in Tasks, Fork(t, child) PROVE FALSE
    <3>1. child # FirstTask
      BY <1>1, <2>3 DEF Fork
    <3>2. call'[child].pc = "user"
      BY <1>1, <2>3, <3>1 DEF Fork, Idle, Typed
    <3>. QED
      BY <3>1, <3>2 DEF OthersUnborn
  <2>4. ASSUME NEW fd \in Fds, NEW node \in Nodes, Open(t, fd, node) PROVE Q
    BY <1>1, <1>2, <2>4 DEF Open
  <2>5. ASSUME NEW fd \in Fds, Close(t, fd) PROVE Q
    <3>1. call'[t].pc = "clear"
      BY <2>5 DEF Close, Typed
    <3>. QED
      BY <1>1, <1>2, <3>1
  <2>6. ASSUME NEW fd \in Fds, NEW p \in Offsets, Lseek(t, fd, p) PROVE Q
    BY <1>1, <1>2, <2>6 DEF Lseek, Begins
  <2>7. ASSUME NEW fd \in Fds, NEW b \in Bytes, NEW n \in Counts, WriteCopy(t, fd, b, n) PROVE Q
    <3>. DEFINE o == fds[t][fd]
    <3>1. HasOpen(FirstTask, o) /\ UNCHANGED fds
      BY <1>1, <2>7 DEF WriteCopy, Begins, HasOpen, IsOpen
    <3>2. call'[t] = [pc |-> "test", obj |-> o] \/ call'[t].pc = "wild"
      BY <2>7 DEF WriteCopy, Typed
    <3>3. CASE call'[t] = [pc |-> "test", obj |-> o]
      <4>1. call'[t].pc = "test" /\ call'[t].obj = o
        BY <3>3
      <4>2. PICK r : r = o
        OBVIOUS
      <4>3. HasOpen(FirstTask, r)'
        BY <1>1, <1>5, <3>1, <4>1, <4>2
      <4>4. HasOpen(FirstTask, call[FirstTask].obj)'
        BY <1>1, <4>1, <4>2, <4>3 DEF HasOpen
      <4>. QED
        BY <1>1, <4>1, <4>4 DEF WhileAlone
    <3>. QED
      BY <1>1, <1>2, <3>2, <3>3
  <2>8. ASSUME NEW fd \in Fds, NEW n \in Counts, ReadTest(t, fd, n) PROVE Q
    <3>. DEFINE o == fds[t][fd]
                k == file[o].node
    <3>1. HasOpen(FirstTask, o) /\ UNCHANGED fds
      BY <1>1, <2>8 DEF ReadTest, Begins, HasOpen, IsOpen
    <3>2. \/ call'[t] = [pc |-> "short", obj |-> o, n |-> n, node |-> k, whole |-> FALSE]
          \/ call'[t] = [pc |-> "copy", obj |-> o, n |-> n, node |-> k, whole |-> TRUE, len |-> n]
      BY <2>8 DEF ReadTest, Typed
    <3>3. /\ call'[t].pc \in {"short", "copy"} /\ call'[t].obj = o
          /\ call'[t].pc = "copy" => call'[t].whole /\ call'[t].len = n /\ call'[t].n = n
      BY <3>2
    <3>4. PICK r : r = o
      OBVIOUS
    <3>5. HasOpen(FirstTask, r)'
      BY <1>1, <1>5, <3>1, <3>3, <3>4
    <3>6. HasOpen(FirstTask, call[FirstTask].obj)'
      BY <1>1, <3>3, <3>4, <3>5 DEF HasOpen
    <3>. QED
      BY <1>1, <3>3, <3>6 DEF WhileAlone, Left
  <2>. QED
    BY <1>6, <2>1, <2>2, <2>3, <2>4, <2>5, <2>6, <2>7, <2>8 DEF Call
<1>7. CASE Step(t)
  <2>0. c.pc \notin {"fork", "fill"}
    BY <1>1 DEF WhileAlone
  <2>1. CASE CloseClear(t) \/ WriteSet(t) \/ ReadAdvance(t) \/ ExecReadAgain(t)
    BY <1>3, <2>1 DEF CloseClear, WriteSet, ReadAdvance, ExecReadAgain
  <2>2. CASE ForkAllocate(t) \/ ForkFill(t)
    BY <1>1, <2>0, <2>2 DEF ForkAllocate, ForkFill
  <2>3. CASE ExecClose(t)
    <3>1. c \in [pc : {"test", "close", "again"}, obj : Objs]
      BY <1>1, <1>4, <2>3, CallKinds DEF ExecClose
    <3>2. call'[t].pc = "again"
      BY <1>1, <2>3, <3>1 DEF ExecClose, Typed
    <3>. QED
      BY <1>1, <1>2, <3>2
  <2>4. ASSUME c.pc \in WritePcs \cup ReadPcs, UNCHANGED fds, call'[t].pc # "clear", call'[t].obj = c.obj
        PROVE  HasOpen(FirstTask, call[FirstTask].obj)'
    <3>1. PICK r : r = c.obj
      OBVIOUS
    <3>2. HasOpen(FirstTask, r)
      BY <1>1, <2>4, <3>1 DEF WhileAlone
    <3>3. HasOpen(FirstTask, r)'
      BY <1>1, <1>5, <2>4, <3>2
    <3>. QED
      BY <1>1, <2>4, <3>1, <3>3 DEF HasOpen
  <2>5. CASE WriteTest(t)
    <3>1. c.pc \in WritePcs /\ UNCHANGED fds
      BY <1>1, <2>5 DEF WriteTest, WritePcs
    <3>2. \/ call' = [call EXCEPT ![t] = Idle]
          \/ call'[t] = [pc |-> "set", obj |-> c.obj, seen |-> datasize]
      BY <1>1, <2>5 DEF WriteTest, Typed
    <3>3. CASE call'[t] = [pc |-> "set", obj |-> c.obj, seen |-> datasize]
      <4>1. call'[t].pc = "set" /\ call'[t].obj = c.obj
        BY <3>3
      <4>. QED
        BY <1>1, <2>4, <3>1, <4>1 DEF WhileAlone
    <3>. QED
      BY <1>3, <3>2, <3>3
  <2>6. CASE ReadLen(t)
    <3>. DEFINE l == Size(c.node) - file[c.obj].pos
    <3>1. c.pc \in ReadPcs /\ UNCHANGED <<fds, file, datasize>>
      BY <1>1, <2>6 DEF ReadLen, ReadPcs
    <3>2. \/ call'[t].pc = "wild"
          \/ call'[t] = [pc |-> "copy", obj |-> c.obj, n |-> c.n, node |-> c.node, whole |-> FALSE, len |-> l]
      BY <1>1, <2>6 DEF ReadLen, LenLeft, Typed
    <3>3. CASE call'[t] = [pc |-> "copy", obj |-> c.obj, n |-> c.n, node |-> c.node, whole |-> FALSE,
                           len |-> l]
      <4>1. /\ call'[t].pc = "copy" /\ call'[t].obj = c.obj /\ ~ call'[t].whole /\ call'[t].len = l
            /\ call'[t].node = c.node
        BY <3>3
      <4>2. Left(call[FirstTask])' = l
        BY <1>1, <3>1, <4>1 DEF Left, Size
      <4>. HIDE DEF l
      <4>. QED
        BY <1>1, <2>4, <3>1, <4>1, <4>2 DEF WhileAlone
    <3>. QED
      BY <1>1, <1>2, <3>2, <3>3
  <2>7. CASE ReadCopy(t)
    <3>1. c.pc = "copy" /\ UNCHANGED <<fds, file, data, datasize>>
      BY <1>1, <2>7 DEF ReadCopy
    <3>2. PICK g : g = Span(c.node, file[c.obj].pos, c.len)
      OBVIOUS
    <3>3. call'[t] = [pc |-> "advance", obj |-> c.obj, n |-> c.n, node |-> c.node, whole |-> c.whole,
                      got |-> g]
      BY <1>1, <2>7, <3>2 DEF ReadCopy, Typed
    <3>4. /\ call'[t].pc = "advance" /\ call'[t].obj = c.obj /\ call'[t].n = c.n /\ call'[t].node = c.node
          /\ call'[t].whole = c.whole /\ call'[t].got = g
      BY <3>3
    <3>5. PICK m, p, k : m = Left(c) /\ p = file[c.obj].pos /\ k = c.node
      OBVIOUS
    <3>6. Left(call[FirstTask])' = m
      BY <1>1, <3>1, <3>4, <3>5 DEF Left, Size
    <3>7. g = Span(k, p, m)
      BY <1>1, <3>1, <3>2, <3>5 DEF WhileAlone
    <3>8. Span(k, p, m)' = Span(k, p, m)
      BY <3>1 DEF Span, Holds
    <3>9. (call[FirstTask].got = Span(call[FirstTask].node, file[call[FirstTask].obj].pos,
                                      Left(call[FirstTask])))'
      BY <1>1, <3>1, <3>4, <3>5, <3>6, <3>7, <3>8 DEF Span, Holds
    <3>10. HasOpen(FirstTask, call[FirstTask].obj)'
      BY <1>1, <2>4, <3>1, <3>4 DEF ReadPcs
    <3>. QED
      BY <1>1, <3>4, <3>9, <3>10 DEF WhileAlone
  <2>. QED
    BY <1>7, <2>1, <2>2, <2>3, <2>5, <2>6, <2>7 DEF Step
<1>. QED
  BY <1>6, <1>7

\* What is told of the content: the bytes up to EndNow.
EndNow ==
    LET c == call[FirstTask] IN
    IF c.pc \in WritePcs /\ datasize < file[c.obj].pos THEN file[c.obj].pos ELSE datasize

LEMMA ContentNow ==
    Typed /\ OnFiles /\ OthersUnborn =>
        /\ EndNow \in 0 .. MAX_FILE_SIZE
        /\ Content = [i \in 1 .. EndNow |-> data[i]] /\ Len(Content) = EndNow
<1>. SUFFICES ASSUME Typed, OnFiles, OthersUnborn
              PROVE  /\ EndNow \in 0 .. MAX_FILE_SIZE
                     /\ Content = [i \in 1 .. EndNow |-> data[i]] /\ Len(Content) = EndNow
  OBVIOUS
<1>. DEFINE c == call[FirstTask]
<1>1. FirstTask \in Tasks /\ MAX_FILE_SIZE \in Nat /\ datasize \in Int
  BY FileAssumption DEF Typed
<1>2. c.pc \in WritePcs => c.obj \in Objs /\ file[c.obj].pos \in 0 .. MAX_FILE_SIZE
  BY <1>1, WriteEnds
<1>3. EndNow \in 0 .. MAX_FILE_SIZE
  BY <1>1, <1>2 DEF EndNow, Typed
<1>4. Max({datasize} \cup Writing) = EndNow
  <2>1. CASE c.pc \in WritePcs
    <3>1. {datasize} \cup Writing = {datasize, file[c.obj].pos}
      BY <1>1, <2>1 DEF Writing, OthersUnborn, WritePcs
    <3>. QED
      BY <1>1, <1>2, <2>1, <3>1, MaxOfTwo DEF EndNow
  <2>2. CASE c.pc \notin WritePcs
    <3>1. {datasize} \cup Writing = {datasize}
      BY <1>1, <2>2 DEF Writing, OthersUnborn, WritePcs
    <3>. QED
      BY <1>1, <2>2, <3>1, MaxOfOne DEF EndNow
  <2>. QED
    BY <2>1, <2>2
<1>. QED
  BY <1>3, <1>4, FirstBytes DEF Content, Typed

LEMMA ContentNext ==
    (Typed /\ OnFiles /\ OthersUnborn =>
        /\ EndNow \in 0 .. MAX_FILE_SIZE
        /\ Content = [i \in 1 .. EndNow |-> data[i]] /\ Len(Content) = EndNow)'
BY ContentNow, PTL

\* The bytes from p on, out of the content or out of the page.
LEMMA SpanOfContent ==
    ASSUME Typed, NEW m \in 0 .. datasize, NEW p \in Nat, NEW n \in Nat, p + n <= m
    PROVE  SubSeq([i \in 1 .. m |-> data[i]], p + 1, p + n) = Span("tmpfs", p, n)
<1>. DEFINE s == [i \in 1 .. m |-> data[i]]
<1>1. m \in Nat /\ \A i \in 1 .. n : p + i \in 1 .. m /\ p + i \in DOMAIN data /\ ~ (p + i > SizeMod)
  BY Sizing DEF Typed
<1>2. SubSeq(s, p + 1, p + n) = [i \in 1 .. n |-> s[p + i]]
  <2>1. s \in Seq(AnyByte) /\ Len(s) = m
    <3>1. \A i \in 1 .. m : i \in 1 .. MAX_FILE_SIZE
      BY FileAssumption DEF Typed
    <3>2. s \in [1 .. m -> AnyByte]
      BY <3>1 DEF Typed
    <3>. QED
      BY <1>1, <3>2
  <2>. HIDE DEF s
  <2>2. (p + n) - (p + 1) + 1 = n /\ \A i \in 1 .. n : (p + 1) + i - 1 = p + i
    OBVIOUS
  <2>. QED
    BY <2>1, <2>2
<1>3. Span("tmpfs", p, n) = [i \in 1 .. n |-> data[p + i]]
  BY <1>1 DEF Span, Holds
<1>. QED
  BY <1>1, <1>2, <1>3

LEMMA PromiseBegins == Init => Promise!Init
<1>. SUFFICES ASSUME Init PROVE Promise!Init
  OBVIOUS
<1>0. FirstTask \in Tasks
  BY FileAssumption
<1>1. Content = [i \in 1 .. 0 |-> data[i]]
  <2>1. Typed /\ OnFiles
    BY InitHolds DEF IInv
  <2>2. OthersUnborn /\ EndNow = 0
    BY <1>0 DEF Init, OthersUnborn, EndNow, Idle, WritePcs
  <2>. QED
    BY <2>1, <2>2, ContentNow
<1>2. Content = <<>>
  BY <1>1
<1>3. Positions = [fd \in Fds |-> -1]
  BY <1>0 DEF Init, Positions, IsOpen
<1>4. out[FirstTask] = <<>>
  BY <1>0 DEF Init
<1>. QED
  BY <1>2, <1>3, <1>4 DEF Promise!Init, Promise!Closed, Content, Positions

LEMMA PromiseStep ==
    ASSUME IInv, WhileAlone, Typed', OnFiles',
           NEW t \in Tasks, Call(t) \/ Step(t), Alone', past' = {}
    PROVE  Promise!Next \/ UNCHANGED Promise!vars
<1>. USE DEF IInv
<1>. DEFINE F == FirstTask
            c == call[F]
<1>1. t = F /\ OthersUnborn /\ OthersUnborn' /\ F \in Tasks /\ past = {} /\ c \in Calls
  <2>1. OthersUnborn'
    BY DEF Alone, OthersUnborn
  <2>. QED
    BY <2>1, FirstMoves, PastGrows, FileAssumption DEF Typed
<1>2. /\ EndNow \in 0 .. MAX_FILE_SIZE /\ Content = [i \in 1 .. EndNow |-> data[i]]
      /\ Len(Content) = EndNow
  BY <1>1, ContentNow
<1>3. EndNow' \in 0 .. MAX_FILE_SIZE /\ Content' = [i \in 1 .. EndNow' |-> data'[i]]
  BY <1>1, ContentNext
<1>4. \A fd \in Fds : Positions[fd] = IF IsOpen(F, fd) THEN file[fds[F][fd]].pos ELSE -1
  BY DEF Positions
<1>5. ASSUME UNCHANGED data, EndNow' = EndNow PROVE Content' = Content
  BY <1>2, <1>3, <1>5
<1>6. ASSUME NEW r, NEW fd \in Fds, IsOpen(F, fd), fds[F][fd] = r,
             \A o \in Objs \ {r} : file'[o] = file[o],
             \A d \in Fds \ {fd} : fds'[F][d] = fds[F][d] /\ (IsOpen(F, d)' <=> IsOpen(F, d))
      PROVE  Positions' = [Positions EXCEPT ![fd] = IF IsOpen(F, fd)' THEN file'[fds'[F][fd]].pos ELSE -1]
  <2>1. \A d \in Fds \ {fd} : IsOpen(F, d) => fds[F][d] # r /\ fds[F][d] \in Objs
    BY <1>1, <1>6 DEF Owned, FdsApart, Typed, IsOpen
  <2>2. \A d \in Fds \ {fd} : IsOpen(F, d)' => file'[fds'[F][d]].pos = file[fds[F][d]].pos
    BY <1>6, <2>1
  <2>. QED
    BY ZenonT(30), <1>6, <2>2 DEF Positions
<1>7. ASSUME Content' = Content, Positions' = Positions, out'[F] = out[F]
      PROVE  UNCHANGED Promise!vars
  BY <1>7 DEF Promise!vars, Content, Positions
<1>8. ASSUME \A d \in Fds : IsOpen(F, d)' <=> IsOpen(F, d),
             \A d \in Fds : IsOpen(F, d) => /\ fds'[F][d] = fds[F][d]
                                            /\ file'[fds[F][d]].pos = file[fds[F][d]].pos
      PROVE  Positions' = Positions
  <2>1. ASSUME NEW d \in Fds
        PROVE  (IF IsOpen(F, d)' THEN file'[fds'[F][d]].pos ELSE -1)
                 = IF IsOpen(F, d) THEN file[fds[F][d]].pos ELSE -1
    <3>1. CASE IsOpen(F, d)
      <4>1. IsOpen(F, d)' /\ fds'[F][d] = fds[F][d] /\ file'[fds[F][d]].pos = file[fds[F][d]].pos
        BY <1>8, <3>1
      <4>. QED
        BY <3>1, <4>1
    <3>2. CASE ~ IsOpen(F, d)
      <4>1. ~ IsOpen(F, d)'
        BY <1>8, <3>2
      <4>. QED
        BY <3>2, <4>1
    <3>. QED
      BY <3>1, <3>2
  <2>. QED
    BY ZenonT(30), <2>1 DEF Positions
<1>9. c.pc \notin WritePcs => EndNow = datasize
  BY DEF EndNow
<1>10. call'[F].pc \notin WritePcs => EndNow' = datasize'
  BY DEF EndNow
<1>11. c.pc # "clear" => \A d \in Fds : IsOpen(F, d) <=> fds[F][d] # 0
  <2>1. c.pc # "clear" => \A d \in Fds : c # [pc |-> "clear", fd |-> d]
    OBVIOUS
  <2>. QED
    BY <2>1 DEF IsOpen
<1>12. call'[F].pc # "clear" => \A d \in Fds : IsOpen(F, d)' <=> fds'[F][d] # 0
  <2>1. call'[F].pc # "clear" => \A d \in Fds : call'[F] # [pc |-> "clear", fd |-> d]
    OBVIOUS
  <2>. QED
    BY <2>1 DEF IsOpen
<1>13. ASSUME NEW o \in Objs, file[o].node = "tmpfs", \A u \in Tasks : ~ Writes(u, o)
       PROVE  file[o].pos \in 0 .. datasize
  <2>1. PositionsInFile
    BY <1>1 DEF Quiet, Calm
  <2>2. ~ (file[o].pos > datasize)
    BY <1>1, <1>13, <2>1 DEF PositionsInFile
  <2>3. file[o].pos \in Nat /\ datasize \in Nat
    BY DEF Typed, Records, Sizes
  <2>. QED
    BY <2>2, <2>3
<1>14. c.pc \notin WritePcs => \A u \in Tasks : \A o : ~ Writes(u, o)
  BY <1>1 DEF OthersUnborn, Writes, WritePcs
<1>15. ASSUME NEW fd \in Fds, NEW node \in Nodes, Open(t, fd, node) PROVE Promise!Next
  <2>1. PICK r \in Objs : r = Head(free) /\ IsFree(r)
    BY <1>15, Taken, TakeFirst DEF Open, Typed, Owned
  <2>2. /\ file' = [file EXCEPT ![r] = [node |-> node, pos |-> 0]] /\ fds[F][fd] = 0
        /\ fds' = [fds EXCEPT ![F][fd] = r] /\ UNCHANGED <<call, data, datasize>>
        /\ c.pc = "user" /\ out'[F] = <<>>
    BY <1>1, <1>15, <2>1 DEF Open, At, Returns, Typed
  <2>3. Content' = Content
    BY <1>5, <1>9, <1>10, <2>2 DEF WritePcs
  <2>4. fds'[F][fd] = r /\ r # 0 /\ file'[r].pos = 0
        /\ \A d \in Fds \ {fd} : fds'[F][d] = fds[F][d]
    BY <1>1, <2>2, Constants DEF Typed
  <2>5. \A d \in Fds : IsOpen(F, d) => fds[F][d] # r /\ fds[F][d] \in Objs
    BY <1>1, <2>1 DEF Owned, FdsNotFree, HasOpen, IsOpen, Typed
  <2>6. \A d \in Fds : IsOpen(F, d) => file'[fds[F][d]] = file[fds[F][d]]
    BY <2>2, <2>5 DEF Typed
  <2>7. \A d \in Fds : (IsOpen(F, d) <=> fds[F][d] # 0) /\ (IsOpen(F, d)' <=> fds'[F][d] # 0)
    BY <1>11, <1>12, <2>2
  <2>8. \A d \in Fds : Positions'[d] = IF d = fd THEN 0 ELSE Positions[d]
    BY <2>4, <2>6, <2>7 DEF Positions
  <2>9. Positions' = [Positions EXCEPT ![fd] = 0]
    BY <2>8 DEF Positions
  <2>10. Positions[fd] = -1
    BY <1>4, <2>2, <2>7
  <2>11. Promise!Open(fd)
    BY <2>2, <2>3, <2>9, <2>10 DEF Promise!Open, Promise!Closed, Content, Positions
  <2>. QED
    BY <2>11 DEF Promise!Next
<1>16. ASSUME NEW fd \in Fds, Close(t, fd) PROVE Promise!Next
  <2>1. PICK r \in Objs : r = fds[F][fd] /\ r # 0
    BY <1>1, <1>16 DEF Close, Begins, Typed
  <2>2. /\ file' = [file EXCEPT ![r].node = "none"] /\ call'[F] = [pc |-> "clear", fd |-> fd]
        /\ UNCHANGED <<fds, data, datasize>> /\ c.pc = "user" /\ out'[F] = <<>>
    BY <1>1, <1>16, <2>1 DEF Close, Begins, At, Goto, Returns, Typed
  <2>3. Content' = Content
    BY <1>5, <1>9, <1>10, <2>2 DEF WritePcs
  <2>4. ~ IsOpen(F, fd)' /\ \A d \in Fds \ {fd} : IsOpen(F, d)' <=> fds'[F][d] # 0
    <3>1. \A d \in Fds \ {fd} : call'[F] # [pc |-> "clear", fd |-> d]
      BY <2>2
    <3>. QED
      BY <2>2, <3>1 DEF IsOpen
  <2>5. \A d \in Fds : IsOpen(F, d) <=> fds[F][d] # 0
    BY <1>11, <2>2
  <2>6. \A o \in Objs \ {r} : file'[o] = file[o]
    BY <2>2 DEF Typed
  <2>7. Positions' = [Positions EXCEPT ![fd] = IF IsOpen(F, fd)' THEN file'[fds'[F][fd]].pos ELSE -1]
    BY <1>6, <2>1, <2>2, <2>4, <2>5, <2>6
  <2>8. Positions' = [Positions EXCEPT ![fd] = -1]
    BY <2>4, <2>7
  <2>9. Positions[fd] # -1
    BY <1>4, <2>1, <2>5 DEF Typed, Records, Sizes
  <2>10. Promise!Close(fd)
    BY <2>2, <2>3, <2>8, <2>9 DEF Promise!Close, Promise!Closed, Content, Positions
  <2>. QED
    BY <2>10 DEF Promise!Next
<1>17. ASSUME NEW fd \in Fds, NEW r \in Objs, r = fds[F][fd], IsOpen(F, fd), IsOpen(F, fd)',
              c.pc # "clear", call'[F].pc # "clear",
              NEW p, file' = [file EXCEPT ![r].pos = p], UNCHANGED fds
       PROVE  /\ Positions' = [Positions EXCEPT ![fd] = p]
              /\ Positions[fd] = file[r].pos /\ Positions[fd] # -1
  <2>1. (\A o \in Objs \ {r} : file'[o] = file[o]) /\ file'[r].pos = p
    BY <1>17 DEF Typed, Records
  <2>2. \A d \in Fds \ {fd} : fds'[F][d] = fds[F][d] /\ (IsOpen(F, d)' <=> IsOpen(F, d))
    BY <1>11, <1>12, <1>17
  <2>3. Positions' = [Positions EXCEPT ![fd] = IF IsOpen(F, fd)' THEN file'[fds'[F][fd]].pos ELSE -1]
    BY <1>6, <1>17, <2>1, <2>2
  <2>4. Positions[fd] = file[r].pos /\ file[r].pos \in Nat
    BY <1>4, <1>17 DEF Typed, Records, Sizes
  <2>5. (IF IsOpen(F, fd)' THEN file'[fds'[F][fd]].pos ELSE -1) = p
    BY <1>17, <2>1
  <2>6. Positions[fd] # -1
    BY <2>4
  <2>. QED
    BY <2>3, <2>4, <2>5, <2>6
<1>18. ASSUME NEW fd \in Fds, NEW r \in Objs, r = fds[F][fd], r # 0, c.pc = "user",
              call'[F].pc \in {"user", "wild"},
              NEW p \in 0 .. datasize, file' = [file EXCEPT ![r].pos = p], UNCHANGED <<fds, data>>,
              EndNow' = EndNow, out'[F] = <<>>
       PROVE  Promise!Next
  <2>1. Content' = Content /\ p \in 0 .. Len(Content) /\ p <= Len(Content)
    BY <1>2, <1>5, <1>9, <1>18 DEF WritePcs
  <2>2. IsOpen(F, fd) /\ IsOpen(F, fd)'
    BY <1>11, <1>12, <1>18
  <2>3. Positions' = [Positions EXCEPT ![fd] = p] /\ Positions[fd] # -1
    BY <1>17, <1>18, <2>2
  <2>4. Promise!Seek(fd, p)
    BY <1>18, <2>1, <2>3 DEF Promise!Seek, Promise!Closed, Content, Positions
  <2>. QED
    BY <2>1, <2>4 DEF Promise!Next, Content
<1>19. ASSUME NEW fd \in Fds, NEW p \in Offsets, Lseek(t, fd, p) PROVE Promise!Next
  <2>1. PICK r \in Objs : r = fds[F][fd] /\ r # 0
    BY <1>1, <1>19 DEF Lseek, Begins, Typed
  <2>2. PICK q \in Sizes : q = Wrapped(p)
    BY Sizing
  <2>3. /\ file' = [file EXCEPT ![r].pos = q] /\ UNCHANGED <<fds, call, data, datasize>>
        /\ ~ (q > Size(file[r].node)) /\ c.pc = "user" /\ out'[F] = <<>>
    BY <1>1, <1>19, <2>1, <2>2 DEF Lseek, Begins, At, Returns, Typed
  <2>4. file'[r].node = file[r].node /\ file'[r].node = "tmpfs"
    <3>1. IsOpen(F, fd)'
      BY <1>12, <2>1, <2>3
    <3>. QED
      BY <2>1, <2>3, <3>1 DEF Alone, Typed, Records
  <2>5. q \in 0 .. datasize
    BY <2>3, <2>4, FileAssumption DEF Size, Typed, Sizes
  <2>6. EndNow' = EndNow
    BY <1>9, <1>10, <2>3 DEF WritePcs
  <2>. QED
    BY <1>18, <2>1, <2>3, <2>5, <2>6
<1>20. ASSUME NEW fd \in Fds, NEW b \in Bytes, NEW n \in Counts, WriteCopy(t, fd, b, n)
       PROVE  Promise!Next
  <2>1. PICK r \in Objs : r = fds[F][fd] /\ r # 0
    BY <1>1, <1>20 DEF WriteCopy, Begins, Typed
  <2>2. /\ UNCHANGED <<fds, datasize>> /\ c.pc = "user" /\ out'[F] = <<>>
        /\ file[r].node = "tmpfs"
    BY <1>1, <1>20, <2>1 DEF WriteCopy, Begins, At, Returns, Typed
  <2>3. PICK p \in Nat : p = file[r].pos /\ p \in 0 .. datasize
    BY <1>13, <1>14, <2>1, <2>2 DEF Typed, WritePcs
  <2>4. n \in Nat
    BY FileAssumption
  <2>5. CASE p + n > MAX_FILE_SIZE
    <3>1. UNCHANGED <<data, file>> /\ call' = [call EXCEPT ![F] = [pc |-> "wild"]]
      BY <1>1, <1>20, <2>1, <2>3, <2>4, <2>5, FileAssumption DEF WriteCopy, GoWild, Goto
    <3>2. call'[F].pc = "wild" /\ file' = [file EXCEPT ![r].pos = p]
      BY <1>1, <2>3, <3>1 DEF Typed, Records
    <3>3. EndNow' = EndNow
      BY <1>9, <1>10, <2>2, <3>2 DEF WritePcs
    <3>. QED
      BY <1>18, <2>1, <2>2, <2>3, <3>1, <3>2, <3>3
  <2>6. CASE ~ (p + n > MAX_FILE_SIZE)
    <3>1. /\ data' = [i \in DOMAIN data |-> IF i \in p + 1 .. p + n THEN b ELSE data[i]]
          /\ file' = [file EXCEPT ![r].pos = p + n]
          /\ call' = [call EXCEPT ![F] = [pc |-> "test", obj |-> r]]
      BY <1>1, <1>20, <2>1, <2>3, <2>6 DEF WriteCopy, Goto
    <3>2. file'[r].pos = p + n /\ call'[F].pc = "test" /\ call'[F].obj = r
      BY <1>1, <3>1 DEF Typed, Records
    <3>3. EndNow = datasize /\ EndNow' = IF p + n > datasize THEN p + n ELSE datasize
      BY <1>9, <2>2, <2>3, <2>4, <3>2 DEF EndNow, Typed, WritePcs
    <3>4. IsOpen(F, fd) /\ IsOpen(F, fd)'
      BY <1>11, <1>12, <2>1, <2>2, <3>2
    <3>5. Positions' = [Positions EXCEPT ![fd] = p + n] /\ Positions[fd] = p /\ p # -1
      BY <1>17, <2>1, <2>2, <2>3, <3>1, <3>2, <3>4
    <3>6. Content' = [i \in 1 .. IF p + n > Len(Content) THEN p + n ELSE Len(Content) |->
                        IF i \in p + 1 .. p + n THEN b ELSE Content[i]]
      <4>1. \A i \in 1 .. EndNow' : i \in p + 1 .. p + n \/ i \in 1 .. EndNow
        BY <2>3, <2>4, <3>3 DEF Typed
      <4>2. \A i \in 1 .. EndNow' : i \in DOMAIN data
        BY <1>3, FileAssumption DEF Typed
      <4>3. \A i \in 1 .. EndNow' : data'[i] = IF i \in p + 1 .. p + n THEN b ELSE Content[i]
        BY <1>2, <3>1, <4>1, <4>2
      <4>. QED
        BY <1>2, <1>3, <3>3, <4>3
    <3>7. Promise!Write(fd, b, n)
      BY <2>2, <3>5, <3>6 DEF Promise!Write, Promise!Closed, Content, Positions
    <3>. QED
      BY <3>7 DEF Promise!Next
  <2>. QED
    BY <2>5, <2>6
<1>21. ASSUME UNCHANGED <<data, datasize, file, fds>>, out'[F] = out[F],
              c.pc \notin WritePcs \cup {"clear"}, call'[F].pc \notin WritePcs \cup {"clear"}
       PROVE  UNCHANGED Promise!vars
  <2>1. Content' = Content
    BY <1>5, <1>9, <1>10, <1>21
  <2>2. Positions' = Positions
    BY <1>8, <1>11, <1>12, <1>21
  <2>. QED
    BY <1>7, <1>21, <2>1, <2>2
<1>22. CASE Unfilled(t) \/ ReadLen(t) \/ ReadCopy(t) \/ \E fd \in Fds, n \in Counts : ReadTest(t, fd, n)
  <2>1. UNCHANGED <<data, datasize, file, fds, out>> /\ c.pc \in {"user", "short", "copy"}
    BY <1>1, <1>22 DEF Unfilled, ReadLen, ReadCopy, ReadTest, Begins, At
  <2>2. call'[F].pc \in {"wild", "short", "copy", "advance"}
    <3>1. CASE Unfilled(t)
      BY <1>1, <3>1 DEF Unfilled, GoWild, Goto, Typed
    <3>2. CASE ReadLen(t)
      BY <1>1, <3>2 DEF ReadLen, Goto, Typed
    <3>3. CASE ReadCopy(t)
      BY <1>1, <3>3 DEF ReadCopy, Goto, Typed
    <3>4. ASSUME NEW fd \in Fds, NEW n \in Counts, ReadTest(t, fd, n)
          PROVE  call'[F].pc \in {"short", "copy"}
      BY <1>1, <3>4 DEF ReadTest, Goto, Typed
    <3>. QED
      BY <1>22, <3>1, <3>2, <3>3, <3>4
  <2>. QED
    BY <1>21, <2>1, <2>2 DEF WritePcs
<1>23. ASSUME NEW child \in Tasks, Fork(t, child) PROVE FALSE
  <2>1. child # F
    BY <1>1, <1>23 DEF Fork, At
  <2>2. call'[child].pc = "user"
    BY <1>1, <1>23, <2>1 DEF Fork, Idle, Typed
  <2>. QED
    BY <1>1, <2>1, <2>2 DEF OthersUnborn
<1>24. CASE ForkAllocate(t) \/ ForkFill(t)
  BY <1>1, <1>24 DEF ForkAllocate, ForkFill, At, WhileAlone
<1>25. CASE CloseClear(t)
  <2>1. PICK k \in Fds : c = [pc |-> "clear", fd |-> k] /\ k = c.fd
    <3>1. c.pc = "clear"
      BY <1>1, <1>25 DEF CloseClear, At
    <3>. QED
      BY <1>1, <3>1, CallKinds
  <2>2. /\ fds' = [fds EXCEPT ![F][k] = 0] /\ call'[F] = Idle
        /\ UNCHANGED <<data, datasize, file, out>>
    BY <1>1, <1>25, <2>1 DEF CloseClear, Cleared, Goto, Typed
  <2>3. c.pc = "clear" /\ call'[F].pc = "user"
    BY <2>1, <2>2 DEF Idle
  <2>4. Content' = Content
    BY <1>5, <1>9, <1>10, <2>2, <2>3 DEF WritePcs
  <2>5. fds'[F][k] = 0 /\ \A d \in Fds \ {k} : fds'[F][d] = fds[F][d]
    BY <1>1, <2>2 DEF Typed
  <2>6. ~ IsOpen(F, k) /\ \A d \in Fds \ {k} : IsOpen(F, d) <=> fds[F][d] # 0
    <3>1. \A d \in Fds \ {k} : c # [pc |-> "clear", fd |-> d]
      BY <2>1
    <3>. QED
      BY <2>1, <3>1 DEF IsOpen
  <2>7. \A d \in Fds : IsOpen(F, d)' <=> fds'[F][d] # 0
    BY <1>12, <2>3
  <2>8. \A d \in Fds : IsOpen(F, d)' <=> IsOpen(F, d)
    BY <2>5, <2>6, <2>7
  <2>9. \A d \in Fds : IsOpen(F, d) => fds'[F][d] = fds[F][d] /\ file'[fds[F][d]].pos = file[fds[F][d]].pos
    BY <2>2, <2>5, <2>6
  <2>10. Positions' = Positions
    BY <1>8, <2>8, <2>9
  <2>. QED
    BY <1>7, <2>2, <2>4, <2>10
<1>26. CASE WriteTest(t)
  <2>1. c.pc = "test" /\ UNCHANGED <<data, datasize, file, fds, out>>
    BY <1>1, <1>26 DEF WriteTest, At
  <2>2. PICK r : r = c.obj
    OBVIOUS
  <2>3. EndNow' = EndNow /\ call'[F].pc \in {"set", "user"}
    <3>1. CASE datasize < file[r].pos
      <4>1. call'[F] = [pc |-> "set", obj |-> r, seen |-> datasize]
        BY <1>1, <1>26, <2>2, <3>1 DEF WriteTest, Longer, Goto, Typed
      <4>2. call'[F].pc = "set" /\ call'[F].obj = r
        BY <4>1
      <4>. QED
        BY <2>1, <2>2, <4>2 DEF EndNow, WritePcs
    <3>2. CASE ~ (datasize < file[r].pos)
      <4>1. call'[F] = Idle
        BY <1>1, <1>26, <2>2, <3>2 DEF WriteTest, Longer, Goto, Typed
      <4>2. call'[F].pc = "user"
        BY <4>1 DEF Idle
      <4>. QED
        BY <2>1, <2>2, <3>2, <4>2 DEF EndNow, WritePcs
    <3>. QED
      BY <3>1, <3>2
  <2>4. Content' = Content
    BY <1>5, <2>1, <2>3
  <2>5. Positions' = Positions
    BY <1>8, <1>11, <1>12, <2>1, <2>3
  <2>. QED
    BY <1>1, <1>7, <2>1, <2>4, <2>5
<1>27. CASE WriteSet(t)
  <2>1. c.pc = "set" /\ call'[F] = Idle /\ UNCHANGED <<data, file, fds, out>>
    BY <1>1, <1>27 DEF WriteSet, At, Goto, Typed
  <2>2. PICK r \in Objs : r = c.obj
    BY <1>1, <2>1, CallKinds
  <2>3. datasize' = file[r].pos /\ ~ (datasize > file[r].pos /\ datasize # c.seen)
        /\ c.seen < file[r].pos /\ call'[F].pc = "user"
    BY <1>1, <1>27, <2>1, <2>2 DEF WriteSet, OnFiles, Idle
  <2>4. EndNow' = EndNow
    <3>1. file[r].pos \in Nat /\ datasize \in Nat
      BY DEF Typed, Records, Sizes
    <3>2. ~ (datasize > file[r].pos)
      BY <2>3, <3>1
    <3>. QED
      BY <2>1, <2>2, <2>3, <3>1, <3>2 DEF EndNow, WritePcs
  <2>5. Content' = Content
    BY <1>5, <2>1, <2>4
  <2>6. Positions' = Positions
    BY <1>8, <1>11, <1>12, <2>1, <2>3
  <2>. QED
    BY <1>1, <1>7, <2>1, <2>5, <2>6
<1>28. ASSUME NEW fd \in Fds, NEW r \in Objs, r = fds[F][fd], IsOpen(F, fd), IsOpen(F, fd)',
              c.pc = "advance", call'[F].pc = "user", NEW n \in Counts,
              NEW p \in Nat, p = file[r].pos, NEW q \in 0 .. datasize, p <= q,
              q = (IF p + n < datasize THEN p + n ELSE datasize),
              file' = [file EXCEPT ![r].pos = q], UNCHANGED <<fds, data, datasize>>,
              out'[F] = Span("tmpfs", p, q - p)
       PROVE  Promise!Next
  <2>1. Content' = Content /\ Len(Content) = datasize /\ EndNow = datasize
    BY <1>2, <1>5, <1>9, <1>10, <1>28 DEF WritePcs
  <2>2. Positions' = [Positions EXCEPT ![fd] = q] /\ Positions[fd] = p /\ Positions[fd] # -1
    BY <1>17, <1>28
  <2>3. SubSeq(Content, p + 1, q) = Span("tmpfs", p, q - p)
    <3>1. datasize \in 0 .. datasize /\ q - p \in Nat /\ p + (q - p) = q /\ q <= datasize
      BY <1>28 DEF Typed
    <3>2. SubSeq([i \in 1 .. datasize |-> data[i]], p + 1, p + (q - p)) = Span("tmpfs", p, q - p)
      BY <3>1, SpanOfContent
    <3>3. Content = [i \in 1 .. datasize |-> data[i]]
      BY <1>2, <2>1
    <3>. QED
      BY <3>1, <3>2, <3>3
  <2>4. Promise!Smaller(p + n, Len(Content)) = q
    BY <1>28, <2>1 DEF Promise!Smaller
  <2>5. Promise!Read(fd, n)
    BY <1>28, <2>1, <2>2, <2>3, <2>4 DEF Promise!Read, Promise!Closed, Content, Positions
  <2>. QED
    BY <2>5 DEF Promise!Next
<1>29. CASE ReadAdvance(t)
  <2>1. c.pc = "advance"
    BY <1>1, <1>29 DEF ReadAdvance, At
  <2>2. c \in [pc : {"advance"}, obj : Objs, n : Counts, node : Kinds, whole : BOOLEAN,
               got : Seq(AnyByte)]
    BY <1>1, <2>1, CallKinds
  <2>3. PICK r \in Objs, n \in Counts : r = c.obj /\ n = c.n /\ n \in Nat
    BY <2>2, FileAssumption
  <2>4. PICK fd \in Fds : fds[F][fd] = r /\ IsOpen(F, fd)
    BY <1>1, <2>1, <2>3 DEF WhileAlone, HasOpen, ReadPcs
  <2>5. PICK p \in Nat : p = file[r].pos
    BY DEF Typed, Records, Sizes
  <2>6. PICK q : q = IF c.whole THEN Wrapped(p + n) ELSE Advanced(p, Size(c.node))
    OBVIOUS
  <2>7. /\ file' = [file EXCEPT ![r].pos = q] /\ UNCHANGED <<fds, data, datasize>>
        /\ out'[F] = c.got /\ call'[F].pc = "user"
    BY <1>1, <1>29, <2>3, <2>5, <2>6 DEF ReadAdvance, Returns, Goto, Idle, Typed
  <2>8. IsOpen(F, fd)'
    BY <1>11, <1>12, <2>1, <2>4, <2>7
  <2>9. file[r].node = "tmpfs" /\ c.node = "tmpfs"
    <3>1. file'[r].node = file[r].node
      BY <2>7 DEF Typed, Records
    <3>2. file'[r].node = "tmpfs"
      BY <2>4, <2>7, <2>8 DEF Alone
    <3>. QED
      BY <1>1, <2>1, <2>3, <3>1, <3>2 DEF OnFiles, ReadPcs
  <2>10. Size(c.node) = datasize /\ datasize \in Nat
    BY <2>9 DEF Size, Typed
  <2>11. p \in 0 .. datasize
    BY <1>13, <1>14, <2>1, <2>5, <2>9 DEF WritePcs
  <2>12. c.got = Span("tmpfs", p, Left(c))
    BY <1>1, <2>1, <2>3, <2>5, <2>9 DEF WhileAlone
  <2>13. ReadSound(F)
    BY <1>1 DEF Quiet, Calm
  <2>14. CASE c.whole
    <3>1. n + p <= datasize /\ Left(c) = n
      <4>1. "shrunk" \notin past
        BY <1>1
      <4>2. c.n + file[c.obj].pos <= Size(c.node)
        BY <2>1, <2>13, <2>14, <4>1 DEF ReadSound
      <4>3. n + p <= datasize
        BY <2>3, <2>5, <2>10, <4>2
      <4>4. Left(c) = c.n
        BY <2>14 DEF Left
      <4>. QED
        BY <2>3, <4>3, <4>4
    <3>2. p + n \in 0 .. datasize /\ p + n \in Sizes
      <4>1. datasize < SizeMod /\ SizeMod \in Nat
        BY Sizing DEF Typed
      <4>. QED
        BY <2>3, <2>5, <2>10, <3>1, <4>1 DEF Sizes
    <3>3. q = p + n
      BY Zenon, <2>6, <2>14, <3>2, Sizing
    <3>4. q \in 0 .. datasize /\ p <= q /\ q = (IF p + n < datasize THEN p + n ELSE datasize) /\ q - p = n
      BY <2>3, <2>5, <2>10, <3>1, <3>2, <3>3
    <3>. QED
      BY <1>28, <2>1, <2>4, <2>5, <2>7, <2>8, <2>12, <3>1, <3>4
  <2>15. CASE ~ c.whole
    <3>1. Left(c) = datasize - p /\ q = datasize
      BY <2>3, <2>5, <2>6, <2>10, <2>15 DEF Left, Advanced
    <3>2. datasize - p \in Nat
      BY <2>10, <2>11
    <3>3. Len(c.got) = datasize - p
      BY <2>9, <2>12, <2>2, <3>1, <3>2, SpanTyped
    <3>4. Len(c.got) <= n
      BY <1>1, <2>1, <2>3, <2>13 DEF ReadSound
    <3>5. q \in 0 .. datasize /\ p <= q /\ q = (IF p + n < datasize THEN p + n ELSE datasize)
      BY <2>3, <2>10, <2>11, <3>1, <3>3, <3>4
    <3>. QED
      BY <1>28, <2>1, <2>4, <2>5, <2>7, <2>8, <2>12, <3>1, <3>5
  <2>. QED
    BY <2>14, <2>15
<1>30. CASE ExecOpen(t)
  <2>1. PICK r \in Objs : r = Head(free) /\ IsFree(r)
    BY <1>30, Taken, TakeFirst DEF ExecOpen, Typed, Owned
  <2>2. /\ file' = [file EXCEPT ![r] = [node |-> "initramfs", pos |-> Len(Program)]]
        /\ call'[F] = [pc |-> "close", obj |-> r]
        /\ UNCHANGED <<fds, data, datasize, out>> /\ c.pc = "user"
    BY <1>1, <1>30, <2>1 DEF ExecOpen, At, Goto, Typed
  <2>3. call'[F].pc = "close"
    BY <2>2
  <2>4. Content' = Content
    BY <1>5, <1>9, <1>10, <2>2, <2>3 DEF WritePcs
  <2>5. \A d \in Fds : IsOpen(F, d) => fds[F][d] # r /\ fds[F][d] \in Objs
    BY <1>1, <2>1 DEF Owned, FdsNotFree, HasOpen, IsOpen, Typed
  <2>6. \A d \in Fds : IsOpen(F, d) => fds'[F][d] = fds[F][d] /\ file'[fds[F][d]].pos = file[fds[F][d]].pos
    BY <2>2, <2>5 DEF Typed
  <2>7. \A d \in Fds : IsOpen(F, d)' <=> IsOpen(F, d)
    BY <1>11, <1>12, <2>2, <2>3
  <2>8. Positions' = Positions
    BY <1>8, <2>6, <2>7
  <2>. QED
    BY <1>7, <2>2, <2>4, <2>8
<1>31. CASE ExecClose(t)
  <2>1. c.pc = "close"
    BY <1>1, <1>31 DEF ExecClose, At
  <2>2. PICK r \in Objs : r = c.obj /\ c \in [pc : {"test", "close", "again"}, obj : Objs]
    BY <1>1, <2>1, CallKinds
  <2>3. /\ file' = [file EXCEPT ![r].node = "none"] /\ UNCHANGED <<fds, data, datasize, out>>
        /\ call'[F].pc = "again"
    BY <1>1, <1>31, <2>2 DEF ExecClose, Goto, Typed
  <2>4. Content' = Content
    BY <1>5, <1>9, <1>10, <2>1, <2>3 DEF WritePcs
  <2>5. \A d \in Fds : IsOpen(F, d) => fds[F][d] # r
    <3>1. Loads(F, r)
      BY <2>1, <2>2 DEF Loads
    <3>2. ~ HasOpen(F, r)
      BY <1>1, <3>1 DEF Owned, CallsApart, InCall
    <3>. QED
      BY <3>2 DEF HasOpen
  <2>6. \A d \in Fds : IsOpen(F, d) => fds'[F][d] = fds[F][d] /\ file'[fds[F][d]].pos = file[fds[F][d]].pos
    BY <1>1, <2>3, <2>5 DEF IsOpen, Typed
  <2>7. \A d \in Fds : IsOpen(F, d)' <=> IsOpen(F, d)
    BY <1>11, <1>12, <2>1, <2>3
  <2>8. Positions' = Positions
    BY <1>8, <2>6, <2>7
  <2>. QED
    BY <1>7, <2>3, <2>4, <2>8
<1>32. CASE ExecReadAgain(t)
  <2>1. c.pc = "again" /\ UNCHANGED <<fds, data, datasize, out>>
    BY <1>1, <1>32 DEF ExecReadAgain, At
  <2>2. PICK r \in Objs : r = c.obj
    BY <1>1, <2>1, CallKinds
  <2>3. call'[F].pc \in {"user", "wild"}
    BY <1>1, <1>32 DEF ExecReadAgain, GoWild, Goto, Idle, Typed
  <2>4. Content' = Content
    BY <1>5, <1>9, <1>10, <2>1, <2>3 DEF WritePcs
  <2>5. \A o \in Objs \ {r} : file'[o] = file[o]
    BY <1>1, <1>32, <2>2 DEF ExecReadAgain, Typed
  <2>6. file' = file \/ (file[r].node = "none" /\ file'[r].node = file[r].node)
    BY <1>1, <1>32, <2>2 DEF ExecReadAgain, Typed, Records
  <2>7. \A d \in Fds : IsOpen(F, d)' <=> IsOpen(F, d)
    BY <1>11, <1>12, <2>1, <2>3
  <2>8. \A d \in Fds : IsOpen(F, d) => file'[fds[F][d]] = file[fds[F][d]]
    <3>1. ASSUME NEW d \in Fds, IsOpen(F, d), file' # file PROVE fds[F][d] # r
      <4>1. file'[fds'[F][d]].node = "tmpfs"
        BY <2>7, <3>1 DEF Alone
      <4>. QED
        BY <2>1, <2>6, <3>1, <4>1
    <3>. QED
      BY <1>1, <2>5, <3>1 DEF IsOpen, Typed
  <2>9. Positions' = Positions
    BY <1>8, <2>1, <2>7, <2>8
  <2>. QED
    BY <1>7, <2>1, <2>4, <2>9
<1>. QED
  BY <1>15, <1>16, <1>19, <1>20, <1>22, <1>23, <1>24, <1>25, <1>26, <1>27, <1>29, <1>30, <1>31, <1>32
  DEF Call, Step

(* Until it forks, a task with tmpfs files sees a ByteFile, whatever its    *)
(* writes, reads and seeks inside the file: each step is one of ByteFile's  *)
(* or shows nothing of the file.                                            *)
THEOREM FileKeepsItsPromise == Spec => BytesKept
<1>1. Init => WhileAlone /\ Promise!Init
  BY PromiseBegins, FileAssumption DEF Init, WhileAlone, Idle, WritePcs, ReadPcs
<1>2. ASSUME IInv, IInv', WhileAlone, [Next]_vars PROVE WhileAlone'
  <2>1. CASE Next
    BY <1>2, <2>1, WhileAloneKept DEF Next, IInv
  <2>2. CASE UNCHANGED vars
    BY <1>2, <2>2 DEF vars, WhileAlone, OthersUnborn, Left, Span, Holds, Size, HasOpen, IsOpen
  <2>. QED
    BY <1>2, <2>1, <2>2
<1>3. ASSUME IInv, IInv', WhileAlone, [Next]_vars, Alone', past' = {}
      PROVE  Promise!Next \/ UNCHANGED Promise!vars
  <2>1. CASE Next
    BY <1>3, <2>1, PromiseStep DEF Next, IInv
  <2>2. CASE UNCHANGED vars
    BY <2>2 DEF vars, Promise!vars, Writing, IsOpen
  <2>. QED
    BY <1>3, <2>1, <2>2
<1>4. IInv /\ IInv' /\ WhileAlone /\ [Next]_vars
        => [Alone' /\ past' = {} => [Promise!Next]_(Promise!vars)]_vars
  BY <1>3
<1>. QED
  BY <1>1, <1>2, <1>4, Inductive, PTL DEF Spec, BytesKept
=============================================================================
