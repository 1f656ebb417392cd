------------------------------ MODULE FileIO -------------------------------
(***************************************************************************)
(* What files hold and how it is read and written: tmpfs.c, initramfs.c,   *)
(* and read, write, lseek64, close, fork and exec of syscall.c.  There is  *)
(* one tmpfs file, one file of the archive, and the pool of struct files   *)
(* that allocate and free pass on.                                         *)
(*                                                                         *)
(* Calls run with interrupts enabled.  A struct file belongs to one        *)
(* descriptor, so a call is cut into steps where it touches the inode,     *)
(* which all descriptors share.  A memncpy is one step.                    *)
(***************************************************************************)
EXTENDS Integers, Sequences, FiniteSetsExt

CONSTANTS
    Tasks,
    FirstTask,
    MAX_FD,
    MAX_FILE_SIZE,
    SizeMod,                    \* 2^64, where a size_t starts again from 0
    Bytes, Counts, Offsets,     \* what is written, how many, where lseek goes
    Program,                    \* what the file of the archive holds
    Objs,                       \* the chunks that become struct files: 1 .. n
    Nodes,                      \* the files that are opened
    Execs                       \* the tasks that call exec

Old == "old"        \* what a page held before it was allocated

\* offset is a long; no buffer is as long as the address space.
ASSUME FileAssumption ==
    /\ FirstTask \in Tasks /\ Execs \subseteq Tasks
    /\ MAX_FD \in Nat /\ MAX_FILE_SIZE \in Nat /\ SizeMod \in Nat
    /\ Counts \subseteq Nat
    /\ \A n \in Counts \cup {Len(Program)} :
        n + MAX_FILE_SIZE < SizeMod /\ n + Len(Program) < SizeMod
    /\ Offsets \subseteq (- SizeMod) .. (SizeMod - 1)
    /\ Nodes \subseteq {"tmpfs", "initramfs"}
    /\ IsFiniteSet(Objs) /\ Objs = 1 .. Cardinality(Objs)
    /\ Program \in Seq({Program[i] : i \in DOMAIN Program})
    /\ Old \notin Bytes /\ \A i \in DOMAIN Program : Program[i] # Old

VARIABLES
    data, datasize,     \* the tmpfs inode
    file,               \* the struct files
    free,               \* the free list of chunks
    fds,                \* each task's fdtable, 0 for NULL
    call,               \* where each task is in its system call
    out,                \* what each task's last call returned
    top,                \* history: the end of the furthest completed write
    past                \* history: what happened of Events

vars == <<data, datasize, file, free, fds, call, out, top, past>>

(* beyond: a position was set past the end.  shrunk: datasize was set back *)
(* by a write that had tested it before another write set it.  grown:      *)
(* another write came between the looks of a short read at datasize.       *)
(* reused: the struct file that exec closed was another's when it read     *)
(* from it again.                                                          *)
Events == {"beyond", "shrunk", "grown", "reused"}

\* A struct file that is free, or that no one has filled yet.
Nothing == [node |-> "none", pos |-> 0]
Idle == [pc |-> "user"]
Fds == 1 .. MAX_FD

Init ==
    /\ data = [i \in 1 .. MAX_FILE_SIZE |-> Old] /\ datasize = 0
    /\ file = [o \in Objs |-> Nothing]
    /\ free = [i \in Objs |-> i]
    /\ fds = [t \in Tasks |-> [fd \in Fds |-> 0]]
    /\ call = [t \in Tasks |-> IF t = FirstTask THEN Idle ELSE [pc |-> "unborn"]]
    /\ out = [t \in Tasks |-> <<>>]
    /\ top = 0 /\ past = {}

-----------------------------------------------------------------------------
Running == \A t \in Tasks : call[t].pc # "wild"
At(t, pc) == Running /\ call[t].pc = pc
Goto(t, c) == call' = [call EXCEPT ![t] = c]
GoWild(t) == Goto(t, [pc |-> "wild"])

\* A call of t begins on the open file of fd, which has been filled.
Begins(t, fd) == At(t, "user") /\ fds[t][fd] # 0 /\ file[fds[t][fd]].node # "none"

Holds(node) == IF node = "tmpfs" THEN data ELSE Program
Size(node) == IF node = "tmpfs" THEN datasize ELSE Len(Program)

\* The arithmetic of size_t.
Wrapped(m) == IF m < 0 THEN m + SizeMod ELSE IF m < SizeMod THEN m ELSE m - SizeMod

\* The n bytes from position p on; outside the file, whatever lies there.
Span(node, p, n) ==
    [i \in 1 .. n |-> LET j == IF p + i > SizeMod THEN p + i - SizeMod ELSE p + i IN
        IF j \in DOMAIN Holds(node) THEN Holds(node)[j] ELSE Old]

\* Another call has begun, or returned r.
Returns(t, r) == out' = [out EXCEPT ![t] = r]

\* A call reaches a struct file that fork has allocated and not filled: its
\* f_ops are what the chunk last held.
Unfilled(t) ==
    /\ At(t, "user")
    /\ \E fd \in Fds : fds[t][fd] # 0 /\ file[fds[t][fd]].node = "none"
    /\ GoWild(t)
    /\ UNCHANGED <<data, datasize, file, free, fds, out, top, past>>

\* tmpfs_open, initramfs_open
Open(t, fd, node) ==
    /\ At(t, "user") /\ fds[t][fd] = 0 /\ free # <<>>
    /\ file' = [file EXCEPT ![Head(free)] = [node |-> node, pos |-> 0]]
    /\ fds' = [fds EXCEPT ![t][fd] = Head(free)]
    /\ free' = Tail(free)
    /\ Returns(t, <<>>)
    /\ UNCHANGED <<data, datasize, call, top, past>>

\* free puts the chunk first, its link where vnode was; f_pos stays.
Freed(o) == <<o>> \o free

\* vfs_close frees, and then the descriptor is cleared.
Close(t, fd) ==
    /\ Begins(t, fd)
    /\ file' = [file EXCEPT ![fds[t][fd]].node = "none"]
    /\ free' = Freed(fds[t][fd])
    /\ Goto(t, [pc |-> "clear", fd |-> fd])
    /\ Returns(t, <<>>)
    /\ UNCHANGED <<data, datasize, fds, top, past>>

NotCleared(t, fd) == fds[t][fd]     \* A slip: the pointer stays.
Cleared(t, fd) == 0

CloseClear(t) ==
    /\ At(t, "clear")
    /\ fds' = [fds EXCEPT ![t][call[t].fd] = Cleared(t, call[t].fd)]
    /\ Goto(t, Idle)
    /\ UNCHANGED <<data, datasize, file, free, out, top, past>>

\* syscall_lseek64 sets any offset.
Lseek(t, fd, offset) ==
    /\ Begins(t, fd)
    /\ LET f == file[fds[t][fd]] IN
        /\ file' = [file EXCEPT ![fds[t][fd]].pos = Wrapped(offset)]
        /\ past' = IF Wrapped(offset) > Size(f.node) THEN past \cup {"beyond"} ELSE past
    /\ Returns(t, <<>>)
    /\ UNCHANGED <<data, datasize, free, fds, call, top>>

\* syscall_fork: the child runs from here on, its table still empty.  Which
\* name each file has and the working directory are Vfs's.
Fork(t, child) ==
    /\ At(t, "user") /\ call[child].pc = "unborn"
    /\ call' = [call EXCEPT ![t] = [pc |-> "fork", child |-> child, fd |-> 1],
                            ![child] = Idle]
    /\ Returns(t, <<>>)
    /\ UNCHANGED <<data, datasize, file, free, fds, top, past>>

\* A slip: the child gets the parent's struct file itself.
ForkShares(t, fd, o) == fds[t][fd]

ForkCopies(t, fd, o) == o

\* The loop over the parent's table: allocate, ...
ForkAllocate(t) ==
    LET c == call[t] IN
    /\ At(t, "fork")
    /\ \/ /\ c.fd \notin Fds
          /\ Goto(t, Idle)
          /\ UNCHANGED <<free, fds>>
       \/ /\ c.fd \in Fds /\ fds[t][c.fd] = 0
          /\ Goto(t, [c EXCEPT !.fd = @ + 1])
          /\ UNCHANGED <<free, fds>>
       \/ /\ c.fd \in Fds /\ fds[t][c.fd] # 0 /\ free # <<>>
          /\ fds' = [fds EXCEPT ![c.child][c.fd] = ForkCopies(t, c.fd, Head(free))]
          /\ free' = Tail(free)
          /\ Goto(t, [pc |-> "fill", child |-> c.child, fd |-> c.fd,
                      obj |-> ForkCopies(t, c.fd, Head(free))])
    /\ UNCHANGED <<data, datasize, file, out, top, past>>

\* ... and copy.  The child may have cleared the descriptor meanwhile, and the
\* copy goes to address 0; or opened a file there, which changes under it.
ForkFill(t) ==
    LET c == call[t] IN
    /\ At(t, "fill")
    /\ \/ /\ fds[c.child][c.fd] # c.obj
          /\ GoWild(t) /\ UNCHANGED file
       \/ /\ fds[c.child][c.fd] = c.obj
          /\ file' = [file EXCEPT ![c.obj] = file[fds[t][c.fd]]]
          /\ Goto(t, [pc |-> "fork", child |-> c.child, fd |-> c.fd + 1])
    /\ UNCHANGED <<data, datasize, free, fds, out, top, past>>

-----------------------------------------------------------------------------
(* tmpfs_write                                                             *)

\* memncpy and f_pos += len.  Nothing looks at MAX_FILE_SIZE.
WriteCopy(t, fd, b, n) ==
    /\ Begins(t, fd) /\ file[fds[t][fd]].node = "tmpfs"
    /\ LET p == file[fds[t][fd]].pos IN
        \/ /\ p + n <= MAX_FILE_SIZE
           /\ data' = [i \in DOMAIN data |-> IF i \in p + 1 .. p + n THEN b ELSE data[i]]
           /\ file' = [file EXCEPT ![fds[t][fd]].pos = p + n]
           /\ Goto(t, [pc |-> "test", obj |-> fds[t][fd]])
        \/ /\ p + n > MAX_FILE_SIZE
           /\ GoWild(t) /\ UNCHANGED <<data, file>>
    /\ Returns(t, <<>>)
    /\ UNCHANGED <<datasize, free, fds, top, past>>

Always(size, p) == TRUE     \* A slip: the size is set without a test.
Longer(size, p) == size < p

\* if (i->datasize < file->f_pos)
WriteTest(t) ==
    /\ At(t, "test")
    /\ LET o == call[t].obj p == file[o].pos IN
        /\ Goto(t, IF Longer(datasize, p) THEN [pc |-> "set", obj |-> o, seen |-> datasize]
                   ELSE Idle)
        /\ top' = IF Longer(datasize, p) THEN top ELSE Max({top, p})
    /\ UNCHANGED <<data, datasize, file, free, fds, out, past>>

ShortRead(u) ==
    call[u].pc \in {"short", "copy", "advance"} /\ call[u].node = "tmpfs" /\ ~ call[u].whole

\* i->datasize = file->f_pos
WriteSet(t) ==
    /\ At(t, "set")
    /\ LET p == file[call[t].obj].pos IN
        /\ datasize' = p
        /\ top' = Max({top, p})
        /\ past' = past \cup (IF datasize > p /\ datasize # call[t].seen THEN {"shrunk"} ELSE {})
                        \cup (IF \E u \in Tasks : ShortRead(u) THEN {"grown"} ELSE {})
    /\ Goto(t, Idle)
    /\ UNCHANGED <<data, file, free, fds, out>>

-----------------------------------------------------------------------------
(* tmpfs_read and initramfs_read                                           *)

\* if (len + file->f_pos > i->datasize)
ReadTest(t, fd, n) ==
    /\ Begins(t, fd)
    /\ LET o == fds[t][fd] f == file[o] IN
        Goto(t, IF Wrapped(n + f.pos) > Size(f.node)
                THEN [pc |-> "short", obj |-> o, n |-> n, node |-> f.node, whole |-> FALSE]
                ELSE [pc |-> "copy", obj |-> o, n |-> n, node |-> f.node, whole |-> TRUE,
                      len |-> n])
    /\ UNCHANGED <<data, datasize, file, free, fds, out, top, past>>

LenWhole(size, p) == size     \* A slip: as if from the start.
LenLeft(size, p) == size - p

\* len = i->datasize - file->f_pos.  Both are unsigned: past the end nearly
\* all of memory is copied.
ReadLen(t) ==
    /\ At(t, "short")
    /\ LET c == call[t] len == LenLeft(Size(c.node), file[c.obj].pos) IN
        Goto(t, IF Size(c.node) < file[c.obj].pos THEN [pc |-> "wild"]
                ELSE [pc |-> "copy", obj |-> c.obj, n |-> c.n, node |-> c.node,
                      whole |-> FALSE, len |-> len])
    /\ UNCHANGED <<data, datasize, file, free, fds, out, top, past>>

\* memncpy(buf, i->data + file->f_pos, len)
ReadCopy(t) ==
    /\ At(t, "copy")
    /\ LET c == call[t] p == file[c.obj].pos IN
        Goto(t, [pc |-> "advance", obj |-> c.obj, n |-> c.n, node |-> c.node,
                 whole |-> c.whole, got |-> Span(c.node, p, c.len)])
    /\ UNCHANGED <<data, datasize, file, free, fds, out, top, past>>

AdvancedBySize(p, size) == p + size     \* A slip: += without the difference.
Advanced(p, size) == p + (size - p)

\* file->f_pos += len, or += i->datasize - file->f_pos
ReadAdvance(t) ==
    /\ At(t, "advance")
    /\ LET c == call[t] IN
        /\ file' = [file EXCEPT ![c.obj].pos =
                        IF c.whole THEN Wrapped(@ + c.n) ELSE Advanced(@, Size(c.node))]
        /\ Returns(t, c.got)
    /\ Goto(t, Idle)
    /\ UNCHANGED <<data, datasize, free, fds, top, past>>

-----------------------------------------------------------------------------
(* exec: open, read, close, and read again.  What it reads, and what the   *)
(* second read overwrites it with, is left out.                            *)

\* vfs_open, getsize, allocate and the first vfs_read.
ExecOpen(t) ==
    /\ At(t, "user") /\ t \in Execs /\ free # <<>>
    /\ file' = [file EXCEPT ![Head(free)] = [node |-> "initramfs", pos |-> Len(Program)]]
    /\ Goto(t, [pc |-> "close", obj |-> Head(free)])
    /\ free' = Tail(free)
    /\ UNCHANGED <<data, datasize, fds, out, top, past>>

ExecClose(t) ==
    /\ At(t, "close")
    /\ file' = [file EXCEPT ![call[t].obj].node = "none"]
    /\ free' = Freed(call[t].obj)
    /\ Goto(t, [call[t] EXCEPT !.pc = "again"])
    /\ UNCHANGED <<data, datasize, fds, out, top, past>>

\* vfs_read(file, ...), for as many bytes again.  The struct file is another's
\* and its position moves; or it is free, what follows it in the free list is
\* taken for its vnode, and any number of bytes is read, or memory overrun.
ExecReadAgain(t) ==
    /\ At(t, "again")
    /\ LET o == call[t].obj f == file[o]
           Moves(n) == file' = [file EXCEPT ![o].pos = Wrapped(@ + n)]
       IN  \/ /\ f.node = "none"
              /\ \E n \in 0 .. Len(Program) : Moves(n)
              /\ Goto(t, Idle) /\ UNCHANGED past
           \/ /\ f.node # "none"
              /\ \/ Wrapped(Len(Program) + f.pos) <= Size(f.node) /\ Moves(Len(Program))
                 \/ /\ Wrapped(Len(Program) + f.pos) > Size(f.node)
                    /\ f.pos <= Size(f.node) /\ Moves(Size(f.node) - f.pos)
              /\ past' = past \cup {"reused"}
              /\ Goto(t, Idle)
           \/ /\ f.node = "none" \/ f.pos > Size(f.node)
              /\ GoWild(t)
              /\ UNCHANGED <<file, past>>
    /\ UNCHANGED <<data, datasize, free, fds, out, top>>

-----------------------------------------------------------------------------
Call(t) ==
    \/ ExecOpen(t) \/ Unfilled(t)
    \/ \E child \in Tasks : Fork(t, child)
    \/ \E fd \in Fds :
        \/ \E node \in Nodes : Open(t, fd, node)
        \/ Close(t, fd)
        \/ \E p \in Offsets : Lseek(t, fd, p)
        \/ \E b \in Bytes, n \in Counts : WriteCopy(t, fd, b, n)
        \/ \E n \in Counts : ReadTest(t, fd, n)

Step(t) ==
    \/ CloseClear(t) \/ ForkAllocate(t) \/ ForkFill(t)
    \/ WriteTest(t) \/ WriteSet(t)
    \/ ReadLen(t) \/ ReadCopy(t) \/ ReadAdvance(t)
    \/ ExecClose(t) \/ ExecReadAgain(t)

Next == \E t \in Tasks : Call(t) \/ Step(t)

Spec == Init /\ [][Next]_vars

-----------------------------------------------------------------------------
TypeOK ==
    /\ datasize \in 0 .. MAX_FILE_SIZE /\ top \in 0 .. MAX_FILE_SIZE
    /\ \A o \in Objs : /\ file[o].node \in Nodes \cup {"none", "initramfs"}
                       /\ file[o].pos \in 0 .. SizeMod - 1
    /\ \A t \in Tasks, fd \in Fds : fds[t][fd] \in Objs \cup {0}
    /\ past \subseteq Events

\* The descriptor is open, and not being closed.
IsOpen(t, fd) == fds[t][fd] # 0 /\ call[t] # [pc |-> "clear", fd |-> fd]

(* Every open descriptor of every task has a struct file of its own, and   *)
(* none that is free, whatever fork copies, close frees before it clears   *)
(* the descriptor, and exec frees and reads again.                         *)
EachDescriptorItsOwnFile ==
    \A t \in Tasks, i \in Fds : IsOpen(t, i) =>
        /\ \A k \in DOMAIN free : fds[t][i] # free[k]
        /\ \A u \in Tasks, j \in Fds :
            IsOpen(u, j) /\ fds[u][j] = fds[t][i] => t = u /\ i = j

(* The struct file of an open descriptor changes only in calls of its own  *)
(* task, but for the parent that fills it in fork, and for an exec that    *)
(* closed it before it was given away and now reads through it again.      *)
PositionsMoveAlone ==
    [][\A t \in Tasks, fd \in Fds :
        LET o == fds[t][fd] IN
        IsOpen(t, fd) /\ fds'[t][fd] = o /\ file'[o] # file[o] =>
            \/ Call(t) \/ Step(t)
            \/ \E u \in Tasks : /\ call[u] # call'[u]
                               /\ \/ call[u] = [pc |-> "fill", child |-> t, fd |-> fd, obj |-> o]
                                  \/ call[u] = [pc |-> "again", obj |-> o]]_vars

(* The file is as long as the furthest completed write made it, unless one *)
(* set the size back that another had set since its test.                  *)
SizeCoversWrites == "shrunk" \notin past => datasize = top

(* What writes have left is a file of the length they made it.             *)
FileSound == TypeOK /\ SizeCoversWrites

(* A read, whole or short, copies only bytes that were written, never what *)
(* the page held before or what lies around it, as long as no position was *)
(* set past the end and no exec moved one.  A short read copies no more    *)
(* than was asked for, unless a write came between its looks at the size,  *)
(* and does not leave the page, unless a write set the size back.          *)
ReadsAreSound ==
    [][past' \cap {"beyond", "reused"} = {} => \A t \in Tasks :
        /\ call[t].pc = "advance" /\ call'[t] = Idle => \A i \in DOMAIN out'[t] : out'[t][i] # Old
        /\ call'[t].pc = "advance" /\ "grown" \notin past' => Len(call'[t].got) <= call'[t].n
        /\ call[t].pc = "short" /\ "shrunk" \notin past' => call'[t].pc # "wild"]_vars

\* The tmpfs file of one task as ByteFile.  A write takes effect when its
\* bytes are copied, a read when it moves the position, close when it frees.
Writing == {file[call[t].obj].pos : t \in {u \in Tasks : call[u].pc \in {"test", "set"}}}

Promise == INSTANCE ByteFile WITH
    Descriptors <- Fds,
    content <- SubSeq(data, 1, Max({datasize} \cup Writing)),
    pos <- [fd \in Fds |-> IF IsOpen(FirstTask, fd) THEN file[fds[FirstTask][fd]].pos
                          ELSE -1],
    out <- out[FirstTask]

Alone ==
    /\ \A t \in Tasks \ {FirstTask} : call[t].pc = "unborn"
    /\ \A fd \in Fds :
        IsOpen(FirstTask, fd) => file[fds[FirstTask][fd]].node = "tmpfs"

(* A task that is alone with a tmpfs file reads what it wrote, from every  *)
(* position that is not past the end: until it forks, what it sees of the  *)
(* file is a ByteFile.                                                     *)
BytesKept ==
    /\ Promise!Init
    /\ [][Alone' /\ past' = {} => [Promise!Next]_(Promise!vars)]_vars

=============================================================================
