----------------------------- MODULE VfsProofs -----------------------------
(***************************************************************************)
(* The names of files for any number of tasks, any archive, any paths and  *)
(* any bounds on the tree.  The first part is about the tree, whatever     *)
(* vnode a lookup finds; the last is about the paths, and follows          *)
(* get_absolute_path and vfs_lookup character by character.                *)
(***************************************************************************)
EXTENDS Vfs, WellFoundedInduction, SequenceTheorems, TLAPS

Kinds == {"tmpfs", "initramfs"}

Vnode(names) ==
    [fs : Kinds, type : {"DIR", "FILE"}, name : names, entry : Seq(Nat), mount : Nat]

\* The records of calls that later steps of the call change in part.
CallTyped(c) ==
    /\ c.pc = "store" =>
        /\ c = [pc |-> "store", dir |-> c.dir, idx |-> c.idx, name |-> c.name,
                type |-> c.type, path |-> c.path, fd |-> c.fd, mounts |-> c.mounts]
        /\ c.type \in {"DIR", "FILE"}
    /\ c.pc = "attach" => c = [pc |-> "attach", dir |-> c.dir, fs |-> c.fs]
    /\ c.pc \in {"attach", "enter", "setup"} => c.fs \in Kinds
    /\ c.pc \in {"scan", "fill"} =>
        c = [pc |-> c.pc, dir |-> c.dir, idx |-> c.idx] /\ c.idx \in Nat \ {0}
    /\ c.pc = "copy" => c = [pc |-> "copy", child |-> c.child, fd |-> c.fd] /\ c.fd \in Nat

Typed ==
    /\ \E names : vnodes \in Seq(Vnode(names))
    /\ mounts \in Seq(Nat)
    /\ files \in Seq(ToSet(Archive))
    /\ call = [t \in Tasks |-> call[t]]
    /\ fds = [t \in Tasks |-> [fd \in Fds |-> fds[t][fd]]]
    /\ cwd = [t \in Tasks |-> cwd[t]]
    /\ \A t \in Tasks : CallTyped(call[t])

Adds(t) == call[t].pc \in {"store", "name"}
Mounts(t) == call[t].pc \in {"list", "scan", "fill"}
IsArchive(d) == vnodes[d].fs = "initramfs" /\ vnodes[d].type = "DIR"

\* Where calls in progress add files, and that a directory and its entries
\* belong to one file system.
Places ==
    /\ \A t \in Tasks :
        /\ Adds(t) => IsVnode(call[t].dir) /\ vnodes[call[t].dir].fs = "tmpfs"
        /\ call[t].pc = "name" =>
            /\ IsVnode(call[t].idx) /\ vnodes[call[t].idx].fs = "tmpfs"
            /\ call[t].type = vnodes[call[t].idx].type
        /\ Mounts(t) => IsVnode(call[t].dir) /\ IsArchive(call[t].dir)
    /\ \A d \in DOMAIN vnodes : \A i \in DOMAIN vnodes[d].entry :
        /\ IsVnode(vnodes[d].entry[i])
        /\ vnodes[vnodes[d].entry[i]].fs = vnodes[d].fs

Tree == Typed /\ Places

-----------------------------------------------------------------------------
(* The archive.  The first n files of the archive are the entries of d.    *)

Holds(d, n) ==
    /\ Len(vnodes[d].entry) = n
    /\ \A i \in 1 .. n : vnodes[vnodes[d].entry[i]].name = Archive[i]

ListHas(n) == Len(files) = n /\ \A i \in 1 .. n : files[i] = Archive[i]

\* A mount that has the list to itself has filled in what it has gone through.
OwnList(t) ==
    /\ t \in Listing => Listing = {t} /\ call[t].idx \in 1 .. Len(Archive) + 1
    /\ call[t].pc \in {"list", "scan"} => Holds(call[t].dir, 0)
    /\ call[t].pc = "scan" => ListHas(call[t].idx - 1)
    /\ call[t].pc = "fill" => ListHas(Len(Archive)) /\ Holds(call[t].dir, call[t].idx - 1)

\* No two mounts fill in one directory, and one that is not lapped is alone.
Filling ==
    /\ \A t, u \in Tasks :
        t # u /\ Mounts(t) /\ Mounts(u) => call[t].dir # call[u].dir
    /\ \A t \in Tasks : Mounts(t) /\ call[t].dir \notin lapped => OwnList(t)

Filled ==
    \A d \in DOMAIN vnodes \ lapped :
        IsArchive(d) /\ (\A t \in Tasks : Mounts(t) => call[t].dir # d)
        => Holds(d, Len(Archive))

ArchiveInv == Filling /\ Filled

-----------------------------------------------------------------------------
(* Names.  A vnode is one entry of one directory; a directory where calls  *)
(* did not overlap has one of them at most, which has looked at its names. *)

OneEntry ==
    \A d, e \in DOMAIN vnodes :
        \A i \in DOMAIN vnodes[d].entry, j \in DOMAIN vnodes[e].entry :
            vnodes[d].entry[i] = vnodes[e].entry[j] => d = e /\ i = j

IsFile(v) == vnodes[v].type = "FILE"

\* No file of d but v, which waits for its name, has the name n.
NewIn(d, v, n) ==
    \A i \in DOMAIN vnodes[d].entry :
        LET w == vnodes[d].entry[i] IN w # v /\ IsFile(w) => vnodes[w].name # n

\* Two calls that add to one directory lap.
OneAdder ==
    \A t, u \in Tasks :
        t # u /\ Adds(t) /\ Adds(u) /\ call[t].dir = call[u].dir => call[t].dir \in lapped

Waiting(t) == IF call[t].pc = "name" THEN call[t].idx ELSE 0

\* A create has not found its name, and will not write over an entry.
Looked(t) ==
    Adds(t) /\ call[t].dir \notin lapped =>
        /\ call[t].type = "FILE" => NewIn(call[t].dir, Waiting(t), call[t].name)
        /\ call[t].pc = "store" => call[t].idx > Len(vnodes[call[t].dir].entry)

OwnEntry(t) ==
    call[t].pc = "name" =>
        \A d \in DOMAIN vnodes : \A i \in DOMAIN vnodes[d].entry :
            vnodes[d].entry[i] = call[t].idx => d = call[t].dir

Naming == OneAdder /\ \A t \in Tasks : Looked(t) /\ OwnEntry(t)

OneName(d) ==
    \A i, j \in NamedFiles(d) :
        i # j => vnodes[vnodes[d].entry[i]].name # vnodes[vnodes[d].entry[j]].name

NamesInv == OneEntry /\ Naming /\ NoTwoFilesOneName

-----------------------------------------------------------------------------
(* Fork.  What a parent has copied so far the child has, and no more.      *)

Forks(t) == call[t].pc \in {"fork", "copy"}
Empty(t, fd) == fds[t][fd] = NULL

\* A child that has not acted has what its parent has copied, and no more.
Copied(t) ==
    Forks(t) /\ call[t].child \notin hasty =>
        /\ \A u \in Tasks : Forks(u) => call[u].child # t
        /\ call[t].pc = "fork" => \A fd \in Fds : Empty(call[t].child, fd)
        /\ call[t].pc = "copy" =>
            /\ cwd[call[t].child] = cwd[t]
            /\ \A fd \in Fds : IF fd < call[t].fd THEN fds[call[t].child][fd] = fds[t][fd]
                               ELSE Empty(call[t].child, fd)

ForkInv ==
    /\ \A t \in Tasks : call[t].pc = "unborn" => \A fd \in Fds : Empty(t, fd)
    /\ \A t \in Tasks : Forks(t) =>
        /\ call[t].child \in Tasks /\ call[t].child # t /\ call[call[t].child].pc # "unborn"
        /\ \A u \in Tasks : u # t /\ Forks(u) => call[u].child # call[t].child
    /\ \A t \in Tasks : Copied(t)

-----------------------------------------------------------------------------
(* The tree.  How full directories are, and what waits to be put in them.  *)

Sizes ==
    /\ \A v \in DOMAIN vnodes : /\ Len(vnodes[v].entry) <= MAX_DIR_ENTRY
                                /\ IsFile(v) => vnodes[v].entry = <<>>
    /\ \A t \in Tasks :
        /\ call[t].pc = "store" =>
            /\ vnodes[call[t].dir].type = "DIR" /\ call[t].idx \in 1 .. MAX_DIR_ENTRY
        /\ Mounts(t) => Len(vnodes[call[t].dir].entry) =
                            IF call[t].pc = "fill" THEN call[t].idx - 1 ELSE 0

\* A call that has made a struct mount, which has no root yet.
Hooks(t) == call[t].pc \in {"enter", "setup"}
Hook(t) == IF call[t].pc = "enter" THEN vnodes[call[t].dir].mount ELSE call[t].mount

Links ==
    /\ \A v \in DOMAIN vnodes : vnodes[v].mount \in DOMAIN mounts \cup {0}
    /\ \A m \in DOMAIN mounts : mounts[m] \in DOMAIN vnodes \cup {0}
    /\ \A t \in Tasks : /\ call[t].pc \in {"attach", "enter"} => IsVnode(call[t].dir)
                        /\ Hooks(t) => Hook(t) \in DOMAIN mounts

\* Each of them will be the root of its own mount, and will be found.
Hooked ==
    /\ \A t \in Tasks : Hooks(t) =>
        mounts[Hook(t)] = 0 /\ \E u \in DOMAIN vnodes : vnodes[u].mount = Hook(t)
    /\ \A t, u \in Tasks : t # u /\ Hooks(t) /\ Hooks(u) => Hook(t) # Hook(u)

\* A file's vnode, or what stands in its place.
IsHandle(v) == IsVnode(v) \/ v \in {Wild, 0}

Handles ==
    /\ \A t \in Tasks, fd \in Fds : IsHandle(fds[t][fd].vnode)
    /\ lapped \subseteq DOMAIN vnodes /\ hasty \subseteq Tasks

Led(v) == \E u \in 1 .. v - 1 : Leads(u, v)

Found == lapped = {} => Hooked /\ \A v \in DOMAIN vnodes \ {Root} : Led(v)

TreeInv == Sizes /\ Links /\ Handles /\ Found

-----------------------------------------------------------------------------
(* What a step changes                                                     *)

\* The call of one task goes on.
LEMMA CallStep ==
    ASSUME Typed, NEW t \in Tasks, NEW c, Goto(t, c)
    PROVE  /\ call'[t] = c /\ \A u \in Tasks \ {t} : call'[u] = call[u]
           /\ call' = [u \in Tasks |-> call'[u]]
  BY DEF Typed, Goto

\* One entry of one task's descriptor table changes.
Puts(t, fd, x) == fds' = [fds EXCEPT ![t][fd] = x]

LEMMA FdStep ==
    ASSUME Typed, NEW t \in Tasks, NEW fd, NEW x, Puts(t, fd, x)
    PROVE  /\ fds' = [u \in Tasks |-> [k \in Fds |-> fds'[u][k]]]
           /\ \A u \in Tasks \ {t} : fds'[u] = fds[u]
           /\ \A k \in Fds : fds'[t][k] = IF k = fd THEN x ELSE fds[t][k]
  <1>1. /\ fds = [u \in Tasks |-> [k \in Fds |-> fds[u][k]]]
    BY DEF Typed
  <1> HIDE DEF Fds
  <1>2. DOMAIN fds = Tasks /\ \A u \in Tasks : DOMAIN fds[u] = Fds
    BY <1>1
  <1>3. fds' = [u \in Tasks |-> IF u = t THEN [fds[t] EXCEPT ![fd] = x] ELSE fds[u]]
    BY <1>2 DEF Puts
  <1>4. \A u \in Tasks : DOMAIN fds'[u] = Fds
    BY <1>2, <1>3
  <1>5. \A u \in Tasks : fds'[u] = [k \in Fds |-> fds'[u][k]]
    <2> TAKE u \in Tasks
    <2>1. CASE u = t
      BY <2>1, <1>2, <1>3
    <2>2. CASE u # t
      <3>1. fds'[u] = fds[u] /\ fds[u] = [k \in Fds |-> fds[u][k]]
        BY <2>2, <1>1, <1>3
      <3> QED  BY <3>1
    <2> QED  BY <2>1, <2>2
  <1> QED  BY <1>2, <1>3, <1>5

\* A step at most adds to the names.
LEMMA VnodesWiden ==
    ASSUME NEW names, NEW more, NEW s \in Seq(Vnode(names))
    PROVE  s \in Seq(Vnode(names \cup more))
  <1>1. Vnode(names) \subseteq Vnode(names \cup more)
    BY DEF Vnode
  <1> QED  BY <1>1, SeqMonotonic

LEMMA IsSeq ==
    ASSUME NEW S, NEW n \in Nat, NEW f \in [1 .. n -> S]
    PROVE  f \in Seq(S) /\ Len(f) = n
  <1>1. f \in Seq(S)
    BY SeqDef
  <1> QED  BY <1>1, LenProperties

LEMMA AppendSeq ==
    ASSUME NEW S, NEW s \in Seq(S), NEW x \in S, NEW w, w = Append(s, x)
    PROVE  /\ w \in Seq(S) /\ Len(s) \in Nat /\ Len(w) = Len(s) + 1
           /\ DOMAIN s = 1 .. Len(s) /\ DOMAIN w = 1 .. Len(s) + 1
           /\ w[Len(s) + 1] = x /\ \A i \in 1 .. Len(s) : w[i] = s[i]
  <1>1. w \in Seq(S) /\ Len(w) = Len(s) + 1 /\ w[Len(s) + 1] = x
        /\ \A i \in 1 .. Len(s) : w[i] = s[i]
    BY AppendProperties
  <1> QED  BY <1>1, LenProperties

\* One vnode changes.
LEMMA PutVnode ==
    ASSUME NEW V, NEW s \in Seq(V), NEW d, NEW x \in V
    PROVE  /\ [s EXCEPT ![d] = x] \in Seq(V) /\ Len([s EXCEPT ![d] = x]) = Len(s)
           /\ \A v \in 1 .. Len(s) : [s EXCEPT ![d] = x][v] = IF v = d THEN x ELSE s[v]
  <1> DEFINE w == [s EXCEPT ![d] = x]
  <1>1. Len(s) \in Nat /\ s \in [1 .. Len(s) -> V]
    BY LenProperties
  <1>2. w \in [1 .. Len(s) -> V]
    BY <1>1
  <1>3. w \in Seq(V) /\ Len(w) = Len(s)
    <2> HIDE DEF w
    <2> QED  BY <1>1, <1>2, IsSeq
  <1> QED  BY <1>1, <1>3

LEMMA VnodeOf ==
    ASSUME NEW names, NEW s \in Seq(Vnode(names)), NEW v \in DOMAIN s
    PROVE  s[v] \in Vnode(names) /\ v \in 1 .. Len(s)
  BY LenProperties

\* A vnode is given its entries, its name or its mount.
LEMMA SetEntry ==
    ASSUME NEW names, NEW r \in Vnode(names), NEW e \in Seq(Nat),
           NEW x, x = [r EXCEPT !.entry = e]
    PROVE  /\ x \in Vnode(names) /\ x.fs = r.fs /\ x.type = r.type
           /\ x.name = r.name /\ x.entry = e /\ x.mount = r.mount
  BY DEF Vnode

LEMMA SetName ==
    ASSUME NEW names, NEW r \in Vnode(names), NEW n \in names,
           NEW x, x = [r EXCEPT !.name = n]
    PROVE  /\ x \in Vnode(names) /\ x.fs = r.fs /\ x.type = r.type
           /\ x.name = n /\ x.entry = r.entry /\ x.mount = r.mount
  BY DEF Vnode

LEMMA SetMount ==
    ASSUME NEW names, NEW r \in Vnode(names), NEW m \in Nat,
           NEW x, x = [r EXCEPT !.mount = m]
    PROVE  /\ x \in Vnode(names) /\ x.fs = r.fs /\ x.type = r.type
           /\ x.name = r.name /\ x.entry = r.entry /\ x.mount = m
  BY DEF Vnode

\* A new vnode.
LEMMA AddVnode ==
    ASSUME NEW names, NEW s \in Seq(Vnode(names)), NEW x \in Vnode(names),
           NEW w, w = Append(s, x)
    PROVE  /\ w \in Seq(Vnode(names)) /\ Len(w) = Len(s) + 1 /\ Len(s) \in Nat
           /\ DOMAIN w = 1 .. Len(s) + 1 /\ DOMAIN s = 1 .. Len(s)
           /\ \A v \in 1 .. Len(s) : w[v] = s[v]
           /\ w[Len(s) + 1] = x
  BY AppendSeq

\* What the steps do to the vnodes that are there.
Kept(v) ==
    vnodes'[v].fs = vnodes[v].fs /\ vnodes'[v].type = vnodes[v].type
SameEntry(v) == vnodes'[v].entry = vnodes[v].entry
SameName(v) == vnodes'[v].name = vnodes[v].name
SameMount(v) == vnodes'[v].mount = vnodes[v].mount

SameTree ==
    /\ DOMAIN vnodes' = DOMAIN vnodes
    /\ \A v \in DOMAIN vnodes : Kept(v) /\ SameEntry(v) /\ SameName(v)

Fresh == Len(vnodes) + 1

Grows(fs, type, name) ==
    /\ DOMAIN vnodes' = 1 .. Fresh /\ DOMAIN vnodes = 1 .. Fresh - 1 /\ Fresh \in Nat
    /\ vnodes'[Fresh].fs = fs /\ vnodes'[Fresh].type = type
    /\ vnodes'[Fresh].name = name /\ vnodes'[Fresh].entry = <<>> /\ vnodes'[Fresh].mount = 0
    /\ \A v \in DOMAIN vnodes : Kept(v) /\ SameName(v) /\ SameMount(v)

\* The vnodes are a sequence of records.
LEMMA VnodeFields ==
    ASSUME Tree
    PROVE  /\ Len(vnodes) \in Nat /\ DOMAIN vnodes = 1 .. Len(vnodes)
           /\ \A v \in DOMAIN vnodes :
                /\ vnodes[v].entry \in Seq(Nat) /\ vnodes[v].fs \in Kinds
                /\ vnodes[v].type \in {"DIR", "FILE"}
                /\ DOMAIN vnodes[v].entry = 1 .. Len(vnodes[v].entry)
                /\ Len(vnodes[v].entry) \in Nat
           /\ Len(mounts) \in Nat
           /\ Archive \in Seq(ToSet(Archive)) /\ Len(Archive) \in Nat
           /\ DOMAIN Archive = 1 .. Len(Archive)
  <1>1. PICK names : vnodes \in Seq(Vnode(names))
    BY DEF Tree, Typed
  <1>2. Len(vnodes) \in Nat /\ DOMAIN vnodes = 1 .. Len(vnodes)
        /\ \A v \in 1 .. Len(vnodes) : vnodes[v] \in Vnode(names)
    BY <1>1, LenProperties
  <1>3. \A v \in DOMAIN vnodes :
            /\ vnodes[v].entry \in Seq(Nat) /\ vnodes[v].fs \in Kinds
            /\ vnodes[v].type \in {"DIR", "FILE"}
    BY <1>2 DEF Vnode
  <1>4. \A v \in DOMAIN vnodes : /\ DOMAIN vnodes[v].entry = 1 .. Len(vnodes[v].entry)
                                 /\ Len(vnodes[v].entry) \in Nat
    BY <1>3, LenProperties
  <1>5. Len(mounts) \in Nat
    BY LenProperties DEF Tree, Typed
  <1> QED  BY <1>2, <1>3, <1>4, <1>5, VfsAssumption, LenProperties

\* A call whose record is right goes on to another.
LEMMA TypedGoto ==
    ASSUME Typed, NEW t \in Tasks, NEW c, Goto(t, c), CallTyped(c)
    PROVE  call' = [u \in Tasks |-> call'[u]] /\ \A u \in Tasks : CallTyped(call'[u])
  <1>1. call'[t] = c /\ \A u \in Tasks \ {t} : call'[u] = call[u]
    BY CallStep
  <1>2. \A u \in Tasks : CallTyped(call[u])
    BY DEF Typed
  <1>3. \A u \in Tasks : CallTyped(call'[u])
    BY <1>1, <1>2
  <1> QED  BY <1>3, CallStep

\* The store of a new vnode in an entry of the directory.
LEMMA StoreStep ==
    ASSUME Tree, NEW t \in Tasks, Store(t)
    PROVE  /\ Typed' /\ Grows("tmpfs", call[t].type, <<>>)
           /\ \A e \in DOMAIN vnodes : e # call[t].dir => SameEntry(e)
           /\ \E k : \A i \in DOMAIN vnodes'[call[t].dir].entry :
                \/ i = k /\ vnodes'[call[t].dir].entry[i] = Fresh
                \/ i # k /\ i \in DOMAIN vnodes[call[t].dir].entry
                   /\ vnodes'[call[t].dir].entry[i] = vnodes[call[t].dir].entry[i]
           /\ IF call[t].idx > Len(vnodes[call[t].dir].entry)
              THEN vnodes'[call[t].dir].entry = Append(vnodes[call[t].dir].entry, Fresh)
              ELSE Len(vnodes'[call[t].dir].entry) = Len(vnodes[call[t].dir].entry)
           /\ call'[t].pc = "name" /\ call'[t].idx = Fresh /\ call'[t].dir = call[t].dir
           /\ call'[t].type = call[t].type /\ call'[t].name = call[t].name
           /\ \A u \in Tasks \ {t} : call'[u] = call[u]
  <1> DEFINE c == call[t]
             d == c.dir
             old == vnodes[d].entry
             e == IF c.idx > Len(old) THEN Append(old, Fresh) ELSE [old EXCEPT ![c.idx] = Fresh]
             s == [vnodes EXCEPT ![d].entry = e]
             x == NewVnode("tmpfs", c.type, <<>>)
  <1>1. /\ vnodes' = Append(s, x) /\ Goto(t, [c EXCEPT !.pc = "name", !.idx = Fresh])
        /\ call[t].pc = "store"
        /\ UNCHANGED <<mounts, files, fds, cwd>>
    BY DEF Store, At, Fresh
  <1>2. d \in DOMAIN vnodes /\ CallTyped(c) /\ Typed
    BY <1>1 DEF Tree, Typed, Places, Adds, IsVnode
  <1>3. PICK names : vnodes \in Seq(Vnode(names))
    BY <1>2 DEF Typed
  <1>4. old \in Seq(Nat) /\ DOMAIN old = 1 .. Len(old) /\ Len(old) \in Nat
        /\ Fresh \in Nat /\ Len(vnodes) \in Nat /\ DOMAIN vnodes = 1 .. Len(vnodes)
    BY <1>2, VnodeFields DEF Fresh
  <1>5. /\ e \in Seq(Nat)
        /\ \E k : \A i \in DOMAIN e :
                \/ i = k /\ e[i] = Fresh
                \/ i # k /\ i \in DOMAIN old /\ e[i] = old[i]
        /\ IF c.idx > Len(old) THEN e = Append(old, Fresh) ELSE Len(e) = Len(old)
    <2> HIDE DEF old
    <2>1. CASE c.idx > Len(old)
      <3>1. e = Append(old, Fresh)
        BY <2>1
      <3> HIDE DEF e
      <3>2. /\ e \in Seq(Nat) /\ DOMAIN e = 1 .. Len(old) + 1 /\ e[Len(old) + 1] = Fresh
            /\ \A i \in 1 .. Len(old) : e[i] = old[i]
        BY <3>1, <1>4, AppendSeq
      <3>3. \A i \in DOMAIN e :
                \/ i = Len(old) + 1 /\ e[i] = Fresh
                \/ i # Len(old) + 1 /\ i \in DOMAIN old /\ e[i] = old[i]
        BY <3>2, <1>4
      <3> QED  BY <3>1, <3>2, <3>3, <2>1
    <2>2. CASE ~ c.idx > Len(old)
      <3>1. e = [old EXCEPT ![c.idx] = Fresh]
        BY <2>2
      <3>2. e \in [1 .. Len(old) -> Nat]
        BY <3>1, <1>4, LenProperties
      <3> HIDE DEF e
      <3>3. e \in Seq(Nat) /\ Len(e) = Len(old)
        BY <3>2, <1>4, IsSeq
      <3>4. \A i \in DOMAIN e :
                \/ i = c.idx /\ e[i] = Fresh
                \/ i # c.idx /\ i \in DOMAIN old /\ e[i] = old[i]
        BY <3>1, <3>2, <1>4
      <3> QED  BY <3>3, <3>4, <2>2
    <2> QED  BY <2>1, <2>2
  <1> HIDE DEF e
  <1> DEFINE more == names \cup {<<>>}
  <1>6. vnodes \in Seq(Vnode(more))
    BY <1>3, VnodesWiden
  <1>7. /\ s \in Seq(Vnode(more)) /\ Len(s) = Len(vnodes)
        /\ \A v \in 1 .. Len(vnodes) :
            /\ s[v].fs = vnodes[v].fs /\ s[v].type = vnodes[v].type /\ s[v].name = vnodes[v].name
            /\ s[v].entry = IF v = d THEN e ELSE vnodes[v].entry
            /\ s[v].mount = vnodes[v].mount
    <2> DEFINE r == [vnodes[d] EXCEPT !.entry = e]
    <2>1. s = [vnodes EXCEPT ![d] = r]
      OBVIOUS
    <2>2. vnodes[d] \in Vnode(more)
      BY <1>2, <1>6, VnodeOf
    <2>3. /\ r \in Vnode(more) /\ r.fs = vnodes[d].fs /\ r.type = vnodes[d].type
          /\ r.name = vnodes[d].name /\ r.entry = e /\ r.mount = vnodes[d].mount
      <3>1. r = [vnodes[d] EXCEPT !.entry = e]
        OBVIOUS
      <3> HIDE DEF more, r, d
      <3> QED  BY ONLY <3>1, <2>2, <1>5, SetEntry
    <2> HIDE DEF more, d, r, s
    <2>5. r \in Vnode(more)
      BY <2>3
    <2>4. LET w == [vnodes EXCEPT ![d] = r] IN
          /\ w \in Seq(Vnode(more)) /\ Len(w) = Len(vnodes)
          /\ \A v \in 1 .. Len(vnodes) : w[v] = IF v = d THEN r ELSE vnodes[v]
      BY ONLY <2>5, <1>6, PutVnode
    <2> QED  BY <2>1, <2>3, <2>4
  <1>8. c = [pc |-> "store", dir |-> c.dir, idx |-> c.idx, name |-> c.name,
             type |-> c.type, path |-> c.path, fd |-> c.fd, mounts |-> c.mounts]
        /\ c.type \in {"DIR", "FILE"}
    BY <1>1, <1>2 DEF CallTyped
  <1>9. /\ x \in Vnode(more) /\ x.fs = "tmpfs" /\ x.type = c.type
        /\ x.name = <<>> /\ x.entry = <<>> /\ x.mount = 0
    BY <1>8 DEF Vnode, NewVnode, Kinds
  <1>10. /\ vnodes' \in Seq(Vnode(more)) /\ DOMAIN vnodes' = 1 .. Len(vnodes) + 1
         /\ \A v \in 1 .. Len(vnodes) : vnodes'[v] = s[v]
         /\ vnodes'[Len(vnodes) + 1] = x
    <2> HIDE DEF more, s, x
    <2>1. Len(s) = Len(vnodes)
      BY <1>7
    <2> QED  BY ONLY <1>1, <1>7, <1>9, <2>1, AddVnode
  <1>11. Grows("tmpfs", c.type, <<>>)
    <2> HIDE DEF s, x, more
    <2> QED  BY <1>4, <1>7, <1>9, <1>10 DEF Grows, Fresh, Kept, SameName, SameMount
  <1>12. \A v \in DOMAIN vnodes : vnodes'[v].entry = IF v = d THEN e ELSE vnodes[v].entry
    BY <1>4, <1>7, <1>10
  <1> DEFINE c2 == [c EXCEPT !.pc = "name", !.idx = Fresh]
  <1>13. /\ c2.pc = "name" /\ c2.idx = Fresh /\ c2.dir = c.dir /\ c2.type = c.type
         /\ c2.name = c.name
    BY <1>8
  <1>14. Goto(t, c2)
    BY <1>1
  <1> HIDE DEF c2
  <1>15. CallTyped(c2)
    BY <1>13 DEF CallTyped
  <1>16. Typed'
    <2>1. call' = [u \in Tasks |-> call'[u]] /\ \A u \in Tasks : CallTyped(call'[u])
      BY <1>2, <1>14, <1>15, TypedGoto
    <2> HIDE DEF more
    <2> QED  BY <2>1, <1>1, <1>2, <1>10 DEF Typed
  <1>17. call'[t] = c2 /\ \A u \in Tasks \ {t} : call'[u] = call[u]
    BY <1>2, <1>14, CallStep
  <1>18. vnodes'[d].entry = e
    BY <1>2, <1>12
  <1>19. \E k : \A i \in DOMAIN vnodes'[d].entry :
            \/ i = k /\ vnodes'[d].entry[i] = Fresh
            \/ i # k /\ i \in DOMAIN vnodes[d].entry /\ vnodes'[d].entry[i] = vnodes[d].entry[i]
    BY <1>5, <1>18
  <1>21. IF c.idx > Len(old) THEN vnodes'[d].entry = Append(old, Fresh)
         ELSE Len(vnodes'[d].entry) = Len(old)
    BY <1>5, <1>18
  <1>20. \A v \in DOMAIN vnodes : v # d => SameEntry(v)
    BY <1>12 DEF SameEntry
  <1> QED  BY <1>11, <1>13, <1>16, <1>17, <1>19, <1>20, <1>21

\* The vnode at Len(vnodes) + 1 has its name.
LEMMA NameStep ==
    ASSUME Tree, NEW t \in Tasks, NameIt(t)
    PROVE  /\ Typed' /\ DOMAIN vnodes' = DOMAIN vnodes
           /\ \A v \in DOMAIN vnodes : /\ Kept(v) /\ SameEntry(v) /\ SameMount(v)
                                       /\ v # call[t].idx => SameName(v)
           /\ vnodes'[call[t].idx].name = call[t].name
           /\ call'[t].pc = "user" /\ \A u \in Tasks \ {t} : call'[u] = call[u]
  <1> DEFINE c == call[t]
  <1>1. /\ vnodes' = [vnodes EXCEPT ![c.idx].name = c.name]
        /\ Goto(t, Idle) /\ c.pc = "name"
        /\ UNCHANGED <<mounts, files, cwd, lapped>>
        /\ UNCHANGED fds \/ \E x : fds' = [fds EXCEPT ![t][c.fd] = x]
    BY DEF NameIt, At
  <1>2. c.idx \in DOMAIN vnodes /\ Typed
    BY <1>1 DEF Tree, Places, IsVnode
  <1>3. PICK names : vnodes \in Seq(Vnode(names))
    BY <1>2 DEF Typed
  <1> DEFINE more == names \cup {c.name}
  <1>4. vnodes \in Seq(Vnode(more)) /\ c.name \in more
    BY <1>3, VnodesWiden
  <1>5. /\ vnodes' \in Seq(Vnode(more)) /\ Len(vnodes') = Len(vnodes)
        /\ \A v \in 1 .. Len(vnodes) :
            /\ vnodes'[v].fs = vnodes[v].fs /\ vnodes'[v].type = vnodes[v].type
            /\ vnodes'[v].entry = vnodes[v].entry /\ vnodes'[v].mount = vnodes[v].mount
            /\ vnodes'[v].name = IF v = c.idx THEN c.name ELSE vnodes[v].name
    <2> DEFINE r == [vnodes[c.idx] EXCEPT !.name = c.name]
    <2>1. vnodes' = [vnodes EXCEPT ![c.idx] = r]
      BY <1>1
    <2>2. vnodes[c.idx] \in Vnode(more)
      BY <1>2, <1>4, VnodeOf
    <2>3. /\ r \in Vnode(more) /\ r.fs = vnodes[c.idx].fs /\ r.type = vnodes[c.idx].type
          /\ r.name = c.name /\ r.entry = vnodes[c.idx].entry /\ r.mount = vnodes[c.idx].mount
      <3>1. r = [vnodes[c.idx] EXCEPT !.name = c.name]
        OBVIOUS
      <3> HIDE DEF more, r, c
      <3> QED  BY ONLY <3>1, <2>2, <1>4, SetName
    <2> HIDE DEF more, c, r
    <2>5. r \in Vnode(more)
      BY <2>3
    <2>4. /\ vnodes' \in Seq(Vnode(more)) /\ Len(vnodes') = Len(vnodes)
          /\ \A v \in 1 .. Len(vnodes) : vnodes'[v] = IF v = c.idx THEN r ELSE vnodes[v]
      BY ONLY <2>1, <2>5, <1>4, PutVnode
    <2> QED  BY <2>3, <2>4
  <1>6. DOMAIN vnodes = 1 .. Len(vnodes) /\ DOMAIN vnodes' = DOMAIN vnodes
    BY <1>5, <1>4, LenProperties
  <1>7. CallTyped(Idle) /\ Idle.pc = "user"
    BY DEF CallTyped, Idle
  <1>8. /\ call' = [u \in Tasks |-> call'[u]] /\ \A u \in Tasks : CallTyped(call'[u])
        /\ call'[t] = Idle /\ \A u \in Tasks \ {t} : call'[u] = call[u]
    BY <1>1, <1>2, <1>7, TypedGoto, CallStep
  <1>9. fds' = [u \in Tasks |-> [fd \in Fds |-> fds'[u][fd]]]
    <2>1. CASE UNCHANGED fds
      BY <2>1, <1>2 DEF Typed
    <2>2. CASE \E x : fds' = [fds EXCEPT ![t][c.fd] = x]
      <3>1. PICK x : fds' = [fds EXCEPT ![t][c.fd] = x]
        BY <2>2
      <3> HIDE DEF c
      <3> QED  BY <3>1, <1>2, FdStep DEF Puts
    <2> QED  BY <2>1, <2>2, <1>1
  <1>10. Typed'
    <2> HIDE DEF more
    <2> QED  BY <1>1, <1>2, <1>5, <1>8, <1>9 DEF Typed
  <1> QED  BY <1>2, <1>5, <1>6, <1>7, <1>8, <1>10 DEF Kept, SameEntry, SameName, SameMount

\* A mount without a root.
LEMMA AttachStep ==
    ASSUME Tree, NEW t \in Tasks, Attach(t)
    PROVE  /\ Typed' /\ SameTree /\ files' = files /\ lapped \subseteq lapped'
           /\ \A v \in DOMAIN vnodes :
                vnodes'[v].mount = IF v = call[t].dir THEN Len(mounts') ELSE vnodes[v].mount
           /\ call[t].pc = "attach" /\ call'[t].pc = "enter" /\ call'[t].dir = call[t].dir
           /\ \A u \in Tasks \ {t} : call'[u] = call[u]
  <1> DEFINE c == call[t]
             m == Len(mounts')
             c2 == [c EXCEPT !.pc = "enter"]
  <1>1. /\ vnodes' = [vnodes EXCEPT ![c.dir].mount = m]
        /\ mounts' = Append(mounts, 0)
        /\ Goto(t, c2) /\ c.pc = "attach"
        /\ UNCHANGED <<files, cwd, fds>> /\ lapped \subseteq lapped'
    BY DEF Attach, At
  <1>2. Typed /\ mounts \in Seq(Nat) /\ CallTyped(c)
    BY DEF Tree, Typed
  <1>3. mounts' \in Seq(Nat) /\ m \in Nat
    BY <1>1, <1>2, AppendSeq
  <1>4. PICK names : vnodes \in Seq(Vnode(names))
    BY <1>2 DEF Typed
  <1>5. /\ vnodes' \in Seq(Vnode(names)) /\ Len(vnodes') = Len(vnodes)
        /\ \A v \in 1 .. Len(vnodes) :
            /\ vnodes'[v].fs = vnodes[v].fs /\ vnodes'[v].type = vnodes[v].type
            /\ vnodes'[v].entry = vnodes[v].entry /\ vnodes'[v].name = vnodes[v].name
            /\ vnodes'[v].mount = IF v = c.dir THEN m ELSE vnodes[v].mount
    <2> DEFINE r == [vnodes[c.dir] EXCEPT !.mount = m]
    <2>1. vnodes' = [vnodes EXCEPT ![c.dir] = r]
      BY <1>1
    <2>2. CASE c.dir \in DOMAIN vnodes
      <3>1. vnodes[c.dir] \in Vnode(names)
        BY <2>2, <1>4, VnodeOf
      <3>2. /\ r \in Vnode(names) /\ r.fs = vnodes[c.dir].fs /\ r.type = vnodes[c.dir].type
            /\ r.name = vnodes[c.dir].name /\ r.entry = vnodes[c.dir].entry /\ r.mount = m
        <4>1. r = [vnodes[c.dir] EXCEPT !.mount = m]
          OBVIOUS
        <4> HIDE DEF m, r, c
        <4> QED  BY ONLY <4>1, <3>1, <1>3, SetMount
      <3> HIDE DEF c, r
      <3>4. r \in Vnode(names)
        BY <3>2
      <3>3. /\ vnodes' \in Seq(Vnode(names)) /\ Len(vnodes') = Len(vnodes)
            /\ \A v \in 1 .. Len(vnodes) : vnodes'[v] = IF v = c.dir THEN r ELSE vnodes[v]
        BY ONLY <2>1, <3>4, <1>4, PutVnode
      <3> QED  BY <3>2, <3>3
    <2>3. CASE c.dir \notin DOMAIN vnodes
      <3>1. vnodes = [v \in DOMAIN vnodes |-> vnodes[v]]
        BY <1>4, LenProperties
      <3> HIDE DEF c, r
      <3>2. vnodes' = vnodes
        BY <2>1, <2>3, <3>1
      <3>3. \A v \in 1 .. Len(vnodes) : v # c.dir
        BY <2>3, <1>4, LenProperties
      <3> QED  BY <3>2, <3>3, <1>4
    <2> QED  BY <2>2, <2>3
  <1>6. DOMAIN vnodes = 1 .. Len(vnodes) /\ DOMAIN vnodes' = DOMAIN vnodes
    BY <1>5, <1>4, LenProperties
  <1>7. c = [pc |-> "attach", dir |-> c.dir, fs |-> c.fs] /\ c.fs \in Kinds
    BY <1>1, <1>2 DEF CallTyped
  <1>8. c2.pc = "enter" /\ c2.fs = c.fs /\ c2.dir = c.dir
    BY <1>7
  <1>9. CallTyped(c2)
    <2> HIDE DEF c2
    <2> QED  BY <1>7, <1>8 DEF CallTyped
  <1>10. /\ call' = [u \in Tasks |-> call'[u]] /\ \A u \in Tasks : CallTyped(call'[u])
         /\ call'[t] = c2 /\ \A u \in Tasks \ {t} : call'[u] = call[u]
    <2> HIDE DEF c2
    <2> QED  BY <1>1, <1>2, <1>9, TypedGoto, CallStep
  <1>11. Typed'
    BY <1>1, <1>2, <1>3, <1>5, <1>10 DEF Typed
  <1> QED  BY <1>1, <1>5, <1>6, <1>8, <1>10, <1>11 DEF Kept, SameEntry, SameName, SameTree

\* The root of a mount.
LEMMA SetupStep ==
    ASSUME Tree, NEW t \in Tasks, Setup(t)
    PROVE  /\ Typed' /\ files' = files /\ lapped' = lapped /\ call[t].pc = "setup"
           /\ Grows(call[t].fs, "DIR", <<>>) /\ \A v \in DOMAIN vnodes : SameEntry(v)
           /\ \/ call[t].fs = "tmpfs" /\ call'[t].pc = "user"
              \/ call[t].fs = "initramfs" /\ call'[t].pc = "list" /\ call'[t].dir = Fresh
           /\ \A u \in Tasks \ {t} : call'[u] = call[u]
  <1> DEFINE c == call[t]
             x == NewVnode(c.fs, "DIR", <<>>)
             c2 == IF c.fs = "tmpfs" THEN Idle ELSE [pc |-> "list", dir |-> Fresh]
  <1>1. /\ vnodes' = Append(vnodes, x) /\ Goto(t, c2) /\ c.pc = "setup"
        /\ mounts' = [mounts EXCEPT ![c.mount] = Fresh]
        /\ UNCHANGED <<files, cwd, fds, lapped>>
    BY DEF Setup, At, Fresh
  <1>2. Typed /\ CallTyped(c)
    BY DEF Tree, Typed
  <1>3. PICK names : vnodes \in Seq(Vnode(names))
    BY <1>2 DEF Typed
  <1> DEFINE more == names \cup {<<>>}
  <1>4. vnodes \in Seq(Vnode(more))
    BY <1>3, VnodesWiden
  <1>5. c.fs \in Kinds
    BY <1>1, <1>2 DEF CallTyped
  <1>6. x \in Vnode(more) /\ x.fs = c.fs /\ x.type = "DIR" /\ x.name = <<>> /\ x.entry = <<>>
        /\ x.mount = 0
    BY <1>5 DEF NewVnode, Vnode
  <1>7. /\ vnodes' \in Seq(Vnode(more)) /\ DOMAIN vnodes' = 1 .. Len(vnodes) + 1
        /\ DOMAIN vnodes = 1 .. Len(vnodes) /\ Len(vnodes) \in Nat
        /\ \A v \in 1 .. Len(vnodes) : vnodes'[v] = vnodes[v]
        /\ vnodes'[Len(vnodes) + 1] = x
    <2> HIDE DEF more, x
    <2> QED  BY <1>1, <1>4, <1>6, AddVnode
  <1>8. Grows(c.fs, "DIR", <<>>) /\ \A v \in DOMAIN vnodes : SameEntry(v)
    <2> HIDE DEF more, x
    <2> QED  BY <1>6, <1>7 DEF Grows, Fresh, Kept, SameName, SameEntry, SameMount
  <1>9. mounts' \in Seq(Nat)
    <2>1. mounts \in Seq(Nat) /\ Fresh \in Nat /\ Len(mounts) \in Nat
          /\ mounts \in [1 .. Len(mounts) -> Nat]
      BY <1>2, <1>7, LenProperties DEF Typed, Fresh
    <2>2. mounts' \in [1 .. Len(mounts) -> Nat]
      BY <1>1, <2>1
    <2> QED  BY <2>1, <2>2, SeqDef
  <1>10. \/ c.fs = "tmpfs" /\ c2.pc = "user"
         \/ c.fs = "initramfs" /\ c2.pc = "list" /\ c2.dir = Fresh
    BY <1>5 DEF Idle, Kinds
  <1>11. CallTyped(c2)
    <2> HIDE DEF c2
    <2> QED  BY <1>10 DEF CallTyped
  <1>12. /\ call' = [u \in Tasks |-> call'[u]] /\ \A u \in Tasks : CallTyped(call'[u])
         /\ call'[t] = c2 /\ \A u \in Tasks \ {t} : call'[u] = call[u]
    <2> HIDE DEF c2
    <2> QED  BY <1>1, <1>2, <1>11, TypedGoto, CallStep
  <1>13. Typed'
    <2> HIDE DEF more, x, c2
    <2> QED  BY <1>1, <1>2, <1>7, <1>9, <1>12 DEF Typed
  <1> HIDE DEF c2
  <1> QED  BY <1>1, <1>8, <1>10, <1>12, <1>13

\* The list of the archive's files, from its start.
LEMMA ListStartStep ==
    ASSUME Tree, NEW t \in Tasks, ListStart(t)
    PROVE  /\ Typed' /\ vnodes' = vnodes /\ files' = <<>> /\ call[t].pc = "list"
           /\ call'[t] = [pc |-> "scan", dir |-> call[t].dir, idx |-> 1]
           /\ \A u \in Tasks \ {t} : call'[u] = call[u]
           /\ lapped \subseteq lapped'
           /\ Listing # {} => \A u \in Listing \cup {t} : call[u].dir \in lapped'
  <1> DEFINE c2 == [pc |-> "scan", dir |-> call[t].dir, idx |-> 1]
  <1>1. /\ files' = <<>> /\ Goto(t, c2) /\ call[t].pc = "list"
        /\ UNCHANGED <<vnodes, mounts, cwd, fds>>
        /\ lapped' = IF Listing = {} THEN lapped
                     ELSE lapped \cup {call[u].dir : u \in Listing \cup {t}}
    BY DEF ListStart, At
  <1>2. Typed
    BY DEF Tree
  <1>3. CallTyped(c2)
    BY DEF CallTyped
  <1>4. /\ call' = [u \in Tasks |-> call'[u]] /\ \A u \in Tasks : CallTyped(call'[u])
        /\ call'[t] = c2 /\ \A u \in Tasks \ {t} : call'[u] = call[u]
    <2> HIDE DEF c2
    <2> QED  BY <1>1, <1>2, <1>3, TypedGoto, CallStep
  <1>5. Typed'
    BY <1>1, <1>2, <1>4, EmptySeq DEF Typed
  <1> QED  BY <1>1, <1>4, <1>5

\* One more file of the archive, or the end of the list.
LEMMA ListNextStep ==
    ASSUME Tree, NEW t \in Tasks, ListNext(t)
    PROVE  /\ Typed' /\ vnodes' = vnodes /\ lapped' = lapped /\ call[t].pc = "scan"
           /\ call[t].idx \in Nat /\ call[t].idx > 0
           /\ \/ /\ call[t].idx <= Len(Archive)
                 /\ files' = Append(files, Archive[call[t].idx])
                 /\ call'[t] = [pc |-> "scan", dir |-> call[t].dir, idx |-> call[t].idx + 1]
              \/ /\ call[t].idx > Len(Archive) /\ files' = files
                 /\ call'[t] = [pc |-> "fill", dir |-> call[t].dir, idx |-> 1]
           /\ \A u \in Tasks \ {t} : call'[u] = call[u]
  <1> DEFINE c == call[t]
  <1>1. /\ c.pc = "scan" /\ UNCHANGED <<vnodes, mounts, cwd, fds, lapped>>
        /\ \/ /\ c.idx <= Len(Archive)
              /\ files' = Append(files, Archive[c.idx])
              /\ Goto(t, [c EXCEPT !.idx = c.idx + 1])
           \/ /\ c.idx > Len(Archive)
              /\ Goto(t, [c EXCEPT !.pc = "fill", !.idx = 1])
              /\ files' = files
    BY DEF ListNext, At
  <1>2. Typed /\ CallTyped(c)
    BY DEF Tree, Typed
  <1>3. c = [pc |-> "scan", dir |-> c.dir, idx |-> c.idx] /\ c.idx \in Nat /\ c.idx > 0
    BY <1>1, <1>2 DEF CallTyped
  <1> DEFINE c2 == [pc |-> "scan", dir |-> c.dir, idx |-> c.idx + 1]
             c3 == [pc |-> "fill", dir |-> c.dir, idx |-> 1]
  <1>4. [c EXCEPT !.idx = c.idx + 1] = c2 /\ [c EXCEPT !.pc = "fill", !.idx = 1] = c3
    <2>1. [c EXCEPT !.idx = c.idx + 1] = c2
      BY <1>3
    <2> DEFINE b == [c EXCEPT !.pc = "fill"]
    <2>2. b = [pc |-> "fill", dir |-> c.dir, idx |-> c.idx]
      BY <1>3
    <2>3. [b EXCEPT !.idx = 1] = c3
      <3> HIDE DEF b
      <3> QED  BY <2>2
    <2> QED  BY <2>1, <2>3
  <1>5. CallTyped(c2) /\ CallTyped(c3)
    BY <1>3 DEF CallTyped
  <1>6. CASE c.idx <= Len(Archive) /\ files' = Append(files, Archive[c.idx]) /\ Goto(t, c2)
    <2>1. /\ call' = [u \in Tasks |-> call'[u]] /\ \A u \in Tasks : CallTyped(call'[u])
          /\ call'[t] = c2 /\ \A u \in Tasks \ {t} : call'[u] = call[u]
      <3> HIDE DEF c2
      <3> QED  BY <1>6, <1>2, <1>5, TypedGoto, CallStep
    <2>2. files' \in Seq(ToSet(Archive))
      <3>1. c.idx \in 1 .. Len(Archive) /\ Archive[c.idx] \in ToSet(Archive)
        BY <1>6, <1>3, VnodeFields DEF ToSet
      <3> QED  BY <3>1, <1>6, <1>2, AppendSeq DEF Typed
    <2>3. Typed'
      BY <2>1, <2>2, <1>1, <1>2 DEF Typed
    <2> QED  BY <2>1, <2>3, <1>1, <1>3, <1>6
  <1>7. CASE c.idx > Len(Archive) /\ files' = files /\ Goto(t, c3)
    <2>1. /\ call' = [u \in Tasks |-> call'[u]] /\ \A u \in Tasks : CallTyped(call'[u])
          /\ call'[t] = c3 /\ \A u \in Tasks \ {t} : call'[u] = call[u]
      <3> HIDE DEF c3
      <3> QED  BY <1>7, <1>2, <1>5, TypedGoto, CallStep
    <2>3. Typed'
      BY <2>1, <1>1, <1>2, <1>7 DEF Typed
    <2> QED  BY <2>1, <2>3, <1>1, <1>3, <1>7
  <1> QED  BY <1>1, <1>4, <1>6, <1>7

\* One more entry of the archive's root, or the end of the mount.
LEMMA FillStep ==
    ASSUME Tree, NEW t \in Tasks, Fill(t)
    PROVE  /\ Typed' /\ files' = files /\ lapped' = lapped /\ call[t].pc = "fill"
           /\ call[t].idx \in Nat /\ call[t].idx > 0
           /\ \/ call[t].idx > Len(files) /\ call'[t].pc = "user" /\ vnodes' = vnodes
              \/ /\ call[t].idx <= Len(files) /\ call[t].idx > MAX_DIR_ENTRY
                 /\ call'[t].pc = "wild" /\ vnodes' = vnodes
              \/ /\ call[t].idx <= Len(files) /\ call[t].idx <= MAX_DIR_ENTRY
                 /\ Grows("initramfs", "FILE", files[call[t].idx])
                 /\ \A e \in DOMAIN vnodes : e # call[t].dir => SameEntry(e)
                 /\ vnodes'[call[t].dir].entry = Append(vnodes[call[t].dir].entry, Fresh)
                 /\ call'[t] = [pc |-> "fill", dir |-> call[t].dir, idx |-> call[t].idx + 1]
           /\ \A u \in Tasks \ {t} : call'[u] = call[u]
  <1> DEFINE c == call[t]
             d == c.dir
             e == Append(vnodes[d].entry, Fresh)
             s == [vnodes EXCEPT ![d].entry = e]
             x == NewVnode("initramfs", "FILE", files[c.idx])
             wild == [pc |-> "wild"]
             c2 == [pc |-> "fill", dir |-> c.dir, idx |-> c.idx + 1]
  <1>1. /\ c.pc = "fill" /\ UNCHANGED <<mounts, files, cwd, fds, lapped>>
        /\ \/ c.idx > Len(files) /\ Goto(t, Idle) /\ vnodes' = vnodes
           \/ /\ c.idx <= Len(files) /\ c.idx > MAX_DIR_ENTRY
              /\ Goto(t, wild) /\ vnodes' = vnodes
           \/ /\ c.idx <= Len(files) /\ c.idx <= MAX_DIR_ENTRY /\ vnodes' = Append(s, x)
              /\ Goto(t, [c EXCEPT !.idx = c.idx + 1])
    BY DEF Fill, At, FileCount, GoWild, Fresh
  <1>2. Typed /\ CallTyped(c) /\ d \in DOMAIN vnodes
    BY <1>1 DEF Tree, Typed, Places, Mounts, IsVnode
  <1>3. c = [pc |-> "fill", dir |-> c.dir, idx |-> c.idx] /\ c.idx \in Nat /\ c.idx > 0
    BY <1>1, <1>2 DEF CallTyped
  <1>4. [c EXCEPT !.idx = c.idx + 1] = c2
    BY <1>3
  <1>5. CallTyped(c2) /\ CallTyped(wild) /\ CallTyped(Idle) /\ Idle.pc = "user"
    BY <1>3 DEF CallTyped, Idle
  <1>6. ASSUME NEW cc, Goto(t, cc), CallTyped(cc)
        PROVE  /\ call' = [u \in Tasks |-> call'[u]] /\ \A u \in Tasks : CallTyped(call'[u])
               /\ call'[t] = cc /\ \A u \in Tasks \ {t} : call'[u] = call[u]
    BY <1>2, <1>6, TypedGoto, CallStep
  <1>7. CASE c.idx > Len(files) /\ Goto(t, Idle) /\ vnodes' = vnodes
    BY <1>1, <1>2, <1>3, <1>5, <1>6, <1>7 DEF Typed
  <1>8. CASE /\ c.idx <= Len(files) /\ c.idx > MAX_DIR_ENTRY
             /\ Goto(t, wild) /\ vnodes' = vnodes
    BY <1>1, <1>2, <1>3, <1>5, <1>6, <1>8 DEF Typed
  <1>9. CASE c.idx <= Len(files) /\ c.idx <= MAX_DIR_ENTRY /\ vnodes' = Append(s, x) /\ Goto(t, c2)
    <2>1. PICK names : vnodes \in Seq(Vnode(names))
      BY <1>2 DEF Typed
    <2> DEFINE more == names \cup {files[c.idx]}
    <2>2. vnodes \in Seq(Vnode(more))
      BY <2>1, VnodesWiden
    <2>3. e \in Seq(Nat) /\ Fresh \in Nat
      BY <1>2, VnodeFields, AppendSeq DEF Fresh
    <2>4. /\ s \in Seq(Vnode(more)) /\ Len(s) = Len(vnodes)
          /\ \A v \in 1 .. Len(vnodes) :
              /\ s[v].mount = vnodes[v].mount
              /\ s[v].fs = vnodes[v].fs /\ s[v].type = vnodes[v].type /\ s[v].name = vnodes[v].name
              /\ s[v].entry = IF v = d THEN e ELSE vnodes[v].entry
      <3> DEFINE r == [vnodes[d] EXCEPT !.entry = e]
      <3>1. s = [vnodes EXCEPT ![d] = r]
        OBVIOUS
      <3>2. vnodes[d] \in Vnode(more)
        BY <1>2, <2>2, VnodeOf
      <3>3. /\ r \in Vnode(more) /\ r.fs = vnodes[d].fs /\ r.type = vnodes[d].type
            /\ r.name = vnodes[d].name /\ r.entry = e /\ r.mount = vnodes[d].mount
        <4>1. r = [vnodes[d] EXCEPT !.entry = e]
          OBVIOUS
        <4> HIDE DEF more, e, d, r
        <4> QED  BY ONLY <4>1, <3>2, <2>3, SetEntry
      <3> HIDE DEF more, d, e, r, s
      <3>5. r \in Vnode(more)
        BY <3>3
      <3>4. LET w == [vnodes EXCEPT ![d] = r] IN
            /\ w \in Seq(Vnode(more)) /\ Len(w) = Len(vnodes)
            /\ \A v \in 1 .. Len(vnodes) : w[v] = IF v = d THEN r ELSE vnodes[v]
        BY ONLY <3>5, <2>2, PutVnode
      <3> QED  BY <3>1, <3>3, <3>4
    <2>5. /\ x \in Vnode(more) /\ x.fs = "initramfs" /\ x.type = "FILE"
          /\ x.name = files[c.idx] /\ x.entry = <<>> /\ x.mount = 0
      BY DEF Vnode, NewVnode, Kinds
    <2>6. /\ vnodes' \in Seq(Vnode(more)) /\ DOMAIN vnodes' = 1 .. Len(vnodes) + 1
          /\ \A v \in 1 .. Len(vnodes) : vnodes'[v] = s[v]
          /\ vnodes'[Len(vnodes) + 1] = x
      <3> HIDE DEF more, s, x
      <3> QED  BY ONLY <1>9, <2>4, <2>5, AddVnode
    <2>7. DOMAIN vnodes = 1 .. Len(vnodes) /\ Len(vnodes) \in Nat
      BY VnodeFields
    <2>8. Grows("initramfs", "FILE", files[c.idx])
      <3> HIDE DEF s, x, more
      <3> QED  BY <2>4, <2>5, <2>6, <2>7 DEF Grows, Fresh, Kept, SameName, SameMount
    <2>9. \A v \in DOMAIN vnodes : vnodes'[v].entry = IF v = d THEN e ELSE vnodes[v].entry
      <3> HIDE DEF e, x, more
      <3> QED  BY <2>4, <2>6, <2>7
    <2>10. /\ call' = [u \in Tasks |-> call'[u]] /\ \A u \in Tasks : CallTyped(call'[u])
           /\ call'[t] = c2 /\ \A u \in Tasks \ {t} : call'[u] = call[u]
      <3> HIDE DEF c2
      <3> QED  BY <1>5, <1>6, <1>9
    <2>11. Typed'
      <3> HIDE DEF more, x, s
      <3> QED  BY <1>1, <1>2, <2>6, <2>10 DEF Typed
    <2> HIDE DEF x, s, e
    <2> QED  BY <1>1, <1>2, <1>3, <1>9, <2>8, <2>9, <2>10, <2>11 DEF SameEntry, e
  <1> QED  BY <1>1, <1>4, <1>7, <1>8, <1>9

\* Steps that leave the tree and the list of the archive as they are.
Elsewhere(c) == c.pc \notin {"store", "name", "list", "scan", "fill"}

Quiet ==
    /\ SameTree /\ files' = files /\ lapped \subseteq lapped'
    /\ \A u \in Tasks : call'[u] = call[u] \/ (Elsewhere(call[u]) /\ Elsewhere(call'[u]))

\* A call that is about to add to a directory.
Joins(t) ==
    LET c == call'[t] IN
    /\ vnodes' = vnodes /\ files' = files /\ Elsewhere(call[t])
    /\ c.pc = "store" /\ IsVnode(c.dir) /\ IsDir(c.dir) /\ ~ Full(c.dir) /\ c.idx = Slot(c.dir)
    /\ c.type = "FILE" => Named(c.dir, c.name) = {}
    /\ lapped' = IF Adding(c.dir) = {} THEN lapped ELSE lapped \cup {c.dir}
    /\ \A u \in Tasks \ {t} : call'[u] = call[u]

\* One call goes on without a look at the tree.
LEMMA QuietGoto ==
    ASSUME Typed, NEW t \in Tasks, NEW c, Goto(t, c), CallTyped(c),
           Elsewhere(call[t]), Elsewhere(c),
           UNCHANGED <<vnodes, mounts, files, lapped>>,
           fds' = [u \in Tasks |-> [fd \in Fds |-> fds'[u][fd]]],
           cwd' = [u \in Tasks |-> cwd'[u]]
    PROVE  Typed' /\ Quiet
  <1>1. /\ call' = [u \in Tasks |-> call'[u]] /\ \A u \in Tasks : CallTyped(call'[u])
        /\ call'[t] = c /\ \A u \in Tasks \ {t} : call'[u] = call[u]
    BY TypedGoto, CallStep
  <1>2. Typed'
    BY <1>1 DEF Typed
  <1> QED  BY <1>1, <1>2 DEF Quiet, SameTree, Kept, SameEntry, SameName

LEMMA QuietOpened ==
    ASSUME Typed, NEW t \in Tasks, NEW path, NEW fd, NEW v, NEW how, Opened(t, path, fd, v, how),
           Elsewhere(call[t]), UNCHANGED <<vnodes, mounts, files, cwd, lapped>>
    PROVE  Typed' /\ Quiet
  <1>1. Goto(t, Idle) /\ CallTyped(Idle) /\ Elsewhere(Idle)
    BY DEF Opened, CallTyped, Elsewhere, Idle
  <1>2. fds' = [u \in Tasks |-> [k \in Fds |-> fds'[u][k]]]
    BY FdStep DEF Opened, Puts
  <1>3. cwd' = [u \in Tasks |-> cwd'[u]]
    BY DEF Typed
  <1> QED  BY <1>1, <1>2, <1>3, QuietGoto

LEMMA OpenStep ==
    ASSUME Typed, NEW t \in Tasks, NEW p, NEW creat, Open(t, p, creat)
    PROVE  Typed' /\ Quiet
  <1>1. Elsewhere(call[t])
    BY DEF Open, At, Elsewhere
  <1>2. UNCHANGED <<vnodes, mounts, files, cwd, lapped>>
    BY DEF Open
  <1>3. /\ fds = [u \in Tasks |-> [fd \in Fds |-> fds[u][fd]]] /\ cwd' = [u \in Tasks |-> cwd'[u]]
    BY <1>2 DEF Typed
  <1>4. \/ \E path, fd, v, how : Opened(t, path, fd, v, how)
        \/ /\ UNCHANGED fds
           /\ \E path, fd : Goto(t, [pc |-> "parent", path |-> path, fd |-> fd])
        \/ /\ UNCHANGED fds
           /\ Goto(t, [pc |-> "wild"])
    BY DEF Open, GoWild
  <1>5. CASE \E path, fd, v, how : Opened(t, path, fd, v, how)
    BY <1>1, <1>2, <1>5, QuietOpened
  <1>6. CASE UNCHANGED fds /\ \E path, fd : Goto(t, [pc |-> "parent", path |-> path, fd |-> fd])
    <2>1. PICK path, fd : Goto(t, [pc |-> "parent", path |-> path, fd |-> fd])
      BY <1>6
    <2> DEFINE c == [pc |-> "parent", path |-> path, fd |-> fd]
    <2>2. CallTyped(c) /\ Elsewhere(c)
      BY DEF CallTyped, Elsewhere
    <2>3. Goto(t, c)
      BY <2>1
    <2> HIDE DEF c
    <2> QED  BY <2>2, <2>3, <1>1, <1>2, <1>3, <1>6, QuietGoto
  <1>7. CASE UNCHANGED fds /\ Goto(t, [pc |-> "wild"])
    <2> DEFINE c == [pc |-> "wild"]
    <2>1. CallTyped(c) /\ Elsewhere(c) /\ Goto(t, c)
      BY <1>7 DEF CallTyped, Elsewhere
    <2> HIDE DEF c
    <2> QED  BY <2>1, <1>1, <1>2, <1>3, <1>7, QuietGoto
  <1> QED  BY <1>4, <1>5, <1>6, <1>7

\* A file or a directory is about to be added.
LEMMA AddToStep ==
    ASSUME Typed, NEW t \in Tasks, NEW d, NEW name, NEW type \in {"DIR", "FILE"}, NEW path, NEW fd,
           AddTo(t, d, name, type, path, fd), Elsewhere(call[t]),
           IsVnode(d), IsDir(d), ~ Full(d), type = "FILE" => Named(d, name) = {},
           UNCHANGED <<vnodes, mounts, files, fds, cwd>>
    PROVE  Typed' /\ Joins(t)
  <1> DEFINE c == [pc |-> "store", dir |-> d, idx |-> Slot(d), name |-> name,
                   type |-> type, path |-> path, fd |-> fd, mounts |-> Len(mounts)]
  <1>1. /\ Goto(t, c)
        /\ lapped' = IF Adding(d) = {} THEN lapped ELSE lapped \cup {d}
    BY DEF AddTo
  <1>2. /\ c.pc = "store" /\ c.dir = d /\ c.idx = Slot(d) /\ c.type = type /\ c.name = name
        /\ CallTyped(c)
    BY DEF CallTyped
  <1>3. /\ call' = [u \in Tasks |-> call'[u]] /\ \A u \in Tasks : CallTyped(call'[u])
        /\ call'[t] = c /\ \A u \in Tasks \ {t} : call'[u] = call[u]
    <2> HIDE DEF c
    <2> QED  BY <1>1, <1>2, TypedGoto, CallStep
  <1>4. Typed'
    BY <1>3 DEF Typed
  <1> HIDE DEF c
  <1> QED  BY <1>1, <1>2, <1>3, <1>4 DEF Joins

LEMMA CreateInStep ==
    ASSUME Typed, NEW t \in Tasks, CreateIn(t)
    PROVE  Typed' /\ (Quiet \/ Joins(t))
  <1>1. Elsewhere(call[t])
    BY DEF CreateIn, At, Elsewhere
  <1>2. UNCHANGED <<vnodes, mounts, files, cwd>>
    BY DEF CreateIn
  <1>3. /\ fds = [u \in Tasks |-> [fd \in Fds |-> fds[u][fd]]] /\ cwd' = [u \in Tasks |-> cwd'[u]]
    BY <1>2 DEF Typed
  <1>4. \/ UNCHANGED <<fds, lapped>> /\ Goto(t, Idle)
        \/ UNCHANGED <<fds, lapped>> /\ Goto(t, [pc |-> "wild"])
        \/ UNCHANGED lapped /\ \E path, fd, v, how : Opened(t, path, fd, v, how)
        \/ UNCHANGED fds /\ \E d, name, path, fd :
                IsVnode(d) /\ MayCreate(d, name) /\ AddTo(t, d, name, "FILE", path, fd)
    BY DEF CreateIn, GoWild
  <1>5. CASE UNCHANGED <<fds, lapped>> /\ Goto(t, Idle)
    <2>1. CallTyped(Idle) /\ Elsewhere(Idle)
      BY DEF CallTyped, Elsewhere, Idle
    <2> QED  BY <2>1, <1>1, <1>2, <1>3, <1>5, QuietGoto
  <1>6. CASE UNCHANGED <<fds, lapped>> /\ Goto(t, [pc |-> "wild"])
    <2> DEFINE c == [pc |-> "wild"]
    <2>1. CallTyped(c) /\ Elsewhere(c) /\ Goto(t, c)
      BY <1>6 DEF CallTyped, Elsewhere
    <2> HIDE DEF c
    <2> QED  BY <2>1, <1>1, <1>2, <1>3, <1>6, QuietGoto
  <1>7. CASE UNCHANGED lapped /\ \E path, fd, v, how : Opened(t, path, fd, v, how)
    BY <1>1, <1>2, <1>7, QuietOpened
  <1>8. CASE UNCHANGED fds /\ \E d, name, path, fd :
                IsVnode(d) /\ MayCreate(d, name) /\ AddTo(t, d, name, "FILE", path, fd)
    BY <1>1, <1>2, <1>8, AddToStep DEF MayCreate
  <1> QED  BY <1>4, <1>5, <1>6, <1>7, <1>8

LEMMA MkdirStep ==
    ASSUME Typed, NEW t \in Tasks, NEW p, Mkdir(t, p)
    PROVE  Typed' /\ (Quiet \/ Joins(t))
  <1>1. Elsewhere(call[t])
    BY DEF Mkdir, At, Elsewhere
  <1>2. UNCHANGED <<vnodes, mounts, files, fds, cwd>>
    BY DEF Mkdir
  <1>3. /\ fds' = [u \in Tasks |-> [fd \in Fds |-> fds'[u][fd]]] /\ cwd' = [u \in Tasks |-> cwd'[u]]
    BY <1>2 DEF Typed
  <1>4. \/ UNCHANGED lapped /\ Goto(t, [pc |-> "wild"])
        \/ \E d, name, path, fd : /\ IsVnode(d) /\ IsDir(d) /\ ~ Full(d)
                                  /\ AddTo(t, d, name, "DIR", path, fd)
    BY DEF Mkdir, GoWild
  <1>5. CASE UNCHANGED lapped /\ Goto(t, [pc |-> "wild"])
    <2> DEFINE c == [pc |-> "wild"]
    <2>1. CallTyped(c) /\ Elsewhere(c) /\ Goto(t, c)
      BY <1>5 DEF CallTyped, Elsewhere
    <2> HIDE DEF c
    <2> QED  BY <2>1, <1>1, <1>2, <1>3, <1>5, QuietGoto
  <1>6. CASE \E d, name, path, fd : /\ IsVnode(d) /\ IsDir(d) /\ ~ Full(d)
                                       /\ AddTo(t, d, name, "DIR", path, fd)
    BY <1>1, <1>2, <1>6, AddToStep
  <1> QED  BY <1>4, <1>5, <1>6

LEMMA MountStep ==
    ASSUME Typed, NEW t \in Tasks, NEW p, NEW fs \in Kinds, Mount(t, p, fs)
    PROVE  Typed' /\ Quiet
  <1>1. Elsewhere(call[t]) /\ UNCHANGED <<vnodes, mounts, files, fds, cwd, lapped>>
    BY DEF Mount, At, Elsewhere
  <1>2. /\ fds' = [u \in Tasks |-> [fd \in Fds |-> fds'[u][fd]]] /\ cwd' = [u \in Tasks |-> cwd'[u]]
    BY <1>1 DEF Typed
  <1>3. PICK v : \/ Goto(t, [pc |-> "attach", dir |-> v, fs |-> fs])
                 \/ Goto(t, [pc |-> "wild"])
    BY DEF Mount, GoWild
  <1> DEFINE c == [pc |-> "attach", dir |-> v, fs |-> fs]
             w == [pc |-> "wild"]
  <1>4. CallTyped(c) /\ Elsewhere(c) /\ CallTyped(w) /\ Elsewhere(w)
    BY DEF CallTyped, Elsewhere
  <1>5. Goto(t, c) \/ Goto(t, w)
    BY <1>3
  <1> HIDE DEF c, w
  <1> QED  BY <1>1, <1>2, <1>4, <1>5, QuietGoto

LEMMA EnterSetupStep ==
    ASSUME Typed, NEW t \in Tasks, EnterSetup(t)
    PROVE  Typed' /\ Quiet
  <1> DEFINE c == [pc |-> "setup", mount |-> vnodes[call[t].dir].mount, fs |-> call[t].fs]
  <1>1. /\ call[t].pc = "enter" /\ UNCHANGED <<vnodes, mounts, files, fds, cwd, lapped>>
        /\ Goto(t, c)
    BY DEF EnterSetup, At
  <1>2. /\ fds' = [u \in Tasks |-> [fd \in Fds |-> fds'[u][fd]]] /\ cwd' = [u \in Tasks |-> cwd'[u]]
    BY <1>1 DEF Typed
  <1>3. CallTyped(c) /\ Elsewhere(c) /\ Elsewhere(call[t])
    BY <1>1 DEF Typed, CallTyped, Elsewhere
  <1> HIDE DEF c
  <1> QED  BY <1>1, <1>2, <1>3, QuietGoto

LEMMA ChdirStep ==
    ASSUME Typed, NEW t \in Tasks, NEW p, Chdir(t, p)
    PROVE  Typed' /\ Quiet
  <1>1. UNCHANGED <<vnodes, mounts, files, fds, call, lapped>>
    BY DEF Chdir
  <1>2. PICK q : cwd' = [cwd EXCEPT ![t] = q]
    BY DEF Chdir
  <1>3. cwd' = [u \in Tasks |-> cwd'[u]]
    BY <1>2 DEF Typed
  <1> QED  BY <1>1, <1>3 DEF Typed, Quiet, SameTree, Kept, SameEntry, SameName

LEMMA CloseStep ==
    ASSUME Typed, NEW t \in Tasks, NEW fd, Close(t, fd)
    PROVE  Typed' /\ Quiet
  <1>1. /\ UNCHANGED <<vnodes, mounts, files, cwd, call, lapped>>
        /\ fds' = [fds EXCEPT ![t][fd] = NULL]
    BY DEF Close
  <1>2. fds' = [u \in Tasks |-> [k \in Fds |-> fds'[u][k]]]
    BY <1>1, FdStep DEF Puts
  <1> QED  BY <1>1, <1>2 DEF Typed, Quiet, SameTree, Kept, SameEntry, SameName

LEMMA ForkStep ==
    ASSUME Typed, NEW t \in Tasks, NEW child \in Tasks, Fork(t, child)
    PROVE  /\ Typed' /\ Quiet
           /\ t # child /\ call'[t] = [pc |-> "fork", child |-> child] /\ call'[child] = Idle
           /\ \A u \in Tasks \ {t, child} : call'[u] = call[u]
  <1> DEFINE c == [pc |-> "fork", child |-> child]
  <1>1. /\ call[t].pc = "user" /\ call[child].pc = "unborn"
        /\ UNCHANGED <<vnodes, mounts, files, fds, cwd, lapped>>
        /\ call' = [call EXCEPT ![t] = c, ![child] = Idle]
    BY DEF Fork, At
  <1>2. /\ t # child /\ call' = [u \in Tasks |-> call'[u]]
        /\ call'[t] = c /\ call'[child] = Idle
        /\ \A u \in Tasks \ {t, child} : call'[u] = call[u]
    <2> HIDE DEF c
    <2> QED  BY <1>1 DEF Typed
  <1>3. CallTyped(c) /\ CallTyped(Idle) /\ Elsewhere(c) /\ Elsewhere(Idle)
        /\ Elsewhere(call[t]) /\ Elsewhere(call[child])
    BY <1>1 DEF CallTyped, Elsewhere, Idle
  <1> HIDE DEF c
  <1>4. \A u \in Tasks : CallTyped(call'[u])
    BY <1>2, <1>3 DEF Typed
  <1>5. Typed'
    BY <1>1, <1>2, <1>4 DEF Typed
  <1>6. Quiet
    BY <1>1, <1>2, <1>3 DEF Quiet, SameTree, Kept, SameEntry, SameName
  <1> QED  BY <1>2, <1>5, <1>6 DEF c

LEMMA ForkCwdStep ==
    ASSUME Typed, NEW t \in Tasks, ForkCwd(t)
    PROVE  /\ Typed' /\ Quiet
           /\ call'[t] = [pc |-> "copy", child |-> call[t].child, fd |-> 1]
           /\ \A u \in Tasks \ {t} : call'[u] = call[u]
           /\ \A u \in Tasks : cwd'[u] = IF u = call[t].child THEN cwd[t] ELSE cwd[u]
  <1> DEFINE c == [pc |-> "copy", child |-> call[t].child, fd |-> 1]
  <1>1. /\ call[t].pc = "fork" /\ UNCHANGED <<vnodes, mounts, files, fds, lapped>>
        /\ Goto(t, c) /\ cwd' = [cwd EXCEPT ![call[t].child] = cwd[t]]
    BY DEF ForkCwd, At
  <1>2. fds' = [u \in Tasks |-> [fd \in Fds |-> fds'[u][fd]]]
    BY <1>1 DEF Typed
  <1>3. /\ cwd' = [u \in Tasks |-> cwd'[u]]
        /\ \A u \in Tasks : cwd'[u] = IF u = call[t].child THEN cwd[t] ELSE cwd[u]
    BY <1>1 DEF Typed
  <1>4. CallTyped(c) /\ Elsewhere(c) /\ Elsewhere(call[t])
    BY <1>1 DEF CallTyped, Elsewhere
  <1> HIDE DEF c
  <1>5. Typed' /\ Quiet
    BY <1>1, <1>2, <1>3, <1>4, QuietGoto
  <1>6. call'[t] = c /\ \A u \in Tasks \ {t} : call'[u] = call[u]
    BY <1>1, CallStep
  <1> QED  BY <1>3, <1>5, <1>6 DEF c

LEMMA ForkFileStep ==
    ASSUME Typed, NEW t \in Tasks, ForkFile(t)
    PROVE  /\ Typed' /\ Quiet
           /\ \/ call[t].fd > LastFd /\ fds' = fds /\ call'[t].pc = "user"
              \/ /\ call[t].fd <= LastFd
                 /\ fds' = [fds EXCEPT ![call[t].child][call[t].fd] =
                               IF fds[t][call[t].fd] # NULL THEN fds[t][call[t].fd] ELSE @]
                 /\ call'[t] = [pc |-> "copy", child |-> call[t].child, fd |-> call[t].fd + 1]
           /\ \A u \in Tasks \ {t} : call'[u] = call[u]
  <1> DEFINE c == call[t]
             c2 == [pc |-> "copy", child |-> c.child, fd |-> c.fd + 1]
             x == IF fds[t][c.fd] # NULL THEN fds[t][c.fd] ELSE fds[c.child][c.fd]
  <1>1. /\ c.pc = "copy" /\ UNCHANGED <<vnodes, mounts, files, cwd, lapped>>
        /\ \/ c.fd > LastFd /\ fds' = fds /\ Goto(t, Idle)
           \/ /\ c.fd <= LastFd /\ Goto(t, [c EXCEPT !.fd = c.fd + 1])
              /\ fds' = [fds EXCEPT ![call[t].child][call[t].fd] =
                               IF fds[t][call[t].fd] # NULL THEN fds[t][call[t].fd] ELSE @]
    BY DEF ForkFile, At
  <1>2. c = [pc |-> "copy", child |-> c.child, fd |-> c.fd] /\ c.fd \in Nat
    BY <1>1 DEF Typed, CallTyped
  <1>3. [c EXCEPT !.fd = c.fd + 1] = c2
    BY <1>2
  <1>4. /\ CallTyped(c2) /\ Elsewhere(c2) /\ Elsewhere(c) /\ CallTyped(Idle) /\ Elsewhere(Idle)
        /\ Idle.pc = "user"
    BY <1>1, <1>2 DEF CallTyped, Elsewhere, Idle
  <1>5. cwd' = [u \in Tasks |-> cwd'[u]] /\ fds = [u \in Tasks |-> [fd \in Fds |-> fds[u][fd]]]
    BY <1>1 DEF Typed
  <1>6. fds' = [u \in Tasks |-> [fd \in Fds |-> fds'[u][fd]]]
    <2>1. CASE fds' = [fds EXCEPT ![call[t].child][call[t].fd] =
                               IF fds[t][call[t].fd] # NULL THEN fds[t][call[t].fd] ELSE @]
      <3> HIDE DEF Fds
      <3>1. DOMAIN fds = Tasks /\ \A u \in Tasks : DOMAIN fds[u] = Fds
        BY <1>5
      <3>2. \/ fds' = fds
            \/ call[t].child \in Tasks /\ fds' = [fds EXCEPT ![call[t].child][call[t].fd] = x]
        <4>1. CASE c.child \in Tasks
          BY <4>1, <2>1
        <4>2. CASE c.child \notin Tasks
          BY <4>2, <2>1, <3>1, <1>5
        <4> QED  BY <4>1, <4>2
      <3> HIDE DEF x
      <3> QED  BY <3>2, <1>5, FdStep DEF Fds, Puts
    <2> QED  BY <2>1, <1>1, <1>5
  <1>7. CASE c.fd > LastFd /\ fds' = fds /\ Goto(t, Idle)
    BY <1>1, <1>4, <1>5, <1>6, <1>7, QuietGoto, CallStep
  <1>8. CASE /\ c.fd <= LastFd /\ Goto(t, c2)
             /\ fds' = [fds EXCEPT ![call[t].child][call[t].fd] =
                               IF fds[t][call[t].fd] # NULL THEN fds[t][call[t].fd] ELSE @]
    <2>1. Typed' /\ Quiet
      <3> HIDE DEF c2
      <3> QED  BY <1>1, <1>4, <1>5, <1>6, <1>8, QuietGoto
    <2>2. call'[t] = c2 /\ \A u \in Tasks \ {t} : call'[u] = call[u]
      <3> HIDE DEF c2
      <3> QED  BY <1>8, CallStep
    <2> QED  BY <2>1, <2>2, <1>8
  <1> QED  BY <1>1, <1>3, <1>7, <1>8

\* Every step leaves the tree as it is, or is one of those that do not.
Changes(t) ==
    Joins(t) \/ Store(t) \/ NameIt(t) \/ Setup(t) \/ ListStart(t) \/ ListNext(t) \/ Fill(t)

LEMMA Moves ==
    ASSUME Tree, [Next]_vars
    PROVE  Typed' /\ (Quiet \/ \E t \in Tasks : Changes(t))
  <1>1. Typed
    BY DEF Tree
  <1>2. CASE UNCHANGED vars
    BY <1>1, <1>2 DEF vars, Typed, Quiet, SameTree, Kept, SameEntry, SameName
  <1>3. ASSUME NEW t \in Tasks, Call(t) PROVE Typed' /\ (Quiet \/ Changes(t))
    <2>1. ASSUME NEW p, NEW fs \in Filesystems, Mount(t, p, fs) PROVE Typed' /\ Quiet
      <3>1. fs \in Kinds
        BY VfsAssumption DEF Kinds
      <3> QED  BY <3>1, <2>1, <1>1, MountStep
    <2> QED  BY <1>1, <1>3, <2>1, OpenStep, MkdirStep, ChdirStep, CloseStep, ForkStep
             DEF Call, Changes
  <1>4. ASSUME NEW t \in Tasks, Step(t) PROVE Typed' /\ (Quiet \/ Changes(t))
    <2>1. CASE Attach(t)
      <3>1. /\ Typed' /\ SameTree /\ files' = files /\ lapped \subseteq lapped'
            /\ call[t].pc = "attach" /\ call'[t].pc = "enter"
            /\ \A u \in Tasks \ {t} : call'[u] = call[u]
        BY <2>1, AttachStep
      <3> QED  BY <3>1 DEF Quiet, Elsewhere
    <2>2. CASE CreateIn(t)
      BY <1>1, <2>2, CreateInStep DEF Changes
    <2>3. CASE EnterSetup(t) \/ ForkCwd(t) \/ ForkFile(t)
      BY <1>1, <2>3, EnterSetupStep, ForkCwdStep, ForkFileStep
    <2>4. CASE Store(t) \/ NameIt(t) \/ Setup(t) \/ ListStart(t) \/ ListNext(t) \/ Fill(t)
      BY <2>4, StoreStep, NameStep, SetupStep, ListStartStep, ListNextStep, FillStep DEF Changes
    <2> QED  BY <1>4, <2>1, <2>2, <2>3, <2>4 DEF Step
  <1> QED  BY <1>2, <1>3, <1>4 DEF Next

-----------------------------------------------------------------------------
(* Where files are added                                                   *)

\* A directory keeps its kind and its entries keep theirs.
LEMMA StaysInPlace ==
    ASSUME Tree, DOMAIN vnodes \subseteq DOMAIN vnodes', \A v \in DOMAIN vnodes : Kept(v)
    PROVE  /\ \A t \in Tasks : Adds(t) =>
                call[t].dir \in DOMAIN vnodes' /\ vnodes'[call[t].dir].fs = "tmpfs"
           /\ \A t \in Tasks : call[t].pc = "name" =>
                /\ call[t].idx \in DOMAIN vnodes' /\ vnodes'[call[t].idx].fs = "tmpfs"
                /\ call[t].type = vnodes'[call[t].idx].type
           /\ \A t \in Tasks : Mounts(t) =>
                call[t].dir \in DOMAIN vnodes' /\ vnodes'[call[t].dir].fs = "initramfs"
                /\ vnodes'[call[t].dir].type = "DIR"
           /\ \A d \in DOMAIN vnodes : \A i \in DOMAIN vnodes[d].entry :
                /\ vnodes[d].entry[i] \in DOMAIN vnodes'
                /\ vnodes'[vnodes[d].entry[i]].fs = vnodes[d].fs
  BY DEF Tree, Places, Kept, IsVnode, IsArchive

LEMMA Grown ==
    ASSUME NEW fs, NEW type, NEW name, Grows(fs, type, name)
    PROVE  /\ DOMAIN vnodes \subseteq DOMAIN vnodes' /\ \A v \in DOMAIN vnodes : Kept(v)
           /\ Fresh \in DOMAIN vnodes' /\ Fresh \notin DOMAIN vnodes
           /\ vnodes'[Fresh].fs = fs /\ vnodes'[Fresh].type = type
           /\ vnodes'[Fresh].entry = <<>> /\ vnodes'[Fresh].name = name
           /\ \A v \in DOMAIN vnodes' : v \in DOMAIN vnodes \/ v = Fresh
  <1>1. DOMAIN vnodes' = 1 .. Fresh /\ DOMAIN vnodes = 1 .. Fresh - 1 /\ Fresh \in Nat /\ Fresh > 0
    BY DEF Grows, Fresh
  <1>2. /\ DOMAIN vnodes \subseteq DOMAIN vnodes' /\ Fresh \in DOMAIN vnodes'
        /\ Fresh \notin DOMAIN vnodes
        /\ \A v \in DOMAIN vnodes' : v \in DOMAIN vnodes \/ v = Fresh
    BY <1>1
  <1> QED  BY <1>2 DEF Grows

LEMMA QuietPlaces == ASSUME Tree, Quiet PROVE Places'
  <1>1. DOMAIN vnodes' = DOMAIN vnodes /\ \A v \in DOMAIN vnodes : Kept(v) /\ SameEntry(v)
    BY DEF Quiet, SameTree
  <1>2. \A u \in Tasks : call'[u] = call[u] \/ (Elsewhere(call[u]) /\ Elsewhere(call'[u]))
    BY DEF Quiet
  <1>3. \A d \in DOMAIN vnodes' : \A i \in DOMAIN vnodes'[d].entry :
            /\ vnodes'[d].entry[i] \in DOMAIN vnodes'
            /\ vnodes'[vnodes'[d].entry[i]].fs = vnodes'[d].fs
    BY <1>1, StaysInPlace DEF Kept, SameEntry
  <1> QED  BY <1>1, <1>2, <1>3, StaysInPlace DEF Places, Adds, Mounts, Elsewhere, IsVnode, IsArchive

LEMMA JoinsPlaces == ASSUME Tree, NEW t \in Tasks, Joins(t) PROVE Places'
  BY DEF Tree, Places, Joins, IsDir, Adds, Mounts, IsVnode, IsArchive

LEMMA StorePlaces == ASSUME Tree, NEW t \in Tasks, Store(t) PROVE Places'
  <1> DEFINE d == call[t].dir
  <1>1. /\ Grows("tmpfs", call[t].type, <<>>)
        /\ \A e \in DOMAIN vnodes : e # d => SameEntry(e)
        /\ \E k : \A i \in DOMAIN vnodes'[d].entry :
              \/ i = k /\ vnodes'[d].entry[i] = Fresh
              \/ i # k /\ i \in DOMAIN vnodes[d].entry
                 /\ vnodes'[d].entry[i] = vnodes[d].entry[i]
        /\ call'[t].pc = "name" /\ call'[t].idx = Fresh /\ call'[t].dir = d
        /\ call'[t].type = call[t].type
        /\ \A u \in Tasks \ {t} : call'[u] = call[u]
    BY StoreStep
  <1>2. /\ DOMAIN vnodes \subseteq DOMAIN vnodes' /\ \A v \in DOMAIN vnodes : Kept(v)
        /\ Fresh \in DOMAIN vnodes' /\ vnodes'[Fresh].fs = "tmpfs"
        /\ vnodes'[Fresh].type = call[t].type /\ vnodes'[Fresh].entry = <<>>
        /\ \A v \in DOMAIN vnodes' : v \in DOMAIN vnodes \/ v = Fresh
    BY <1>1, Grown
  <1>3. d \in DOMAIN vnodes /\ vnodes[d].fs = "tmpfs"
    BY DEF Store, At, Tree, Places, Adds, IsVnode
  <1>4. ASSUME NEW e \in DOMAIN vnodes', NEW i \in DOMAIN vnodes'[e].entry
        PROVE  /\ vnodes'[e].entry[i] \in DOMAIN vnodes'
               /\ vnodes'[vnodes'[e].entry[i]].fs = vnodes'[e].fs
    <2>1. CASE e = Fresh
      BY <2>1, <1>2, <1>4
    <2>2. CASE e = d
      <3>1. vnodes'[d].fs = "tmpfs"
        BY <1>2, <1>3 DEF Kept
      <3>2. vnodes'[d].entry[i] = Fresh
            \/ (i \in DOMAIN vnodes[d].entry /\ vnodes'[d].entry[i] = vnodes[d].entry[i])
        <4>1. PICK k : \A j \in DOMAIN vnodes'[d].entry :
                \/ j = k /\ vnodes'[d].entry[j] = Fresh
                \/ j # k /\ j \in DOMAIN vnodes[d].entry
                   /\ vnodes'[d].entry[j] = vnodes[d].entry[j]
          BY <1>1
        <4>2. i \in DOMAIN vnodes'[d].entry
          BY <2>2, <1>4
        <4> QED  BY <4>1, <4>2
      <3> QED  BY <2>2, <3>1, <3>2, <1>2, <1>3, StaysInPlace
    <2>3. CASE e # d /\ e \in DOMAIN vnodes
      BY <2>3, <1>1, <1>2, <1>4, StaysInPlace DEF SameEntry, Kept
    <2> QED  BY <2>1, <2>2, <2>3, <1>2
  <1>5. ASSUME NEW u \in Tasks
        PROVE  /\ Adds(u)' => call'[u].dir \in DOMAIN vnodes' /\ vnodes'[call'[u].dir].fs = "tmpfs"
               /\ call'[u].pc = "name" =>
                    /\ call'[u].idx \in DOMAIN vnodes' /\ vnodes'[call'[u].idx].fs = "tmpfs"
                    /\ call'[u].type = vnodes'[call'[u].idx].type
               /\ Mounts(u)' => /\ call'[u].dir \in DOMAIN vnodes'
                                /\ vnodes'[call'[u].dir].fs = "initramfs"
                                /\ vnodes'[call'[u].dir].type = "DIR"
    <2>1. CASE u = t
      BY <2>1, <1>1, <1>2, <1>3 DEF Adds, Mounts, Kept
    <2>2. CASE u # t
      BY <2>2, <1>1, <1>2, StaysInPlace DEF Adds, Mounts
    <2> QED  BY <2>1, <2>2
  <1> QED  BY <1>4, <1>5 DEF Places, IsVnode, IsArchive

LEMMA NamePlaces == ASSUME Tree, NEW t \in Tasks, NameIt(t) PROVE Places'
  <1>1. /\ DOMAIN vnodes' = DOMAIN vnodes
        /\ \A v \in DOMAIN vnodes : Kept(v) /\ SameEntry(v)
        /\ call'[t].pc = "user" /\ \A u \in Tasks \ {t} : call'[u] = call[u]
    BY NameStep
  <1>2. \A d \in DOMAIN vnodes' : \A i \in DOMAIN vnodes'[d].entry :
            /\ vnodes'[d].entry[i] \in DOMAIN vnodes'
            /\ vnodes'[vnodes'[d].entry[i]].fs = vnodes'[d].fs
    BY <1>1, StaysInPlace DEF Kept, SameEntry
  <1> QED  BY <1>1, <1>2, StaysInPlace DEF Places, Adds, Mounts, IsVnode, IsArchive

LEMMA SetupPlaces == ASSUME Tree, NEW t \in Tasks, Setup(t) PROVE Places'
  <1>1. /\ Grows(call[t].fs, "DIR", <<>>) /\ \A v \in DOMAIN vnodes : SameEntry(v)
        /\ \/ call[t].fs = "tmpfs" /\ call'[t].pc = "user"
           \/ call[t].fs = "initramfs" /\ call'[t].pc = "list" /\ call'[t].dir = Fresh
        /\ \A u \in Tasks \ {t} : call'[u] = call[u]
    BY SetupStep
  <1>2. /\ DOMAIN vnodes \subseteq DOMAIN vnodes' /\ \A v \in DOMAIN vnodes : Kept(v)
        /\ Fresh \in DOMAIN vnodes' /\ vnodes'[Fresh].fs = call[t].fs
        /\ vnodes'[Fresh].type = "DIR" /\ vnodes'[Fresh].entry = <<>>
        /\ \A v \in DOMAIN vnodes' : v \in DOMAIN vnodes \/ v = Fresh
    BY <1>1, Grown
  <1>3. \A d \in DOMAIN vnodes' : \A i \in DOMAIN vnodes'[d].entry :
            /\ vnodes'[d].entry[i] \in DOMAIN vnodes'
            /\ vnodes'[vnodes'[d].entry[i]].fs = vnodes'[d].fs
    BY <1>1, <1>2, StaysInPlace DEF Kept, SameEntry
  <1> QED  BY <1>1, <1>2, <1>3, StaysInPlace DEF Places, Adds, Mounts, IsVnode, IsArchive

LEMMA ListPlaces == ASSUME Tree, NEW t \in Tasks, ListStart(t) \/ ListNext(t) PROVE Places'
  <1>1. /\ vnodes' = vnodes /\ Mounts(t) /\ call'[t].pc \in {"scan", "fill"}
        /\ call'[t].dir = call[t].dir
        /\ \A u \in Tasks \ {t} : call'[u] = call[u]
    <2>1. CASE ListStart(t)
      <3>1. /\ vnodes' = vnodes /\ call[t].pc = "list"
            /\ call'[t] = [pc |-> "scan", dir |-> call[t].dir, idx |-> 1]
            /\ \A u \in Tasks \ {t} : call'[u] = call[u]
        BY <2>1, ListStartStep
      <3>2. call'[t].pc = "scan" /\ call'[t].dir = call[t].dir
        BY ONLY <3>1
      <3> QED  BY <3>1, <3>2 DEF Mounts
    <2>2. CASE ListNext(t)
      <3>1. /\ vnodes' = vnodes /\ call[t].pc = "scan"
            /\ \/ call'[t] = [pc |-> "scan", dir |-> call[t].dir, idx |-> call[t].idx + 1]
               \/ call'[t] = [pc |-> "fill", dir |-> call[t].dir, idx |-> 1]
            /\ \A u \in Tasks \ {t} : call'[u] = call[u]
        BY <2>2, ListNextStep
      <3>2. call'[t].pc \in {"scan", "fill"} /\ call'[t].dir = call[t].dir
        BY ONLY <3>1
      <3> QED  BY <3>1, <3>2 DEF Mounts
    <2> QED  BY <2>1, <2>2
  <1> QED  BY <1>1 DEF Tree, Places, Adds, Mounts, IsVnode, IsArchive

LEMMA FillPlaces == ASSUME Tree, NEW t \in Tasks, Fill(t) PROVE Places'
  <1> DEFINE d == call[t].dir
             grown == /\ Grows("initramfs", "FILE", files[call[t].idx])
                      /\ \A e \in DOMAIN vnodes : e # d => SameEntry(e)
                      /\ vnodes'[d].entry = Append(vnodes[d].entry, Fresh)
                      /\ call'[t] = [pc |-> "fill", dir |-> d, idx |-> call[t].idx + 1]
  <1>1. /\ call[t].pc = "fill"
        /\ (vnodes' = vnodes /\ call'[t].pc \in {"user", "wild"}) \/ grown
        /\ \A u \in Tasks \ {t} : call'[u] = call[u]
    BY FillStep
  <1>2. CASE vnodes' = vnodes /\ call'[t].pc \in {"user", "wild"}
    BY <1>1, <1>2 DEF Tree, Places, Adds, Mounts, IsVnode, IsArchive
  <1>3. CASE grown
    <2>1. /\ DOMAIN vnodes \subseteq DOMAIN vnodes' /\ \A v \in DOMAIN vnodes : Kept(v)
          /\ Fresh \in DOMAIN vnodes' /\ vnodes'[Fresh].fs = "initramfs"
          /\ vnodes'[Fresh].entry = <<>>
          /\ \A v \in DOMAIN vnodes' : v \in DOMAIN vnodes \/ v = Fresh
      BY <1>3, Grown, SMTT(30)
    <2>2. d \in DOMAIN vnodes /\ vnodes[d].fs = "initramfs" /\ vnodes[d].type = "DIR"
      BY <1>1 DEF Tree, Places, Mounts, IsVnode, IsArchive
    <2>3. \A i \in DOMAIN vnodes'[d].entry :
            \/ vnodes'[d].entry[i] = Fresh
            \/ i \in DOMAIN vnodes[d].entry /\ vnodes'[d].entry[i] = vnodes[d].entry[i]
      <3>1. vnodes[d].entry \in Seq(Nat) /\ Fresh \in Nat
        BY <2>2, VnodeFields DEF Fresh
      <3>2. vnodes'[d].entry = Append(vnodes[d].entry, Fresh)
        BY <1>3
      <3>3. /\ DOMAIN vnodes'[d].entry = 1 .. Len(vnodes[d].entry) + 1
            /\ DOMAIN vnodes[d].entry = 1 .. Len(vnodes[d].entry) /\ Len(vnodes[d].entry) \in Nat
            /\ vnodes'[d].entry[Len(vnodes[d].entry) + 1] = Fresh
            /\ \A i \in 1 .. Len(vnodes[d].entry) : vnodes'[d].entry[i] = vnodes[d].entry[i]
        <4> DEFINE old == vnodes[d].entry
                   new == vnodes'[d].entry
        <4> HIDE DEF d
        <4>1. old \in Seq(Nat) /\ Fresh \in Nat /\ new = Append(old, Fresh)
          BY ONLY <3>1, <3>2
        <4> HIDE DEF old, new
        <4>2. /\ DOMAIN new = 1 .. Len(old) + 1 /\ DOMAIN old = 1 .. Len(old)
              /\ Len(old) \in Nat /\ new[Len(old) + 1] = Fresh
              /\ \A i \in 1 .. Len(old) : new[i] = old[i]
          BY ONLY <4>1, AppendSeq
        <4> QED  BY <4>2 DEF old, new
      <3>4. ASSUME NEW i \in DOMAIN vnodes'[d].entry
            PROVE  \/ vnodes'[d].entry[i] = Fresh
                   \/ i \in DOMAIN vnodes[d].entry /\ vnodes'[d].entry[i] = vnodes[d].entry[i]
        <4>1. i \in 1 .. Len(vnodes[d].entry) \/ i = Len(vnodes[d].entry) + 1
          BY <3>3, <3>4
        <4> QED  BY <4>1, <3>3
      <3> QED  BY <3>4
    <2>4. ASSUME NEW e \in DOMAIN vnodes', NEW i \in DOMAIN vnodes'[e].entry
          PROVE  /\ vnodes'[e].entry[i] \in DOMAIN vnodes'
                 /\ vnodes'[vnodes'[e].entry[i]].fs = vnodes'[e].fs
      <3>1. CASE e = Fresh
        BY <3>1, <2>1, <2>4
      <3>2. CASE e = d
        BY <3>2, <2>1, <2>2, <2>3, <2>4, StaysInPlace DEF Kept
      <3>3. CASE e # d /\ e \in DOMAIN vnodes
        BY <3>3, <1>3, <2>1, <2>4, StaysInPlace DEF SameEntry, Kept
      <3> QED  BY <3>1, <3>2, <3>3, <2>1
    <2>5. Mounts(t) /\ call'[t].pc = "fill" /\ call'[t].dir = d
      BY <1>1, <1>3 DEF Mounts
    <2> QED  BY <1>1, <2>1, <2>2, <2>4, <2>5, StaysInPlace
             DEF Places, Adds, Mounts, IsVnode, IsArchive, Kept
  <1> QED  BY <1>1, <1>2, <1>3

\* The tree the kernel starts with.
LEMMA InitTree ==
    ASSUME Init
    PROVE  /\ Tree /\ DOMAIN vnodes = 1 .. Len(Archive) + 3 /\ Len(Archive) \in Nat
           /\ vnodes[1].fs = "tmpfs" /\ vnodes[1].entry = <<2>> /\ vnodes[1].type = "DIR"
           /\ vnodes[1].mount = 0 /\ vnodes[2].mount = 1 /\ vnodes[3].mount = 0
           /\ vnodes[2].fs = "tmpfs" /\ vnodes[2].entry = <<>> /\ vnodes[2].type = "DIR"
           /\ vnodes[3].fs = "initramfs" /\ vnodes[3].type = "DIR"
           /\ vnodes[3].entry = [i \in 1 .. Len(Archive) |-> i + 3]
           /\ \A i \in 1 .. Len(Archive) :
                /\ vnodes[i + 3].name = Archive[i] /\ vnodes[i + 3].type = "FILE"
                /\ vnodes[i + 3].entry = <<>> /\ vnodes[i + 3].fs = "initramfs"
                /\ vnodes[i + 3].mount = 0
  <1> DEFINE n == Len(Archive)
             root == [NewVnode("tmpfs", "DIR", <<>>) EXCEPT !.entry = <<2>>]
             over == [NewVnode("tmpfs", "DIR", InitramfsName) EXCEPT !.mount = 1]
             links == [i \in 1 .. n |-> i + 3]
             top == [NewVnode("initramfs", "DIR", <<>>) EXCEPT !.entry = links]
             F == [i \in 1 .. n |-> NewVnode("initramfs", "FILE", Archive[i])]
             names == ToSet(Archive) \cup {<<>>, InitramfsName}
             three == <<root, over, top>>
  <1>1. Archive \in Seq(ToSet(Archive)) /\ n \in Nat /\ DOMAIN Archive = 1 .. n
        /\ \A i \in 1 .. n : Archive[i] \in ToSet(Archive)
    BY VfsAssumption, LenProperties
  <1>2. links \in Seq(Nat)
    <2>1. links \in [1 .. n -> Nat]
      BY <1>1
    <2> QED  BY <2>1, <1>1, SeqDef
  <1>3. <<2>> \in Seq(Nat) /\ <<>> \in Seq(Nat)
    OBVIOUS
  <1> HIDE DEF links, names
  <1>4. /\ root = [fs |-> "tmpfs", type |-> "DIR", name |-> <<>>, entry |-> <<2>>, mount |-> 0]
        /\ over = [fs |-> "tmpfs", type |-> "DIR", name |-> InitramfsName, entry |-> <<>>,
                   mount |-> 1]
        /\ top = [fs |-> "initramfs", type |-> "DIR", name |-> <<>>, entry |-> links, mount |-> 0]
    BY DEF NewVnode
  <1>5. /\ root \in Vnode(names) /\ over \in Vnode(names) /\ top \in Vnode(names)
    <2>1. <<>> \in names /\ InitramfsName \in names
      BY DEF names
    <2> HIDE DEF root, over, top
    <2> QED  BY <2>1, <1>2, <1>3, <1>4 DEF Vnode, Kinds
  <1>6. F \in Seq(Vnode(names)) /\ Len(F) = n
    <2>1. \A i \in 1 .. n : NewVnode("initramfs", "FILE", Archive[i]) \in Vnode(names)
      BY <1>1, <1>3 DEF NewVnode, Vnode, Kinds, names
    <2>2. F \in [1 .. n -> Vnode(names)]
      BY <2>1
    <2> HIDE DEF F
    <2> QED  BY <2>2, <1>1, SeqDef, LenProperties
  <1>7. /\ three \in Seq(Vnode(names)) /\ Len(three) = 3
        /\ three[1] = root /\ three[2] = over /\ three[3] = top
    <2> HIDE DEF root, over, top
    <2> QED  BY <1>5
  <1>8. vnodes = three \o F
    BY <1>1 DEF Init, links
  <1>9. /\ vnodes \in Seq(Vnode(names)) /\ DOMAIN vnodes = 1 .. n + 3
        /\ vnodes[1] = root /\ vnodes[2] = over /\ vnodes[3] = top
        /\ \A i \in 1 .. n : vnodes[i + 3] = F[i]
    <2> HIDE DEF three, F, root, over, top
    <2>1. /\ three \o F \in Seq(Vnode(names)) /\ Len(three \o F) = 3 + n
          /\ \A i \in 1 .. 3 + n : (three \o F)[i] = IF i <= 3 THEN three[i] ELSE F[i - 3]
      <3>1. three \in Seq(Vnode(names)) /\ F \in Seq(Vnode(names))
        BY <1>6, <1>7
      <3>2. three \o F \in Seq(Vnode(names)) /\ Len(three \o F) = Len(three) + Len(F)
        BY ONLY <3>1, ConcatProperties
      <3>3. \A i \in 1 .. Len(three) + Len(F) : (three \o F)[i] =
                    IF i <= Len(three) THEN three[i] ELSE F[i - Len(three)]
        BY ONLY <3>1
      <3> QED  BY <3>2, <3>3, <1>6, <1>7
    <2>2. /\ vnodes \in Seq(Vnode(names)) /\ Len(vnodes) = 3 + n
          /\ \A i \in 1 .. 3 + n : vnodes[i] = IF i <= 3 THEN three[i] ELSE F[i - 3]
      BY <2>1, <1>8
    <2>3. DOMAIN vnodes = 1 .. n + 3
      BY <2>2, <1>1, LenProperties
    <2>4. \A i \in 1 .. n : vnodes[i + 3] = F[i]
      BY <2>2, <1>1
    <2>5. vnodes[1] = three[1] /\ vnodes[2] = three[2] /\ vnodes[3] = three[3]
      BY <2>2, <1>1
    <2> QED  BY <2>2, <2>3, <2>4, <2>5, <1>7
  <1>10. \A i \in 1 .. n : /\ F[i].name = Archive[i] /\ F[i].type = "FILE"
                           /\ F[i].entry = <<>> /\ F[i].fs = "initramfs"
                           /\ F[i].mount = 0
    BY DEF NewVnode
  <1>11. mounts \in Seq(Nat) /\ files \in Seq(ToSet(Archive))
    BY <1>1 DEF Init
  <1>12. /\ fds = [t \in Tasks |-> [fd \in Fds |-> fds[t][fd]]] /\ cwd = [t \in Tasks |-> cwd[t]]
         /\ call = [t \in Tasks |-> call[t]]
         /\ \A t \in Tasks : call[t].pc \in {"user", "unborn"}
    BY DEF Init, Idle
  <1>13. Typed
    BY <1>9, <1>11, <1>12 DEF Typed, CallTyped
  <1> HIDE DEF root, over, top, F
  <1>14. \A d \in DOMAIN vnodes : \A i \in DOMAIN vnodes[d].entry :
            /\ vnodes[d].entry[i] \in DOMAIN vnodes
            /\ vnodes[vnodes[d].entry[i]].fs = vnodes[d].fs
    <2> SUFFICES ASSUME NEW d \in DOMAIN vnodes, NEW i \in DOMAIN vnodes[d].entry
                 PROVE  /\ vnodes[d].entry[i] \in DOMAIN vnodes
                        /\ vnodes[vnodes[d].entry[i]].fs = vnodes[d].fs
      OBVIOUS
    <2>1. CASE d = 1
      BY <2>1, <1>1, <1>4, <1>9
    <2>2. CASE d = 2
      BY <2>2, <1>4, <1>9
    <2>3. CASE d = 3
      <3>1. vnodes[d].entry = links /\ vnodes[d].fs = "initramfs"
        BY <2>3, <1>4, <1>9
      <3>2. i \in 1 .. n /\ vnodes[d].entry[i] = i + 3
        BY <3>1 DEF links
      <3> QED  BY <3>1, <3>2, <1>1, <1>9, <1>10
    <2>4. CASE d > 3
      <3>1. d - 3 \in 1 .. n /\ d = (d - 3) + 3
        BY <2>4, <1>1, <1>9
      <3>2. vnodes[d].entry = <<>>
        BY <3>1, <1>9, <1>10
      <3> QED  BY <3>2
    <2> QED  BY <2>1, <2>2, <2>3, <2>4, <1>1, <1>9
  <1>15. Places
    BY <1>12, <1>14 DEF Places, Adds, Mounts, IsVnode
  <1> QED  BY <1>1, <1>4, <1>9, <1>10, <1>13, <1>15 DEF Tree, links

\* Tree holds after every step.
LEMMA TreeNext == ASSUME Tree, [Next]_vars PROVE Tree'
  <1>1. Places'
    BY Moves, QuietPlaces, JoinsPlaces, StorePlaces, NamePlaces, SetupPlaces, ListPlaces,
       FillPlaces DEF Changes
  <1> QED  BY <1>1, Moves DEF Tree

-----------------------------------------------------------------------------
(* The archive                                                             *)

\* What a directory holds of the archive.
LEMMA HoldsStays ==
    ASSUME Tree, NEW d \in DOMAIN vnodes, NEW n \in Nat, Holds(d, n),
           SameEntry(d), \A i \in DOMAIN vnodes[d].entry : SameName(vnodes[d].entry[i])
    PROVE  Holds(d, n)'
  <1>1. DOMAIN vnodes[d].entry = 1 .. n
    BY VnodeFields DEF Holds
  <1> QED  BY <1>1 DEF Holds, SameEntry, SameName

\* A step that is not of a mount leaves the archives alone.
LEMMA ArchiveStays ==
    ASSUME Tree, ArchiveInv, files' = files, lapped \subseteq lapped',
           DOMAIN vnodes \subseteq DOMAIN vnodes', \A v \in DOMAIN vnodes : Kept(v),
           \A v \in DOMAIN vnodes : vnodes[v].fs = "initramfs" => SameName(v) /\ SameEntry(v),
           \A v \in DOMAIN vnodes' \ DOMAIN vnodes : ~ IsArchive(v)',
           \A u \in Tasks : call'[u] = call[u] \/ (~ Mounts(u) /\ ~ Mounts(u)')
    PROVE  ArchiveInv'
  <1>1. ASSUME NEW d \in DOMAIN vnodes, vnodes[d].fs = "initramfs", NEW n \in Nat, Holds(d, n)
        PROVE  Holds(d, n)'
    <2>1. \A i \in DOMAIN vnodes[d].entry : SameName(vnodes[d].entry[i])
      BY <1>1 DEF Tree, Places, IsVnode
    <2> QED  BY <2>1, <1>1, HoldsStays
  <1>2. /\ \A u \in Tasks : Mounts(u)' => Mounts(u) /\ call'[u] = call[u]
        /\ \A u \in Tasks : Mounts(u) => call'[u] = call[u]
        /\ Listing' = Listing
    BY DEF Mounts, Listing
  <1>3. \A u \in Tasks : Mounts(u) => call[u].dir \in DOMAIN vnodes /\ vnodes[call[u].dir].fs = "initramfs"
    BY DEF Tree, Places, IsVnode, IsArchive
  <1>4. Filling'
    <2>1. \A t, u \in Tasks : t # u /\ Mounts(t)' /\ Mounts(u)' => call'[t].dir # call'[u].dir
      BY <1>2 DEF ArchiveInv, Filling
    <2>2. ASSUME NEW t \in Tasks, Mounts(t)', call'[t].dir \notin lapped'
          PROVE  OwnList(t)'
      <3>1. /\ call'[t] = call[t] /\ Mounts(t) /\ call[t].dir \notin lapped
            /\ call[t].dir \in DOMAIN vnodes /\ vnodes[call[t].dir].fs = "initramfs"
        BY <2>2, <1>2, <1>3
      <3>2. OwnList(t)
        BY <3>1 DEF ArchiveInv, Filling
      <3>3. call[t].pc = "fill" => call[t].idx - 1 \in Nat
        BY <3>2, VnodeFields DEF OwnList, Listing
      <3>4. \A n \in Nat : Holds(call[t].dir, n) => Holds(call[t].dir, n)'
        BY <3>1, <1>1
      <3>5. \A n : ListHas(n) => ListHas(n)'
        BY DEF ListHas
      <3> QED  BY <3>1, <3>2, <3>3, <3>4, <3>5, <1>2 DEF OwnList
    <2> QED  BY <2>1, <2>2 DEF Filling
  <1>5. Filled'
    <2> SUFFICES ASSUME NEW d \in DOMAIN vnodes' \ lapped', IsArchive(d)',
                        \A t \in Tasks : Mounts(t)' => call'[t].dir # d
                 PROVE  Holds(d, Len(Archive))'
      BY DEF Filled
    <2>1. d \in DOMAIN vnodes \ lapped /\ IsArchive(d)
      BY DEF IsArchive, Kept
    <2>2. \A t \in Tasks : Mounts(t) => call[t].dir # d
      BY <1>2 DEF Mounts
    <2>3. Holds(d, Len(Archive)) /\ Len(Archive) \in Nat
      BY <2>1, <2>2, VnodeFields DEF ArchiveInv, Filled
    <2> QED  BY <2>1, <2>3, <1>1 DEF IsArchive
  <1> QED  BY <1>4, <1>5 DEF ArchiveInv

LEMMA QuietArchive == ASSUME Tree, ArchiveInv, Quiet PROVE ArchiveInv'
  BY ArchiveStays DEF Quiet, SameTree, Elsewhere, Mounts

LEMMA JoinsArchive == ASSUME Tree, ArchiveInv, NEW t \in Tasks, Joins(t) PROVE ArchiveInv'
  <1>1. /\ vnodes' = vnodes /\ files' = files /\ lapped \subseteq lapped'
        /\ \A u \in Tasks : call'[u] = call[u] \/ (~ Mounts(u) /\ ~ Mounts(u)')
    BY DEF Joins, Elsewhere, Mounts
  <1> QED  BY <1>1, ArchiveStays DEF Kept, SameName, SameEntry

LEMMA StoreArchive == ASSUME Tree, ArchiveInv, NEW t \in Tasks, Store(t) PROVE ArchiveInv'
  <1>1. /\ Grows("tmpfs", call[t].type, <<>>)
        /\ \A e \in DOMAIN vnodes : e # call[t].dir => SameEntry(e)
        /\ call'[t].pc = "name" /\ \A u \in Tasks \ {t} : call'[u] = call[u]
    BY StoreStep
  <1>2. /\ call[t].pc = "store" /\ files' = files /\ lapped' = lapped
        /\ vnodes[call[t].dir].fs = "tmpfs"
    BY DEF Store, At, Tree, Places, Adds
  <1>3. /\ DOMAIN vnodes \subseteq DOMAIN vnodes' /\ \A v \in DOMAIN vnodes : Kept(v)
        /\ \A v \in DOMAIN vnodes : vnodes[v].fs = "initramfs" => SameName(v) /\ SameEntry(v)
        /\ \A v \in DOMAIN vnodes' \ DOMAIN vnodes : ~ IsArchive(v)'
    BY <1>1, <1>2 DEF Grows, IsArchive
  <1>4. \A u \in Tasks : call'[u] = call[u] \/ (~ Mounts(u) /\ ~ Mounts(u)')
    BY <1>1, <1>2 DEF Mounts
  <1> QED  BY <1>2, <1>3, <1>4, ArchiveStays

LEMMA NameArchive == ASSUME Tree, ArchiveInv, NEW t \in Tasks, NameIt(t) PROVE ArchiveInv'
  <1>1. /\ DOMAIN vnodes' = DOMAIN vnodes
        /\ \A v \in DOMAIN vnodes : /\ Kept(v) /\ SameEntry(v)
                                    /\ v # call[t].idx => SameName(v)
        /\ call'[t].pc = "user" /\ \A u \in Tasks \ {t} : call'[u] = call[u]
    BY NameStep
  <1>2. /\ call[t].pc = "name" /\ files' = files /\ lapped' = lapped
        /\ vnodes[call[t].idx].fs = "tmpfs"
    BY DEF NameIt, At, Tree, Places
  <1>3. \A v \in DOMAIN vnodes : vnodes[v].fs = "initramfs" => SameName(v) /\ SameEntry(v)
    BY <1>1, <1>2
  <1>4. \A u \in Tasks : call'[u] = call[u] \/ (~ Mounts(u) /\ ~ Mounts(u)')
    BY <1>1, <1>2 DEF Mounts
  <1> QED  BY <1>1, <1>2, <1>3, <1>4, ArchiveStays

\* A step of a mount: what it has to say of its own directory.
LEMMA ArchiveBy ==
    ASSUME Tree, ArchiveInv, NEW t \in Tasks, lapped \subseteq lapped',
           DOMAIN vnodes \subseteq DOMAIN vnodes', \A v \in DOMAIN vnodes : Kept(v),
           \A u \in Tasks \ {t} : call'[u] = call[u],
           \A d \in DOMAIN vnodes :
                IsArchive(d) /\ (Mounts(t) => d # call[t].dir)
                => \A n \in Nat : Holds(d, n) => Holds(d, n)',
           \A u \in Tasks \ {t} :
                Mounts(u) /\ call[u].dir \notin lapped' /\ OwnList(u) => OwnList(u)',
           Mounts(t)' /\ call'[t].dir \notin lapped' => OwnList(t)',
           Mounts(t) /\ Mounts(t)' => call'[t].dir = call[t].dir,
           ~ Mounts(t) /\ Mounts(t)' => call'[t].dir \notin DOMAIN vnodes,
           \A v \in DOMAIN vnodes' \ DOMAIN vnodes :
                IsArchive(v)' => Mounts(t)' /\ call'[t].dir = v,
           \A d \in DOMAIN vnodes \ lapped' :
                Mounts(t) /\ ~ Mounts(t)' /\ call[t].dir = d => Holds(d, Len(Archive))'
    PROVE  ArchiveInv'
  <1>1. \A u \in Tasks \ {t} : Mounts(u)' = Mounts(u)
    BY DEF Mounts
  <1>2. \A u \in Tasks : Mounts(u) => call[u].dir \in DOMAIN vnodes
    BY DEF Tree, Places, IsVnode
  <1>3. \A u, w \in Tasks : u # w /\ Mounts(u)' /\ Mounts(w)' => call'[u].dir # call'[w].dir
    <2>1. \A u, w \in Tasks : u # w /\ Mounts(u) /\ Mounts(w) => call[u].dir # call[w].dir
      BY DEF ArchiveInv, Filling
    <2>2. \A u \in Tasks \ {t} : Mounts(t)' /\ Mounts(u) => call'[t].dir # call[u].dir
      BY <2>1, <1>2
    <2> QED  BY <2>1, <2>2, <1>1
  <1>4. ASSUME NEW u \in Tasks, Mounts(u)', call'[u].dir \notin lapped'
        PROVE  OwnList(u)'
    <2>1. CASE u = t
      BY <2>1, <1>4
    <2>2. CASE u # t
      <3>1. Mounts(u) /\ call[u].dir \notin lapped' /\ OwnList(u)
        BY <2>2, <1>1, <1>4 DEF ArchiveInv, Filling
      <3> QED  BY <3>1, <2>2
    <2> QED  BY <2>1, <2>2
  <1>5. ASSUME NEW d \in DOMAIN vnodes', d \notin lapped', IsArchive(d)',
               \A u \in Tasks : Mounts(u)' => call'[u].dir # d
        PROVE  Holds(d, Len(Archive))'
    <2>1. d \in DOMAIN vnodes /\ d \notin lapped
      BY <1>5
    <2>2. IsArchive(d)
      BY <2>1, <1>5 DEF IsArchive, Kept
    <2>3. CASE Mounts(t) /\ call[t].dir = d
      BY <2>1, <2>3, <1>5
    <2>4. CASE ~ (Mounts(t) /\ call[t].dir = d)
      <3>1. \A u \in Tasks : Mounts(u) => call[u].dir # d
        BY <2>4, <1>1, <1>5
      <3>2. Holds(d, Len(Archive)) /\ Len(Archive) \in Nat
        BY <2>1, <2>2, <3>1, VnodeFields DEF ArchiveInv, Filled
      <3> QED  BY <2>1, <2>2, <2>4, <3>2
    <2> QED  BY <2>3, <2>4
  <1> QED  BY <1>3, <1>4, <1>5 DEF ArchiveInv, Filling, Filled

\* While one mount goes through the list, another can only be about to.
LEMMA OthersWait ==
    ASSUME Tree, ArchiveInv, NEW t \in Tasks, t \in Listing,
           NEW u \in Tasks \ {t}, Mounts(u), OwnList(u)
    PROVE  call[u].pc = "list" /\ Holds(call[u].dir, 0) /\ call[u].dir \in DOMAIN vnodes
           /\ IsArchive(call[u].dir) /\ (Mounts(t) => call[u].dir # call[t].dir)
  <1>1. u \notin Listing
    BY DEF OwnList
  <1>2. call[u].pc = "list"
    BY <1>1 DEF Mounts, Listing
  <1> QED  BY <1>2 DEF OwnList, Tree, Places, IsVnode, ArchiveInv, Filling

\* A task that waits to begin its list goes on waiting.
LEMMA WaitsOn ==
    ASSUME NEW u \in Tasks, call[u].pc = "list", call'[u] = call[u],
           \A d : d = call[u].dir => Holds(d, 0)'
    PROVE  OwnList(u)'
  <1>1. call'[u].pc = "list" /\ u \notin Listing'
    BY DEF Listing
  <1>2. Holds(call[u].dir, 0)'
    BY DEF Holds
  <1> QED  BY <1>1, <1>2 DEF OwnList

\* What an unchanged tree still holds.
LEMMA SameHolds == ASSUME vnodes' = vnodes PROVE \A d, n : Holds(d, n) => Holds(d, n)'
  BY DEF Holds

\* A tree that grows elsewhere.
LEMMA GrownHolds ==
    ASSUME Tree, NEW fs, NEW type, NEW name, Grows(fs, type, name),
           NEW d \in DOMAIN vnodes, SameEntry(d)
    PROVE  \A n \in Nat : Holds(d, n) => Holds(d, n)'
  <1>1. \A i \in DOMAIN vnodes[d].entry : SameName(vnodes[d].entry[i])
    BY DEF Grows, Tree, Places, IsVnode
  <1> QED  BY <1>1, HoldsStays

LEMMA SetupArchive == ASSUME Tree, ArchiveInv, NEW t \in Tasks, Setup(t) PROVE ArchiveInv'
  <1>1. /\ files' = files /\ lapped' = lapped /\ call[t].pc = "setup"
        /\ Grows(call[t].fs, "DIR", <<>>) /\ \A v \in DOMAIN vnodes : SameEntry(v)
        /\ \/ call[t].fs = "tmpfs" /\ call'[t].pc = "user"
           \/ call[t].fs = "initramfs" /\ call'[t].pc = "list" /\ call'[t].dir = Fresh
        /\ \A u \in Tasks \ {t} : call'[u] = call[u]
    BY SetupStep
  <1>2. /\ DOMAIN vnodes \subseteq DOMAIN vnodes' /\ \A v \in DOMAIN vnodes : Kept(v)
        /\ Fresh \notin DOMAIN vnodes
        /\ vnodes'[Fresh].fs = call[t].fs /\ vnodes'[Fresh].entry = <<>>
        /\ \A v \in DOMAIN vnodes' : v \in DOMAIN vnodes \/ v = Fresh
    BY <1>1, Grown
  <1>3. ~ Mounts(t)
    BY <1>1 DEF Mounts
  <1>4. CASE call[t].fs = "tmpfs" /\ call'[t].pc = "user"
    <2>1. \A v \in DOMAIN vnodes' \ DOMAIN vnodes : ~ IsArchive(v)'
      BY <1>2, <1>4 DEF IsArchive
    <2>2. \A u \in Tasks : call'[u] = call[u] \/ (~ Mounts(u) /\ ~ Mounts(u)')
      BY <1>1, <1>3, <1>4 DEF Mounts
    <2>3. \A v \in DOMAIN vnodes : vnodes[v].fs = "initramfs" => SameName(v) /\ SameEntry(v)
      BY <1>1 DEF Grows
    <2> QED  BY <1>1, <1>2, <2>1, <2>2, <2>3, ArchiveStays
  <1>5. CASE call[t].fs = "initramfs" /\ call'[t].pc = "list" /\ call'[t].dir = Fresh
    <2>1. Mounts(t)' /\ Listing' = Listing /\ t \notin Listing'
      BY <1>1, <1>5 DEF Mounts, Listing
    <2>2. \A d \in DOMAIN vnodes : \A n \in Nat : Holds(d, n) => Holds(d, n)'
      BY <1>1, GrownHolds
    <2>3. OwnList(t)'
      <3>1. \A d : d = Fresh => Holds(d, 0)'
        BY <1>2 DEF Holds
      <3>2. Holds(call[t].dir, 0)'
        BY <3>1, <1>5 DEF Holds
      <3> QED  BY <3>2, <2>1, <1>5 DEF OwnList
    <2>4. ASSUME NEW u \in Tasks \ {t}, Mounts(u), OwnList(u) PROVE OwnList(u)'
      <3>1. call[u].dir \in DOMAIN vnodes /\ call'[u] = call[u]
        BY <1>1, <2>4 DEF Tree, Places, IsVnode
      <3>2. call[u].pc = "fill" => call[u].idx - 1 \in Nat
        BY <2>4, VnodeFields DEF OwnList, Listing
      <3>3. \A n \in Nat : Holds(call[u].dir, n) => Holds(call[u].dir, n)'
        <4>1. \A d, n : d = call[u].dir /\ n \in Nat /\ Holds(d, n) => Holds(d, n)'
          BY <3>1, <2>2
        <4> QED  BY <4>1, <3>1 DEF Holds
      <3>4. \A n : ListHas(n) => ListHas(n)'
        BY <1>1 DEF ListHas
      <3> QED  BY <2>1, <2>4, <3>1, <3>2, <3>3, <3>4 DEF OwnList
    <2> QED  BY <1>1, <1>2, <1>3, <1>5, <2>1, <2>2, <2>3, <2>4, ArchiveBy
  <1> QED  BY <1>1, <1>4, <1>5

LEMMA ListStartArchive ==
    ASSUME Tree, ArchiveInv, NEW t \in Tasks, ListStart(t)
    PROVE  ArchiveInv'
  <1>1. /\ vnodes' = vnodes /\ files' = <<>> /\ call[t].pc = "list"
        /\ call'[t] = [pc |-> "scan", dir |-> call[t].dir, idx |-> 1]
        /\ \A u \in Tasks \ {t} : call'[u] = call[u]
        /\ lapped \subseteq lapped'
        /\ Listing # {} => \A u \in Listing \cup {t} : call[u].dir \in lapped'
    BY ListStartStep
  <1>2. call'[t].pc = "scan" /\ call'[t].dir = call[t].dir /\ call'[t].idx = 1
    BY ONLY <1>1
  <1>3. Mounts(t) /\ Mounts(t)' /\ Listing' = Listing \cup {t}
    BY <1>1, <1>2 DEF Mounts, Listing
  <1>4. \A d, n : Holds(d, n) => Holds(d, n)'
    BY <1>1, SameHolds
  <1>5. ASSUME call[t].dir \notin lapped' PROVE OwnList(t)'
    <2>1. Listing' = {t}
      BY <1>1, <1>3, <1>5
    <2>2. Holds(call[t].dir, 0)
      BY <1>1, <1>3, <1>5 DEF ArchiveInv, Filling, OwnList
    <2>3. Holds(call[t].dir, 0)'
      BY <2>2, <1>1, <1>2 DEF Holds
    <2>4. ListHas(call[t].idx - 1)'
      BY <1>1, <1>2 DEF ListHas
    <2>5. 1 \in 1 .. Len(Archive) + 1
      BY VnodeFields
    <2> QED  BY <1>2, <2>1, <2>3, <2>4, <2>5 DEF OwnList
  <1>6. ASSUME NEW u \in Tasks \ {t}, Mounts(u), call[u].dir \notin lapped', OwnList(u)
        PROVE  OwnList(u)'
    <2>1. u \notin Listing
      BY <1>1, <1>6
    <2>2. call[u].pc = "list" /\ Holds(call[u].dir, 0)
      BY <1>6, <2>1 DEF Mounts, Listing, OwnList
    <2> QED  BY <1>1, <1>4, <2>2, WaitsOn
  <1>7. \A v \in DOMAIN vnodes : Kept(v)
    BY <1>1 DEF Kept
  <1> QED  BY <1>1, <1>2, <1>3, <1>4, <1>5, <1>6, <1>7, ArchiveBy

LEMMA ListNextArchive ==
    ASSUME Tree, ArchiveInv, NEW t \in Tasks, ListNext(t)
    PROVE  ArchiveInv'
  <1>1. /\ vnodes' = vnodes /\ lapped' = lapped /\ call[t].pc = "scan"
        /\ call[t].idx \in Nat /\ call[t].idx > 0
        /\ \/ /\ call[t].idx <= Len(Archive)
              /\ files' = Append(files, Archive[call[t].idx])
              /\ call'[t] = [pc |-> "scan", dir |-> call[t].dir, idx |-> call[t].idx + 1]
           \/ /\ call[t].idx > Len(Archive) /\ files' = files
              /\ call'[t] = [pc |-> "fill", dir |-> call[t].dir, idx |-> 1]
        /\ \A u \in Tasks \ {t} : call'[u] = call[u]
    BY ListNextStep
  <1>2. /\ call'[t].dir = call[t].dir
        /\ \/ /\ call[t].idx <= Len(Archive) /\ files' = Append(files, Archive[call[t].idx])
              /\ call'[t].pc = "scan" /\ call'[t].idx = call[t].idx + 1
           \/ /\ call[t].idx > Len(Archive) /\ files' = files
              /\ call'[t].pc = "fill" /\ call'[t].idx = 1
    BY ONLY <1>1
  <1>3. Mounts(t) /\ Mounts(t)' /\ Listing' = Listing /\ t \in Listing
    BY <1>1, <1>2 DEF Mounts, Listing
  <1>4. \A d, n : Holds(d, n) => Holds(d, n)'
    BY <1>1, SameHolds
  <1>5. ASSUME call[t].dir \notin lapped' PROVE OwnList(t)'
    <2>1. /\ Listing' = {t} /\ Holds(call[t].dir, 0) /\ ListHas(call[t].idx - 1)
          /\ call[t].idx \in 1 .. Len(Archive) + 1
      BY <1>1, <1>3, <1>5 DEF ArchiveInv, Filling, OwnList
    <2>2. Holds(call[t].dir, 0)'
      BY <2>1, <1>1, <1>2 DEF Holds
    <2>3. Len(Archive) \in Nat /\ files \in Seq(ToSet(Archive))
      BY VnodeFields DEF Tree, Typed
    <2>4. CASE /\ call[t].idx <= Len(Archive) /\ files' = Append(files, Archive[call[t].idx])
               /\ call'[t].pc = "scan" /\ call'[t].idx = call[t].idx + 1
      <3>1. Archive[call[t].idx] \in ToSet(Archive)
        BY <2>1, <2>4, VnodeFields DEF ToSet
      <3>2. /\ Len(files') = Len(files) + 1 /\ files'[Len(files) + 1] = Archive[call[t].idx]
            /\ \A i \in 1 .. Len(files) : files'[i] = files[i]
        BY <2>3, <2>4, <3>1, AppendSeq
      <3>3. Len(files) = call[t].idx - 1 /\ \A i \in 1 .. Len(files) : files[i] = Archive[i]
        BY <2>1 DEF ListHas
      <3>4. Len(files') = call[t].idx /\ \A i \in 1 .. call[t].idx : files'[i] = Archive[i]
        BY <3>2, <3>3, <1>1, SMTT(30)
      <3>5. ListHas(call[t].idx - 1)'
        BY <3>4, <2>4, <1>1 DEF ListHas
      <3>6. call[t].idx + 1 \in 1 .. Len(Archive) + 1
        BY <1>1, <2>3, <2>4
      <3> QED  BY <2>1, <2>2, <2>4, <3>5, <3>6 DEF OwnList
    <2>5. CASE /\ call[t].idx > Len(Archive) /\ files' = files
               /\ call'[t].pc = "fill" /\ call'[t].idx = 1
      <3>1. call[t].idx - 1 = Len(Archive)
        BY <2>1, <2>3, <2>5
      <3>2. ListHas(Len(Archive))'
        BY <3>1, <2>1, <2>5 DEF ListHas
      <3>3. Holds(call[t].dir, call[t].idx - 1)'
        BY <2>2, <2>5 DEF Holds
      <3>4. 1 \in 1 .. Len(Archive) + 1
        BY <2>3
      <3> QED  BY <2>1, <2>5, <3>2, <3>3, <3>4 DEF OwnList
    <2> QED  BY <1>2, <2>4, <2>5
  <1>6. ASSUME NEW u \in Tasks \ {t}, Mounts(u), OwnList(u) PROVE OwnList(u)'
    <2>1. call[u].pc = "list" /\ Holds(call[u].dir, 0)
      BY <1>3, <1>6, OthersWait
    <2> QED  BY <1>1, <1>4, <2>1, WaitsOn
  <1>7. \A v \in DOMAIN vnodes : Kept(v)
    BY <1>1 DEF Kept
  <1> QED  BY <1>1, <1>2, <1>3, <1>4, <1>5, <1>6, <1>7, ArchiveBy

LEMMA FillArchive == ASSUME Tree, ArchiveInv, NEW t \in Tasks, Fill(t) PROVE ArchiveInv'
  <1> DEFINE d == call[t].dir
             done == call[t].idx > Len(files) /\ call'[t].pc = "user" /\ vnodes' = vnodes
             wild == /\ call[t].idx <= Len(files) /\ call[t].idx > MAX_DIR_ENTRY
                     /\ call'[t].pc = "wild" /\ vnodes' = vnodes
             grown == /\ call[t].idx <= Len(files)
                      /\ Grows("initramfs", "FILE", files[call[t].idx])
                      /\ \A e \in DOMAIN vnodes : e # d => SameEntry(e)
                      /\ vnodes'[d].entry = Append(vnodes[d].entry, Fresh)
                      /\ call'[t] = [pc |-> "fill", dir |-> d, idx |-> call[t].idx + 1]
  <1>1. /\ files' = files /\ lapped' = lapped /\ call[t].pc = "fill"
        /\ call[t].idx \in Nat /\ call[t].idx > 0
        /\ done \/ wild \/ grown
        /\ \A u \in Tasks \ {t} : call'[u] = call[u]
    BY FillStep, SMTT(30)
  <1>2. Mounts(t) /\ t \in Listing /\ d \in DOMAIN vnodes
    BY <1>1 DEF Mounts, Listing, Tree, Places, IsVnode
  <1>3. d \notin lapped => /\ Listing = {t} /\ call[t].idx \in 1 .. Len(Archive) + 1
                           /\ ListHas(Len(Archive)) /\ Holds(d, call[t].idx - 1)
    BY <1>1, <1>2 DEF ArchiveInv, Filling, OwnList
  <1>4. Len(Archive) \in Nat /\ Len(Archive) <= MAX_DIR_ENTRY /\ MAX_DIR_ENTRY \in Nat
    BY VnodeFields, VfsAssumption
  <1>5. CASE done \/ wild
    <2>1. ~ Mounts(t)' /\ vnodes' = vnodes
      BY <1>5 DEF Mounts
    <2>2. \A e, n : Holds(e, n) => Holds(e, n)'
      BY <2>1, SameHolds
    <2>3. ASSUME d \notin lapped PROVE Holds(d, Len(Archive))
      <3>1. Len(files) = Len(Archive)
        BY <1>3, <2>3, SMTT(30) DEF ListHas
      <3>2. call[t].idx - 1 = Len(Archive)
        BY <3>1, <1>1, <1>3, <1>4, <1>5, <2>3
      <3> QED  BY <3>2, <1>3, <2>3
    <2>4. \A e \in DOMAIN vnodes \ lapped' : d = e => Holds(e, Len(Archive))'
      BY <1>1, <2>2, <2>3
    <2>5. ASSUME NEW u \in Tasks \ {t}, Mounts(u), OwnList(u) PROVE OwnList(u)'
      <3>1. call[u].pc = "list" /\ Holds(call[u].dir, 0)
        BY <1>2, <2>5, OthersWait
      <3> QED  BY <1>1, <2>2, <3>1, WaitsOn
    <2>6. \A v \in DOMAIN vnodes : Kept(v)
      BY <2>1 DEF Kept
    <2> HIDE DEF done, wild, grown
    <2> QED  BY <1>1, <2>1, <2>2, <2>4, <2>5, <2>6, ArchiveBy
  <1>6. CASE grown
    <2>1. /\ DOMAIN vnodes \subseteq DOMAIN vnodes' /\ \A v \in DOMAIN vnodes : Kept(v)
          /\ vnodes'[Fresh].type = "FILE" /\ vnodes'[Fresh].name = files[call[t].idx]
          /\ \A v \in DOMAIN vnodes' : v \in DOMAIN vnodes \/ v = Fresh
      BY <1>6, Grown
    <2>2. call'[t].pc = "fill" /\ call'[t].dir = d /\ call'[t].idx = call[t].idx + 1
      BY ONLY <1>6
    <2>3. Mounts(t)' /\ Listing' = Listing
      BY <1>1, <1>2, <2>2 DEF Mounts, Listing
    <2>4. \A e \in DOMAIN vnodes : e # d => \A n \in Nat : Holds(e, n) => Holds(e, n)'
      BY <1>6, GrownHolds
    <2>5. \A v \in DOMAIN vnodes' \ DOMAIN vnodes : ~ IsArchive(v)'
      BY <2>1 DEF IsArchive
    <2>6. ASSUME d \notin lapped' PROVE OwnList(t)'
      <3>1. /\ Listing = {t} /\ call[t].idx \in 1 .. Len(Archive) + 1
            /\ ListHas(Len(Archive)) /\ Holds(d, call[t].idx - 1)
        BY <1>1, <1>3, <2>6
      <3>2. Len(files) = Len(Archive) /\ \A i \in 1 .. Len(Archive) : files[i] = Archive[i]
        BY <3>1 DEF ListHas
      <3>3. call[t].idx \in 1 .. Len(Archive) /\ files[call[t].idx] = Archive[call[t].idx]
        BY <3>1, <3>2, <1>1, <1>4, <1>6, SMTT(30)
      <3>4. ListHas(Len(Archive))'
        BY <3>1, <1>1 DEF ListHas
      <3>5. ASSUME NEW e, e = d, NEW k, k = call[t].idx PROVE Holds(e, k)'
        <4> DEFINE old == vnodes[e].entry
                   new == vnodes'[e].entry
        <4>1. old \in Seq(Nat) /\ Fresh \in Nat /\ new = Append(old, Fresh)
          BY <3>5, <1>2, <1>6, VnodeFields DEF Fresh
        <4>2. Len(old) = k - 1 /\ \A i \in 1 .. k - 1 : vnodes[old[i]].name = Archive[i]
          BY <3>1, <3>5 DEF Holds
        <4>3. \A i \in DOMAIN old : old[i] \in DOMAIN vnodes
          BY <3>5, <1>2 DEF Tree, Places, IsVnode
        <4>4. \A v \in DOMAIN vnodes : SameName(v)
          BY <1>6 DEF Grows
        <4> HIDE DEF old, new
        <4>5. /\ DOMAIN old = 1 .. Len(old) /\ Len(new) = Len(old) + 1
              /\ new[Len(old) + 1] = Fresh /\ \A i \in 1 .. Len(old) : new[i] = old[i]
          BY ONLY <4>1, AppendSeq, SMTT(30)
        <4>6. Len(new) = k /\ new[k] = Fresh
          BY <4>2, <4>5, <1>1, <3>5
        <4>7. ASSUME NEW i \in 1 .. k PROVE vnodes'[new[i]].name = Archive[i]
          <5>1. CASE i = k
            BY <5>1, <4>6, <3>3, <2>1, <3>5
          <5>2. CASE i # k
            <6>1. i \in 1 .. k - 1 /\ i \in DOMAIN old
              BY <5>2, <4>7, <4>2, <4>5, <1>1, <3>5
            <6>2. new[i] = old[i] /\ old[i] \in DOMAIN vnodes /\ vnodes[old[i]].name = Archive[i]
              BY <6>1, <4>2, <4>3, <4>5
            <6> QED  BY <6>2, <4>4 DEF SameName
          <5> QED  BY <5>1, <5>2
        <4>8. Len(new) = k /\ \A i \in 1 .. k : vnodes'[new[i]].name = Archive[i]
          BY <4>6, <4>7
        <4> QED  BY <4>8 DEF Holds, new
      <3>6. Holds(call[t].dir, call[t].idx - 1)'
        <4>1. call[t].idx + 1 - 1 = call[t].idx
          BY <1>1
        <4> QED  BY <4>1, <3>5, <2>2 DEF Holds
      <3>7. call[t].idx + 1 \in 1 .. Len(Archive) + 1
        BY <3>3, <1>4
      <3> QED  BY <2>2, <2>3, <3>1, <3>4, <3>6, <3>7 DEF OwnList
    <2>7. ASSUME NEW u \in Tasks \ {t}, Mounts(u), OwnList(u) PROVE OwnList(u)'
      <3>1. /\ call[u].pc = "list" /\ Holds(call[u].dir, 0) /\ call[u].dir \in DOMAIN vnodes
            /\ call[u].dir # d
        BY <1>2, <2>7, OthersWait
      <3>2. \A e : e = call[u].dir => Holds(e, 0)'
        BY <2>4, <3>1
      <3> QED  BY <1>1, <3>1, <3>2, WaitsOn
    <2> HIDE DEF done, wild, grown
    <2> QED  BY <1>1, <1>2, <2>1, <2>2, <2>3, <2>4, <2>5, <2>6, <2>7, ArchiveBy
  <1> QED  BY <1>1, <1>5, <1>6

LEMMA ArchiveNext == ASSUME Tree, ArchiveInv, [Next]_vars PROVE ArchiveInv'
  BY Moves, QuietArchive, JoinsArchive, StoreArchive, NameArchive, SetupArchive,
     ListStartArchive, ListNextArchive, FillArchive DEF Changes

LEMMA InitArchive == ASSUME Init PROVE ArchiveInv
  <1>1. \A t \in Tasks : ~ Mounts(t)
    BY DEF Init, Mounts, Idle
  <1>2. /\ DOMAIN vnodes = 1 .. Len(Archive) + 3 /\ Len(Archive) \in Nat
        /\ vnodes[1].fs = "tmpfs" /\ vnodes[2].fs = "tmpfs"
        /\ vnodes[3].entry = [i \in 1 .. Len(Archive) |-> i + 3]
        /\ \A i \in 1 .. Len(Archive) :
                vnodes[i + 3].name = Archive[i] /\ vnodes[i + 3].type = "FILE"
    BY InitTree
  <1>3. ASSUME NEW d \in DOMAIN vnodes, IsArchive(d) PROVE d = 3
    <2>1. d # 1 /\ d # 2
      BY <1>2, <1>3 DEF IsArchive
    <2>2. ASSUME d > 3 PROVE FALSE
      <3>1. d - 3 \in 1 .. Len(Archive) /\ d = (d - 3) + 3
        BY <1>2, <2>2
      <3>2. vnodes[d].type = "FILE"
        BY <3>1, <1>2
      <3> QED  BY <3>2, <1>3 DEF IsArchive
    <2> QED  BY <2>1, <2>2, <1>2
  <1>4. Holds(3, Len(Archive))
    <2>1. vnodes[3].entry \in [1 .. Len(Archive) -> Nat]
      BY <1>2
    <2>2. Len(vnodes[3].entry) = Len(Archive)
      BY <2>1, <1>2, IsSeq
    <2>3. \A i \in 1 .. Len(Archive) : vnodes[3].entry[i] = i + 3
      BY <1>2
    <2> QED  BY <2>2, <2>3, <1>2 DEF Holds
  <1> QED  BY <1>1, <1>3, <1>4 DEF ArchiveInv, Filling, Filled

\* initramfs_mount: a directory it has filled shows the files of the archive,
\* once each and in its order, unless another mount refilled file_list.
THEOREM ArchiveAlwaysComplete == Spec => []ArchiveComplete
  <1>1. Init => Tree /\ ArchiveInv
    BY InitTree, InitArchive
  <1>2. Tree /\ ArchiveInv /\ [Next]_vars => (Tree /\ ArchiveInv)'
    BY TreeNext, ArchiveNext
  <1>3. ASSUME Tree, ArchiveInv PROVE ArchiveComplete
    <2>1. ASSUME NEW d \in DOMAIN vnodes, d \notin lapped, IsArchive(d),
                 \A t \in Tasks : Mounts(t) => call[t].dir # d
          PROVE  [i \in DOMAIN vnodes[d].entry |-> vnodes[vnodes[d].entry[i]].name] = Archive
      <3>1. Holds(d, Len(Archive))
        BY <1>3, <2>1 DEF ArchiveInv, Filled
      <3>2. DOMAIN vnodes[d].entry = 1 .. Len(Archive) /\ DOMAIN Archive = 1 .. Len(Archive)
            /\ Archive \in Seq(ToSet(Archive))
        BY <1>3, <3>1, VnodeFields DEF Holds
      <3>3. \A i \in 1 .. Len(Archive) : vnodes[vnodes[d].entry[i]].name = Archive[i]
        BY <3>1 DEF Holds
      <3>4. Archive = [i \in 1 .. Len(Archive) |-> Archive[i]]
        BY <3>2, LenProperties
      <3> QED  BY <3>2, <3>3, <3>4
    <2> QED  BY <2>1 DEF ArchiveComplete, IsArchive, Mounts
  <1> QED  BY <1>1, <1>2, <1>3, PTL DEF Spec

-----------------------------------------------------------------------------
(* Names                                                                   *)

LEMMA NoTwo ==
    NoTwoFilesOneName <=> \A d \in DOMAIN vnodes \ lapped : vnodes[d].fs = "tmpfs" => OneName(d)
  BY DEF NoTwoFilesOneName, OneName

\* A directory whose files keep their names.
LEMMA NewInStays ==
    ASSUME Tree, NEW d \in DOMAIN vnodes, NEW v, NEW n, NewIn(d, v, n), SameEntry(d),
           \A w \in DOMAIN vnodes : Kept(w),
           \A i \in DOMAIN vnodes[d].entry :
                vnodes[d].entry[i] # v => SameName(vnodes[d].entry[i])
    PROVE  NewIn(d, v, n)'
  <1>1. \A i \in DOMAIN vnodes[d].entry : vnodes[d].entry[i] \in DOMAIN vnodes
    BY DEF Tree, Places, IsVnode
  <1> QED  BY <1>1 DEF NewIn, SameEntry, SameName, Kept, IsFile

LEMMA OneNameStays ==
    ASSUME NEW d \in DOMAIN vnodes, OneName(d),
           \A i \in NamedFiles(d)' :
                /\ i \in NamedFiles(d) /\ vnodes'[d].entry[i] = vnodes[d].entry[i]
                /\ SameName(vnodes[d].entry[i])
    PROVE  OneName(d)'
  BY DEF OneName, SameName

\* Steps that leave the tree and the calls that add to it as they are.
LEMMA NamesStay ==
    ASSUME Tree, NamesInv, SameTree, lapped \subseteq lapped',
           \A u \in Tasks : call'[u] = call[u] \/ (~ Adds(u) /\ ~ Adds(u)')
    PROVE  NamesInv'
  <1>1. /\ DOMAIN vnodes' = DOMAIN vnodes
        /\ \A v \in DOMAIN vnodes : Kept(v) /\ SameEntry(v) /\ SameName(v)
    BY DEF SameTree
  <1>2. OneEntry'
    BY <1>1 DEF NamesInv, OneEntry, SameEntry
  <1>3. \A u \in Tasks : (Adds(u)' <=> Adds(u)) /\ (Adds(u) => call'[u] = call[u])
    BY DEF Adds
  <1>4. OneAdder'
    BY <1>3 DEF NamesInv, Naming, OneAdder
  <1>5. ASSUME NEW u \in Tasks PROVE Looked(u)'
    <2> SUFFICES ASSUME Adds(u)', call'[u].dir \notin lapped'
                 PROVE  /\ call'[u].type = "FILE" => NewIn(call[u].dir, Waiting(u), call[u].name)'
                        /\ call'[u].pc = "store" => call'[u].idx > Len(vnodes'[call'[u].dir].entry)
      BY DEF Looked
    <2>1. Adds(u) /\ call'[u] = call[u] /\ call[u].dir \notin lapped /\ call[u].dir \in DOMAIN vnodes
      BY <1>3 DEF Tree, Places, IsVnode
    <2>2. /\ call[u].type = "FILE" => NewIn(call[u].dir, Waiting(u), call[u].name)
          /\ call[u].pc = "store" => call[u].idx > Len(vnodes[call[u].dir].entry)
      BY <2>1 DEF NamesInv, Naming, Looked
    <2>3. \A d \in DOMAIN vnodes : \A v, n : NewIn(d, v, n) => NewIn(d, v, n)'
      <3>1. \A d \in DOMAIN vnodes : \A i \in DOMAIN vnodes[d].entry :
                SameName(vnodes[d].entry[i])
        BY <1>1 DEF Tree, Places, IsVnode
      <3> QED  BY <3>1, <1>1, NewInStays
    <2>4. Waiting(u)' = Waiting(u)
      BY <2>1 DEF Waiting
    <2>5. call[u].type = "FILE" => NewIn(call[u].dir, Waiting(u), call[u].name)'
      <3>1. ASSUME call[u].type = "FILE", NEW d, d = call[u].dir, NEW v, v = Waiting(u),
                   NEW n, n = call[u].name
            PROVE  NewIn(d, v, n)'
        <4>1. d \in DOMAIN vnodes /\ NewIn(d, v, n)
          BY <3>1, <2>1, <2>2
        <4> QED  BY <4>1, <2>3
      <3> QED  BY <3>1, <2>1, <2>4 DEF NewIn
    <2> QED  BY <1>1, <2>1, <2>2, <2>5 DEF SameEntry
  <1>6. ASSUME NEW u \in Tasks PROVE OwnEntry(u)'
    BY <1>1, <1>3 DEF NamesInv, Naming, OwnEntry, SameEntry, Adds
  <1>7. ASSUME NEW d \in DOMAIN vnodes', d \notin lapped', vnodes'[d].fs = "tmpfs"
        PROVE  OneName(d)'
    <2>1. d \in DOMAIN vnodes /\ OneName(d)
      BY <1>1, <1>7, NoTwo DEF NamesInv, Kept
    <2>2. \A i \in DOMAIN vnodes[d].entry : vnodes[d].entry[i] \in DOMAIN vnodes
      BY <2>1 DEF Tree, Places, IsVnode
    <2>3. ASSUME NEW i \in NamedFiles(d)'
          PROVE  i \in NamedFiles(d) /\ vnodes'[d].entry[i] = vnodes[d].entry[i]
                 /\ SameName(vnodes[d].entry[i])
      <3>1. /\ i \in DOMAIN vnodes[d].entry /\ vnodes'[d].entry[i] = vnodes[d].entry[i]
            /\ vnodes'[vnodes[d].entry[i]].type = "FILE"
            /\ \A t \in Tasks : call'[t].pc = "name" => call'[t].idx # vnodes[d].entry[i]
        BY <2>1, <2>3, <1>1 DEF NamedFiles, SameEntry
      <3>2. \A t \in Tasks : call[t].pc = "name" => call'[t] = call[t]
        BY <1>3 DEF Adds
      <3> QED  BY <1>1, <2>2, <3>1, <3>2 DEF NamedFiles, Kept
    <2> QED  BY <2>1, <2>3, OneNameStays
  <1>8. NoTwoFilesOneName'
    BY <1>7 DEF NoTwoFilesOneName, OneName
  <1> QED  BY <1>2, <1>4, <1>5, <1>6, <1>8 DEF NamesInv, Naming

LEMMA QuietNames == ASSUME Tree, NamesInv, Quiet PROVE NamesInv'
  BY NamesStay DEF Quiet, Elsewhere, Adds

LEMMA ListNames ==
    ASSUME Tree, NamesInv, NEW t \in Tasks, ListStart(t) \/ ListNext(t)
    PROVE  NamesInv'
  <1>1. /\ vnodes' = vnodes /\ lapped \subseteq lapped' /\ call[t].pc \in {"list", "scan"}
        /\ call'[t].pc \in {"scan", "fill"}
        /\ \A u \in Tasks \ {t} : call'[u] = call[u]
    <2>1. CASE ListStart(t)
      <3>1. call'[t] = [pc |-> "scan", dir |-> call[t].dir, idx |-> 1]
        BY <2>1, ListStartStep
      <3>2. call'[t].pc = "scan"
        BY ONLY <3>1
      <3> QED  BY <2>1, <3>2, ListStartStep
    <2>2. CASE ListNext(t)
      <3>1. \/ call'[t] = [pc |-> "scan", dir |-> call[t].dir, idx |-> call[t].idx + 1]
            \/ call'[t] = [pc |-> "fill", dir |-> call[t].dir, idx |-> 1]
        BY <2>2, ListNextStep
      <3>2. call'[t].pc \in {"scan", "fill"}
        BY ONLY <3>1
      <3> QED  BY <2>2, <3>2, ListNextStep
    <2> QED  BY <2>1, <2>2
  <1>2. \A u \in Tasks : call'[u] = call[u] \/ (~ Adds(u) /\ ~ Adds(u)')
    BY <1>1 DEF Adds
  <1>3. SameTree
    BY <1>1 DEF SameTree, Kept, SameEntry, SameName
  <1> QED  BY <1>1, <1>2, <1>3, NamesStay

LEMMA JoinsNames == ASSUME Tree, NamesInv, NEW t \in Tasks, Joins(t) PROVE NamesInv'
  <1> DEFINE c == call'[t]
  <1>1. /\ vnodes' = vnodes /\ c.pc = "store" /\ c.dir \in DOMAIN vnodes
        /\ c.idx = Len(vnodes[c.dir].entry) + 1
        /\ c.type = "FILE" => Named(c.dir, c.name) = {}
        /\ lapped' = IF Adding(c.dir) = {} THEN lapped ELSE lapped \cup {c.dir}
        /\ \A u \in Tasks \ {t} : call'[u] = call[u]
        /\ ~ Adds(t)
    BY DEF Joins, IsVnode, Elsewhere, Adds, Slot
  <1>2. lapped \subseteq lapped' /\ (c.dir \notin lapped' => Adding(c.dir) = {})
    BY <1>1
  <1>3. OneEntry'
    BY <1>1 DEF NamesInv, OneEntry
  <1>4. \A u \in Tasks \ {t} : (Adds(u)' <=> Adds(u)) /\ call'[u] = call[u]
    BY <1>1 DEF Adds
  <1>5. OneAdder'
    <2>1. \A u, w \in Tasks \ {t} : u # w /\ Adds(u)' /\ Adds(w)' /\ call'[u].dir = call'[w].dir
                                    => call'[u].dir \in lapped'
      BY <1>2, <1>4 DEF NamesInv, Naming, OneAdder
    <2>2. \A u \in Tasks \ {t} : Adds(u)' /\ call'[u].dir = c.dir => c.dir \in lapped'
      BY <1>2, <1>4 DEF Adding, Adds
    <2> QED  BY <2>1, <2>2 DEF OneAdder
  <1>6. ASSUME NEW u \in Tasks \ {t} PROVE Looked(u)' /\ OwnEntry(u)'
    <2>1. Looked(u) /\ OwnEntry(u)
      BY DEF NamesInv, Naming
    <2>2. call'[u] = call[u] /\ Waiting(u)' = Waiting(u)
      BY <1>4 DEF Waiting
    <2> QED  BY <2>1, <2>2, <1>1, <1>2, <1>4 DEF Looked, OwnEntry, NewIn, IsFile
  <1>7. Looked(t)' /\ OwnEntry(t)'
    <2>1. c.type = "FILE" => NewIn(call[t].dir, Waiting(t), call[t].name)'
      BY <1>1 DEF Named, NewIn
    <2>2. Len(vnodes[c.dir].entry) \in Nat
      BY <1>1, VnodeFields
    <2>3. c.idx > Len(vnodes'[c.dir].entry)
      BY <2>2, <1>1, SMTT(30)
    <2> QED  BY <2>1, <2>3, <1>1 DEF Looked, OwnEntry
  <1>8. NoTwoFilesOneName'
    <2> SUFFICES ASSUME NEW d \in DOMAIN vnodes', d \notin lapped', vnodes'[d].fs = "tmpfs"
                 PROVE  OneName(d)'
      BY DEF NoTwoFilesOneName, OneName
    <2>1. d \in DOMAIN vnodes /\ OneName(d)
      BY <1>1, <1>2, NoTwo DEF NamesInv
    <2>2. NamedFiles(d)' = NamedFiles(d)
      <3>1. \A u \in Tasks : call'[u].pc = "name" <=> call[u].pc = "name"
        BY <1>1 DEF Adds
      <3>2. \A u \in Tasks : call[u].pc = "name" => call'[u] = call[u]
        BY <1>1 DEF Adds
      <3> QED  BY <3>1, <3>2, <1>1 DEF NamedFiles
    <2> QED  BY <2>1, <2>2, <1>1 DEF OneName
  <1> QED  BY <1>3, <1>5, <1>6, <1>7, <1>8 DEF NamesInv, Naming

\* The entries after a step: those before it, and the new vnode at one place.
Entered(d, k) ==
    \A e \in DOMAIN vnodes' : \A i \in DOMAIN vnodes'[e].entry :
        \/ e = d /\ i = k /\ vnodes'[e].entry[i] = Fresh
        \/ /\ e \in DOMAIN vnodes /\ i \in DOMAIN vnodes[e].entry
           /\ vnodes'[e].entry[i] = vnodes[e].entry[i]

LEMMA EnteredOne ==
    ASSUME Tree, OneEntry, NEW fs, NEW type, NEW name, Grows(fs, type, name),
           NEW d, NEW k, Entered(d, k)
    PROVE  OneEntry'
  <1>1. Fresh \notin DOMAIN vnodes
    BY Grown
  <1>2. \A e \in DOMAIN vnodes : \A i \in DOMAIN vnodes[e].entry : vnodes[e].entry[i] \in DOMAIN vnodes
    BY DEF Tree, Places, IsVnode
  <1> SUFFICES ASSUME NEW e \in DOMAIN vnodes', NEW f \in DOMAIN vnodes',
                      NEW i \in DOMAIN vnodes'[e].entry, NEW j \in DOMAIN vnodes'[f].entry,
                      vnodes'[e].entry[i] = vnodes'[f].entry[j]
               PROVE  e = f /\ i = j
    BY DEF OneEntry
  <1>3. /\ \/ e = d /\ i = k /\ vnodes'[e].entry[i] = Fresh
           \/ /\ e \in DOMAIN vnodes /\ i \in DOMAIN vnodes[e].entry
              /\ vnodes'[e].entry[i] = vnodes[e].entry[i]
        /\ \/ f = d /\ j = k /\ vnodes'[f].entry[j] = Fresh
           \/ /\ f \in DOMAIN vnodes /\ j \in DOMAIN vnodes[f].entry
              /\ vnodes'[f].entry[j] = vnodes[f].entry[j]
    BY DEF Entered
  <1> QED  BY <1>1, <1>2, <1>3 DEF OneEntry

\* A name that a call waits to give is of the entry it made.
LEMMA EnteredOwn ==
    ASSUME Tree, NEW fs, NEW type, NEW name, Grows(fs, type, name),
           NEW d, NEW k, Entered(d, k), NEW u \in Tasks, OwnEntry(u), call'[u] = call[u]
    PROVE  OwnEntry(u)'
  <1>1. Fresh \notin DOMAIN vnodes
    BY Grown
  <1>2. call[u].pc = "name" => call[u].idx \in DOMAIN vnodes
    BY DEF Tree, Places, IsVnode
  <1> QED  BY <1>1, <1>2 DEF OwnEntry, Entered

\* A task that adds elsewhere has still looked.
LEMMA LookedStays ==
    ASSUME Tree, NEW u \in Tasks, Looked(u), call'[u] = call[u], lapped \subseteq lapped',
           \A w \in DOMAIN vnodes : Kept(w),
           Adds(u) => /\ SameEntry(call[u].dir)
                      /\ \A i \in DOMAIN vnodes[call[u].dir].entry :
                            SameName(vnodes[call[u].dir].entry[i])
    PROVE  Looked(u)'
  <1> SUFFICES ASSUME Adds(u)', call'[u].dir \notin lapped'
               PROVE  /\ call'[u].type = "FILE" => NewIn(call[u].dir, Waiting(u), call[u].name)'
                      /\ call'[u].pc = "store" => call'[u].idx > Len(vnodes'[call'[u].dir].entry)
    BY DEF Looked
  <1>1. Adds(u) /\ call[u].dir \notin lapped /\ call[u].dir \in DOMAIN vnodes
    BY DEF Adds, Tree, Places, IsVnode
  <1>2. /\ call[u].type = "FILE" => NewIn(call[u].dir, Waiting(u), call[u].name)
        /\ call[u].pc = "store" => call[u].idx > Len(vnodes[call[u].dir].entry)
    BY <1>1 DEF Looked
  <1>3. Waiting(u)' = Waiting(u)
    BY DEF Waiting
  <1>4. call[u].type = "FILE" => NewIn(call[u].dir, Waiting(u), call[u].name)'
    <2>1. ASSUME call[u].type = "FILE", NEW d, d = call[u].dir, NEW v, v = Waiting(u),
                 NEW n, n = call[u].name
          PROVE  NewIn(d, v, n)'
      <3>1. d \in DOMAIN vnodes /\ NewIn(d, v, n)
        BY <2>1, <1>1, <1>2
      <3>2. SameEntry(d) /\ \A i \in DOMAIN vnodes[d].entry : SameName(vnodes[d].entry[i])
        BY <2>1, <1>1
      <3> QED  BY <3>1, <3>2, NewInStays
    <2> QED  BY <2>1, <1>3 DEF NewIn
  <1> QED  BY <1>1, <1>2, <1>4 DEF SameEntry

\* The entries of a directory that keep their vnodes keep their names.
LEMMA EntriesNamed ==
    ASSUME Tree, NEW d \in DOMAIN vnodes, \A v \in DOMAIN vnodes : SameName(v)
    PROVE  \A i \in DOMAIN vnodes[d].entry : SameName(vnodes[d].entry[i])
  BY DEF Tree, Places, IsVnode

\* A new vnode away from the directories of tmpfs.
LEMMA NamesElsewhere ==
    ASSUME Tree, NamesInv, NEW fs, NEW type, NEW name, Grows(fs, type, name),
           NEW d, NEW k, Entered(d, k), lapped' = lapped,
           \A v \in DOMAIN vnodes : vnodes[v].fs = "tmpfs" => SameEntry(v),
           \A u \in Tasks : call'[u] = call[u] \/ (~ Adds(u) /\ ~ Adds(u)')
    PROVE  NamesInv'
  <1>1. OneEntry'
    BY EnteredOne DEF NamesInv
  <1>2. \A u \in Tasks : (Adds(u)' <=> Adds(u)) /\ (Adds(u) => call'[u] = call[u])
    BY DEF Adds
  <1>3. OneAdder'
    BY <1>2 DEF NamesInv, Naming, OneAdder
  <1>4. /\ \A v \in DOMAIN vnodes : Kept(v) /\ SameName(v)
        /\ \A v \in DOMAIN vnodes' : v \in DOMAIN vnodes \/ v = Fresh
        /\ vnodes'[Fresh].entry = <<>>
    BY Grown DEF Grows
  <1>5. ASSUME NEW u \in Tasks PROVE Looked(u)' /\ OwnEntry(u)'
    <2>1. CASE call'[u] = call[u]
      <3>1. Looked(u) /\ OwnEntry(u)
        BY DEF NamesInv, Naming
      <3>2. Adds(u) => call[u].dir \in DOMAIN vnodes /\ SameEntry(call[u].dir)
        BY DEF Tree, Places, IsVnode
      <3>3. Adds(u) => \A i \in DOMAIN vnodes[call[u].dir].entry :
                            SameName(vnodes[call[u].dir].entry[i])
        BY <3>2, <1>4, EntriesNamed
      <3>4. Looked(u)'
        BY <2>1, <3>1, <3>2, <3>3, <1>4, LookedStays
      <3>5. OwnEntry(u)'
        BY <2>1, <3>1, EnteredOwn
      <3> QED  BY <3>4, <3>5
    <2>2. CASE ~ Adds(u) /\ ~ Adds(u)'
      BY <2>2 DEF Looked, OwnEntry, Adds
    <2> QED  BY <2>1, <2>2
  <1>6. NoTwoFilesOneName'
    <2> SUFFICES ASSUME NEW e \in DOMAIN vnodes', e \notin lapped', vnodes'[e].fs = "tmpfs"
                 PROVE  OneName(e)'
      BY DEF NoTwoFilesOneName, OneName
    <2>1. CASE e = Fresh
      BY <2>1, <1>4 DEF OneName, NamedFiles
    <2>2. CASE e \in DOMAIN vnodes
      <3>1. OneName(e) /\ SameEntry(e)
        BY <2>2, <1>4, NoTwo DEF NamesInv, Kept
      <3>2. \A i \in DOMAIN vnodes[e].entry :
                /\ SameName(vnodes[e].entry[i]) /\ Kept(vnodes[e].entry[i])
        BY <2>2, <1>4 DEF Tree, Places, IsVnode
      <3>3. ASSUME NEW i \in NamedFiles(e)'
            PROVE  i \in NamedFiles(e) /\ vnodes'[e].entry[i] = vnodes[e].entry[i]
                   /\ SameName(vnodes[e].entry[i])
        <4>1. /\ i \in DOMAIN vnodes[e].entry /\ vnodes'[e].entry[i] = vnodes[e].entry[i]
              /\ vnodes'[vnodes[e].entry[i]].type = "FILE"
              /\ \A t \in Tasks : call'[t].pc = "name" => call'[t].idx # vnodes[e].entry[i]
          BY <3>1, <3>3 DEF NamedFiles, SameEntry
        <4>2. \A t \in Tasks : call[t].pc = "name" => call'[t] = call[t]
          BY <1>2 DEF Adds
        <4> QED  BY <3>2, <4>1, <4>2 DEF NamedFiles, Kept
      <3> QED  BY <2>2, <3>1, <3>3, OneNameStays
    <2> QED  BY <2>1, <2>2, <1>4
  <1> QED  BY <1>1, <1>3, <1>5, <1>6 DEF NamesInv, Naming

LEMMA SetupNames == ASSUME Tree, NamesInv, NEW t \in Tasks, Setup(t) PROVE NamesInv'
  <1>1. /\ lapped' = lapped /\ call[t].pc = "setup"
        /\ Grows(call[t].fs, "DIR", <<>>) /\ \A v \in DOMAIN vnodes : SameEntry(v)
        /\ call'[t].pc \in {"user", "list"}
        /\ \A u \in Tasks \ {t} : call'[u] = call[u]
    BY SetupStep
  <1>2. /\ \A v \in DOMAIN vnodes' : v \in DOMAIN vnodes \/ v = Fresh
        /\ vnodes'[Fresh].entry = <<>>
    BY <1>1, Grown
  <1>3. Entered(0, 0)
    BY <1>1, <1>2 DEF Entered, SameEntry
  <1>4. \A u \in Tasks : call'[u] = call[u] \/ (~ Adds(u) /\ ~ Adds(u)')
    BY <1>1 DEF Adds
  <1> QED  BY <1>1, <1>3, <1>4, NamesElsewhere

LEMMA FillNames == ASSUME Tree, NamesInv, NEW t \in Tasks, Fill(t) PROVE NamesInv'
  <1> DEFINE d == call[t].dir
             grown == /\ Grows("initramfs", "FILE", files[call[t].idx])
                      /\ \A e \in DOMAIN vnodes : e # d => SameEntry(e)
                      /\ vnodes'[d].entry = Append(vnodes[d].entry, Fresh)
                      /\ call'[t] = [pc |-> "fill", dir |-> d, idx |-> call[t].idx + 1]
  <1>1. /\ lapped' = lapped /\ call[t].pc = "fill"
        /\ (vnodes' = vnodes /\ call'[t].pc \in {"user", "wild"}) \/ grown
        /\ \A u \in Tasks \ {t} : call'[u] = call[u]
    BY FillStep
  <1>2. CASE vnodes' = vnodes /\ call'[t].pc \in {"user", "wild"}
    <2>1. SameTree
      BY <1>2 DEF SameTree, Kept, SameEntry, SameName
    <2>2. \A u \in Tasks : call'[u] = call[u] \/ (~ Adds(u) /\ ~ Adds(u)')
      BY <1>1, <1>2 DEF Adds
    <2> QED  BY <1>1, <2>1, <2>2, NamesStay
  <1>3. CASE grown
    <2>1. call'[t].pc = "fill"
      BY ONLY <1>3
    <2>2. \A u \in Tasks : call'[u] = call[u] \/ (~ Adds(u) /\ ~ Adds(u)')
      BY <1>1, <2>1, SMTT(30) DEF Adds
    <2>3. d \in DOMAIN vnodes /\ vnodes[d].fs = "initramfs"
      BY <1>1 DEF Tree, Places, Mounts, IsVnode, IsArchive
    <2>4. \A v \in DOMAIN vnodes : vnodes[v].fs = "tmpfs" => SameEntry(v)
      BY <1>3, <2>3
    <2>5. ASSUME NEW e, e = d PROVE Entered(e, Len(vnodes[e].entry) + 1)
      <3> DEFINE old == vnodes[e].entry
                 new == vnodes'[e].entry
      <3>1. old \in Seq(Nat) /\ Fresh \in Nat /\ new = Append(old, Fresh)
        BY <1>3, <2>3, <2>5, VnodeFields DEF Fresh
      <3> HIDE DEF old, new
      <3>2. /\ DOMAIN new = 1 .. Len(old) + 1 /\ DOMAIN old = 1 .. Len(old) /\ Len(old) \in Nat
            /\ new[Len(old) + 1] = Fresh /\ \A i \in 1 .. Len(old) : new[i] = old[i]
        BY ONLY <3>1, AppendSeq
      <3>3. \A i \in DOMAIN new : \/ i = Len(old) + 1 /\ new[i] = Fresh
                                  \/ i \in DOMAIN old /\ new[i] = old[i]
        BY ONLY <3>2
      <3>4. /\ \A v \in DOMAIN vnodes' : v \in DOMAIN vnodes \/ v = Fresh
            /\ vnodes'[Fresh].entry = <<>>
        BY <1>3, Grown
      <3>5. \A v \in DOMAIN vnodes : v # e => vnodes'[v].entry = vnodes[v].entry
        BY <1>3, <2>5 DEF SameEntry
      <3> QED  BY <2>3, <2>5, <3>3, <3>4, <3>5 DEF Entered, old, new
    <2>6. Entered(d, Len(vnodes[d].entry) + 1)
      BY <2>5
    <2> QED  BY <1>1, <1>3, <2>2, <2>4, <2>6, NamesElsewhere
  <1> QED  BY <1>1, <1>2, <1>3

LEMMA StoreNames == ASSUME Tree, NamesInv, NEW t \in Tasks, Store(t) PROVE NamesInv'
  <1> DEFINE d == call[t].dir
  <1>1. /\ Grows("tmpfs", call[t].type, <<>>)
        /\ \A e \in DOMAIN vnodes : e # d => SameEntry(e)
        /\ \E k : \A i \in DOMAIN vnodes'[d].entry :
              \/ i = k /\ vnodes'[d].entry[i] = Fresh
              \/ i # k /\ i \in DOMAIN vnodes[d].entry
                 /\ vnodes'[d].entry[i] = vnodes[d].entry[i]
        /\ call'[t].pc = "name" /\ call'[t].idx = Fresh /\ call'[t].dir = d
        /\ call'[t].type = call[t].type /\ call'[t].name = call[t].name
        /\ \A u \in Tasks \ {t} : call'[u] = call[u]
    BY StoreStep
  <1>2. call[t].pc = "store" /\ lapped' = lapped
    BY DEF Store, At
  <1>3. d \in DOMAIN vnodes /\ Adds(t) /\ Adds(t)'
    BY <1>1, <1>2 DEF Tree, Places, Adds, IsVnode
  <1>4. /\ \A v \in DOMAIN vnodes : Kept(v) /\ SameName(v) /\ v # Fresh
        /\ \A v \in DOMAIN vnodes' : v \in DOMAIN vnodes \/ v = Fresh
        /\ vnodes'[Fresh].entry = <<>> /\ Fresh # 0
    <2>1. Fresh # 0
      BY VnodeFields DEF Fresh
    <2> QED  BY <2>1, <1>1, Grown DEF Grows
  <1>5. PICK k : \A i \in DOMAIN vnodes'[d].entry :
              \/ i = k /\ vnodes'[d].entry[i] = Fresh
              \/ i # k /\ i \in DOMAIN vnodes[d].entry
                 /\ vnodes'[d].entry[i] = vnodes[d].entry[i]
    BY <1>1
  <1>6. Entered(d, k)
    <2> SUFFICES ASSUME NEW e \in DOMAIN vnodes', NEW i \in DOMAIN vnodes'[e].entry
                 PROVE  \/ e = d /\ i = k /\ vnodes'[e].entry[i] = Fresh
                        \/ /\ e \in DOMAIN vnodes /\ i \in DOMAIN vnodes[e].entry
                           /\ vnodes'[e].entry[i] = vnodes[e].entry[i]
      BY DEF Entered
    <2>1. CASE e = d
      <3>1. i \in DOMAIN vnodes'[d].entry
        BY <2>1
      <3> QED  BY <2>1, <3>1, <1>3, <1>5
    <2>2. CASE e # d /\ e \in DOMAIN vnodes
      BY <2>2, <1>1 DEF SameEntry
    <2>3. CASE e = Fresh
      BY <2>3, <1>4
    <2> QED  BY <2>1, <2>2, <2>3, <1>4
  <1>7. OneEntry'
    BY <1>1, <1>6, EnteredOne DEF NamesInv
  <1>8. \A u \in Tasks : (Adds(u)' <=> Adds(u)) /\ (Adds(u) => call'[u].dir = call[u].dir)
    BY <1>1, <1>3 DEF Adds
  <1>9. OneAdder'
    BY <1>2, <1>8 DEF NamesInv, Naming, OneAdder
  <1>10. \A i \in DOMAIN vnodes'[d].entry :
            \/ vnodes'[d].entry[i] = Fresh
            \/ /\ i \in DOMAIN vnodes[d].entry /\ vnodes'[d].entry[i] = vnodes[d].entry[i]
               /\ vnodes[d].entry[i] \in DOMAIN vnodes
    BY <1>3, <1>5 DEF Tree, Places, IsVnode
  <1>11. ASSUME NEW u \in Tasks \ {t} PROVE Looked(u)' /\ OwnEntry(u)'
    <2>1. Looked(u) /\ OwnEntry(u) /\ call'[u] = call[u]
      BY <1>1 DEF NamesInv, Naming
    <2>2. OwnEntry(u)'
      BY <2>1, <1>1, <1>6, EnteredOwn
    <2>3. CASE Adds(u) /\ call[u].dir \notin lapped
      <3>1. call[u].dir # d
        BY <1>3, <2>3 DEF NamesInv, Naming, OneAdder
      <3>2. call[u].dir \in DOMAIN vnodes /\ SameEntry(call[u].dir)
        BY <1>1, <2>3, <3>1 DEF Tree, Places, IsVnode
      <3>3. \A i \in DOMAIN vnodes[call[u].dir].entry : SameName(vnodes[call[u].dir].entry[i])
        BY <3>2, <1>4, EntriesNamed
      <3> QED  BY <2>1, <2>2, <3>2, <3>3, <1>2, <1>4, LookedStays
    <2>4. CASE ~ (Adds(u) /\ call[u].dir \notin lapped)
      BY <2>1, <2>2, <2>4, <1>2, <1>8 DEF Looked
    <2> QED  BY <2>3, <2>4
  <1>12. Looked(t)'
    <2> SUFFICES ASSUME call'[t].dir \notin lapped', call'[t].type = "FILE"
                 PROVE  NewIn(call[t].dir, Waiting(t), call[t].name)'
      BY <1>1 DEF Looked
    <2>1. NewIn(d, Waiting(t), call[t].name) /\ Waiting(t) = 0 /\ Waiting(t)' = Fresh
      BY <1>1, <1>2, <1>3 DEF NamesInv, Naming, Looked, Waiting
    <2>2. \A w \in DOMAIN vnodes : vnodes'[w].type = vnodes[w].type /\ vnodes'[w].name = vnodes[w].name
      BY <1>4 DEF Kept, SameName
    <2>3. 0 \notin DOMAIN vnodes
      BY VnodeFields
    <2>4. ASSUME NEW i \in DOMAIN vnodes'[d].entry, vnodes'[d].entry[i] # Fresh,
                 vnodes'[vnodes'[d].entry[i]].type = "FILE"
          PROVE  vnodes'[vnodes'[d].entry[i]].name # call[t].name
      <3>1. /\ i \in DOMAIN vnodes[d].entry /\ vnodes'[d].entry[i] = vnodes[d].entry[i]
            /\ vnodes[d].entry[i] \in DOMAIN vnodes
        BY <1>10, <2>4, SMTT(30)
      <3>2. vnodes[vnodes[d].entry[i]].name # call[t].name
        BY <3>1, <2>1, <2>2, <2>3, <2>4 DEF NewIn, IsFile
      <3> QED  BY <3>1, <3>2, <2>2
    <2> QED  BY <2>1, <2>4, <1>1 DEF NewIn, IsFile
  <1>13. OwnEntry(t)'
    <2>1. ASSUME NEW e \in DOMAIN vnodes', NEW i \in DOMAIN vnodes'[e].entry,
                 vnodes'[e].entry[i] = Fresh
          PROVE  e = d
      <3>1. \A f \in DOMAIN vnodes : \A j \in DOMAIN vnodes[f].entry : vnodes[f].entry[j] # Fresh
        BY <1>4 DEF Tree, Places, IsVnode
      <3> QED  BY <2>1, <3>1, <1>6 DEF Entered
    <2> QED  BY <2>1, <1>1 DEF OwnEntry
  <1>14. NoTwoFilesOneName'
    <2> SUFFICES ASSUME NEW e \in DOMAIN vnodes', e \notin lapped', vnodes'[e].fs = "tmpfs"
                 PROVE  OneName(e)'
      BY DEF NoTwoFilesOneName, OneName
    <2>1. CASE e = Fresh
      BY <2>1, <1>4 DEF OneName, NamedFiles
    <2>2. CASE e \in DOMAIN vnodes
      <3>1. OneName(e)
        BY <2>2, <1>2, <1>4, NoTwo DEF NamesInv, Kept
      <3>2. ASSUME NEW i \in NamedFiles(e)'
            PROVE  i \in NamedFiles(e) /\ vnodes'[e].entry[i] = vnodes[e].entry[i]
                   /\ SameName(vnodes[e].entry[i])
        <4>1. /\ i \in DOMAIN vnodes'[e].entry /\ vnodes'[vnodes'[e].entry[i]].type = "FILE"
              /\ \A u \in Tasks : call'[u].pc = "name" => call'[u].idx # vnodes'[e].entry[i]
          BY <3>2 DEF NamedFiles
        <4>2. vnodes'[e].entry[i] # Fresh
          BY <4>1, <1>1
        <4>3. i \in DOMAIN vnodes[e].entry /\ vnodes'[e].entry[i] = vnodes[e].entry[i]
          BY <2>2, <4>1, <4>2, <1>6 DEF Entered
        <4>4. vnodes[e].entry[i] \in DOMAIN vnodes
          BY <2>2, <4>3 DEF Tree, Places, IsVnode
        <4>5. \A u \in Tasks : call[u].pc = "name" => call'[u] = call[u]
          BY <1>1, <1>2
        <4> QED  BY <4>1, <4>3, <4>4, <4>5, <1>4 DEF NamedFiles, Kept
      <3> QED  BY <2>2, <3>1, <3>2, OneNameStays
    <2> QED  BY <2>1, <2>2, <1>4
  <1> QED  BY <1>7, <1>9, <1>11, <1>12, <1>13, <1>14 DEF NamesInv, Naming

LEMMA NameItNames == ASSUME Tree, NamesInv, NEW t \in Tasks, NameIt(t) PROVE NamesInv'
  <1> DEFINE d == call[t].dir
             x == call[t].idx
  <1>1. /\ DOMAIN vnodes' = DOMAIN vnodes
        /\ \A v \in DOMAIN vnodes : Kept(v) /\ SameEntry(v) /\ (v # x => SameName(v))
        /\ vnodes'[x].name = call[t].name
        /\ call'[t].pc = "user" /\ \A u \in Tasks \ {t} : call'[u] = call[u]
    BY NameStep
  <1>2. call[t].pc = "name" /\ lapped' = lapped /\ Adds(t) /\ ~ Adds(t)'
    BY <1>1 DEF NameIt, At, Adds
  <1>3. d \in DOMAIN vnodes /\ call[t].type = vnodes[x].type
    BY <1>2 DEF Tree, Places, IsVnode
  <1>4. OneEntry'
    BY <1>1 DEF NamesInv, OneEntry, SameEntry
  <1>5. \A u \in Tasks \ {t} : (Adds(u)' <=> Adds(u)) /\ call'[u] = call[u]
    BY <1>1 DEF Adds
  <1>6. OneAdder'
    BY <1>2, <1>5 DEF NamesInv, Naming, OneAdder
  <1>7. ASSUME NEW e \in DOMAIN vnodes, e # d
        PROVE  \A i \in DOMAIN vnodes[e].entry :
                vnodes[e].entry[i] # x /\ SameName(vnodes[e].entry[i])
    BY <1>1, <1>2, <1>7 DEF NamesInv, Naming, OwnEntry, Tree, Places, IsVnode
  <1>8. ASSUME NEW u \in Tasks \ {t} PROVE Looked(u)' /\ OwnEntry(u)'
    <2>1. Looked(u) /\ OwnEntry(u) /\ call'[u] = call[u]
      BY <1>1 DEF NamesInv, Naming
    <2>2. OwnEntry(u)'
      BY <2>1, <1>1 DEF OwnEntry, SameEntry
    <2>3. CASE Adds(u) /\ call[u].dir \notin lapped
      <3>1. call[u].dir # d
        BY <1>2, <2>3 DEF NamesInv, Naming, OneAdder
      <3>2. call[u].dir \in DOMAIN vnodes /\ SameEntry(call[u].dir)
        BY <1>1, <2>3 DEF Tree, Places, IsVnode
      <3>3. \A i \in DOMAIN vnodes[call[u].dir].entry : SameName(vnodes[call[u].dir].entry[i])
        BY <3>1, <3>2, <1>7
      <3> QED  BY <2>1, <2>2, <3>2, <3>3, <1>1, <1>2, LookedStays
    <2>4. CASE ~ (Adds(u) /\ call[u].dir \notin lapped)
      BY <2>1, <2>2, <2>4, <1>2, <1>5 DEF Looked
    <2> QED  BY <2>3, <2>4
  <1>9. Looked(t)' /\ OwnEntry(t)'
    BY <1>1, <1>2 DEF Looked, OwnEntry
  <1>10. NoTwoFilesOneName'
    <2> SUFFICES ASSUME NEW e \in DOMAIN vnodes', e \notin lapped', vnodes'[e].fs = "tmpfs"
                 PROVE  OneName(e)'
      BY DEF NoTwoFilesOneName, OneName
    <2>1. e \in DOMAIN vnodes /\ OneName(e) /\ SameEntry(e)
      BY <1>1, <1>2, NoTwo DEF NamesInv, Kept
    <2>2. \A i \in DOMAIN vnodes[e].entry : vnodes[e].entry[i] \in DOMAIN vnodes
      BY <2>1 DEF Tree, Places, IsVnode
    <2>3. ASSUME NEW i \in NamedFiles(e)'
          PROVE  /\ i \in DOMAIN vnodes[e].entry /\ vnodes'[e].entry[i] = vnodes[e].entry[i]
                 /\ IsFile(vnodes[e].entry[i])
                 /\ vnodes[e].entry[i] # x => i \in NamedFiles(e) /\ SameName(vnodes[e].entry[i])
      <3>1. /\ i \in DOMAIN vnodes[e].entry /\ vnodes'[e].entry[i] = vnodes[e].entry[i]
            /\ vnodes'[vnodes[e].entry[i]].type = "FILE"
            /\ \A u \in Tasks : call'[u].pc = "name" => call'[u].idx # vnodes[e].entry[i]
        BY <2>1, <2>3 DEF NamedFiles, SameEntry
      <3>2. IsFile(vnodes[e].entry[i])
        BY <3>1, <2>2, <1>1 DEF IsFile, Kept
      <3>3. vnodes[e].entry[i] # x => i \in NamedFiles(e) /\ SameName(vnodes[e].entry[i])
        BY <3>1, <3>2, <2>2, <1>1 DEF NamedFiles, IsFile
      <3> QED  BY <3>1, <3>2, <3>3
    <2>4. CASE e # d
      <3>1. \A i \in DOMAIN vnodes[e].entry : vnodes[e].entry[i] # x
        BY <2>1, <2>4, <1>7
      <3> QED  BY <2>1, <2>3, <3>1, OneNameStays
    <2>5. CASE e = d
      <3>1. ASSUME NEW i \in NamedFiles(e)', NEW j \in NamedFiles(e)', i # j
            PROVE  vnodes'[vnodes'[e].entry[i]].name # vnodes'[vnodes'[e].entry[j]].name
        <4> DEFINE v == vnodes[e].entry[i]
                   w == vnodes[e].entry[j]
        <4>1. /\ i \in DOMAIN vnodes[e].entry /\ vnodes'[e].entry[i] = v /\ IsFile(v)
              /\ v # x => i \in NamedFiles(e) /\ SameName(v)
              /\ j \in DOMAIN vnodes[e].entry /\ vnodes'[e].entry[j] = w /\ IsFile(w)
              /\ w # x => j \in NamedFiles(e) /\ SameName(w)
          BY <3>1, <2>3
        <4>2. v # w
          BY <2>1, <3>1, <4>1 DEF NamesInv, OneEntry
        <4>3. ASSUME NEW k \in DOMAIN vnodes[e].entry, IsFile(x) , IsFile(vnodes[e].entry[k]),
                     vnodes[e].entry[k] # x
              PROVE  vnodes[vnodes[e].entry[k]].name # call[t].name
          <5>1. call[t].type = "FILE"
            BY <4>3, <1>3 DEF IsFile
          <5>2. NewIn(d, x, call[t].name)
            BY <5>1, <1>2, <2>5 DEF NamesInv, Naming, Looked, Waiting
          <5> QED  BY <5>2, <2>5, <4>3 DEF NewIn
        <4>4. CASE v = x
          <5>1. vnodes[w].name # call[t].name
            BY <4>1, <4>2, <4>3, <4>4
          <5> QED  BY <5>1, <4>1, <4>2, <4>4, <1>1 DEF SameName
        <4>5. CASE w = x
          <5>1. vnodes[v].name # call[t].name
            BY <4>1, <4>2, <4>3, <4>5
          <5> QED  BY <5>1, <4>1, <4>2, <4>5, <1>1 DEF SameName
        <4>6. CASE v # x /\ w # x
          <5>1. vnodes[v].name # vnodes[w].name
            BY <2>1, <3>1, <4>1, <4>6 DEF OneName
          <5> QED  BY <5>1, <4>1, <4>6 DEF SameName
        <4> QED  BY <4>4, <4>5, <4>6
      <3> QED  BY <3>1 DEF OneName
    <2> QED  BY <2>4, <2>5
  <1> QED  BY <1>4, <1>6, <1>8, <1>9, <1>10 DEF NamesInv, Naming

LEMMA NamesNext == ASSUME Tree, NamesInv, [Next]_vars PROVE NamesInv'
  BY Moves, QuietNames, JoinsNames, StoreNames, NameItNames, SetupNames, ListNames, FillNames
  DEF Changes

LEMMA InitNames == ASSUME Init PROVE NamesInv
  <1>1. \A t \in Tasks : ~ Adds(t)
    BY DEF Init, Adds, Idle
  <1>2. /\ DOMAIN vnodes = 1 .. Len(Archive) + 3 /\ Len(Archive) \in Nat
        /\ vnodes[1].entry = <<2>> /\ vnodes[2].entry = <<>> /\ vnodes[3].fs = "initramfs"
        /\ vnodes[3].entry = [i \in 1 .. Len(Archive) |-> i + 3]
        /\ \A i \in 1 .. Len(Archive) : vnodes[i + 3].entry = <<>>
    BY InitTree
  <1>3. ASSUME NEW d \in DOMAIN vnodes, NEW i \in DOMAIN vnodes[d].entry
        PROVE  \/ d = 1 /\ i = 1 /\ vnodes[d].entry[i] = 2
               \/ d = 3 /\ i \in 1 .. Len(Archive) /\ vnodes[d].entry[i] = i + 3
    <2>1. CASE d = 1
      BY <2>1, <1>2, <1>3
    <2>2. CASE d = 2
      BY <2>2, <1>2, <1>3
    <2>3. CASE d = 3
      BY <2>3, <1>2, <1>3
    <2>4. CASE d > 3
      <3>1. d - 3 \in 1 .. Len(Archive) /\ d = (d - 3) + 3
        BY <1>2, <2>4
      <3>2. vnodes[d].entry = <<>>
        BY <3>1, <1>2
      <3> QED  BY <3>2, <1>3
    <2> QED  BY <2>1, <2>2, <2>3, <2>4, <1>2
  <1>4. OneEntry
    <2> SUFFICES ASSUME NEW d \in DOMAIN vnodes, NEW e \in DOMAIN vnodes,
                        NEW i \in DOMAIN vnodes[d].entry, NEW j \in DOMAIN vnodes[e].entry,
                        vnodes[d].entry[i] = vnodes[e].entry[j]
                 PROVE  d = e /\ i = j
      BY DEF OneEntry
    <2>1. /\ \/ d = 1 /\ i = 1 /\ vnodes[d].entry[i] = 2
             \/ d = 3 /\ i \in 1 .. Len(Archive) /\ vnodes[d].entry[i] = i + 3
          /\ \/ e = 1 /\ j = 1 /\ vnodes[e].entry[j] = 2
             \/ e = 3 /\ j \in 1 .. Len(Archive) /\ vnodes[e].entry[j] = j + 3
      BY <1>3
    <2> QED  BY <2>1, <1>2
  <1>5. ASSUME NEW d \in DOMAIN vnodes, vnodes[d].fs = "tmpfs" PROVE OneName(d)
    <2>1. d # 3
      BY <1>2, <1>5
    <2>2. \A i \in DOMAIN vnodes[d].entry : i = 1
      BY <1>3, <2>1
    <2> QED  BY <2>2 DEF OneName, NamedFiles
  <1>6. \A t \in Tasks : Looked(t) /\ OwnEntry(t)
    BY <1>1 DEF Looked, OwnEntry, Adds
  <1> QED  BY <1>1, <1>4, <1>5, <1>6, NoTwo DEF NamesInv, Naming, OneAdder

\* tmpfs_create: a directory gets no second file of a name it has, unless two
\* calls were adding to it at once.
THEOREM NamesAlwaysApart == Spec => []NoTwoFilesOneName
  <1>1. Init => Tree /\ NamesInv
    BY InitTree, InitNames
  <1>2. Tree /\ NamesInv /\ [Next]_vars => (Tree /\ NamesInv)'
    BY TreeNext, NamesNext
  <1>3. NamesInv => NoTwoFilesOneName
    BY DEF NamesInv
  <1> QED  BY <1>1, <1>2, <1>3, PTL DEF Spec

-----------------------------------------------------------------------------
(* Fork                                                                    *)

\* A step of a task outside fork changes its own files and directory alone,
\* and makes it hasty if its parent still copies.
OwnStep(t) ==
    /\ call[t].pc \notin {"fork", "copy", "unborn"}
    /\ call'[t].pc \notin {"fork", "copy", "unborn"}
    /\ \A u \in Tasks \ {t} : call'[u] = call[u] /\ fds'[u] = fds[u] /\ cwd'[u] = cwd[u]
    /\ hasty \subseteq hasty'
    /\ UNCHANGED <<fds, cwd>> \/ Acts(t)

LEMMA ActsHasty ==
    ASSUME NEW t \in Tasks, Acts(t)
    PROVE  hasty \subseteq hasty' /\ (Awaits(t) => t \in hasty')
  BY DEF Acts

LEMMA OwnForks == ASSUME ForkInv, NEW t \in Tasks, OwnStep(t) PROVE ForkInv'
  <1>1. /\ ~ Forks(t) /\ ~ Forks(t)' /\ call[t].pc # "unborn" /\ call'[t].pc # "unborn"
        /\ \A u \in Tasks \ {t} : call'[u] = call[u] /\ fds'[u] = fds[u] /\ cwd'[u] = cwd[u]
        /\ hasty \subseteq hasty'
    BY DEF OwnStep, Forks
  <1>2. UNCHANGED <<fds, cwd>> \/ ((\E u \in Tasks : Forks(u) /\ call[u].child = t) => t \in hasty')
    BY ActsHasty DEF OwnStep, Awaits, Forks
  <1>3. \A u \in Tasks : (Forks(u)' <=> Forks(u)) /\ (Forks(u) => u # t /\ call'[u] = call[u])
    BY <1>1 DEF Forks
  <1>4. \A u \in Tasks : call'[u].pc = "unborn" <=> call[u].pc = "unborn"
    BY <1>1
  <1>5. \A u \in Tasks : call'[u].pc = "unborn" => \A fd \in Fds : Empty(u, fd)'
    BY <1>1 DEF ForkInv, Empty
  <1>6. ASSUME NEW u \in Tasks, Forks(u)'
        PROVE  /\ call'[u].child \in Tasks /\ call'[u].child # u
               /\ call'[call'[u].child].pc # "unborn"
               /\ \A w \in Tasks : w # u /\ Forks(w)' => call'[w].child # call'[u].child
    BY <1>3, <1>4, <1>6 DEF ForkInv
  <1>7. ASSUME NEW u \in Tasks PROVE Copied(u)'
    <2> SUFFICES ASSUME Forks(u)', call'[u].child \notin hasty' PROVE Copied(u)'
      BY DEF Copied
    <2>1. /\ Forks(u) /\ u # t /\ call'[u] = call[u] /\ call[u].child \notin hasty
          /\ call[u].child \in Tasks
      BY <1>1, <1>3 DEF ForkInv
    <2>2. fds'[u] = fds[u] /\ cwd'[u] = cwd[u]
      BY <1>1, <2>1
    <2>3. fds'[call[u].child] = fds[call[u].child] /\ cwd'[call[u].child] = cwd[call[u].child]
      BY <1>1, <1>2, <2>1
    <2>4. Copied(u)
      BY DEF ForkInv
    <2> QED  BY <1>3, <2>1, <2>2, <2>3, <2>4 DEF Copied, Empty
  <1> QED  BY <1>5, <1>6, <1>7 DEF ForkInv

LEMMA ForkForks ==
    ASSUME Typed, ForkInv, NEW t \in Tasks, NEW child \in Tasks, Fork(t, child)
    PROVE  ForkInv'
  <1> DEFINE c == [pc |-> "fork", child |-> child]
  <1>1. /\ t # child /\ call'[t] = c /\ call'[child] = Idle
        /\ \A u \in Tasks \ {t, child} : call'[u] = call[u]
    BY ForkStep
  <1>2. /\ call[t].pc = "user" /\ call[child].pc = "unborn"
        /\ UNCHANGED <<fds, cwd>> /\ hasty \subseteq hasty' /\ (Awaits(t) => child \in hasty')
    BY DEF Fork, At, PassesOn
  <1>3. /\ call'[t].pc = "fork" /\ call'[t].child = child /\ call'[child].pc = "user"
    BY <1>1 DEF Idle
  <1> HIDE DEF c
  <1>4. /\ ~ Forks(t) /\ Forks(t)' /\ ~ Forks(child) /\ ~ Forks(child)'
        /\ \A u \in Tasks : Forks(u)' /\ u # t => Forks(u) /\ call'[u] = call[u] /\ u # child
    BY <1>1, <1>2, <1>3 DEF Forks
  <1>5. \A u \in Tasks : call'[u].pc = "unborn" => call[u].pc = "unborn"
    BY <1>1, <1>3
  <1>6. \A u \in Tasks : call'[u].pc = "unborn" => \A fd \in Fds : Empty(u, fd)'
    BY <1>2, <1>5 DEF ForkInv, Empty
  <1>7. \A u \in Tasks : Forks(u) => call[u].child # child
    BY <1>2 DEF ForkInv
  <1>8. ASSUME NEW u \in Tasks, Forks(u)'
        PROVE  /\ call'[u].child \in Tasks /\ call'[u].child # u
               /\ call'[call'[u].child].pc # "unborn"
               /\ \A w \in Tasks : w # u /\ Forks(w)' => call'[w].child # call'[u].child
    <2>1. CASE u = t
      BY <2>1, <1>1, <1>3, <1>4, <1>7
    <2>2. CASE u # t
      <3>1. Forks(u) /\ call'[u] = call[u] /\ call[u].child # child
        BY <2>2, <1>4, <1>7, <1>8
      <3> QED  BY <2>2, <3>1, <1>3, <1>4, <1>5 DEF ForkInv
    <2> QED  BY <2>1, <2>2
  <1>9. ASSUME NEW u \in Tasks PROVE Copied(u)'
    <2> SUFFICES ASSUME Forks(u)', call'[u].child \notin hasty' PROVE Copied(u)'
      BY DEF Copied
    <2>1. CASE u = t
      <3>1. \A w \in Tasks : Forks(w) => call[w].child # t
        BY <2>1, <1>2, <1>3 DEF Awaits, Forks
      <3>2. \A w \in Tasks : Forks(w)' => call'[w].child # t
        BY <3>1, <1>1, <1>3, <1>4
      <3>3. \A fd \in Fds : Empty(child, fd)'
        BY <1>2 DEF ForkInv, Empty
      <3> QED  BY <2>1, <3>2, <3>3, <1>3 DEF Copied, Empty
    <2>2. CASE u # t
      <3>1. Forks(u) /\ call'[u] = call[u] /\ u # child /\ Copied(u) /\ call[u].child \notin hasty
        BY <2>2, <1>2, <1>4 DEF ForkInv
      <3>2. \A w \in Tasks : Forks(w)' => call'[w].child # u
        BY <3>1, <1>3, <1>4 DEF Copied
      <3> QED  BY <3>1, <3>2, <1>2 DEF Copied, Empty
    <2> QED  BY <2>1, <2>2
  <1> QED  BY <1>6, <1>8, <1>9 DEF ForkInv

\* Fork goes on: the parent has the same child, whose files and directory
\* alone change.
CopyStep(t) ==
    /\ Forks(t)
    /\ \A u \in Tasks \ {t} : call'[u] = call[u]
    /\ Forks(t)' => call'[t].child = call[t].child
    /\ call'[t].pc # "unborn" /\ hasty' = hasty
    /\ \A u \in Tasks \ {call[t].child} : fds'[u] = fds[u] /\ cwd'[u] = cwd[u]

LEMMA CopyForks ==
    ASSUME ForkInv, NEW t \in Tasks, CopyStep(t), Copied(t)'
    PROVE  ForkInv'
  <1>1. /\ Forks(t) /\ call[t].child \in Tasks /\ call[t].child # t
        /\ call[call[t].child].pc # "unborn" /\ call[t].pc # "unborn"
    BY DEF CopyStep, ForkInv, Forks
  <1>2. /\ \A u \in Tasks \ {t} : call'[u] = call[u]
        /\ Forks(t)' => call'[t].child = call[t].child
        /\ call'[t].pc # "unborn" /\ hasty' = hasty
        /\ \A u \in Tasks \ {call[t].child} : fds'[u] = fds[u] /\ cwd'[u] = cwd[u]
    BY DEF CopyStep
  <1>3. \A u \in Tasks : Forks(u)' => Forks(u) /\ call'[u].child = call[u].child
    BY <1>1, <1>2 DEF Forks
  <1>4. \A u \in Tasks : call'[u].pc = "unborn" => call[u].pc = "unborn" /\ fds'[u] = fds[u]
    BY <1>1, <1>2
  <1>5. \A u \in Tasks : call'[u].pc = "unborn" => \A fd \in Fds : Empty(u, fd)'
    BY <1>4 DEF ForkInv, Empty
  <1>6. ASSUME NEW u \in Tasks, Forks(u)'
        PROVE  /\ call'[u].child \in Tasks /\ call'[u].child # u
               /\ call'[call'[u].child].pc # "unborn"
               /\ \A w \in Tasks : w # u /\ Forks(w)' => call'[w].child # call'[u].child
    BY <1>3, <1>4, <1>6 DEF ForkInv
  <1>7. ASSUME NEW u \in Tasks, u # t PROVE Copied(u)'
    <2> SUFFICES ASSUME Forks(u)', call'[u].child \notin hasty' PROVE Copied(u)'
      BY DEF Copied
    <2>1. Copied(u) /\ Forks(u) /\ call'[u] = call[u] /\ call[u].child \notin hasty
      BY <1>2, <1>3, <1>7 DEF ForkInv
    <2>2. /\ \A w \in Tasks : Forks(w) => call[w].child # u
          /\ call[u].child # call[t].child /\ call[u].child \in Tasks
      BY <1>1, <1>7, <2>1 DEF Copied, ForkInv
    <2>3. /\ fds'[u] = fds[u] /\ cwd'[u] = cwd[u]
          /\ fds'[call[u].child] = fds[call[u].child] /\ cwd'[call[u].child] = cwd[call[u].child]
      BY <1>1, <1>2, <2>2
    <2>4. \A w \in Tasks : Forks(w)' => call'[w].child # u
      BY <1>3, <2>2
    <2> QED  BY <2>1, <2>3, <2>4 DEF Copied, Empty
  <1> QED  BY <1>5, <1>6, <1>7 DEF ForkInv

LEMMA ForkCwdForks ==
    ASSUME Typed, ForkInv, NEW t \in Tasks, ForkCwd(t)
    PROVE  ForkInv'
  <1>1. /\ call'[t] = [pc |-> "copy", child |-> call[t].child, fd |-> 1]
        /\ \A u \in Tasks \ {t} : call'[u] = call[u]
        /\ \A u \in Tasks : cwd'[u] = IF u = call[t].child THEN cwd[t] ELSE cwd[u]
    BY ForkCwdStep
  <1>2. call[t].pc = "fork" /\ fds' = fds /\ hasty' = hasty
    BY DEF ForkCwd, At
  <1>3. call'[t].pc = "copy" /\ call'[t].child = call[t].child /\ call'[t].fd = 1
    BY ONLY <1>1
  <1>4. Forks(t) /\ call[t].child \in Tasks /\ call[t].child # t
    BY <1>2 DEF Forks, ForkInv
  <1>5. CopyStep(t)
    BY <1>1, <1>2, <1>3, <1>4 DEF CopyStep
  <1>6. Copied(t)'
    <2> SUFFICES ASSUME call[t].child \notin hasty PROVE Copied(t)'
      BY <1>2, <1>3 DEF Copied
    <2>1. /\ \A u \in Tasks : Forks(u) => call[u].child # t
          /\ \A fd \in Fds : Empty(call[t].child, fd)
      BY <1>2, <1>4 DEF ForkInv, Copied
    <2>2. \A u \in Tasks : Forks(u)' => call'[u].child # t
      BY <2>1, <1>1, <1>3, <1>4 DEF Forks
    <2>3. \A fd \in Fds : ~ fd < 1
      BY VfsAssumption DEF Fds
    <2>4. cwd'[call[t].child] = cwd'[t]
      BY <1>1, <1>4
    <2> QED  BY <2>1, <2>2, <2>3, <2>4, <1>2, <1>3 DEF Copied, Empty
  <1> QED  BY <1>5, <1>6, CopyForks

LEMMA ForkFileForks ==
    ASSUME Typed, ForkInv, NEW t \in Tasks, ForkFile(t)
    PROVE  ForkInv'
  <1> DEFINE child == call[t].child
             k == call[t].fd
             x == IF fds[t][k] # NULL THEN fds[t][k] ELSE fds[child][k]
  <1>1. /\ \/ call'[t].pc = "user" /\ fds' = fds
           \/ /\ k <= LastFd /\ fds' = [fds EXCEPT ![child][k] = x]
              /\ call'[t] = [pc |-> "copy", child |-> child, fd |-> k + 1]
        /\ \A u \in Tasks \ {t} : call'[u] = call[u]
    BY ForkFileStep
  <1>2. call[t].pc = "copy" /\ cwd' = cwd /\ hasty' = hasty /\ k \in Nat
    BY DEF ForkFile, At, Typed, CallTyped
  <1>3. Forks(t) /\ child \in Tasks /\ child # t
    BY <1>2 DEF Forks, ForkInv
  <1>4. CASE call'[t].pc = "user" /\ fds' = fds
    <2>1. ~ Forks(t)'
      BY <1>4 DEF Forks
    <2>2. CopyStep(t) /\ Copied(t)'
      BY <2>1, <1>1, <1>2, <1>3, <1>4 DEF CopyStep, Copied
    <2> QED  BY <2>2, CopyForks
  <1>5. CASE /\ k <= LastFd /\ fds' = [fds EXCEPT ![child][k] = x]
             /\ call'[t] = [pc |-> "copy", child |-> child, fd |-> k + 1]
    <2>1. call'[t].pc = "copy" /\ call'[t].child = child /\ call'[t].fd = k + 1
      BY ONLY <1>5
    <2>2. /\ \A u \in Tasks \ {child} : fds'[u] = fds[u]
          /\ \A fd \in Fds : fds'[child][fd] = IF fd = k THEN x ELSE fds[child][fd]
      <3>1. PICK u, f, y : /\ u \in Tasks /\ u = child /\ f = k /\ y = x
                           /\ fds' = [fds EXCEPT ![u][f] = y]
        BY ONLY <1>3, <1>5
      <3>2. /\ \A w \in Tasks \ {u} : fds'[w] = fds[w]
            /\ \A fd \in Fds : fds'[u][fd] = IF fd = f THEN y ELSE fds[u][fd]
        <4>1. Puts(u, f, y)
          BY ONLY <3>1 DEF Puts
        <4>2. u \in Tasks
          BY ONLY <3>1
        <4> QED  BY <4>1, <4>2, FdStep
      <3> HIDE DEF x, child, k
      <3> QED  BY ONLY <3>1, <3>2
    <2>3. CopyStep(t)
      BY <2>1, <2>2, <1>1, <1>2, <1>3 DEF CopyStep
    <2>4. Copied(t)'
      <3> SUFFICES ASSUME child \notin hasty PROVE Copied(t)'
        BY <1>2, <2>1 DEF Copied
      <3>1. /\ \A u \in Tasks : Forks(u) => call[u].child # t
            /\ cwd[child] = cwd[t]
            /\ \A fd \in Fds : IF fd < k THEN fds[child][fd] = fds[t][fd] ELSE Empty(child, fd)
        BY <1>2, <1>3 DEF ForkInv, Copied
      <3>2. \A u \in Tasks : Forks(u)' => call'[u].child # t
        BY <3>1, <1>1, <1>3, <2>1 DEF Forks
      <3>3. fds'[t] = fds[t]
        BY <1>3, <2>2
      <3>4. ASSUME NEW fd \in Fds
            PROVE  IF fd < k + 1 THEN fds'[child][fd] = fds[t][fd] ELSE fds'[child][fd] = NULL
        <4>1. fd \in Nat
          BY VfsAssumption DEF Fds
        <4>2. CASE fd = k
          BY <4>1, <4>2, <2>2, <3>1, <1>2 DEF Empty
        <4>3. CASE fd # k
          BY <4>1, <4>3, <2>2, <3>1, <1>2 DEF Empty
        <4> QED  BY <4>2, <4>3
      <3> HIDE DEF x
      <3> QED  BY <3>1, <3>2, <3>3, <3>4, <2>1, <1>2 DEF Copied, Empty
    <2> QED  BY <2>3, <2>4, CopyForks
  <1> HIDE DEF x
  <1> QED  BY <1>1, <1>4, <1>5


Outside(c) == c.pc \notin {"fork", "copy", "unborn"}

LEMMA OwnGoto ==
    ASSUME Typed, NEW t \in Tasks, NEW c, Goto(t, c), Outside(call[t]), Outside(c), cwd' = cwd,
           UNCHANGED <<fds, hasty>>
             \/ (Acts(t) /\ \A u \in Tasks \ {t} : fds'[u] = fds[u])
    PROVE  OwnStep(t)
  <1>1. call'[t] = c /\ \A u \in Tasks \ {t} : call'[u] = call[u]
    BY CallStep
  <1>2. hasty \subseteq hasty'
    BY ActsHasty
  <1> QED  BY <1>1, <1>2 DEF OwnStep, Outside

LEMMA OwnOpened ==
    ASSUME Typed, NEW t \in Tasks, NEW path, NEW fd, NEW v, NEW how, Opened(t, path, fd, v, how),
           Outside(call[t]), cwd' = cwd, Acts(t)
    PROVE  OwnStep(t)
  <1>1. Goto(t, Idle) /\ Outside(Idle)
    BY DEF Opened, Outside, Idle
  <1>2. \A u \in Tasks \ {t} : fds'[u] = fds[u]
    BY FdStep DEF Opened, Puts
  <1> QED  BY <1>1, <1>2, OwnGoto

LEMMA OpenOwn ==
    ASSUME Typed, NEW t \in Tasks, NEW p, NEW creat, Open(t, p, creat) PROVE OwnStep(t)
  <1>1. Outside(call[t]) /\ cwd' = cwd /\ Acts(t)
    BY DEF Open, At, Outside
  <1>2. \/ \E path, fd, v, how : Opened(t, path, fd, v, how)
        \/ /\ UNCHANGED fds
           /\ \E path, fd : Goto(t, [pc |-> "parent", path |-> path, fd |-> fd])
        \/ /\ UNCHANGED fds
           /\ Goto(t, [pc |-> "wild"])
    BY DEF Open, GoWild
  <1>3. CASE \E path, fd, v, how : Opened(t, path, fd, v, how)
    BY <1>1, <1>3, OwnOpened
  <1>4. CASE UNCHANGED fds /\ \E path, fd : Goto(t, [pc |-> "parent", path |-> path, fd |-> fd])
    <2>1. PICK c : Goto(t, c) /\ Outside(c)
      BY <1>4 DEF Outside
    <2> QED  BY <2>1, <1>1, <1>4, OwnGoto
  <1>5. CASE UNCHANGED fds /\ Goto(t, [pc |-> "wild"])
    <2>1. PICK c : Goto(t, c) /\ Outside(c)
      BY <1>5 DEF Outside
    <2> QED  BY <2>1, <1>1, <1>5, OwnGoto
  <1> QED  BY <1>2, <1>3, <1>4, <1>5

LEMMA AddToOutside ==
    ASSUME NEW t, NEW d, NEW name, NEW type, NEW path, NEW fd, AddTo(t, d, name, type, path, fd)
    PROVE  \E c : Goto(t, c) /\ Outside(c)
  <1> DEFINE c == [pc |-> "store", dir |-> d, idx |-> Slot(d), name |-> name,
                   type |-> type, path |-> path, fd |-> fd, mounts |-> Len(mounts)]
  <1>1. Goto(t, c) /\ Outside(c)
    BY DEF AddTo, Outside
  <1> QED  BY <1>1

LEMMA WildOutside == ASSUME NEW t, GoWild(t) PROVE \E c : Goto(t, c) /\ Outside(c)
  BY DEF GoWild, Outside

LEMMA CreateInOwn == ASSUME Typed, NEW t \in Tasks, CreateIn(t) PROVE OwnStep(t)
  <1>1. Outside(call[t]) /\ Outside(Idle) /\ cwd' = cwd /\ Acts(t)
    BY DEF CreateIn, At, Outside, Idle
  <1>2. \/ UNCHANGED fds /\ Goto(t, Idle)
        \/ UNCHANGED fds /\ GoWild(t)
        \/ \E path, fd, v, how : Opened(t, path, fd, v, how)
        \/ UNCHANGED fds /\ \E d, name, path, fd : AddTo(t, d, name, "FILE", path, fd)
    BY DEF CreateIn
  <1>3. CASE UNCHANGED fds /\ ~ \E path, fd, v, how : Opened(t, path, fd, v, how)
    <2>1. \E c : Goto(t, c) /\ Outside(c)
      BY <1>1, <1>2, <1>3, AddToOutside, WildOutside
    <2> QED  BY <2>1, <1>1, <1>3, OwnGoto
  <1>4. CASE \E path, fd, v, how : Opened(t, path, fd, v, how)
    BY <1>1, <1>4, OwnOpened
  <1> QED  BY <1>2, <1>3, <1>4

\* The calls that touch neither files nor directories of tasks.
LEMMA OtherOwn ==
    ASSUME Tree, NEW t \in Tasks,
           \/ \E p : Mkdir(t, p)
           \/ \E p, fs : Mount(t, p, fs)
           \/ Store(t) \/ Attach(t) \/ EnterSetup(t) \/ Setup(t)
           \/ ListStart(t) \/ ListNext(t) \/ Fill(t)
    PROVE  OwnStep(t)
  <1>1. Typed /\ cwd' = cwd /\ fds' = fds /\ hasty' = hasty /\ Outside(call[t])
    BY DEF Tree, Mkdir, Mount, Store, Attach, EnterSetup, Setup, ListStart, ListNext, Fill,
           At, Outside
  <1>2. CASE (\E p : Mkdir(t, p)) \/ (\E p, fs : Mount(t, p, fs)) \/ EnterSetup(t)
    <2>1. CASE \E p : Mkdir(t, p)
      BY <2>1, <1>1, AddToOutside, WildOutside, OwnGoto DEF Mkdir
    <2>2. CASE \E p, fs : Mount(t, p, fs)
      <3>1. GoWild(t) \/ \E v, fs : Goto(t, [pc |-> "attach", dir |-> v, fs |-> fs])
        BY <2>2 DEF Mount
      <3>2. \A v, fs : Outside([pc |-> "attach", dir |-> v, fs |-> fs])
        BY DEF Outside
      <3> QED  BY <3>1, <3>2, <1>1, WildOutside, OwnGoto
    <2>3. CASE EnterSetup(t)
      <3>1. \E m, fs : Goto(t, [pc |-> "setup", mount |-> m, fs |-> fs])
        BY <2>3 DEF EnterSetup
      <3>2. \A m, fs : Outside([pc |-> "setup", mount |-> m, fs |-> fs])
        BY DEF Outside
      <3> QED  BY <3>1, <3>2, <1>1, OwnGoto
    <2> QED  BY <1>2, <2>1, <2>2, <2>3
  <1>3. CASE Store(t) \/ Attach(t) \/ Setup(t) \/ ListStart(t) \/ ListNext(t) \/ Fill(t)
    <2>1. Outside(call'[t]) /\ \A u \in Tasks \ {t} : call'[u] = call[u]
      <3>1. CASE Store(t)
        BY <3>1, StoreStep DEF Outside
      <3>2. CASE Attach(t)
        BY <3>2, AttachStep DEF Outside
      <3>3. CASE Setup(t)
        BY <3>3, SetupStep DEF Outside
      <3>4. CASE ListStart(t)
        <4>1. call'[t] = [pc |-> "scan", dir |-> call[t].dir, idx |-> 1]
          BY <3>4, ListStartStep
        <4>2. \A u \in Tasks \ {t} : call'[u] = call[u]
          BY <3>4, ListStartStep
        <4> QED  BY <4>1, <4>2 DEF Outside
      <3>5. CASE ListNext(t)
        <4>1. \/ call'[t] = [pc |-> "scan", dir |-> call[t].dir, idx |-> call[t].idx + 1]
              \/ call'[t] = [pc |-> "fill", dir |-> call[t].dir, idx |-> 1]
          BY <3>5, ListNextStep
        <4>2. \A u \in Tasks \ {t} : call'[u] = call[u]
          BY <3>5, ListNextStep
        <4> QED  BY <4>1, <4>2 DEF Outside
      <3>6. CASE Fill(t)
        <4>1. \/ call'[t].pc \in {"user", "wild"}
              \/ call'[t] = [pc |-> "fill", dir |-> call[t].dir, idx |-> call[t].idx + 1]
          BY <3>6, FillStep
        <4>2. \A u \in Tasks \ {t} : call'[u] = call[u]
          BY <3>6, FillStep
        <4> QED  BY <4>1, <4>2 DEF Outside
      <3> QED  BY <1>3, <3>1, <3>2, <3>3, <3>4, <3>5, <3>6
    <2> QED  BY <2>1, <1>1 DEF OwnStep, Outside
  <1> QED  BY <1>2, <1>3

LEMMA NameOwn == ASSUME Tree, NEW t \in Tasks, NameIt(t) PROVE OwnStep(t)
  <1>1. Typed /\ cwd' = cwd /\ Acts(t) /\ Outside(call[t]) /\ Goto(t, Idle) /\ Outside(Idle)
    BY DEF Tree, NameIt, At, Outside, Idle
  <1>2. fds' = fds \/ \E fd, x : Puts(t, fd, x)
    BY DEF NameIt, Puts
  <1>3. \A u \in Tasks \ {t} : fds'[u] = fds[u]
    BY <1>1, <1>2, FdStep
  <1> QED  BY <1>1, <1>3, OwnGoto

LEMMA ChdirOwn == ASSUME Typed, NEW t \in Tasks, NEW p, Chdir(t, p) PROVE OwnStep(t)
  <1>1. call[t].pc = "user" /\ call' = call /\ fds' = fds /\ Acts(t)
    BY DEF Chdir, At
  <1>2. PICK x : cwd' = [cwd EXCEPT ![t] = x]
    BY DEF Chdir
  <1>3. \A u \in Tasks \ {t} : cwd'[u] = cwd[u]
    BY <1>2 DEF Typed
  <1>4. hasty \subseteq hasty'
    BY <1>1, ActsHasty
  <1> QED  BY <1>1, <1>3, <1>4 DEF OwnStep

LEMMA CloseOwn == ASSUME Typed, NEW t \in Tasks, NEW fd, Close(t, fd) PROVE OwnStep(t)
  <1>1. call[t].pc = "user" /\ call' = call /\ cwd' = cwd /\ Acts(t) /\ Puts(t, fd, NULL)
    BY DEF Close, At, Puts
  <1>2. \A u \in Tasks \ {t} : fds'[u] = fds[u]
    BY <1>1, FdStep
  <1>3. hasty \subseteq hasty'
    BY <1>1, ActsHasty
  <1> QED  BY <1>1, <1>2, <1>3 DEF OwnStep

LEMMA StepsOwn ==
    ASSUME Tree, NEW t \in Tasks, Call(t) \/ Step(t)
    PROVE  OwnStep(t) \/ (\E child \in Tasks : Fork(t, child)) \/ ForkCwd(t) \/ ForkFile(t)
  <1>1. Typed
    BY DEF Tree
  <1>2. CASE Call(t)
    BY <1>1, <1>2, OpenOwn, OtherOwn, ChdirOwn, CloseOwn DEF Call
  <1>3. CASE Step(t)
    BY <1>1, <1>3, CreateInOwn, NameOwn, OtherOwn DEF Step
  <1> QED  BY <1>2, <1>3

LEMMA ForkNext == ASSUME Tree, ForkInv, [Next]_vars PROVE ForkInv'
  <1>1. Typed
    BY DEF Tree
  <1>2. ASSUME NEW t \in Tasks, Call(t) \/ Step(t) PROVE ForkInv'
    BY <1>1, <1>2, StepsOwn, OwnForks, ForkForks, ForkCwdForks, ForkFileForks
  <1>3. CASE UNCHANGED vars
    BY <1>3 DEF vars, ForkInv, Copied, Forks, Empty
  <1> QED  BY <1>2, <1>3 DEF Next

LEMMA InitForks == ASSUME Init PROVE ForkInv
  <1>1. \A t \in Tasks : ~ Forks(t)
    BY DEF Init, Idle, Forks
  <1>2. \A t \in Tasks, fd \in Fds : Empty(t, fd)
    BY DEF Init, Empty
  <1> QED  BY <1>1, <1>2 DEF ForkInv, Copied

\* fork returns in the parent when the last descriptor has been copied.
LEMMA ForkEnds ==
    ASSUME Tree, ForkInv, [Next]_vars, NEW t \in Tasks,
           call[t].pc = "copy", call'[t].pc = "user", call[t].child \notin hasty
    PROVE  cwd[call[t].child] = cwd[t] /\ fds[call[t].child] = fds[t]
  <1> DEFINE child == call[t].child
  <1>1. Typed /\ child \in Tasks /\ call[t].fd \in Nat
    BY DEF Tree, ForkInv, Forks, Typed, CallTyped
  <1>2. PICK u \in Tasks : Call(u) \/ Step(u)
    BY DEF Next, vars
  <1>3. u = t
    <2>1. ASSUME u # t PROVE call'[t].pc # "user"
      <3>1. CASE OwnStep(u) \/ ForkCwd(u) \/ ForkFile(u)
        <4>1. OwnStep(u) => call'[t] = call[t]
          BY <2>1 DEF OwnStep
        <4>2. ForkCwd(u) => call'[t] = call[t]
          <5>1. ForkCwd(u) => \A w \in Tasks \ {u} : call'[w] = call[w]
            BY <1>1, ForkCwdStep
          <5> QED  BY <5>1, <2>1
        <4>3. ForkFile(u) => call'[t] = call[t]
          <5>1. ForkFile(u) => \A w \in Tasks \ {u} : call'[w] = call[w]
            BY <1>1, ForkFileStep
          <5> QED  BY <5>1, <2>1
        <4> QED  BY <3>1, <4>1, <4>2, <4>3
      <3>2. CASE \E c \in Tasks : Fork(u, c)
        <4>1. PICK c \in Tasks : Fork(u, c)
          BY <3>2
        <4>2. c # t
          BY <4>1 DEF Fork
        <4>3. \A w \in Tasks \ {u, c} : call'[w] = call[w]
          BY <1>1, <4>1, ForkStep
        <4> QED  BY <2>1, <4>2, <4>3
      <3> QED  BY <1>2, <3>1, <3>2, StepsOwn
    <2> QED  BY <2>1
  <1>4. ForkFile(t)
    BY <1>2, <1>3, StepsOwn DEF OwnStep, Fork, ForkCwd, At
  <1>5. call[t].fd > LastFd
    <2>1. \/ call[t].fd > LastFd
          \/ call'[t] = [pc |-> "copy", child |-> call[t].child, fd |-> call[t].fd + 1]
      BY <1>1, <1>4, ForkFileStep
    <2> QED  BY <2>1
  <1>6. \A fd \in Fds : fd \in Nat /\ fd < call[t].fd
    BY <1>1, <1>5, VfsAssumption DEF Fds, LastFd
  <1>7. cwd[child] = cwd[t] /\ \A fd \in Fds : fds[child][fd] = fds[t][fd]
    BY <1>6 DEF ForkInv, Copied, Forks
  <1>8. /\ fds[child] = [fd \in Fds |-> fds[child][fd]]
        /\ fds[t] = [fd \in Fds |-> fds[t][fd]]
    BY <1>1 DEF Typed
  <1> QED  BY <1>7, <1>8

\* syscall_fork, whose child runs while its files are copied: if the child did
\* not use its own before, and the parent had all of its own when it forked,
\* fork leaves the child with the parent's directory and files.
THEOREM ForkHandsDown == Spec => ChildInherits
  <1>1. Init => Tree /\ ForkInv
    BY InitTree, InitForks
  <1>2. Tree /\ ForkInv /\ [Next]_vars => (Tree /\ ForkInv)'
    BY TreeNext, ForkNext
  <1>3. Tree /\ ForkInv /\ [Next]_vars =>
            [\A t \in Tasks :
                call[t].pc = "copy" /\ call'[t].pc = "user" /\ call[t].child \notin hasty
                => cwd[call[t].child] = cwd[t] /\ fds[call[t].child] = fds[t]]_vars
    BY ForkEnds
  <1> QED  BY <1>1, <1>2, <1>3, PTL DEF Spec, ChildInherits

-----------------------------------------------------------------------------
(* The tree                                                                *)

LEMMA MountFields ==
    ASSUME Typed
    PROVE  /\ mounts \in Seq(Nat) /\ DOMAIN mounts = 1 .. Len(mounts) /\ Len(mounts) \in Nat
           /\ \A v \in DOMAIN vnodes : vnodes[v].mount \in Nat
  <1>1. mounts \in Seq(Nat)
    BY DEF Typed
  <1>2. PICK names : vnodes \in Seq(Vnode(names))
    BY DEF Typed
  <1>3. \A v \in DOMAIN vnodes : vnodes[v] \in Vnode(names)
    BY <1>2, VnodeOf
  <1>4. \A v \in DOMAIN vnodes : vnodes[v].mount \in Nat
    BY <1>3 DEF Vnode
  <1> QED  BY <1>1, <1>4, LenProperties

\* No directory has more entries than it has room for, and no file has any.
Fits(e, type) == Len(e) <= MAX_DIR_ENTRY /\ (type = "FILE" => e = <<>>)

LEMMA EmptyFits == Len(<<>>) = 0 /\ \A type : Fits(<<>>, type)
  BY VfsAssumption DEF Fits

LEMMA SizesBy ==
    ASSUME Tree, Sizes, NEW t \in Tasks,
           \A v \in DOMAIN vnodes' : Fits(vnodes'[v].entry, vnodes'[v].type),
           DOMAIN vnodes \subseteq DOMAIN vnodes', \A v \in DOMAIN vnodes : Kept(v),
           \A u \in Tasks \ {t} : \/ call'[u] = call[u] /\ (Mounts(u) => SameEntry(call[u].dir))
                                  \/ Elsewhere(call'[u]),
           call'[t].pc = "store" => /\ call'[t].dir \in DOMAIN vnodes'
                                    /\ vnodes'[call'[t].dir].type = "DIR"
                                    /\ call'[t].idx \in 1 .. MAX_DIR_ENTRY,
           Mounts(t)' => Len(vnodes'[call'[t].dir].entry) =
                            IF call'[t].pc = "fill" THEN call'[t].idx - 1 ELSE 0
    PROVE  Sizes'
  <1>1. \A v \in DOMAIN vnodes' : /\ Len(vnodes'[v].entry) <= MAX_DIR_ENTRY
                                  /\ IsFile(v)' => vnodes'[v].entry = <<>>
    BY DEF Fits, IsFile
  <1>2. ASSUME NEW u \in Tasks
        PROVE  /\ call'[u].pc = "store" =>
                    vnodes'[call'[u].dir].type = "DIR" /\ call'[u].idx \in 1 .. MAX_DIR_ENTRY
               /\ Mounts(u)' => Len(vnodes'[call'[u].dir].entry) =
                            IF call'[u].pc = "fill" THEN call'[u].idx - 1 ELSE 0
    <2>1. CASE u = t
      BY <2>1
    <2>2. CASE u # t /\ call'[u] = call[u] /\ (Mounts(u) => SameEntry(call[u].dir))
      BY <2>2 DEF Sizes, Tree, Places, Adds, Mounts, IsVnode, Kept, SameEntry
    <2>3. CASE Elsewhere(call'[u])
      BY <2>3 DEF Elsewhere, Mounts
    <2> QED  BY <2>1, <2>2, <2>3
  <1> QED  BY <1>1, <1>2 DEF Sizes

LEMMA StillFits ==
    ASSUME Sizes, NEW v \in DOMAIN vnodes, Kept(v), SameEntry(v)
    PROVE  Fits(vnodes'[v].entry, vnodes'[v].type)
  BY DEF Sizes, Fits, Kept, SameEntry, IsFile

LEMMA QuietSizes == ASSUME Tree, Sizes, Quiet PROVE Sizes'
  <1>1. /\ DOMAIN vnodes' = DOMAIN vnodes /\ \A v \in DOMAIN vnodes : Kept(v) /\ SameEntry(v)
        /\ \A v \in DOMAIN vnodes' : Fits(vnodes'[v].entry, vnodes'[v].type)
    BY StillFits DEF Quiet, SameTree
  <1>2. \A u \in Tasks : call'[u] = call[u] \/ Elsewhere(call'[u])
    BY DEF Quiet
  <1>3. \A u \in Tasks : Mounts(u) => SameEntry(call[u].dir) /\ Kept(call[u].dir)
                                      /\ call[u].dir \in DOMAIN vnodes'
    BY <1>1 DEF Tree, Places, IsVnode
  <1>4. \A u \in Tasks : call[u].pc = "store" => Kept(call[u].dir) /\ call[u].dir \in DOMAIN vnodes'
    BY <1>1 DEF Tree, Places, IsVnode, Adds
  <1>5. ASSUME NEW t \in Tasks, call'[t].pc = "store"
        PROVE  /\ call'[t].dir \in DOMAIN vnodes' /\ call'[t].idx \in 1 .. MAX_DIR_ENTRY
               /\ vnodes'[call'[t].dir].type = "DIR"
    BY <1>2, <1>4, <1>5 DEF Sizes, Elsewhere, Kept
  <1>6. ASSUME NEW t \in Tasks, Mounts(t)'
        PROVE  Len(vnodes'[call'[t].dir].entry) =
                            IF call'[t].pc = "fill" THEN call'[t].idx - 1 ELSE 0
    BY <1>2, <1>3, <1>6 DEF Sizes, Elsewhere, Mounts, SameEntry
  <1>7. PICK t \in Tasks : TRUE
    BY VfsAssumption
  <1> QED  BY <1>1, <1>2, <1>3, <1>5, <1>6, <1>7, SizesBy

LEMMA JoinsSizes == ASSUME Tree, Sizes, NEW t \in Tasks, Joins(t) PROVE Sizes'
  <1>1. /\ DOMAIN vnodes' = DOMAIN vnodes /\ \A v \in DOMAIN vnodes : Kept(v) /\ SameEntry(v)
        /\ \A v \in DOMAIN vnodes' : Fits(vnodes'[v].entry, vnodes'[v].type)
    BY StillFits DEF Joins, Kept, SameEntry
  <1>2. /\ \A u \in Tasks \ {t} : call'[u] = call[u]
        /\ \A u \in Tasks : Mounts(u) => SameEntry(call[u].dir)
    BY <1>1 DEF Joins, Tree, Places, IsVnode
  <1>3. /\ call'[t].pc = "store" /\ ~ Mounts(t)' /\ call'[t].dir \in DOMAIN vnodes'
        /\ vnodes'[call'[t].dir].type = "DIR"
    BY <1>1 DEF Joins, Mounts, IsVnode, IsDir
  <1>4. call'[t].idx \in 1 .. MAX_DIR_ENTRY
    <2> DEFINE d == call'[t].dir
    <2>1. d \in DOMAIN vnodes /\ call'[t].idx = Len(vnodes[d].entry) + 1 /\ vnodes[d].fs = "tmpfs"
          /\ Len(vnodes[d].entry) # MAX_DIR_ENTRY
      BY DEF Joins, IsVnode, Slot, Full, IsDir
    <2>2. Len(vnodes[d].entry) <= MAX_DIR_ENTRY /\ Len(vnodes[d].entry) \in Nat
      BY <2>1, VnodeFields DEF Sizes
    <2> HIDE DEF d
    <2> QED  BY <2>1, <2>2, VfsAssumption
  <1> QED  BY <1>1, <1>2, <1>3, <1>4, SizesBy

LEMMA StoreSizes == ASSUME Tree, Sizes, NEW t \in Tasks, Store(t) PROVE Sizes'
  <1> DEFINE d == call[t].dir
             old == vnodes[d].entry
             e == vnodes'[d].entry
  <1>1. /\ Grows("tmpfs", call[t].type, <<>>)
        /\ \A v \in DOMAIN vnodes : v # d => SameEntry(v)
        /\ IF call[t].idx > Len(old) THEN e = Append(old, Fresh) ELSE Len(e) = Len(old)
        /\ call'[t].pc = "name" /\ \A u \in Tasks \ {t} : call'[u] = call[u]
    BY StoreStep
  <1>2. call[t].pc = "store"
    BY DEF Store, At
  <1>3. /\ d \in DOMAIN vnodes /\ vnodes[d].fs = "tmpfs" /\ vnodes[d].type = "DIR"
        /\ call[t].idx \in 1 .. MAX_DIR_ENTRY
    BY <1>2 DEF Tree, Places, Sizes, Adds, IsVnode
  <1>4. /\ DOMAIN vnodes \subseteq DOMAIN vnodes' /\ \A v \in DOMAIN vnodes : Kept(v)
        /\ vnodes'[Fresh].entry = <<>> /\ \A v \in DOMAIN vnodes' : v \in DOMAIN vnodes \/ v = Fresh
    BY <1>1, Grown
  <1>5. Len(e) <= MAX_DIR_ENTRY
    <2>1. old \in Seq(Nat) /\ Fresh \in Nat /\ Len(old) \in Nat /\ Len(old) <= MAX_DIR_ENTRY
      BY <1>3, VnodeFields DEF Sizes, Fresh
    <2>2. CASE call[t].idx > Len(old)
      <3>1. e = Append(old, Fresh)
        BY <1>1, <2>2
      <3> HIDE DEF e, old
      <3>2. Len(e) = Len(old) + 1
        BY <3>1, <2>1, AppendSeq
      <3> QED  BY <3>2, <2>1, <2>2, <1>3, VfsAssumption
    <2>3. CASE ~ call[t].idx > Len(old)
      BY <1>1, <2>1, <2>3
    <2> QED  BY <2>2, <2>3
  <1>6. \A v \in DOMAIN vnodes' : Fits(vnodes'[v].entry, vnodes'[v].type)
    <2> TAKE v \in DOMAIN vnodes'
    <2>1. CASE v = d
      BY <2>1, <1>3, <1>4, <1>5 DEF Fits, Kept
    <2>2. CASE v # d /\ v \in DOMAIN vnodes
      BY <2>2, <1>1, <1>4, StillFits
    <2>3. CASE v = Fresh
      BY <2>3, <1>4, EmptyFits
    <2> QED  BY <2>1, <2>2, <2>3, <1>4
  <1>7. \A u \in Tasks : Mounts(u) => SameEntry(call[u].dir)
    BY <1>1, <1>3 DEF Tree, Places, IsVnode, IsArchive
  <1> QED  BY <1>1, <1>4, <1>6, <1>7, SizesBy DEF Mounts

LEMMA NameSizes == ASSUME Tree, Sizes, NEW t \in Tasks, NameIt(t) PROVE Sizes'
  <1>1. /\ DOMAIN vnodes' = DOMAIN vnodes /\ \A v \in DOMAIN vnodes : Kept(v) /\ SameEntry(v)
        /\ call'[t].pc = "user" /\ \A u \in Tasks \ {t} : call'[u] = call[u]
    BY NameStep
  <1>2. /\ \A v \in DOMAIN vnodes' : Fits(vnodes'[v].entry, vnodes'[v].type)
        /\ \A u \in Tasks : Mounts(u) => SameEntry(call[u].dir)
    BY <1>1, StillFits DEF Tree, Places, IsVnode
  <1> QED  BY <1>1, <1>2, SizesBy DEF Mounts

LEMMA SetupSizes == ASSUME Tree, Sizes, NEW t \in Tasks, Setup(t) PROVE Sizes'
  <1>1. /\ Grows(call[t].fs, "DIR", <<>>) /\ \A v \in DOMAIN vnodes : SameEntry(v)
        /\ \/ call'[t].pc = "user"
           \/ call'[t].pc = "list" /\ call'[t].dir = Fresh
        /\ \A u \in Tasks \ {t} : call'[u] = call[u]
    BY SetupStep
  <1>2. /\ DOMAIN vnodes \subseteq DOMAIN vnodes' /\ \A v \in DOMAIN vnodes : Kept(v)
        /\ vnodes'[Fresh].entry = <<>> /\ \A v \in DOMAIN vnodes' : v \in DOMAIN vnodes \/ v = Fresh
    BY <1>1, Grown
  <1>3. \A v \in DOMAIN vnodes' : Fits(vnodes'[v].entry, vnodes'[v].type)
    BY <1>1, <1>2, StillFits, EmptyFits
  <1>4. \A u \in Tasks : Mounts(u) => SameEntry(call[u].dir)
    BY <1>1 DEF Tree, Places, IsVnode
  <1>5. Mounts(t)' => Len(vnodes'[call'[t].dir].entry) =
                            IF call'[t].pc = "fill" THEN call'[t].idx - 1 ELSE 0
    BY <1>1, <1>2, EmptyFits DEF Mounts
  <1> QED  BY <1>1, <1>2, <1>3, <1>4, <1>5, SizesBy

LEMMA ListMoves ==
    ASSUME Tree, NEW t \in Tasks, ListStart(t) \/ ListNext(t)
    PROVE  /\ vnodes' = vnodes /\ lapped \subseteq lapped'
           /\ \A u \in Tasks \ {t} : call'[u] = call[u]
           /\ call[t].pc \in {"list", "scan"} /\ call'[t].dir = call[t].dir
           /\ call'[t].pc = "scan" \/ (call'[t].pc = "fill" /\ call'[t].idx = 1)
  <1>1. CASE ListStart(t)
    <2>1. /\ vnodes' = vnodes /\ lapped \subseteq lapped' /\ call[t].pc = "list"
          /\ call'[t] = [pc |-> "scan", dir |-> call[t].dir, idx |-> 1]
          /\ \A u \in Tasks \ {t} : call'[u] = call[u]
      BY <1>1, ListStartStep
    <2>2. call'[t].pc = "scan" /\ call'[t].dir = call[t].dir
      BY ONLY <2>1
    <2> QED  BY <2>1, <2>2
  <1>2. CASE ListNext(t)
    <2>1. /\ vnodes' = vnodes /\ lapped' = lapped /\ call[t].pc = "scan"
          /\ \/ call'[t] = [pc |-> "scan", dir |-> call[t].dir, idx |-> call[t].idx + 1]
             \/ call'[t] = [pc |-> "fill", dir |-> call[t].dir, idx |-> 1]
          /\ \A u \in Tasks \ {t} : call'[u] = call[u]
      BY <1>2, ListNextStep
    <2>2. /\ call'[t].dir = call[t].dir
          /\ call'[t].pc = "scan" \/ (call'[t].pc = "fill" /\ call'[t].idx = 1)
      BY ONLY <2>1
    <2> QED  BY <2>1, <2>2
  <1> QED  BY <1>1, <1>2

LEMMA ListSizes ==
    ASSUME Tree, Sizes, NEW t \in Tasks, ListStart(t) \/ ListNext(t)
    PROVE  Sizes'
  <1>1. /\ vnodes' = vnodes /\ \A u \in Tasks \ {t} : call'[u] = call[u]
        /\ call[t].pc \in {"list", "scan"} /\ call'[t].dir = call[t].dir
        /\ call'[t].pc = "scan" \/ (call'[t].pc = "fill" /\ call'[t].idx = 1)
    BY ListMoves
  <1>2. /\ DOMAIN vnodes' = DOMAIN vnodes /\ \A v \in DOMAIN vnodes : Kept(v) /\ SameEntry(v)
        /\ \A v \in DOMAIN vnodes' : Fits(vnodes'[v].entry, vnodes'[v].type)
        /\ \A u \in Tasks : SameEntry(call[u].dir)
    BY <1>1, StillFits DEF Kept, SameEntry
  <1>3. Len(vnodes'[call'[t].dir].entry) = 0
    BY <1>1 DEF Sizes, Mounts
  <1> QED  BY <1>1, <1>2, <1>3, SizesBy

LEMMA FillSizes == ASSUME Tree, Sizes, ArchiveInv, NEW t \in Tasks, Fill(t) PROVE Sizes'
  <1> DEFINE d == call[t].dir
             old == vnodes[d].entry
             e == vnodes'[d].entry
  <1>1. call[t].pc = "fill" /\ \A u \in Tasks \ {t} : call'[u] = call[u]
    BY FillStep
  <1>2. d \in DOMAIN vnodes /\ IsArchive(d) /\ Len(old) = call[t].idx - 1 /\ call[t].idx \in Nat
        /\ old \in Seq(Nat)
    BY <1>1, FillStep, VnodeFields DEF Tree, Places, Mounts, IsVnode, Sizes
  <1>3. \A u \in Tasks \ {t} : Mounts(u) => call[u].dir # d /\ call[u].dir \in DOMAIN vnodes
    BY <1>1 DEF ArchiveInv, Filling, Mounts, Tree, Places, IsVnode
  <1>4. CASE vnodes' = vnodes /\ call'[t].pc \in {"user", "wild"}
    <2>1. /\ DOMAIN vnodes' = DOMAIN vnodes /\ \A v \in DOMAIN vnodes : Kept(v) /\ SameEntry(v)
          /\ \A v \in DOMAIN vnodes' : Fits(vnodes'[v].entry, vnodes'[v].type)
          /\ \A u \in Tasks : SameEntry(call[u].dir)
      BY <1>4, StillFits DEF Kept, SameEntry
    <2> QED  BY <2>1, <1>1, <1>4, SizesBy DEF Mounts
  <1>5. CASE /\ call[t].idx <= MAX_DIR_ENTRY
             /\ \E name : Grows("initramfs", "FILE", name)
             /\ \A v \in DOMAIN vnodes : v # d => SameEntry(v)
             /\ e = Append(old, Fresh)
             /\ call'[t] = [pc |-> "fill", dir |-> d, idx |-> call[t].idx + 1]
    <2>1. /\ DOMAIN vnodes \subseteq DOMAIN vnodes' /\ \A v \in DOMAIN vnodes : Kept(v)
          /\ vnodes'[Fresh].entry = <<>>
          /\ \A v \in DOMAIN vnodes' : v \in DOMAIN vnodes \/ v = Fresh
      BY <1>5, Grown
    <2>2. Len(e) = call[t].idx
      <3>1. Fresh \in Nat
        BY VnodeFields DEF Fresh
      <3> HIDE DEF e, old
      <3>2. Len(e) = Len(old) + 1
        BY <3>1, <1>2, <1>5, AppendSeq
      <3> QED  BY <3>2, <1>2
    <2>3. \A v \in DOMAIN vnodes' : Fits(vnodes'[v].entry, vnodes'[v].type)
      <3> TAKE v \in DOMAIN vnodes'
      <3>1. CASE v = d
        BY <3>1, <2>1, <2>2, <1>2, <1>5 DEF Fits, Kept, IsArchive
      <3>2. CASE v # d /\ v \in DOMAIN vnodes
        BY <3>2, <1>5, <2>1, StillFits
      <3>3. CASE v = Fresh
        BY <3>3, <2>1, EmptyFits
      <3> QED  BY <3>1, <3>2, <3>3, <2>1
    <2>4. \A u \in Tasks \ {t} : Mounts(u) => SameEntry(call[u].dir)
      BY <1>3, <1>5
    <2>5. call'[t].pc = "fill" /\ Len(vnodes'[call'[t].dir].entry) = call'[t].idx - 1
      BY <1>2, <1>5, <2>2
    <2> QED  BY <1>1, <2>1, <2>3, <2>4, <2>5, SizesBy
  <1> QED  BY <1>4, <1>5, FillStep

LEMMA SizesNext == ASSUME Tree, ArchiveInv, Sizes, [Next]_vars PROVE Sizes'
  BY Moves, QuietSizes, JoinsSizes, StoreSizes, NameSizes, SetupSizes, ListSizes, FillSizes
     DEF Changes

-----------------------------------------------------------------------------
\* A call that makes no mount.
Mountless(c) == c.pc \notin {"attach", "enter", "setup"}

\* What a call becomes in a step that makes no mount and gives none its root.
Follows(c, d) ==
    \/ d = c \/ Mountless(d) \/ (d.pc = "attach" /\ IsVnode(d.dir))
    \/ c.pc = "enter" /\ d.pc = "setup" /\ d.mount = vnodes[c.dir].mount

Steady ==
    /\ mounts' = mounts /\ lapped \subseteq lapped' /\ DOMAIN vnodes \subseteq DOMAIN vnodes'
    /\ \A v \in DOMAIN vnodes : SameMount(v)
    /\ \A v \in DOMAIN vnodes' \ DOMAIN vnodes : vnodes'[v].mount = 0
    /\ \A u \in Tasks : Follows(call[u], call'[u])

LEMMA SteadyGoto ==
    ASSUME Typed, NEW t \in Tasks, NEW c, Goto(t, c), Follows(call[t], c),
           UNCHANGED <<vnodes, mounts>>, lapped \subseteq lapped'
    PROVE  Steady
  BY CallStep DEF Steady, Follows, SameMount

LEMMA StillSteady ==
    ASSUME UNCHANGED <<vnodes, mounts, lapped, call>>
    PROVE  Steady
  BY DEF Steady, Follows, SameMount

LEMMA MountlessCalls ==
    Mountless(Idle) /\ Mountless([pc |-> "wild"])
    /\ \A path, fd : Mountless([pc |-> "parent", path |-> path, fd |-> fd])
  BY DEF Mountless, Idle

LEMMA AddToSteady ==
    ASSUME Typed, NEW t \in Tasks, NEW d, NEW name, NEW type, NEW path, NEW fd,
           AddTo(t, d, name, type, path, fd), UNCHANGED <<vnodes, mounts>>
    PROVE  Steady
  <1> DEFINE c == [pc |-> "store", dir |-> d, idx |-> Slot(d), name |-> name,
                   type |-> type, path |-> path, fd |-> fd, mounts |-> Len(mounts)]
  <1>1. Goto(t, c) /\ lapped \subseteq lapped'
    BY DEF AddTo
  <1>2. Mountless(c)
    BY DEF Mountless
  <1> HIDE DEF c
  <1> QED  BY <1>1, <1>2, SteadyGoto DEF Follows

LEMMA OpenSteady ==
    ASSUME Typed, NEW t \in Tasks, NEW p, NEW creat, Open(t, p, creat)
    PROVE  Steady
  <1>1. UNCHANGED <<vnodes, mounts, lapped>>
    BY DEF Open
  <1>2. \E c : Goto(t, c) /\ Mountless(c)
    <2>1. \/ Goto(t, Idle) \/ Goto(t, [pc |-> "wild"])
          \/ \E path, fd : Goto(t, [pc |-> "parent", path |-> path, fd |-> fd])
      BY DEF Open, Opened, GoWild
    <2> QED  BY <2>1, MountlessCalls
  <1> QED  BY <1>1, <1>2, SteadyGoto DEF Follows

LEMMA CreateInSteady == ASSUME Typed, NEW t \in Tasks, CreateIn(t) PROVE Steady
  <1>1. UNCHANGED <<vnodes, mounts>>
    BY DEF CreateIn
  <1>2. \/ UNCHANGED lapped /\ (Goto(t, Idle) \/ Goto(t, [pc |-> "wild"]))
        \/ \E d, name, path, fd : AddTo(t, d, name, "FILE", path, fd)
    BY DEF CreateIn, Opened, GoWild
  <1>3. CASE UNCHANGED lapped /\ (Goto(t, Idle) \/ Goto(t, [pc |-> "wild"]))
    <2>1. \E c : Goto(t, c) /\ Mountless(c)
      BY <1>3, MountlessCalls
    <2> QED  BY <1>1, <1>3, <2>1, SteadyGoto DEF Follows
  <1> QED  BY <1>1, <1>2, <1>3, AddToSteady

LEMMA MkdirSteady == ASSUME Typed, NEW t \in Tasks, NEW p, Mkdir(t, p) PROVE Steady
  <1>1. UNCHANGED <<vnodes, mounts>>
    BY DEF Mkdir
  <1>2. \/ UNCHANGED lapped /\ Goto(t, [pc |-> "wild"])
        \/ \E d, name, path, fd : AddTo(t, d, name, "DIR", path, fd)
    BY DEF Mkdir, GoWild
  <1>3. CASE UNCHANGED lapped /\ Goto(t, [pc |-> "wild"])
    <2>1. \E c : Goto(t, c) /\ Mountless(c)
      BY <1>3, MountlessCalls
    <2> QED  BY <1>1, <1>3, <2>1, SteadyGoto DEF Follows
  <1> QED  BY <1>1, <1>2, <1>3, AddToSteady

LEMMA MountSteady ==
    ASSUME Typed, NEW t \in Tasks, NEW p, NEW fs, Mount(t, p, fs)
    PROVE  Steady
  <1>1. UNCHANGED <<vnodes, mounts, lapped>>
    BY DEF Mount
  <1>2. PICK v : \/ IsVnode(v) /\ Goto(t, [pc |-> "attach", dir |-> v, fs |-> fs])
                 \/ Goto(t, [pc |-> "wild"])
    BY DEF Mount, GoWild
  <1> DEFINE c == [pc |-> "attach", dir |-> v, fs |-> fs]
             w == [pc |-> "wild"]
  <1>3. c.pc = "attach" /\ c.dir = v /\ Mountless(w)
    BY MountlessCalls
  <1>4. (IsVnode(v) /\ Goto(t, c)) \/ Goto(t, w)
    BY <1>2
  <1> HIDE DEF c, w
  <1> QED  BY <1>1, <1>3, <1>4, SteadyGoto DEF Follows

LEMMA EnterSetupSteady == ASSUME Typed, NEW t \in Tasks, EnterSetup(t) PROVE Steady
  <1> DEFINE c == [pc |-> "setup", mount |-> vnodes[call[t].dir].mount, fs |-> call[t].fs]
  <1>1. /\ call[t].pc = "enter" /\ UNCHANGED <<vnodes, mounts, lapped>> /\ Goto(t, c)
        /\ c.pc = "setup" /\ c.mount = vnodes[call[t].dir].mount
    BY DEF EnterSetup, At
  <1> HIDE DEF c
  <1> QED  BY <1>1, SteadyGoto DEF Follows

LEMMA ForkSteady ==
    ASSUME Typed, NEW t \in Tasks,
           (\E child \in Tasks : Fork(t, child)) \/ ForkCwd(t) \/ ForkFile(t)
    PROVE  Steady
  <1>1. UNCHANGED <<vnodes, mounts, lapped>>
    BY DEF Fork, ForkCwd, ForkFile
  <1>2. ASSUME NEW child \in Tasks, Fork(t, child) PROVE \A u \in Tasks : Follows(call[u], call'[u])
    <2> DEFINE f == [pc |-> "fork", child |-> child]
    <2>1. /\ call'[t] = f /\ call'[child] = Idle
          /\ \A u \in Tasks \ {t, child} : call'[u] = call[u]
      BY <1>2, ForkStep
    <2>2. Mountless(f) /\ Mountless(Idle)
      BY MountlessCalls DEF Mountless
    <2> HIDE DEF f
    <2> QED  BY <2>1, <2>2 DEF Follows
  <1>3. CASE ForkCwd(t)
    <2>2. /\ call'[t] = [pc |-> "copy", child |-> call[t].child, fd |-> 1]
          /\ \A u \in Tasks \ {t} : call'[u] = call[u]
      BY <1>3, ForkCwdStep
    <2>1. call'[t].pc = "copy" /\ \A u \in Tasks \ {t} : call'[u] = call[u]
      BY ONLY <2>2
    <2> QED  BY <2>1, <1>1 DEF Follows, Mountless, Steady, SameMount
  <1>4. CASE ForkFile(t)
    <2>2. /\ \/ call'[t].pc = "user"
             \/ call'[t] = [pc |-> "copy", child |-> call[t].child, fd |-> call[t].fd + 1]
          /\ \A u \in Tasks \ {t} : call'[u] = call[u]
      BY <1>4, ForkFileStep
    <2>1. call'[t].pc \in {"user", "copy"} /\ \A u \in Tasks \ {t} : call'[u] = call[u]
      BY ONLY <2>2
    <2> QED  BY <2>1, <1>1 DEF Follows, Mountless, Steady, SameMount
  <1> QED  BY <1>1, <1>2, <1>3, <1>4 DEF Steady, SameMount

\* Calls that are in the middle of the tree make no mounts.
LEMMA TreeSteady ==
    ASSUME Tree, NEW t \in Tasks,
           Store(t) \/ NameIt(t) \/ ListStart(t) \/ ListNext(t) \/ Fill(t)
    PROVE  Steady
  <1>1. mounts' = mounts
    BY DEF Store, NameIt, ListStart, ListNext, Fill
  <1>2. CASE Store(t)
    <2>1. /\ Grows("tmpfs", call[t].type, <<>>) /\ call'[t].pc = "name"
          /\ \A u \in Tasks \ {t} : call'[u] = call[u]
      BY <1>2, StoreStep
    <2>2. lapped' = lapped
      BY <1>2 DEF Store
    <2> QED  BY <1>1, <2>1, <2>2, Grown DEF Steady, Grows, Follows, Mountless
  <1>3. CASE NameIt(t)
    <2>1. /\ DOMAIN vnodes' = DOMAIN vnodes /\ \A v \in DOMAIN vnodes : SameMount(v)
          /\ call'[t].pc = "user" /\ \A u \in Tasks \ {t} : call'[u] = call[u]
      BY <1>3, NameStep
    <2>2. lapped' = lapped
      BY <1>3 DEF NameIt
    <2> QED  BY <1>1, <2>1, <2>2 DEF Steady, Follows, Mountless
  <1>4. CASE ListStart(t) \/ ListNext(t)
    <2>1. /\ vnodes' = vnodes /\ call'[t].pc \in {"scan", "fill"} /\ lapped \subseteq lapped'
          /\ \A u \in Tasks \ {t} : call'[u] = call[u]
      BY <1>4, ListMoves
    <2> QED  BY <1>1, <2>1 DEF Steady, Follows, Mountless, SameMount
  <1>5. CASE Fill(t)
    <2>4. /\ vnodes' = vnodes \/ \E name : Grows("initramfs", "FILE", name)
          /\ \/ call'[t].pc \in {"user", "wild"}
             \/ call'[t] = [pc |-> "fill", dir |-> call[t].dir, idx |-> call[t].idx + 1]
          /\ lapped' = lapped /\ \A u \in Tasks \ {t} : call'[u] = call[u]
      BY <1>5, FillStep
    <2>5. call'[t].pc \in {"user", "wild", "fill"}
      BY ONLY <2>4
    <2>1. /\ vnodes' = vnodes \/ \E name : Grows("initramfs", "FILE", name)
          /\ call'[t].pc \in {"user", "wild", "fill"} /\ lapped' = lapped
          /\ \A u \in Tasks \ {t} : call'[u] = call[u]
      BY <2>4, <2>5
    <2>2. CASE vnodes' = vnodes
      BY <1>1, <2>1, <2>2 DEF Steady, Follows, Mountless, SameMount
    <2>3. CASE \E name : Grows("initramfs", "FILE", name)
      BY <1>1, <2>1, <2>3, Grown DEF Steady, Grows, Follows, Mountless
    <2> QED  BY <2>1, <2>2, <2>3
  <1> QED  BY <1>2, <1>3, <1>4, <1>5

LEMMA Steadies ==
    ASSUME Tree, [Next]_vars
    PROVE  Steady \/ \E t \in Tasks : Attach(t) \/ Setup(t)
  <1>1. Typed
    BY DEF Tree
  <1>2. ASSUME NEW t \in Tasks, Call(t) PROVE Steady
    <2>1. ASSUME (\E p \in ChdirPaths : Chdir(t, p)) \/ (\E fd \in Fds : Close(t, fd)) PROVE Steady
      BY <2>1, StillSteady DEF Chdir, Close
    <2> QED  BY <1>1, <1>2, <2>1, OpenSteady, MkdirSteady, MountSteady, ForkSteady DEF Call
  <1>3. ASSUME NEW t \in Tasks, Step(t) PROVE Steady \/ Attach(t) \/ Setup(t)
    BY <1>1, <1>3, CreateInSteady, EnterSetupSteady, ForkSteady, TreeSteady DEF Step
  <1>4. CASE UNCHANGED vars
    BY <1>4, StillSteady DEF vars
  <1> QED  BY <1>2, <1>3, <1>4 DEF Next

-----------------------------------------------------------------------------
(* Mounts and their roots                                                  *)

\* What is about to be hung in the tree stays the same thing.
LEMMA SteadyHooks ==
    ASSUME Tree, Links, Steady, NEW u \in Tasks, Hooks(u)'
    PROVE  Hooks(u) /\ Hook(u)' = Hook(u)
  <1>1. Follows(call[u], call'[u]) /\ call'[u].pc \in {"enter", "setup"}
    BY DEF Steady, Hooks
  <1>2. CASE call'[u] = call[u] /\ call[u].pc = "enter"
    <2>1. SameMount(call[u].dir)
      BY <1>2 DEF Links, IsVnode, Steady
    <2> QED  BY <1>2, <2>1 DEF Hooks, Hook, SameMount
  <1>3. CASE call'[u] = call[u] /\ call[u].pc = "setup"
    BY <1>3 DEF Hooks, Hook
  <1>4. CASE call[u].pc = "enter" /\ call'[u].pc = "setup"
             /\ call'[u].mount = vnodes[call[u].dir].mount
    BY <1>4 DEF Hooks, Hook
  <1> QED  BY <1>1, <1>2, <1>3, <1>4 DEF Follows, Mountless

LEMMA SteadyLinks == ASSUME Tree, Links, Steady PROVE Links'
  <1>1. /\ mounts' = mounts /\ DOMAIN vnodes \subseteq DOMAIN vnodes'
        /\ \A u \in Tasks : Follows(call[u], call'[u])
    BY DEF Steady
  <1>2. \A v \in DOMAIN vnodes' : vnodes'[v].mount \in DOMAIN mounts' \cup {0}
    BY <1>1 DEF Steady, Links, SameMount
  <1>3. \A u \in Tasks : call'[u].pc \in {"attach", "enter"} => call'[u].dir \in DOMAIN vnodes'
    BY <1>1 DEF Links, Follows, Mountless, IsVnode
  <1>4. \A u \in Tasks : Hooks(u)' => Hook(u)' \in DOMAIN mounts'
    BY <1>1, SteadyHooks DEF Links
  <1> QED  BY <1>1, <1>2, <1>3, <1>4 DEF Links, IsVnode

SameLeads(u) ==
    /\ ToSet(vnodes[u].entry) \subseteq ToSet(vnodes'[u].entry)
    /\ vnodes[u].mount # 0 /\ mounts[vnodes[u].mount] # 0 =>
        vnodes'[u].mount = vnodes[u].mount /\ mounts'[vnodes[u].mount] = mounts[vnodes[u].mount]

\* What was found is found still.
LEMMA LedBy ==
    ASSUME Tree, \A u \in DOMAIN vnodes : SameLeads(u),
           NEW v \in DOMAIN vnodes, Led(v)
    PROVE  Led(v)'
  <1>1. PICK u \in 1 .. v - 1 : Leads(u, v)
    BY DEF Led
  <1>2. u \in DOMAIN vnodes /\ v # 0
    BY VnodeFields
  <1>3. Leads(u, v)'
    BY <1>1, <1>2 DEF Leads, SameLeads
  <1> QED  BY <1>1, <1>3 DEF Led

LEMMA SteadyFound ==
    ASSUME Tree, Links, Found, Steady,
           lapped' = {} =>
            /\ \A u \in DOMAIN vnodes : ToSet(vnodes[u].entry) \subseteq ToSet(vnodes'[u].entry)
            /\ \A v \in DOMAIN vnodes' \ DOMAIN vnodes : Led(v)'
    PROVE  Found'
  <1> SUFFICES ASSUME lapped' = {}
               PROVE  Hooked' /\ \A v \in DOMAIN vnodes' \ {Root} : Led(v)'
    BY DEF Found
  <1>1. /\ lapped = {} /\ mounts' = mounts /\ DOMAIN vnodes \subseteq DOMAIN vnodes'
        /\ \A v \in DOMAIN vnodes : SameMount(v)
    BY DEF Steady
  <1>2. Hooked /\ \A v \in DOMAIN vnodes \ {Root} : Led(v)
    BY <1>1 DEF Found
  <1>3. \A u \in DOMAIN vnodes : SameLeads(u)
    BY <1>1 DEF SameLeads, SameMount
  <1>4. \A v \in DOMAIN vnodes' \ {Root} : Led(v)'
    BY <1>2, <1>3, LedBy
  <1>5. \A u \in Tasks : Hooks(u)' => Hooks(u) /\ Hook(u)' = Hook(u)
    BY SteadyHooks
  <1>6. \A u \in Tasks : Hooks(u)' =>
            mounts'[Hook(u)'] = 0 /\ \E w \in DOMAIN vnodes' : vnodes'[w].mount = Hook(u)'
    BY <1>1, <1>2, <1>5 DEF Hooked, SameMount
  <1>7. Hooked'
    BY <1>2, <1>5, <1>6 DEF Hooked
  <1> QED  BY <1>4, <1>7

LEMMA AppendedSet ==
    ASSUME NEW S, NEW s \in Seq(S), NEW x \in S, NEW w, w = Append(s, x)
    PROVE  ToSet(s) \subseteq ToSet(w) /\ x \in ToSet(w)
  <1>1. /\ DOMAIN s = 1 .. Len(s) /\ DOMAIN w = 1 .. Len(s) + 1 /\ Len(s) \in Nat
        /\ w[Len(s) + 1] = x /\ \A i \in 1 .. Len(s) : w[i] = s[i]
    BY AppendSeq
  <1>2. Len(s) + 1 \in DOMAIN w /\ \A i \in DOMAIN s : i \in DOMAIN w /\ w[i] = s[i]
    BY <1>1
  <1> QED  BY <1>1, <1>2 DEF ToSet

\* A vnode that is added is led to by the directory it is added to.
LEMMA LedBack ==
    ASSUME Tree, NEW d \in DOMAIN vnodes, NEW fs, NEW type, NEW name, Grows(fs, type, name),
           \A v \in DOMAIN vnodes : v # d => SameEntry(v),
           vnodes'[d].entry = Append(vnodes[d].entry, Fresh)
    PROVE  /\ \A u \in DOMAIN vnodes : ToSet(vnodes[u].entry) \subseteq ToSet(vnodes'[u].entry)
           /\ \A v \in DOMAIN vnodes' \ DOMAIN vnodes : Led(v)'
  <1>1. vnodes[d].entry \in Seq(Nat) /\ Fresh \in Nat
    BY VnodeFields DEF Fresh
  <1>2. /\ ToSet(vnodes[d].entry) \subseteq ToSet(vnodes'[d].entry)
        /\ Fresh \in ToSet(vnodes'[d].entry)
    <2> DEFINE old == vnodes[d].entry
               new == vnodes'[d].entry
    <2>1. old \in Seq(Nat) /\ Fresh \in Nat /\ new = Append(old, Fresh)
      BY <1>1
    <2> HIDE DEF old, new
    <2>2. ToSet(old) \subseteq ToSet(new) /\ Fresh \in ToSet(new)
      BY ONLY <2>1, AppendedSet
    <2> QED  BY <2>2 DEF old, new
  <1>3. \A u \in DOMAIN vnodes : ToSet(vnodes[u].entry) \subseteq ToSet(vnodes'[u].entry)
    BY <1>2 DEF SameEntry
  <1>4. d \in 1 .. Fresh - 1 /\ \A v \in DOMAIN vnodes' \ DOMAIN vnodes : v = Fresh
    BY Grown DEF Grows
  <1>5. ASSUME NEW v \in DOMAIN vnodes' \ DOMAIN vnodes PROVE Led(v)'
    <2>1. v = Fresh /\ d \in 1 .. v - 1
      BY <1>4
    <2>2. Leads(d, v)'
      BY <2>1, <1>2 DEF Leads
    <2> QED  BY <2>1, <2>2 DEF Led
  <1> QED  BY <1>3, <1>5

\* The steps that make no mount.
LEMMA StoreFound ==
    ASSUME Tree, Links, Found, NamesInv, Steady, NEW t \in Tasks, Store(t)
    PROVE  Found'
  <1> DEFINE d == call[t].dir
  <1>1. /\ Grows("tmpfs", call[t].type, <<>>)
        /\ \A v \in DOMAIN vnodes : v # d => SameEntry(v)
        /\ call[t].idx > Len(vnodes[d].entry) => vnodes'[d].entry = Append(vnodes[d].entry, Fresh)
    BY StoreStep
  <1>2. call[t].pc = "store" /\ lapped' = lapped /\ Adds(t)
    BY DEF Store, At, Adds
  <1>3. d \in DOMAIN vnodes
    BY <1>2 DEF Tree, Places, IsVnode
  <1>4. lapped = {} => call[t].idx > Len(vnodes[d].entry)
    BY <1>2 DEF NamesInv, Naming, Looked
  <1>5. lapped' = {} =>
            /\ \A u \in DOMAIN vnodes : ToSet(vnodes[u].entry) \subseteq ToSet(vnodes'[u].entry)
            /\ \A v \in DOMAIN vnodes' \ DOMAIN vnodes : Led(v)'
    <2> SUFFICES ASSUME lapped' = {}
                 PROVE  /\ \A u \in DOMAIN vnodes :
                                ToSet(vnodes[u].entry) \subseteq ToSet(vnodes'[u].entry)
                        /\ \A v \in DOMAIN vnodes' \ DOMAIN vnodes : Led(v)'
      OBVIOUS
    <2>1. vnodes'[d].entry = Append(vnodes[d].entry, Fresh)
      BY <1>1, <1>2, <1>4
    <2> HIDE DEF d
    <2> QED  BY <2>1, <1>1, <1>3, LedBack
  <1> QED  BY <1>5, SteadyFound

LEMMA SameFound ==
    ASSUME Tree, Links, Found, Steady,
           DOMAIN vnodes' = DOMAIN vnodes, \A v \in DOMAIN vnodes : SameEntry(v)
    PROVE  Found'
  BY SteadyFound DEF SameEntry

LEMMA FillFound ==
    ASSUME Tree, Links, Found, Steady, NEW t \in Tasks, Fill(t)
    PROVE  Found'
  <1> DEFINE d == call[t].dir
  <1>1. /\ call[t].pc = "fill"
        /\ \/ vnodes' = vnodes
           \/ /\ \E name : Grows("initramfs", "FILE", name)
              /\ \A v \in DOMAIN vnodes : v # d => SameEntry(v)
              /\ vnodes'[d].entry = Append(vnodes[d].entry, Fresh)
    BY FillStep
  <1>2. d \in DOMAIN vnodes
    BY <1>1 DEF Tree, Places, IsVnode, Mounts
  <1>3. CASE vnodes' = vnodes
    BY <1>3, SameFound DEF SameEntry
  <1>4. CASE /\ \E name : Grows("initramfs", "FILE", name)
             /\ \A v \in DOMAIN vnodes : v # d => SameEntry(v)
             /\ vnodes'[d].entry = Append(vnodes[d].entry, Fresh)
    <2>1. /\ \A u \in DOMAIN vnodes : ToSet(vnodes[u].entry) \subseteq ToSet(vnodes'[u].entry)
          /\ \A v \in DOMAIN vnodes' \ DOMAIN vnodes : Led(v)'
      <3> HIDE DEF d
      <3> QED  BY <1>2, <1>4, LedBack
    <2> QED  BY <2>1, SteadyFound
  <1> QED  BY <1>1, <1>3, <1>4

\* node->mount is set, to a struct mount that has no root.
NewMount == Len(mounts) + 1

LEMMA Attached ==
    ASSUME Tree, Links, NEW t \in Tasks, Attach(t)
    PROVE  /\ DOMAIN vnodes' = DOMAIN vnodes /\ call[t].dir \in DOMAIN vnodes
           /\ \A w \in DOMAIN vnodes : /\ SameEntry(w)
                                       /\ w # call[t].dir => SameMount(w)
           /\ vnodes'[call[t].dir].mount = NewMount
           /\ DOMAIN mounts' = DOMAIN mounts \cup {NewMount}
           /\ NewMount \notin DOMAIN mounts \cup {0}
           /\ mounts'[NewMount] = 0 /\ \A m \in DOMAIN mounts : mounts'[m] = mounts[m]
           /\ call'[t].pc = "enter" /\ call'[t].dir = call[t].dir
           /\ \A u \in Tasks \ {t} : call'[u] = call[u]
           /\ lapped' = {} => lapped = {} /\ vnodes[call[t].dir].mount = 0
  <1> DEFINE d == call[t].dir
  <1>1. /\ SameTree
        /\ \A v \in DOMAIN vnodes :
                vnodes'[v].mount = IF v = d THEN Len(mounts') ELSE vnodes[v].mount
        /\ call[t].pc = "attach" /\ call'[t].pc = "enter" /\ call'[t].dir = d
        /\ \A u \in Tasks \ {t} : call'[u] = call[u]
    BY AttachStep
  <1>2. d \in DOMAIN vnodes
    BY <1>1 DEF Links, IsVnode
  <1>3. /\ mounts' = Append(mounts, 0)
        /\ lapped' = IF vnodes[d].mount = 0 THEN lapped ELSE lapped \cup {d}
    BY DEF Attach
  <1>4. /\ Len(mounts) \in Nat /\ DOMAIN mounts = 1 .. Len(mounts) /\ Len(mounts') = NewMount
        /\ DOMAIN mounts' = 1 .. NewMount
        /\ mounts'[NewMount] = 0 /\ \A m \in 1 .. Len(mounts) : mounts'[m] = mounts[m]
    <2>1. mounts \in Seq(Nat) /\ 0 \in Nat
      BY MountFields DEF Tree
    <2> QED  BY <2>1, <1>3, AppendSeq DEF NewMount
  <1>5. DOMAIN mounts' = DOMAIN mounts \cup {NewMount} /\ NewMount \notin DOMAIN mounts \cup {0}
    BY <1>4 DEF NewMount
  <1> HIDE DEF d
  <1>6. \A w \in DOMAIN vnodes : SameEntry(w) /\ (w # d => SameMount(w))
    BY <1>1 DEF SameTree, SameMount
  <1>7. lapped' = {} => lapped = {} /\ vnodes[d].mount = 0
    BY <1>3
  <1> QED  BY <1>1, <1>2, <1>4, <1>5, <1>6, <1>7 DEF SameTree, d

LEMMA AttachedHooks ==
    ASSUME Tree, Links, NEW t \in Tasks, Attach(t), NEW u \in Tasks, Hooks(u)'
    PROVE  \/ Hook(u)' = NewMount /\ (u = t \/ (call[u].pc = "enter" /\ call[u].dir = call[t].dir))
           \/ u # t /\ Hooks(u) /\ Hook(u)' = Hook(u)
  <1>1. CASE u = t
    BY <1>1, Attached DEF Hook
  <1>2. CASE u # t /\ call[u].pc = "enter"
    <2>1. call'[u] = call[u] /\ call[u].dir \in DOMAIN vnodes
      BY <1>2, Attached DEF Links, IsVnode
    <2>2. CASE call[u].dir = call[t].dir
      BY <1>2, <2>1, <2>2, Attached DEF Hook
    <2>3. CASE call[u].dir # call[t].dir
      <3>1. SameMount(call[u].dir)
        BY <2>1, <2>3, Attached
      <3> QED  BY <1>2, <2>1, <3>1 DEF Hook, Hooks, SameMount
    <2> QED  BY <2>2, <2>3
  <1>3. CASE u # t /\ call[u].pc = "setup"
    <2>1. call'[u] = call[u]
      BY <1>3, Attached
    <2> QED  BY <1>3, <2>1 DEF Hook, Hooks
  <1>4. u # t => Hooks(u)
    BY Attached DEF Hooks
  <1> QED  BY <1>1, <1>2, <1>3, <1>4 DEF Hooks

LEMMA AttachLinks == ASSUME Tree, Links, NEW t \in Tasks, Attach(t) PROVE Links'
  <1>1. \A v \in DOMAIN vnodes' : vnodes'[v].mount \in DOMAIN mounts' \cup {0}
    BY Attached DEF Links, SameMount
  <1>2. \A m \in DOMAIN mounts' : mounts'[m] \in DOMAIN vnodes' \cup {0}
    BY Attached DEF Links
  <1>3. \A u \in Tasks : call'[u].pc \in {"attach", "enter"} => call'[u].dir \in DOMAIN vnodes'
    BY Attached DEF Links, IsVnode
  <1>4. \A u \in Tasks : Hooks(u)' => Hook(u)' \in DOMAIN mounts'
    BY Attached, AttachedHooks DEF Links
  <1> QED  BY <1>1, <1>2, <1>3, <1>4 DEF Links, IsVnode

LEMMA AttachFound == ASSUME Tree, Links, Found, NEW t \in Tasks, Attach(t) PROVE Found'
  <1> SUFFICES ASSUME lapped' = {}
               PROVE  Hooked' /\ \A v \in DOMAIN vnodes' \ {Root} : Led(v)'
    BY DEF Found
  <1> DEFINE d == call[t].dir
  <1>1. lapped = {} /\ vnodes[d].mount = 0
    BY Attached
  <1>2. Hooked /\ \A v \in DOMAIN vnodes \ {Root} : Led(v)
    BY <1>1 DEF Found
  <1>3. \A u \in DOMAIN vnodes : SameLeads(u)
    <2> TAKE u \in DOMAIN vnodes
    <2>1. ToSet(vnodes[u].entry) \subseteq ToSet(vnodes'[u].entry)
      BY Attached DEF SameEntry
    <2>2. ASSUME vnodes[u].mount # 0
          PROVE  vnodes'[u].mount = vnodes[u].mount
                 /\ mounts'[vnodes[u].mount] = mounts[vnodes[u].mount]
      BY <1>1, <2>2, Attached DEF SameMount, Links
    <2> QED  BY <2>1, <2>2 DEF SameLeads
  <1>4. \A v \in DOMAIN vnodes' \ {Root} : Led(v)'
    BY <1>2, <1>3, LedBy, Attached
  <1>5. ASSUME NEW u \in Tasks, call[u].pc = "enter", call[u].dir = d PROVE FALSE
    <2>1. Hooks(u) /\ Hook(u) = 0
      BY <1>1, <1>5 DEF Hooks, Hook
    <2>2. 0 \notin DOMAIN mounts
      BY MountFields DEF Tree
    <2> QED  BY <2>1, <2>2 DEF Links
  <1>6. ASSUME NEW u \in Tasks, Hooks(u)'
        PROVE  \/ u = t /\ Hook(u)' = NewMount
               \/ u # t /\ Hooks(u) /\ Hook(u)' = Hook(u) /\ Hook(u) \in DOMAIN mounts
    BY <1>5, <1>6, AttachedHooks DEF Links
  <1>7. \A u \in Tasks : Hooks(u)' =>
            mounts'[Hook(u)'] = 0 /\ \E w \in DOMAIN vnodes' : vnodes'[w].mount = Hook(u)'
    <2> SUFFICES ASSUME NEW u \in Tasks, Hooks(u)'
                 PROVE  /\ mounts'[Hook(u)'] = 0
                        /\ \E w \in DOMAIN vnodes' : vnodes'[w].mount = Hook(u)'
      OBVIOUS
    <2>1. CASE u = t /\ Hook(u)' = NewMount
      BY <2>1, Attached
    <2>2. CASE u # t /\ Hooks(u) /\ Hook(u)' = Hook(u) /\ Hook(u) \in DOMAIN mounts
      <3>1. mounts'[Hook(u)'] = 0
        BY <1>2, <2>2, Attached DEF Hooked
      <3>2. PICK w \in DOMAIN vnodes : vnodes[w].mount = Hook(u)
        BY <1>2, <2>2 DEF Hooked
      <3>3. w # d
        BY <3>2, <1>1, <2>2, MountFields DEF Tree
      <3> QED  BY <3>1, <3>2, <3>3, <2>2, Attached DEF SameMount
    <2> QED  BY <1>6, <2>1, <2>2
  <1>8. \A u, w \in Tasks : u # w /\ Hooks(u)' /\ Hooks(w)' => Hook(u)' # Hook(w)'
    BY <1>2, <1>6, Attached DEF Hooked
  <1> QED  BY <1>4, <1>7, <1>8 DEF Hooked

\* mount->root is set.
LEMMA SetUp ==
    ASSUME Tree, Links, NEW t \in Tasks, Setup(t)
    PROVE  /\ Hooks(t) /\ Hook(t) = call[t].mount /\ Hook(t) \in DOMAIN mounts
           /\ DOMAIN mounts' = DOMAIN mounts
           /\ \A m \in DOMAIN mounts : mounts'[m] = IF m = Hook(t) THEN Fresh ELSE mounts[m]
           /\ DOMAIN vnodes \subseteq DOMAIN vnodes' /\ DOMAIN vnodes = 1 .. Fresh - 1
           /\ Fresh \in DOMAIN vnodes' /\ Fresh \in Nat
           /\ \A v \in DOMAIN vnodes' : v \in DOMAIN vnodes \/ (v = Fresh /\ vnodes'[v].mount = 0)
           /\ \A v \in DOMAIN vnodes : SameEntry(v) /\ SameMount(v)
           /\ Mountless(call'[t]) /\ \A u \in Tasks \ {t} : call'[u] = call[u]
           /\ lapped' = lapped
  <1>1. /\ call[t].pc = "setup" /\ Grows(call[t].fs, "DIR", <<>>)
        /\ \A v \in DOMAIN vnodes : SameEntry(v)
        /\ call'[t].pc \in {"user", "list"} /\ \A u \in Tasks \ {t} : call'[u] = call[u]
        /\ lapped' = lapped
    BY SetupStep
  <1>2. Hooks(t) /\ Hook(t) = call[t].mount /\ Hook(t) \in DOMAIN mounts
    BY <1>1 DEF Hooks, Hook, Links
  <1>3. mounts' = [mounts EXCEPT ![call[t].mount] = Fresh]
    BY DEF Setup, Fresh
  <1>4. mounts = [m \in DOMAIN mounts |-> mounts[m]]
    BY MountFields DEF Tree
  <1>5. /\ DOMAIN mounts' = DOMAIN mounts
        /\ \A m \in DOMAIN mounts : mounts'[m] = IF m = Hook(t) THEN Fresh ELSE mounts[m]
    BY <1>2, <1>3, <1>4
  <1>6. Mountless(call'[t])
    BY <1>1 DEF Mountless
  <1>7. /\ DOMAIN vnodes \subseteq DOMAIN vnodes' /\ DOMAIN vnodes = 1 .. Fresh - 1
        /\ Fresh \in DOMAIN vnodes' /\ Fresh \in Nat
        /\ \A v \in DOMAIN vnodes' : v \in DOMAIN vnodes \/ (v = Fresh /\ vnodes'[v].mount = 0)
        /\ \A v \in DOMAIN vnodes : SameMount(v)
    <2>1. /\ DOMAIN vnodes = 1 .. Fresh - 1 /\ Fresh \in Nat /\ vnodes'[Fresh].mount = 0
          /\ \A v \in DOMAIN vnodes : SameMount(v)
      BY <1>1 DEF Grows
    <2>2. /\ DOMAIN vnodes \subseteq DOMAIN vnodes' /\ Fresh \in DOMAIN vnodes'
          /\ \A v \in DOMAIN vnodes' : v \in DOMAIN vnodes \/ v = Fresh
      <3>1. Grows(call[t].fs, "DIR", <<>>)
        BY <1>1
      <3> QED  BY ONLY <3>1, Grown
    <2> QED  BY <2>1, <2>2
  <1> QED  BY <1>1, <1>2, <1>5, <1>6, <1>7

LEMMA SetUpHooks ==
    ASSUME Tree, Links, NEW t \in Tasks, Setup(t), NEW u \in Tasks, Hooks(u)'
    PROVE  u # t /\ Hooks(u) /\ Hook(u)' = Hook(u)
  <1>1. u # t /\ call'[u] = call[u] /\ Hooks(u)
    BY SetUp DEF Hooks, Mountless
  <1>2. call[u].pc = "enter" => SameMount(call[u].dir)
    BY SetUp DEF Links, IsVnode
  <1> QED  BY <1>1, <1>2 DEF Hook, SameMount

LEMMA SetupLinks == ASSUME Tree, Links, NEW t \in Tasks, Setup(t) PROVE Links'
  <1>1. \A v \in DOMAIN vnodes' : vnodes'[v].mount \in DOMAIN mounts' \cup {0}
    BY SetUp DEF Links, SameMount
  <1>2. \A m \in DOMAIN mounts' : mounts'[m] \in DOMAIN vnodes' \cup {0}
    BY SetUp DEF Links
  <1>3. \A u \in Tasks : call'[u].pc \in {"attach", "enter"} => call'[u].dir \in DOMAIN vnodes'
    BY SetUp DEF Links, IsVnode, Mountless
  <1>4. \A u \in Tasks : Hooks(u)' => Hook(u)' \in DOMAIN mounts'
    BY SetUp, SetUpHooks DEF Links
  <1> QED  BY <1>1, <1>2, <1>3, <1>4 DEF Links, IsVnode

LEMMA SetupFound == ASSUME Tree, Links, Found, NEW t \in Tasks, Setup(t) PROVE Found'
  <1> SUFFICES ASSUME lapped' = {}
               PROVE  Hooked' /\ \A v \in DOMAIN vnodes' \ {Root} : Led(v)'
    BY DEF Found
  <1>1. Hooked /\ \A v \in DOMAIN vnodes \ {Root} : Led(v)
    BY SetUp DEF Found
  <1>2. mounts[Hook(t)] = 0
    BY <1>1, SetUp DEF Hooked
  <1>3. \A u \in DOMAIN vnodes : SameLeads(u)
    <2> TAKE u \in DOMAIN vnodes
    <2>1. /\ ToSet(vnodes[u].entry) \subseteq ToSet(vnodes'[u].entry)
          /\ vnodes'[u].mount = vnodes[u].mount
      BY SetUp DEF SameEntry, SameMount
    <2>2. ASSUME vnodes[u].mount # 0, mounts[vnodes[u].mount] # 0
          PROVE  mounts'[vnodes[u].mount] = mounts[vnodes[u].mount]
      <3>1. vnodes[u].mount \in DOMAIN mounts /\ vnodes[u].mount # Hook(t)
        BY <1>2, <2>2 DEF Links
      <3> QED  BY <3>1, SetUp
    <2> QED  BY <2>1, <2>2 DEF SameLeads
  <1>4. ASSUME NEW v \in DOMAIN vnodes', v = Fresh PROVE Led(v)'
    <2>1. PICK w \in DOMAIN vnodes : vnodes[w].mount = Hook(t)
      BY <1>1, SetUp DEF Hooked
    <2>2. Hook(t) # 0
      BY SetUp, MountFields DEF Tree
    <2>3. vnodes'[w].mount = Hook(t) /\ mounts'[Hook(t)] = v
      BY <1>4, <2>1, SetUp DEF SameMount
    <2>4. Leads(w, v)'
      BY <2>2, <2>3 DEF Leads
    <2>5. w \in 1 .. v - 1
      BY <1>4, SetUp
    <2> QED  BY <2>4, <2>5 DEF Led
  <1>5. \A v \in DOMAIN vnodes' \ {Root} : Led(v)'
    BY <1>1, <1>3, <1>4, LedBy, SetUp
  <1>6. ASSUME NEW u \in Tasks, Hooks(u)'
        PROVE  mounts'[Hook(u)'] = 0 /\ \E w \in DOMAIN vnodes' : vnodes'[w].mount = Hook(u)'
    <2>1. /\ u # t /\ Hooks(u) /\ Hook(u)' = Hook(u) /\ Hook(u) \in DOMAIN mounts
          /\ Hook(u) # Hook(t)
      BY <1>1, <1>6, SetUp, SetUpHooks DEF Links, Hooked
    <2>2. mounts'[Hook(u)] = 0
      BY <1>1, <2>1, SetUp DEF Hooked
    <2>3. PICK w \in DOMAIN vnodes : vnodes[w].mount = Hook(u)
      BY <1>1, <2>1 DEF Hooked
    <2> QED  BY <2>1, <2>2, <2>3, SetUp DEF SameMount
  <1>7. \A u, w \in Tasks : u # w /\ Hooks(u)' /\ Hooks(w)' => Hook(u)' # Hook(w)'
    BY <1>1, SetUpHooks DEF Hooked
  <1> QED  BY <1>5, <1>6, <1>7 DEF Hooked

\* A step that makes no mount loses nothing either.
LEMMA SteadyStepFound ==
    ASSUME Tree, Links, Found, NamesInv, [Next]_vars, Steady
    PROVE  Found'
  <1>1. ASSUME NEW t \in Tasks, Changes(t) PROVE Found'
    <2>1. CASE Joins(t)
      BY <2>1, SameFound DEF Joins, SameEntry
    <2>2. CASE NameIt(t)
      BY <2>2, NameStep, SameFound
    <2>3. CASE ListStart(t) \/ ListNext(t)
      BY <2>3, ListMoves, SameFound DEF SameEntry
    <2> QED  BY <1>1, <2>1, <2>2, <2>3, StoreFound, FillFound, SetupFound DEF Changes
  <1>2. CASE Quiet
    BY <1>2, SameFound DEF Quiet, SameTree
  <1> QED  BY <1>1, <1>2, Moves

LEMMA LinksNext == ASSUME Tree, Links, [Next]_vars PROVE Links'
  BY Steadies, SteadyLinks, AttachLinks, SetupLinks

LEMMA FoundNext == ASSUME Tree, Links, Found, NamesInv, [Next]_vars PROVE Found'
  BY Steadies, SteadyStepFound, AttachFound, SetupFound

-----------------------------------------------------------------------------
(* What descriptors and the histories point to                             *)

PutsHandle == \E t \in Tasks : \E fd, x : Puts(t, fd, x) /\ (fd \in Fds => IsHandle(x.vnode))

LEMMA HandlesStay ==
    ASSUME Tree, Handles, DOMAIN vnodes \subseteq DOMAIN vnodes', fds' = fds \/ PutsHandle
    PROVE  \A t \in Tasks, fd \in Fds : IsHandle(fds[t][fd].vnode)'
  <1>1. Typed /\ \A t \in Tasks, fd \in Fds : IsHandle(fds[t][fd].vnode)
    BY DEF Tree, Handles
  <1>2. \A t \in Tasks, fd \in Fds : IsHandle(fds'[t][fd].vnode)
    <2>1. CASE fds' = fds
      BY <1>1, <2>1
    <2>2. CASE PutsHandle
      <3>3. PICK t \in Tasks : \E k, x : Puts(t, k, x) /\ (k \in Fds => IsHandle(x.vnode))
        BY <2>2 DEF PutsHandle
      <3>1. PICK k, x : Puts(t, k, x) /\ (k \in Fds => IsHandle(x.vnode))
        BY <3>3
      <3>2. /\ \A u \in Tasks \ {t} : fds'[u] = fds[u]
            /\ \A fd \in Fds : fds'[t][fd] = IF fd = k THEN x ELSE fds[t][fd]
        BY <1>1, <3>1, FdStep
      <3> QED  BY <1>1, <3>1, <3>2
    <2> QED  BY <2>1, <2>2
  <1> QED  BY <1>2 DEF IsHandle, IsVnode

LEMMA OpenedHandle ==
    ASSUME NEW t \in Tasks, NEW path, NEW fd, NEW v, NEW how,
           Opened(t, path, fd, v, how), IsHandle(v)
    PROVE  PutsHandle
  <1> DEFINE x == [vnode |-> v, path |-> path, how |-> how, mounts |-> Len(mounts)]
  <1>1. Puts(t, fd, x) /\ x.vnode = v
    BY DEF Opened, Puts
  <1> HIDE DEF x
  <1> QED  BY <1>1 DEF PutsHandle

LEMMA OpenHandle ==
    ASSUME NEW t \in Tasks, NEW p, NEW creat, Open(t, p, creat)
    PROVE  fds' = fds \/ PutsHandle
  <1>1. \/ fds' = fds
        \/ \E path, fd, v, how : Opened(t, path, fd, v, how) /\ (IsVnode(v) \/ v = Wild)
    BY DEF Open
  <1> QED  BY <1>1, OpenedHandle DEF IsHandle

LEMMA CreateInHandle == ASSUME NEW t \in Tasks, CreateIn(t) PROVE fds' = fds \/ PutsHandle
  <1>1. \/ fds' = fds
        \/ \E path, fd, v, how : Opened(t, path, fd, v, how) /\ IsVnode(v)
    BY DEF CreateIn
  <1> QED  BY <1>1, OpenedHandle DEF IsHandle

LEMMA NameHandle == ASSUME Tree, NEW t \in Tasks, NameIt(t) PROVE fds' = fds \/ PutsHandle
  <1> DEFINE c == call[t]
             x == [vnode |-> c.idx, path |-> c.path, how |-> "created", mounts |-> c.mounts]
  <1>1. c.pc = "name" /\ (fds' = fds \/ Puts(t, c.fd, x))
    BY DEF NameIt, At, Puts
  <1>2. IsHandle(c.idx) /\ x.vnode = c.idx
    BY <1>1 DEF Tree, Places, IsHandle
  <1> HIDE DEF x, c
  <1> QED  BY <1>1, <1>2 DEF PutsHandle

LEMMA CloseHandle == ASSUME NEW t \in Tasks, NEW fd, Close(t, fd) PROVE PutsHandle
  <1>1. Puts(t, fd, NULL) /\ NULL.vnode = 0
    BY DEF Close, Puts, NULL
  <1> QED  BY <1>1 DEF PutsHandle, IsHandle

LEMMA ForkFileHandle ==
    ASSUME Tree, Handles, ForkInv, NEW t \in Tasks, ForkFile(t)
    PROVE  fds' = fds \/ PutsHandle
  <1> DEFINE c == call[t]
             x == IF fds[t][c.fd] # NULL THEN fds[t][c.fd] ELSE fds[c.child][c.fd]
  <1>1. c.pc = "copy" /\ (fds' = fds \/ Puts(c.child, c.fd, x))
    BY DEF ForkFile, At, Puts
  <1>2. c.child \in Tasks
    BY <1>1 DEF ForkInv, Forks
  <1>3. c.fd \in Fds => IsHandle(x.vnode)
    BY <1>2 DEF Handles
  <1> HIDE DEF x, c
  <1> QED  BY <1>1, <1>2, <1>3 DEF PutsHandle

LEMMA FdsNext ==
    ASSUME Tree, Handles, ForkInv, [Next]_vars
    PROVE  fds' = fds \/ PutsHandle
  <1>1. ASSUME NEW t \in Tasks, Call(t) PROVE fds' = fds \/ PutsHandle
    <2>1. CASE \/ \E p \in MkdirPaths : Mkdir(t, p)
               \/ \E p \in MountTargets, fs \in Filesystems : Mount(t, p, fs)
               \/ \E p \in ChdirPaths : Chdir(t, p)
               \/ \E child \in Tasks : Fork(t, child)
      BY <2>1 DEF Mkdir, Mount, Chdir, Fork
    <2> QED  BY <1>1, <2>1, OpenHandle, CloseHandle DEF Call
  <1>2. ASSUME NEW t \in Tasks, Step(t) PROVE fds' = fds \/ PutsHandle
    <2>1. CASE Store(t) \/ Attach(t) \/ EnterSetup(t) \/ Setup(t) \/ ListStart(t) \/ ListNext(t)
               \/ Fill(t) \/ ForkCwd(t)
      BY <2>1 DEF Store, Attach, EnterSetup, Setup, ListStart, ListNext, Fill, ForkCwd
    <2> QED  BY <1>2, <2>1, CreateInHandle, NameHandle, ForkFileHandle DEF Step
  <1>3. CASE UNCHANGED vars
    BY <1>3 DEF vars
  <1> QED  BY <1>1, <1>2, <1>3 DEF Next

LEMMA LappedNext ==
    ASSUME Tree, Links, lapped \subseteq DOMAIN vnodes, [Next]_vars
    PROVE  lapped' \subseteq DOMAIN vnodes
  <1>1. ASSUME NEW t \in Tasks, NEW d \in DOMAIN vnodes, NEW name, NEW type, NEW path, NEW fd,
               AddTo(t, d, name, type, path, fd)
        PROVE  lapped' \subseteq DOMAIN vnodes
    BY <1>1 DEF AddTo
  <1>2. ASSUME NEW t \in Tasks, Call(t) PROVE lapped' \subseteq DOMAIN vnodes
    <2>1. ASSUME NEW p, Mkdir(t, p) PROVE lapped' \subseteq DOMAIN vnodes
      BY <1>1, <2>1 DEF Mkdir, IsVnode
    <2>2. lapped' = lapped \/ \E p : Mkdir(t, p)
      BY <1>2 DEF Call, Open, Mount, Chdir, Close, Fork
    <2> QED  BY <2>1, <2>2
  <1>3. ASSUME NEW t \in Tasks, Step(t) PROVE lapped' \subseteq DOMAIN vnodes
    <2>1. CASE CreateIn(t)
      BY <1>1, <2>1 DEF CreateIn, IsVnode
    <2>2. CASE Attach(t)
      BY <2>2 DEF Attach, At, Links, IsVnode
    <2>3. CASE ListStart(t)
      <3>1. \A u \in Listing \cup {t} : call[u].dir \in DOMAIN vnodes
        BY <2>3 DEF ListStart, At, Listing, Tree, Places, Mounts, IsVnode
      <3> QED  BY <2>3, <3>1 DEF ListStart
    <2>4. CASE Store(t) \/ NameIt(t) \/ EnterSetup(t) \/ Setup(t) \/ ListNext(t) \/ Fill(t)
               \/ ForkCwd(t) \/ ForkFile(t)
      BY <2>4 DEF Store, NameIt, EnterSetup, Setup, ListNext, Fill, ForkCwd, ForkFile
    <2> QED  BY <1>3, <2>1, <2>2, <2>3, <2>4 DEF Step
  <1>4. CASE UNCHANGED vars
    BY <1>4 DEF vars
  <1> QED  BY <1>2, <1>3, <1>4 DEF Next

LEMMA HastyNext ==
    ASSUME hasty \subseteq Tasks, [Next]_vars
    PROVE  hasty' \subseteq Tasks
  <1>1. ASSUME NEW t \in Tasks, Acts(t) PROVE hasty' \subseteq Tasks
    BY <1>1 DEF Acts
  <1>2. ASSUME NEW t \in Tasks, Call(t) PROVE hasty' \subseteq Tasks
    <2>1. \/ hasty' = hasty \/ Acts(t) \/ \E child \in Tasks : PassesOn(t, child)
      BY <1>2 DEF Call, Open, Mkdir, Mount, Chdir, Close, Fork
    <2> QED  BY <1>1, <2>1 DEF PassesOn
  <1>3. ASSUME NEW t \in Tasks, Step(t) PROVE hasty' \subseteq Tasks
    <2>1. hasty' = hasty \/ Acts(t)
      BY <1>3 DEF Step, CreateIn, Store, NameIt, Attach, EnterSetup, Setup, ListStart, ListNext,
                  Fill, ForkCwd, ForkFile
    <2> QED  BY <1>1, <2>1
  <1> QED  BY <1>2, <1>3 DEF Next, vars

LEMMA HandlesNext == ASSUME Tree, Links, Handles, ForkInv, [Next]_vars PROVE Handles'
  <1>1. DOMAIN vnodes \subseteq DOMAIN vnodes'
    BY Steadies, Attached, SetUp DEF Steady
  <1> QED  BY <1>1, FdsNext, HandlesStay, LappedNext, HastyNext DEF Handles

-----------------------------------------------------------------------------
LEMMA InitTreeInv == ASSUME Init PROVE TreeInv
  <1>1. /\ Tree /\ DOMAIN vnodes = 1 .. Len(Archive) + 3 /\ Len(Archive) \in Nat
        /\ vnodes[1].entry = <<2>> /\ vnodes[1].type = "DIR" /\ vnodes[1].mount = 0
        /\ vnodes[2].entry = <<>> /\ vnodes[2].mount = 1
        /\ vnodes[3].type = "DIR" /\ vnodes[3].mount = 0
        /\ vnodes[3].entry = [i \in 1 .. Len(Archive) |-> i + 3]
    BY InitTree
  <1>2. \A v \in DOMAIN vnodes :
            v > 3 => v - 3 \in 1 .. Len(Archive) /\ vnodes[v].entry = <<>> /\ vnodes[v].mount = 0
    <2> SUFFICES ASSUME NEW v \in DOMAIN vnodes, v > 3
                 PROVE  v - 3 \in 1 .. Len(Archive) /\ vnodes[v].entry = <<>> /\ vnodes[v].mount = 0
      OBVIOUS
    <2>1. v - 3 \in 1 .. Len(Archive) /\ v = (v - 3) + 3
      BY <1>1
    <2> QED  BY <2>1, InitTree
  <1>3. \A v \in DOMAIN vnodes : v \in {1, 2, 3} \/ v > 3
    BY <1>1
  <1>4. \A t \in Tasks : call[t].pc \in {"user", "unborn"}
    BY DEF Init, Idle
  <1>5. Sizes
    <2>1. Len(vnodes[1].entry) = 1 /\ 1 <= MAX_DIR_ENTRY
      BY <1>1, VfsAssumption
    <2>2. Len(vnodes[3].entry) <= MAX_DIR_ENTRY
      <3>1. vnodes[3].entry \in [1 .. Len(Archive) -> Nat]
        BY <1>1
      <3> QED  BY <3>1, <1>1, IsSeq, VfsAssumption
    <2>3. Len(<<>>) <= MAX_DIR_ENTRY
      BY EmptyFits DEF Fits
    <2>4. \A v \in DOMAIN vnodes : /\ Len(vnodes[v].entry) <= MAX_DIR_ENTRY
                                   /\ IsFile(v) => vnodes[v].entry = <<>>
      BY <1>1, <1>2, <1>3, <2>1, <2>2, <2>3 DEF IsFile
    <2> QED  BY <1>4, <2>4 DEF Sizes, Mounts
  <1>6. mounts = <<3>> /\ DOMAIN mounts = {1}
    BY DEF Init
  <1>7. Links
    BY <1>1, <1>2, <1>3, <1>4, <1>6 DEF Links, Hooks
  <1>8. Handles
    BY DEF Init, Handles, IsHandle, NULL
  <1>9. \A v \in DOMAIN vnodes \ {Root} : Led(v)
    <2> SUFFICES ASSUME NEW v \in DOMAIN vnodes, v # 1
                 PROVE  Led(v)
      BY DEF Root
    <2>1. CASE v = 2
      <3>1. Leads(1, 2)
        BY <1>1 DEF Leads, ToSet
      <3> QED  BY <2>1, <3>1 DEF Led
    <2>2. CASE v = 3
      <3>1. Leads(2, 3)
        BY <1>1, <1>6 DEF Leads, Init
      <3> QED  BY <2>2, <3>1 DEF Led
    <2>3. CASE v > 3
      <3>1. v - 3 \in DOMAIN vnodes[3].entry /\ vnodes[3].entry[v - 3] = v
        BY <2>3, <1>1, <1>2
      <3>2. Leads(3, v)
        BY <3>1 DEF Leads, ToSet
      <3>3. 3 \in 1 .. v - 1
        BY <2>3, <1>1
      <3> QED  BY <3>2, <3>3 DEF Led
    <2> QED  BY <1>3, <2>1, <2>2, <2>3
  <1> QED  BY <1>4, <1>5, <1>7, <1>8, <1>9 DEF TreeInv, Found, Hooked, Hooks

LEMMA TreeInvNext ==
    ASSUME Tree, ArchiveInv, NamesInv, ForkInv, TreeInv, [Next]_vars
    PROVE  TreeInv'
  BY SizesNext, LinksNext, HandlesNext, FoundNext DEF TreeInv

LEMMA TreeTypeOK == ASSUME Tree, TreeInv PROVE TypeOK
  <1>1. /\ DOMAIN vnodes = 1 .. Len(vnodes) /\ Len(vnodes) \in Nat
        /\ DOMAIN mounts = 1 .. Len(mounts) /\ Len(mounts) \in Nat
    BY VnodeFields, MountFields DEF Tree
  <1>2. \A v \in DOMAIN vnodes : ToSet(vnodes[v].entry) \subseteq DOMAIN vnodes
    BY DEF Tree, Places, IsVnode, ToSet
  <1>3. \A v \in DOMAIN vnodes :
            /\ vnodes[v].fs \in {"tmpfs", "initramfs"} /\ vnodes[v].type \in {"DIR", "FILE"}
            /\ Len(vnodes[v].entry) <= MAX_DIR_ENTRY
            /\ vnodes[v].type = "FILE" => vnodes[v].entry = <<>>
            /\ vnodes[v].mount \in 0 .. Len(mounts)
    BY <1>1, VnodeFields DEF TreeInv, Sizes, Links, IsFile, Kinds
  <1>4. \A m \in DOMAIN mounts : mounts[m] \in 0 .. Len(vnodes)
    BY <1>1 DEF TreeInv, Links
  <1>5. \A t \in Tasks, fd \in Fds : fds[t][fd].vnode \in -1 .. Len(vnodes)
    BY <1>1 DEF TreeInv, Handles, IsHandle, IsVnode, Wild
  <1> QED  BY <1>2, <1>3, <1>4, <1>5 DEF TypeOK, TreeInv, Handles

\* tmpfs and vfs_mount: the tree is well formed, and every file and directory
\* ever made is an entry of an older one or mounted on it, unless two calls
\* overlapped in a directory.
THEOREM TreeAlwaysSound == Spec => []TreeSound
  <1> DEFINE Inv == Tree /\ ArchiveInv /\ NamesInv /\ ForkInv /\ TreeInv
  <1>1. Init => Inv
    BY InitTree, InitArchive, InitNames, InitForks, InitTreeInv
  <1>2. Inv /\ [Next]_vars => Inv'
    BY TreeNext, ArchiveNext, NamesNext, ForkNext, TreeInvNext
  <1>3. Inv => TreeSound
    BY TreeTypeOK DEF TreeSound, NothingLost, TreeInv, Found, Led
  <1> QED  BY <1>1, <1>2, <1>3, PTL DEF Spec

-----------------------------------------------------------------------------
(* Proof by the least number                                               *)

\* There is no proof by induction on data: a statement about all numbers is
\* proved by the least number of which it would be false.
LEMMA LeastNumber ==
    ASSUME NEW S \in SUBSET Nat, S # {}
    PROVE  \E n \in S : \A m \in S : n <= m
  <1>1. ASSUME \A n \in S : \E m \in S : m < n
        PROVE  FALSE
    <2> DEFINE R == {p \in Nat \X Nat : p[1] < p[2]}
    <2>1. IsWellFoundedOn(R, Nat)
      BY NatLessThanWellFounded DEF OpToRel
    <2>2. \E x \in S : \A y \in S : ~ (<<y, x>> \in R)
      <3> HIDE DEF R
      <3> QED  BY <2>1, WFMin
    <2> QED  BY <1>1, <2>2
  <1> QED  BY <1>1

\* A set of numbers with 0 in it, and with each number the next, up to n.
LEMMA UpTo ==
    ASSUME NEW n \in Nat, NEW S, 0 \in S, \A k \in 1 .. n : k - 1 \in S => k \in S
    PROVE  \A k \in 0 .. n : k \in S
  <1> DEFINE Bad == {k \in 0 .. n : k \notin S}
  <1>1. SUFFICES ASSUME Bad # {} PROVE FALSE
    OBVIOUS
  <1>2. Bad \in SUBSET Nat
    OBVIOUS
  <1>3. PICK k \in Bad : \A m \in Bad : k <= m
    <2> HIDE DEF Bad
    <2> QED  BY <1>1, <1>2, LeastNumber
  <1>4. k \in 1 .. n /\ k \notin S
    BY <1>3
  <1>5. k - 1 \in Bad
    BY <1>4
  <1> QED  BY <1>3, <1>4, <1>5

LEMMA GreatestIn ==
    ASSUME NEW n \in Nat, NEW s \in SUBSET (1 .. n), s # {}
    PROVE  Max(s) \in s /\ \A x \in s : x <= Max(s)
  <1> DEFINE S == {j \in 0 .. n : n - j \in s}
  <1>0. PICK y \in s : y \in 1 .. n
    OBVIOUS
  <1>1. S \in SUBSET Nat /\ n - y \in S
    BY <1>0
  <1>2. PICK m \in S : \A k \in S : m <= k
    <2> HIDE DEF S
    <2> QED  BY <1>1, LeastNumber
  <1>3. \A x \in s : x \in 1 .. n /\ n - x \in S
    OBVIOUS
  <1>4. \A x \in s : n - m >= x
    <2>1. TAKE x \in s
    <2>2. x \in 1 .. n /\ m <= n - x /\ m \in 0 .. n
      BY <1>2, <1>3
    <2> QED  BY <2>2
  <1>5. n - m \in s
    BY <1>2
  <1>6. \E z \in s : \A x \in s : z >= x
    BY <1>4, <1>5
  <1>7. \A x \in s : x \in Int
    OBVIOUS
  <1> HIDE DEF S
  <1>8. Max(s) \in s /\ \A x \in s : Max(s) >= x
    BY <1>6 DEF Max
  <1> QED  BY <1>7, <1>8

-----------------------------------------------------------------------------
(* Folds.  The community modules define a fold by a recursive function on  *)
(* the sets of indices; it exists, since a fold of fewer indices does.     *)

FoldsOn(f, m, A, base, op) ==
    /\ f \in [SUBSET (1 .. m) -> A]
    /\ \A s \in SUBSET (1 .. m) :
        f[s] = IF s = {} THEN base ELSE op[Max(s)][f[s \ {Max(s)}]]

LEMMA FoldExists ==
    ASSUME NEW n \in Nat, NEW A, NEW base \in A, NEW op \in [1 .. n -> [A -> A]]
    PROVE  \E f : FoldsOn(f, n, A, base, op)
  <1> DEFINE S == {k \in 0 .. n : \E f : FoldsOn(f, k, A, base, op)}
  <1>1. 0 \in S
    <2> DEFINE f == [s \in SUBSET (1 .. 0) |-> base]
    <2>1. \A s \in SUBSET (1 .. 0) : s = {}
      OBVIOUS
    <2>2. FoldsOn(f, 0, A, base, op)
      BY <2>1 DEF FoldsOn
    <2> HIDE DEF f
    <2> QED  BY <2>2
  <1>2. ASSUME NEW k \in 1 .. n, k - 1 \in S PROVE k \in S
    <2>1. PICK f : FoldsOn(f, k - 1, A, base, op)
      BY <1>2
    <2> DEFINE g == [s \in SUBSET (1 .. k) |-> IF k \in s THEN op[k][f[s \ {k}]] ELSE f[s]]
    <2>2. \A s \in SUBSET (1 .. k) : s \ {k} \in SUBSET (1 .. k - 1)
      OBVIOUS
    <2>3. \A s \in SUBSET (1 .. k) : g[s] \in A
      BY <2>1, <2>2 DEF FoldsOn
    <2>4. ASSUME NEW s \in SUBSET (1 .. k)
          PROVE  g[s] = IF s = {} THEN base ELSE op[Max(s)][g[s \ {Max(s)}]]
      <3>1. CASE s = {}
        BY <3>1, <2>1, <2>2 DEF FoldsOn
      <3>2. CASE s # {} /\ k \in s
        <4>1. Max(s) \in s /\ k <= Max(s)
          <5>1. k \in Nat /\ s \in SUBSET (1 .. k)
            OBVIOUS
          <5> QED  BY ONLY <5>1, <3>2, GreatestIn
        <4>2. Max(s) = k
          <5>1. Max(s) \in 1 .. k
            BY <4>1
          <5> HIDE DEF g
          <5> QED  BY <4>1, <5>1
        <4>3. g[s \ {k}] = f[s \ {k}]
          BY <2>2
        <4> QED  BY <3>2, <4>2, <4>3
      <3>3. CASE s # {} /\ k \notin s
        <4>1. Max(s) \in s
          <5>1. k \in Nat /\ s \in SUBSET (1 .. k)
            OBVIOUS
          <5> QED  BY ONLY <5>1, <3>3, GreatestIn
        <4>2. s \in SUBSET (1 .. k - 1) /\ s \ {Max(s)} \in SUBSET (1 .. k) /\ k \notin s \ {Max(s)}
          BY <3>3, <2>2
        <4>3. g[s] = f[s] /\ g[s \ {Max(s)}] = f[s \ {Max(s)}]
          BY <3>3, <4>2
        <4>4. f[s] = op[Max(s)][f[s \ {Max(s)}]]
          BY <3>3, <4>2, <2>1 DEF FoldsOn
        <4> HIDE DEF g
        <4> QED  BY <3>3, <4>3, <4>4
      <3> QED  BY <3>1, <3>2, <3>3
    <2>5. FoldsOn(g, k, A, base, op)
      <3>1. g \in [SUBSET (1 .. k) -> A]
        BY <2>3
      <3> HIDE DEF g
      <3> QED  BY <3>1, <2>4 DEF FoldsOn
    <2> HIDE DEF g
    <2> QED  BY <2>5
  <1> HIDE DEF S
  <1>3. \A k \in 0 .. n : k \in S
    BY <1>1, <1>2, UpTo
  <1> QED  BY <1>3 DEF S

\* What a fold goes through, one index at a time.
LEMMA FoldPrefix ==
    ASSUME NEW n \in Nat, NEW k \in 1 .. n
    PROVE  /\ 1 .. k \in SUBSET (1 .. n) /\ 1 .. k # {}
           /\ Max(1 .. k) = k /\ (1 .. k) \ {Max(1 .. k)} = 1 .. k - 1
  <1>1. 1 .. k \in SUBSET (1 .. n) /\ k \in 1 .. k
    OBVIOUS
  <1>2. Max(1 .. k) \in 1 .. k /\ k <= Max(1 .. k)
    BY <1>1, GreatestIn
  <1> QED  BY <1>1, <1>2

-----------------------------------------------------------------------------
(* get_absolute_path, one character after another                          *)

\* get_absolute_path: what it has written, and what it jumps over, after each
\* character.
Accs(S) == [out : Seq(S), skip : 0 .. 2]
Begun == [out |-> <<>>, skip |-> 0]

Scans(p, g) == g[0] = Begun /\ \A k \in 1 .. Len(p) : g[k] = Scan(p, g[k - 1], k)

LEMMA BackTyped ==
    ASSUME NEW S, NEW s \in Seq(S)
    PROVE  /\ Back(s) \in Seq(S)
           /\ s = <<>> \/ s[1] = Slash => Back(s) = <<>>
  <1> DEFINE I == {i \in 1 .. Len(s) : s[i] = Slash}
             n == IF I # {} THEN Min(I) ELSE 0
  <1>1. Back(s) = IF n = 0 THEN s ELSE SubSeq(s, 1, n - 1)
    BY DEF Back, SelectInSeq
  <1>2. I \in SUBSET Nat /\ Len(s) \in Nat
    BY LenProperties
  <1>3. CASE I = {}
    <2>1. s # <<>> => 1 \in 1 .. Len(s)
      BY EmptySeq, <1>2
    <2> QED  BY <1>1, <1>3, <2>1
  <1>4. CASE I # {}
    <2>1. \E x \in I : \A y \in I : x <= y
      <3> HIDE DEF I
      <3> QED  BY <1>2, <1>4, LeastNumber
    <2>2. Min(I) \in I /\ \A y \in I : Min(I) <= y
      <3> HIDE DEF I
      <3> QED  BY <2>1 DEF Min
    <2>3. n \in 1 .. Len(s)
      BY <1>4, <2>2
    <2>4. SubSeq(s, 1, n - 1) \in Seq(S)
      <3>1. \A i \in 1 .. n - 1 : s[i] \in S
        BY <2>3, <1>2, ElementOfSeq
      <3> HIDE DEF n
      <3> QED  BY <2>3, <1>2, <3>1, SubSeqProperties
    <2>5. ASSUME s = <<>> \/ s[1] = Slash PROVE n = 1
      <3>1. 1 \in I
        BY <2>5, <2>3, <1>2, EmptySeq
      <3>2. n <= 1
        BY <3>1, <2>2, <1>4
      <3> QED  BY <3>2, <2>3
    <2>6. SubSeq(s, 1, 0) = <<>>
      OBVIOUS
    <2> HIDE DEF n
    <2>7. n # 0 /\ (n = 1 => n - 1 = 0)
      BY <2>3
    <2> QED  BY <1>1, <2>4, <2>5, <2>6, <2>7
  <1> QED  BY <1>3, <1>4

LEMMA ScanTyped ==
    ASSUME NEW S, NEW p \in Seq(S), NEW acc \in Accs(S), NEW i \in 1 .. Len(p)
    PROVE  Scan(p, acc, i) \in Accs(S)
  <1>1. Back(acc.out) \in Seq(S)
    BY BackTyped DEF Accs
  <1>2. Append(acc.out, p[i]) \in Seq(S)
    <2>1. p[i] \in S /\ acc.out \in Seq(S)
      BY ElementOfSeq DEF Accs
    <2> QED  BY <2>1, AppendProperties
  <1>3. CASE acc.skip > 0
    BY <1>3 DEF Scan, Accs
  <1>4. CASE acc.skip = 0
    BY <1>4, <1>1, <1>2 DEF Scan, Accs
  <1> QED  BY <1>3, <1>4 DEF Accs

\* The fold of get_absolute_path over the characters of p.
ScanFold(p, f) ==
    f = [s \in SUBSET DOMAIN p |->
            IF s = {} THEN Begun
            ELSE Scan(p, f[s \ {Max(s)}], [i \in DOMAIN p |-> i][Max(s)])]

LEMMA AbsoluteFold ==
    ASSUME NEW path, NEW dir, NEW p, p = Joined(path, dir)
    PROVE  AbsolutePath(path, dir) = (CHOOSE f : ScanFold(p, f))[DOMAIN p].out
  <1>1. DOMAIN [i \in DOMAIN p |-> i] = DOMAIN p
    OBVIOUS
  <1> QED
    BY <1>1 DEF AbsolutePath, FoldLeftDomain, FoldLeft, MapThenFoldSet, ScanFold, Begun

LEMMA AbsoluteScans ==
    ASSUME NEW path, NEW dir, NEW S, NEW p \in Seq(S), p = Joined(path, dir)
    PROVE  \E g \in [0 .. Len(p) -> Accs(S)] : Scans(p, g) /\ AbsolutePath(path, dir) = g[Len(p)].out
  <1> DEFINE n == Len(p)
             op == [i \in 1 .. n |-> [a \in Accs(S) |-> Scan(p, a, i)]]
             F == CHOOSE f : ScanFold(p, f)
             g == [k \in 0 .. n |-> F[1 .. k]]
  <1>1. n \in Nat /\ DOMAIN p = 1 .. n
    BY LenProperties
  <1>2. op \in [1 .. n -> [Accs(S) -> Accs(S)]]
    BY ScanTyped
  <1>3. Begun \in Accs(S)
    <2>1. <<>> \in Seq(S)
      BY EmptySeq
    <2> QED  BY <2>1 DEF Begun, Accs
  <1>4. PICK f : FoldsOn(f, n, Accs(S), Begun, op)
    <2> HIDE DEF op, n
    <2> QED  BY <1>1, <1>2, <1>3, FoldExists
  <1>5. \A s \in SUBSET (1 .. n) : s # {} => /\ Max(s) \in 1 .. n
                                             /\ s \ {Max(s)} \in SUBSET (1 .. n)
    BY <1>1, GreatestIn
  <1>6. ScanFold(p, f)
    <2>1. f \in [SUBSET (1 .. n) -> Accs(S)]
      BY <1>4 DEF FoldsOn
    <2>2. ASSUME NEW s \in SUBSET (1 .. n), s # {}
          PROVE  f[s] = Scan(p, f[s \ {Max(s)}], [i \in DOMAIN p |-> i][Max(s)])
      <3>1. f[s] = op[Max(s)][f[s \ {Max(s)}]]
        BY <1>4, <2>2 DEF FoldsOn
      <3>2. Max(s) \in 1 .. n /\ f[s \ {Max(s)}] \in Accs(S)
        BY <2>1, <2>2, <1>5
      <3> QED  BY <3>1, <3>2, <1>1
    <2>3. f[{}] = Begun
      BY <1>4 DEF FoldsOn
    <2> HIDE DEF n, op
    <2> QED  BY <2>1, <2>2, <2>3, <1>1 DEF ScanFold
  <1>7. ScanFold(p, F)
    BY <1>6
  <1> HIDE DEF F
  <1>8. \A s \in SUBSET (1 .. n) :
            F[s] = IF s = {} THEN Begun ELSE Scan(p, F[s \ {Max(s)}], [i \in DOMAIN p |-> i][Max(s)])
    BY <1>7, <1>1 DEF ScanFold
  <1>9. \A k \in 1 .. n : F[1 .. k] = Scan(p, F[1 .. k - 1], k)
    <2> TAKE k \in 1 .. n
    <2>1. /\ 1 .. k \in SUBSET (1 .. n) /\ 1 .. k # {}
          /\ Max(1 .. k) = k /\ (1 .. k) \ {Max(1 .. k)} = 1 .. k - 1
      BY <1>1, FoldPrefix
    <2>2. [i \in DOMAIN p |-> i][k] = k
      BY <1>1
    <2> HIDE DEF n
    <2> QED  BY <2>1, <2>2, <1>8
  <1>10. F[1 .. 0] = Begun
    <2>1. 1 .. 0 = {}
      OBVIOUS
    <2> QED  BY <2>1, <1>8
  <1>11. g[0] = Begun /\ \A k \in 1 .. n : g[k] = Scan(p, g[k - 1], k)
    BY <1>1, <1>9, <1>10
  <1>12. \A k \in 0 .. n : g[k] \in Accs(S)
    <2> DEFINE G == {k \in 0 .. n : g[k] \in Accs(S)}
    <2>1. 0 \in G
      BY <1>1, <1>3, <1>11
    <2>2. \A k \in 1 .. n : k - 1 \in G => k \in G
      <3> HIDE DEF g
      <3> QED  BY <1>1, <1>11, ScanTyped
    <2> HIDE DEF G
    <2>3. \A k \in 0 .. n : k \in G
      BY <2>1, <2>2, <1>1, UpTo
    <2> QED  BY <2>3 DEF G
  <1>13. AbsolutePath(path, dir) = g[n].out
    BY <1>1, AbsoluteFold DEF F
  <1>14. g \in [0 .. n -> Accs(S)]
    BY <1>12
  <1> HIDE DEF g
  <1> QED  BY <1>11, <1>13, <1>14 DEF Scans

-----------------------------------------------------------------------------
(* The names of a path, one character after another                        *)

\* The names of a path, one character at a time.
Extend(names, c) ==
    IF c = Slash THEN Append(names, <<>>)
    ELSE [names EXCEPT ![Len(names)] = Append(@, c)]

NameLists(S) == {ns \in Seq(Seq(S)) : ns # <<>>}

Splits(p, g) ==
    g[0] = << <<>> >> /\ \A k \in 1 .. Len(p) - 1 : g[k] = Extend(g[k - 1], p[k + 1])

\* A character is added to the last name.
LEMMA LastExtended ==
    ASSUME NEW S, NEW a \in Seq(Seq(S)), NEW s \in Seq(S), NEW c, c # Slash
    PROVE  Extend(Append(a, s), c) = Append(a, Append(s, c))
  <1> DEFINE w == Append(a, s)
             x == Append(s, c)
             T == S \cup {c}
  <1>1. Len(a) \in Nat /\ Len(w) = Len(a) + 1
    BY LenProperties, AppendProperties
  <1>2. a \in Seq(Seq(T)) /\ s \in Seq(T) /\ x \in Seq(T)
    <2>1. Seq(S) \subseteq Seq(T)
      BY SeqMonotonic
    <2>2. Seq(Seq(S)) \subseteq Seq(Seq(T))
      BY <2>1, SeqMonotonic
    <2>3. s \in Seq(T) /\ c \in T
      BY <2>1
    <2> QED  BY <2>2, <2>3, AppendProperties
  <1> DEFINE l == [w EXCEPT ![Len(a) + 1] = x]
             r == Append(a, x)
  <1>3. w \in Seq(Seq(T)) /\ w[Len(a) + 1] = s /\ DOMAIN w = 1 .. Len(a) + 1
        /\ \A i \in 1 .. Len(a) : w[i] = a[i]
    <2> HIDE DEF T
    <2> QED  BY <1>1, <1>2, AppendProperties, LenProperties
  <1>4. r \in Seq(Seq(T)) /\ r[Len(a) + 1] = x /\ DOMAIN r = 1 .. Len(a) + 1
        /\ \A i \in 1 .. Len(a) : r[i] = a[i]
    <2> HIDE DEF T, x
    <2> QED  BY <1>1, <1>2, AppendProperties, LenProperties
  <1>5. r = [i \in 1 .. Len(a) + 1 |-> r[i]]
    <2>1. r = [i \in 1 .. Len(r) |-> r[i]] /\ Len(r) = Len(a) + 1
      <3> HIDE DEF r
      <3> QED  BY <1>1, <1>4, LenProperties
    <2> QED  BY <2>1
  <1>6. l = [i \in 1 .. Len(a) + 1 |-> IF i = Len(a) + 1 THEN x ELSE w[i]]
    <2> HIDE DEF w, x
    <2> QED  BY <1>3, <1>1
  <1>7. \A i \in 1 .. Len(a) + 1 : r[i] = IF i = Len(a) + 1 THEN x ELSE w[i]
    <2> SUFFICES ASSUME NEW i \in 1 .. Len(a) + 1
                 PROVE  r[i] = IF i = Len(a) + 1 THEN x ELSE w[i]
      OBVIOUS
    <2>1. i # Len(a) + 1 => i \in 1 .. Len(a)
      BY <1>1
    <2> HIDE DEF r, w, x
    <2> QED  BY <2>1, <1>3, <1>4
  <1>8. l = r
    <2> HIDE DEF l, r, w, x
    <2> QED  BY <1>5, <1>6, <1>7
  <1>9. Extend(w, c) = [w EXCEPT ![Len(w)] = Append(w[Len(w)], c)]
    BY <1>1, <1>3 DEF Extend
  <1>10. Len(w) = Len(a) + 1 /\ w[Len(w)] = s
    BY <1>1, <1>3
  <1>11. Extend(w, c) = l
    <2> HIDE DEF w, Extend
    <2> QED  BY <1>9, <1>10
  <1> QED  BY <1>8, <1>11

LEMMA ExtendTyped ==
    ASSUME NEW S, NEW ns \in NameLists(S), NEW c \in S
    PROVE  Extend(ns, c) \in NameLists(S)
  <1>0. ns \in Seq(Seq(S)) /\ ns # <<>>
    BY DEF NameLists
  <1>1. PICK a \in Seq(Seq(S)), s \in Seq(S) : ns = Append(a, s)
    BY <1>0, SequenceEmptyOrAppend
  <1>2. CASE c = Slash
    <2>1. <<>> \in Seq(S)
      BY EmptySeq
    <2>2. Append(ns, <<>>) \in Seq(Seq(S)) /\ Append(ns, <<>>) # <<>>
      BY ONLY <1>0, <2>1, AppendProperties
    <2> QED  BY <1>2, <2>2 DEF NameLists, Extend
  <1>3. CASE c # Slash
    <2>1. Append(s, c) \in Seq(S)
      BY AppendProperties
    <2>2. Append(a, Append(s, c)) \in Seq(Seq(S)) /\ Append(a, Append(s, c)) # <<>>
      <3> DEFINE x == Append(s, c)
      <3>1. x \in Seq(S)
        BY <2>1
      <3> HIDE DEF x
      <3>2. Append(a, x) \in Seq(Seq(S)) /\ Append(a, x) # <<>>
        BY ONLY <1>1, <3>1, AppendProperties
      <3> QED  BY <3>2 DEF x
    <2>3. Extend(ns, c) = Append(a, Append(s, c))
      BY <1>1, <1>3, LastExtended
    <2> QED  BY <2>2, <2>3 DEF NameLists
  <1> QED  BY <1>2, <1>3

\* A fold, one index at a time.
FoldsBy(F, n, A, base, op) ==
    /\ F[{}] = base
    /\ \A s \in SUBSET (1 .. n) : s # {} /\ F[s \ {Max(s)}] \in A =>
            F[s] = op[Max(s)][F[s \ {Max(s)}]]

Goes(F, g, n, base, op) ==
    g[0] = base /\ (\A k \in 1 .. n : g[k] = op[k][g[k - 1]]) /\ F[1 .. n] = g[n]

LEMMA FoldGoes ==
    ASSUME NEW n \in Nat, NEW A, NEW base \in A, NEW op \in [1 .. n -> [A -> A]], NEW F,
           FoldsBy(F, n, A, base, op)
    PROVE  \E g \in [0 .. n -> A] : Goes(F, g, n, base, op)
  <1> DEFINE g == [k \in 0 .. n |-> F[1 .. k]]
             G == {k \in 0 .. n : g[k] \in A}
  <1>1. g[0] = base
    <2>1. 1 .. 0 = {}
      OBVIOUS
    <2> QED  BY <2>1 DEF FoldsBy
  <1>2. ASSUME NEW k \in 1 .. n, g[k - 1] \in A
        PROVE  g[k] = op[k][g[k - 1]] /\ g[k] \in A
    <2>1. /\ 1 .. k \in SUBSET (1 .. n) /\ 1 .. k # {}
          /\ Max(1 .. k) = k /\ (1 .. k) \ {Max(1 .. k)} = 1 .. k - 1
      BY FoldPrefix
    <2>2. g[k] = F[1 .. k] /\ g[k - 1] = F[1 .. k - 1]
      OBVIOUS
    <2> HIDE DEF g
    <2>3. g[k] = op[k][g[k - 1]]
      BY <1>2, <2>1, <2>2 DEF FoldsBy
    <2> QED  BY <1>2, <2>3
  <1>3. \A k \in 0 .. n : k \in G
    <2>1. 0 \in G /\ \A k \in 1 .. n : k - 1 \in G => k \in G
      <3> HIDE DEF g
      <3> QED  BY <1>1, <1>2
    <2> HIDE DEF G
    <2> QED  BY <2>1, UpTo
  <1>4. g \in [0 .. n -> A]
    BY <1>3
  <1>5. \A k \in 1 .. n : g[k] = op[k][g[k - 1]]
    <2> HIDE DEF g
    <2> QED  BY <1>2, <1>4
  <1>6. F[1 .. n] = g[n]
    OBVIOUS
  <1> HIDE DEF g
  <1> QED  BY <1>1, <1>4, <1>5, <1>6 DEF Goes

SplitFold(q, f) ==
    f = [s \in SUBSET DOMAIN q |->
            IF s = {} THEN << <<>> >> ELSE Extend(f[s \ {Max(s)}], q[Max(s)])]

LEMMA ComponentsFold ==
    ASSUME NEW p, p # <<>>
    PROVE  Components(p) = (CHOOSE f : SplitFold(Tail(p), f))[DOMAIN Tail(p)]
  BY DEF Components, FoldLeft, MapThenFoldSet, SplitFold, Extend

LEMMA ComponentsSplit ==
    ASSUME NEW S, NEW p \in Seq(S), p # <<>>
    PROVE  \E g \in [0 .. Len(p) - 1 -> NameLists(S)] :
                Splits(p, g) /\ Components(p) = g[Len(p) - 1]
  <1> DEFINE n == Len(p) - 1
             q == Tail(p)
             A == NameLists(S)
             base == << <<>> >>
             op == [i \in 1 .. n |-> [a \in A |-> Extend(a, p[i + 1])]]
             F == CHOOSE f : SplitFold(q, f)
  <1>1. /\ n \in Nat /\ Len(p) \in Nat /\ q \in Seq(S) /\ DOMAIN q = 1 .. n
        /\ \A i \in 1 .. n : q[i] = p[i + 1] /\ p[i + 1] \in S
    <2>1. q \in Seq(S) /\ Len(q) = Len(p) - 1 /\ \A i \in 1 .. Len(q) : q[i] = p[i + 1]
      BY HeadTailProperties
    <2>2. DOMAIN q = 1 .. n /\ n \in Nat /\ Len(p) \in Nat
      <3> HIDE DEF q
      <3> QED  BY <2>1, LenProperties
    <2>3. \A i \in 1 .. n : p[i + 1] \in S
      BY <2>2, ElementOfSeq
    <2> QED  BY <2>1, <2>2, <2>3
  <1>2. op \in [1 .. n -> [A -> A]]
    BY <1>1, ExtendTyped
  <1>3. base \in A
    <2>1. <<>> \in Seq(S)
      BY EmptySeq
    <2>2. base \in Seq(Seq(S)) /\ base # <<>>
      BY <2>1
    <2> QED  BY <2>2 DEF NameLists
  <1> HIDE DEF q, A
  <1>4. PICK f : FoldsOn(f, n, A, base, op)
    <2> HIDE DEF op, n, base
    <2> QED  BY <1>1, <1>2, <1>3, FoldExists
  <1>5. \A s \in SUBSET (1 .. n) : s # {} => /\ Max(s) \in 1 .. n
                                             /\ s \ {Max(s)} \in SUBSET (1 .. n)
    BY <1>1, GreatestIn
  <1>6. SplitFold(q, f)
    <2>1. f \in [SUBSET (1 .. n) -> A]
      BY <1>4 DEF FoldsOn
    <2>2. ASSUME NEW s \in SUBSET (1 .. n), s # {}
          PROVE  f[s] = Extend(f[s \ {Max(s)}], q[Max(s)])
      <3>1. f[s] = op[Max(s)][f[s \ {Max(s)}]]
        BY <1>4, <2>2 DEF FoldsOn
      <3>2. Max(s) \in 1 .. n /\ f[s \ {Max(s)}] \in A
        BY <2>1, <2>2, <1>5
      <3> QED  BY <3>1, <3>2, <1>1
    <2>3. f[{}] = base
      BY <1>4 DEF FoldsOn
    <2> HIDE DEF n, op
    <2> QED  BY <2>1, <2>2, <2>3, <1>1 DEF SplitFold
  <1>7. SplitFold(q, F)
    BY <1>6
  <1>8. Components(p) = F[1 .. n]
    BY <1>1, ComponentsFold DEF q
  <1> HIDE DEF F
  <1>9. FoldsBy(F, n, A, base, op)
    <2>1. F[{}] = base
      BY <1>7, <1>1 DEF SplitFold
    <2>2. \A s \in SUBSET (1 .. n) : s # {} => F[s] = Extend(F[s \ {Max(s)}], q[Max(s)])
      BY <1>7, <1>1 DEF SplitFold
    <2>3. ASSUME NEW s \in SUBSET (1 .. n), s # {}, F[s \ {Max(s)}] \in A
          PROVE  F[s] = op[Max(s)][F[s \ {Max(s)}]]
      <3>1. Max(s) \in 1 .. n /\ q[Max(s)] = p[Max(s) + 1]
        BY <2>3, <1>5, <1>1
      <3>2. op[Max(s)][F[s \ {Max(s)}]] = Extend(F[s \ {Max(s)}], p[Max(s) + 1])
        BY <2>3, <3>1
      <3> QED  BY <2>2, <2>3, <3>1, <3>2
    <2> HIDE DEF op, n, base
    <2> QED  BY <2>1, <2>3 DEF FoldsBy
  <1>10. PICK g \in [0 .. n -> A] : Goes(F, g, n, base, op)
    <2>1. n \in Nat
      BY <1>1
    <2> HIDE DEF op, n, base
    <2> QED  BY ONLY <2>1, <1>2, <1>3, <1>9, FoldGoes
  <1>11. \A k \in 1 .. n : g[k] = Extend(g[k - 1], p[k + 1])
    <2> TAKE k \in 1 .. n
    <2>1. k - 1 \in 0 .. n
      BY <1>1
    <2>2. g[k - 1] \in A
      BY <2>1
    <2> QED  BY <1>10, <2>2 DEF Goes
  <1>12. Splits(p, g)
    BY <1>10, <1>11 DEF Splits, Goes
  <1> HIDE DEF op, base
  <1> QED  BY <1>8, <1>10, <1>12 DEF A, Goes

LEMMA ComponentsTyped ==
    ASSUME NEW S, NEW p \in Seq(S)
    PROVE  Components(p) \in Seq(Seq(S))
  <1>1. CASE p = <<>>
    <2>1. Components(p) = <<>>
      BY <1>1 DEF Components
    <2> QED  BY <2>1, EmptySeq
  <1>2. CASE p # <<>>
    <2>1. PICK g \in [0 .. Len(p) - 1 -> NameLists(S)] : Components(p) = g[Len(p) - 1]
      BY <1>2, ComponentsSplit
    <2>2. Len(p) - 1 \in 0 .. Len(p) - 1
      BY <1>2, EmptySeq
    <2> QED  BY <2>1, <2>2 DEF NameLists
  <1> QED  BY <1>1, <1>2

-----------------------------------------------------------------------------
(* dirname and basename: the last name of a path, and what comes before it *)

LEMMA LastSlashIs ==
    ASSUME NEW S, NEW p \in Seq(S), p # <<>>
    PROVE  /\ LastSlash(p) \in 1 .. Len(p) /\ Len(p) \in Nat
           /\ \A j \in LastSlash(p) + 1 .. Len(p) : p[j] # Slash
           /\ LastSlash(p) > 1 => p[LastSlash(p)] = Slash
  <1> DEFINE I == {i \in 1 .. Len(p) : p[i] = Slash}
  <1>1. Len(p) \in Nat /\ Len(p) > 0
    BY EmptySeq
  <1>2. LastSlash(p) = IF I # {} THEN (IF Max(I) = 0 THEN 1 ELSE Max(I)) ELSE 1
    BY DEF LastSlash, SelectLastInSeq
  <1>3. CASE I = {}
    <2>1. LastSlash(p) = 1 /\ \A j \in 1 .. Len(p) : p[j] # Slash
      BY <1>2, <1>3
    <2> QED  BY <1>1, <2>1
  <1>4. CASE I # {}
    <2>1. I \in SUBSET (1 .. Len(p))
      OBVIOUS
    <2>2. Max(I) \in I /\ \A x \in I : x <= Max(I)
      <3> HIDE DEF I
      <3> QED  BY ONLY <1>1, <1>4, <2>1, GreatestIn
    <2>3. Max(I) \in 1 .. Len(p) /\ p[Max(I)] = Slash
      BY <2>2
    <2>4. LastSlash(p) = Max(I)
      BY <1>2, <1>4, <2>3
    <2>5. ASSUME NEW j \in Max(I) + 1 .. Len(p) PROVE p[j] # Slash
      <3>1. j \in 1 .. Len(p) /\ ~ (j <= Max(I))
        BY <1>1, <2>3, <2>5
      <3> QED  BY <2>2, <3>1
    <2> HIDE DEF I
    <2> QED  BY <1>1, <2>3, <2>4, <2>5
  <1> QED  BY <1>3, <1>4

\* A part of a path, and the next character.
LEMMA PartOf ==
    ASSUME NEW S, NEW p \in Seq(S), NEW m \in Nat \ {0}, NEW n \in Nat, n <= Len(p)
    PROVE  /\ SubSeq(p, m, n) \in Seq(S)
           /\ Len(SubSeq(p, m, n)) = IF m <= n THEN n - m + 1 ELSE 0
           /\ \A i \in 1 .. n - m + 1 : SubSeq(p, m, n)[i] = p[m + i - 1]
           /\ m <= n => SubSeq(p, m, n) = Append(SubSeq(p, m, n - 1), p[n])
  <1>1. Len(p) \in Nat /\ m \in Int /\ n \in Int
    BY LenProperties
  <1>2. \A i \in m .. n : p[i] \in S
    <2> TAKE i \in m .. n
    <2>1. i \in 1 .. Len(p)
      BY <1>1
    <2> QED  BY <2>1, ElementOfSeq
  <1>3. /\ SubSeq(p, m, n) \in Seq(S)
        /\ Len(SubSeq(p, m, n)) = IF m <= n THEN n - m + 1 ELSE 0
        /\ \A i \in 1 .. n - m + 1 : SubSeq(p, m, n)[i] = p[m + i - 1]
    BY ONLY <1>1, <1>2, SubSeqProperties
  <1>4. ASSUME m <= n PROVE SubSeq(p, m, n) = Append(SubSeq(p, m, n - 1), p[n])
    <2>1. m \in 1 .. Len(p) /\ n \in m .. Len(p)
      BY <1>1, <1>4
    <2>2. SubSeq(p, m, n) = SubSeq(p, m, n - 1) \o <<p[n]>>
      BY <2>1, SubSeqRecursiveSecond
    <2>3. SubSeq(p, m, n - 1) \in Seq(S) /\ p[n] \in S
      <3>1. n - 1 \in Int /\ \A i \in m .. n - 1 : p[i] \in S
        BY <1>1, <1>2
      <3>2. SubSeq(p, m, n - 1) \in Seq(S)
        BY ONLY <1>1, <3>1, SubSeqProperties
      <3> QED  BY <1>2, <1>4, <3>2
    <2>4. Append(SubSeq(p, m, n - 1), p[n]) = SubSeq(p, m, n - 1) \o <<p[n]>>
      <3> DEFINE s == SubSeq(p, m, n - 1)
      <3>1. s \in Seq(S) /\ p[n] \in S
        BY <2>3
      <3> HIDE DEF s
      <3> QED  BY ONLY <3>1, AppendIsConcat
    <2> QED  BY <2>2, <2>4
  <1> QED  BY <1>3, <1>4

\* vfs_open goes through the directory's names and then looks for the last.
LEMMA LastComponent ==
    ASSUME NEW S, NEW p \in Seq(S), p # <<>>
    PROVE  /\ Dirname(p) \in Seq(S) /\ Basename(p) \in Seq(S)
           /\ Components(p) = Append(Components(Dirname(p)), Basename(p))
  <1> DEFINE n == Len(p)
             k == LastSlash(p)
             d == Dirname(p)
             C == Components(d)
  <1>1. /\ k \in 1 .. n /\ n \in Nat /\ \A j \in k + 1 .. n : p[j] # Slash
        /\ k > 1 => p[k] = Slash
    BY LastSlashIs
  <1> HIDE DEF k, n
  <1>2. /\ d \in Seq(S) /\ Len(d) = k - 1 /\ \A i \in 1 .. k - 1 : d[i] = p[i]
        /\ Basename(p) \in Seq(S)
    <2>1. /\ d = SubSeq(p, 1, k - 1) /\ Basename(p) = SubSeq(p, k + 1, n)
      BY DEF Dirname, Basename, k, n
    <2>2. /\ SubSeq(p, 1, k - 1) \in Seq(S)
          /\ Len(SubSeq(p, 1, k - 1)) = IF 1 <= k - 1 THEN k - 1 - 1 + 1 ELSE 0
          /\ \A i \in 1 .. k - 1 - 1 + 1 : SubSeq(p, 1, k - 1)[i] = p[1 + i - 1]
      <3>1. 1 \in Nat \ {0} /\ k - 1 \in Nat /\ k - 1 <= Len(p)
        BY <1>1 DEF n
      <3> QED  BY ONLY <3>1, PartOf
    <2>3. SubSeq(p, k + 1, n) \in Seq(S)
      <3>1. k + 1 \in Nat \ {0} /\ n \in Nat /\ n <= Len(p)
        BY <1>1 DEF n
      <3> QED  BY ONLY <3>1, PartOf
    <2>4. \A i \in 1 .. k - 1 : 1 + i - 1 = i
      OBVIOUS
    <2> HIDE DEF d
    <2> QED  BY <1>1, <2>1, <2>2, <2>3, <2>4
  <1>3. C \in Seq(Seq(S))
    <2> HIDE DEF d
    <2> QED  BY <1>2, ComponentsTyped
  <1>4. PICK g \in [0 .. n - 1 -> NameLists(S)] :
            Splits(p, g) /\ Components(p) = g[n - 1]
    BY ComponentsSplit DEF n
  <1>5. g[0] = << <<>> >> /\ \A j \in 1 .. n - 1 : g[j] = Extend(g[j - 1], p[j + 1])
    BY <1>4 DEF Splits, n
  <1>6. g[k - 1] = Append(C, <<>>)
    <2>1. CASE k = 1
      <3>1. d = <<>>
        BY <1>2, <2>1, EmptySeq
      <3>2. C = <<>>
        BY <3>1 DEF Components
      <3>3. Append(<<>>, <<>>) = << <<>> >>
        OBVIOUS
      <3> HIDE DEF C
      <3> QED  BY <1>5, <2>1, <3>2, <3>3
    <2>2. CASE k > 1
      <3>1. d # <<>> /\ Len(d) = k - 1
        BY <1>2, <1>1, <2>2, EmptySeq
      <3> HIDE DEF d, C
      <3>2. PICK h \in [0 .. Len(d) - 1 -> NameLists(S)] :
                Splits(d, h) /\ Components(d) = h[Len(d) - 1]
        BY <1>2, <3>1, ComponentsSplit
      <3>3. /\ h[0] = << <<>> >> /\ \A j \in 1 .. k - 2 : h[j] = Extend(h[j - 1], d[j + 1])
            /\ C = h[k - 2]
        <4>1. Len(d) - 1 = k - 2
          BY <1>1, <3>1
        <4> QED  BY <3>2, <4>1 DEF Splits, C
      <3> DEFINE E == {j \in 0 .. k - 2 : h[j] = g[j]}
      <3>4. 0 \in E
        <4>1. 0 \in 0 .. k - 2
          BY <1>1, <2>2
        <4>2. h[0] = g[0]
          BY ONLY <1>5, <3>3
        <4> QED  BY <4>1, <4>2
      <3>5. ASSUME NEW j \in 1 .. k - 2, j - 1 \in E PROVE j \in E
        <4>1. j \in 1 .. n - 1 /\ j + 1 \in 1 .. k - 1 /\ j \in 0 .. k - 2
          BY <1>1
        <4>2. d[j + 1] = p[j + 1]
          BY <4>1, <1>2
        <4> QED  BY <4>1, <4>2, <1>5, <3>3, <3>5
      <3>6. k - 2 \in Nat
        BY <1>1, <2>2
      <3>7. \A j \in 0 .. k - 2 : j \in E
        <4> HIDE DEF E
        <4> QED  BY ONLY <3>4, <3>5, <3>6, UpTo
      <3>8. g[k - 2] = C
        BY <3>3, <3>6, <3>7
      <3>9. k - 1 \in 1 .. n - 1 /\ (k - 1) - 1 = k - 2 /\ (k - 1) + 1 = k
        BY <1>1, <2>2
      <3>10. g[k - 1] = Extend(C, Slash)
        BY <1>1, <1>5, <2>2, <3>8, <3>9
      <3> QED  BY <3>10 DEF Extend
    <2> QED  BY <1>1, <2>1, <2>2
  <1> DEFINE Y == {i \in 0 .. n - k : g[k - 1 + i] = Append(C, SubSeq(p, k + 1, k + i))}
  <1> HIDE DEF C, d
  <1>7. 0 \in Y
    <2>1. SubSeq(p, k + 1, k) = <<>>
      <3>1. k \in Int /\ k + 1 \in Int /\ k < k + 1
        BY <1>1
      <3> QED  BY ONLY <3>1, SubSeqEmpty
    <2>2. k - 1 + 0 = k - 1 /\ k + 0 = k /\ 0 \in 0 .. n - k
      BY <1>1
    <2> QED  BY <1>6, <2>1, <2>2
  <1>8. ASSUME NEW i \in 1 .. n - k, i - 1 \in Y PROVE i \in Y
    <2> DEFINE s == SubSeq(p, k + 1, k + i - 1)
               c == p[k + i]
    <2>1. /\ k + 1 \in Nat \ {0} /\ k + i \in Nat /\ k + i <= Len(p) /\ k + 1 <= k + i
          /\ k + i - 1 \in Nat /\ k + i - 1 <= Len(p) /\ k + (i - 1) = k + i - 1
          /\ i \in 0 .. n - k /\ k - 1 + i \in 1 .. n - 1 /\ (k - 1 + i) + 1 = k + i
          /\ (k - 1 + i) - 1 = k - 1 + (i - 1) /\ k + i \in k + 1 .. n
      BY <1>1 DEF n
    <2>2. SubSeq(p, k + 1, k + i) = Append(s, c)
      <3> DEFINE m == k + 1
                 e == k + i
      <3>1. m \in Nat \ {0} /\ e \in Nat /\ e <= Len(p) /\ m <= e
        BY <2>1
      <3>2. s = SubSeq(p, m, e - 1) /\ c = p[e]
        <4>1. e - 1 = k + i - 1
          BY <1>1, <2>1
        <4> QED  BY ONLY <4>1
      <3> HIDE DEF m, e, s, c
      <3>3. SubSeq(p, m, e) = Append(SubSeq(p, m, e - 1), p[e])
        BY ONLY <3>1, PartOf
      <3>4. SubSeq(p, m, e) = Append(s, c)
        BY <3>2, <3>3
      <3> QED  BY <3>4 DEF m, e
    <2>3. s \in Seq(S)
      BY ONLY <2>1, PartOf
    <2>4. c # Slash
      BY <1>1, <2>1
    <2>5. g[k - 1 + (i - 1)] = Append(C, s)
      BY <1>8, <2>1
    <2>6. g[k - 1 + i] = Extend(Append(C, s), c)
      BY <1>5, <2>1, <2>5
    <2> HIDE DEF s, c
    <2>7. Extend(Append(C, s), c) = Append(C, Append(s, c))
      BY <1>3, <2>3, <2>4, LastExtended
    <2> QED  BY <2>1, <2>2, <2>6, <2>7
  <1>9. n - k \in Nat /\ n - k \in 0 .. n - k /\ k - 1 + (n - k) = n - 1 /\ k + (n - k) = n
    BY <1>1
  <1>10. n - k \in Y
    <2> HIDE DEF Y
    <2> QED  BY ONLY <1>7, <1>8, <1>9, UpTo
  <1>11. g[n - 1] = Append(C, SubSeq(p, k + 1, n))
    BY <1>9, <1>10
  <1>12. Basename(p) = SubSeq(p, k + 1, n)
    BY DEF Basename, k, n
  <1> QED  BY <1>2, <1>4, <1>11, <1>12 DEF C, d

-----------------------------------------------------------------------------
(* get_absolute_path, of names that do not begin with a dot.               *)

\* No name begins with a dot at all.
Undotted(p) == \A i \in 1 .. Len(p) - 1 : ~ (p[i] = Slash /\ p[i + 1] = Dot)

Settled(p) == FromRoot(p) /\ Undotted(p)

\* After "/." or "/.." the name is at its end.
Clean(p) ==
    \A i \in 1 .. Len(p) - 1 :
        p[i] = Slash /\ p[i + 1] = Dot =>
            EndsAt(p, i + 2) \/ (i + 2 <= Len(p) /\ p[i + 2] = Dot /\ EndsAt(p, i + 3))

LEMMA JoinClean ==
    ASSUME NEW S, NEW a \in Seq(S), NEW q \in Seq(S), a # <<>>, a[1] = Slash, a[Len(a)] = Slash,
           Undotted(a), ~ Dotted(q)
    PROVE  a \o q \in Seq(S) /\ (a \o q)[1] = Slash /\ a \o q # <<>> /\ Clean(a \o q)
  <1> DEFINE p == a \o q
             m == Len(a)
  <1>1. /\ m \in Nat /\ m > 0 /\ Len(q) \in Nat /\ DOMAIN q = 1 .. Len(q)
        /\ p \in Seq(S) /\ Len(p) = m + Len(q)
        /\ \A i \in 1 .. m + Len(q) : p[i] = IF i <= m THEN a[i] ELSE q[i - m]
    BY EmptySeq, LenProperties, ConcatProperties
  <1> HIDE DEF p, m
  <1>2. p[1] = Slash /\ p # <<>>
    BY <1>1, EmptySeq
  <1>3. \A j \in Nat \ {0} : EndsAt(q, j) => EndsAt(p, m + j)
    <2> SUFFICES ASSUME NEW j \in Nat \ {0}, EndsAt(q, j) PROVE EndsAt(p, m + j)
      OBVIOUS
    <2>1. CASE j > Len(q)
      BY <1>1, <2>1 DEF EndsAt
    <2>2. CASE j <= Len(q)
      <3>1. m + j \in 1 .. m + Len(q) /\ ~ (m + j <= m) /\ (m + j) - m = j
        BY <1>1, <2>2
      <3>2. p[m + j] = q[j]
        BY <1>1, <3>1
      <3>3. q[j] = Slash
        BY <1>1, <2>2 DEF EndsAt
      <3> QED  BY <3>2, <3>3 DEF EndsAt
    <2> QED  BY <1>1, <2>1, <2>2
  <1>4. ASSUME NEW i \in 1 .. Len(p) - 1, p[i] = Slash, p[i + 1] = Dot
        PROVE  EndsAt(p, i + 2) \/ (i + 2 <= Len(p) /\ p[i + 2] = Dot /\ EndsAt(p, i + 3))
    <2> DEFINE j == i - m + 1
    <2>1. i >= m
      <3> SUFFICES ASSUME i < m PROVE FALSE
        BY <1>1
      <3>1. i \in 1 .. Len(a) - 1 /\ i \in 1 .. m + Len(q) /\ i + 1 \in 1 .. m + Len(q)
            /\ i <= m /\ i + 1 <= m
        BY <1>1 DEF m
      <3>2. a[i] = Slash /\ a[i + 1] = Dot
        BY <1>1, <1>4, <3>1
      <3> QED  BY <3>1, <3>2 DEF Undotted
    <2>2. /\ j \in 1 .. Len(q) /\ m + j = i + 1 /\ m + (j + 1) = i + 2 /\ m + (j + 2) = i + 3
          /\ i + 1 \in 1 .. m + Len(q) /\ ~ (i + 1 <= m) /\ (i + 1) - m = j
          /\ j + 1 \in Nat \ {0} /\ j + 2 \in Nat \ {0}
      BY <1>1, <2>1
    <2>3. q[j] = Dot
      BY <1>1, <1>4, <2>2
    <2>4. j = 1 \/ q[j - 1] = Slash
      <3> SUFFICES ASSUME j # 1 PROVE q[j - 1] = Slash
        OBVIOUS
      <3>1. i \in 1 .. m + Len(q) /\ ~ (i <= m) /\ i - m = j - 1
        BY <1>1, <2>1
      <3> QED  BY <1>1, <1>4, <3>1
    <2>5. EndsAt(q, j + 1) \/ (~ EndsAt(q, j + 1) /\ q[j + 1] = Dot /\ EndsAt(q, j + 2))
      BY <1>1, <2>2, <2>3, <2>4 DEF Dotted, StrayDot
    <2> HIDE DEF j
    <2>6. CASE EndsAt(q, j + 1)
      BY <1>3, <2>2, <2>6
    <2>7. CASE ~ EndsAt(q, j + 1) /\ q[j + 1] = Dot /\ EndsAt(q, j + 2)
      <3>1. EndsAt(p, i + 3)
        BY <1>3, <2>2, <2>7
      <3>2. i + 2 \in 1 .. m + Len(q) /\ ~ (i + 2 <= m) /\ (i + 2) - m = j + 1
        BY <1>1, <2>1, <2>2, <2>7 DEF EndsAt
      <3>3. p[i + 2] = Dot /\ i + 2 <= Len(p)
        BY <1>1, <2>7, <3>2
      <3> QED  BY <3>1, <3>3
    <2> QED  BY <2>5, <2>6, <2>7
  <1>5. Clean(p)
    BY <1>4 DEF Clean
  <1> QED  BY <1>1, <1>2, <1>5 DEF p

LEMMA JoinedClean ==
    ASSUME NEW S, Slash \in S, NEW q \in Seq(S), NEW dir \in Seq(S), Settled(dir), ~ Dotted(q)
    PROVE  /\ Joined(q, dir) \in Seq(S) /\ Joined(q, dir) # <<>> /\ Joined(q, dir)[1] = Slash
           /\ Clean(Joined(q, dir))
  <1>1. Len(q) \in Nat /\ DOMAIN q = 1 .. Len(q) /\ Len(dir) \in Nat
    BY LenProperties
  <1>2. CASE q # <<>> /\ q[1] = Slash
    <2>1. Joined(q, dir) = q
      BY <1>2 DEF Joined
    <2>2. ASSUME NEW i \in 1 .. Len(q) - 1, q[i] = Slash, q[i + 1] = Dot
          PROVE  EndsAt(q, i + 2) \/ (i + 2 <= Len(q) /\ q[i + 2] = Dot /\ EndsAt(q, i + 3))
      <3> DEFINE j == i + 1
      <3>1. j \in DOMAIN q /\ j - 1 = i /\ j + 1 = i + 2 /\ j + 2 = i + 3
        BY <1>1
      <3> HIDE DEF j
      <3>4. q[j] = Dot /\ q[j - 1] = Slash
        BY <2>2, <3>1 DEF j
      <3>5. EndsAt(q, j + 1) \/ (~ EndsAt(q, j + 1) /\ q[j + 1] = Dot /\ EndsAt(q, j + 2))
        BY <3>1, <3>4 DEF Dotted, StrayDot
      <3>2. EndsAt(q, i + 2) \/ (~ EndsAt(q, i + 2) /\ q[i + 2] = Dot /\ EndsAt(q, i + 3))
        BY <3>1, <3>5
      <3> QED  BY <1>1, <3>2 DEF EndsAt
    <2>3. Clean(q)
      BY <2>2 DEF Clean
    <2> QED  BY <1>2, <2>1, <2>3
  <1> DEFINE one == <<Slash>>
  <1>3. one \in Seq(S) /\ Len(one) = 1 /\ one[1] = Slash /\ one # <<>> /\ Undotted(one)
    BY DEF Undotted
  <1> HIDE DEF one
  <1>4. CASE ~ (q # <<>> /\ q[1] = Slash) /\ dir = one
    <2>1. Joined(q, dir) = one \o q
      BY <1>4 DEF Joined, one
    <2>2. one[Len(one)] = Slash
      BY <1>3
    <2> QED  BY ONLY <1>3, <2>1, <2>2, q \in Seq(S), ~ Dotted(q), JoinClean
  <1>5. CASE ~ (q # <<>> /\ q[1] = Slash) /\ dir # one
    <2> DEFINE a == dir \o one
    <2>1. /\ a \in Seq(S) /\ Len(a) = Len(dir) + 1
          /\ \A i \in 1 .. Len(dir) + 1 : a[i] = IF i <= Len(dir) THEN dir[i] ELSE one[i - Len(dir)]
      <3>1. /\ a \in Seq(S) /\ Len(a) = Len(dir) + Len(one)
            /\ \A i \in 1 .. Len(dir) + Len(one) :
                    a[i] = IF i <= Len(dir) THEN dir[i] ELSE one[i - Len(dir)]
        BY <1>3, ConcatProperties
      <3> QED  BY <1>3, <3>1
    <2> HIDE DEF a
    <2>2. a # <<>> /\ a[Len(a)] = Slash
      <3>1. Len(dir) + 1 \in 1 .. Len(dir) + 1 /\ ~ (Len(dir) + 1 <= Len(dir))
            /\ (Len(dir) + 1) - Len(dir) = 1
        BY <1>1
      <3> QED  BY <1>1, <1>3, <2>1, <3>1, EmptySeq
    <2>3. a[1] = Slash
      <3>1. CASE dir = <<>>
        BY <1>1, <1>3, <2>1, <3>1, EmptySeq
      <3>2. CASE dir # <<>>
        <4>1. 1 \in 1 .. Len(dir) + 1 /\ 1 <= Len(dir)
          BY <1>1, <3>2, EmptySeq
        <4> QED  BY <2>1, <3>2, <4>1 DEF Settled, FromRoot
      <3> QED  BY <3>1, <3>2
    <2>4. Undotted(a)
      <3> SUFFICES ASSUME NEW i \in 1 .. Len(a) - 1, a[i] = Slash, a[i + 1] = Dot PROVE FALSE
        BY DEF Undotted
      <3>1. i \in 1 .. Len(dir) /\ i \in 1 .. Len(dir) + 1 /\ i + 1 \in 1 .. Len(dir) + 1
        BY <1>1, <2>1
      <3>2. CASE i = Len(dir)
        <4>1. ~ (i + 1 <= Len(dir)) /\ (i + 1) - Len(dir) = 1
          BY <1>1, <3>2
        <4>2. a[i + 1] = Slash
          BY <1>3, <2>1, <3>1, <4>1
        <4> QED  BY <4>2, PathAssumption
      <3>3. CASE i # Len(dir)
        <4>1. i + 1 <= Len(dir) /\ i <= Len(dir) /\ i \in 1 .. Len(dir) - 1
          BY <1>1, <3>1, <3>3
        <4>2. dir[i] = Slash /\ dir[i + 1] = Dot
          BY <2>1, <3>1, <4>1
        <4> QED  BY <4>1, <4>2 DEF Settled, Undotted
      <3> QED  BY <3>2, <3>3
    <2>5. Joined(q, dir) = a \o q
      <3>1. Joined(q, dir) = dir \o one \o q
        BY <1>5 DEF Joined, one
      <3>2. dir \o one \o q = a \o q
        BY <1>3, ConcatAssociative DEF a
      <3> QED  BY <3>1, <3>2
    <2> QED  BY ONLY <2>1, <2>2, <2>3, <2>4, <2>5, q \in Seq(S), ~ Dotted(q), JoinClean
  <1> QED  BY <1>2, <1>4, <1>5

\* Where the loop is after character k: behind what it has written, and what
\* it jumps over, a name ends, or goes on without a dot in front.
Scanned(p, k, a) ==
    /\ Settled(a.out) /\ k + a.skip <= Len(p)
    /\ a.skip > 0 => EndsAt(p, k + a.skip + 1)
    /\ a.skip = 0 => \/ EndsAt(p, k + 1)
                     \/ a.out # <<>> /\ ~ (a.out[Len(a.out)] = Slash /\ p[k + 1] = Dot)

\* A character is written.
LEMMA WriteSettled ==
    ASSUME NEW S, NEW s \in Seq(S), NEW c \in S, Settled(s),
           c = Slash \/ (s # <<>> /\ ~ (s[Len(s)] = Slash /\ c = Dot))
    PROVE  Settled(Append(s, c))
  <1> DEFINE w == Append(s, c)
  <1>1. /\ Len(s) \in Nat /\ w \in Seq(S) /\ Len(w) = Len(s) + 1 /\ w[Len(s) + 1] = c
        /\ \A i \in 1 .. Len(s) : w[i] = s[i]
    BY LenProperties, AppendProperties
  <1> HIDE DEF w
  <1>2. w[1] = Slash
    <2>1. CASE s = <<>>
      BY <1>1, <2>1, EmptySeq
    <2>2. CASE s # <<>>
      <3>1. 1 \in 1 .. Len(s)
        BY <1>1, <2>2, EmptySeq
      <3> QED  BY <1>1, <2>2, <3>1 DEF Settled, FromRoot
    <2> QED  BY <2>1, <2>2
  <1>3. ASSUME NEW i \in 1 .. Len(w) - 1, w[i] = Slash, w[i + 1] = Dot PROVE FALSE
    <2>1. i \in 1 .. Len(s) /\ w[i] = s[i]
      BY <1>1
    <2>2. CASE i = Len(s)
      <3>1. w[i + 1] = c
        BY <1>1, <2>2
      <3> QED  BY <1>3, <2>1, <2>2, <3>1, PathAssumption
    <2>3. CASE i # Len(s)
      <3>1. i \in 1 .. Len(s) - 1 /\ i + 1 \in 1 .. Len(s)
        BY <1>1, <2>1, <2>3
      <3> QED  BY <1>1, <1>3, <2>1, <3>1 DEF Settled, Undotted
    <2> QED  BY <2>2, <2>3
  <1> QED  BY <1>2, <1>3 DEF Settled, FromRoot, Undotted, w

LEMMA ScanScanned ==
    ASSUME NEW S, NEW p \in Seq(S), Clean(p), NEW k \in 1 .. Len(p), NEW a \in Accs(S),
           Scanned(p, k - 1, a)
    PROVE  Scanned(p, k, Scan(p, a, k))
  <1> DEFINE n == Len(p)
             b == Scan(p, a, k)
  <1>1. /\ n \in Nat /\ k \in 1 .. n /\ a.out \in Seq(S) /\ a.skip \in {0, 1, 2} /\ p[k] \in S
        /\ a = [out |-> a.out, skip |-> a.skip]
    BY LenProperties, ElementOfSeq DEF Accs
  <1>2. /\ Settled(a.out) /\ k - 1 + a.skip <= n
        /\ a.skip > 0 => EndsAt(p, k - 1 + a.skip + 1)
        /\ a.skip = 0 => \/ EndsAt(p, k - 1 + 1)
                         \/ a.out # <<>> /\ ~ (a.out[Len(a.out)] = Slash /\ p[k - 1 + 1] = Dot)
    BY DEF Scanned
  <1>3. CASE a.skip > 0
    <2>1. b = [a EXCEPT !.skip = a.skip - 1]
      BY <1>3 DEF Scan
    <2>2. b.out = a.out /\ b.skip = a.skip - 1
      BY <1>1, <2>1
    <2>3. k + b.skip = k - 1 + a.skip /\ k + b.skip + 1 = k - 1 + a.skip + 1
      BY <1>1, <2>2
    <2>4. EndsAt(p, k + b.skip + 1)
      BY <1>2, <1>3, <2>3
    <2>5. b.skip = 0 => k + b.skip + 1 = k + 1
      BY <1>1
    <2> HIDE DEF b
    <2> QED  BY <1>2, <2>2, <2>3, <2>4, <2>5 DEF Scanned, b
  <1>4. CASE a.skip = 0 /\ IsAt(p, k, Slash) /\ IsAt(p, k + 1, Dot)
    <2>1. /\ k \in 1 .. n - 1 /\ p[k] = Slash /\ p[k + 1] = Dot
      BY <1>1, <1>4 DEF IsAt
    <2>2. EndsAt(p, k + 2) \/ (k + 2 <= n /\ p[k + 2] = Dot /\ EndsAt(p, k + 3))
      BY <2>1 DEF Clean
    <2>3. CASE IsAt(p, k + 2, Dot)
      <3>1. b = [out |-> Back(a.out), skip |-> 2]
        BY <1>4, <2>3 DEF Scan
      <3>2. Back(a.out) = <<>>
        BY <1>1, <1>2, BackTyped DEF Settled, FromRoot
      <3>3. b.out = <<>> /\ b.skip = 2
        BY <3>1, <3>2
      <3>4. k + 2 <= n /\ ~ EndsAt(p, k + 2)
        BY <1>1, <2>3, PathAssumption DEF IsAt, EndsAt
      <3>5. EndsAt(p, k + 3) /\ k + 2 + 1 = k + 3
        BY <1>1, <2>2, <3>4
      <3>6. Settled(<<>>)
        BY DEF Settled, FromRoot, Undotted
      <3> HIDE DEF b
      <3> QED  BY <3>3, <3>4, <3>5, <3>6 DEF Scanned, b
    <2>4. CASE ~ IsAt(p, k + 2, Dot)
      <3>1. b = [out |-> a.out, skip |-> 1]
        BY <1>4, <2>4 DEF Scan
      <3>2. b.out = a.out /\ b.skip = 1
        BY <3>1
      <3>3. EndsAt(p, k + 2) /\ k + 1 <= n /\ k + 1 + 1 = k + 2
        BY <1>1, <2>1, <2>2, <2>4 DEF IsAt
      <3> HIDE DEF b
      <3> QED  BY <1>2, <3>2, <3>3 DEF Scanned, b
    <2> QED  BY <2>3, <2>4
  <1>5. CASE a.skip = 0 /\ ~ (IsAt(p, k, Slash) /\ IsAt(p, k + 1, Dot))
    <2>1. b = [out |-> Append(a.out, p[k]), skip |-> 0]
      BY <1>1, <1>5 DEF Scan
    <2> DEFINE w == Append(a.out, p[k])
    <2>2. b.out = w /\ b.skip = 0
      BY <2>1
    <2>3. k - 1 + 1 = k /\ ~ (k > n)
      BY <1>1
    <2>4. p[k] = Slash \/ (a.out # <<>> /\ ~ (a.out[Len(a.out)] = Slash /\ p[k] = Dot))
      BY <1>2, <1>5, <2>3 DEF EndsAt
    <2>5. Settled(w)
      BY <1>1, <1>2, <2>4, WriteSettled
    <2>6. w # <<>> /\ w[Len(w)] = p[k]
      BY <1>1, AppendProperties
    <2>7. EndsAt(p, k + 1) \/ ~ (p[k] = Slash /\ p[k + 1] = Dot)
      BY <1>1, <1>5 DEF EndsAt, IsAt
    <2>8. k + 0 = k
      BY <1>1
    <2> HIDE DEF b, w
    <2> QED  BY <1>1, <2>2, <2>5, <2>6, <2>7, <2>8 DEF Scanned, b
  <1> QED  BY <1>1, <1>3, <1>4, <1>5

\* What open and chdir make of a path begins at the root, and no name in it
\* begins with a dot.
LEMMA AbsoluteSettled ==
    ASSUME NEW S, Slash \in S, NEW q \in Seq(S), NEW dir \in Seq(S), Settled(dir), ~ Dotted(q)
    PROVE  AbsolutePath(q, dir) \in Seq(S) /\ Settled(AbsolutePath(q, dir))
  <1> DEFINE p == Joined(q, dir)
             n == Len(p)
  <1>1. p \in Seq(S) /\ p # <<>> /\ p[1] = Slash /\ Clean(p)
    BY JoinedClean
  <1>2. n \in Nat
    BY <1>1, LenProperties
  <1>3. PICK g \in [0 .. n -> Accs(S)] : Scans(p, g) /\ AbsolutePath(q, dir) = g[n].out
    BY <1>1, AbsoluteScans
  <1> HIDE DEF p
  <1> DEFINE Y == {k \in 0 .. n : Scanned(p, k, g[k])}
  <1>4. 0 \in Y
    <2>1. g[0].out = <<>> /\ g[0].skip = 0
      BY <1>3 DEF Scans, Begun
    <2>2. EndsAt(p, 0 + 1)
      BY <1>1 DEF EndsAt
    <2>3. Settled(<<>>)
      BY DEF Settled, FromRoot, Undotted
    <2> QED  BY <1>2, <2>1, <2>2, <2>3 DEF Scanned
  <1>5. ASSUME NEW k \in 1 .. n, k - 1 \in Y PROVE k \in Y
    <2>1. k - 1 \in 0 .. n /\ k \in 0 .. n /\ g[k] = Scan(p, g[k - 1], k)
      BY <1>2, <1>3 DEF Scans
    <2>2. Scanned(p, k, g[k])
      BY <1>1, <1>3, <1>5, <2>1, ScanScanned
    <2> QED  BY <2>1, <2>2
  <1>6. n \in 0 .. n /\ n \in Y
    <2>1. \A k \in 0 .. n : k \in Y
      <3> HIDE DEF Y, n
      <3> QED  BY ONLY <1>2, <1>4, <1>5, UpTo
    <2> QED  BY <1>2, <2>1
  <1> QED  BY <1>3, <1>6 DEF Scanned, Accs

-----------------------------------------------------------------------------
(* Lookups, of any tree: vs its vnodes, ms the roots of its mounts.        *)

MountedIn(vs, ms, v) ==
    LET top[n \in DOMAIN vs] ==
            CASE vs[n].mount = 0 -> n
              [] vs[n].mount # 0 /\ ms[vs[n].mount] = 0 -> Wild
              [] OTHER -> top[ms[vs[n].mount]]
    IN  top[v]

NamedIn(vs, d, name) == {i \in DOMAIN vs[d].entry : vs[vs[d].entry[i]].name = name}

FullIn(vs, d) == vs[d].fs = "tmpfs" /\ Len(vs[d].entry) = MAX_DIR_ENTRY

FindIn(vs, d, name) ==
    CASE NamedIn(vs, d, name) # {} -> vs[d].entry[Min(NamedIn(vs, d, name))]
      [] NamedIn(vs, d, name) = {} /\ FullIn(vs, d) -> Past
      [] OTHER -> Absent

Ahead(vs, ms, v, name) ==
    IF v <= 0 THEN v
    ELSE IF FindIn(vs, v, name) <= 0 THEN FindIn(vs, v, name)
    ELSE MountedIn(vs, ms, FindIn(vs, v, name))

LookupIn(vs, ms, p) ==
    FoldLeft(LAMBDA v, name : Ahead(vs, ms, v, name), Root, Components(p))

LEMMA LookupIs == \A p : Lookup(p) = LookupIn(vnodes, mounts, p)
  BY DEF Lookup, LookupIn, Ahead, Find, FindIn, Mounted, MountedIn, Named, NamedIn, Full, FullIn

LEMMA LookupNext == \A p : Lookup(p)' = LookupIn(vnodes', mounts', p)
  BY DEF Lookup, LookupIn, Ahead, Find, FindIn, Mounted, MountedIn, Named, NamedIn, Full, FullIn,
         FoldLeft, MapThenFoldSet

\* A vnode's entries are vnodes, and a mount's root is newer than what it is
\* mounted on.
Grounded(vs, ms) ==
    /\ Len(vs) \in Nat /\ DOMAIN vs = 1 .. Len(vs) /\ Root \in DOMAIN vs
    /\ \A d \in DOMAIN vs :
        /\ Len(vs[d].entry) \in Nat /\ DOMAIN vs[d].entry = 1 .. Len(vs[d].entry)
        /\ \A i \in DOMAIN vs[d].entry : vs[d].entry[i] \in DOMAIN vs
    /\ \A v \in DOMAIN vs : vs[v].mount # 0 =>
        ms[vs[v].mount] = 0 \/ ms[vs[v].mount] \in v + 1 .. Len(vs)

Top(vs, ms, f, n) ==
    IF vs[n].mount = 0 THEN n
    ELSE IF ms[vs[n].mount] = 0 THEN Wild ELSE f[ms[vs[n].mount]]

LEMMA DownTo ==
    ASSUME NEW n \in Nat, NEW S, \A k \in 1 .. n : (\A m \in k + 1 .. n : m \in S) => k \in S
    PROVE  \A k \in 1 .. n : k \in S
  <1> DEFINE Bad == {k \in 1 .. n : k \notin S}
  <1>1. SUFFICES ASSUME Bad # {} PROVE FALSE
    OBVIOUS
  <1>2. Bad \in SUBSET (1 .. n)
    OBVIOUS
  <1>3. Max(Bad) \in Bad /\ \A x \in Bad : x <= Max(Bad)
    <2> HIDE DEF Bad
    <2> QED  BY <1>1, <1>2, GreatestIn
  <1>4. \A m \in Max(Bad) + 1 .. n : m \in S
    <2> TAKE m \in Max(Bad) + 1 .. n
    <2>1. m \in 1 .. n /\ ~ (m <= Max(Bad))
      BY <1>2, <1>3
    <2> QED  BY <1>3, <2>1
  <1> QED  BY <1>3, <1>4

TopsFrom(vs, ms, f, k) == \A n \in k .. Len(vs) : f[n] = Top(vs, ms, f, n)

LEMMA TopsExist ==
    ASSUME NEW vs, NEW ms, Grounded(vs, ms)
    PROVE  \E f : f = [n \in DOMAIN vs |-> Top(vs, ms, f, n)]
  <1> DEFINE N == Len(vs)
             S == {j \in 0 .. N : \E f : TopsFrom(vs, ms, f, N + 1 - j)}
  <1>1. N \in Nat /\ DOMAIN vs = 1 .. N
    BY DEF Grounded
  <1>2. 0 \in S
    <2>1. \A n \in N + 1 - 0 .. N : FALSE
      BY <1>1
    <2> QED  BY <1>1, <2>1 DEF TopsFrom
  <1>3. ASSUME NEW j \in 1 .. N, j - 1 \in S PROVE j \in S
    <2> DEFINE k == N + 1 - j
    <2>1. PICK f : TopsFrom(vs, ms, f, N + 1 - (j - 1))
      BY <1>3
    <2>2. k \in 1 .. N /\ N + 1 - (j - 1) = k + 1
      BY <1>1
    <2> DEFINE g == [n \in k .. N |-> IF n = k THEN Top(vs, ms, f, n) ELSE f[n]]
    <2> HIDE DEF k
    <2>3. \A n \in k + 1 .. N : f[n] = Top(vs, ms, f, n)
      BY <2>1, <2>2 DEF TopsFrom
    <2>4. ASSUME NEW n \in k .. N PROVE g[n] = Top(vs, ms, f, n)
      <3>1. n # k => n \in k + 1 .. N
        BY <1>1, <2>2
      <3> QED  BY <2>3, <3>1
    <2>5. ASSUME NEW n \in k .. N PROVE Top(vs, ms, f, n) = Top(vs, ms, g, n)
      <3>1. n \in DOMAIN vs
        BY <1>1, <2>2
      <3>2. CASE vs[n].mount = 0 \/ ms[vs[n].mount] = 0
        BY <3>2 DEF Top
      <3>3. CASE ~ (vs[n].mount = 0 \/ ms[vs[n].mount] = 0)
        <4>1. ms[vs[n].mount] \in n + 1 .. N
          BY <3>1, <3>3 DEF Grounded
        <4>2. ms[vs[n].mount] \in k .. N /\ ms[vs[n].mount] # k
          BY <1>1, <2>2, <4>1
        <4>3. g[ms[vs[n].mount]] = f[ms[vs[n].mount]]
          BY <4>2
        <4> HIDE DEF g
        <4> QED  BY <3>3, <4>3 DEF Top
      <3> QED  BY <3>2, <3>3
    <2>6. TopsFrom(vs, ms, g, k)
      <3> HIDE DEF g
      <3> QED  BY <2>4, <2>5 DEF TopsFrom
    <2> HIDE DEF g
    <2>7. \E h : TopsFrom(vs, ms, h, N + 1 - j)
      BY <2>6 DEF k
    <2> QED  BY <1>1, <2>7
  <1>4. \A j \in 0 .. N : j \in S
    <2> HIDE DEF S, N
    <2> QED  BY ONLY <1>1, <1>2, <1>3, UpTo
  <1>5. PICK f : TopsFrom(vs, ms, f, 1)
    <2>1. N \in S /\ N + 1 - N = 1
      BY <1>1, <1>4
    <2> QED  BY <2>1
  <1> DEFINE g == [n \in DOMAIN vs |-> f[n]]
  <1>6. ASSUME NEW n \in DOMAIN vs PROVE g[n] = Top(vs, ms, g, n)
    <2>1. g[n] = Top(vs, ms, f, n)
      BY <1>1, <1>5 DEF TopsFrom
    <2>2. vs[n].mount # 0 /\ ms[vs[n].mount] # 0 => ms[vs[n].mount] \in DOMAIN vs
      BY <1>1 DEF Grounded
    <2> QED  BY <2>1, <2>2 DEF Top
  <1>7. g = [n \in DOMAIN vs |-> Top(vs, ms, g, n)]
    <2>1. g = [n \in DOMAIN vs |-> g[n]]
      OBVIOUS
    <2> HIDE DEF g
    <2> QED  BY <1>6, <2>1
  <1> HIDE DEF g
  <1> QED  BY <1>7

Tops(vs, ms, f) ==
    f = [n \in DOMAIN vs |->
            CASE vs[n].mount = 0 -> n
              [] vs[n].mount # 0 /\ ms[vs[n].mount] = 0 -> Wild
              [] OTHER -> f[ms[vs[n].mount]]]

\* What a mount leads to.
MountsTo(vs, ms, f) ==
    /\ \A n \in DOMAIN vs : /\ f[n] = Top(vs, ms, f, n) /\ f[n] \in DOMAIN vs \cup {Wild}
                            /\ MountedIn(vs, ms, n) = f[n]

LEMMA MountedTo ==
    ASSUME NEW vs, NEW ms, Grounded(vs, ms)
    PROVE  \E f : MountsTo(vs, ms, f)
  <1> DEFINE F == CHOOSE f : Tops(vs, ms, f)
  <1>1. ASSUME NEW f PROVE Tops(vs, ms, f) <=> f = [n \in DOMAIN vs |-> Top(vs, ms, f, n)]
    <2>1. \A n \in DOMAIN vs : Top(vs, ms, f, n) =
            CASE vs[n].mount = 0 -> n
              [] vs[n].mount # 0 /\ ms[vs[n].mount] = 0 -> Wild
              [] OTHER -> f[ms[vs[n].mount]]
      BY DEF Top
    <2> QED  BY <2>1 DEF Tops
  <1>2. Tops(vs, ms, F)
    BY <1>1, TopsExist
  <1>3. \A n : MountedIn(vs, ms, n) = F[n]
    BY DEF MountedIn, Tops
  <1> HIDE DEF F
  <1>4. \A n \in DOMAIN vs : F[n] = Top(vs, ms, F, n)
    BY <1>1, <1>2
  <1> DEFINE S == {n \in DOMAIN vs : F[n] \in DOMAIN vs \cup {Wild}}
  <1>5. Len(vs) \in Nat /\ DOMAIN vs = 1 .. Len(vs)
    BY DEF Grounded
  <1>6. ASSUME NEW k \in 1 .. Len(vs), \A m \in k + 1 .. Len(vs) : m \in S
        PROVE  k \in S
    <2>1. vs[k].mount # 0 /\ ms[vs[k].mount] # 0 => ms[vs[k].mount] \in k + 1 .. Len(vs)
      BY <1>5 DEF Grounded
    <2> QED  BY <1>4, <1>5, <1>6, <2>1 DEF Top
  <1>7. \A k \in 1 .. Len(vs) : k \in S
    <2> HIDE DEF S
    <2> QED  BY ONLY <1>5, <1>6, DownTo
  <1> QED  BY <1>3, <1>4, <1>5, <1>7 DEF MountsTo

\* The mounts of vs are those of vs2 too, which may have more.
SameMounts(vs, ms, vs2, ms2) ==
    /\ DOMAIN vs \subseteq DOMAIN vs2 /\ \A n \in DOMAIN vs : vs2[n].mount = vs[n].mount
    /\ \A n \in DOMAIN vs : vs[n].mount # 0 /\ ms[vs[n].mount] # 0 =>
            ms2[vs[n].mount] = ms[vs[n].mount]

LEMMA MountedStays ==
    ASSUME NEW vs, NEW ms, NEW vs2, NEW ms2, Grounded(vs, ms), Grounded(vs2, ms2),
           SameMounts(vs, ms, vs2, ms2), NEW v \in DOMAIN vs, MountedIn(vs, ms, v) # Wild
    PROVE  MountedIn(vs2, ms2, v) = MountedIn(vs, ms, v)
  <1>1. PICK f : MountsTo(vs, ms, f)
    BY MountedTo
  <1>2. PICK h : MountsTo(vs2, ms2, h)
    BY MountedTo
  <1> DEFINE S == {n \in DOMAIN vs : f[n] # Wild => h[n] = f[n]}
  <1>3. Len(vs) \in Nat /\ DOMAIN vs = 1 .. Len(vs)
    BY DEF Grounded
  <1>4. ASSUME NEW k \in 1 .. Len(vs), \A m \in k + 1 .. Len(vs) : m \in S
        PROVE  k \in S
    <2>1. k \in DOMAIN vs /\ k \in DOMAIN vs2 /\ vs2[k].mount = vs[k].mount
      BY <1>3 DEF SameMounts
    <2>2. f[k] = Top(vs, ms, f, k) /\ h[k] = Top(vs2, ms2, h, k)
      BY <1>1, <1>2, <2>1 DEF MountsTo
    <2>3. CASE vs[k].mount = 0 \/ ms[vs[k].mount] = 0
      BY <2>1, <2>2, <2>3 DEF Top
    <2>4. CASE ~ (vs[k].mount = 0 \/ ms[vs[k].mount] = 0)
      <3>1. ms[vs[k].mount] \in S /\ ms2[vs[k].mount] = ms[vs[k].mount]
        BY <1>4, <2>1, <2>4 DEF Grounded, SameMounts
      <3> QED  BY <2>1, <2>2, <2>4, <3>1 DEF Top
    <2> QED  BY <2>3, <2>4
  <1>5. \A k \in 1 .. Len(vs) : k \in S
    <2> HIDE DEF S
    <2> QED  BY ONLY <1>3, <1>4, DownTo
  <1>6. MountedIn(vs, ms, v) = f[v] /\ MountedIn(vs2, ms2, v) = h[v]
    BY <1>1, <1>2 DEF MountsTo, SameMounts
  <1> QED  BY <1>3, <1>5, <1>6

\* The entry that a search finds is the first of the name.
LEMMA FindFirst ==
    ASSUME NEW vs, NEW ms, Grounded(vs, ms), NEW d \in DOMAIN vs, NEW name
    PROVE  /\ FindIn(vs, d, name) \in DOMAIN vs \cup {Absent, Past}
           /\ NamedIn(vs, d, name) # {} =>
                /\ Min(NamedIn(vs, d, name)) \in NamedIn(vs, d, name)
                /\ \A j \in NamedIn(vs, d, name) : Min(NamedIn(vs, d, name)) <= j
                /\ FindIn(vs, d, name) = vs[d].entry[Min(NamedIn(vs, d, name))]
           /\ NamedIn(vs, d, name) = {} => FindIn(vs, d, name) \in {Absent, Past}
  <1> DEFINE I == NamedIn(vs, d, name)
  <1>1. I \in SUBSET (1 .. Len(vs[d].entry)) /\ Len(vs[d].entry) \in Nat
        /\ \A i \in I : vs[d].entry[i] \in DOMAIN vs
    BY DEF NamedIn, Grounded
  <1>2. I \in SUBSET Nat
    BY <1>1
  <1> HIDE DEF I
  <1>3. CASE I = {}
    BY <1>3 DEF FindIn, I
  <1>4. CASE I # {}
    <2>1. \E n \in I : \A m \in I : n <= m
      BY <1>2, <1>4, LeastNumber
    <2>2. Min(I) \in I /\ \A m \in I : Min(I) <= m
      BY <2>1 DEF Min
    <2>3. FindIn(vs, d, name) = vs[d].entry[Min(I)]
      BY <1>4 DEF FindIn, I
    <2> QED  BY <1>1, <1>4, <2>2, <2>3 DEF I
  <1> QED  BY <1>3, <1>4

\* d keeps its entries and their names; one more of the name is the last.
Keeps(vs, vs2, d, name) ==
    /\ \A i \in NamedIn(vs, d, name) : vs2[d].entry[i] = vs[d].entry[i]
    /\ NamedIn(vs, d, name) \subseteq NamedIn(vs2, d, name)
    /\ \A i \in NamedIn(vs, d, name), j \in NamedIn(vs2, d, name) \ NamedIn(vs, d, name) : i <= j

LEMMA FindStays ==
    ASSUME NEW vs, NEW ms, NEW vs2, NEW ms2, Grounded(vs, ms), Grounded(vs2, ms2),
           NEW d \in DOMAIN vs, d \in DOMAIN vs2, NEW name, Keeps(vs, vs2, d, name),
           FindIn(vs, d, name) > 0
    PROVE  FindIn(vs2, d, name) = FindIn(vs, d, name)
  <1> DEFINE I == NamedIn(vs, d, name)
             J == NamedIn(vs2, d, name)
  <1>1. I # {} /\ J # {}
    BY FindFirst DEF Absent, Past, Keeps
  <1>2. /\ Min(I) \in I /\ \A j \in I : Min(I) <= j
        /\ FindIn(vs, d, name) = vs[d].entry[Min(I)]
    BY <1>1, FindFirst
  <1>3. /\ Min(J) \in J /\ \A j \in J : Min(J) <= j
        /\ FindIn(vs2, d, name) = vs2[d].entry[Min(J)]
    BY <1>1, FindFirst
  <1>4. I \subseteq Nat /\ J \subseteq Nat
    BY DEF NamedIn, Grounded
  <1>5. Min(I) \in J /\ \A j \in J : Min(I) <= j
    BY <1>2 DEF Keeps
  <1>6. Min(I) = Min(J)
    <2> HIDE DEF I, J
    <2>1. Min(I) \in Nat /\ Min(J) \in Nat /\ Min(I) <= Min(J) /\ Min(J) <= Min(I)
      BY <1>2, <1>3, <1>4, <1>5
    <2> QED  BY <2>1
  <1> QED  BY <1>2, <1>3, <1>6 DEF Keeps

Reached(vs) == DOMAIN vs \cup {Absent, Wild, Past}

LEMMA AheadTyped ==
    ASSUME NEW vs, NEW ms, Grounded(vs, ms), NEW v \in Reached(vs), NEW name
    PROVE  /\ Ahead(vs, ms, v, name) \in Reached(vs)
           /\ v <= 0 => Ahead(vs, ms, v, name) = v
           /\ Ahead(vs, ms, v, name) > 0 =>
                /\ v \in DOMAIN vs /\ FindIn(vs, v, name) \in DOMAIN vs
                /\ FindIn(vs, v, name) > 0 /\ MountedIn(vs, ms, FindIn(vs, v, name)) # Wild
                /\ Ahead(vs, ms, v, name) = MountedIn(vs, ms, FindIn(vs, v, name))
  <1> DEFINE f == FindIn(vs, v, name)
  <1>1. DOMAIN vs = 1 .. Len(vs) /\ Len(vs) \in Nat
    BY DEF Grounded
  <1>2. CASE v <= 0
    <2>1. Ahead(vs, ms, v, name) = v
      BY <1>2 DEF Ahead
    <2> QED  BY <1>1, <1>2, <2>1 DEF Reached, Absent, Past, Wild
  <1>3. CASE ~ (v <= 0)
    <2>1. v \in DOMAIN vs
      BY <1>3 DEF Reached, Absent, Past, Wild
    <2>2. f \in DOMAIN vs \cup {Absent, Past}
      BY <2>1, FindFirst
    <2>3. CASE f <= 0
      <3>1. Ahead(vs, ms, v, name) = f /\ ~ (f > 0)
        BY <1>1, <1>3, <2>2, <2>3 DEF Ahead, Absent, Past
      <3> HIDE DEF f
      <3> QED  BY <1>3, <2>2, <3>1 DEF Reached
    <2>4. CASE ~ (f <= 0)
      <3>1. f \in DOMAIN vs /\ f > 0 /\ Ahead(vs, ms, v, name) = MountedIn(vs, ms, f)
        BY <1>1, <1>3, <2>2, <2>4 DEF Ahead, Absent, Past
      <3>2. MountedIn(vs, ms, f) \in DOMAIN vs \cup {Wild}
        <4> HIDE DEF f
        <4> QED  BY <3>1, MountedTo DEF MountsTo
      <3> HIDE DEF f
      <3> QED  BY <1>3, <2>1, <3>1, <3>2 DEF Reached, Wild, f
    <2> QED  BY <2>3, <2>4
  <1>4. v <= 0 \/ ~ (v <= 0)
    OBVIOUS
  <1> QED  BY <1>2, <1>3, <1>4

-----------------------------------------------------------------------------
(* A walk along the names of a path, as far as it has come after each.     *)

Walks(vs, ms, cs, w) ==
    w[0] = Root /\ \A k \in 1 .. Len(cs) : w[k] = Ahead(vs, ms, w[k - 1], cs[k])

LookFold(vs, ms, q, f) ==
    f = [s \in SUBSET DOMAIN q |->
            IF s = {} THEN Root ELSE Ahead(vs, ms, f[s \ {Max(s)}], q[Max(s)])]

LEMMA LookupFold ==
    ASSUME NEW vs, NEW ms, NEW p
    PROVE  LookupIn(vs, ms, p) =
                (CHOOSE f : LookFold(vs, ms, Components(p), f))[DOMAIN Components(p)]
  BY DEF LookupIn, FoldLeft, MapThenFoldSet, LookFold

LEMMA LookupWalks ==
    ASSUME NEW vs, NEW ms, Grounded(vs, ms), NEW T, NEW p, Components(p) \in Seq(T)
    PROVE  \E w \in [0 .. Len(Components(p)) -> Reached(vs)] :
                Walks(vs, ms, Components(p), w) /\ LookupIn(vs, ms, p) = w[Len(Components(p))]
  <1> DEFINE q == Components(p)
             n == Len(q)
             A == Reached(vs)
             op == [i \in 1 .. n |-> [a \in A |-> Ahead(vs, ms, a, q[i])]]
             F == CHOOSE f : LookFold(vs, ms, q, f)
  <1>1. n \in Nat /\ DOMAIN q = 1 .. n
    BY LenProperties
  <1>8. LookupIn(vs, ms, p) = F[1 .. n]
    BY <1>1, LookupFold
  <1> HIDE DEF q, A
  <1>2. op \in [1 .. n -> [A -> A]]
    BY AheadTyped DEF A
  <1>3. Root \in A
    BY DEF A, Reached, Grounded
  <1>4. PICK f : FoldsOn(f, n, A, Root, op)
    <2> HIDE DEF op, n
    <2> QED  BY <1>1, <1>2, <1>3, FoldExists
  <1>5. \A s \in SUBSET (1 .. n) : s # {} => /\ Max(s) \in 1 .. n
                                             /\ s \ {Max(s)} \in SUBSET (1 .. n)
    BY <1>1, GreatestIn
  <1>6. LookFold(vs, ms, q, f)
    <2>1. f \in [SUBSET (1 .. n) -> A]
      BY <1>4 DEF FoldsOn
    <2>2. ASSUME NEW s \in SUBSET (1 .. n), s # {}
          PROVE  f[s] = Ahead(vs, ms, f[s \ {Max(s)}], q[Max(s)])
      <3>1. f[s] = op[Max(s)][f[s \ {Max(s)}]]
        BY <1>4, <2>2 DEF FoldsOn
      <3>2. Max(s) \in 1 .. n /\ f[s \ {Max(s)}] \in A
        BY <2>1, <2>2, <1>5
      <3> QED  BY <3>1, <3>2, <1>1
    <2>3. f[{}] = Root
      BY <1>4 DEF FoldsOn
    <2> HIDE DEF n, op
    <2> QED  BY <2>1, <2>2, <2>3, <1>1 DEF LookFold
  <1>7. LookFold(vs, ms, q, F)
    BY <1>6
  <1> HIDE DEF F
  <1>9. FoldsBy(F, n, A, Root, op)
    <2>1. F[{}] = Root
      BY <1>7, <1>1 DEF LookFold
    <2>2. \A s \in SUBSET (1 .. n) : s # {} =>
                F[s] = Ahead(vs, ms, F[s \ {Max(s)}], q[Max(s)])
      BY <1>7, <1>1 DEF LookFold
    <2>3. ASSUME NEW s \in SUBSET (1 .. n), s # {}, F[s \ {Max(s)}] \in A
          PROVE  F[s] = op[Max(s)][F[s \ {Max(s)}]]
      <3>1. Max(s) \in 1 .. n
        BY <2>3, <1>5
      <3>2. op[Max(s)][F[s \ {Max(s)}]] = Ahead(vs, ms, F[s \ {Max(s)}], q[Max(s)])
        BY <2>3, <3>1
      <3> QED  BY <2>2, <2>3, <3>2
    <2> HIDE DEF op, n
    <2> QED  BY <2>1, <2>3 DEF FoldsBy
  <1>10. PICK g \in [0 .. n -> A] : Goes(F, g, n, Root, op)
    <2> HIDE DEF op, n
    <2> QED  BY ONLY <1>1, <1>2, <1>3, <1>9, FoldGoes
  <1>11. \A k \in 1 .. n : g[k] = Ahead(vs, ms, g[k - 1], q[k])
    <2> TAKE k \in 1 .. n
    <2>1. k - 1 \in 0 .. n
      BY <1>1
    <2>2. g[k - 1] \in A
      BY <2>1
    <2> QED  BY <1>10, <2>2 DEF Goes
  <1>12. Walks(vs, ms, q, g)
    BY <1>10, <1>11 DEF Walks, Goes
  <1> HIDE DEF op, n
  <1> QED  BY <1>8, <1>10, <1>12 DEF A, q, n, Goes

\* A search for "" comes first to what has no name yet.
Nameless(p) == <<>> \in ToSet(Components(p))

KeepsNames(vs, vs2) ==
    \A d \in DOMAIN vs : \A name : name # <<>> => Keeps(vs, vs2, d, name)

LEMMA AheadStays ==
    ASSUME NEW vs, NEW ms, NEW vs2, NEW ms2, Grounded(vs, ms), Grounded(vs2, ms2),
           SameMounts(vs, ms, vs2, ms2), KeepsNames(vs, vs2),
           NEW v \in Reached(vs), NEW name, name # <<>>, Ahead(vs, ms, v, name) > 0
    PROVE  v > 0 /\ Ahead(vs2, ms2, v, name) = Ahead(vs, ms, v, name)
  <1> DEFINE f == FindIn(vs, v, name)
  <1>1. /\ v \in DOMAIN vs /\ f \in DOMAIN vs /\ f > 0 /\ MountedIn(vs, ms, f) # Wild
        /\ Ahead(vs, ms, v, name) = MountedIn(vs, ms, f)
    BY AheadTyped
  <1>2. FindIn(vs2, v, name) = f
    <2>1. Keeps(vs, vs2, v, name) /\ v \in DOMAIN vs2
      BY <1>1 DEF KeepsNames, SameMounts
    <2> QED  BY <1>1, <2>1, FindStays
  <1>3. MountedIn(vs2, ms2, f) = MountedIn(vs, ms, f)
    <2> HIDE DEF f
    <2> QED  BY <1>1, MountedStays
  <1>4. v > 0 /\ ~ (v <= 0) /\ ~ (f <= 0)
    BY <1>1 DEF Grounded
  <1>5. Ahead(vs2, ms2, v, name) = MountedIn(vs2, ms2, f)
    <2> HIDE DEF f
    <2> QED  BY <1>2, <1>4 DEF Ahead
  <1> HIDE DEF f
  <1> QED  BY <1>1, <1>3, <1>4, <1>5

\* A file that was found is found again where the tree has only grown.
LEMMA LookupStays ==
    ASSUME NEW vs, NEW ms, NEW vs2, NEW ms2, Grounded(vs, ms), Grounded(vs2, ms2),
           SameMounts(vs, ms, vs2, ms2), KeepsNames(vs, vs2),
           NEW S, NEW p \in Seq(S), ~ Nameless(p), LookupIn(vs, ms, p) > 0
    PROVE  LookupIn(vs2, ms2, p) = LookupIn(vs, ms, p)
  <1> DEFINE cs == Components(p)
             n == Len(cs)
  <1>1. cs \in Seq(Seq(S)) /\ n \in Nat /\ DOMAIN cs = 1 .. n
    BY ComponentsTyped, LenProperties
  <1>2. \A k \in 1 .. n : cs[k] # <<>>
    BY <1>1 DEF Nameless, ToSet
  <1>3. PICK w \in [0 .. n -> Reached(vs)] : Walks(vs, ms, cs, w) /\ LookupIn(vs, ms, p) = w[n]
    BY <1>1, LookupWalks
  <1>4. PICK u \in [0 .. n -> Reached(vs2)] :
            Walks(vs2, ms2, cs, u) /\ LookupIn(vs2, ms2, p) = u[n]
    BY <1>1, LookupWalks
  <1> HIDE DEF cs, n
  <1> DEFINE Y == {k \in 0 .. n : w[k] > 0 => u[k] = w[k]}
  <1>5. 0 \in Y
    BY <1>1, <1>3, <1>4 DEF Walks
  <1>6. ASSUME NEW k \in 1 .. n, k - 1 \in Y PROVE k \in Y
    <2>1. /\ w[k] = Ahead(vs, ms, w[k - 1], cs[k]) /\ u[k] = Ahead(vs2, ms2, u[k - 1], cs[k])
          /\ k - 1 \in 0 .. n /\ k \in 0 .. n /\ cs[k] # <<>>
      BY <1>1, <1>2, <1>3, <1>4 DEF Walks, n
    <2>2. ASSUME w[k] > 0 PROVE u[k] = w[k]
      <3>1. w[k - 1] \in Reached(vs)
        BY <1>3, <2>1
      <3>2. w[k - 1] > 0 /\ Ahead(vs2, ms2, w[k - 1], cs[k]) = Ahead(vs, ms, w[k - 1], cs[k])
        BY <2>1, <2>2, <3>1, AheadStays
      <3>3. u[k - 1] = w[k - 1]
        BY <1>6, <3>2
      <3> QED  BY <2>1, <3>2, <3>3
    <2> QED  BY <2>1, <2>2
  <1>7. n \in Y
    <2>1. \A k \in 0 .. n : k \in Y
      <3>1. n \in Nat
        BY <1>1
      <3> HIDE DEF Y
      <3> QED  BY ONLY <3>1, <1>5, <1>6, UpTo
    <2> QED  BY <1>1, <2>1
  <1> QED  BY <1>3, <1>4, <1>7

\* The search for the last name, in the directory.
LEMMA LookupLast ==
    ASSUME NEW vs, NEW ms, Grounded(vs, ms), NEW S, NEW p \in Seq(S), p # <<>>
    PROVE  /\ LookupIn(vs, ms, Dirname(p)) \in Reached(vs)
           /\ LookupIn(vs, ms, p) = Ahead(vs, ms, LookupIn(vs, ms, Dirname(p)), Basename(p))
           /\ ~ Nameless(p) => ~ Nameless(Dirname(p)) /\ Basename(p) # <<>>
  <1> DEFINE cs == Components(p)
             ds == Components(Dirname(p))
             n == Len(ds)
             b == Basename(p)
  <1>1. /\ Dirname(p) \in Seq(S) /\ b \in Seq(S) /\ cs = Append(ds, b)
        /\ ds \in Seq(Seq(S))
    BY LastComponent, ComponentsTyped
  <1> HIDE DEF cs, ds, b
  <1>2. /\ cs \in Seq(Seq(S)) /\ Len(cs) = n + 1 /\ n \in Nat /\ cs[n + 1] = b
        /\ DOMAIN cs = 1 .. n + 1 /\ DOMAIN ds = 1 .. n /\ \A i \in 1 .. n : cs[i] = ds[i]
    <2>1. n \in Nat /\ DOMAIN ds = 1 .. n
      BY <1>1, LenProperties
    <2>2. /\ cs \in Seq(Seq(S)) /\ Len(cs) = n + 1 /\ cs[n + 1] = b
          /\ \A i \in 1 .. n : cs[i] = ds[i]
      BY <1>1, AppendProperties
    <2>3. DOMAIN cs = 1 .. n + 1
      <3>1. DOMAIN cs = 1 .. Len(cs)
        BY <2>2, LenProperties
      <3> QED  BY <2>2, <3>1
    <2> QED  BY <2>1, <2>2, <2>3
  <1>3. PICK w \in [0 .. n + 1 -> Reached(vs)] :
            Walks(vs, ms, cs, w) /\ LookupIn(vs, ms, p) = w[n + 1]
    BY <1>2, LookupWalks DEF cs
  <1>4. PICK u \in [0 .. n -> Reached(vs)] :
            Walks(vs, ms, ds, u) /\ LookupIn(vs, ms, Dirname(p)) = u[n]
    BY <1>1, LookupWalks DEF ds
  <1>5. /\ w[0] = Root /\ u[0] = Root
        /\ \A k \in 1 .. n + 1 : w[k] = Ahead(vs, ms, w[k - 1], cs[k])
        /\ \A k \in 1 .. n : u[k] = Ahead(vs, ms, u[k - 1], cs[k])
    BY <1>2, <1>3, <1>4 DEF Walks
  <1> HIDE DEF n
  <1> DEFINE Y == {k \in 0 .. n : w[k] = u[k]}
  <1>6. 0 \in Y
    BY <1>2, <1>5
  <1>7. ASSUME NEW k \in 1 .. n, k - 1 \in Y PROVE k \in Y
    BY <1>2, <1>5, <1>7
  <1>8. w[n] = u[n]
    <2>1. n \in Nat /\ n \in 0 .. n
      BY <1>2
    <2>2. \A k \in 0 .. n : k \in Y
      <3> HIDE DEF Y
      <3> QED  BY ONLY <2>1, <1>6, <1>7, UpTo
    <2> QED  BY <2>1, <2>2
  <1>9. LookupIn(vs, ms, p) = Ahead(vs, ms, u[n], b)
    <2>1. n + 1 \in 1 .. n + 1 /\ (n + 1) - 1 = n
      BY <1>2
    <2> QED  BY <1>2, <1>3, <1>5, <1>8, <2>1
  <1>10. u[n] \in Reached(vs)
    BY <1>2, <1>4
  <1>11. ~ Nameless(p) => ~ Nameless(Dirname(p)) /\ b # <<>>
    <2>1. \A i \in 1 .. n : i \in 1 .. n + 1
      BY <1>2
    <2>2. n + 1 \in 1 .. n + 1
      BY <1>2
    <2>3. \A i \in 1 .. n : ds[i] \in ToSet(cs)
      BY <1>2, <2>1 DEF ToSet
    <2>4. b \in ToSet(cs)
      BY <1>2, <2>2 DEF ToSet
    <2> QED  BY <1>2, <2>3, <2>4 DEF Nameless, ToSet, cs, ds
  <1> QED  BY <1>4, <1>9, <1>10, <1>11 DEF b

LEMMA LookupTyped ==
    ASSUME NEW vs, NEW ms, Grounded(vs, ms), NEW S, NEW p \in Seq(S)
    PROVE  LookupIn(vs, ms, p) \in Reached(vs)
  <1>1. Components(p) \in Seq(Seq(S)) /\ Len(Components(p)) \in Nat
    BY ComponentsTyped, LenProperties
  <1>2. Len(Components(p)) \in 0 .. Len(Components(p))
    BY <1>1
  <1> QED  BY <1>1, <1>2, LookupWalks

LEMMA LookupRoot ==
    ASSUME NEW vs, NEW ms, Grounded(vs, ms)
    PROVE  LookupIn(vs, ms, <<>>) = Root
  <1>1. Components(<<>>) = <<>>
    BY DEF Components
  <1>2. Components(<<>>) \in Seq({}) /\ Len(Components(<<>>)) = 0
    BY <1>1, EmptySeq
  <1>3. PICK w : Walks(vs, ms, Components(<<>>), w) /\ LookupIn(vs, ms, <<>>) = w[0]
    BY <1>2, LookupWalks
  <1> QED  BY <1>3 DEF Walks

-----------------------------------------------------------------------------
(* The tree that lookups walk on                                           *)

\* What is mounted on a vnode was made after it.
Newer ==
    /\ Root \in DOMAIN vnodes
    /\ \A v \in DOMAIN vnodes : vnodes[v].mount # 0 =>
            mounts[vnodes[v].mount] = 0 \/ mounts[vnodes[v].mount] > v

TreeKept == Tree /\ ArchiveInv /\ NamesInv /\ ForkInv /\ TreeInv

Base == TreeKept /\ Newer

LEMMA InitBase == ASSUME Init PROVE Base
  <1>1. /\ Tree /\ DOMAIN vnodes = 1 .. Len(Archive) + 3 /\ Len(Archive) \in Nat
        /\ vnodes[1].mount = 0 /\ vnodes[2].mount = 1 /\ vnodes[3].mount = 0
        /\ \A i \in 1 .. Len(Archive) : vnodes[i + 3].mount = 0
    BY InitTree
  <1>2. mounts[1] = 3
    BY DEF Init
  <1>3. ASSUME NEW v \in DOMAIN vnodes, vnodes[v].mount # 0 PROVE mounts[vnodes[v].mount] > v
    <2>1. CASE v \in {1, 2, 3}
      BY <1>1, <1>2, <1>3, <2>1
    <2>2. CASE v > 3
      <3>1. v - 3 \in 1 .. Len(Archive) /\ v = (v - 3) + 3
        BY <1>1, <2>2
      <3> QED  BY <1>1, <1>3, <3>1
    <2> QED  BY <1>1, <2>1, <2>2
  <1>4. Root \in DOMAIN vnodes
    BY <1>1 DEF Root
  <1> QED  BY <1>3, <1>4, InitTree, InitArchive, InitNames, InitForks, InitTreeInv
           DEF Base, TreeKept, Newer

LEMMA NewerNext == ASSUME Tree, TreeInv, Newer, [Next]_vars PROVE Newer'
  <1>1. Links /\ DOMAIN vnodes = 1 .. Len(vnodes) /\ Len(vnodes) \in Nat
    BY VnodeFields DEF TreeInv
  <1>2. CASE Steady
    <2>1. ASSUME NEW v \in DOMAIN vnodes', vnodes'[v].mount # 0
          PROVE  mounts'[vnodes'[v].mount] = 0 \/ mounts'[vnodes'[v].mount] > v
      BY <1>2, <2>1 DEF Steady, Newer, SameMount
    <2> QED  BY <1>2, <2>1 DEF Steady, Newer
  <1>3. ASSUME NEW t \in Tasks, Attach(t) PROVE Newer'
    <2>1. /\ DOMAIN vnodes' = DOMAIN vnodes /\ call[t].dir \in DOMAIN vnodes
          /\ \A w \in DOMAIN vnodes : w # call[t].dir => SameMount(w)
          /\ vnodes'[call[t].dir].mount = NewMount
          /\ mounts'[NewMount] = 0 /\ \A m \in DOMAIN mounts : mounts'[m] = mounts[m]
      BY <1>1, <1>3, Attached
    <2>2. ASSUME NEW v \in DOMAIN vnodes', vnodes'[v].mount # 0
          PROVE  mounts'[vnodes'[v].mount] = 0 \/ mounts'[vnodes'[v].mount] > v
      <3>1. CASE v = call[t].dir
        BY <2>1, <3>1
      <3>2. CASE v # call[t].dir
        <4>1. v \in DOMAIN vnodes /\ vnodes'[v].mount = vnodes[v].mount
              /\ vnodes[v].mount \in DOMAIN mounts
          BY <1>1, <2>1, <2>2, <3>2 DEF SameMount, Links
        <4> QED  BY <2>1, <2>2, <4>1 DEF Newer
      <3> QED  BY <3>1, <3>2
    <2> QED  BY <2>1, <2>2 DEF Newer
  <1>4. ASSUME NEW t \in Tasks, Setup(t) PROVE Newer'
    <2>1. /\ \A m \in DOMAIN mounts : mounts'[m] = IF m = Hook(t) THEN Fresh ELSE mounts[m]
          /\ DOMAIN vnodes \subseteq DOMAIN vnodes' /\ DOMAIN vnodes = 1 .. Fresh - 1
          /\ Fresh \in Nat
          /\ \A v \in DOMAIN vnodes' : v \in DOMAIN vnodes \/ (v = Fresh /\ vnodes'[v].mount = 0)
          /\ \A v \in DOMAIN vnodes : SameMount(v)
      BY <1>1, <1>4, SetUp
    <2>2. ASSUME NEW v \in DOMAIN vnodes', vnodes'[v].mount # 0
          PROVE  mounts'[vnodes'[v].mount] = 0 \/ mounts'[vnodes'[v].mount] > v
      <3>1. v \in DOMAIN vnodes /\ vnodes'[v].mount = vnodes[v].mount
            /\ vnodes[v].mount \in DOMAIN mounts
        BY <1>1, <2>1, <2>2 DEF SameMount, Links
      <3>2. Fresh > v
        BY <2>1, <3>1
      <3> QED  BY <2>1, <2>2, <3>1, <3>2 DEF Newer
    <2> QED  BY <2>1, <2>2 DEF Newer
  <1> QED  BY <1>2, <1>3, <1>4, Steadies

LEMMA BaseNext == ASSUME Base, [Next]_vars PROVE Base'
  <1>1. TreeKept'
    BY TreeNext, ArchiveNext, NamesNext, ForkNext, TreeInvNext DEF Base, TreeKept
  <1> QED  BY <1>1, NewerNext DEF Base, TreeKept

\* Such a tree is one that the facts about lookups are about.
Firm == Grounded(vnodes, mounts)

LEMMA BaseFirm == ASSUME Base PROVE Firm
  <1>1. Len(vnodes) \in Nat /\ DOMAIN vnodes = 1 .. Len(vnodes) /\ Root \in DOMAIN vnodes
    BY VnodeFields DEF Base, TreeKept, Newer
  <1>2. \A d \in DOMAIN vnodes :
            /\ Len(vnodes[d].entry) \in Nat /\ DOMAIN vnodes[d].entry = 1 .. Len(vnodes[d].entry)
            /\ \A i \in DOMAIN vnodes[d].entry : vnodes[d].entry[i] \in DOMAIN vnodes
    BY VnodeFields DEF Base, TreeKept, Tree, Places, IsVnode
  <1>3. ASSUME NEW v \in DOMAIN vnodes, vnodes[v].mount # 0, mounts[vnodes[v].mount] # 0
        PROVE  mounts[vnodes[v].mount] \in v + 1 .. Len(vnodes)
    <2>1. mounts[vnodes[v].mount] \in DOMAIN vnodes /\ mounts[vnodes[v].mount] > v
      BY <1>3 DEF Base, TreeKept, TreeInv, Links, Newer
    <2> QED  BY <1>1, <2>1
  <1> QED  BY <1>1, <1>2, <1>3 DEF Firm, Grounded

-----------------------------------------------------------------------------
(* What lookups find again after a step, where no two calls overlapped     *)

\* What a call has added and not named yet is the last of its directory.
Unnamed(vs, c) ==
    c.pc = "name" =>
        /\ c.dir \in DOMAIN vs /\ c.idx \in DOMAIN vs /\ vs[c.idx].name = <<>>
        /\ Len(vs[c.dir].entry) > 0 /\ vs[c.dir].entry[Len(vs[c.dir].entry)] = c.idx

\* The directories keep their entries, and may have more.
Extends(vs, vs2) ==
    /\ DOMAIN vs \subseteq DOMAIN vs2
    /\ \A d \in DOMAIN vs :
        /\ DOMAIN vs[d].entry \subseteq DOMAIN vs2[d].entry
        /\ \A i \in DOMAIN vs[d].entry : vs2[d].entry[i] = vs[d].entry[i]

LEMMA GrownKeeps ==
    ASSUME NEW vs, NEW ms, NEW vs2, NEW ms2, Grounded(vs, ms), Grounded(vs2, ms2),
           Extends(vs, vs2), \A v \in DOMAIN vs : vs2[v].name = vs[v].name
    PROVE  KeepsNames(vs, vs2)
  <1> SUFFICES ASSUME NEW d \in DOMAIN vs, NEW name PROVE Keeps(vs, vs2, d, name)
    BY DEF KeepsNames
  <1>1. /\ Len(vs[d].entry) \in Nat /\ DOMAIN vs[d].entry = 1 .. Len(vs[d].entry)
        /\ d \in DOMAIN vs2
        /\ Len(vs2[d].entry) \in Nat /\ DOMAIN vs2[d].entry = 1 .. Len(vs2[d].entry)
    BY DEF Grounded, Extends
  <1>2. \A i \in DOMAIN vs[d].entry :
            /\ i \in DOMAIN vs2[d].entry /\ vs2[d].entry[i] = vs[d].entry[i]
            /\ vs2[vs2[d].entry[i]].name = vs[vs[d].entry[i]].name
    BY DEF Grounded, Extends
  <1>3. NamedIn(vs, d, name) \subseteq NamedIn(vs2, d, name)
    BY <1>2 DEF NamedIn
  <1>4. ASSUME NEW i \in NamedIn(vs, d, name), NEW j \in NamedIn(vs2, d, name) \ NamedIn(vs, d, name)
        PROVE  i <= j
    <2>1. i \in DOMAIN vs[d].entry /\ j \in DOMAIN vs2[d].entry /\ j \notin DOMAIN vs[d].entry
      BY <1>2, <1>4 DEF NamedIn
    <2> QED  BY <1>1, <2>1
  <1> QED  BY <1>2, <1>3, <1>4 DEF Keeps, NamedIn

\* strcpy: the last entry of the directory gets its name.
LEMMA NamingKeeps ==
    ASSUME Base, Firm, Firm', NEW t \in Tasks, NameIt(t), Unnamed(vnodes, call[t])
    PROVE  KeepsNames(vnodes, vnodes')
  <1> DEFINE n == call[t].idx
  <1>1. /\ DOMAIN vnodes' = DOMAIN vnodes
        /\ \A v \in DOMAIN vnodes : /\ SameEntry(v)
                                    /\ v # n => SameName(v)
    BY NameStep DEF Base, TreeKept
  <1>2. /\ call[t].pc = "name" /\ call[t].dir \in DOMAIN vnodes /\ n \in DOMAIN vnodes
        /\ vnodes[n].name = <<>>
        /\ Len(vnodes[call[t].dir].entry) > 0
        /\ vnodes[call[t].dir].entry[Len(vnodes[call[t].dir].entry)] = n
    BY DEF NameIt, At, Unnamed
  <1> HIDE DEF n
  <1> SUFFICES ASSUME NEW d \in DOMAIN vnodes, NEW name, name # <<>>
               PROVE  Keeps(vnodes, vnodes', d, name)
    BY DEF KeepsNames
  <1>3. /\ Len(vnodes[d].entry) \in Nat /\ DOMAIN vnodes[d].entry = 1 .. Len(vnodes[d].entry)
        /\ vnodes'[d].entry = vnodes[d].entry
        /\ \A i \in DOMAIN vnodes[d].entry : vnodes[d].entry[i] \in DOMAIN vnodes
    BY <1>1 DEF Firm, Grounded, SameEntry
  <1>4. \A i \in DOMAIN vnodes[d].entry :
            vnodes[d].entry[i] # n => vnodes'[vnodes[d].entry[i]].name = vnodes[vnodes[d].entry[i]].name
    BY <1>1, <1>3 DEF SameName
  <1>5. \A i \in NamedIn(vnodes, d, name) : vnodes[d].entry[i] # n
    BY <1>2 DEF NamedIn
  <1>6. NamedIn(vnodes, d, name) \subseteq NamedIn(vnodes', d, name)
    BY <1>3, <1>4, <1>5 DEF NamedIn
  <1>7. ASSUME NEW i \in NamedIn(vnodes, d, name),
               NEW j \in NamedIn(vnodes', d, name) \ NamedIn(vnodes, d, name)
        PROVE  i <= j
    <2>1. i \in DOMAIN vnodes[d].entry /\ j \in DOMAIN vnodes[d].entry /\ vnodes[d].entry[j] = n
      BY <1>3, <1>4, <1>7 DEF NamedIn
    <2>2. Len(vnodes[call[t].dir].entry) \in DOMAIN vnodes[call[t].dir].entry
      BY <1>2 DEF Firm, Grounded
    <2>3. j = Len(vnodes[d].entry)
      BY <1>2, <2>1, <2>2 DEF Base, TreeKept, NamesInv, OneEntry
    <2> QED  BY <1>3, <2>1, <2>3
  <1> QED  BY <1>3, <1>6, <1>7 DEF Keeps, NamedIn

\* The steps by what they do to the tree.
Branches(t) ==
    \/ \E type : Grows("tmpfs", type, <<>>) /\ Store(t)
    \/ NameIt(t)
    \/ Setup(t)
    \/ Fill(t)

LEMMA Branchings ==
    ASSUME Base, [Next]_vars
    PROVE  SameTree \/ \E t \in Tasks : Branches(t)
  <1>1. CASE Quiet
    BY <1>1 DEF Quiet
  <1>2. ASSUME NEW t \in Tasks, Joins(t) PROVE SameTree
    BY <1>2 DEF Joins, SameTree, Kept, SameEntry, SameName
  <1>3. ASSUME NEW t \in Tasks, ListStart(t) \/ ListNext(t) PROVE SameTree
    <2>1. vnodes' = vnodes
      BY <1>3, ListMoves DEF Base, TreeKept
    <2> QED  BY <2>1 DEF SameTree, Kept, SameEntry, SameName
  <1>4. ASSUME NEW t \in Tasks, Store(t) PROVE Branches(t)
    BY <1>4, StoreStep DEF Base, TreeKept, Branches
  <1> QED  BY <1>1, <1>2, <1>3, <1>4, Moves DEF Changes, Branches, Base, TreeKept

\* A store goes behind the entries.
LEMMA StoreAppends ==
    ASSUME Base, NEW t \in Tasks, Store(t), lapped' = {}
    PROVE  /\ vnodes'[call[t].dir].entry = Append(vnodes[call[t].dir].entry, Fresh)
           /\ \A e \in DOMAIN vnodes : e # call[t].dir => SameEntry(e)
           /\ call[t].dir \in DOMAIN vnodes
  <1>1. lapped = {} /\ call[t].pc = "store"
    BY DEF Store, At
  <1>2. Looked(t) /\ call[t].dir \in DOMAIN vnodes
    BY <1>1 DEF Base, TreeKept, NamesInv, Naming, Tree, Places, Adds, IsVnode
  <1>3. call[t].idx > Len(vnodes[call[t].dir].entry)
    BY <1>1, <1>2 DEF Looked, Adds
  <1> QED  BY <1>2, <1>3, StoreStep DEF Base, TreeKept

LEMMA AppendExtends ==
    ASSUME Base, NEW d \in DOMAIN vnodes, DOMAIN vnodes \subseteq DOMAIN vnodes',
           vnodes'[d].entry = Append(vnodes[d].entry, Fresh),
           \A e \in DOMAIN vnodes : e # d => SameEntry(e)
    PROVE  Extends(vnodes, vnodes')
  <1>1. vnodes[d].entry \in Seq(Nat) /\ Fresh \in Nat
    BY VnodeFields DEF Base, TreeKept, Fresh
  <1>2. /\ DOMAIN vnodes[d].entry \subseteq DOMAIN vnodes'[d].entry
        /\ \A i \in DOMAIN vnodes[d].entry : vnodes'[d].entry[i] = vnodes[d].entry[i]
    <2>1. /\ DOMAIN vnodes[d].entry = 1 .. Len(vnodes[d].entry) /\ Len(vnodes[d].entry) \in Nat
          /\ DOMAIN vnodes'[d].entry = 1 .. Len(vnodes[d].entry) + 1
          /\ \A i \in 1 .. Len(vnodes[d].entry) : vnodes'[d].entry[i] = vnodes[d].entry[i]
      BY <1>1, AppendSeq
    <2> QED  BY <2>1
  <1> QED  BY <1>2 DEF Extends, SameEntry

\* Where no two calls overlapped, every name keeps the entry it is found at.
LEMMA NamesKept ==
    ASSUME Base, Firm, Firm', [Next]_vars, lapped' = {}, \A t \in Tasks : Unnamed(vnodes, call[t])
    PROVE  KeepsNames(vnodes, vnodes') /\ DOMAIN vnodes \subseteq DOMAIN vnodes'
  <1>1. CASE SameTree
    <2>1. Extends(vnodes, vnodes') /\ \A v \in DOMAIN vnodes : vnodes'[v].name = vnodes[v].name
      BY <1>1 DEF SameTree, Extends, SameEntry, SameName
    <2> QED  BY <2>1, GrownKeeps DEF Firm, Extends
  <1>2. ASSUME NEW t \in Tasks, NameIt(t)
        PROVE  KeepsNames(vnodes, vnodes') /\ DOMAIN vnodes \subseteq DOMAIN vnodes'
    BY <1>2, NamingKeeps, NameStep DEF Base, TreeKept
  <1>3. ASSUME NEW fs, NEW type, NEW name, Grows(fs, type, name), Extends(vnodes, vnodes')
        PROVE  KeepsNames(vnodes, vnodes') /\ DOMAIN vnodes \subseteq DOMAIN vnodes'
    <2>1. \A v \in DOMAIN vnodes : vnodes'[v].name = vnodes[v].name
      BY <1>3 DEF Grows, SameName
    <2> QED  BY <1>3, <2>1, GrownKeeps DEF Firm, Extends
  <1>4. ASSUME NEW t \in Tasks, NEW type, Grows("tmpfs", type, <<>>), Store(t)
        PROVE  KeepsNames(vnodes, vnodes') /\ DOMAIN vnodes \subseteq DOMAIN vnodes'
    <2>1. Extends(vnodes, vnodes')
      BY <1>4, StoreAppends, AppendExtends, Grown
    <2> QED  BY <1>3, <1>4, <2>1
  <1>5. ASSUME NEW t \in Tasks, Setup(t)
        PROVE  KeepsNames(vnodes, vnodes') /\ DOMAIN vnodes \subseteq DOMAIN vnodes'
    <2>1. Grows(call[t].fs, "DIR", <<>>) /\ \A v \in DOMAIN vnodes : SameEntry(v)
      BY <1>5, SetupStep DEF Base, TreeKept
    <2>2. Extends(vnodes, vnodes')
      BY <2>1, Grown DEF Extends, SameEntry
    <2> QED  BY <1>3, <2>1, <2>2
  <1>6. ASSUME NEW t \in Tasks, Fill(t)
        PROVE  KeepsNames(vnodes, vnodes') /\ DOMAIN vnodes \subseteq DOMAIN vnodes'
    <2>1. CASE vnodes' = vnodes
      BY <1>1, <2>1 DEF SameTree, Kept, SameEntry, SameName
    <2>2. CASE vnodes' # vnodes
      <3>1. PICK name : Grows("initramfs", "FILE", name)
        BY <1>6, <2>2, FillStep DEF Base, TreeKept
      <3>2. /\ \A e \in DOMAIN vnodes : e # call[t].dir => SameEntry(e)
            /\ vnodes'[call[t].dir].entry = Append(vnodes[call[t].dir].entry, Fresh)
        BY <1>6, <2>2, FillStep DEF Base, TreeKept
      <3>3. call[t].dir \in DOMAIN vnodes
        BY <1>6 DEF Fill, At, Base, TreeKept, Tree, Places, Mounts, IsVnode
      <3>4. Extends(vnodes, vnodes')
        BY <3>1, <3>2, <3>3, AppendExtends, Grown
      <3> QED  BY <1>3, <3>1, <3>4
    <2> QED  BY <2>1, <2>2
  <1> QED  BY <1>1, <1>2, <1>4, <1>5, <1>6, Branchings DEF Branches

\* Unless it makes a mount, a step leaves what is mounted.
LEMMA MountsKept ==
    ASSUME Base, [Next]_vars, lapped' = {}
    PROVE  \/ Len(mounts') > Len(mounts)
           \/ Len(mounts') = Len(mounts) /\ SameMounts(vnodes, mounts, vnodes', mounts')
  <1>1. Tree /\ Links /\ Found /\ Typed
    BY DEF Base, TreeKept, TreeInv, Tree
  <1>2. CASE Steady
    BY <1>2 DEF Steady, SameMounts, SameMount
  <1>3. ASSUME NEW t \in Tasks, Attach(t) PROVE Len(mounts') > Len(mounts)
    <2>1. mounts' = Append(mounts, 0) /\ 0 \in Nat
      BY <1>3 DEF Attach
    <2>2. mounts \in Seq(Nat) /\ Len(mounts) \in Nat
      BY <1>1, MountFields
    <2>3. Len(mounts') = Len(mounts) + 1
      BY <2>1, <2>2, AppendProperties
    <2> QED  BY <2>2, <2>3
  <1>4. ASSUME NEW t \in Tasks, Setup(t)
        PROVE  Len(mounts') = Len(mounts) /\ SameMounts(vnodes, mounts, vnodes', mounts')
    <2>1. /\ Hooks(t) /\ Hook(t) \in DOMAIN mounts
          /\ DOMAIN mounts' = DOMAIN mounts
          /\ \A m \in DOMAIN mounts : mounts'[m] = IF m = Hook(t) THEN Fresh ELSE mounts[m]
          /\ DOMAIN vnodes \subseteq DOMAIN vnodes'
          /\ \A v \in DOMAIN vnodes : SameMount(v)
          /\ lapped = {}
      BY <1>1, <1>4, SetUp
    <2>2. mounts[Hook(t)] = 0
      BY <1>1, <2>1 DEF Found, Hooked
    <2>3. Typed'
      BY <1>1, <1>4, SetupStep
    <2>4. Len(mounts') = Len(mounts)
      <3>1. mounts \in Seq(Nat) /\ mounts' \in Seq(Nat)
        BY <1>1, <2>3 DEF Typed
      <3> QED  BY <2>1, <3>1, LenProperties
    <2>5. \A n \in DOMAIN vnodes : vnodes[n].mount # 0 => vnodes[n].mount \in DOMAIN mounts
      BY <1>1 DEF Links
    <2> QED  BY <2>1, <2>2, <2>4, <2>5 DEF SameMounts, SameMount
  <1> QED  BY <1>1, <1>2, <1>3, <1>4, Steadies

-----------------------------------------------------------------------------
(* The paths that are kept                                                 *)

Chars == {Slash} \cup UNION {ToSet(p) : p \in OpenPaths \cup ChdirPaths}

IsPath(p) == p \in Seq(Chars) /\ (NoDotted => Settled(p))

\* An open file is found by its path, unless a mount has been made since.
Stands(vs, ms, f) ==
    f.how \notin {"unset", "refused"} /\ f.mounts = Len(ms) /\ ~ Nameless(f.path) =>
        LookupIn(vs, ms, f.path) = f.vnode /\ f.vnode > 0

FileGood(vs, ms, lp, f) ==
    f # NULL => /\ IsPath(f.path) /\ f.mounts \in 0 .. Len(ms)
                /\ lp = {} => Stands(vs, ms, f)

\* A file that is being created will be found by its path when it has its
\* name: no entry of the directory has it.
Will(vs, ms, c) ==
    c.mounts = Len(ms) /\ ~ Nameless(c.path) =>
        /\ LookupIn(vs, ms, Dirname(c.path)) = c.dir /\ c.dir \in DOMAIN vs
        /\ c.name = Basename(c.path) /\ NamedIn(vs, c.dir, c.name) = {}
        /\ c.pc = "name" => vs[c.idx].mount = 0

Creates(vs, ms, lp, c) ==
    c.pc \in {"store", "name"} /\ c.fd # 0 =>
        /\ IsPath(c.path) /\ c.path # <<>> /\ c.mounts \in 0 .. Len(ms)
        /\ lp = {} => Will(vs, ms, c)

CallGood(vs, ms, lp, c) ==
    /\ c.pc = "parent" => IsPath(c.path) /\ c.path # <<>>
    /\ Creates(vs, ms, lp, c)
    /\ lp = {} => Unnamed(vs, c)

PathInv ==
    /\ \A t \in Tasks : IsPath(cwd[t])
    /\ \A t \in Tasks : CallGood(vnodes, mounts, lapped, call[t])
    /\ \A t \in Tasks : \A fd \in Fds : FileGood(vnodes, mounts, lapped, fds[t][fd])

LEMMA AbsoluteTyped ==
    ASSUME NEW S, Slash \in S, NEW q \in Seq(S), NEW dir \in Seq(S)
    PROVE  AbsolutePath(q, dir) \in Seq(S)
  <1>1. <<Slash>> \in Seq(S)
    OBVIOUS
  <1>2. Joined(q, dir) \in Seq(S)
    <2>1. dir \o q \in Seq(S) /\ dir \o <<Slash>> \in Seq(S)
      BY <1>1, ConcatProperties
    <2>2. dir \o <<Slash>> \o q \in Seq(S)
      BY <2>1, ConcatProperties
    <2> QED  BY <2>1, <2>2 DEF Joined
  <1>3. PICK g \in [0 .. Len(Joined(q, dir)) -> Accs(S)] :
            AbsolutePath(q, dir) = g[Len(Joined(q, dir))].out
    BY <1>2, AbsoluteScans
  <1>4. Len(Joined(q, dir)) \in 0 .. Len(Joined(q, dir))
    BY <1>2, LenProperties
  <1> QED  BY <1>3, <1>4 DEF Accs

\* What open and chdir make of a path.
LEMMA MadePath ==
    ASSUME NEW p \in OpenPaths \cup ChdirPaths, NEW dir, IsPath(dir)
    PROVE  IsPath(AbsolutePath(p, dir))
  <1>1. p \in Seq(ToSet(p)) /\ ToSet(p) \subseteq Chars /\ Slash \in Chars
    BY VfsAssumption DEF Chars
  <1>2. p \in Seq(Chars) /\ dir \in Seq(Chars)
    BY <1>1, SeqMonotonic DEF IsPath
  <1>3. AbsolutePath(p, dir) \in Seq(Chars)
    BY <1>1, <1>2, AbsoluteTyped
  <1>4. ASSUME NoDotted PROVE Settled(AbsolutePath(p, dir))
    BY <1>1, <1>2, <1>4, AbsoluteSettled DEF IsPath, NoDotted
  <1> QED  BY <1>3, <1>4 DEF IsPath

\* A call that adds keeps its directory to itself.
LEMMA Untouched ==
    ASSUME Base, [Next]_vars, lapped' = {}, NEW u \in Tasks, Adds(u), call'[u] = call[u],
           Unnamed(vnodes, call[u]), lapped = {}
    PROVE  /\ call[u].dir \in DOMAIN vnodes /\ SameEntry(call[u].dir)
           /\ \A i \in DOMAIN vnodes[call[u].dir].entry :
                SameName(vnodes[call[u].dir].entry[i])
           /\ call[u].pc = "name" => SameName(call[u].idx)
  <1> DEFINE d == call[u].dir
             Entries == \A i \in DOMAIN vnodes[d].entry : SameName(vnodes[d].entry[i])
  <1>1. /\ d \in DOMAIN vnodes /\ vnodes[d].fs = "tmpfs"
        /\ DOMAIN vnodes[d].entry = 1 .. Len(vnodes[d].entry) /\ Len(vnodes[d].entry) \in Nat
    BY VnodeFields DEF Base, TreeKept, Tree, Places, IsVnode
  <1>2. ASSUME \A v \in DOMAIN vnodes : SameName(v) PROVE Entries
    BY <1>1, <1>2, EntriesNamed DEF Base, TreeKept
  <1>3. ASSUME NEW t \in Tasks, t # u, Adds(t) PROVE call[t].dir # d
    BY <1>3 DEF Base, TreeKept, NamesInv, Naming, OneAdder
  <1>4. SameEntry(d) /\ Entries
    <2>1. CASE SameTree
      BY <1>1, <1>2, <2>1 DEF SameTree
    <2>2. ASSUME NEW t \in Tasks, NEW type, Grows("tmpfs", type, <<>>), Store(t)
          PROVE  SameEntry(d) /\ Entries
      <3>1. call[t].pc = "store" /\ call'[t].pc = "name"
        BY <2>2, StoreStep DEF Base, TreeKept, Store, At
      <3>2. t # u /\ Adds(t)
        BY <3>1 DEF Adds
      <3>3. call[t].dir # d
        BY <1>3, <3>2
      <3> QED  BY <1>1, <1>2, <2>2, <3>3, StoreAppends DEF Grows
    <2>3. ASSUME NEW t \in Tasks, NameIt(t) PROVE SameEntry(d) /\ Entries
      <3>1. /\ call[t].pc = "name" /\ call'[t].pc = "user"
            /\ \A v \in DOMAIN vnodes : SameEntry(v) /\ (v # call[t].idx => SameName(v))
        BY <2>3, NameStep DEF Base, TreeKept, NameIt, At
      <3>2. t # u /\ Adds(t)
        BY <3>1 DEF Adds
      <3>3. call[t].dir # d
        BY <1>3, <3>2
      <3>4. \A i \in DOMAIN vnodes[d].entry :
                vnodes[d].entry[i] # call[t].idx /\ vnodes[d].entry[i] \in DOMAIN vnodes
        BY <1>1, <3>1, <3>3
           DEF Base, TreeKept, NamesInv, Naming, OwnEntry, Tree, Places, IsVnode
      <3> QED  BY <1>1, <3>1, <3>4
    <2>4. ASSUME NEW t \in Tasks, Setup(t) PROVE SameEntry(d) /\ Entries
      <3>1. Grows(call[t].fs, "DIR", <<>>) /\ \A v \in DOMAIN vnodes : SameEntry(v)
        BY <2>4, SetupStep DEF Base, TreeKept
      <3> QED  BY <1>1, <1>2, <3>1 DEF Grows
    <2>5. ASSUME NEW t \in Tasks, Fill(t) PROVE SameEntry(d) /\ Entries
      <3>1. \/ vnodes' = vnodes
            \/ /\ \E name : Grows("initramfs", "FILE", name)
               /\ \A e \in DOMAIN vnodes : e # call[t].dir => SameEntry(e)
        BY <2>5, FillStep DEF Base, TreeKept
      <3>2. call[t].dir # d
        BY <1>1, <2>5 DEF Fill, At, Base, TreeKept, Tree, Places, Mounts, IsArchive
      <3>3. CASE vnodes' = vnodes
        BY <3>3 DEF SameEntry, SameName
      <3>4. CASE vnodes' # vnodes
        BY <1>1, <1>2, <3>1, <3>2, <3>4 DEF Grows
      <3> QED  BY <3>3, <3>4
    <2> QED  BY <2>1, <2>2, <2>3, <2>4, <2>5, Branchings DEF Branches
  <1>5. ASSUME call[u].pc = "name" PROVE SameName(call[u].idx)
    <2>1. /\ Len(vnodes[d].entry) > 0 /\ vnodes[d].entry[Len(vnodes[d].entry)] = call[u].idx
      BY <1>5 DEF Unnamed
    <2>2. Len(vnodes[d].entry) \in DOMAIN vnodes[d].entry
      BY <1>1, <2>1
    <2>3. SameName(vnodes[d].entry[Len(vnodes[d].entry)])
      BY <1>4, <2>2
    <2> QED  BY <2>1, <2>3
  <1> QED  BY <1>1, <1>4, <1>5

LEMMA HistoryGrows ==
    ASSUME Base, [Next]_vars
    PROVE  /\ lapped \subseteq lapped' /\ Len(mounts) \in Nat
           /\ Len(mounts') \in Nat /\ Len(mounts) <= Len(mounts')
  <1>1. Tree /\ Links /\ mounts \in Seq(Nat) /\ Len(mounts) \in Nat
    BY MountFields DEF Base, TreeKept, TreeInv, Tree
  <1>2. CASE Steady
    BY <1>1, <1>2 DEF Steady
  <1>3. ASSUME NEW t \in Tasks, Attach(t)
        PROVE  lapped \subseteq lapped' /\ Len(mounts') = Len(mounts) + 1
    <2>1. mounts' = Append(mounts, 0) /\ 0 \in Nat
      BY <1>3 DEF Attach
    <2> QED  BY <1>1, <1>3, <2>1, AppendProperties, AttachStep
  <1>4. ASSUME NEW t \in Tasks, Setup(t)
        PROVE  lapped \subseteq lapped' /\ Len(mounts') = Len(mounts)
    <2>1. DOMAIN mounts' = DOMAIN mounts /\ lapped' = lapped
      BY <1>1, <1>4, SetUp
    <2>2. mounts' \in Seq(Nat)
      BY <1>1, <1>4, SetupStep DEF Typed
    <2> QED  BY <1>1, <2>1, <2>2, LenProperties
  <1> QED  BY <1>1, <1>2, <1>3, <1>4, Steadies

\* What was found is found again, if no mount is made and no two calls
\* overlapped.
LEMMA FoundAgain ==
    ASSUME Base, Firm, Firm', PathInv, [Next]_vars, lapped' = {}, Len(mounts') = Len(mounts),
           NEW S, NEW p \in Seq(S), ~ Nameless(p), LookupIn(vnodes, mounts, p) > 0
    PROVE  LookupIn(vnodes', mounts', p) = LookupIn(vnodes, mounts, p)
  <1>1. lapped = {} /\ Len(mounts) \in Nat
    BY HistoryGrows
  <1>2. \A t \in Tasks : Unnamed(vnodes, call[t])
    BY <1>1 DEF PathInv, CallGood
  <1>3. KeepsNames(vnodes, vnodes')
    BY <1>2, NamesKept
  <1>4. SameMounts(vnodes, mounts, vnodes', mounts')
    BY <1>1, MountsKept
  <1> QED  BY <1>3, <1>4, LookupStays DEF Firm

LEMMA FileStays ==
    ASSUME Base, Firm, Firm', PathInv, [Next]_vars, NEW f, FileGood(vnodes, mounts, lapped, f)
    PROVE  FileGood(vnodes', mounts', lapped', f)
  <1>1. /\ lapped \subseteq lapped' /\ Len(mounts) \in Nat
        /\ Len(mounts') \in Nat /\ Len(mounts) <= Len(mounts')
    BY HistoryGrows
  <1> SUFFICES ASSUME f # NULL
               PROVE  /\ IsPath(f.path) /\ f.mounts \in 0 .. Len(mounts')
                      /\ lapped' = {} => Stands(vnodes', mounts', f)
    BY DEF FileGood
  <1>2. IsPath(f.path) /\ f.mounts \in 0 .. Len(mounts)
        /\ (lapped = {} => Stands(vnodes, mounts, f))
    BY DEF FileGood
  <1>3. ASSUME lapped' = {}, f.how \notin {"unset", "refused"}, f.mounts = Len(mounts'),
               ~ Nameless(f.path)
        PROVE  LookupIn(vnodes', mounts', f.path) = f.vnode /\ f.vnode > 0
    <2>1. lapped = {} /\ Len(mounts') = Len(mounts)
      BY <1>1, <1>2, <1>3
    <2>2. LookupIn(vnodes, mounts, f.path) = f.vnode /\ f.vnode > 0
      BY <1>2, <1>3, <2>1 DEF Stands
    <2>3. LookupIn(vnodes', mounts', f.path) = LookupIn(vnodes, mounts, f.path)
      BY <1>2, <1>3, <2>1, <2>2, FoundAgain DEF IsPath
    <2> QED  BY <2>2, <2>3
  <1> QED  BY <1>1, <1>2, <1>3 DEF Stands

\* The directory of a create is found again, and has not got the name.
LEMMA StillAhead ==
    ASSUME Base, Firm, Firm', PathInv, [Next]_vars, lapped' = {},
           NEW c, IsPath(c.path), c.path # <<>>, c.mounts \in 0 .. Len(mounts),
           c.mounts = Len(mounts'), ~ Nameless(c.path), Will(vnodes, mounts, c)
    PROVE  /\ LookupIn(vnodes', mounts', Dirname(c.path)) = c.dir
           /\ c.dir \in DOMAIN vnodes /\ c.dir > 0 /\ c.dir \in DOMAIN vnodes' /\ c.name # <<>>
           /\ LookupIn(vnodes, mounts, Dirname(c.path)) = c.dir
           /\ c.name = Basename(c.path) /\ NamedIn(vnodes, c.dir, c.name) = {}
           /\ c.pc = "name" => vnodes[c.idx].mount = 0
           /\ Len(mounts') = Len(mounts) /\ SameMounts(vnodes, mounts, vnodes', mounts')
           /\ lapped = {}
  <1>1. /\ lapped = {} /\ Len(mounts) \in Nat
        /\ Len(mounts') \in Nat /\ Len(mounts) <= Len(mounts')
    BY HistoryGrows
  <1>2. Len(mounts') = Len(mounts) /\ c.mounts = Len(mounts)
    BY <1>1
  <1>3. /\ LookupIn(vnodes, mounts, Dirname(c.path)) = c.dir /\ c.dir \in DOMAIN vnodes
        /\ c.name = Basename(c.path) /\ NamedIn(vnodes, c.dir, c.name) = {}
        /\ c.pc = "name" => vnodes[c.idx].mount = 0
    BY <1>2 DEF Will
  <1>4. ~ Nameless(Dirname(c.path)) /\ Basename(c.path) # <<>> /\ Dirname(c.path) \in Seq(Chars)
    BY LookupLast, LastComponent DEF IsPath, Firm
  <1>5. c.dir > 0
    BY <1>3 DEF Firm, Grounded
  <1>6. LookupIn(vnodes', mounts', Dirname(c.path)) = c.dir
    <2>1. Dirname(c.path) \in Seq(Chars) /\ LookupIn(vnodes, mounts, Dirname(c.path)) > 0
      BY <1>3, <1>4, <1>5
    <2> QED  BY <1>2, <1>3, <1>4, <2>1, FoundAgain
  <1>7. SameMounts(vnodes, mounts, vnodes', mounts')
    BY <1>1, <1>2, MountsKept
  <1> QED  BY <1>1, <1>2, <1>3, <1>4, <1>5, <1>6, <1>7 DEF SameMounts

\* A call that does not go on.
LEMMA CallStays ==
    ASSUME Base, Firm, Firm', PathInv, [Next]_vars, NEW u \in Tasks, call'[u] = call[u]
    PROVE  CallGood(vnodes', mounts', lapped', call[u])
  <1> DEFINE c == call[u]
  <1>1. /\ lapped \subseteq lapped' /\ Len(mounts) \in Nat
        /\ Len(mounts') \in Nat /\ Len(mounts) <= Len(mounts')
    BY HistoryGrows
  <1>2. CallGood(vnodes, mounts, lapped, c)
    BY DEF PathInv
  <1>3. ASSUME lapped' = {}, c.pc = "name" PROVE Unnamed(vnodes', c)
    <2>1. lapped = {} /\ Adds(u) /\ Unnamed(vnodes, c)
      BY <1>1, <1>2, <1>3 DEF CallGood, Adds
    <2>2. /\ c.dir \in DOMAIN vnodes /\ SameEntry(c.dir) /\ SameName(c.idx)
      BY <1>3, <2>1, Untouched
    <2>3. DOMAIN vnodes \subseteq DOMAIN vnodes'
      <3>1. \A t \in Tasks : Unnamed(vnodes, call[t])
        BY <2>1 DEF PathInv, CallGood
      <3> QED  BY <1>3, <3>1, NamesKept
    <2> QED  BY <1>3, <2>1, <2>2, <2>3 DEF Unnamed, SameEntry, SameName
  <1>4. ASSUME c.pc \in {"store", "name"}, c.fd # 0
        PROVE  /\ IsPath(c.path) /\ c.path # <<>> /\ c.mounts \in 0 .. Len(mounts')
               /\ lapped' = {} => Will(vnodes', mounts', c)
    <2>1. /\ IsPath(c.path) /\ c.path # <<>> /\ c.mounts \in 0 .. Len(mounts)
          /\ lapped = {} => Will(vnodes, mounts, c)
      BY <1>2, <1>4 DEF CallGood, Creates
    <2>2. ASSUME lapped' = {}, c.mounts = Len(mounts'), ~ Nameless(c.path)
          PROVE  /\ LookupIn(vnodes', mounts', Dirname(c.path)) = c.dir /\ c.dir \in DOMAIN vnodes'
                 /\ c.name = Basename(c.path) /\ NamedIn(vnodes', c.dir, c.name) = {}
                 /\ c.pc = "name" => vnodes'[c.idx].mount = 0
      <3>1. lapped = {} /\ Will(vnodes, mounts, c) /\ Unnamed(vnodes, c) /\ Adds(u)
        BY <1>1, <1>2, <1>4, <2>1, <2>2 DEF CallGood, Adds
      <3> HIDE DEF c
      <3>2. /\ LookupIn(vnodes', mounts', Dirname(c.path)) = c.dir
            /\ c.dir \in DOMAIN vnodes' /\ c.name = Basename(c.path)
            /\ NamedIn(vnodes, c.dir, c.name) = {}
            /\ c.pc = "name" => vnodes[c.idx].mount = 0
            /\ SameMounts(vnodes, mounts, vnodes', mounts')
        BY <2>1, <2>2, <3>1, StillAhead
      <3> USE DEF c
      <3>3. /\ c.dir \in DOMAIN vnodes /\ SameEntry(c.dir)
            /\ \A i \in DOMAIN vnodes[c.dir].entry : SameName(vnodes[c.dir].entry[i])
        BY <2>2, <3>1, Untouched
      <3> HIDE DEF c
      <3>4. NamedIn(vnodes', c.dir, c.name) = {}
        BY <3>2, <3>3 DEF NamedIn, SameEntry, SameName
      <3>5. c.pc = "name" => vnodes'[c.idx].mount = 0
        BY <3>1, <3>2 DEF SameMounts, Unnamed
      <3> QED  BY <3>2, <3>4, <3>5
    <2> QED  BY <1>1, <2>1, <2>2 DEF Will
  <1>5. c.pc = "parent" => IsPath(c.path) /\ c.path # <<>>
    BY <1>2 DEF CallGood
  <1> QED  BY <1>3, <1>4, <1>5 DEF CallGood, Creates, Unnamed

-----------------------------------------------------------------------------
(* What steps put in calls and descriptors                                 *)

\* A call that holds no path and adds nothing.
Passing(c) == c.pc \notin {"parent", "store", "name"}

GoesOn(u) == call'[u] = call[u] \/ CallGood(vnodes', mounts', lapped', call'[u])

GoodFile(x) == FileGood(vnodes', mounts', lapped', x)

PutsFile == \E t \in Tasks : \E fd, x : Puts(t, fd, x) /\ (fd \in Fds => GoodFile(x))

LEMMA PassingGood == \A c, vs, ms, lp : Passing(c) => CallGood(vs, ms, lp, c)
  BY DEF Passing, CallGood, Creates, Unnamed

LEMMA NextCall ==
    ASSUME Typed, NEW t \in Tasks, NEW c, Goto(t, c),
           Passing(c) \/ CallGood(vnodes', mounts', lapped', c)
    PROVE  \A u \in Tasks : GoesOn(u)
  BY CallStep, PassingGood DEF GoesOn

LEMMA PassingCalls == Passing(Idle) /\ Passing([pc |-> "wild"])
  BY DEF Passing, Idle

LEMMA OpenedFile ==
    ASSUME Base, NEW t \in Tasks, NEW path, NEW fd, NEW v, NEW how, Opened(t, path, fd, v, how),
           IsPath(path), mounts' = mounts,
           \/ how \in {"unset", "refused"}
           \/ v > 0 /\ LookupIn(vnodes', mounts', path) = v
    PROVE  PutsFile /\ \A u \in Tasks : GoesOn(u)
  <1> DEFINE x == [vnode |-> v, path |-> path, how |-> how, mounts |-> Len(mounts)]
  <1>1. Puts(t, fd, x) /\ Goto(t, Idle)
    BY DEF Opened, Puts
  <1>2. x.vnode = v /\ x.path = path /\ x.how = how /\ x.mounts = Len(mounts)
    OBVIOUS
  <1>3. Len(mounts) \in 0 .. Len(mounts) /\ Typed
    BY MountFields DEF Base, TreeKept, Tree
  <1> HIDE DEF x
  <1>4. GoodFile(x)
    BY <1>2, <1>3 DEF GoodFile, FileGood, Stands
  <1> QED  BY <1>1, <1>3, <1>4, NextCall, PassingCalls DEF PutsFile

\* What a lookup may end with, if it is a vnode or nothing.
LEMMA EndsAre ==
    ASSUME Base, Firm, NEW S, NEW p \in Seq(S), NEW v \in Ends(Lookup(p))
    PROVE  /\ IsVnode(v) => v > 0 /\ v = LookupIn(vnodes, mounts, p)
           /\ v = Absent => p # <<>>
  <1>1. Lookup(p) = LookupIn(vnodes, mounts, p)
    BY LookupIs
  <1>2. DOMAIN vnodes = 1 .. Len(vnodes) /\ Len(vnodes) \in Nat /\ Root \in DOMAIN vnodes
    BY DEF Firm, Grounded
  <1>3. ASSUME IsVnode(v) PROVE v > 0 /\ v = LookupIn(vnodes, mounts, p)
    BY <1>1, <1>2, <1>3 DEF Ends, IsVnode, Absent, Wild
  <1>4. ASSUME v = Absent, p = <<>> PROVE FALSE
    <2>1. LookupIn(vnodes, mounts, <<>>) = Root
      BY LookupRoot DEF Firm
    <2>2. v = Root
      BY <1>1, <1>4, <2>1 DEF Ends, Root, Past
    <2> QED  BY <1>4, <2>2 DEF Root, Absent
  <1> QED  BY <1>3, <1>4

LEMMA OpenPath ==
    ASSUME Base, Firm, PathInv, NEW t \in Tasks, NEW p \in OpenPaths, NEW creat,
           Open(t, p, creat)
    PROVE  (fds' = fds \/ PutsFile) /\ \A u \in Tasks : GoesOn(u)
  <1> DEFINE path == AbsolutePath(p, cwd[t])
             fd == Min(FreeFds(t))
  <1>1. UNCHANGED <<vnodes, mounts, lapped>> /\ Typed
    BY DEF Open, Base, TreeKept, Tree
  <1>2. IsPath(path)
    BY MadePath DEF PathInv
  <1>3. PICK v \in Ends(Lookup(path)) :
            \/ /\ IsVnode(v)
               /\ Opened(t, path, fd, v, "found")
            \/ /\ v = Absent
               /\ Goto(t, [pc |-> "parent", path |-> path, fd |-> fd])
               /\ UNCHANGED fds
            \/ Opened(t, path, fd, Wild, "unset")
            \/ GoWild(t) /\ UNCHANGED fds
    BY DEF Open
  <1> HIDE DEF path, fd
  <1>4. /\ IsVnode(v) => v > 0 /\ v = LookupIn(vnodes, mounts, path)
        /\ v = Absent => path # <<>>
    BY <1>2, EndsAre DEF IsPath
  <1>5. CASE IsVnode(v) /\ Opened(t, path, fd, v, "found")
    BY <1>1, <1>2, <1>4, <1>5, OpenedFile
  <1>6. CASE v = Absent /\ Goto(t, [pc |-> "parent", path |-> path, fd |-> fd]) /\ UNCHANGED fds
    <2> DEFINE c == [pc |-> "parent", path |-> path, fd |-> fd]
    <2>1. c.pc = "parent" /\ c.path = path /\ Goto(t, c)
      BY <1>6
    <2> HIDE DEF c
    <2>2. CallGood(vnodes', mounts', lapped', c)
      BY <1>2, <1>4, <1>6, <2>1 DEF CallGood, Creates, Unnamed
    <2> QED  BY <1>1, <1>6, <2>1, <2>2, NextCall
  <1>7. CASE Opened(t, path, fd, Wild, "unset")
    BY <1>1, <1>2, <1>7, OpenedFile
  <1>8. CASE GoWild(t) /\ UNCHANGED fds
    BY <1>1, <1>8, NextCall, PassingCalls DEF GoWild
  <1> QED  BY <1>3, <1>5, <1>6, <1>7, <1>8

LEMMA CreateInPath ==
    ASSUME Base, Firm, PathInv, NEW t \in Tasks, CreateIn(t)
    PROVE  (fds' = fds \/ PutsFile) /\ \A u \in Tasks : GoesOn(u)
  <1> DEFINE c == call[t]
             name == Basename(c.path)
  <1>1. UNCHANGED <<vnodes, mounts>> /\ Typed /\ c.pc = "parent"
    BY DEF CreateIn, At, Base, TreeKept, Tree
  <1>2. IsPath(c.path) /\ c.path # <<>>
    BY <1>1 DEF PathInv, CallGood
  <1>3. PICK d \in Ends(Lookup(Dirname(c.path))) :
            \/ Goto(t, Idle) /\ UNCHANGED <<fds, lapped>>
            \/ Opened(t, c.path, c.fd, d, "refused") /\ UNCHANGED lapped
            \/ /\ IsVnode(d) /\ MayCreate(d, name)
               /\ AddTo(t, d, name, "FILE", c.path, c.fd) /\ UNCHANGED fds
            \/ GoWild(t) /\ UNCHANGED <<fds, lapped>>
    BY DEF CreateIn
  <1> HIDE DEF c, name
  <1>4. CASE Goto(t, Idle) /\ UNCHANGED <<fds, lapped>>
    BY <1>1, <1>4, NextCall, PassingCalls
  <1>5. CASE Opened(t, c.path, c.fd, d, "refused") /\ UNCHANGED lapped
    BY <1>1, <1>2, <1>5, OpenedFile
  <1>6. CASE GoWild(t) /\ UNCHANGED <<fds, lapped>>
    BY <1>1, <1>6, NextCall, PassingCalls DEF GoWild
  <1>7. CASE /\ IsVnode(d) /\ MayCreate(d, name)
             /\ AddTo(t, d, name, "FILE", c.path, c.fd) /\ UNCHANGED fds
    <2> DEFINE a == [pc |-> "store", dir |-> d, idx |-> Slot(d), name |-> name,
                     type |-> "FILE", path |-> c.path, fd |-> c.fd, mounts |-> Len(mounts)]
    <2>1. /\ Goto(t, a) /\ a.pc = "store" /\ a.dir = d /\ a.name = name
          /\ a.path = c.path /\ a.mounts = Len(mounts)
      BY <1>7 DEF AddTo
    <2> HIDE DEF a
    <2>2. Dirname(c.path) \in Seq(Chars)
      BY <1>2, LastComponent DEF IsPath
    <2>3. d = LookupIn(vnodes, mounts, Dirname(c.path))
      BY <1>7, <2>2, EndsAre
    <2>4. NamedIn(vnodes, d, name) = {}
      BY <1>7 DEF MayCreate, Named, NamedIn
    <2>5. Len(mounts) \in 0 .. Len(mounts)
      BY <1>1, MountFields
    <2>6. Will(vnodes', mounts', a)
      BY <1>1, <1>7, <2>1, <2>3, <2>4 DEF Will, IsVnode, name
    <2>7. CallGood(vnodes', mounts', lapped', a)
      BY <1>1, <1>2, <2>1, <2>5, <2>6 DEF CallGood, Creates, Unnamed
    <2> QED  BY <1>1, <1>7, <2>1, <2>7, NextCall
  <1> QED  BY <1>3, <1>4, <1>5, <1>6, <1>7

LEMMA MkdirPath ==
    ASSUME Base, NEW t \in Tasks, NEW p, Mkdir(t, p)
    PROVE  fds' = fds /\ \A u \in Tasks : GoesOn(u)
  <1>1. UNCHANGED <<vnodes, mounts, fds>> /\ Typed
    BY DEF Mkdir, Base, TreeKept, Tree
  <1>2. GoWild(t) \/ \E d, name, path : AddTo(t, d, name, "DIR", path, 0)
    BY DEF Mkdir
  <1>3. CASE GoWild(t)
    BY <1>1, <1>3, NextCall, PassingCalls DEF GoWild
  <1>4. ASSUME NEW d, NEW name, NEW path, AddTo(t, d, name, "DIR", path, 0)
        PROVE  \A u \in Tasks : GoesOn(u)
    <2> DEFINE a == [pc |-> "store", dir |-> d, idx |-> Slot(d), name |-> name,
                     type |-> "DIR", path |-> path, fd |-> 0, mounts |-> Len(mounts)]
    <2>1. Goto(t, a) /\ a.pc = "store" /\ a.fd = 0
      BY <1>4 DEF AddTo
    <2> HIDE DEF a
    <2>2. CallGood(vnodes', mounts', lapped', a)
      BY <2>1 DEF CallGood, Creates, Unnamed
    <2> QED  BY <1>1, <2>1, <2>2, NextCall
  <1> QED  BY <1>1, <1>2, <1>3, <1>4

\* The steps that neither open a file nor add one.
LEMMA OtherPath ==
    ASSUME Base, NEW t \in Tasks,
           \/ \E p, fs : Mount(t, p, fs)
           \/ \E p : Chdir(t, p)
           \/ \E fd : Close(t, fd)
           \/ \E child \in Tasks : Fork(t, child)
           \/ Attach(t) \/ EnterSetup(t) \/ Setup(t) \/ ListStart(t) \/ ListNext(t)
           \/ Fill(t) \/ ForkCwd(t) \/ ForkFile(t)
    PROVE  \A u \in Tasks : GoesOn(u)
  <1>1. Typed /\ Tree
    BY DEF Base, TreeKept, Tree
  <1>2. ASSUME \A u \in Tasks : call'[u] = call[u] \/ Passing(call'[u])
        PROVE  \A u \in Tasks : GoesOn(u)
    BY <1>2, PassingGood DEF GoesOn
  <1>3. ASSUME NEW p, NEW fs, Mount(t, p, fs) PROVE \A u \in Tasks : GoesOn(u)
    <2>1. \/ \E v : Goto(t, [pc |-> "attach", dir |-> v, fs |-> fs])
          \/ Goto(t, [pc |-> "wild"])
      BY <1>3 DEF Mount, GoWild
    <2>2. \A v : Passing([pc |-> "attach", dir |-> v, fs |-> fs])
      BY DEF Passing
    <2> QED  BY <1>1, <2>1, <2>2, NextCall, PassingCalls
  <1>4. ASSUME (\E p : Chdir(t, p)) \/ (\E fd : Close(t, fd)) PROVE \A u \in Tasks : GoesOn(u)
    BY <1>4 DEF Chdir, Close, GoesOn
  <1>5. ASSUME NEW child \in Tasks, Fork(t, child) PROVE \A u \in Tasks : GoesOn(u)
    <2>1. /\ call'[t] = [pc |-> "fork", child |-> child] /\ call'[child] = Idle
          /\ \A u \in Tasks \ {t, child} : call'[u] = call[u]
      BY <1>1, <1>5, ForkStep
    <2>2. Passing(call'[t])
      BY ONLY <2>1 DEF Passing
    <2> QED  BY <1>2, <2>1, <2>2, PassingCalls
  <1>6. CASE Attach(t)
    BY <1>1, <1>2, <1>6, AttachStep DEF Passing
  <1>7. CASE EnterSetup(t)
    <2> DEFINE c == [pc |-> "setup", mount |-> vnodes[call[t].dir].mount, fs |-> call[t].fs]
    <2>1. Goto(t, c) /\ Passing(c)
      BY <1>7 DEF EnterSetup, Passing
    <2> HIDE DEF c
    <2> QED  BY <1>1, <2>1, NextCall
  <1>8. CASE Setup(t)
    BY <1>1, <1>2, <1>8, SetupStep DEF Passing
  <1>9. CASE ListStart(t) \/ ListNext(t)
    BY <1>1, <1>2, <1>9, ListMoves DEF Passing
  <1>10. CASE Fill(t)
    <2>1. /\ \/ call'[t].pc \in {"user", "wild"}
             \/ call'[t] = [pc |-> "fill", dir |-> call[t].dir, idx |-> call[t].idx + 1]
          /\ \A u \in Tasks \ {t} : call'[u] = call[u]
      BY <1>1, <1>10, FillStep
    <2>2. Passing(call'[t])
      BY ONLY <2>1 DEF Passing
    <2> QED  BY <1>2, <2>1, <2>2
  <1>11. CASE ForkCwd(t)
    <2>1. /\ call'[t] = [pc |-> "copy", child |-> call[t].child, fd |-> 1]
          /\ \A u \in Tasks \ {t} : call'[u] = call[u]
      BY <1>1, <1>11, ForkCwdStep
    <2>2. Passing(call'[t])
      BY ONLY <2>1 DEF Passing
    <2> QED  BY <1>2, <2>1, <2>2
  <1>12. CASE ForkFile(t)
    <2>1. /\ \/ call'[t].pc = "user"
             \/ call'[t] = [pc |-> "copy", child |-> call[t].child, fd |-> call[t].fd + 1]
          /\ \A u \in Tasks \ {t} : call'[u] = call[u]
      BY <1>1, <1>12, ForkFileStep
    <2>2. Passing(call'[t])
      BY ONLY <2>1 DEF Passing
    <2> QED  BY <1>2, <2>1, <2>2
  <1> QED  BY <1>3, <1>4, <1>5, <1>6, <1>7, <1>8, <1>9, <1>10, <1>11, <1>12

\* A create that has made its entry goes on to its name.
LEMMA StorePath ==
    ASSUME Base, Firm, Firm', PathInv, [Next]_vars, NEW t \in Tasks, Store(t)
    PROVE  fds' = fds /\ \A u \in Tasks : GoesOn(u)
  <1> DEFINE c == call[t]
             a == [c EXCEPT !.pc = "name", !.idx = Fresh]
  <1>1. /\ Typed /\ Tree /\ c.pc = "store" /\ Goto(t, a)
        /\ UNCHANGED <<mounts, fds, lapped>>
    BY DEF Store, At, Fresh, Base, TreeKept, Tree
  <1>2. /\ a.pc = "name" /\ a.idx = Fresh /\ a.dir = c.dir /\ a.name = c.name
        /\ a.path = c.path /\ a.fd = c.fd /\ a.mounts = c.mounts
    <2>1. c = [pc |-> "store", dir |-> c.dir, idx |-> c.idx, name |-> c.name,
               type |-> c.type, path |-> c.path, fd |-> c.fd, mounts |-> c.mounts]
      BY <1>1 DEF Typed, CallTyped
    <2> QED  BY <2>1
  <1>3. CallGood(vnodes, mounts, lapped, c)
    BY DEF PathInv
  <1>4. /\ Grows("tmpfs", c.type, <<>>)
    BY <1>1, StoreStep
  <1>5. Fresh \in DOMAIN vnodes' /\ vnodes'[Fresh].name = <<>> /\ vnodes'[Fresh].mount = 0
        /\ DOMAIN vnodes \subseteq DOMAIN vnodes' /\ Fresh \in Nat
    BY <1>4, Grown DEF Grows
  <1>6. ASSUME lapped' = {}
        PROVE  /\ vnodes'[c.dir].entry = Append(vnodes[c.dir].entry, Fresh)
               /\ c.dir \in DOMAIN vnodes /\ vnodes[c.dir].entry \in Seq(Nat)
    BY <1>1, <1>6, StoreAppends, VnodeFields
  <1> HIDE DEF a, c
  <1>7. ASSUME lapped' = {} PROVE Unnamed(vnodes', a)
    <2>1. /\ Len(vnodes'[c.dir].entry) = Len(vnodes[c.dir].entry) + 1
          /\ Len(vnodes[c.dir].entry) \in Nat
          /\ vnodes'[c.dir].entry[Len(vnodes[c.dir].entry) + 1] = Fresh
      BY <1>5, <1>6, <1>7, AppendSeq
    <2> QED  BY <1>2, <1>5, <1>6, <1>7, <2>1 DEF Unnamed
  <1>8. ASSUME c.fd # 0
        PROVE  /\ IsPath(a.path) /\ a.path # <<>> /\ a.mounts \in 0 .. Len(mounts')
               /\ lapped' = {} => Will(vnodes', mounts', a)
    <2>1. /\ IsPath(c.path) /\ c.path # <<>> /\ c.mounts \in 0 .. Len(mounts)
          /\ lapped = {} => Will(vnodes, mounts, c)
      BY <1>1, <1>3, <1>8 DEF CallGood, Creates
    <2>2. ASSUME lapped' = {}, c.mounts = Len(mounts'), ~ Nameless(c.path)
          PROVE  /\ LookupIn(vnodes', mounts', Dirname(c.path)) = c.dir /\ c.dir \in DOMAIN vnodes'
                 /\ c.name = Basename(c.path) /\ NamedIn(vnodes', c.dir, c.name) = {}
      <3>1. Will(vnodes, mounts, c)
        BY <1>1, <2>1, <2>2
      <3>2. /\ LookupIn(vnodes', mounts', Dirname(c.path)) = c.dir
            /\ c.dir \in DOMAIN vnodes' /\ c.name = Basename(c.path)
            /\ NamedIn(vnodes, c.dir, c.name) = {} /\ c.name # <<>>
        BY <2>1, <2>2, <3>1, StillAhead
      <3>3. /\ DOMAIN vnodes[c.dir].entry = 1 .. Len(vnodes[c.dir].entry)
            /\ DOMAIN vnodes'[c.dir].entry = 1 .. Len(vnodes[c.dir].entry) + 1
            /\ Len(vnodes[c.dir].entry) \in Nat
            /\ vnodes'[c.dir].entry[Len(vnodes[c.dir].entry) + 1] = Fresh
            /\ \A i \in 1 .. Len(vnodes[c.dir].entry) :
                    vnodes'[c.dir].entry[i] = vnodes[c.dir].entry[i]
        <4>1. /\ vnodes[c.dir].entry \in Seq(Nat) /\ Fresh \in Nat
              /\ vnodes'[c.dir].entry = Append(vnodes[c.dir].entry, Fresh)
          BY <1>5, <1>6, <2>2
        <4> DEFINE old == vnodes[c.dir].entry
        <4> HIDE DEF old
        <4>2. /\ Append(old, Fresh) \in Seq(Nat) /\ old \in Seq(Nat)
              /\ Len(Append(old, Fresh)) = Len(old) + 1
              /\ Append(old, Fresh)[Len(old) + 1] = Fresh
              /\ \A i \in 1 .. Len(old) : Append(old, Fresh)[i] = old[i]
          BY <4>1, AppendSeq DEF old
        <4>3. /\ DOMAIN old = 1 .. Len(old) /\ Len(old) \in Nat
              /\ DOMAIN Append(old, Fresh) = 1 .. Len(old) + 1
          BY ONLY <4>2
        <4> QED  BY <4>1, <4>2, <4>3 DEF old
      <3>4. \A i \in DOMAIN vnodes[c.dir].entry : SameName(vnodes[c.dir].entry[i])
        BY <1>1, <1>4, <1>6, <2>2, EntriesNamed DEF Grows
      <3>5. ASSUME NEW i \in DOMAIN vnodes'[c.dir].entry
            PROVE  vnodes'[vnodes'[c.dir].entry[i]].name # c.name
        <4>1. CASE i \in DOMAIN vnodes[c.dir].entry
          BY <3>2, <3>3, <3>4, <4>1 DEF NamedIn, SameName
        <4>2. CASE i \notin DOMAIN vnodes[c.dir].entry
          <5>1. i = Len(vnodes[c.dir].entry) + 1
            BY <3>3, <3>5, <4>2
          <5> QED  BY <1>5, <3>2, <3>3, <5>1
        <4> QED  BY <4>1, <4>2
      <3>6. NamedIn(vnodes', c.dir, c.name) = {}
        BY <3>5 DEF NamedIn
      <3> QED  BY <3>2, <3>6
    <2>3. lapped' = {} => Will(vnodes', mounts', a)
      BY <1>2, <1>5, <2>2 DEF Will
    <2> QED  BY <1>1, <1>2, <2>1, <2>3
  <1>9. CallGood(vnodes', mounts', lapped', a)
    BY <1>2, <1>7, <1>8 DEF CallGood, Creates
  <1> QED  BY <1>1, <1>9, NextCall

\* The file that has got its name is found by its path.
LEMMA NamedFound ==
    ASSUME Base, Firm, Firm', PathInv, [Next]_vars, NEW t \in Tasks, NameIt(t), lapped' = {},
           NEW c, c = call[t], c.fd # 0, c.mounts = Len(mounts'), ~ Nameless(c.path)
    PROVE  LookupIn(vnodes', mounts', c.path) = c.idx /\ c.idx > 0
  <1>1. c.pc = "name" /\ Tree /\ lapped = {}
    BY DEF NameIt, At, Base, TreeKept
  <1>2. /\ IsPath(c.path) /\ c.path # <<>> /\ c.mounts \in 0 .. Len(mounts)
        /\ Will(vnodes, mounts, c) /\ Unnamed(vnodes, c)
    BY <1>1 DEF PathInv, CallGood, Creates
  <1>3. /\ LookupIn(vnodes', mounts', Dirname(c.path)) = c.dir
        /\ c.dir \in DOMAIN vnodes /\ c.dir > 0 /\ c.dir \in DOMAIN vnodes' /\ c.name # <<>>
        /\ c.name = Basename(c.path) /\ NamedIn(vnodes, c.dir, c.name) = {}
        /\ vnodes[c.idx].mount = 0
    BY <1>1, <1>2, StillAhead
  <1>4. /\ DOMAIN vnodes' = DOMAIN vnodes
        /\ \A v \in DOMAIN vnodes : /\ SameEntry(v) /\ SameMount(v)
                                    /\ v # c.idx => SameName(v)
        /\ vnodes'[c.idx].name = c.name
    BY <1>1, NameStep
  <1>5. /\ c.idx \in DOMAIN vnodes /\ Len(vnodes[c.dir].entry) > 0
        /\ vnodes[c.dir].entry[Len(vnodes[c.dir].entry)] = c.idx
    BY <1>1, <1>2 DEF Unnamed
  <1>6. /\ Len(vnodes[c.dir].entry) \in DOMAIN vnodes[c.dir].entry
        /\ \A i \in DOMAIN vnodes[c.dir].entry : vnodes[c.dir].entry[i] \in DOMAIN vnodes
        /\ vnodes'[c.dir].entry = vnodes[c.dir].entry
        /\ c.idx > 0
    BY <1>3, <1>4, <1>5 DEF Firm, Grounded, SameEntry
  <1>7. Len(vnodes[c.dir].entry) \in NamedIn(vnodes', c.dir, c.name)
    BY <1>4, <1>5, <1>6 DEF NamedIn
  <1>8. \A i \in NamedIn(vnodes', c.dir, c.name) : vnodes'[c.dir].entry[i] = c.idx
    BY <1>3, <1>4, <1>6 DEF NamedIn, SameName
  <1>9. FindIn(vnodes', c.dir, c.name) = c.idx
    <2>1. NamedIn(vnodes', c.dir, c.name) # {}
      BY <1>7
    <2> QED  BY <1>3, <1>8, <2>1, FindFirst DEF Firm
  <1>10. MountedIn(vnodes', mounts', c.idx) = c.idx
    <2>1. PICK f : MountsTo(vnodes', mounts', f)
      BY MountedTo DEF Firm
    <2>2. vnodes'[c.idx].mount = 0
      BY <1>3, <1>4, <1>5 DEF SameMount
    <2> QED  BY <1>4, <1>5, <2>1, <2>2 DEF MountsTo, Top
  <1>11. LookupIn(vnodes', mounts', c.path) = Ahead(vnodes', mounts', c.dir, c.name)
    BY <1>2, <1>3, LookupLast DEF Firm, IsPath
  <1>12. Ahead(vnodes', mounts', c.dir, c.name) = c.idx
    <2>1. c.dir \in Nat /\ c.idx \in Nat
      BY <1>3, <1>5 DEF Firm, Grounded
    <2> QED  BY <1>3, <1>6, <1>9, <1>10, <2>1 DEF Ahead
  <1> QED  BY <1>6, <1>11, <1>12

LEMMA NamePath ==
    ASSUME Base, Firm, Firm', PathInv, [Next]_vars, NEW t \in Tasks, NameIt(t)
    PROVE  (fds' = fds \/ PutsFile) /\ \A u \in Tasks : GoesOn(u)
  <1>1. PICK c : c = call[t]
    OBVIOUS
  <1> DEFINE x == [vnode |-> c.idx, path |-> c.path, how |-> "created", mounts |-> c.mounts]
  <1>2. /\ c.pc = "name" /\ Goto(t, Idle) /\ Typed /\ mounts' = mounts /\ lapped' = lapped
        /\ IF c.fd = 0 THEN fds' = fds ELSE Puts(t, c.fd, x)
    BY <1>1 DEF NameIt, At, Puts, Base, TreeKept, Tree
  <1>3. \A u \in Tasks : GoesOn(u)
    BY <1>2, NextCall, PassingCalls
  <1>4. x.vnode = c.idx /\ x.path = c.path /\ x.mounts = c.mounts
    OBVIOUS
  <1> HIDE DEF x
  <1>5. ASSUME c.fd # 0 PROVE GoodFile(x)
    <2>1. IsPath(c.path) /\ c.mounts \in 0 .. Len(mounts)
      BY <1>1, <1>2, <1>5 DEF PathInv, CallGood, Creates
    <2>2. ASSUME lapped' = {} PROVE Stands(vnodes', mounts', x)
      BY <1>1, <1>4, <1>5, <2>2, NamedFound DEF Stands
    <2> QED  BY <1>2, <1>4, <2>1, <2>2 DEF GoodFile, FileGood
  <1> QED  BY <1>2, <1>3, <1>5 DEF PutsFile

-----------------------------------------------------------------------------
LEMMA CallsGoOn ==
    ASSUME Base, Firm, Firm', PathInv, [Next]_vars
    PROVE  \A u \in Tasks : GoesOn(u)
  <1>1. CASE UNCHANGED vars
    BY <1>1 DEF vars, GoesOn
  <1>2. ASSUME NEW t \in Tasks, Call(t) PROVE \A u \in Tasks : GoesOn(u)
    BY <1>2, OpenPath, MkdirPath, OtherPath DEF Call
  <1>3. ASSUME NEW t \in Tasks, Step(t) PROVE \A u \in Tasks : GoesOn(u)
    BY <1>3, CreateInPath, StorePath, NamePath, OtherPath DEF Step
  <1> QED  BY <1>1, <1>2, <1>3 DEF Next

\* syscall_close, and the copies of fork.
LEMMA ClosePath == ASSUME NEW t \in Tasks, NEW fd, Close(t, fd) PROVE PutsFile
  <1>1. Puts(t, fd, NULL) /\ GoodFile(NULL)
    BY DEF Close, Puts, GoodFile, FileGood
  <1> QED  BY <1>1 DEF PutsFile

LEMMA ForkFilePath ==
    ASSUME Base, Firm, Firm', PathInv, [Next]_vars, NEW t \in Tasks, ForkFile(t)
    PROVE  fds' = fds \/ PutsFile
  <1> DEFINE c == call[t]
             x == IF fds[t][c.fd] # NULL THEN fds[t][c.fd] ELSE fds[c.child][c.fd]
  <1>1. c.pc = "copy" /\ (fds' = fds \/ Puts(c.child, c.fd, x))
    BY DEF ForkFile, At, Puts
  <1>2. c.child \in Tasks
    BY <1>1 DEF Base, TreeKept, ForkInv, Forks
  <1>3. c.fd \in Fds => FileGood(vnodes, mounts, lapped, x)
    BY <1>2 DEF PathInv
  <1> HIDE DEF x, c
  <1>4. c.fd \in Fds => GoodFile(x)
    BY <1>3, FileStays DEF GoodFile
  <1> QED  BY <1>1, <1>2, <1>4 DEF PutsFile

LEMMA FilesGood ==
    ASSUME Base, Firm, Firm', PathInv, [Next]_vars
    PROVE  fds' = fds \/ PutsFile
  <1>1. ASSUME NEW t \in Tasks, Call(t) PROVE fds' = fds \/ PutsFile
    <2>1. CASE \/ \E p \in MountTargets, fs \in Filesystems : Mount(t, p, fs)
               \/ \E p \in ChdirPaths : Chdir(t, p)
               \/ \E child \in Tasks : Fork(t, child)
      BY <2>1 DEF Mount, Chdir, Fork
    <2> QED  BY <1>1, <2>1, OpenPath, MkdirPath, ClosePath DEF Call
  <1>2. ASSUME NEW t \in Tasks, Step(t) PROVE fds' = fds \/ PutsFile
    <2>1. CASE Attach(t) \/ EnterSetup(t) \/ Setup(t) \/ ListStart(t) \/ ListNext(t)
               \/ Fill(t) \/ ForkCwd(t)
      BY <2>1 DEF Attach, EnterSetup, Setup, ListStart, ListNext, Fill, ForkCwd
    <2> QED  BY <1>2, <2>1, CreateInPath, StorePath, NamePath, ForkFilePath DEF Step
  <1>3. CASE UNCHANGED vars
    BY <1>3 DEF vars
  <1> QED  BY <1>1, <1>2, <1>3 DEF Next

\* chdir, and the directory fork hands down.
LEMMA CwdPath ==
    ASSUME Base, PathInv, [Next]_vars
    PROVE  \A u \in Tasks : IsPath(cwd'[u])
  <1>1. Typed /\ (\A u \in Tasks : IsPath(cwd[u])) /\ cwd = [u \in Tasks |-> cwd[u]]
    BY DEF Base, TreeKept, Tree, Typed, PathInv
  <1>2. ASSUME NEW t \in Tasks, NEW p \in ChdirPaths, Chdir(t, p)
        PROVE  \A u \in Tasks : IsPath(cwd'[u])
    <2>1. cwd' = [cwd EXCEPT ![t] = AbsolutePath(p, cwd[t])]
      BY <1>2 DEF Chdir
    <2>2. \A u \in Tasks : cwd'[u] = IF u = t THEN AbsolutePath(p, cwd[t]) ELSE cwd[u]
      BY <1>1, <2>1
    <2> QED  BY <1>1, <2>2, MadePath
  <1>3. ASSUME NEW t \in Tasks, ForkCwd(t) PROVE \A u \in Tasks : IsPath(cwd'[u])
    <2>1. \A u \in Tasks : cwd'[u] = IF u = call[t].child THEN cwd[t] ELSE cwd[u]
      BY <1>1, <1>3, ForkCwdStep
    <2> QED  BY <1>1, <2>1
  <1>4. CASE cwd' = cwd
    BY <1>1, <1>4
  <1>5. ASSUME NEW t \in Tasks, Call(t) PROVE cwd' = cwd \/ \E p \in ChdirPaths : Chdir(t, p)
    BY <1>5 DEF Call, Open, Mkdir, Mount, Close, Fork
  <1>6. ASSUME NEW t \in Tasks, Step(t) PROVE cwd' = cwd \/ ForkCwd(t)
    BY <1>6 DEF Step, CreateIn, Store, NameIt, Attach, EnterSetup, Setup, ListStart, ListNext,
                Fill, ForkFile
  <1> QED  BY <1>2, <1>3, <1>4, <1>5, <1>6 DEF Next, vars

LEMMA PathNext ==
    ASSUME Base, Firm, Firm', PathInv, [Next]_vars
    PROVE  PathInv'
  <1>1. \A t \in Tasks : CallGood(vnodes', mounts', lapped', call'[t])
    <2> SUFFICES ASSUME NEW t \in Tasks PROVE CallGood(vnodes', mounts', lapped', call'[t])
      OBVIOUS
    <2>1. GoesOn(t)
      BY CallsGoOn
    <2> QED  BY <2>1, CallStays DEF GoesOn
  <1>2. \A t \in Tasks : \A fd \in Fds : FileGood(vnodes', mounts', lapped', fds[t][fd])
    BY FileStays DEF PathInv
  <1>3. \A t \in Tasks : \A fd \in Fds : FileGood(vnodes', mounts', lapped', fds'[t][fd])
    <2>1. CASE fds' = fds
      BY <1>2, <2>1
    <2>2. CASE PutsFile
      <3>1. PICK t \in Tasks : \E k, x : Puts(t, k, x) /\ (k \in Fds => GoodFile(x))
        BY <2>2 DEF PutsFile
      <3>2. PICK k, x : Puts(t, k, x) /\ (k \in Fds => GoodFile(x))
        BY <3>1
      <3>3. /\ \A u \in Tasks \ {t} : fds'[u] = fds[u]
            /\ \A fd \in Fds : fds'[t][fd] = IF fd = k THEN x ELSE fds[t][fd]
        BY <3>2, FdStep DEF Base, TreeKept, Tree
      <3> QED  BY <1>2, <3>2, <3>3 DEF GoodFile
    <2> QED  BY <2>1, <2>2, FilesGood
  <1> QED  BY <1>1, <1>3, CwdPath DEF PathInv

LEMMA InitPaths == ASSUME Init PROVE PathInv
  <1>1. \A t \in Tasks : cwd[t] = <<Slash>> /\ Passing(call[t]) /\ \A fd \in Fds : fds[t][fd] = NULL
    BY DEF Init, Passing, Idle
  <1>2. IsPath(<<Slash>>)
    <2>1. Slash \in Chars
      BY DEF Chars
    <2> QED  BY <2>1 DEF IsPath, Settled, FromRoot, Undotted
  <1> QED  BY <1>1, <1>2, PassingGood DEF PathInv, FileGood

LEMMA PathsFollow == ASSUME PathInv PROVE PathsSound
  <1>1. StaysFromRoot
    BY DEF StaysFromRoot, PathInv, IsPath, FileGood, Settled
  <1>2. OpenFilesKeepTheirNames
    BY LookupIs DEF OpenFilesKeepTheirNames, PathInv, FileGood, Stands, Nameless
  <1> QED  BY <1>1, <1>2 DEF PathsSound

\* get_absolute_path and vfs_lookup: the paths that open and chdir keep begin
\* at the root, and lead to the file that was opened by them.
THEOREM PathsAlwaysSound == Spec => []PathsSound
  <1>1. Init => Base /\ PathInv
    BY InitBase, InitPaths
  <1>2. Base /\ [Next]_vars => Base'
    BY BaseNext
  <1>3. Base => Firm
    BY BaseFirm
  <1>4. Base /\ Firm /\ Firm' /\ PathInv /\ [Next]_vars => PathInv'
    BY PathNext
  <1>5. PathInv => PathsSound
    BY PathsFollow
  <1> QED  BY <1>1, <1>2, <1>3, <1>4, <1>5, PTL DEF Spec

=============================================================================
