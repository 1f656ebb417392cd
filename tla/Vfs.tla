-------------------------------- MODULE Vfs --------------------------------
(***************************************************************************)
(* The name space of lab 7's files: kernel/vfs.c over tmpfs.c and          *)
(* initramfs.c, and the system calls of kernel/syscall.c that use it.      *)
(* System calls run with interrupts enabled, so a call is cut into steps   *)
(* wherever it leaves the shared tree half changed or acts on what it has  *)
(* read before.  A walk along a path is one step: entries are only added.  *)
(*                                                                         *)
(* A vnode and its inode are one record.  What files hold is FileIO's.     *)
(***************************************************************************)
EXTENDS FiniteSets, FiniteSetsExt, PathNames

CONSTANTS
    Tasks,
    FirstTask,      \* the task that is there at the start
    MAX_DIR_ENTRY,
    MAX_FD,
    InitramfsName,  \* the name "initramfs"
    Archive,        \* the names of the archive's files, in its order
    OpenPaths, MkdirPaths, MountTargets, ChdirPaths,    \* arguments of calls
    Filesystems,    \* the file systems that are mounted
    Creat,          \* whether open is given O_CREAT: a set of answers
    MaxVnodes,      \* bounds the vnodes, which the code never frees
    MaxMounts,      \* bounds the mounts
    MaxCwd          \* bounds the length of working directories

ASSUME VfsAssumption ==
    /\ FirstTask \in Tasks
    /\ MAX_DIR_ENTRY \in Nat \ {0} /\ MAX_FD \in Nat \ {0}
    /\ Archive \in Seq(ToSet(Archive)) /\ Len(Archive) <= MAX_DIR_ENTRY
    /\ Filesystems \subseteq {"tmpfs", "initramfs"}
    /\ \A p \in OpenPaths \cup ChdirPaths : p \in Seq(ToSet(p))

VARIABLES
    vnodes,     \* all vnodes ever made; a vnode is its index
    mounts,     \* the struct mounts: their root, 0 before setup_mount
    files,      \* file_list of cpio.c, one buffer for all callers
    fds,        \* fdtable: each open file's vnode and, as history, its path
    cwd,
    call,       \* where each task is in its system call
    lapped,     \* history: vnodes at which two calls overlapped
    hasty       \* history: children of a fork that something cut in on

vars == <<vnodes, mounts, files, fds, cwd, call, lapped, hasty>>

Absent == 0     \* lookup's -1
Wild == -1      \* what is reached through a pointer that is none
Past == -2      \* a search that ends beyond the array of entries

Root == 1       \* rootfs->root
IsVnode(v) == v \in DOMAIN vnodes
Fds == 1 .. MAX_FD

NewVnode(fs, type, name) ==
    [fs |-> fs, type |-> type, name |-> name, entry |-> <<>>, mount |-> 0]

NULL == [vnode |-> 0]
Idle == [pc |-> "user"]

\* init_rootfs: tmpfs at the root, the archive on /initramfs.
Init ==
    /\ vnodes = << [NewVnode("tmpfs", "DIR", <<>>) EXCEPT !.entry = <<2>>],
                   [NewVnode("tmpfs", "DIR", InitramfsName) EXCEPT !.mount = 1],
                   [NewVnode("initramfs", "DIR", <<>>) EXCEPT
                        !.entry = [i \in DOMAIN Archive |-> i + 3]] >>
                \o [i \in DOMAIN Archive |-> NewVnode("initramfs", "FILE", Archive[i])]
    /\ mounts = <<3>>
    /\ files = Archive
    /\ fds = [t \in Tasks |-> [fd \in Fds |-> NULL]]
    /\ cwd = [t \in Tasks |-> <<Slash>>]
    /\ call = [t \in Tasks |-> IF t = FirstTask THEN Idle ELSE [pc |-> "unborn"]]
    /\ lapped = {}
    /\ hasty = {}

-----------------------------------------------------------------------------
(* Lookup                                                                  *)

\* while (dirnode->mount) dirnode = dirnode->mount->root
Mounted(v) ==
    LET top[n \in DOMAIN vnodes] ==
            CASE vnodes[n].mount = 0 -> n
              [] vnodes[n].mount # 0 /\ mounts[vnodes[n].mount] = 0 -> Wild
              [] OTHER -> top[mounts[vnodes[n].mount]]
    IN  top[v]

Named(d, name) == {i \in DOMAIN vnodes[d].entry : vnodes[vnodes[d].entry[i]].name = name}

Full(d) == vnodes[d].fs = "tmpfs" /\ Len(vnodes[d].entry) = MAX_DIR_ENTRY

\* tmpfs's loop goes one entry too far: past the last entry lies the data
\* pointer, which it takes for a vnode.  initramfs's does not.
Find(d, name) ==
    CASE Named(d, name) # {} -> vnodes[d].entry[Min(Named(d, name))]
      [] Named(d, name) = {} /\ Full(d) -> Past
      [] OTHER -> Absent

Lookup(p) ==
    FoldLeft(LAMBDA v, name :
                IF v <= 0 THEN v
                ELSE IF Find(v, name) <= 0 THEN Find(v, name)
                ELSE Mounted(Find(v, name)),
             Root, Components(p))

\* What a search past the entries comes to depends on what the data holds.
Ends(v) == IF v = Past THEN {Absent, Wild} ELSE {v}

-----------------------------------------------------------------------------
(* open and mkdir                                                          *)

\* A wild pointer may end everything.
Running == \A t \in Tasks : call[t].pc # "wild"

At(t, pc) == Running /\ call[t].pc = pc

Goto(t, c) == call' = [call EXCEPT ![t] = c]

GoWild(t) == Goto(t, [pc |-> "wild"])

\* A task whose parent is still copying its files to it.
Awaits(t) == \E p \in Tasks : call[p].pc \in {"fork", "copy"} /\ call[p].child = t

\* It uses its own directory or files ...
Acts(t) == hasty' = IF Awaits(t) THEN hasty \cup {t} ELSE hasty

\* ... or gives them to a child of its own.
PassesOn(t, child) == hasty' = IF Awaits(t) THEN hasty \cup {child} ELSE hasty

Adders == {t \in Tasks : call[t].pc \in {"parent", "store", "attach", "setup"}}

Room == Len(vnodes) + Cardinality(Adders) < MaxVnodes

FreeFds(t) == {fd \in Fds : fds[t][fd] = NULL}

\* The file is filled in and its descriptor returned; how says by which way.
Opened(t, path, fd, v, how) ==
    /\ fds' = [fds EXCEPT ![t][fd] =
                [vnode |-> v, path |-> path, how |-> how, mounts |-> Len(mounts)]]
    /\ Goto(t, Idle)

\* syscall_open takes the first free descriptor.  Without O_CREAT vfs_open
\* goes on when the lookup failed, with a pointer that was never set.
Open(t, p, creat) ==
    /\ At(t, "user") /\ FreeFds(t) # {}
    /\ LET path == AbsolutePath(p, cwd[t])
           fd == Min(FreeFds(t))
       IN  \E v \in Ends(Lookup(path)) :
            \/ /\ IsVnode(v)
               /\ Opened(t, path, fd, v, "found")
            \/ /\ v = Absent /\ creat /\ Room
               /\ Goto(t, [pc |-> "parent", path |-> path, fd |-> fd])
               /\ UNCHANGED fds
            \/ /\ v = Absent /\ ~ creat
               /\ Opened(t, path, fd, Wild, "unset")
            \/ /\ v = Wild \/ (v = Absent /\ ~ creat)
               /\ GoWild(t) /\ UNCHANGED fds
    /\ Acts(t)
    /\ UNCHANGED <<vnodes, mounts, files, cwd, lapped>>

\* A slip: the index of the last entry.
LastSlot(d) == Max({1, Len(vnodes[d].entry)})

\* The first empty entry.
Slot(d) == Len(vnodes[d].entry) + 1

\* Tasks that are about to add to directory d, or have added an entry that
\* has no name yet.
Adding(d) == {t \in Tasks : call[t].pc \in {"store", "name"} /\ call[t].dir = d}

AddTo(t, d, name, type, path, fd) ==
    /\ Goto(t, [pc |-> "store", dir |-> d, idx |-> Slot(d), name |-> name,
                type |-> type, path |-> path, fd |-> fd, mounts |-> Len(mounts)])
    /\ lapped' = IF Adding(d) = {} THEN lapped ELSE lapped \cup {d}

IsDir(d) == vnodes[d].fs = "tmpfs" /\ vnodes[d].type = "DIR"

\* A slip: create does not compare names.
MayCreateAgain(d, name) == IsDir(d) /\ ~ Full(d)

\* initramfs_create, and tmpfs_create in a file, return -1.
MayCreate(d, name) == IsDir(d) /\ ~ Full(d) /\ Named(d, name) = {}

\* vfs_open does not look at what create returns: node is then still the
\* directory, which is opened in place of the file.
CreateIn(t) ==
    /\ At(t, "parent")
    /\ LET c == call[t]
           name == Basename(c.path)
       IN  \E d \in Ends(Lookup(Dirname(c.path))) :
            \/ /\ d = Absent
               /\ Goto(t, Idle) /\ UNCHANGED <<fds, lapped>>
            \/ /\ IsVnode(d) /\ ~ MayCreate(d, name)
               /\ Opened(t, c.path, c.fd, d, "refused") /\ UNCHANGED lapped
            \/ /\ IsVnode(d) /\ MayCreate(d, name)
               /\ AddTo(t, d, name, "FILE", c.path, c.fd) /\ UNCHANGED fds
            \/ /\ d = Wild \/ (IsVnode(d) /\ IsDir(d) /\ Full(d) /\ Named(d, name) = {})
               /\ GoWild(t) /\ UNCHANGED <<fds, lapped>>
    /\ Acts(t)
    /\ UNCHANGED <<vnodes, mounts, files, cwd>>

\* vfs_mkdir does not look at what mkdir returns either, and mkdir does not
\* look at names: a refused mkdir changes nothing and returns 0.
Mkdir(t, p) ==
    /\ At(t, "user")
    /\ LET path == AbsolutePath(p, cwd[t])
       IN  \E d \in Ends(Lookup(Dirname(path))) :
            \/ /\ IsVnode(d) /\ IsDir(d) /\ ~ Full(d) /\ Room
               /\ AddTo(t, d, Basename(path), "DIR", path, 0)
            \/ /\ d = Wild
               /\ GoWild(t) /\ UNCHANGED lapped
    /\ UNCHANGED <<vnodes, mounts, files, fds, cwd, hasty>>

\* i->entry[idx] = tmpfs_create_vnode(...)
Store(t) ==
    /\ At(t, "store")
    /\ LET c == call[t] v == Len(vnodes) + 1 IN
        /\ vnodes' = Append([vnodes EXCEPT ![c.dir].entry =
                                IF c.idx > Len(@) THEN Append(@, v) ELSE [@ EXCEPT ![c.idx] = v]],
                            NewVnode("tmpfs", c.type, <<>>))
        /\ Goto(t, [c EXCEPT !.pc = "name", !.idx = v])
    /\ UNCHANGED <<mounts, files, fds, cwd, lapped, hasty>>

\* strcpy(new_i->name, component_name)
NameIt(t) ==
    /\ At(t, "name")
    /\ LET c == call[t] IN
        /\ vnodes' = [vnodes EXCEPT ![c.idx].name = c.name]
        /\ IF c.fd = 0
           THEN Goto(t, Idle) /\ UNCHANGED fds
           ELSE /\ fds' = [fds EXCEPT ![t][c.fd] =
                        [vnode |-> c.idx, path |-> c.path, how |-> "created", mounts |-> c.mounts]]
                /\ Goto(t, Idle)
    /\ Acts(t)
    /\ UNCHANGED <<mounts, files, cwd, lapped>>

-----------------------------------------------------------------------------
(* mount                                                                   *)

\* vfs_mount looks the target up as it is given, without the working
\* directory.
Mount(t, target, fs) ==
    /\ At(t, "user")
    /\ Len(mounts) + Cardinality({u \in Tasks : call[u].pc = "attach"}) < MaxMounts
    /\ \E v \in Ends(Lookup(target)) :
        \/ IsVnode(v) /\ Goto(t, [pc |-> "attach", dir |-> v, fs |-> fs])
        \/ v = Wild /\ GoWild(t)
    /\ UNCHANGED <<vnodes, mounts, files, fds, cwd, lapped, hasty>>

\* node->mount = allocate(...): its root is not set yet.
Attach(t) ==
    /\ At(t, "attach")
    /\ LET v == call[t].dir IN
        /\ mounts' = Append(mounts, 0)
        /\ vnodes' = [vnodes EXCEPT ![v].mount = Len(mounts')]
        /\ lapped' = IF vnodes[v].mount = 0 THEN lapped ELSE lapped \cup {v}
        /\ Goto(t, [call[t] EXCEPT !.pc = "enter"])
    /\ UNCHANGED <<files, fds, cwd, hasty>>

\* setup_mount(fs, node->mount)
EnterSetup(t) ==
    /\ At(t, "enter")
    /\ Goto(t, [pc |-> "setup", mount |-> vnodes[call[t].dir].mount, fs |-> call[t].fs])
    /\ UNCHANGED <<vnodes, mounts, files, fds, cwd, lapped, hasty>>

\* mount->root = ..._create_vnode(0, DIR)
Setup(t) ==
    /\ At(t, "setup")
    /\ LET c == call[t] root == Len(vnodes) + 1 IN
        /\ vnodes' = Append(vnodes, NewVnode(c.fs, "DIR", <<>>))
        /\ mounts' = [mounts EXCEPT ![c.mount] = root]
        /\ Goto(t, IF c.fs = "tmpfs" THEN Idle ELSE [pc |-> "list", dir |-> root])
    /\ UNCHANGED <<files, fds, cwd, lapped, hasty>>

\* Tasks between the start of ramfs_get_filelist and the end of its use.
Listing == {t \in Tasks : call[t].pc \in {"scan", "fill"}}

\* ramfs_get_filelist: file_count = 0, then one entry for each file.
ListStart(t) ==
    /\ At(t, "list")
    /\ files' = <<>>
    /\ lapped' = IF Listing = {} THEN lapped
                 ELSE lapped \cup {call[u].dir : u \in Listing \cup {t}}
    /\ Goto(t, [pc |-> "scan", dir |-> call[t].dir, idx |-> 1])
    /\ UNCHANGED <<vnodes, mounts, fds, cwd, hasty>>

ListNext(t) ==
    /\ At(t, "scan")
    /\ \/ /\ call[t].idx <= Len(Archive)
          /\ files' = Append(files, Archive[call[t].idx])
          /\ Goto(t, [call[t] EXCEPT !.idx = @ + 1])
       \/ /\ call[t].idx > Len(Archive)
          /\ Goto(t, [call[t] EXCEPT !.pc = "fill", !.idx = 1])
          /\ UNCHANGED files
    /\ UNCHANGED <<vnodes, mounts, fds, cwd, lapped, hasty>>

\* A slip: one file less.
FilesButOne == Len(files) - 1

FileCount == Len(files)

\* The loop of initramfs_mount, which does not look at MAX_DIR_ENTRY.
Fill(t) ==
    /\ At(t, "fill")
    /\ LET c == call[t] v == Len(vnodes) + 1 IN
        \/ /\ c.idx > FileCount
           /\ Goto(t, Idle) /\ UNCHANGED vnodes
        \/ /\ c.idx <= FileCount /\ c.idx > MAX_DIR_ENTRY
           /\ GoWild(t) /\ UNCHANGED vnodes
        \/ /\ c.idx <= FileCount /\ c.idx <= MAX_DIR_ENTRY
           /\ vnodes' = Append([vnodes EXCEPT ![c.dir].entry = Append(@, v)],
                               NewVnode("initramfs", "FILE", files[c.idx]))
           /\ Goto(t, [c EXCEPT !.idx = @ + 1])
    /\ UNCHANGED <<mounts, files, fds, cwd, lapped, hasty>>

-----------------------------------------------------------------------------
(* chdir, close and fork                                                   *)

Chdir(t, p) ==
    /\ At(t, "user")
    /\ cwd' = [cwd EXCEPT ![t] = AbsolutePath(p, @)]
    /\ Len(cwd'[t]) <= MaxCwd
    /\ Acts(t)
    /\ UNCHANGED <<vnodes, mounts, files, fds, call, lapped>>

Close(t, fd) ==
    /\ At(t, "user") /\ fds[t][fd] # NULL
    /\ fds' = [fds EXCEPT ![t][fd] = NULL]
    /\ Acts(t)
    /\ UNCHANGED <<vnodes, mounts, files, cwd, call, lapped>>

\* syscall_fork: thread_create puts the child on the ring with "/" and no
\* files; its parent's are copied later, one by one.
Fork(t, child) ==
    /\ At(t, "user") /\ call[child].pc = "unborn"
    /\ call' = [call EXCEPT ![t] = [pc |-> "fork", child |-> child], ![child] = Idle]
    /\ PassesOn(t, child)
    /\ UNCHANGED <<vnodes, mounts, files, fds, cwd, lapped>>

ForkCwd(t) ==
    /\ At(t, "fork")
    /\ cwd' = [cwd EXCEPT ![call[t].child] = cwd[t]]
    /\ Goto(t, [pc |-> "copy", child |-> call[t].child, fd |-> 1])
    /\ UNCHANGED <<vnodes, mounts, files, fds, lapped, hasty>>

\* A slip: the last descriptor is left out.
LastFdButOne == MAX_FD - 1

LastFd == MAX_FD

\* if (parent->fdtable.fds[i]) the child is given a copy of the file.
ForkFile(t) ==
    /\ At(t, "copy")
    /\ LET c == call[t] IN
        \/ /\ c.fd > LastFd
           /\ Goto(t, Idle) /\ UNCHANGED fds
        \/ /\ c.fd <= LastFd
           /\ fds' = [fds EXCEPT ![c.child][c.fd] = IF fds[t][c.fd] # NULL THEN fds[t][c.fd] ELSE @]
           /\ Goto(t, [c EXCEPT !.fd = @ + 1])
    /\ UNCHANGED <<vnodes, mounts, files, cwd, lapped, hasty>>

-----------------------------------------------------------------------------
Call(t) ==
    \/ \E p \in OpenPaths, creat \in Creat : Open(t, p, creat)
    \/ \E p \in MkdirPaths : Mkdir(t, p)
    \/ \E p \in MountTargets, fs \in Filesystems : Mount(t, p, fs)
    \/ \E p \in ChdirPaths : Chdir(t, p)
    \/ \E fd \in Fds : Close(t, fd)
    \/ \E child \in Tasks : Fork(t, child)

\* The rest of a call.
Step(t) ==
    \/ CreateIn(t) \/ Store(t) \/ NameIt(t)
    \/ Attach(t) \/ EnterSetup(t) \/ Setup(t) \/ ListStart(t) \/ ListNext(t) \/ Fill(t)
    \/ ForkCwd(t) \/ ForkFile(t)

Next == \E t \in Tasks : Call(t) \/ Step(t)

Spec == Init /\ [][Next]_vars

-----------------------------------------------------------------------------
TypeOK ==
    /\ \A v \in DOMAIN vnodes :
        /\ vnodes[v].fs \in {"tmpfs", "initramfs"} /\ vnodes[v].type \in {"DIR", "FILE"}
        /\ ToSet(vnodes[v].entry) \subseteq DOMAIN vnodes
        /\ Len(vnodes[v].entry) <= MAX_DIR_ENTRY
        /\ vnodes[v].type = "FILE" => vnodes[v].entry = <<>>
        /\ vnodes[v].mount \in 0 .. Len(mounts)
    /\ \A m \in DOMAIN mounts : mounts[m] \in 0 .. Len(vnodes)
    /\ \A t \in Tasks, fd \in Fds : fds[t][fd].vnode \in -1 .. Len(vnodes)
    /\ lapped \subseteq DOMAIN vnodes /\ hasty \subseteq Tasks

(* The file behind a descriptor is the one its path names, as long as no   *)
(* file system was mounted since and no two calls overlapped in a          *)
(* directory.  Paths with an empty name are left out: while a file waits   *)
(* for its name, "/" names it.                                             *)
OpenFilesKeepTheirNames ==
    lapped = {} =>
        \A t \in Tasks, fd \in Fds :
            LET f == fds[t][fd] IN
            f # NULL => \/ f.how \in {"unset", "refused"}
                        \/ f.mounts < Len(mounts)
                        \/ <<>> \in ToSet(Components(f.path))
                        \/ Lookup(f.path) = f.vnode

\* The files of a directory that have their names.
NamedFiles(d) ==
    {i \in DOMAIN vnodes[d].entry :
        /\ vnodes[vnodes[d].entry[i]].type = "FILE"
        /\ \A t \in Tasks : call[t].pc = "name" => call[t].idx # vnodes[d].entry[i]}

(* A directory of tmpfs has one file of a name: create looks for the name  *)
(* first, but another create may be between its search and its strcpy.     *)
NoTwoFilesOneName ==
    \A d \in DOMAIN vnodes \ lapped :
        vnodes[d].fs = "tmpfs" =>
            \A i, j \in NamedFiles(d) :
                i # j => vnodes[vnodes[d].entry[i]].name # vnodes[vnodes[d].entry[j]].name

\* v is an entry of u, or the root of what is mounted on u.
Leads(u, v) ==
    \/ v \in ToSet(vnodes[u].entry)
    \/ vnodes[u].mount # 0 /\ mounts[vnodes[u].mount] = v

(* No file or directory is lost: one that is not the root is found from an *)
(* older one, and so from the root.  An entry is overwritten, and a mount  *)
(* replaced, only where two calls overlapped.                              *)
NothingLost ==
    lapped = {} => \A v \in DOMAIN vnodes \ {Root} : \E u \in 1 .. v - 1 : Leads(u, v)

(* A mounted archive shows the files of the archive, once each and in its  *)
(* order, unless another mount read the shared list again meanwhile.       *)
ArchiveComplete ==
    \A d \in DOMAIN vnodes \ lapped :
        (/\ vnodes[d].fs = "initramfs" /\ vnodes[d].type = "DIR"
         /\ \A t \in Tasks : call[t].pc \in {"list", "scan", "fill"} => call[t].dir # d)
        => [i \in DOMAIN vnodes[d].entry |-> vnodes[vnodes[d].entry[i]].name] = Archive

(* A child starts with its parent's directory and files, unless it used    *)
(* its own before fork had copied them, or its parent had yet to get some  *)
(* of them when it forked.                                                 *)
ChildInherits ==
    [][\A t \in Tasks :
        call[t].pc = "copy" /\ call'[t].pc = "user" /\ call[t].child \notin hasty
        => cwd[call[t].child] = cwd[t] /\ fds[call[t].child] = fds[t]]_vars

\* "" or "/...", what vfs_lookup takes to begin at the root.
FromRoot(p) == p = <<>> \/ p[1] = Slash

NoDotted == \A p \in OpenPaths \cup ChdirPaths : ~ Dotted(p)

(* What open and chdir keep is a path from the root, whatever "..", "/"    *)
(* and relative names led to it: vfs_lookup drops the first character      *)
(* without a look at it.  Names that begin with a dot are left out: of     *)
(* "/.a" get_absolute_path makes "a".                                      *)
StaysFromRoot ==
    NoDotted =>
        \A t \in Tasks :
            /\ FromRoot(cwd[t])
            /\ \A fd \in Fds : fds[t][fd] # NULL => FromRoot(fds[t][fd].path)

(* The tree is sound, and every file in it is found, unless calls          *)
(* overlapped in a directory.                                              *)
TreeSound == TypeOK /\ NothingLost

(* The paths that are kept are sound: they begin at the root, and lead to  *)
(* the file that was opened by them.                                       *)
PathsSound == StaysFromRoot /\ OpenFilesKeepTheirNames

=============================================================================
