------------------------------- MODULE MCVfs -------------------------------
(* Small trees: paths of one-character names, written "/i/k" in the README *)
(* and here as their sequences of characters.                              *)
EXTENDS Vfs

CONSTANTS t1, t2

MCTasks == {t1, t2}
OneFile == << <<"k">> >>
TwoFiles == << <<"k">>, <<"l">> >>
InitramfsIs == <<"i">>

OpenNames == {<<"a">>, <<"/", "a", "/", "b">>}
OpenMissing == {<<"a">>}
MkdirNames == {<<"/", "d">>}
MkdirMounted == {<<"/", "i", "/", "x">>}
ChdirNames == {<<"/", "d">>, <<".", ".">>}
Targets == {<<"/", "i">>}

Inputs == UNION {[1 .. n -> {Slash, Dot, "a"}] : n \in 1 .. 5}

\* The tree plays no part in get_absolute_path: the paths are tried while it
\* is as it was at the start.
Untouched == Len(vnodes) = Len(Archive) + 3 /\ Len(mounts) = 1

(* get_absolute_path gives the directory its argument means, seen from the *)
(* working directory, unless a name begins with a dot or ".." is met more  *)
(* than one level below the root: then it loses part of a name or goes to  *)
(* the root.                                                               *)
ResolvesShallow ==
    Untouched /\ (\A t \in Tasks : call[t] # Idle => call[t].pc = "unborn") =>
        \A dir \in {cwd[t] : t \in Tasks}, p \in Inputs :
            ~ Dotted(p) /\ (\A d \in Depths(p, dir) : d <= 1)
            => Plain(Components(AbsolutePath(p, dir))) = Meaning(p, dir)

=============================================================================
