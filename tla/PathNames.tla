----------------------------- MODULE PathNames ----------------------------
(***************************************************************************)
(* Path names as kernel/vfs.c takes them apart.  A path is the sequence of *)
(* its characters; the terminating 0 and the limit MAX_PATH_NAME of the    *)
(* buffers, which the code does not test, are left out.                    *)
(*                                                                         *)
(* A string that begins with "/" is a "/" before each of its components:   *)
(* "" has none, and "/" has one, the empty name.                           *)
(***************************************************************************)
EXTENDS Integers, Sequences, SequencesExt

CONSTANTS
    Slash,
    Dot

ASSUME PathAssumption == Slash # Dot

\* The index of the last "/", 1 if there is none: the code starts at 0 and
\* takes the first character away whatever it is.
LastSlash(p) ==
    LET last == SelectLastInSeq(p, LAMBDA c : c = Slash)
    IN  IF last = 0 THEN 1 ELSE last

Dirname(p) == SubSeq(p, 1, LastSlash(p) - 1)

Basename(p) == SubSeq(p, LastSlash(p) + 1, Len(p))

\* The names vfs_lookup walks through.  Its loop begins at pathname[1].
Components(p) ==
    IF p = <<>> THEN <<>>
    ELSE FoldLeft(LAMBDA names, c : IF c = Slash THEN Append(names, <<>>)
                                    ELSE [names EXCEPT ![Len(names)] = Append(@, c)],
                  << <<>> >>, Tail(p))

-----------------------------------------------------------------------------
(* get_absolute_path                                                       *)

\* A relative path is joined to the working directory.
Joined(path, cwd) ==
    IF path # <<>> /\ path[1] = Slash THEN path
    ELSE IF cwd = <<Slash>> THEN cwd \o path
    ELSE cwd \o <<Slash>> \o path

\* What "/.." leaves: the loop runs back over the whole buffer and ends at
\* its first "/", not at its last.
BackOne(out) ==                \* A slip: one character only.
    IF out = <<>> THEN out ELSE Front(out)

Back(out) ==
    LET first == SelectInSeq(out, LAMBDA c : c = Slash)
    IN  IF first = 0 THEN out ELSE SubSeq(out, 1, first - 1)

IsAt(p, i, c) == i \in 1 .. Len(p) /\ p[i] = c

\* One character of the loop: out is absolute_path, skip the characters that
\* i += 2 and i++ jump over.
Scan(p, acc, i) ==
    CASE acc.skip > 0 ->
            [acc EXCEPT !.skip = @ - 1]
      [] acc.skip = 0 /\ IsAt(p, i, Slash) /\ IsAt(p, i + 1, Dot) /\ IsAt(p, i + 2, Dot) ->
            [out |-> Back(acc.out), skip |-> 2]
      [] acc.skip = 0 /\ IsAt(p, i, Slash) /\ IsAt(p, i + 1, Dot) /\ ~ IsAt(p, i + 2, Dot) ->
            [out |-> acc.out, skip |-> 1]
      [] OTHER ->
            [out |-> Append(acc.out, p[i]), skip |-> 0]

AbsolutePath(path, cwd) ==
    LET p == Joined(path, cwd)
    IN  FoldLeftDomain(LAMBDA acc, i : Scan(p, acc, i), [out |-> <<>>, skip |-> 0], p).out

-----------------------------------------------------------------------------
(* What a path means: a walk from the root, one component at a time, where *)
(* "." stays and ".." goes to the parent.                                  *)

Plain(names) == SelectSeq(names, LAMBDA n : n # <<>>)

Walk(names, n) ==
    CASE n \in {<<>>, <<Dot>>} -> names
      [] n = <<Dot, Dot>> -> IF names = <<>> THEN names ELSE Front(names)
      [] OTHER -> Append(names, n)

Meaning(path, cwd) ==
    FoldLeft(Walk, IF path # <<>> /\ path[1] = Slash THEN <<>> ELSE Plain(Components(cwd)),
             IF path # <<>> /\ path[1] = Slash THEN Components(path)
             ELSE Components(<<Slash>> \o path))

\* A name of p ends before its character i.
EndsAt(p, i) == i > Len(p) \/ p[i] = Slash

\* A name of p begins with a dot at i, and is neither "." nor "..".
StrayDot(p, i) ==
    /\ p[i] = Dot /\ (i = 1 \/ p[i - 1] = Slash)
    /\ ~ EndsAt(p, i + 1)
    /\ ~ (p[i + 1] = Dot /\ EndsAt(p, i + 2))

Dotted(path) == \E i \in DOMAIN path : StrayDot(path, i)

\* How deep the walk is each time it meets "..".
Depths(path, cwd) ==
    LET all == Plain(Components(<<Slash>> \o Joined(path, cwd)))
    IN  {Len(FoldLeft(Walk, <<>>, SubSeq(all, 1, i - 1))) :
            i \in {j \in 1 .. Len(all) : all[j] = <<Dot, Dot>>}}

=============================================================================
