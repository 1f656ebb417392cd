------------------------------ MODULE ByteFile ------------------------------
(***************************************************************************)
(* What a file promises its readers and writers: one sequence of bytes,    *)
(* and for each descriptor a position in it.  A write replaces or extends  *)
(* the bytes at the position, a read returns the bytes that follow it, and *)
(* both move it by what they did.                                          *)
(***************************************************************************)
EXTENDS Integers, Sequences

CONSTANTS Descriptors, Bytes, Counts

VARIABLES
    content,
    pos,        \* each descriptor's position, -1 when it is closed
    out         \* what the last call returned

Closed == -1

Smaller(m, n) == IF m < n THEN m ELSE n

Init ==
    /\ content = <<>>
    /\ pos = [d \in Descriptors |-> Closed]
    /\ out = <<>>

Open(d) ==
    /\ pos[d] = Closed
    /\ pos' = [pos EXCEPT ![d] = 0] /\ out' = <<>>
    /\ UNCHANGED content

Close(d) ==
    /\ pos[d] # Closed
    /\ pos' = [pos EXCEPT ![d] = Closed] /\ out' = <<>>
    /\ UNCHANGED content

Write(d, b, n) ==
    /\ pos[d] # Closed
    /\ content' = [i \in 1 .. IF pos[d] + n > Len(content) THEN pos[d] + n ELSE Len(content) |->
                    IF i \in pos[d] + 1 .. pos[d] + n THEN b ELSE content[i]]
    /\ pos' = [pos EXCEPT ![d] = @ + n]
    /\ out' = <<>>

Read(d, n) ==
    /\ pos[d] # Closed
    /\ LET upto == Smaller(pos[d] + n, Len(content)) IN
        /\ out' = SubSeq(content, pos[d] + 1, upto)
        /\ pos' = [pos EXCEPT ![d] = upto]
    /\ UNCHANGED content

Seek(d, p) ==
    /\ pos[d] # Closed /\ p <= Len(content)
    /\ pos' = [pos EXCEPT ![d] = p]
    /\ out' = <<>>
    /\ UNCHANGED content

Next ==
    \E d \in Descriptors :
        \/ Open(d) \/ Close(d)
        \/ \E n \in Counts : Read(d, n) \/ \E b \in Bytes : Write(d, b, n)
        \/ \E p \in 0 .. Len(content) : Seek(d, p)

vars == <<content, pos, out>>

Spec == Init /\ [][Next]_vars

=============================================================================
