----------------------------- MODULE ByteQueue ------------------------------
(***************************************************************************)
(* What a Buffer promises: the bytes put in come out, in order, none lost    *)
(* and none changed, however its memory is laid out.                         *)
(***************************************************************************)
EXTENDS Integers, Sequences

CONSTANT Chunks      \* the byte strings that may be put in

VARIABLES
    content,         \* the bytes in the queue, oldest first
    result           \* the byte string put in or given out last

vars == <<content, result>>

Init ==
    /\ content = <<>>
    /\ result = <<"out", <<>>>>

First(n) == SubSeq(content, 1, n)
AllBut(n) == SubSeq(content, n + 1, Len(content))

Put(d) ==
    /\ content' = content \o d
    /\ result' = <<"in", d>>

\* The oldest n bytes are dropped.
Drop(n) ==
    /\ content' = AllBut(n)
    /\ UNCHANGED result

\* They are given out, and dropped ...
Take(n) ==
    /\ result' = <<"out", First(n)>>
    /\ content' = AllBut(n)

\* ... or kept.
Copy(n) ==
    /\ result' = <<"out", First(n)>>
    /\ UNCHANGED content

Next ==
    \/ \E d \in Chunks : Put(d)
    \/ \E n \in 0 .. Len(content) : Drop(n) \/ Take(n) \/ Copy(n)

Spec == Init /\ [][Next]_vars

=============================================================================
