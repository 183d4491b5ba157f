------------------------------- MODULE ByteQueue -------------------------------
(***************************************************************************)
(* What a buffered byte stream promises: bytes leave in the order they     *)
(* came, none is lost, repeated or made up.                                *)
(***************************************************************************)
EXTENDS Integers, Sequences

VARIABLES
  queue,  \* the bytes in transit
  given,  \* every byte ever accepted
  got     \* every byte ever delivered

qvars == <<queue, given, got>>

QInit == queue = <<>> /\ given = <<>> /\ got = <<>>

\* bytes are accepted at the end
Put == LET new == SubSeq(given', Len(given) + 1, Len(given'))
       IN  given' = given \o new /\ queue' = queue \o new /\ UNCHANGED got

\* bytes are delivered from the front
Get == LET n == Len(got') - Len(got)
           q == queue
       IN  /\ n \in 1..Len(q)
           /\ got' = got \o SubSeq(q, 1, n)
           /\ queue' = SubSeq(q, n + 1, Len(q))
           /\ UNCHANGED given

QSpec == QInit /\ [][Put \/ Get]_qvars
=============================================================================
