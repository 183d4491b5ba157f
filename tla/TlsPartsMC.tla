------------------------------ MODULE TlsPartsMC ------------------------------
(***************************************************************************)
(* Parts of donut-tls below and beside the handshake, one at a time:       *)
(* "part" says which of them runs, and the others stay as they are.  They  *)
(* are the deframer, the key schedule, the record buffers, the ticketers,  *)
(* and two connections once their handshake is over.                       *)
(***************************************************************************)
EXTENDS Ticketer, Sequences, SequencesExt, FiniteSetsExt

CONSTANTS
  Scripts, HsHeader, MaxHs, JoinMax, WireMax, ReadSize, MaxEmpty, Budget,  \* Deframer
  Confs, MaxUpdates,                                                       \* KeySchedule
  Writes, MaxFrag, Limits, IovMax, MaxRead, MaxPad, MaxPayload,            \* RecordBuffers
  Plans, WriteMax, SoftLimit, HardLimit, TicketLen, KeyUpdates      \* TlsConnection

VARIABLES
  part,
  script, feed, d, out,
  conf, c, s, c2s, s2c,
  todo, limit, ready, plain, tls, broken, wire, rx, given, got,
  plan, conn, flow, down, app

Df == INSTANCE Deframer
Ks == INSTANCE KeySchedule
Rb == INSTANCE RecordBuffers WITH Scripts <- Writes
Tc == INSTANCE TlsConnection WITH wire <- flow

-----------------------------------------------------------------------------
(* What the peer sends to the deframer *)

Sizes == {<<1>>, <<0, 2>>, <<2, 1>>}

\* the bytes of message m, and of all messages of a flight
MessageBytes(m, size) == [i \in 1..(HsHeader + size) |-> <<"m", m, i, size>>]
Flight(sizes) == FlattenSeq([m \in DOMAIN sizes |-> MessageBytes(m, sizes[m])])

\* a flight cut into three fragments, empty ones included
CutAt(bytes, i, j) == <<SubSeq(bytes, 1, i), SubSeq(bytes, i + 1, j), SubSeq(bytes, j + 1, Len(bytes))>>

Tag == <<"tag", 0, 0, 0>>
Sealed(ty, p, n) == <<<<"rec", ty, Len(p) + 1, n>>>> \o p \o <<Tag>>
Ccs == <<<<"rec", "ccs", 1, 0>>, <<"ccs", 0, 0, 0>>>>
App == <<<<"app", 0, 0, 0>>>>
CloseNotify == <<<<"close", 0, 0, 0>>>>
Early(k) == FlattenSeq([i \in 1..k |-> Sealed("app", App, -1)])

\* a flight in fragments, with records before and after it
ScriptOf(k, ccs, sizes, i, j, tail) ==
  LET frags == CutAt(Flight(sizes), i, j)
      hs == FlattenSeq([f \in 1..3 |-> Sealed("hs", frags[f], f - 1)])
      front == IF ccs THEN Ccs ELSE <<>>
      rest == FlattenSeq([t \in DOMAIN tail |->
                Sealed(IF tail[t] = App \/ tail[t] = CloseNotify THEN "app" ELSE "hs", tail[t], 2 + t)])
  IN  [feed |-> Early(k) \o front \o hs \o rest, early |-> 2 * k,
       expect |-> (IF ccs THEN <<<<Ccs[2]>>>> ELSE <<>>)
                  \o [m \in DOMAIN sizes |-> MessageBytes(m, sizes[m])]
                  \o SelectSeq(IF CloseNotify \in ToSet(tail)
                               THEN SubSeq(tail, 1, 1) ELSE tail, LAMBDA t : t # <<>>)]

\* what may follow: data, an empty handshake record and data, another message, a close
Tails == {<<>>, <<App, <<>>, App>>, <<App, MessageBytes(9, 1), App>>, <<CloseNotify, App>>}

MCScripts ==
  {ScriptOf(p.k, p.ccs, p.sizes, p.i, p.j, p.tail) :
     p \in {q \in [k : 0..1, ccs : BOOLEAN, sizes : Sizes, i : 0..7, j : 0..7, tail : Tails] :
             /\ q.i <= q.j /\ q.j <= Len(Flight(q.sizes))
             /\ q.k = 1 \/ q.ccs => q.tail = <<>> /\ (q.k = 0 \/ ~q.ccs)}}

-----------------------------------------------------------------------------
(* What the two ends of a key schedule agree on, and what is written *)

\* early data needs a PSK, and is accepted only on the session's own suite
MCConfs ==
  {k \in [quic : BOOLEAN, ver : {"V1", "V2"}, psk : BOOLEAN, early : BOOLEAN, sess : {"A"},
          suite : {"A", "B", "X"}, resumes : BOOLEAN, ack : BOOLEAN, ech : BOOLEAN] :
     /\ k.early => k.psk
     /\ k.resumes => k.psk /\ k.suite # "X"
     /\ k.ack => k.early /\ k.resumes /\ k.suite = k.sess
     /\ k.ver = "V2" => k.quic
     /\ k.ech => ~k.quic /\ k.suite = "B"}

\* slices of different lengths with zeros at the ends of the fragments, and an empty slice
MCWrites == { <<>>,
              << <<<<1, 0>>, <<>>, <<0, 2>>>> >>,
              << <<<<1>>, <<0, 0>>>>, <<<<4>>>> >>,
              << <<<<1, 2, 0>>>> >> }
MCLimits == {None, 2, 3}

-----------------------------------------------------------------------------
(* What two connected ends do *)

Plain == [ver |-> 13, unbuffered |-> FALSE, frag |-> 2, late |-> {}, kernel |-> FALSE, chunk |-> 1,
          limit |-> 4, total |-> [c |-> 4, s |-> 1], refresh |-> {}, cut |-> {}]

\* what each plan is for: key updates that cross, with room behind an answer and without,
\* a used-up key, fragmented writes and tickets, the end of the stream, a used-up key of
\* TLS 1.2, the kernel
MCPlans ==
  {[Plain EXCEPT !.refresh = {"c", "s"}, !.unbuffered = u, !.total.c = 1] : u \in BOOLEAN}
  \union {[Plain EXCEPT !.refresh = {"s"}, !.unbuffered = l = 4, !.limit = l, !.total.c = 2] :
            l \in {2, 4}}
  \union {[Plain EXCEPT !.unbuffered = u, !.total = [c |-> 4, s |-> 0]] : u \in BOOLEAN}
  \union {[Plain EXCEPT !.frag = 1, !.chunk = 3, !.late = {"s"}, !.unbuffered = u, !.limit = 2,
                        !.total = [c |-> 3, s |-> n]] : u \in BOOLEAN, n \in {0, 2}}
  \union {[Plain EXCEPT !.cut = {e}, !.unbuffered = e = "c", !.total = [c |-> 2, s |-> 1]] :
            e \in {"c", "s"}}
  \union {[Plain EXCEPT !.ver = 12, !.cut = {"s"}, !.unbuffered = u, !.total = [c |-> 5, s |-> 0]] :
            u \in BOOLEAN}
  \union {[Plain EXCEPT !.unbuffered = TRUE, !.kernel = TRUE, !.total.c = 1, !.refresh = {"s"}]}

-----------------------------------------------------------------------------
Some(S) == CHOOSE x \in S : TRUE

dfVars == <<script, feed, d, out>>
ksVars == <<conf, c, s, c2s, s2c>>
rbVars == <<todo, limit, ready, plain, tls, broken, wire, rx, given, got>>
tcVars == <<plan, conn, flow, down, app>>

PartsInit ==
  /\ part \in {"deframer", "tickets", "keys", "buffers", "connection"}
  /\ IF part = "deframer" THEN Df!Init ELSE script = None /\ feed = None /\ d = None /\ out = None
  /\ kind \in (IF part = "tickets" THEN Kinds ELSE {Some(Kinds)}) /\ Init
  /\ conf \in (IF part = "keys" THEN Confs ELSE {Some(Confs)}) /\ Ks!Init
  /\ todo \in (IF part = "buffers" THEN Writes ELSE {<<>>})
  /\ limit \in (IF part = "buffers" THEN Limits ELSE {None})
  /\ ready \in (IF part = "buffers" THEN BOOLEAN ELSE {FALSE}) /\ Rb!Init
  /\ plan \in (IF part = "connection" THEN Plans ELSE {Some(Plans)}) /\ Tc!Init

PartsNext ==
  \/ part = "deframer" /\ Df!Next /\ UNCHANGED <<part, vars, ksVars, rbVars, tcVars>>
  \/ part = "tickets" /\ Next /\ UNCHANGED <<part, dfVars, ksVars, rbVars, tcVars>>
  \/ part = "keys" /\ Ks!Next /\ UNCHANGED <<part, dfVars, vars, rbVars, tcVars>>
  \/ part = "buffers" /\ Rb!Next /\ UNCHANGED <<part, dfVars, vars, ksVars, tcVars>>
  \/ part = "connection" /\ Tc!Next /\ UNCHANGED <<part, dfVars, vars, ksVars, rbVars>>
  \* the clock of the ticketers and the writes of a connection are bounded, so these may stop
  \/ part \in {"tickets", "connection"} /\ UNCHANGED <<part, dfVars, vars, ksVars, rbVars, tcVars>>

PartsSpec ==
  /\ PartsInit /\ [][PartsNext]_<<part, dfVars, vars, ksVars, rbVars, tcVars>>
  /\ \A e \in Tc!Ends : WF_tcVars(part = "connection" /\ Tc!Moves(e))

-----------------------------------------------------------------------------
(* The properties of the parts, stated and explained in their modules *)

\* Deframer: what is processed is what was sent, in order and once.
DeliveredExactly == part = "deframer" => Df!DeliveredExactly
\* KeySchedule: uses and keys determine each other.
OneKeyPerUse == part = "keys" => Ks!OneKeyPerUse
\* RecordBuffers: from the application to the application there is one queue of bytes.
OneByteQueue == Rb!OneByteQueue
\* TlsConnection: every record is one its peer understands.
PeersUnderstand == part = "connection" => Tc!PeersUnderstand
\* TlsConnection: what is written is read in the end.
WrittenIsRead == Tc!WrittenIsRead
=============================================================================
