---------------------------- MODULE SessionProofs ----------------------------
(***************************************************************************)
(* Session for every peer and every configuration: what the far side and   *)
(* the peer of a connection are given, and what the gauges count.          *)
(***************************************************************************)
EXTENDS Session, SequenceTheorems, TLAPS

-----------------------------------------------------------------------------
(* A connection and its inductive invariant *)

Places == {"triage", "tls", "first", "carried", "request", "decoy", "dial", "respond", "record",
           "relay", "over"}
Early == {"triage", "tls", "first", "carried"}
OutcomesAndKinds == Outcomes \cup Kinds
Known == script.hello \in {"peer", "stall"}
Answer == Greeting \o <<"resp">>
Answers == {Answer, Greeting \o <<"resp", "r">>}

ServerTypeOK ==
  /\ pc \in Places /\ to \in {"none", "decoy", "target"} /\ script.cmd \in Kinds
  /\ sent \in 0..Len(Stream) /\ taken \in 0..sent
  /\ users \subseteq {"u"} /\ (revoked => users = {})
  /\ guards \in [Kinds -> Nat] /\ count \in [OutcomesAndKinds -> Nat]

\* Where the bytes are that the server has read: nowhere yet, in the buffer, or passed on.
UpInv ==
  /\ pc \in Early => taken = 0 /\ buf = <<>>
  /\ pc \in {"request", "decoy"} => buf = SubSeq(Stream, 1, taken)
  /\ pc \in {"dial", "respond", "record"} => taken >= 2 /\ buf = SubSeq(Stream, 3, taken)
  /\ pc \notin {"relay", "over"} => up = <<>>
  /\ pc = "relay" => buf = <<>> /\ up = SubSeq(Stream, IF to = "decoy" THEN 1 ELSE 3, taken)
  /\ pc = "relay" /\ to = "target" => taken >= 2
  /\ pc = "request" => taken < 2 /\ (taken > 0 => script.vless)
  /\ to = "none" => up = <<>>
  /\ pc = "over" => Begins(up, IF to = "decoy" THEN Stream ELSE Payload)

\* What the peer was told, and where the session leads to.
DownInv ==
  /\ pc = "triage" => Triaged
  /\ pc \in {"first", "carried"} => ~Triaged
  /\ pc \in Early => to = "none" /\ down = <<>>
  /\ pc \in {"request", "dial", "respond"} => to = "none" /\ down = Greeting
  /\ pc = "decoy" => to = "decoy" /\ down = <<>>
  /\ pc = "record" => to = "target" /\ down = Answer /\ ~Xray
  /\ pc = "relay" => to # "none"
  /\ to = "none" => down \in {<<>>, Greeting}
  /\ to = "decoy" => down \in {<<>>, <<"d">>}
  /\ to = "target" => down \in Answers
  /\ to = "target" \/ pc \in {"dial", "respond"} => script.vless /\ script.user = "u" /\ ~revoked
  /\ Triaged /\ ~Known => to # "target" /\ pc \in {"triage", "decoy", "relay", "over"} /\ (to = "none" => down = <<>>)

\* What is counted: a stranger found behind the tunnel when it is sent on, everything else at the end.
CountInv ==
  /\ \A k \in Kinds : count[k] = guards[k]
  /\ pc \in Early \cup {"over"} => guards = NoGuards
  /\ pc = "request" /\ Triaged => guards["Tcp"] > 0
  /\ pc # "over" => \A k \in Outcomes :
       count[k] = IF k = "forwarded" /\ to = "decoy" /\ ~(Triaged /\ guards = NoGuards)
                  THEN 1 ELSE 0
  /\ \A k, l \in Outcomes : count[k] > 0 /\ count[l] > 0 => k = l /\ count[k] = 1
  /\ pc = "over" /\ Xray /\ to = "target" => \E k \in Outcomes : count[k] = 1

ServerInv == ServerTypeOK /\ UpInv /\ DownInv /\ CountInv

-----------------------------------------------------------------------------
(* The peer's stream *)

\* A part of a stream, unit by unit.
LEMMA PartOf ==
  ASSUME NEW S, NEW s \in Seq(S), NEW m \in Nat, NEW n \in Nat, 1 <= m, m <= n + 1, n <= Len(s)
  PROVE  /\ SubSeq(s, m, n) \in Seq(S) /\ Len(SubSeq(s, m, n)) = n - m + 1
         /\ \A i \in 1..(n - m + 1) : SubSeq(s, m, n)[i] = s[m + i - 1]
<1>1. \A i \in m..n : s[i] \in S
  BY ElementOfSeq
<1> QED
  BY <1>1, SubSeqProperties

\* What a stream holds from its third unit on.
LEMMA FromThird ==
  ASSUME NEW S, NEW s \in Seq(S), NEW n \in Int, 2 <= n, n <= Len(s)
  PROVE  /\ SubSeq(s, 3, n) \in Seq(S) /\ Len(SubSeq(s, 3, n)) = n - 2
         /\ \A i \in 1..(n - 2) : SubSeq(s, 3, n)[i] = s[2 + i]
BY PartOf

\* What is left of the start of a stream.
LEMMA RestOfStart ==
  ASSUME NEW S, NEW s \in Seq(S), NEW n \in Nat, n <= Len(s)
  PROVE  /\ Len(SubSeq(s, 1, n)) = n
         /\ n >= 2 => SubSeq(SubSeq(s, 1, n), 3, n) = SubSeq(s, 3, n)
<1> DEFINE a == SubSeq(s, 1, n)
<1>1. a \in Seq(S) /\ Len(a) = n /\ \A i \in 1..n : a[i] = s[i]
  BY PartOf
<1> HIDE DEF a
<1>2. ASSUME n >= 2 PROVE SubSeq(a, 3, n) = SubSeq(s, 3, n)
  <2>1. /\ SubSeq(a, 3, n) \in Seq(S) /\ Len(SubSeq(a, 3, n)) = n - 2
        /\ \A i \in 1..(n - 2) : SubSeq(a, 3, n)[i] = a[2 + i]
    BY <1>1, <1>2, FromThird
  <2>2. /\ SubSeq(s, 3, n) \in Seq(S) /\ Len(SubSeq(s, 3, n)) = n - 2
        /\ \A i \in 1..(n - 2) : SubSeq(s, 3, n)[i] = s[2 + i]
    BY <1>2, FromThird
  <2>3. \A i \in 1..(n - 2) : SubSeq(a, 3, n)[i] = SubSeq(s, 3, n)[i]
    BY <1>1, <1>2, <2>1, <2>2
  <2> QED
    BY <2>1, <2>2, <2>3, SeqEqual, Zenon
<1> QED
  BY <1>1, <1>2, Zenon DEF a

\* Two pieces of a stream put together again.
LEMMA Glued ==
  ASSUME NEW S, NEW s \in Seq(S), NEW m \in Nat, NEW k \in Nat, NEW n \in Nat,
         1 <= m, m <= k + 1, k <= n, n <= Len(s)
  PROVE  SubSeq(s, m, k) \o SubSeq(s, k + 1, n) = SubSeq(s, m, n)
<1>1. m \in 1..(Len(s) + 1) /\ k \in (m - 1)..Len(s) /\ n \in k..Len(s)
  BY LenProperties
<1> QED
  BY <1>1, ConcatAdjacentSubSeq, Zenon

Unit == {"v", "h", "p1", "p2", "f1", "f2"}

\* The stream of a connection is a sequence of units.
LEMMA StreamType ==
  /\ Stream \in Seq(Unit) /\ Len(Stream) \in Nat
  /\ script.vless /\ Len(Stream) > 0 =>
       Len(Stream) = 4 /\ Stream[3] = "p1" /\ Stream[4] = "p2"
<1>1. CASE script.hello \notin {"peer", "stranger"}
  BY <1>1 DEF Stream
<1>2. CASE script.hello \in {"peer", "stranger"} /\ script.vless
  <2>1. Stream = <<"v", "h">> \o <<"p1", "p2">>
    BY <1>2, Zenon DEF Stream, Payload
  <2>2. <<"v", "h">> \in Seq(Unit) /\ <<"p1", "p2">> \in Seq(Unit)
    BY DEF Unit
  <2> QED
    BY <2>1, <2>2, ConcatProperties
<1>3. CASE script.hello \in {"peer", "stranger"} /\ ~script.vless
  <2>1. Stream = <<"f1", "f2">>
    BY <1>3, Zenon DEF Stream
  <2> QED
    BY <1>3, <2>1 DEF Unit
<1> QED
  BY <1>1, <1>2, <1>3, Zenon

\* The script does not change, and nothing that is read off it.
LEMMA ScriptFixed ==
  ASSUME script' = script
  PROVE  /\ Stream' = Stream /\ Greeting' = Greeting /\ Answer' = Answer
         /\ Answers' = Answers /\ Xray' = Xray /\ Triaged' = Triaged
         /\ Known' = Known
BY Zenon DEF Stream, Greeting, Answer, Answers, Xray, Triaged, Known, door

\* The start of the stream, and the start of the payload.
LEMMA StartOfStream ==
  ASSUME NEW n \in 0..Len(Stream)
  PROVE  Begins(SubSeq(Stream, 1, n), Stream)
<1>1. Len(SubSeq(Stream, 1, n)) = n
  BY StreamType, PartOf
<1> QED
  BY <1>1, StreamType DEF Begins

\* Past the head, the units of the stream are those of the payload.
LEMMA StartOfPayload ==
  ASSUME script.vless, NEW n \in 2..Len(Stream)
  PROVE  Begins(SubSeq(Stream, 3, n), Payload)
<1> DEFINE s == SubSeq(Stream, 3, n)
           t == SubSeq(Payload, 1, n - 2)
<1>a. n \in Int /\ 2 <= n /\ n <= Len(Stream) /\ Len(Stream) > 0
  BY StreamType
<1>b. Stream \in Seq(Unit) /\ Len(Stream) = 4
  BY <1>a, StreamType, Zenon
<1>c. Stream[3] = "p1" /\ Stream[4] = "p2"
  BY <1>a, StreamType, Zenon
<1>1. /\ Stream \in Seq(Unit) /\ Len(Stream) = 4
      /\ Stream[3] = "p1" /\ Stream[4] = "p2" /\ n \in Int /\ 2 <= n /\ n <= 4
  BY <1>a, <1>b, <1>c, Zenon
<1>2. /\ Payload \in Seq(Unit) /\ Len(Payload) = 2
      /\ Payload[1] = "p1" /\ Payload[2] = "p2"
  BY DEF Payload, Unit
<1>3. s \in Seq(Unit) /\ Len(s) = n - 2 /\ \A i \in 1..(n - 2) : s[i] = Stream[2 + i]
  BY <1>1, FromThird, ZenonT(60)
<1>4. t \in Seq(Unit) /\ Len(t) = n - 2 /\ \A i \in 1..(n - 2) : t[i] = Payload[i]
  <2>1. \A i \in 1..(n - 2) : Payload[i] \in Unit
    BY <1>1, <1>2 DEF Unit
  <2>2. 1 \in Int /\ n - 2 \in Int /\ n - 2 >= 0
    BY <1>1
  <2> QED
    BY <2>1, <2>2, SubSeqProperties
<1>5. \A i \in 1..Len(s) : s[i] = t[i]
  BY <1>1, <1>2, <1>3, <1>4
<1> HIDE DEF s, t
<1>6. s = t
  BY <1>3, <1>4, <1>5, SeqEqual, Zenon
<1> QED
  BY <1>1, <1>2, <1>3, <1>6 DEF Begins, s, t

\* What has been passed on is the start of what it should be.
LEMMA PassedOn ==
  ASSUME ServerInv
  PROVE  Begins(up, IF to = "decoy" THEN Stream ELSE Payload)
<1> DEFINE t == IF to = "decoy" THEN Stream ELSE Payload
<1>1. CASE up = <<>>
  <2>1. \A U : \A w \in Seq(U) : Begins(<<>>, w)
    BY SubSeqEmpty, LenProperties DEF Begins
  <2>2. Payload \in Seq(Unit) /\ Stream \in Seq(Unit)
    BY StreamType DEF Payload, Unit
  <2> QED
    BY <1>1, <2>1, <2>2, Zenon
<1>2. CASE pc = "over"
  BY <1>2, Zenon DEF ServerInv, UpInv, Early
<1>3. CASE pc = "relay" /\ to = "decoy"
  <2>1. taken \in 0..Len(Stream) /\ up = SubSeq(Stream, 1, taken)
    BY <1>3, StreamType DEF ServerInv, UpInv, ServerTypeOK, Early
  <2> QED
    BY <1>3, <2>1, StartOfStream, Zenon
<1>4. CASE pc = "relay" /\ to = "target"
  <2>1. script.vless /\ taken \in 2..Len(Stream) /\ up = SubSeq(Stream, 3, taken)
    BY <1>4, StreamType DEF ServerInv, UpInv, DownInv, ServerTypeOK, Early
  <2> QED
    BY <1>4, <2>1, StartOfPayload, Zenon
<1> QED
  BY <1>1, <1>2, <1>3, <1>4, Zenon DEF ServerInv, UpInv, ServerTypeOK, Early

-----------------------------------------------------------------------------
(* The end of the task *)

\* A count that may be left behind: nothing twice, and something where the session was answered.
Even(c) ==
  /\ c \in [OutcomesAndKinds -> Nat] /\ \A k \in Kinds : c[k] = count[k]
  /\ \A k, l \in Outcomes : c[k] > 0 /\ c[l] > 0 => k = l /\ c[k] = 1
  /\ Xray /\ to = "target" => \E k \in Outcomes : c[k] = 1

\* The handler returns.
LEMMA ReturnKeeps ==
  ASSUME ServerInv, pc # "over", NEW c, Even(c), Returns(c),
         taken' \in 0..sent, UNCHANGED <<to, up, down>>
  PROVE  ServerInv'
<1> USE DEF ServerInv
<1>1. /\ pc' = "over" /\ guards' = NoGuards /\ UNCHANGED <<script, sent, closed, users, revoked>>
      /\ count' = [k \in DOMAIN c |-> IF k \in Kinds THEN c[k] - guards[k] ELSE c[k]]
  BY Zenon DEF Returns, Steps
<1>2. /\ count' \in [OutcomesAndKinds -> Nat]
      /\ \A k \in Kinds : count'[k] = 0
      /\ \A k \in Outcomes : count'[k] = c[k]
  BY <1>1, SMTT(30) DEF Even, CountInv, ServerTypeOK, OutcomesAndKinds, Kinds, Outcomes, Early
<1>3. guards' \in [Kinds -> Nat] /\ \A k \in Kinds : guards'[k] = 0
  BY <1>1, Zenon DEF NoGuards
<1>4. ServerTypeOK'
  BY <1>1, <1>2, <1>3, ScriptFixed, Zenon DEF ServerTypeOK, Places
<1>5. UpInv'
  BY <1>1, ScriptFixed, PassedOn, Zenon DEF UpInv, Early
<1>6. DownInv'
  BY <1>1, ScriptFixed DEF DownInv, Early
<1>7. CountInv'
  <2>1. \A k \in Kinds : count'[k] = guards'[k]
    BY <1>2, <1>3, Zenon
  <2>2. \A k, l \in Outcomes : count'[k] > 0 /\ count'[l] > 0 => k = l /\ count'[k] = 1
    BY <1>2 DEF Even
  <2>3. (Xray /\ to = "target")' => \E k \in Outcomes : count'[k] = 1
    BY <1>1, <1>2, ScriptFixed, Zenon DEF Even
  <2> QED
    BY <1>1, <2>1, <2>2, <2>3, Zenon DEF CountInv, Early
<1> QED
  BY <1>4, <1>5, <1>6, <1>7, Zenon

\* Nothing is counted before the end of a connection to the target.
LEMMA EvenAsIs ==
  ASSUME ServerInv, pc # "over", Xray => to # "target"
  PROVE  Even(count)
BY Zenon DEF ServerInv, CountInv, ServerTypeOK, Even, Early

\* The outcome of the connection is counted once.
LEMMA EvenBumped ==
  ASSUME ServerInv, pc # "over", to = "decoy" => Triaged /\ guards = NoGuards,
         NEW o \in Outcomes
  PROVE  Even(Bump(count, o))
<1>1. count \in [OutcomesAndKinds -> Nat] /\ \A k \in Outcomes : count[k] = 0
  BY Zenon DEF ServerInv, CountInv, ServerTypeOK, Early
<1> QED
  BY <1>1 DEF Even, Bump, OutcomesAndKinds, Kinds, Outcomes

\* The connection ends where it is.
LEMMA EndsKeep ==
  ASSUME ServerInv, pc # "over", NEW c, Even(c), Ends(c)
  PROVE  ServerInv'
<1>1. Returns(c) /\ UNCHANGED <<taken, to, up, down>>
  BY Zenon DEF Ends
<1>2. taken' \in 0..sent
  BY <1>1, Zenon DEF ServerInv, ServerTypeOK
<1> QED
  BY <1>1, <1>2, ReturnKeeps, Zenon

-----------------------------------------------------------------------------
(* The steps of the task *)

\* The steps of the world: the task's state stays.
LEMMA WorldKeeps ==
  ASSUME ServerInv, World
  PROVE  ServerInv'
<1> USE DEF ServerInv
<1>1. UNCHANGED <<script, pc, taken, buf, to, up, down, guards, count>>
  BY Zenon DEF World, PeerSends, PeerCloses, FarCloses, UserRemoved, Tasks
<1>2. users' \subseteq {"u"} /\ (revoked' => users' = {})
  <2>1. CASE users' = {}
    BY <2>1, Zenon
  <2>2. CASE users' = users /\ revoked' = revoked
    BY <2>2, Zenon DEF ServerTypeOK
  <2>3. users' = {} \/ (users' = users /\ revoked' = revoked)
    BY Zenon DEF World, PeerSends, PeerCloses, FarCloses, UserRemoved
  <2> QED
    BY <2>1, <2>2, <2>3, Zenon
<1>3. sent' \in sent..Len(Stream)
  <2>1. sent' = sent \/ (sent < Len(Stream) /\ sent' = sent + 1)
    BY Zenon DEF World, PeerSends, PeerCloses, FarCloses, UserRemoved
  <2> QED
    BY <2>1, StreamType DEF ServerTypeOK
<1>4. ServerTypeOK'
  BY <1>1, <1>2, <1>3, ScriptFixed, StreamType DEF ServerTypeOK
<1>5. UpInv' /\ CountInv'
  BY <1>1, ScriptFixed DEF UpInv, CountInv, Early
<1>6. revoked' => revoked \/ pc \in Early \cup {"request"}
  BY Zenon DEF World, PeerSends, PeerCloses, FarCloses, UserRemoved, Early
<1>7. DownInv'
  BY <1>1, <1>6, ScriptFixed DEF DownInv, Early
<1> QED
  BY <1>4, <1>5, <1>7, Zenon

\* What is read next joins what was read before.
LEMMA ReadOn ==
  ASSUME ServerInv, NEW k \in 0..(sent - taken)
  PROVE  /\ taken + k \in taken..sent /\ taken + k \in Nat /\ taken \in Nat
         /\ taken + k <= Len(Stream)
         /\ SubSeq(Stream, 1, taken) \o Units(k) = SubSeq(Stream, 1, taken + k)
         /\ taken >= 2 => SubSeq(Stream, 3, taken) \o Units(k) = SubSeq(Stream, 3, taken + k)
         /\ taken = 0 => Units(k) = SubSeq(Stream, 1, taken + k)
<1>1. /\ taken + k \in taken..sent /\ taken + k \in Nat /\ taken \in Nat /\ taken <= taken + k
      /\ taken + k <= Len(Stream) /\ Stream \in Seq(Unit)
  BY StreamType DEF ServerInv, ServerTypeOK
<1>2. SubSeq(Stream, 1, taken) \o SubSeq(Stream, taken + 1, taken + k) = SubSeq(Stream, 1, taken + k)
  BY <1>1, Glued
<1>3. ASSUME taken >= 2
      PROVE SubSeq(Stream, 3, taken) \o SubSeq(Stream, taken + 1, taken + k) = SubSeq(Stream, 3, taken + k)
  BY <1>1, <1>3, Glued
<1> QED
  BY <1>1, <1>2, <1>3 DEF Units

\* The first bytes are looked at.
LEMMA TriageKeeps ==
  ASSUME ServerInv, Triage
  PROVE  ServerInv'
<1> USE DEF ServerInv
<1>1. pc = "triage" /\ to = "none" /\ taken = 0
  BY Zenon DEF Triage, DownInv, UpInv, Early
<1>2. CASE Ends(count)
  BY <1>1, <1>2, EvenAsIs, EndsKeep, Zenon
<1>3. CASE Known /\ pc' = "tls" /\ Steps /\ UNCHANGED <<taken, buf, to, up, down, guards, count>>
  BY <1>1, <1>3, ScriptFixed, Zenon DEF Steps, ServerTypeOK, UpInv, DownInv, CountInv, Places, Early
<1>4. CASE /\ buf' = Units(Avail) /\ Take(Avail) /\ to' = "decoy" /\ pc' = "decoy"
           /\ Steps /\ UNCHANGED <<up, down, guards, count>> /\ ~Known
  <2>1. Avail \in 0..(sent - taken)
    BY DEF Avail, ServerTypeOK
  <2>2. buf' = SubSeq(Stream, 1, taken') /\ taken' \in 0..sent
    BY <1>1, <1>4, <2>1, ReadOn, Zenon DEF Take
  <2>3. Triaged /\ guards = NoGuards /\ UNCHANGED <<script, sent, users, revoked>>
    BY <1>1, <1>4, Zenon DEF CountInv, Steps, DownInv, Early
  <2>4. ServerTypeOK' /\ UpInv'
    BY <1>1, <1>4, <2>2, <2>3, ScriptFixed, Zenon DEF ServerTypeOK, UpInv, Places, Early
  <2>5. DownInv'
    BY <1>1, <1>4, <2>3, ScriptFixed, Zenon DEF DownInv, Early
  <2>6. CountInv'
    BY <1>1, <1>4, <2>3, ScriptFixed, Zenon DEF CountInv, Early
  <2> QED
    BY <2>4, <2>5, <2>6, Zenon
<1> QED
  BY <1>2, <1>3, <1>4, Zenon DEF Triage, Known

\* The connection goes to the decoy.
LEMMA ToDecoyKeeps ==
  ASSUME ServerInv, ToDecoy
  PROVE  ServerInv'
<1> USE DEF ServerInv
<1>1. pc = "decoy" /\ to = "decoy"
  BY Zenon DEF ToDecoy, DownInv, Early
<1>2. CASE Ends(count)
  BY <1>1, <1>2, EvenAsIs, EndsKeep, Zenon
<1>3. CASE /\ pc' = "relay" /\ up' = buf /\ buf' = <<>>
           /\ Steps /\ UNCHANGED <<taken, to, down, guards, count>>
  BY <1>1, <1>3, ScriptFixed DEF Steps, ServerTypeOK, UpInv, DownInv, CountInv, Places, Early
<1> QED
  BY <1>2, <1>3, Zenon DEF ToDecoy

\* A guard of kind k is taken.
LEMMA GuardTaken ==
  ASSUME ServerInv, NEW k \in Kinds, Guarded(count, k)
  PROVE  /\ guards' \in [Kinds -> Nat] /\ count' \in [OutcomesAndKinds -> Nat]
         /\ guards'[k] > 0 /\ guards' # NoGuards
         /\ \A l \in Kinds : count'[l] = guards'[l]
         /\ \A l \in Outcomes : count'[l] = count[l]
<1>1. /\ guards \in [Kinds -> Nat] /\ count \in [OutcomesAndKinds -> Nat]
      /\ \A l \in Kinds : count[l] = guards[l]
  BY Zenon DEF ServerInv, ServerTypeOK, CountInv, Early
<1>2. /\ guards' = [guards EXCEPT ![k] = @ + 1] /\ count' = [count EXCEPT ![k] = @ + 1]
  BY Zenon DEF Guarded, Bump
<1>3. /\ k \in OutcomesAndKinds /\ \A l \in Outcomes : l \in OutcomesAndKinds /\ l # k
      /\ \A l \in Kinds : l \in OutcomesAndKinds
  BY Zenon DEF OutcomesAndKinds, Outcomes, Kinds
<1>4. /\ guards' \in [Kinds -> Nat] /\ guards'[k] = guards[k] + 1
      /\ \A l \in Kinds : l # k => guards'[l] = guards[l]
  BY <1>1, <1>2
<1>5. /\ count' \in [OutcomesAndKinds -> Nat] /\ count'[k] = count[k] + 1
      /\ \A l \in OutcomesAndKinds : l # k => count'[l] = count[l]
  BY <1>1, <1>2, <1>3
<1>6. guards'[k] > 0
  BY <1>1, <1>4
<1>7. guards' # NoGuards
  BY <1>6 DEF NoGuards
<1>8. \A l \in Kinds : count'[l] = guards'[l]
  BY <1>1, <1>3, <1>4, <1>5, Zenon
<1> QED
  BY <1>3, <1>4, <1>5, <1>6, <1>7, <1>8, Zenon

\* The outer handshake is done: the session goes on to its request, or to the first byte.
LEMMA HandshakenKeeps ==
  ASSUME ServerInv, pc = "tls", NEW next \in {"first", "carried", "request"}, NEW guarded \in BOOLEAN,
         Handshaken(next, guarded, Greeting),
         next # "request" => ~Triaged /\ Greeting = <<>>,
         guarded <=> next = "request" /\ door # "xray"
  PROVE  ServerInv'
<1> USE DEF ServerInv
<1>1. /\ to = "none" /\ taken = 0 /\ buf = <<>> /\ up = <<>> /\ guards = NoGuards
      /\ pc' = next /\ down' = Greeting /\ UNCHANGED <<script, sent, users, revoked, taken, buf, to, up>>
      /\ Triaged => Known
  BY Zenon DEF Handshaken, Steps, UpInv, DownInv, CountInv, Early
<1>2. <<>> = SubSeq(Stream, 1, 0)
  BY SubSeqEmpty
<1>3. UpInv' /\ DownInv'
  BY <1>1, <1>2, ScriptFixed DEF UpInv, DownInv, Early
<1>4. CASE guarded
  <2>1. Guarded(count, "Tcp") /\ "Tcp" \in Kinds
    BY <1>4, Zenon DEF Handshaken, Kinds
  <2>2. /\ guards' \in [Kinds -> Nat] /\ count' \in [OutcomesAndKinds -> Nat]
        /\ guards'["Tcp"] > 0 /\ guards' # NoGuards
        /\ \A l \in Kinds : count'[l] = guards'[l]
        /\ \A l \in Outcomes : count'[l] = count[l]
    BY <2>1, GuardTaken, Zenon
  <2>3. ServerTypeOK'
    BY <1>1, <2>2, ScriptFixed, Zenon DEF ServerTypeOK, Places
  <2>4. CountInv'
    BY <1>1, <1>4, <2>2, ScriptFixed, Zenon DEF CountInv, Early
  <2> QED
    BY <1>3, <2>3, <2>4, Zenon
<1>5. CASE ~guarded
  <2>1. UNCHANGED <<guards, count>>
    BY <1>5, Zenon DEF Handshaken
  <2>2. ServerTypeOK'
    BY <1>1, <2>1, ScriptFixed, Zenon DEF ServerTypeOK, Places
  <2>3. ~Triaged
    BY <1>1, <1>5, Zenon DEF Triaged, door
  <2>4. CountInv'
    BY <1>1, <2>1, <2>3, ScriptFixed DEF CountInv, Early
  <2> QED
    BY <1>3, <2>2, <2>4
<1> QED
  BY <1>4, <1>5, Zenon

\* The TLS handshake.
LEMMA TlsKeeps ==
  ASSUME ServerInv, TlsHandshake
  PROVE  ServerInv'
<1>1. pc = "tls" /\ to = "none"
  BY Zenon DEF TlsHandshake, RawTls, XrayTls, RealityTls, VeilTls, CarrierTls, ServerInv, DownInv, Early
<1>2. CASE Ends(count)
  BY <1>1, <1>2, EvenAsIs, EndsKeep, Zenon
<1>3. ASSUME NEW o \in Outcomes, Ends(Bump(count, o)) PROVE ServerInv'
  BY <1>1, <1>3, EvenBumped, EndsKeep, Zenon
<1>4. CASE RawTls
  <2>1. Greeting = <<>> /\ ~Triaged
    BY <1>4, Zenon DEF RawTls, Greeting, Triaged, door
  <2>2. Handshaken("first", FALSE, Greeting) => ServerInv'
    BY <1>1, <2>1, HandshakenKeeps, Zenon
  <2> QED
    BY <1>2, <1>4, <2>1, <2>2, Zenon DEF RawTls
<1>5. CASE XrayTls
  <2>1. Greeting = <<>> /\ door = "xray"
    BY <1>5, Zenon DEF XrayTls, Greeting, door
  <2>2. Handshaken("request", FALSE, Greeting) => ServerInv'
    BY <1>1, <2>1, HandshakenKeeps, Zenon
  <2> QED
    BY <1>3, <1>5, <2>1, <2>2, Zenon DEF XrayTls, Outcomes
<1>6. CASE RealityTls
  <2>1. Greeting = <<>> /\ door # "xray"
    BY <1>6, Zenon DEF RealityTls, Greeting, door
  <2>2. Handshaken("request", TRUE, Greeting) => ServerInv'
    BY <1>1, <2>1, HandshakenKeeps, Zenon
  <2> QED
    BY <1>3, <1>6, <2>1, <2>2, Zenon DEF RealityTls, Outcomes
<1>7. CASE VeilTls
  <2>1. door # "xray"
    BY <1>7, Zenon DEF VeilTls, door
  <2>2. Handshaken("request", TRUE, Greeting) => ServerInv'
    BY <1>1, <2>1, HandshakenKeeps, Zenon
  <2> QED
    BY <1>2, <1>7, <2>1, <2>2, Zenon DEF VeilTls
<1>8. CASE CarrierTls
  <2>1. Greeting = <<>> /\ ~Triaged
    BY <1>8, Zenon DEF CarrierTls, Greeting, Triaged, door
  <2>2. Handshaken("carried", FALSE, Greeting) => ServerInv'
    BY <1>1, <2>1, HandshakenKeeps, Zenon
  <2> QED
    BY <1>2, <1>8, <2>1, <2>2, Zenon DEF CarrierTls
<1> QED
  BY <1>4, <1>5, <1>6, <1>7, <1>8, Zenon DEF TlsHandshake

\* A session comes out of the carrier.
LEMMA CarrierSessionKeeps ==
  ASSUME ServerInv, CarrierSession
  PROVE  ServerInv'
<1> USE DEF ServerInv
<1>1. /\ pc = "carried" /\ to = "none" /\ taken = 0 /\ buf = <<>> /\ up = <<>> /\ down = <<>>
      /\ ~Triaged
  BY Zenon DEF CarrierSession, DownInv, UpInv, Early
<1>2. CASE Ends(count)
  BY <1>1, <1>2, EvenAsIs, EndsKeep, Zenon
<1>3. CASE /\ pc' = "request" /\ Guarded(count, "Tcp")
           /\ Steps /\ UNCHANGED <<taken, buf, to, up, down>>
  <2>1. "Tcp" \in Kinds /\ UNCHANGED <<script, sent, users, revoked>>
    BY <1>3, Zenon DEF Kinds, Steps
  <2>2. /\ guards' \in [Kinds -> Nat] /\ count' \in [OutcomesAndKinds -> Nat]
        /\ guards'["Tcp"] > 0 /\ guards' # NoGuards
        /\ \A l \in Kinds : count'[l] = guards'[l]
        /\ \A l \in Outcomes : count'[l] = count[l]
    BY <1>3, <2>1, GuardTaken, Zenon
  <2>3. Greeting = <<>>
    BY <1>1, Zenon DEF Greeting, Triaged, door
  <2>4. <<>> = SubSeq(Stream, 1, 0)
    BY SubSeqEmpty
  <2>5. ServerTypeOK' /\ UpInv'
    BY <1>1, <1>3, <2>1, <2>2, <2>4, ScriptFixed DEF ServerTypeOK, Places, UpInv, Early
  <2>6. DownInv' /\ CountInv'
    BY <1>1, <1>3, <2>1, <2>2, <2>3, ScriptFixed DEF DownInv, CountInv, Early
  <2> QED
    BY <2>5, <2>6, Zenon
<1> QED
  BY <1>2, <1>3, Zenon DEF CarrierSession

\* The first byte of the tunnel is read.
LEMMA FirstByteKeeps ==
  ASSUME ServerInv, FirstByte
  PROVE  ServerInv'
<1> USE DEF ServerInv
<1>1. /\ pc = "first" /\ to = "none" /\ taken = 0 /\ buf = <<>> /\ up = <<>> /\ down = <<>>
      /\ ~Triaged
  BY Zenon DEF FirstByte, DownInv, UpInv, Early
<1>2. CASE Ends(count)
  BY <1>1, <1>2, EvenAsIs, EndsKeep, Zenon
<1>3. ASSUME Avail > 0, buf' = Units(1), Take(1)
      PROVE  buf' = SubSeq(Stream, 1, taken') /\ taken' = 1 /\ taken' \in 0..sent
  <2>1. 1 \in 0..(sent - taken)
    BY <1>3 DEF Avail, ServerTypeOK
  <2> QED
    <3>1. Units(1) = SubSeq(Stream, 1, taken + 1) /\ taken + 1 \in taken..sent
      BY <1>1, <2>1, ReadOn, Zenon
    <3> QED
      BY <1>1, <1>3, <3>1 DEF Take
<1>4. CASE /\ Avail > 0 /\ script.vless /\ pc' = "request" /\ buf' = Units(1) /\ Take(1)
           /\ Guarded(count, "Tcp") /\ Steps /\ UNCHANGED <<to, up, down>>
  <2>1. "Tcp" \in Kinds /\ UNCHANGED <<script, sent, users, revoked>>
    BY <1>4, Zenon DEF Kinds, Steps
  <2>2. /\ guards' \in [Kinds -> Nat] /\ count' \in [OutcomesAndKinds -> Nat]
        /\ guards'["Tcp"] > 0 /\ guards' # NoGuards
        /\ \A l \in Kinds : count'[l] = guards'[l]
        /\ \A l \in Outcomes : count'[l] = count[l]
    BY <1>4, <2>1, GuardTaken, Zenon
  <2>3. Greeting = <<>>
    BY <1>1, Zenon DEF Greeting, Triaged, door
  <2>4. ServerTypeOK' /\ UpInv'
    BY <1>1, <1>3, <1>4, <2>1, <2>2, ScriptFixed DEF ServerTypeOK, Places, UpInv, Early
  <2>5. DownInv' /\ CountInv'
    BY <1>1, <1>4, <2>1, <2>2, <2>3, ScriptFixed DEF DownInv, CountInv, Early
  <2> QED
    BY <2>4, <2>5, Zenon
<1>5. CASE /\ Avail > 0 /\ pc' = "decoy" /\ to' = "decoy" /\ buf' = Units(1) /\ Take(1)
           /\ count' = Bump(count, "forwarded") /\ Steps /\ UNCHANGED <<up, down, guards>>
  <2>1. UNCHANGED <<script, sent, users, revoked>>
    BY <1>5, Zenon DEF Steps
  <2>2. /\ count' \in [OutcomesAndKinds -> Nat] /\ \A k \in Kinds : count'[k] = count[k]
        /\ \A k \in Outcomes : count'[k] = IF k = "forwarded" THEN 1 ELSE 0
    BY <1>1, <1>5 DEF ServerTypeOK, CountInv, OutcomesAndKinds, Kinds, Outcomes, Bump, Early
  <2>3. ServerTypeOK' /\ UpInv'
    BY <1>1, <1>3, <1>5, <2>1, <2>2, ScriptFixed, Zenon DEF ServerTypeOK, Places, UpInv, Early
  <2>4. DownInv' /\ CountInv'
    BY <1>1, <1>5, <2>1, <2>2, ScriptFixed DEF DownInv, CountInv, Early
  <2> QED
    BY <2>3, <2>4
<1> QED
  BY <1>2, <1>4, <1>5, Zenon DEF FirstByte

\* The request is there: the task goes on with all of it, and with what followed it.
LEMMA RequestRead ==
  ASSUME ServerInv, pc = "request", NEW k \in 1..Avail, Take(k)
  PROVE  /\ buf \o Units(k) = SubSeq(Stream, 1, taken') /\ taken' \in 0..sent /\ taken' > 0
         /\ Len(buf \o Units(k)) = taken'
         /\ taken' >= 2 => Rest(buf \o Units(k)) = SubSeq(Stream, 3, taken')
<1> USE DEF ServerInv
<1>1. k \in 0..(sent - taken) /\ k > 0
  BY DEF Avail, ServerTypeOK
<1>2. taken' = taken + k /\ buf = SubSeq(Stream, 1, taken)
  BY Zenon DEF Take, UpInv, Early
<1>3. /\ buf \o Units(k) = SubSeq(Stream, 1, taken') /\ taken' \in taken..sent
      /\ taken' \in Nat /\ taken \in Nat /\ taken' <= Len(Stream)
  BY <1>1, <1>2, ReadOn, Zenon
<1>4. taken' > 0 /\ taken' \in 0..sent
  BY <1>1, <1>2, <1>3
<1>5. /\ Len(SubSeq(Stream, 1, taken')) = taken'
      /\ taken' >= 2 => SubSeq(SubSeq(Stream, 1, taken'), 3, taken') = SubSeq(Stream, 3, taken')
  BY <1>3, StreamType, RestOfStart, Zenon
<1> QED
  BY <1>3, <1>4, <1>5, Zenon DEF Rest

\* A request is refused.
LEMMA RejectKeeps ==
  ASSUME ServerInv, pc = "request", taken' \in 0..sent, Reject \/ Blackhole
  PROVE  ServerInv'
<1>1. to = "none"
  BY Zenon DEF ServerInv, DownInv, Early
<1>2. ASSUME NEW o \in Outcomes, Returns(Bump(count, o)), UNCHANGED <<to, up, down>>
      PROVE  ServerInv'
  BY <1>1, <1>2, EvenBumped, ReturnKeeps, Zenon
<1> QED
  BY <1>2, Zenon DEF Reject, Blackhole, Outcomes

\* The target is dialled, or a mux is answered at once.
LEMMA DialKeeps ==
  ASSUME ServerInv, pc = "request", taken' \in 0..sent, taken' >= 2,
         script.vless, script.user = "u", ~revoked,
         NEW rest, rest = SubSeq(Stream, 3, taken'),
         \/ StartMux(rest)
         \/ StartDial(rest) /\ (Guarded(count, "Udp") \/ UNCHANGED <<count, guards>>)
  PROVE  ServerInv'
<1> USE DEF ServerInv
<1>1. /\ pc' \in {"dial", "respond"} /\ buf' = rest
      /\ UNCHANGED <<script, sent, users, revoked, to, up, down>>
      /\ "Udp" \in Kinds /\ to = "none"
  BY Zenon DEF StartMux, StartDial, Steps, Kinds, DownInv, Early
<1>2. /\ guards' \in [Kinds -> Nat] /\ count' \in [OutcomesAndKinds -> Nat]
      /\ \A l \in Kinds : count'[l] = guards'[l]
      /\ \A l \in Outcomes : count'[l] = count[l]
  <2>1. CASE Guarded(count, "Udp")
    BY <1>1, <2>1, GuardTaken, Zenon
  <2>2. CASE UNCHANGED <<count, guards>>
    BY <2>2, Zenon DEF ServerTypeOK, CountInv, Early
  <2> QED
    BY <2>1, <2>2, Zenon DEF StartMux
<1>3. ServerTypeOK' /\ UpInv'
  BY <1>1, <1>2, ScriptFixed, Zenon DEF ServerTypeOK, Places, UpInv, Early
<1>4. DownInv'
  BY <1>1, ScriptFixed DEF DownInv, Early
<1>5. CountInv'
  BY <1>1, <1>2, ScriptFixed, ZenonT(60) DEF CountInv, Early
<1> QED
  BY <1>3, <1>4, <1>5, Zenon

\* The request is dispatched by its command.
LEMMA DispatchKeeps ==
  ASSUME ServerInv, pc = "request", taken' \in 0..sent, taken' >= 2, script.vless,
         NEW rest, rest = SubSeq(Stream, 3, taken'), Dispatch(rest) \/ DispatchVision(rest)
  PROVE  ServerInv'
<1>1. script.user \in users => script.user = "u" /\ ~revoked
  BY Zenon DEF ServerInv, ServerTypeOK
<1>2. \/ Reject \/ Blackhole
      \/ script.user \in users /\ StartMux(rest)
      \/ /\ script.user \in users /\ StartDial(rest)
         /\ Guarded(count, "Udp") \/ UNCHANGED <<count, guards>>
  BY Zenon DEF Dispatch, DispatchVision
<1> QED
  BY <1>1, <1>2, RejectKeeps, DialKeeps, Zenon

\* The request is not complete yet.
LEMMA KeepReadingKeeps ==
  ASSUME ServerInv, pc = "request", script.vless, taken' \in 0..sent, taken' < 2,
         NEW all, all = SubSeq(Stream, 1, taken'), KeepReading(all)
  PROVE  ServerInv'
<1> USE DEF ServerInv
<1>1. buf' = all /\ UNCHANGED <<script, sent, users, revoked, pc, to, up, down, guards, count>>
  BY Zenon DEF KeepReading, Steps
<1>2. ServerTypeOK' /\ UpInv'
  BY <1>1, ScriptFixed, Zenon DEF ServerTypeOK, UpInv, Early
<1>3. DownInv' /\ CountInv'
  BY <1>1, ScriptFixed DEF DownInv, CountInv, Early
<1> QED
  BY <1>2, <1>3, Zenon

\* The request is read.
LEMMA ReadRequestKeeps ==
  ASSUME ServerInv, ReadRequest \/ ReadRecords
  PROVE  ServerInv'
<1>1. pc = "request" /\ to = "none" /\ pc # "over"
  BY Zenon DEF ReadRequest, ReadRecords, ServerInv, DownInv, Early
<1>2. CASE Ends(count)
  BY <1>1, <1>2, EvenAsIs, EndsKeep, Zenon
<1>3. ASSUME NEW k \in 1..Avail, Take(k),
             LET all == buf \o Units(k) IN
             \/ script.vless /\ Len(all) >= 2 /\ (Dispatch(Rest(all)) \/ DispatchVision(Rest(all)))
             \/ script.vless /\ Len(all) < 2 /\ KeepReading(all)
             \/ Returns(count) /\ UNCHANGED <<buf, to, up, down>>
             \/ /\ ~script.vless /\ Xray
                /\ pc' = "decoy" /\ to' = "decoy" /\ buf' = all
                /\ count' = Bump(count, "forwarded") /\ Steps /\ UNCHANGED <<up, down, guards>>
      PROVE  ServerInv'
  <2> DEFINE all == buf \o Units(k)
  <2>1. /\ all = SubSeq(Stream, 1, taken') /\ taken' \in 0..sent /\ taken' > 0
        /\ Len(all) = taken'
        /\ taken' >= 2 => Rest(all) = SubSeq(Stream, 3, taken')
    BY <1>1, <1>3, RequestRead, Zenon
  <2>2. \/ script.vless /\ Len(all) >= 2 /\ (Dispatch(Rest(all)) \/ DispatchVision(Rest(all)))
        \/ script.vless /\ Len(all) < 2 /\ KeepReading(all)
        \/ Returns(count) /\ UNCHANGED <<buf, to, up, down>>
        \/ /\ ~script.vless /\ Xray
           /\ pc' = "decoy" /\ to' = "decoy" /\ buf' = all
           /\ count' = Bump(count, "forwarded") /\ Steps /\ UNCHANGED <<up, down, guards>>
    BY <1>3, Zenon
  <2> HIDE DEF all
  <2>3. CASE script.vless /\ Len(all) >= 2 /\ (Dispatch(Rest(all)) \/ DispatchVision(Rest(all)))
    BY <1>1, <2>1, <2>3, DispatchKeeps, Zenon
  <2>4. CASE script.vless /\ Len(all) < 2 /\ KeepReading(all)
    BY <1>1, <2>1, <2>4, KeepReadingKeeps, Zenon
  <2>5. CASE Returns(count) /\ UNCHANGED <<buf, to, up, down>>
    BY <1>1, <2>1, <2>5, EvenAsIs, ReturnKeeps, Zenon
  <2>6. CASE /\ ~script.vless /\ Xray
             /\ pc' = "decoy" /\ to' = "decoy" /\ buf' = all
             /\ count' = Bump(count, "forwarded") /\ Steps /\ UNCHANGED <<up, down, guards>>
    <3> USE DEF ServerInv
    <3>1. UNCHANGED <<script, sent, users, revoked>> /\ Greeting = <<>>
      BY <2>6, Zenon DEF Steps, Greeting, Xray, door
    <3>2. /\ count' \in [OutcomesAndKinds -> Nat] /\ \A k2 \in Kinds : count'[k2] = count[k2]
          /\ \A k2 \in Outcomes : count'[k2] = IF k2 = "forwarded" THEN 1 ELSE 0
      BY <1>1, <2>6 DEF ServerTypeOK, CountInv, OutcomesAndKinds, Kinds, Outcomes, Bump, Early
    <3>3. ~(Triaged /\ guards = NoGuards)
      BY <1>1 DEF CountInv, NoGuards, Kinds, Early
    <3>4. ServerTypeOK' /\ UpInv'
      BY <1>1, <2>1, <2>6, <3>1, <3>2, ScriptFixed, ZenonT(40) DEF ServerTypeOK, Places, UpInv, Early
    <3>5. DownInv'
      BY <1>1, <2>6, <3>1, ScriptFixed, Zenon DEF DownInv, Early
    <3>6. CountInv'
      BY <1>1, <2>6, <3>1, <3>2, <3>3, ScriptFixed DEF CountInv, Early
    <3> QED
      BY <3>4, <3>5, <3>6, Zenon
  <2> QED
    BY <2>2, <2>3, <2>4, <2>5, <2>6, Zenon
<1> QED
  BY <1>2, <1>3, Zenon DEF ReadRequest, ReadRecords

\* The far side is there and the peer is told so: the relay begins with what is in the buffer.
LEMMA AnsweredKeeps ==
  ASSUME ServerInv, pc = "respond", Answered, Relaying \/ (pc' = "record" /\ ~Xray /\ UNCHANGED <<up, buf>>),
         UNCHANGED <<count, guards>> \/ \E k \in Kinds : Guarded(count, k)
  PROVE  ServerInv'
<1> USE DEF ServerInv
<1>1. /\ down' = Answer /\ to' = "target" /\ UNCHANGED <<script, sent, users, revoked, taken>>
      /\ script.vless /\ script.user = "u" /\ ~revoked /\ taken >= 2 /\ to = "none"
  BY Zenon DEF Answered, Steps, Answer, Response, DownInv, UpInv, Early
<1>2. /\ guards' \in [Kinds -> Nat] /\ count' \in [OutcomesAndKinds -> Nat]
      /\ \A l \in Kinds : count'[l] = guards'[l]
      /\ \A l \in Outcomes : count'[l] = count[l]
  <2>1. CASE \E k \in Kinds : Guarded(count, k)
    BY <2>1, GuardTaken, Zenon
  <2>2. CASE UNCHANGED <<count, guards>>
    BY <2>2, Zenon DEF ServerTypeOK, CountInv, Early
  <2> QED
    BY <2>1, <2>2, Zenon
<1>3. \/ pc' = "relay" /\ up' = buf /\ buf' = <<>>
      \/ pc' = "record" /\ ~Xray /\ UNCHANGED <<up, buf>>
  BY Zenon DEF Relaying
<1>4. ServerTypeOK'
  BY <1>1, <1>2, <1>3, ScriptFixed, Zenon DEF ServerTypeOK, Places
<1>5. UpInv'
  BY <1>1, <1>3, ScriptFixed, Zenon DEF UpInv, Early
<1>6. DownInv'
  BY <1>1, <1>3, ScriptFixed DEF DownInv, Answers, Early
<1>7. CountInv'
  BY <1>1, <1>2, <1>3, ScriptFixed DEF CountInv, Early
<1> QED
  BY <1>4, <1>5, <1>6, <1>7, Zenon

\* The dial has ended.
LEMMA DialedKeeps ==
  ASSUME ServerInv, DialedDirect \/ DialedChain
  PROVE  ServerInv'
<1>1. pc = "dial" /\ to = "none" /\ pc # "over"
  BY Zenon DEF DialedDirect, DialedChain, ServerInv, DownInv, Early
<1>2. CASE Ends(count)
  BY <1>1, <1>2, EvenAsIs, EndsKeep, Zenon
<1>3. CASE Ends(Bump(count, "error"))
  BY <1>1, <1>3, EvenBumped, EndsKeep, Zenon DEF Outcomes
<1>4. CASE Connected
  <2> USE DEF ServerInv
  <2>1. /\ pc' = "respond" /\ UNCHANGED <<script, sent, users, revoked>>
        /\ UNCHANGED <<taken, buf, to, up, down, guards, count>>
    BY <1>4, Zenon DEF Connected, Steps
  <2>2. ServerTypeOK' /\ UpInv'
    BY <1>1, <2>1, ScriptFixed, ZenonT(40) DEF ServerTypeOK, Places, UpInv, Early
  <2>3. DownInv' /\ CountInv'
    BY <1>1, <2>1, ScriptFixed DEF DownInv, CountInv, Early
  <2> QED
    BY <2>2, <2>3, Zenon
<1> QED
  BY <1>2, <1>3, <1>4, Zenon DEF DialedDirect, DialedChain

\* The response is written, or cannot be.
LEMMA RespondKeeps ==
  ASSUME ServerInv, Respond \/ RespondVision
  PROVE  ServerInv'
<1>1. pc = "respond" /\ to = "none" /\ pc # "over" /\ script.cmd \in Kinds
  BY Zenon DEF Respond, RespondVision, ServerInv, ServerTypeOK, DownInv, Early
<1>2. CASE Unanswered
  BY <1>1, <1>2, EvenAsIs, EndsKeep, Zenon DEF Unanswered
<1>3. CASE Respond /\ ~Unanswered
  BY <1>1, <1>3, AnsweredKeeps, Zenon DEF Respond
<1>4. CASE RespondVision /\ ~Unanswered
  BY <1>1, <1>4, AnsweredKeeps, Zenon DEF RespondVision
<1> QED
  BY <1>2, <1>3, <1>4, Zenon

\* The first record is forwarded.
LEMMA FirstRecordKeeps ==
  ASSUME ServerInv, FirstRecord
  PROVE  ServerInv'
<1> USE DEF ServerInv
<1>1. pc = "record" /\ to = "target" /\ ~Xray /\ taken >= 2
  BY Zenon DEF FirstRecord, DownInv, UpInv, Early
<1>2. CASE Ends(count)
  BY <1>1, <1>2, EvenAsIs, EndsKeep, Zenon
<1>3. CASE /\ pc' = "relay" /\ up' = buf /\ buf' = <<>>
           /\ Steps /\ UNCHANGED <<taken, to, down, guards, count>>
  <2>1. UNCHANGED <<script, sent, users, revoked>>
    BY <1>3, Zenon DEF Steps
  <2>2. ServerTypeOK' /\ UpInv'
    BY <1>1, <1>3, <2>1, ScriptFixed, Zenon DEF ServerTypeOK, UpInv, Places, Early
  <2>3. DownInv'
    BY <1>1, <1>3, <2>1, ScriptFixed DEF DownInv, Early
  <2>4. CountInv'
    BY <1>1, <1>3, <2>1, ScriptFixed, Zenon DEF CountInv, Early
  <2> QED
    BY <2>2, <2>3, <2>4
<1>4. CASE /\ buf' = buf \o Units(Avail) /\ Take(Avail)
           /\ Steps /\ UNCHANGED <<pc, to, up, down, guards, count>>
  <2>1. UNCHANGED <<script, sent, users, revoked>> /\ Avail \in 0..(sent - taken) /\ buf = SubSeq(Stream, 3, taken)
    BY <1>1, <1>4 DEF Steps, Avail, ServerTypeOK, UpInv, Early
  <2>2. /\ taken' = taken + Avail /\ taken' \in taken..sent
        /\ buf' = SubSeq(Stream, 3, taken')
    BY <1>1, <1>4, <2>1, ReadOn, Zenon DEF Take
  <2>3. taken' \in 0..sent /\ taken' >= 2
    BY <1>1, <2>2 DEF ServerTypeOK
  <2>4. ServerTypeOK' /\ UpInv'
    BY <1>1, <1>4, <2>1, <2>2, <2>3, ScriptFixed, ZenonT(60) DEF ServerTypeOK, UpInv, Early
  <2>5. DownInv'
    BY <1>1, <1>4, <2>1, ScriptFixed DEF DownInv, Early
  <2>6. CountInv'
    BY <1>1, <1>4, <2>1, ScriptFixed, Zenon DEF CountInv, Early
  <2> QED
    BY <2>4, <2>5, <2>6
<1> QED
  BY <1>2, <1>3, <1>4, Zenon DEF FirstRecord

\* One more unit of a stream.
LEMMA OneMore ==
  ASSUME NEW S, NEW s \in Seq(S), NEW m \in Nat, NEW n \in Nat, 1 <= m, m <= n + 1, n < Len(s)
  PROVE  Append(SubSeq(s, m, n), s[n + 1]) = SubSeq(s, m, n + 1)
<1>1. m \in 1..Len(s) /\ n + 1 \in m..Len(s) /\ n + 1 - 1 = n
  BY LenProperties
<1>2. SubSeq(s, m, n + 1) = SubSeq(s, m, n) \o <<s[n + 1]>>
  BY <1>1, SubSeqRecursiveSecond
<1>3. SubSeq(s, m, n) \in Seq(S) /\ s[n + 1] \in S
  BY <1>1, PartOf, ElementOfSeq
<1> QED
  BY <1>2, <1>3, AppendIsConcat, Zenon

\* A unit is relayed to the far side.
LEMMA RelayUpKeeps ==
  ASSUME ServerInv, RelayUp
  PROVE  ServerInv'
<1> USE DEF ServerInv
<1>1. /\ pc = "relay" /\ up' = Append(up, Stream[taken + 1]) /\ taken' = taken + 1
      /\ UNCHANGED <<script, sent, users, revoked, pc, buf, to, down, guards, count>>
  BY Zenon DEF RelayUp, Take, Steps
<1>2. taken \in Nat /\ taken < sent /\ taken < Len(Stream) /\ taken' \in 0..sent
  BY <1>1, StreamType DEF RelayUp, Avail, ServerTypeOK
<1>3. to = "decoy" => up' = SubSeq(Stream, 1, taken + 1)
  BY <1>1, <1>2, StreamType, OneMore DEF UpInv, Early
<1>4. to # "decoy" => up' = SubSeq(Stream, 3, taken + 1) /\ taken >= 2
  <2>1. ASSUME to # "decoy" PROVE taken >= 2 /\ up = SubSeq(Stream, 3, taken)
    BY <1>1, <2>1, Zenon DEF UpInv, DownInv, ServerTypeOK, Early
  <2> QED
    BY <1>1, <1>2, <2>1, StreamType, OneMore
<1>5. ServerTypeOK'
  BY <1>1, <1>2, ScriptFixed, Zenon DEF ServerTypeOK
<1>6. UpInv'
  BY <1>1, <1>2, <1>3, <1>4, ScriptFixed, SMTT(30) DEF UpInv, DownInv, Early
<1>7. DownInv' /\ CountInv'
  BY <1>1, ScriptFixed DEF DownInv, CountInv, Early
<1> QED
  BY <1>5, <1>6, <1>7, Zenon

-----------------------------------------------------------------------------
(* What the peer is told *)

Word == {"proof", "resp", "r", "d"}

\* The answers, word by word.
LEMMA AnswerWords ==
  /\ Greeting \in Seq(Word) /\ Len(Greeting) \in Nat
  /\ \A i \in 1..Len(Greeting) : Greeting[i] = "proof"
  /\ Append(Answer, "r") = Greeting \o <<"resp", "r">>
<1>1. /\ Greeting \in Seq(Word) /\ Len(Greeting) \in Nat
      /\ \A i \in 1..Len(Greeting) : Greeting[i] = "proof"
  <2>1. CASE Greeting = <<>>
    BY <2>1
  <2>2. CASE Greeting = <<"proof">>
    BY <2>2 DEF Word
  <2> QED
    BY <2>1, <2>2, Zenon DEF Greeting
<1>2. <<"resp">> \in Seq(Word) /\ <<"r">> \in Seq(Word) /\ "r" \in Word
  BY DEF Word
<1>3. <<"resp">> \o <<"r">> = <<"resp", "r">>
  <2> DEFINE s == <<"resp">> \o <<"r">>
             t == <<"resp", "r">>
  <2>1. s \in Seq(Word) /\ Len(s) = 2 /\ s[1] = "resp" /\ s[2] = "r"
    BY <1>2, ConcatProperties
  <2>2. t \in Seq(Word) /\ Len(t) = 2 /\ t[1] = "resp" /\ t[2] = "r"
    BY DEF Word
  <2> HIDE DEF s, t
  <2>3. \A i \in 1..2 : s[i] = t[i]
    BY <2>1, <2>2
  <2>4. s = t
    BY <2>1, <2>2, <2>3, SeqEqual, Zenon
  <2> QED
    BY <2>4, Zenon DEF s, t
<1>4. Answer \in Seq(Word)
  BY <1>1, <1>2, ConcatProperties, Zenon DEF Answer
<1>5. Append(Answer, "r") = Answer \o <<"r">>
  BY <1>2, <1>4, AppendIsConcat, Zenon
<1>6. Answer \o <<"r">> = Greeting \o (<<"resp">> \o <<"r">>)
  BY <1>1, <1>2, ConcatAssociative DEF Answer
<1> QED
  BY <1>1, <1>3, <1>5, <1>6, Zenon

\* Which words are in which answer.
LEMMA WordsTold ==
  ASSUME ServerInv
  PROVE  /\ down \in Seq(Word)
         /\ Told("resp") => to = "target"
         /\ to = "target" /\ ~Told("r") => down = Answer
         /\ to = "decoy" /\ ~Told("d") => down = <<>>
         /\ to = "decoy" => \A i \in DOMAIN down : down[i] = "d"
         /\ to # "decoy" => Begins(down, Greeting \o <<"resp", "r">>)
<1> DEFINE g == Greeting
           n == Len(g)
           full == g \o <<"resp", "r">>
<1>1. /\ g \in Seq(Word) /\ n \in Nat /\ \A i \in 1..n : g[i] = "proof"
      /\ <<"resp">> \in Seq(Word) /\ <<"resp", "r">> \in Seq(Word)
  BY AnswerWords DEF Word
<1>2. /\ full \in Seq(Word) /\ Len(full) = n + 2 /\ \A i \in 1..n : full[i] = g[i]
      /\ full[n + 1] = "resp" /\ full[n + 2] = "r"
  BY <1>1, ConcatProperties
<1>3. /\ Answer \in Seq(Word) /\ Len(Answer) = n + 1 /\ \A i \in 1..n : Answer[i] = g[i]
      /\ Answer[n + 1] = "resp"
  BY <1>1, ConcatProperties DEF Answer
<1> HIDE DEF g, n, full
<1>4. Begins(<<>>, full) /\ Begins(g, full) /\ Begins(Answer, full) /\ Begins(full, full)
  <2>1. ASSUME NEW w \in Seq(Word), Len(w) <= n + 2, \A i \in 1..Len(w) : w[i] = full[i]
        PROVE  Begins(w, full)
    <3>1. Len(w) \in Nat
      BY LenProperties, Zenon
    <3>2. /\ SubSeq(full, 1, Len(w)) \in Seq(Word) /\ Len(SubSeq(full, 1, Len(w))) = Len(w)
          /\ \A i \in 1..Len(w) : SubSeq(full, 1, Len(w))[i] = full[i]
      BY <1>1, <1>2, <2>1, <3>1, PartOf
    <3>3. w = SubSeq(full, 1, Len(w))
      BY <2>1, <3>2, SeqEqual, Zenon
    <3> QED
      BY <1>2, <2>1, <3>3, Zenon DEF Begins
  <2>2. Begins(<<>>, full)
    <3>1. <<>> \in Seq(Word) /\ Len(<<>>) = 0
      OBVIOUS
    <3>2. Len(<<>>) <= n + 2 /\ \A i \in 1..Len(<<>>) : <<>>[i] = full[i]
      BY <1>1, <3>1
    <3> QED
      BY <2>1, <3>1, <3>2, Zenon
  <2>3. Begins(g, full)
    BY <1>1, <1>2, <2>1 DEF n
  <2>4. Begins(Answer, full)
    BY <1>1, <1>2, <1>3, <2>1
  <2>5. Begins(full, full)
    BY <1>1, <1>2, <2>1
  <2> QED
    BY <2>2, <2>3, <2>4, <2>5, Zenon
<1>5. CASE to = "none"
  <2>1. down = <<>> \/ down = g
    BY <1>5, Zenon DEF ServerInv, DownInv, g, Early
  <2>2. down \in Seq(Word) /\ \A i \in 1..Len(down) : down[i] = "proof"
    <3>1. CASE down = <<>>
      BY <3>1
    <3>2. CASE down = g
      BY <1>1, <3>2, Zenon DEF n
    <3> QED
      BY <2>1, <3>1, <3>2, Zenon
  <2>3. ~Told("resp")
    BY <2>2, LenProperties, Zenon DEF Told
  <2> QED
    BY <1>4, <1>5, <2>1, <2>2, <2>3, Zenon DEF full, g
<1>6. CASE to = "decoy"
  <2>1. down = <<>> \/ down = <<"d">>
    BY <1>6, Zenon DEF ServerInv, DownInv, Early
  <2>2. /\ down \in Seq(Word) /\ \A i \in DOMAIN down : down[i] = "d"
        /\ ~Told("d") => down = <<>>
    <3>1. CASE down = <<>>
      BY <3>1
    <3>2. CASE down = <<"d">>
      <4>1. down \in Seq(Word) /\ DOMAIN down = {1} /\ down[1] = "d"
        BY <3>2 DEF Word
      <4> QED
        BY <4>1, Zenon DEF Told
    <3> QED
      BY <2>1, <3>1, <3>2, Zenon
  <2>3. ~Told("resp")
    BY <2>2, Zenon DEF Told
  <2> QED
    BY <1>6, <2>2, <2>3, Zenon
<1>7. CASE to = "target"
  <2>1. down = Answer \/ down = full
    BY <1>7, Zenon DEF ServerInv, DownInv, Answers, full, g, Early
  <2>2. down = full => Told("r")
    <3>1. n + 2 \in DOMAIN full
      BY <1>1, <1>2, LenProperties
    <3> QED
      BY <1>2, <3>1, Zenon DEF Told
  <2> QED
    BY <1>2, <1>3, <1>4, <1>7, <2>1, <2>2, ZenonT(40) DEF full, g
<1> QED
  BY <1>5, <1>6, <1>7, Zenon DEF ServerInv, ServerTypeOK

\* A unit is relayed to the peer.
LEMMA RelayDownKeeps ==
  ASSUME ServerInv, RelayDown
  PROVE  ServerInv'
<1> USE DEF ServerInv
<1>1. /\ pc = "relay" /\ UNCHANGED <<script, sent, users, revoked, pc, taken, buf, to, up, guards, count>>
      /\ to = "decoy" \/ to = "target"
  BY Zenon DEF RelayDown, Steps, DownInv, ServerTypeOK, Early
<1>a. ServerTypeOK' /\ UpInv'
  BY <1>1, ScriptFixed, Zenon DEF ServerTypeOK, UpInv, Early
<1>b. CountInv'
  BY <1>1, ScriptFixed DEF CountInv, Early
<1>2. CASE to = "decoy"
  <2>1. ~Told("d") /\ down' = Append(down, "d")
    BY <1>2, Zenon DEF RelayDown
  <2>2. down' = <<"d">>
    BY <1>2, <2>1, WordsTold
  <2>3. DownInv'
    BY <1>1, <1>2, <2>2, ScriptFixed, ZenonT(40) DEF DownInv, Early
  <2> QED
    BY <1>a, <1>b, <2>3, Zenon
<1>3. CASE to = "target"
  <2>1. ~Told("r") /\ down' = Append(down, "r")
    BY <1>3, Zenon DEF RelayDown
  <2>2. down' = Greeting \o <<"resp", "r">>
    BY <1>3, <2>1, WordsTold, AnswerWords, Zenon
  <2>3. down' \in Answers
    BY <2>2, Zenon DEF Answers
  <2>4. DownInv'
    BY <1>1, <1>3, <2>3, ScriptFixed DEF DownInv, Early
  <2> QED
    BY <1>a, <1>b, <2>4
<1> QED
  BY <1>1, <1>2, <1>3, Zenon

\* The relay ends.
LEMMA RelayEndsKeeps ==
  ASSUME ServerInv, RelayEnds \/ RelayFails
  PROVE  ServerInv'
<1>1. pc = "relay" /\ pc # "over"
  BY Zenon DEF RelayEnds, RelayFails
<1>2. ASSUME NEW o \in Outcomes PROVE Even(RelayCounts(o))
  <2>1. CASE to = "decoy" /\ Triaged /\ guards = NoGuards
    <3>1. RelayCounts(o) = Bump(count, "forwarded") /\ "forwarded" \in Outcomes
      BY <2>1, Zenon DEF RelayCounts, Outcomes
    <3> QED
      BY <1>1, <2>1, <3>1, EvenBumped, Zenon
  <2>2. CASE to = "decoy" /\ ~(Triaged /\ guards = NoGuards)
    <3>1. RelayCounts(o) = count
      BY <2>2, Zenon DEF RelayCounts
    <3> QED
      BY <1>1, <2>2, <3>1, EvenAsIs, Zenon
  <2>3. CASE to # "decoy" /\ (Xray \/ script.cmd = "Mux")
    <3>1. RelayCounts(o) = Bump(count, o)
      BY <2>3, Zenon DEF RelayCounts
    <3> QED
      BY <1>1, <2>3, <3>1, EvenBumped, Zenon
  <2>4. CASE to # "decoy" /\ ~(Xray \/ script.cmd = "Mux")
    <3>1. RelayCounts(o) = count
      BY <2>4, Zenon DEF RelayCounts
    <3> QED
      BY <1>1, <2>4, <3>1, EvenAsIs, Zenon
  <2> QED
    BY <2>1, <2>2, <2>3, <2>4, Zenon
<1>3. \E o \in Outcomes : Ends(RelayCounts(o))
  <2>1. IdleResults \subseteq Outcomes /\ "ok" \in Outcomes /\ "error" \in Outcomes
    BY Zenon DEF IdleResults, Outcomes
  <2> QED
    BY <2>1, Zenon DEF RelayEnds, RelayFails
<1> QED
  BY <1>1, <1>2, <1>3, EndsKeep, Zenon

\* Every step of the connection keeps the invariant.
LEMMA ServerStep == ServerInv /\ [ServerNext]_serverVars => ServerInv'
<1> SUFFICES ASSUME ServerInv, [ServerNext]_serverVars PROVE ServerInv'
  BY Zenon
<1>1. CASE UNCHANGED serverVars
  <2>1. UNCHANGED <<script, pc, sent, taken, users, revoked, buf, to, up, down, guards, count>>
    BY <1>1, Zenon DEF serverVars
  <2>2. ServerTypeOK' /\ UpInv'
    BY <2>1, ScriptFixed, ZenonT(60) DEF ServerInv, ServerTypeOK, UpInv, Early
  <2>3. DownInv'
    BY <2>1, ScriptFixed DEF ServerInv, DownInv, Early
  <2>4. CountInv'
    BY <2>1, ScriptFixed DEF ServerInv, CountInv, Early
  <2> QED
    BY <2>2, <2>3, <2>4, Zenon DEF ServerInv
<1>2. CASE Task
  BY <1>2, TriageKeeps, ToDecoyKeeps, TlsKeeps, CarrierSessionKeeps, FirstByteKeeps,
     ReadRequestKeeps, DialedKeeps, RespondKeeps, FirstRecordKeeps, RelayUpKeeps, RelayDownKeeps, RelayEndsKeeps, Zenon DEF Task
<1> QED
  BY <1>1, <1>2, WorldKeeps, DialedKeeps, RelayEndsKeeps, Zenon DEF ServerNext

\* A connection that was just accepted.
LEMMA ServerStart == ServerInit => ServerInv
<1> SUFFICES ASSUME ServerInit PROVE ServerInv
  BY Zenon
<1>1. /\ pc = IF Triaged THEN "triage" ELSE "tls"
      /\ sent = 0 /\ taken = 0 /\ users = {"u"} /\ ~revoked /\ buf = <<>> /\ to = "none"
      /\ up = <<>> /\ down = <<>> /\ guards = NoGuards
      /\ count = [k \in OutcomesAndKinds |-> 0]
  BY Zenon DEF ServerInit, Accepted, OutcomesAndKinds
<1>a. script.cmd \in Kinds
  BY ScriptsAssumption, Zenon DEF ServerInit, Kinds
<1>2. ServerTypeOK
  BY <1>1, <1>a, StreamType DEF ServerTypeOK, Places, NoGuards
<1>3. UpInv /\ DownInv
  BY <1>1, Zenon DEF UpInv, DownInv, Early
<1>4. CountInv
  BY <1>1 DEF CountInv, OutcomesAndKinds, NoGuards, Early
<1> QED
  BY <1>2, <1>3, <1>4, Zenon DEF ServerInv

\* The inductive invariant holds of every behaviour.
THEOREM ServerHolds == ServerSpec => []ServerInv
<1> QED
  BY ServerStart, ServerStep, PTL DEF ServerSpec

\* handle_session, handle_vision_tls, handle_selfsteal and what they call: for every peer and every
\* configuration, what reaches the far side is the peer's stream from its first byte (the decoy) or
\* the payload of a user not removed before the request was read (the target), once and in order, however it was cut; and the
\* peer is told nothing but what its door, its request and the far side entitle it to, in order.
THEOREM ConnectionsAreExact == ServerSpec => []BothSidesExact
<1>1. ServerInv => BothSidesExact
  <2> SUFFICES ASSUME ServerInv PROVE BothSidesExact
    BY Zenon
  <2>1. UpExact
    BY PassedOn, ZenonT(60) DEF UpExact, ServerInv, DownInv, Early
  <2>2. Triaged /\ ~Known => \A i \in DOMAIN down : down[i] = "d"
    BY WordsTold DEF ServerInv, DownInv, ServerTypeOK, Early
  <2>3. AnswersInOrder
    BY <2>2, WordsTold, Zenon DEF AnswersInOrder, ServerInv, DownInv, Known, Early
  <2> QED
    BY <2>1, <2>3, Zenon DEF BothSidesExact
<1> QED
  BY <1>1, ServerHolds, PTL

\* ActiveGuard and the counters of the handlers: wherever a connection returns, the gauges are back
\* where they were, it is counted at most once, and behind the Vision handler's doors an answered
\* session exactly once.
THEOREM GaugesComeBack == ServerSpec => []GaugesReturn
<1>1. ServerInv => GaugesReturn
  <2> SUFFICES ASSUME ServerInv PROVE GaugesReturn
    OBVIOUS
  <2>1. Told("resp") => to = "target"
    BY WordsTold, Zenon
  <2> QED
    BY <2>1, Zenon DEF GaugesReturn, ServerInv, CountInv, Early
<1> QED
  BY <1>1, ServerHolds, PTL
=============================================================================
