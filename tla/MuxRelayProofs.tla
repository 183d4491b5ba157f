--------------------------- MODULE MuxRelayProofs ---------------------------
(***************************************************************************)
(* Proofs about MuxRelay, for every set of sub-sessions, targets,          *)
(* addresses and links, every channel and pipe capacity: the links of a    *)
(* sub-session carry only its datagrams, it never holds two to one address *)
(* or one left over from an earlier life of its id, and a reply from       *)
(* behind the cascade goes only to an id that asked.                       *)
(***************************************************************************)
EXTENDS MuxRelay, SequenceTheorems, TLAPS

-----------------------------------------------------------------------------
(* The inductive invariant *)

\* A reply on its way bears the sub-session and the address of the link it came by.
OwnReply(own, r) ==
    own[r.via] # None /\ r.sid = own[r.via].sid /\ r.src = own[r.via].addr

\* So does one that is written, and one of another life than its link's came by a dropped link.
OwnAnswer(own, a) ==
    OwnReply(own, a.reply) /\ (a.life # own[a.reply.via].life => a.late)

\* A link that is not open has no task and carries nothing; one that goes up the cascade was
\* opened for an address its sub-session had sent to, in the same life.
LinkInv ==
    /\ \A l \in Links : owner[l] = None => task[l] = "none" /\ up[l] = <<>>
    /\ \A l \in Links : Chain(l) => <<owner[l].sid, owner[l].life, owner[l].addr>> \in asked

\* The datagram the loop is writing goes to a link of its own sub-session, life and address.
WriteInv ==
    pc = "write" =>
        /\ owner[cur.link] # None
        /\ cur.dg.sid = owner[cur.link].sid /\ cur.dg.life = owner[cur.link].life
        /\ cur.dg.addr \in {owner[cur.link].addr, None}

\* Replies keep their owner on the way to the client: in the channel, with the loop, written.
ReplyInv ==
    /\ \A i \in 1 .. Len(resp) : OwnReply(owner, resp[i])
    /\ \A i \in 1 .. Len(answers) :
          /\ OwnAnswer(owner, answers[i])
          /\ (answers[i].form = "padded") <=> (Vision /\ i = 1)
    /\ pc = "reply" =>
          /\ OwnAnswer(owner, cur) /\ pad = FALSE
          /\ (cur.form = "padded") <=> (Vision /\ Len(answers) = 0)
    /\ pc \notin {"reply", "ended"} => (pad <=> (Vision /\ Len(answers) = 0))

MuxInv == TypeOK /\ OneLinkPerAddress /\ CarriesItsOwn /\ LinkInv /\ WriteInv /\ ReplyInv

-----------------------------------------------------------------------------
(* Lemmas about the operators *)

\* The next frame and the frames behind it.
LEMMA FrameTaken ==
  ASSUME tun \in Seq(Frames), Took
  PROVE  /\ tun' \in Seq(Frames) /\ Head(tun) \in Frames
<1> QED
  BY HeadTailProperties, Zenon DEF Took

\* The fields of a frame.
LEMMA FrameIs ==
  ASSUME NEW f \in Frames
  PROVE  /\ f.sid \in Sids
         /\ f.status = "data" => f.tgt \in Targets \cup {None}
         /\ f.status = "data" /\ f.tgt # None => f \in [status : {"data"}, sid : Sids, tgt : Targets]
BY DEF Frames

\* An owner is never None, and its address is behind the cascade or stands for a local socket.
LEMMA OwnerIs ==
  ASSUME NEW sid \in Sids, NEW n \in Nat, NEW addr \in Addrs \cup {Local}
  PROVE  /\ [sid |-> sid, life |-> n, addr |-> addr] \in Owners
         /\ [sid |-> sid, life |-> n, addr |-> addr] # None
BY MuxAssumption DEF Owners

\* The fields of an open link's owner.
LEMMA OwnerFields ==
  ASSUME TypeOK, NEW l \in Links, owner[l] # None
  PROVE  owner[l].sid \in Sids /\ owner[l].life \in Nat /\ owner[l].addr \in Addrs \cup {Local}
BY DEF TypeOK, Owners

\* The capacities and the bounds are numbers, and every channel holds something.
LEMMA Bounds ==
  /\ RespCap \in Nat /\ RespCap > 0 /\ PipeCap \in Nat /\ PipeCap > 0
  /\ MaxFrames \in Nat /\ MaxReplies \in Nat
<1>1. RespCap \in Nat \ {0} /\ PipeCap \in Nat \ {0} /\ MaxFrames \in Nat /\ MaxReplies \in Nat
  BY MuxAssumption, Zenon
<1> QED
  BY <1>1

-----------------------------------------------------------------------------
(* The invariant holds initially and every step keeps it *)

\* The invariant holds when the relay starts.
LEMMA MuxInit == Init => MuxInv
<1> SUFFICES ASSUME Init PROVE MuxInv
  BY Zenon
<1>1. TypeOK
  <2>1. up \in [Links -> Seq(Datagrams)]
    BY DEF Init
  <2>2. /\ resp \in Seq(Replies) /\ Len(resp) <= RespCap /\ tun \in Seq(Frames)
        /\ answers \in Seq(Answers)
    BY MuxAssumption DEF Init
  <2>3. /\ sent \in 0 .. MaxFrames /\ replies \in 0 .. MaxReplies
        /\ down \in [Links -> 0 .. PipeCap] /\ life \in [Sids -> Nat]
    BY MuxAssumption DEF Init
  <2>4. Holding
    BY DEF Init, Holding
  <2> QED
    BY <2>1, <2>2, <2>3, <2>4, MuxAssumption, Zenon DEF Init, TypeOK
<1>2. OneLinkPerAddress /\ CarriesItsOwn
  BY DEF Init, OneLinkPerAddress, CarriesItsOwn
<1>3. LinkInv /\ WriteInv
  BY DEF Init, LinkInv, WriteInv, Chain
<1>4. ReplyInv
  BY MuxAssumption DEF Init, ReplyInv
<1> QED
  BY <1>1, <1>2, <1>3, <1>4, Zenon DEF MuxInv

\* Taking datagrams out of the sessions leaves the others where they belong.
LEMMA CarriesKept ==
  ASSUME TypeOK, CarriesItsOwn, owner' = owner,
         \A l \in Links : up'[l] = up[l] \/ (up[l] # <<>> /\ up'[l] = Tail(up[l]))
  PROVE  CarriesItsOwn'
<1> SUFFICES ASSUME NEW l \in Links, NEW i \in 1 .. Len(up'[l])
             PROVE  /\ up'[l][i].sid = owner[l].sid /\ up'[l][i].life = owner[l].life
                    /\ up'[l][i].addr \in {owner[l].addr, None}
  BY Zenon DEF CarriesItsOwn
<1>1. up[l] \in Seq(Datagrams)
  BY Zenon DEF TypeOK
<1>2. CASE up'[l] = up[l]
  BY <1>2, Zenon DEF CarriesItsOwn
<1>3. CASE up[l] # <<>> /\ up'[l] = Tail(up[l])
  <2>1. /\ Len(up[l]) \in Nat /\ Len(up'[l]) = Len(up[l]) - 1
        /\ up'[l][i] = up[l][i + 1]
    BY <1>1, <1>3, HeadTailProperties, LenProperties
  <2>2. i + 1 \in 1 .. Len(up[l])
    BY <2>1
  <2> QED
    BY <2>1, <2>2, Zenon DEF CarriesItsOwn
<1> QED
  BY <1>2, <1>3, Zenon

\* What the client and the exits do leaves owners, tasks and replies alone.
LEMMA OthersKeep ==
  ASSUME MuxInv, TypeOK',
         UNCHANGED <<owner, held, life, asked, task, resp, answers, pad, pc, cur>>,
         \A l \in Links : up'[l] = up[l] \/ (up[l] # <<>> /\ up'[l] = Tail(up[l]))
  PROVE  MuxInv'
<1> USE DEF MuxInv
<1>1. OneLinkPerAddress'
  BY Zenon DEF OneLinkPerAddress
<1>2. CarriesItsOwn'
  BY CarriesKept, Zenon
<1>3. LinkInv'
  BY Zenon DEF LinkInv, Chain
<1>4. WriteInv'
  BY Zenon DEF WriteInv
<1>5. ReplyInv'
  BY Zenon DEF ReplyInv, OwnReply, OwnAnswer
<1> QED
  BY <1>1, <1>2, <1>3, <1>4, <1>5, Zenon

\* The loop goes on to another state, with no new link and no reply in hand.
LEMMA SameLinksKeep ==
  ASSUME MuxInv, TypeOK', WriteInv', asked \subseteq asked', pc \notin {"reply", "ended"},
         pc' # "reply", UNCHANGED <<owner, held, life, task, resp, up, answers, pad>>
  PROVE  MuxInv'
<1> USE DEF MuxInv
<1>1. OneLinkPerAddress'
  BY Zenon DEF OneLinkPerAddress
<1>2. CarriesItsOwn'
  BY Zenon DEF CarriesItsOwn
<1>3. LinkInv'
  BY Zenon DEF LinkInv, Chain
<1>4. ReplyInv'
  BY ZenonT(40) DEF ReplyInv, OwnReply, OwnAnswer
<1> QED
  BY <1>1, <1>2, <1>3, <1>4, Zenon

\* A link is opened for a sub-session that holds none to the address.
LEMMA OpenKeeps ==
  ASSUME MuxInv, TypeOK', WriteInv', asked \subseteq asked', pc \notin {"reply", "ended"},
         pc' # "reply", UNCHANGED <<resp, up, answers, pad>>,
         NEW l \in Links, NEW sid \in Sids, NEW addr \in Addrs \cup {Local},
         Open(l, sid, addr), HeldLinks(sid, addr) = {},
         addr # Local => <<sid, life[sid], addr>> \in asked'
  PROVE  MuxInv'
<1> USE DEF MuxInv
<1> DEFINE o == [sid |-> sid, life |-> life[sid], addr |-> addr]
<1>1. /\ owner[l] = None /\ owner' = [owner EXCEPT ![l] = o] /\ held' = held \cup {l}
      /\ task' = [task EXCEPT ![l] = "read"] /\ life' = life
  BY Zenon DEF Open
<1>2. o # None /\ o.sid = sid /\ o.life = life[sid] /\ o.addr = addr
  <2>1. life[sid] \in Nat
    BY Zenon DEF TypeOK
  <2> QED
    BY <2>1, OwnerIs, Zenon
<1> HIDE DEF o
<1>3. /\ l \notin held /\ owner'[l] = o /\ task'[l] = "read"
      /\ \A m \in Links : m # l => owner'[m] = owner[m] /\ task'[m] = task[m]
      /\ up[l] = <<>> /\ held \subseteq Links
  BY <1>1 DEF TypeOK, LinkInv
<1>4. OneLinkPerAddress'
  <2>1. \A m \in held : m # l /\ (owner[m].sid # sid \/ owner[m].addr # addr) /\ owner'[m] = owner[m]
    BY <1>3, Zenon DEF HeldLinks
  <2>2. \A m, n \in held' :
           owner'[m].sid = owner'[n].sid /\ owner'[m].addr = owner'[n].addr => m = n
    <3> SUFFICES ASSUME NEW m \in held \cup {l}, NEW n \in held \cup {l},
                        owner'[m].sid = owner'[n].sid, owner'[m].addr = owner'[n].addr
                 PROVE  m = n
      BY <1>1, Zenon
    <3>1. CASE m \in held /\ n \in held
      BY <2>1, <3>1, Zenon DEF OneLinkPerAddress
    <3>2. CASE m = l \/ n = l
      BY <1>2, <1>3, <2>1, <3>2, Zenon
    <3> QED
      BY <3>1, <3>2, Zenon
  <2>3. \A m \in held' : owner'[m].life = life'[owner'[m].sid]
    BY <1>1, <1>2, <1>3, <2>1, ZenonT(60) DEF OneLinkPerAddress
  <2> QED
    BY <2>2, <2>3, Zenon DEF OneLinkPerAddress
<1>5. CarriesItsOwn'
  <2> SUFFICES ASSUME NEW m \in Links, NEW i \in 1 .. Len(up[m])
               PROVE  /\ up[m][i].sid = owner'[m].sid /\ up[m][i].life = owner'[m].life
                      /\ up[m][i].addr \in {owner'[m].addr, None}
    BY Zenon DEF CarriesItsOwn
  <2>1. m # l
    BY <1>3
  <2> QED
    BY <1>3, <2>1, Zenon DEF CarriesItsOwn
<1>6. LinkInv'
  <2>1. \A m \in Links : owner'[m] = None => task'[m] = "none" /\ up'[m] = <<>>
    BY <1>2, <1>3, Zenon DEF LinkInv
  <2>2. \A m \in Links : Chain(m)' => <<owner'[m].sid, owner'[m].life, owner'[m].addr>> \in asked'
    BY <1>2, <1>3, Zenon DEF LinkInv, Chain
  <2> QED
    BY <2>1, <2>2, Zenon DEF LinkInv
<1>7. ReplyInv'
  <2>1. \A m \in Links : owner[m] # None => owner'[m] = owner[m]
    BY <1>1, <1>3, Zenon
  <2>2. ASSUME NEW r \in Replies, OwnReply(owner, r)
        PROVE  OwnReply(owner', r) /\ owner'[r.via] = owner[r.via]
    <3>1. r.via \in Links
      BY Zenon DEF Replies
    <3> QED
      BY <2>1, <2>2, <3>1, Zenon DEF OwnReply
  <2>3. \A i \in 1 .. Len(resp) : OwnReply(owner', resp[i])
    <3>1. \A i \in 1 .. Len(resp) : resp[i] \in Replies
      BY ElementOfSeq, Zenon DEF TypeOK
    <3> QED
      BY <2>2, <3>1, Zenon DEF ReplyInv
  <2>4. \A i \in 1 .. Len(answers) : OwnAnswer(owner', answers[i])
    <3>1. \A i \in 1 .. Len(answers) : answers[i] \in Answers
      BY ElementOfSeq, Zenon DEF TypeOK
    <3>2. \A i \in 1 .. Len(answers) : answers[i].reply \in Replies
      BY <3>1, Zenon DEF Answers
    <3> QED
      BY <2>2, <3>2, Zenon DEF ReplyInv, OwnAnswer
  <2> QED
    BY <2>3, <2>4, ZenonT(40) DEF ReplyInv
<1> QED
  BY <1>4, <1>5, <1>6, <1>7, Zenon

\* The loop starts writing a datagram to a link that is held.
LEMMA WriteStarts ==
  ASSUME MuxInv, NEW l \in Links, NEW sid \in Sids, NEW addr \in Addrs \cup {None},
         Write(l, sid, addr), owner'[l] # None, owner'[l].sid = sid, owner'[l].life = life[sid],
         addr \in {owner'[l].addr, None}
  PROVE  WriteInv' /\ Holding' /\ pc' = "write"
<1>1. life[sid] \in Nat
  BY Zenon DEF MuxInv, TypeOK
<1> DEFINE d == [sid |-> sid, life |-> life[sid], addr |-> addr]
<1>2. d \in Datagrams
  BY <1>1, Zenon DEF Datagrams
<1>3. pc' = "write" /\ cur' = [link |-> l, dg |-> d]
  BY Zenon DEF Write
<1>4. d.sid = sid /\ d.life = life[sid] /\ d.addr = addr
  OBVIOUS
<1> HIDE DEF d
<1>5. cur' \in [link : Links, dg : Datagrams] /\ cur'.link = l /\ cur'.dg = d
  BY <1>2, <1>3, Zenon
<1> QED
  BY <1>3, <1>4, <1>5 DEF WriteInv, Holding

\* A data frame: the loop waits for its target, writes to the only link, or gives up.
LEMMA DataFrameKeeps ==
  ASSUME MuxInv, DataFrame
  PROVE  MuxInv'
<1> USE DEF MuxInv
<1> DEFINE f == Head(tun)
<1>1. /\ tun' \in Seq(Frames) /\ f \in Frames /\ f.status = "data" /\ pc = "loop"
  BY FrameTaken, Zenon DEF DataFrame, TypeOK, Took
<1>2. UNCHANGED <<sent, open, pad, answers, asked, owner, held, life, task, resp, up, down,
                  exit, replies>>
  BY Zenon DEF DataFrame, client, link, exits
<1>3. \/ f.tgt # None /\ pc' = "dial" /\ cur' = f
      \/ f.tgt = None /\ SendUntargeted(f)
  BY Zenon DEF DataFrame
<1> HIDE DEF f
<1>4. f.sid \in Sids /\ (f.tgt # None => f \in [status : {"data"}, sid : Sids, tgt : Targets])
  BY <1>1, FrameIs, Zenon
<1>5. ASSUME WriteInv', Holding', pc' \in {"loop", "dial", "write"} PROVE MuxInv'
  <2>1. TypeOK'
    BY <1>1, <1>2, <1>5, ZenonT(40) DEF TypeOK
  <2> QED
    BY <1>1, <1>2, <1>5, <2>1, SameLinksKeep, ZenonT(40)
<1>6. CASE f.tgt # None /\ pc' = "dial" /\ cur' = f
  BY <1>4, <1>5, <1>6 DEF WriteInv, Holding
<1>7. CASE f.tgt = None /\ SendUntargeted(f)
  <2>1. ASSUME NEW l \in held, owner[l].sid = f.sid, Write(l, f.sid, None) PROVE MuxInv'
    <3>1. l \in Links /\ owner'[l] # None /\ owner'[l].sid = f.sid /\ owner'[l].life = life[f.sid]
      BY <1>2, <2>1, ZenonT(40) DEF TypeOK, OneLinkPerAddress
    <3> QED
      BY <1>4, <1>5, <2>1, <3>1, WriteStarts, ZenonT(40)
  <2>2. ASSUME UNCHANGED <<pc, cur>> PROVE MuxInv'
    <3>1. Holding' /\ WriteInv'
      BY <1>1, <2>2 DEF TypeOK, Holding, WriteInv
    <3> QED
      BY <1>1, <1>5, <2>2, <3>1, Zenon
  <2> QED
    BY <1>7, <2>1, <2>2, Zenon DEF SendUntargeted
<1> QED
  BY <1>3, <1>6, <1>7, Zenon

\* The target is resolved: a link to write to, a link opened, or the datagram given up.
LEMMA DialedKeeps ==
  ASSUME MuxInv, Dialed
  PROVE  MuxInv'
<1> USE DEF MuxInv
<1>1. /\ pc = "dial" /\ cur.sid \in Sids /\ life[cur.sid] \in Nat
      /\ UNCHANGED <<sent, open, tun, pad, answers, resp, up, down, replies>>
  <2>1. cur \in [status : {"data"}, sid : Sids, tgt : Targets]
    BY Zenon DEF Dialed, TypeOK, Holding
  <2>2. cur.sid \in Sids
    BY <2>1
  <2> QED
    BY <2>2, Zenon DEF Dialed, TypeOK, client
\* Without a new link.
<1>2. ASSUME WriteInv', Holding', pc' \in {"loop", "write"}, UNCHANGED <<link, task, exit>>,
             asked \subseteq asked', asked' \subseteq Sids \X Nat \X Addrs
      PROVE  MuxInv'
  <2>0. UNCHANGED <<owner, held, life>>
    BY <1>2, Zenon DEF link
  <2>1. TypeOK'
    BY <1>1, <1>2, <2>0, ZenonT(40) DEF TypeOK
  <2> QED
    BY <1>1, <1>2, <2>0, <2>1, SameLinksKeep, ZenonT(40)
\* With one.
<1>3. ASSUME NEW l \in Links, NEW addr \in Addrs \cup {Local}, Open(l, cur.sid, addr),
             HeldLinks(cur.sid, addr) = {},
             addr # Local => <<cur.sid, life[cur.sid], addr>> \in asked',
             WriteInv', Holding', pc' \in {"loop", "write"},
             asked \subseteq asked', asked' \subseteq Sids \X Nat \X Addrs
      PROVE  MuxInv'
  <2> DEFINE o == [sid |-> cur.sid, life |-> life[cur.sid], addr |-> addr]
  <2>1. o \in Owners /\ o # None
    BY <1>1, OwnerIs, Zenon
  <2>2. /\ owner' = [owner EXCEPT ![l] = o] /\ held' = held \cup {l} /\ life' = life
    BY <1>3, Zenon DEF Open
  <2>3. task' \in [Links -> {"none", "read", "send", "gone"}]
    BY <1>3, Zenon DEF Open, TypeOK
  <2>4. exit' \in [Links -> {"none", "run", "write", "done"}]
    BY <1>3, Zenon DEF Open, TypeOK
  <2> HIDE DEF o
  <2>5. owner' \in [Links -> Owners \cup {None}]
    BY <2>1, <2>2, Zenon DEF TypeOK
  <2>6. held' \subseteq {m \in Links : owner'[m] # None}
    BY <2>1, <2>2 DEF TypeOK
  <2>7. TypeOK'
    BY <1>1, <1>3, <2>2, <2>3, <2>4, <2>5, <2>6, ZenonT(60) DEF TypeOK
  <2> QED
    BY <1>1, <1>3, <2>7, OpenKeeps, ZenonT(60)
<1>4. ASSUME NEW addr \in Addrs, asked' = asked \cup {<<cur.sid, life[cur.sid], addr>>}
      PROVE  /\ asked \subseteq asked' /\ <<cur.sid, life[cur.sid], addr>> \in asked'
             /\ asked' \subseteq Sids \X Nat \X Addrs
  <2>1. <<cur.sid, life[cur.sid], addr>> \in Sids \X Nat \X Addrs
    BY <1>1
  <2>2. asked \subseteq Sids \X Nat \X Addrs
    BY Zenon DEF TypeOK
  <2> QED
    BY <1>4, <2>1, <2>2, Zenon
<1>5. ASSUME NEW addr \in Addrs, asked' = asked \cup {<<cur.sid, life[cur.sid], addr>>},
             SendChained(cur, addr)
      PROVE  MuxInv'
  <2>1. ASSUME NEW l \in HeldLinks(cur.sid, addr), Write(l, cur.sid, addr),
               UNCHANGED <<link, task, exit>>
        PROVE  MuxInv'
    <3>1. UNCHANGED <<owner, held, life>>
      BY <2>1, Zenon DEF link
    <3>2. /\ l \in Links /\ owner'[l] # None /\ owner'[l].sid = cur.sid
          /\ owner'[l].addr = addr /\ owner'[l].life = life[cur.sid]
      BY <2>1, <3>1, ZenonT(40) DEF HeldLinks, TypeOK, OneLinkPerAddress
    <3>3. WriteInv' /\ Holding' /\ pc' = "write"
      BY <1>1, <2>1, <3>2, WriteStarts, ZenonT(40)
    <3> QED
      BY <1>2, <1>4, <1>5, <2>1, <3>3, ZenonT(40)
  <2>2. ASSUME NEW l \in Links, HeldLinks(cur.sid, addr) = {}, Open(l, cur.sid, addr),
               Write(l, cur.sid, addr)
        PROVE  MuxInv'
    <3>1. owner'[l] = [sid |-> cur.sid, life |-> life[cur.sid], addr |-> addr]
      BY <2>2, Zenon DEF Open, TypeOK
    <3>2. /\ owner'[l] # None /\ owner'[l].sid = cur.sid /\ owner'[l].addr = addr
          /\ owner'[l].life = life[cur.sid]
      <4>1. owner'[l] # None
        BY <1>1, <3>1, OwnerIs, Zenon
      <4> QED
        BY <3>1, <4>1
    <3>3. WriteInv' /\ Holding' /\ pc' = "write"
      BY <1>1, <2>2, <3>2, WriteStarts, ZenonT(40)
    <3> QED
      BY <1>3, <1>4, <1>5, <2>2, <3>3, ZenonT(40)
  <2> QED
    BY <1>5, <2>1, <2>2, Zenon DEF SendChained
<1>6. asked \subseteq asked /\ asked \subseteq Sids \X Nat \X Addrs
  BY Zenon DEF TypeOK
<1>7. ASSUME Finish PROVE WriteInv' /\ Holding' /\ pc' = "loop"
  BY <1>7 DEF Finish, WriteInv, Holding
<1>8. CASE SendLocal(cur) /\ UNCHANGED asked
  <2>1. Finish
    BY <1>8, Zenon DEF SendLocal
  <2>2. CASE UNCHANGED <<link, task, exit>>
    BY <1>2, <1>6, <1>7, <1>8, <2>1, <2>2, Zenon
  <2>3. ASSUME NEW l \in Links, HeldLinks(cur.sid, Local) = {}, Open(l, cur.sid, Local) PROVE MuxInv'
    BY <1>3, <1>6, <1>7, <1>8, <2>1, <2>3, Zenon
  <2> QED
    BY <1>8, <2>2, <2>3, Zenon DEF SendLocal
<1>9. CASE Finish /\ UNCHANGED <<asked, link, task, exit>>
  BY <1>2, <1>6, <1>7, <1>9, Zenon
<1> QED
  BY <1>5, <1>8, <1>9, Zenon DEF Dialed

\* Ending a sub-session: its links leave the map and the id begins another life.
LEMMA EndFrameKeeps ==
  ASSUME MuxInv, EndFrame
  PROVE  MuxInv'
<1> USE DEF MuxInv
<1> DEFINE s == Head(tun).sid
<1>1. /\ tun' \in Seq(Frames) /\ s \in Sids
  BY FrameTaken, FrameIs, Zenon DEF EndFrame, TypeOK
<1>2. /\ held' = held \ Ended(s) /\ life' = [life EXCEPT ![s] = life[s] + 1]
      /\ UNCHANGED <<sent, open, pc, cur, pad, answers, asked, owner, task, resp, up, down,
                     exit, replies>>
  BY Zenon DEF EndFrame, client, loop, exits
<1> HIDE DEF s
<1>3. /\ life' \in [Sids -> Nat] /\ \A t \in Sids : t # s => life'[t] = life[t]
      /\ held' \subseteq held /\ \A l \in held' : owner[l].sid # s
  <2>1. life[s] + 1 \in Nat
    BY <1>1 DEF TypeOK
  <2>2. life' \in [Sids -> Nat] /\ \A t \in Sids : t # s => life'[t] = life[t]
    BY <1>1, <1>2, <2>1, Zenon DEF TypeOK
  <2> QED
    BY <1>2, <2>2, Zenon DEF Ended
<1>4. TypeOK'
  BY <1>1, <1>2, <1>3, ZenonT(40) DEF TypeOK, Holding
<1>5. OneLinkPerAddress'
  <2>1. \A l \in held' : owner[l].sid \in Sids
    <3>1. \A l \in held' : l \in Links /\ owner[l] # None
      BY <1>3, Zenon DEF TypeOK
    <3> QED
      BY <3>1, OwnerFields, Zenon
  <2> QED
    BY <1>2, <1>3, <2>1, ZenonT(60) DEF OneLinkPerAddress
<1>6. CarriesItsOwn'
  BY <1>2, Zenon DEF CarriesItsOwn
<1>7. LinkInv' /\ WriteInv'
  BY <1>2, Zenon DEF LinkInv, WriteInv, Chain
<1>8. ReplyInv'
  BY <1>2, ZenonT(40) DEF ReplyInv, OwnReply, OwnAnswer
<1> QED
  BY <1>4, <1>5, <1>6, <1>7, <1>8, Zenon

\* The ways out of the loop and out of the relay.
LEMMA EndsKeep ==
  ASSUME MuxInv, TunnelFails \/ TunnelEof \/ IdleTimeout \/ Closed
  PROVE  MuxInv'
<1> USE DEF MuxInv
<1>1. CASE Return
  <2>1. /\ pc' = "ended" /\ cur' = None /\ held' = {} /\ resp' = <<>> /\ tun' = <<>>
        /\ UNCHANGED <<sent, open, pad, answers, asked, owner, life, task, up, down, exit, replies>>
    BY <1>1, Zenon DEF Return, client, exits
  <2>2. TypeOK'
    BY <2>1, Bounds DEF TypeOK, Holding
  <2>3. OneLinkPerAddress' /\ CarriesItsOwn'
    BY <2>1, ZenonT(60) DEF OneLinkPerAddress, CarriesItsOwn
  <2>4. LinkInv' /\ WriteInv'
    BY <2>1, Zenon DEF LinkInv, WriteInv, Chain
  <2>5. ReplyInv'
    <3>1. 1 .. Len(<<>>) = {}
      OBVIOUS
    <3> QED
      BY <2>1, <3>1, ZenonT(60) DEF ReplyInv, OwnReply, OwnAnswer
  <2> QED
    BY <2>2, <2>3, <2>4, <2>5, Zenon
<1>2. CASE Break /\ pc = "loop"
  <2>1. /\ pc' = "close"
        /\ UNCHANGED <<sent, open, tun, cur, pad, answers, asked, owner, held, life, task, resp,
                       up, down, exit, replies>>
    BY <1>2, Zenon DEF Break, client, link, exits
  <2>2. Holding' /\ WriteInv'
    BY <1>2, <2>1 DEF TypeOK, Holding, WriteInv
  <2>3. TypeOK'
    BY <2>1, <2>2, ZenonT(40) DEF TypeOK
  <2> QED
    BY <1>2, <2>1, <2>2, <2>3, SameLinksKeep, ZenonT(40)
<1> QED
  BY <1>1, <1>2, Zenon DEF TunnelFails, TunnelEof, IdleTimeout, Closed

\* The client's own steps.
LEMMA ClientKeeps ==
  ASSUME MuxInv, ClientCloses \/ \E f \in Frames : ClientSends(f)
  PROVE  MuxInv'
<1> USE DEF MuxInv
<1>1. UNCHANGED <<pc, cur, pad, answers, asked, owner, held, life, task, resp, up, down,
                  exit, replies>>
  BY Zenon DEF ClientCloses, ClientSends, loop, link, exits
<1>2. sent' \in 0 .. MaxFrames /\ open' \in BOOLEAN /\ tun' \in Seq(Frames)
  <2>1. ASSUME NEW f \in Frames, ClientSends(f)
        PROVE  sent' \in 0 .. MaxFrames /\ open' = open /\ tun' \in Seq(Frames)
    <3>1. tun' \in Seq(Frames)
      BY <2>1, AppendProperties, Zenon DEF ClientSends, TypeOK
    <3>2. sent' \in 0 .. MaxFrames
      BY <2>1, Bounds DEF ClientSends, TypeOK
    <3> QED
      BY <2>1, <3>1, <3>2, Zenon DEF ClientSends
  <2>2. CASE ClientCloses
    BY <2>2, ZenonT(40) DEF ClientCloses, TypeOK
  <2> QED
    BY <2>1, <2>2, Zenon DEF TypeOK
<1>3. TypeOK'
  BY <1>1, <1>2, Zenon DEF TypeOK, Holding
<1> QED
  BY <1>1, <1>3, OthersKeep, Zenon

\* Writing a datagram up a link keeps it.
LEMMA WriteUpKeeps ==
  ASSUME MuxInv, WriteUp
  PROVE  MuxInv'
<1> USE DEF MuxInv
<1> DEFINE l == cur.link
           dg == cur.dg
<1>1. /\ l \in Links /\ dg \in Datagrams /\ owner[l] # None
      /\ dg.sid = owner[l].sid /\ dg.life = owner[l].life /\ dg.addr \in {owner[l].addr, None}
  <2>1. cur \in [link : Links, dg : Datagrams]
    BY Zenon DEF WriteUp, TypeOK, Holding
  <2> QED
    BY <2>1, Zenon DEF WriteUp, WriteInv
<1>2. /\ pc = "write" /\ pc' = "loop" /\ cur' = None
      /\ UNCHANGED <<sent, open, tun, pad, answers, asked, owner, held, life, task, resp, down,
                     exit, replies>>
  BY Zenon DEF WriteUp, Finish, client, link, exits
<1>3. up' = up \/ up' = [up EXCEPT ![l] = Append(@, dg)]
  BY Zenon DEF WriteUp
<1> HIDE DEF l, dg
<1>4. /\ up[l] \in Seq(Datagrams) /\ Append(up[l], dg) \in Seq(Datagrams)
      /\ Len(Append(up[l], dg)) = Len(up[l]) + 1 /\ Len(up[l]) \in Nat
      /\ \A i \in 1 .. Len(up[l]) : Append(up[l], dg)[i] = up[l][i]
      /\ Append(up[l], dg)[Len(up[l]) + 1] = dg
  <2>1. up[l] \in Seq(Datagrams)
    BY <1>1, Zenon DEF TypeOK
  <2> QED
    BY <1>1, <2>1, AppendProperties, LenProperties
<1>5. TypeOK'
  <2>1. up' \in [Links -> Seq(Datagrams)]
    BY <1>1, <1>3, <1>4, Zenon DEF TypeOK
  <2>2. Holding'
    BY <1>2 DEF Holding
  <2> QED
    BY <1>2, <2>1, <2>2, Zenon DEF TypeOK
<1>6. CarriesItsOwn'
  <2>1. CASE up' = up
    BY <1>2, <2>1, Zenon DEF CarriesItsOwn
  <2>2. CASE up' = [up EXCEPT ![l] = Append(@, dg)]
    <3> SUFFICES ASSUME NEW m \in Links, NEW i \in 1 .. Len(up'[m])
                 PROVE  /\ up'[m][i].sid = owner[m].sid /\ up'[m][i].life = owner[m].life
                        /\ up'[m][i].addr \in {owner[m].addr, None}
      BY <1>2, Zenon DEF CarriesItsOwn
    <3>1. CASE m # l
      <4>1. up'[m] = up[m]
        BY <2>2, <3>1, Zenon DEF TypeOK
      <4> QED
        BY <4>1, Zenon DEF CarriesItsOwn
    <3>2. CASE m = l
      <4>1. up'[l] = Append(up[l], dg)
        BY <1>1, <2>2, Zenon DEF TypeOK
      <4>2. i \in 1 .. Len(up[l]) \/ i = Len(up[l]) + 1
        BY <1>4, <3>2, <4>1
      <4>3. CASE i \in 1 .. Len(up[l])
        <5>1. up'[m][i] = up[l][i]
          BY <1>4, <3>2, <4>1, <4>3, Zenon
        <5> QED
          BY <1>1, <3>2, <4>3, <5>1, Zenon DEF CarriesItsOwn
      <4>4. CASE i = Len(up[l]) + 1
        <5>1. up'[m][i] = dg
          BY <1>4, <3>2, <4>1, <4>4, Zenon
        <5> QED
          BY <1>1, <3>2, <5>1, Zenon
      <4> QED
        BY <4>2, <4>3, <4>4, Zenon
    <3> QED
      BY <3>1, <3>2, Zenon
  <2> QED
    BY <1>3, <2>1, <2>2, Zenon
<1>7. OneLinkPerAddress' /\ WriteInv'
  BY <1>2, Zenon DEF OneLinkPerAddress, WriteInv
<1>8. LinkInv'
  <2>1. \A m \in Links : owner[m] = None => up'[m] = up[m]
    BY <1>1, <1>3, Zenon DEF TypeOK
  <2> QED
    BY <1>2, <2>1, Zenon DEF LinkInv, Chain
<1>9. ReplyInv'
  BY <1>2, ZenonT(40) DEF ReplyInv, OwnReply, OwnAnswer
<1> QED
  BY <1>5, <1>6, <1>7, <1>8, <1>9, Zenon

\* The loop takes a reply out of the channel.
LEMMA TakeReplyKeeps ==
  ASSUME MuxInv, TakeReply
  PROVE  MuxInv'
<1> USE DEF MuxInv
<1> DEFINE r == Head(resp)
           a == [reply |-> r, form |-> Padding, life |-> life[r.sid], late |-> r.via \notin held]
<1>1. /\ resp \in Seq(Replies) /\ resp # <<>> /\ pc = "loop" /\ pc' = "reply"
      /\ cur' = a /\ resp' = Tail(resp) /\ pad' = FALSE
      /\ UNCHANGED <<sent, open, tun, answers, asked, owner, held, life, task, up, down,
                     exit, replies>>
  BY Zenon DEF TakeReply, TypeOK, client, link, exits
<1>2. /\ r \in Replies /\ r = resp[1] /\ resp' \in Seq(Replies)
      /\ Len(resp) \in Nat /\ Len(resp) >= 1 /\ Len(resp') = Len(resp) - 1
      /\ \A i \in 1 .. Len(resp') : resp'[i] = resp[i + 1]
  <2>1. Len(resp) \in Nat /\ Len(resp) >= 1 /\ Head(resp) = resp[1]
    BY <1>1, EmptySeq, LenProperties
  <2> QED
    BY <1>1, <2>1, HeadTailProperties, Zenon
<1>3. OwnReply(owner, r)
  BY <1>2 DEF ReplyInv
<1> HIDE DEF r
<1>4. r.sid \in Sids /\ r.via \in Links /\ life[r.sid] \in Nat
  <2>1. r.sid \in Sids /\ r.via \in Links
    BY <1>2, Zenon DEF Replies
  <2> QED
    BY <2>1, Zenon DEF TypeOK
<1>5. a \in Answers
  <2>1. Padding \in {"padded", "raw"} /\ (r.via \notin held) \in BOOLEAN
    BY Zenon DEF Padding
  <2> QED
    BY <1>2, <1>4, <2>1, Zenon DEF Answers
<1>6. OwnAnswer(owner, a) /\ ((a.form = "padded") <=> pad)
  <2>1. a.reply = r /\ a.life = life[r.sid] /\ a.late = (r.via \notin held) /\ a.form = Padding
    BY Zenon
  <2>2. r.via \in held => owner[r.via].life = life[r.sid]
    BY <1>3, Zenon DEF OneLinkPerAddress, OwnReply
  <2>3. OwnAnswer(owner, a)
    BY <1>3, <2>1, <2>2, Zenon DEF OwnAnswer
  <2>4. (a.form = "padded") <=> pad
    BY <2>1, Zenon DEF Padding
  <2> QED
    BY <2>3, <2>4, Zenon
<1> HIDE DEF a
<1>7. TypeOK'
  <2>1. Len(resp') <= RespCap
    BY <1>2, Bounds DEF TypeOK
  <2>2. Holding'
    BY <1>1, <1>5 DEF Holding
  <2> QED
    BY <1>1, <1>2, <2>1, <2>2, ZenonT(40) DEF TypeOK
<1>8. OneLinkPerAddress' /\ CarriesItsOwn'
  BY <1>1, ZenonT(40) DEF OneLinkPerAddress, CarriesItsOwn
<1>9. WriteInv' /\ LinkInv'
  BY <1>1, ZenonT(40) DEF WriteInv, LinkInv, Chain
<1>10. ReplyInv'
  <2>1. \A i \in 1 .. Len(resp') : OwnReply(owner', resp'[i])
    <3> SUFFICES ASSUME NEW i \in 1 .. Len(resp') PROVE OwnReply(owner, resp'[i])
      BY <1>1, Zenon
    <3>1. i + 1 \in 1 .. Len(resp) /\ resp'[i] = resp[i + 1]
      BY <1>2
    <3> QED
      BY <3>1, Zenon DEF ReplyInv
  <2>2. (cur'.form = "padded") <=> (Vision /\ Len(answers') = 0)
    BY <1>1, <1>6, Zenon DEF ReplyInv
  <2>3. OwnAnswer(owner', cur')
    BY <1>1, <1>6, Zenon
  <2>4. \A i \in 1 .. Len(answers') :
           /\ OwnAnswer(owner', answers'[i])
           /\ (answers'[i].form = "padded") <=> (Vision /\ i = 1)
    BY <1>1, Zenon DEF ReplyInv
  <2> QED
    BY <1>1, <2>1, <2>2, <2>3, <2>4, Zenon DEF ReplyInv
<1> QED
  BY <1>7, <1>8, <1>9, <1>10, Zenon

\* The reply is written to the tunnel.
LEMMA ReplyWrittenKeeps ==
  ASSUME MuxInv, ReplyWritten
  PROVE  MuxInv'
<1> USE DEF MuxInv
<1>1. /\ pc = "reply" /\ pc' = "loop" /\ cur' = None /\ cur \in Answers
      /\ answers \in Seq(Answers) /\ answers' = Append(answers, cur)
      /\ UNCHANGED <<sent, open, tun, pad, asked, owner, held, life, task, resp, up, down,
                     exit, replies>>
  BY ZenonT(40) DEF ReplyWritten, Finish, TypeOK, Holding, client, link, exits
<1>2. /\ answers' \in Seq(Answers) /\ Len(answers) \in Nat /\ Len(answers') = Len(answers) + 1
      /\ \A i \in 1 .. Len(answers) : answers'[i] = answers[i]
      /\ answers'[Len(answers) + 1] = cur
  BY <1>1, AppendProperties, LenProperties
<1>3. pad = FALSE
  BY <1>1, Zenon DEF ReplyInv
<1>4. TypeOK'
  <2>1. Holding'
    BY <1>1 DEF Holding
  <2> QED
    BY <1>1, <1>2, <2>1, ZenonT(40) DEF TypeOK
<1>5. OneLinkPerAddress' /\ CarriesItsOwn'
  BY <1>1, ZenonT(40) DEF OneLinkPerAddress, CarriesItsOwn
<1>6. WriteInv' /\ LinkInv'
  BY <1>1, ZenonT(40) DEF WriteInv, LinkInv, Chain
<1>7. ReplyInv'
  <2>1. \A i \in 1 .. Len(answers') :
           /\ OwnAnswer(owner', answers'[i])
           /\ (answers'[i].form = "padded") <=> (Vision /\ i = 1)
    <3> SUFFICES ASSUME NEW i \in 1 .. Len(answers')
                 PROVE  /\ OwnAnswer(owner, answers'[i])
                        /\ (answers'[i].form = "padded") <=> (Vision /\ i = 1)
      BY <1>1, Zenon
    <3>1. CASE i \in 1 .. Len(answers)
      BY <1>2, <3>1, Zenon DEF ReplyInv
    <3>2. CASE i = Len(answers) + 1
      <4>1. (Len(answers) = 0) <=> (i = 1)
        BY <1>2, <3>2
      <4> QED
        BY <1>1, <1>2, <3>2, <4>1, Zenon DEF ReplyInv
    <3> QED
      BY <1>2, <3>1, <3>2
  <2>2. ~(Vision /\ Len(answers') = 0)
    BY <1>2
  <2>3. \A i \in 1 .. Len(resp') : OwnReply(owner', resp'[i])
    BY <1>1, Zenon DEF ReplyInv
  <2> QED
    BY <1>1, <1>3, <2>1, <2>2, <2>3, Zenon DEF ReplyInv
<1> QED
  BY <1>4, <1>5, <1>6, <1>7, Zenon

\* The receive task takes a datagram, waits with it, or is over.
LEMMA TasksKeep ==
  ASSUME MuxInv, NEW l \in Links, Recv(l) \/ Push(l) \/ RecvEof(l) \/ TaskAborted(l)
  PROVE  MuxInv'
<1> USE DEF MuxInv
<1>1. /\ UNCHANGED <<sent, open, tun, pc, cur, pad, answers, asked, owner, held, life, up, exit>>
      /\ task[l] \in {"read", "send"} /\ owner[l] # None
  BY ZenonT(40) DEF Recv, Push, RecvEof, TaskAborted, Aborted, client, loop, link, exits, LinkInv
<1>2. OneLinkPerAddress' /\ CarriesItsOwn'
  BY <1>1, ZenonT(60) DEF OneLinkPerAddress, CarriesItsOwn
<1>3. WriteInv' /\ Holding' /\ \A m \in Links : Chain(m)' <=> Chain(m)
  BY <1>1, ZenonT(60) DEF WriteInv, Holding, TypeOK, Chain
<1>4. /\ task' \in [Links -> {"none", "read", "send", "gone"}]
      /\ \A m \in Links : m # l => task'[m] = task[m]
  BY ZenonT(40) DEF Recv, Push, RecvEof, TaskAborted, TypeOK
<1>5. LinkInv'
  BY <1>1, <1>3, <1>4, ZenonT(40) DEF LinkInv
<1>6. ASSUME resp' = resp, down' \in [Links -> 0 .. PipeCap], replies' \in 0 .. MaxReplies
      PROVE  MuxInv'
  <2>1. ReplyInv'
    BY <1>1, <1>6, ZenonT(40) DEF ReplyInv
  <2>2. TypeOK'
    BY <1>1, <1>3, <1>4, <1>6, ZenonT(40) DEF TypeOK
  <2> QED
    BY <1>2, <1>3, <1>5, <2>1, <2>2, ZenonT(40)
<1>7. down \in [Links -> 0 .. PipeCap] /\ replies \in 0 .. MaxReplies
  BY Zenon DEF TypeOK
<1>8. CASE Recv(l)
  <2>1. /\ down' = down \/ (down[l] > 0 /\ down' = [down EXCEPT ![l] = down[l] - 1])
        /\ replies' = replies \/ (replies < MaxReplies /\ replies' = replies + 1)
        /\ resp' = resp
    BY <1>8, Zenon DEF Recv
  <2>2. down[l] > 0 => down[l] - 1 \in 0 .. PipeCap
    BY <1>7, Bounds
  <2>3. down' \in [Links -> 0 .. PipeCap]
    BY <1>7, <2>1, <2>2, Zenon
  <2>4. replies' \in 0 .. MaxReplies
    BY <1>7, <2>1, Bounds, SMTT(30)
  <2> QED
    BY <1>6, <2>1, <2>3, <2>4, Zenon
<1>9. CASE RecvEof(l) \/ TaskAborted(l)
  BY <1>6, <1>7, <1>9, ZenonT(40) DEF RecvEof, TaskAborted, exits
<1>10. CASE Push(l)
  <2>1. UNCHANGED <<down, replies>>
    BY <1>10, Zenon DEF Push, exits
  <2>2. CASE resp' = resp
    BY <1>6, <1>7, <2>1, <2>2, Zenon
  <2>3. CASE resp' # resp
    <3> DEFINE r == [sid |-> owner[l].sid, src |-> owner[l].addr, via |-> l]
    <3>1. resp' = Append(resp, r) /\ Len(resp) < RespCap
      BY <1>10, <2>3, Zenon DEF Push, Room, Label
    <3>2. r \in Replies /\ OwnReply(owner, r)
      <4>1. owner[l].sid \in Sids /\ owner[l].addr \in Addrs \cup {Local}
        BY <1>1, OwnerFields, Zenon
      <4> QED
        BY <1>1, <4>1, ZenonT(40) DEF Replies, OwnReply
    <3> HIDE DEF r
    <3>3. /\ resp' \in Seq(Replies) /\ Len(resp) \in Nat /\ Len(resp') = Len(resp) + 1
          /\ \A i \in 1 .. Len(resp) : resp'[i] = resp[i]
          /\ resp'[Len(resp) + 1] = r
      <4>1. resp \in Seq(Replies)
        BY Zenon DEF TypeOK
      <4>2. Len(resp) \in Nat
        BY <4>1, LenProperties, Zenon
      <4>3. r \in Replies
        BY <3>2, Zenon
      <4>4. /\ Append(resp, r) \in Seq(Replies) /\ Len(Append(resp, r)) = Len(resp) + 1
            /\ \A i \in 1 .. Len(resp) : Append(resp, r)[i] = resp[i]
            /\ Append(resp, r)[Len(resp) + 1] = r
        BY <4>1, <4>3, AppendProperties
      <4> QED
        BY <3>1, <4>2, <4>4, ZenonT(40)
    <3>4. TypeOK'
      <4>1. Len(resp') <= RespCap
        BY <3>1, <3>3, Bounds
      <4> QED
        BY <1>1, <1>3, <1>4, <2>1, <3>3, <4>1, ZenonT(40) DEF TypeOK
    <3>5. \A i \in 1 .. Len(resp') : OwnReply(owner', resp'[i])
      <4> SUFFICES ASSUME NEW i \in 1 .. Len(resp') PROVE OwnReply(owner, resp'[i])
        BY <1>1, Zenon
      <4>1. i \in 1 .. Len(resp) \/ i = Len(resp) + 1
        BY <3>3
      <4> QED
        BY <3>2, <3>3, <4>1, ZenonT(40) DEF ReplyInv
    <3>6. ReplyInv'
      BY <1>1, <3>5, ZenonT(40) DEF ReplyInv
    <3> QED
      BY <1>2, <1>3, <1>5, <3>4, <3>6, Zenon
  <2> QED
    BY <2>2, <2>3, Zenon
<1> QED
  BY <1>8, <1>9, <1>10, Zenon

\* The relay at an exit.
LEMMA ExitsKeep ==
  ASSUME MuxInv, NEW l \in Links,
         ExitTake(l) \/ ExitRecv(l) \/ ExitWrite(l) \/ ExitEnds(l) \/ ExitEof(l)
  PROVE  MuxInv'
<1> USE DEF MuxInv
<1>1. UNCHANGED <<sent, open, tun, pc, cur, pad, answers, asked, owner, held, life, task, resp>>
  BY Zenon DEF ExitTake, ExitRecv, ExitWrite, ExitEnds, ExitEof, client, loop, link
<1>2. /\ exit' \in [Links -> {"none", "run", "write", "done"}]
      /\ replies' \in 0 .. MaxReplies /\ down' \in [Links -> 0 .. PipeCap]
  <2>1. /\ replies' = replies \/ (replies < MaxReplies /\ replies' = replies + 1)
        /\ down' = down \/ (down[l] < PipeCap /\ down' = [down EXCEPT ![l] = down[l] + 1])
    BY Zenon DEF ExitTake, ExitRecv, ExitWrite, ExitEnds, ExitEof, exits
  <2>2. down[l] < PipeCap => down[l] + 1 \in 0 .. PipeCap
    BY Bounds, SMTT(30) DEF TypeOK
  <2>3. down' \in [Links -> 0 .. PipeCap]
    BY <2>1, <2>2, Zenon DEF TypeOK
  <2>4. replies' \in 0 .. MaxReplies
    BY <2>1, Bounds, SMTT(30) DEF TypeOK
  <2>5. exit' \in [Links -> {"none", "run", "write", "done"}]
    BY Zenon DEF ExitTake, ExitRecv, ExitWrite, ExitEnds, ExitEof, exits, TypeOK
  <2> QED
    BY <2>3, <2>4, <2>5, Zenon
<1>3. /\ up' \in [Links -> Seq(Datagrams)]
      /\ \A m \in Links : up'[m] = up[m] \/ (up[m] # <<>> /\ up'[m] = Tail(up[m]))
  <2>1. CASE ExitTake(l)
    <3>1. up[l] \in Seq(Datagrams) /\ up[l] # <<>> /\ up' = [up EXCEPT ![l] = Tail(up[l])]
      BY <2>1, Zenon DEF ExitTake, TypeOK
    <3>2. Tail(up[l]) \in Seq(Datagrams)
      BY <3>1, HeadTailProperties, Zenon
    <3> QED
      BY <3>1, <3>2, ZenonT(40) DEF TypeOK
  <2>2. CASE ~ExitTake(l)
    BY <2>2, ZenonT(40) DEF ExitRecv, ExitWrite, ExitEnds, ExitEof, TypeOK
  <2> QED
    BY <2>1, <2>2, Zenon
<1>4. TypeOK'
  BY <1>1, <1>2, <1>3, Zenon DEF TypeOK, Holding
<1> QED
  BY <1>1, <1>3, <1>4, OthersKeep, ZenonT(40)

\* Every step keeps the invariant.
LEMMA MuxStep == MuxInv /\ [Next]_vars => MuxInv'
<1> SUFFICES ASSUME MuxInv, [Next]_vars PROVE MuxInv'
  BY Zenon
<1>1. CASE UNCHANGED vars
  <2>1. UNCHANGED <<sent, open, tun, pc, cur, pad, answers, asked, owner, held, life, task, resp,
                    up, down, exit, replies>>
    BY <1>1, Zenon DEF vars, client, loop, link, exits
  <2>2. TypeOK'
    BY <2>1, Zenon DEF MuxInv, TypeOK, Holding
  <2> QED
    BY <2>1, <2>2, OthersKeep, Zenon
<1> QED
  BY <1>1, ClientKeeps, DataFrameKeeps, DialedKeeps, EndFrameKeeps, EndsKeep, WriteUpKeeps,
     TakeReplyKeeps, ReplyWrittenKeeps, TasksKeep, ExitsKeep, Zenon DEF Next

-----------------------------------------------------------------------------
(* The theorems *)

\* The inductive invariant holds in every reachable state of the relay.
THEOREM MuxInvHolds == Spec => []MuxInv
BY MuxInit, MuxStep, PTL DEF Spec

\* A cascade session carries the datagrams of one life of one sub-session, sent to targets that
\* resolved to the address it is filed under or to none, whatever the names resolve to and
\* whatever frames come and links end (send_datagram).
THEOREM LinksCarryTheirOwn == Spec => []CarriesItsOwn
<1>1. MuxInv => CarriesItsOwn
  BY Zenon DEF MuxInv
<1> QED
  BY <1>1, MuxInvHolds, PTL

\* A sub-session never holds two links to one address, nor one of an earlier life of its id
\* (UdpSession, the END of mux_relay).
THEOREM LinksAreDistinct == Spec => []OneLinkPerAddress
<1>1. MuxInv => OneLinkPerAddress
  BY Zenon DEF MuxInv
<1> QED
  BY <1>1, MuxInvHolds, PTL

\* A reply goes out under the id its link was opened for, one from behind the cascade bears an
\* address that id sent to in the life of the link, one to an earlier life of the id comes only by
\* a dropped link, and inside Vision exactly the first frame is padded (dial_chain, keep_frame,
\* downlink_pad).
THEOREM RepliesGoToAsker == Spec => []AnsweredToAsker
<1>1. MuxInv => AnsweredToAsker
  <2> SUFFICES ASSUME MuxInv, NEW i \in 1 .. Len(answers)
               PROVE  LET r == answers[i].reply
                          o == owner[r.via] IN
                      /\ r.sid = o.sid
                      /\ Chain(r.via) => <<o.sid, o.life, r.src>> \in asked
                      /\ answers[i].life # o.life => answers[i].late
                      /\ (answers[i].form = "padded") <=> (Vision /\ i = 1)
    BY Zenon DEF AnsweredToAsker
  <2> DEFINE r == answers[i].reply
  <2>1. r.via \in Links
    <3>1. answers[i] \in Answers
      BY ElementOfSeq, Zenon DEF MuxInv, TypeOK
    <3>2. r \in Replies
      BY <3>1, Zenon DEF Answers
    <3> QED
      BY <3>2, Zenon DEF Replies
  <2>2. OwnAnswer(owner, answers[i]) /\ ((answers[i].form = "padded") <=> (Vision /\ i = 1))
    BY Zenon DEF MuxInv, ReplyInv
  <2>3. Chain(r.via) => <<owner[r.via].sid, owner[r.via].life, owner[r.via].addr>> \in asked
    BY <2>1, Zenon DEF MuxInv, LinkInv
  <2> QED
    BY <2>2, <2>3, Zenon DEF OwnAnswer, OwnReply
<1> QED
  BY <1>1, MuxInvHolds, PTL
=============================================================================
