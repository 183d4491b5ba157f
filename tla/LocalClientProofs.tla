-------------------------- MODULE LocalClientProofs --------------------------
(***************************************************************************)
(* Proofs about LocalClient, for every number of attempts, every mix of    *)
(* transports and peers and every content: the request is given away at    *)
(* most once, and only to the server; and what a side is given is what the *)
(* other side sent.                                                        *)
(***************************************************************************)
EXTENDS LocalClient, SequenceTheorems, TLAPS

-----------------------------------------------------------------------------
(* The inductive invariant *)

\* What the constants have to be: the transports are those of the dialers, and U holds the units
\* that travel over a connection.
Sound(U) ==
  /\ ClientKinds \subseteq {"plain", "veil", "xhttp", "h3", "raw", "chain"}
  /\ {Request, "proof", "lie"} \subseteq U
  /\ AppData \in Seq(U) /\ AppPayload \in Seq(U) /\ Responses \subseteq Seq(U)

Conn(U) == [peer : {"server", "other", "nobody"}, open : BOOLEAN, st : {"new", "up", "closed"},
            up : Seq(U), down : Seq(U), told : {0, 1}]

Before == {"greeting", "request", "resolve", "connect"}
Asked == {"response", "accept", "relay", "closing", "closed"}

TypeOK(U) ==
  /\ kind \in ClientKinds /\ conns \in Seq(Conn(U)) /\ appLeft \in Seq(U)
  /\ clientPc \in Before \cup {"dial", "tls", "proof", "write"} \cup Asked
  /\ direct \in {"no", "open", "closed"}

\* The transports whose dial spawns tasks.
Spawning == {"xhttp", "h3"}

\* Only the last connection is ever asked: once the request is written, by then the server's.  Only
\* the last is open where the dial spawns no task, and none after the session where none is spawned
\* at all.  One that was not asked holds at most the proof its peer can give.
ConnInv ==
  \A i \in 1..Len(conns) :
    /\ conns[i].open /\ kind \notin Spawning => i = Len(conns) /\ clientPc # "dial"
    /\ conns[i].open /\ kind = "raw" => clientPc # "closed"
    /\ conns[i].up # <<>> => i = Len(conns) /\ clientPc \in Asked
    /\ conns[i].up # <<>> /\ kind # "plain" => conns[i].peer = "server"
    /\ conns[i].up = <<>> => \/ conns[i].down = <<>>
                             \/ conns[i].down = <<"proof">> /\ conns[i].peer = "server"
                             \/ conns[i].down = <<"lie">>

\* Where the session is, and what it holds there.
PlaceInv ==
  /\ clientPc \in Before => conns = <<>>
  /\ clientPc \in {"tls", "proof", "write"} => conns # <<>> /\ conns[Len(conns)].up = <<>>
  /\ clientPc = "write" /\ kind # "plain" => conns[Len(conns)].peer = "server"
  /\ clientPc = "response" \/ (clientPc \in {"accept", "relay"} /\ direct = "no") =>
       conns # <<>> /\ conns[Len(conns)].up # <<>>
  /\ direct # "no" => conns = <<>> /\ clientPc \in Asked
  /\ clientPc = "closed" => direct # "open"

ClientInv(U) == TypeOK(U) /\ ConnInv /\ PlaceInv

-----------------------------------------------------------------------------
(* Lemmas about the operators *)

\* Only the plain transport asks for no proof of the server.
LEMMA TransportProof ==
  ASSUME NEW U, Sound(U), kind \in ClientKinds, transport.proof \notin {"in-tunnel", "certificate"}
  PROVE  kind = "plain"
BY DEF Sound, transport, Plain, Veil, Xhttp, H3, Raw, Chain, Dialer

\* Which tasks are spawned when.
LEMMA TransportTasks ==
  ASSUME NEW U, Sound(U), kind \in ClientKinds
  PROVE  /\ transport.tasks = "dialling" <=> kind \in Spawning
         /\ transport.tasks = "never" <=> kind = "raw"
BY DEF Sound, transport, Plain, Veil, Xhttp, H3, Raw, Chain, Dialer, Spawning

\* A stream with a unit is not empty.
LEMMA NotEmpty ==
  ASSUME NEW S, NEW s \in Seq(S), NEW i \in 1..Len(s)
  PROVE  s # <<>>
OBVIOUS

\* One connection is replaced.
LEMMA Replaced ==
  ASSUME NEW U, NEW cs \in Seq(Conn(U)), NEW i \in 1..Len(cs), NEW c \in Conn(U)
  PROVE  LET n == [cs EXCEPT ![i] = c]
         IN  /\ n \in Seq(Conn(U)) /\ Len(n) = Len(cs) /\ n[i] = c
             /\ \A j \in 1..Len(cs) : j # i => n[j] = cs[j]
BY ExceptSeq

\* A connection that is closed, or left to its tasks, keeps everything else.
LEMMA Closed ==
  ASSUME NEW U, conns \in Seq(Conn(U)), NEW owned \in BOOLEAN, conns' = Dropped(conns, owned)
  PROVE  /\ conns' \in Seq(Conn(U)) /\ Len(conns') = Len(conns) /\ Len(conns) \in Nat
         /\ \A j \in 1..Len(conns) :
               /\ conns'[j].open => conns[j].open /\ (j # Len(conns) \/ owned)
               /\ conns'[j].up = conns[j].up /\ conns'[j].down = conns[j].down
               /\ conns'[j].peer = conns[j].peer
               /\ conns'[j].st = conns[j].st /\ conns'[j].told = conns[j].told
<1>1. CASE conns = <<>>
  BY <1>1 DEF Dropped
<1>2. CASE conns # <<>>
  <2> DEFINE n == Len(conns)
             c == [conns[n] EXCEPT !.open = @ /\ owned]
  <2>1. n \in 1..Len(conns)
    BY <1>2, EmptySeq, LenProperties
  <2>2. conns[n] \in Conn(U)
    BY <2>1, ElementOfSeq, Zenon
  <2>3. c \in Conn(U) /\ (c.open => conns[n].open /\ owned) /\ c.up = conns[n].up /\ c.down = conns[n].down
        /\ c.peer = conns[n].peer /\ c.st = conns[n].st /\ c.told = conns[n].told
    BY <2>2, Zenon DEF Conn
  <2>4. conns' = [conns EXCEPT ![n] = c]
    BY <1>2, Zenon DEF Dropped
  <2> HIDE DEF c
  <2>5. /\ conns' \in Seq(Conn(U)) /\ Len(conns') = Len(conns) /\ conns'[n] = c
        /\ \A j \in 1..Len(conns) : j # n => conns'[j] = conns[j]
    BY <2>1, <2>3, <2>4, Replaced
  <2> QED
    BY <2>1, <2>3, <2>5
<1> QED
  BY <1>1, <1>2, Zenon

-----------------------------------------------------------------------------
(* The invariant holds initially and every step keeps it *)

\* The invariant holds before the application connects.
LEMMA ClientStart ==
  ASSUME NEW U, Sound(U), ClientInit
  PROVE  ClientInv(U)
<1>1. conns \in Seq(Conn(U)) /\ Len(conns) = 0 /\ appLeft \in Seq(U)
  BY DEF ClientInit, Sound
<1>2. TypeOK(U)
  BY <1>1, Zenon DEF ClientInit, TypeOK, Before, Asked
<1>3. ConnInv /\ PlaceInv
  BY <1>1 DEF ClientInit, ConnInv, PlaceInv, Before
<1> QED
  BY <1>2, <1>3, Zenon DEF ClientInv

\* The steps that leave the connections alone: the SOCKS handshake, the direct dial, the reply.
LEMMA HandshakeKeeps ==
  ASSUME NEW U, ClientInv(U),
         \/ ReadGreeting \/ ReadConnect \/ AppGone \/ Resolve \/ ConnectDirect
         \/ AcceptConnect \/ TunnelEnds
  PROVE  ClientInv(U)'
<1> USE DEF ClientInv
<1>1. UNCHANGED <<kind, conns, appLeft>>
  BY Zenon DEF ReadGreeting, ReadConnect, AppGone, Resolve, ConnectDirect, AcceptConnect,
     TunnelEnds, rigid
<1>2. CASE ReadGreeting \/ ReadConnect \/ AppGone \/ Resolve
  <2>1. /\ direct' = direct /\ conns = <<>> /\ Len(conns) = 0 /\ direct = "no"
        /\ clientPc' \in {"request", "resolve", "connect", "dial", "closing"}
    BY <1>2, Zenon DEF ReadGreeting, ReadConnect, AppGone, Resolve, ClassifyRoute, PlaceInv,
       Before, Asked,
                TypeOK
  <2> QED
    BY <1>1, <2>1 DEF TypeOK, ConnInv, PlaceInv, Before, Asked
<1>3. CASE ConnectDirect
  <2>1. conns = <<>> /\ Len(conns) = 0
    BY <1>3, Zenon DEF ConnectDirect, PlaceInv, Before
  <2>2. \/ clientPc' = "accept" /\ direct' = "open"
        \/ clientPc' = "closing" /\ direct' = direct
    BY <1>3, Zenon DEF ConnectDirect
  <2> QED
    BY <1>1, <2>1, <2>2 DEF TypeOK, ConnInv, PlaceInv, Before, Asked
<1>4. CASE AcceptConnect \/ TunnelEnds
  <2>1. (clientPc = "accept" /\ clientPc' = "relay") \/ (clientPc = "relay" /\ clientPc' = "closing")
    BY <1>4, Zenon DEF AcceptConnect, TunnelEnds
  <2>2. direct' = direct
    BY <1>4, Zenon DEF AcceptConnect, TunnelEnds
  <2> QED
    BY <1>1, <2>1, <2>2, Zenon DEF TypeOK, ConnInv, PlaceInv, Before, Asked
<1> QED
  BY <1>2, <1>3, <1>4, Zenon

\* An attempt that failed: its connection is closed before the next one is made, or left to the
\* tasks its dial has spawned.
LEMMA GivenUp ==
  ASSUME NEW U, Sound(U), ClientInv(U), clientPc = "tls", NextAttempt, AttemptDropped,
         UNCHANGED <<rigid, direct, appLeft>>
  PROVE  ClientInv(U)'
<1> USE DEF ClientInv
<1>1. UNCHANGED <<kind, direct, appLeft>> /\ clientPc' \in {"dial", "closing"} /\ conns # <<>>
  BY Zenon DEF rigid, NextAttempt, PlaceInv
<1>a. PICK owned \in BOOLEAN : conns' = Dropped(conns, owned) /\ (owned => kind \in Spawning)
  BY TransportTasks, Zenon DEF AttemptDropped, TypeOK
<1>2. /\ conns' \in Seq(Conn(U)) /\ Len(conns') = Len(conns) /\ Len(conns) \in Nat
      /\ \A j \in 1..Len(conns) :
            /\ conns'[j].open => conns[j].open /\ (j # Len(conns) \/ owned)
            /\ conns'[j].up = conns[j].up /\ conns'[j].down = conns[j].down
            /\ conns'[j].peer = conns[j].peer
  BY <1>a, Closed, Zenon DEF TypeOK
<1>3. \A j \in 1..Len(conns) : (conns'[j].open => kind \in Spawning) /\ conns'[j].up = <<>>
  BY <1>a, <1>2 DEF ConnInv, Asked
<1>b. "raw" \notin Spawning
  BY DEF Spawning
<1>4. TypeOK(U)'
  BY <1>1, <1>2, Zenon DEF TypeOK, Asked
<1>5. ConnInv'
  BY <1>1, <1>2, <1>3, <1>b DEF ConnInv
<1>6. PlaceInv'
  BY <1>1, Zenon DEF PlaceInv, Before, Asked
<1> QED
  BY <1>4, <1>5, <1>6, Zenon

\* Dialling an attempt keeps the invariant.
LEMMA ConnectKeeps ==
  ASSUME NEW U, ClientInv(U), Connect
  PROVE  ClientInv(U)'
<1> USE DEF ClientInv
<1>1. UNCHANGED <<kind, direct, appLeft>> /\ clientPc = "dial" /\ direct = "no" /\ Len(conns) \in Nat
      /\ conns \in Seq(Conn(U))
  BY LenProperties, Zenon DEF Connect, rigid, PlaceInv, Asked, TypeOK
<1>2. CASE NextAttempt /\ UNCHANGED conns
  <2>1. clientPc' \in {"dial", "closing"}
    BY <1>2, Zenon DEF NextAttempt
  <2> QED
    BY <1>1, <1>2, <2>1, Zenon DEF TypeOK, ConnInv, PlaceInv, Asked, Before
<1>3. CASE clientPc' = "tls" /\ ~ UNCHANGED conns
  <2>1. PICK who \in {"server", "other", "nobody"} :
          conns' = Append(conns, [peer |-> who, open |-> TRUE, st |-> "new", up |-> <<>>,
                                  down |-> <<>>, told |-> 0])
    BY <1>3, Zenon DEF Connect
  <2> DEFINE c == [peer |-> who, open |-> TRUE, st |-> "new", up |-> <<>>,
                   down |-> <<>>, told |-> 0]
  <2>2. c \in Conn(U) /\ c.up = <<>> /\ c.down = <<>>
    BY DEF Conn
  <2>3. conns' = Append(conns, c)
    BY <2>1, Zenon
  <2> HIDE DEF c
  <2>4. /\ conns' \in Seq(Conn(U)) /\ Len(conns') = Len(conns) + 1 /\ conns'[Len(conns) + 1] = c
        /\ \A j \in 1..Len(conns) : conns'[j] = conns[j]
    BY <1>1, <2>2, <2>3, AppendProperties
  <2>5. TypeOK(U)'
    BY <1>1, <1>3, <2>4, Zenon DEF TypeOK
  <2>6. \A j \in 1..Len(conns) : (conns[j].open => kind \in Spawning) /\ conns[j].up = <<>>
    BY <1>1, Zenon DEF ConnInv, Asked
  <2>7. ConnInv'
    <3>1. SUFFICES ASSUME NEW j \in 1..Len(conns')
                   PROVE  /\ conns'[j].open => j = Len(conns') \/ kind \in Spawning
                          /\ conns'[j].up = <<>>
                          /\ \/ conns'[j].down = <<>>
                             \/ conns'[j].down = <<"proof">> /\ conns'[j].peer = "server"
                             \/ conns'[j].down = <<"lie">>
      BY <1>1, <1>3, Zenon DEF ConnInv
    <3>2. CASE j \in 1..Len(conns)
      BY <3>2, <2>4, <2>6, Zenon DEF ConnInv
    <3>3. CASE j = Len(conns) + 1
      BY <3>3, <2>2, <2>4, Zenon
    <3> QED
      BY <3>2, <3>3, <2>4, <1>1
  <2>8. conns' # <<>>
    BY <2>3, <2>2, <1>1, AppendProperties
  <2>9. PlaceInv'
    BY <1>1, <1>3, <2>2, <2>4, <2>8, Zenon DEF PlaceInv, Before, Asked
  <2> QED
    BY <2>5, <2>7, <2>9, Zenon
<1>4. \/ clientPc' = "tls" /\ \E who \in {"server", "other", "nobody"} :
             conns' = Append(conns, [peer |-> who, open |-> TRUE, st |-> "new", up |-> <<>>,
                                     down |-> <<>>, told |-> 0])
      \/ NextAttempt /\ UNCHANGED conns
  BY Zenon DEF Connect
<1>5. ASSUME NEW c, conns' = Append(conns, c), conns' = conns PROVE FALSE
  <2>1. Len(Append(conns, c)) = Len(conns) + 1
    BY <1>1 DEF Append
  <2> QED
    BY <1>1, <1>5, <2>1
<1> QED
  BY <1>2, <1>3, <1>4, <1>5, Zenon

\* A step of the handshake keeps it.
LEMMA HandshakeStepKeeps ==
  ASSUME NEW U, Sound(U), ClientInv(U), Handshake
  PROVE  ClientInv(U)'
<1> USE DEF ClientInv
<1>1. UNCHANGED <<kind, direct, appLeft>> /\ clientPc = "tls" /\ UNCHANGED rigid
  BY Zenon DEF Handshake, rigid
<1>2. CASE NextAttempt /\ AttemptDropped
  BY <1>1, <1>2, GivenUp, Zenon
<1>3. CASE /\ transport.proof = "certificate" => conn.peer = "server"
           /\ clientPc' = IF transport.proof = "in-tunnel" THEN "proof" ELSE "write"
           /\ UNCHANGED <<attempt, conns>>
  <2>1. clientPc' = "write" /\ kind # "plain" => conns[Len(conns)].peer = "server"
    BY <1>3, TransportProof, Zenon DEF TypeOK, conn, last
  <2>2. clientPc' \in {"proof", "write"} /\ conns' = conns
    BY <1>3, Zenon
  <2> QED
    BY <1>1, <2>1, <2>2, Zenon DEF TypeOK, ConnInv, PlaceInv, Before, Asked
<1> QED
  BY <1>2, <1>3, Zenon DEF Handshake

\* A timeout and the end of the connection keep it.
LEMMA EndsKeep ==
  ASSUME NEW U, Sound(U), ClientInv(U), Timeout \/ ReadEof
  PROVE  ClientInv(U)'
<1>1. CASE clientPc = "tls" /\ NextAttempt /\ AttemptDropped
  BY <1>1, GivenUp, Zenon DEF Timeout, ReadEof
<1>2. CASE clientPc \in {"proof", "response"} /\ clientPc' = "closing" /\ UNCHANGED conns
  <2>1. UNCHANGED <<kind, direct, appLeft>>
    BY <1>2, Zenon DEF Timeout, ReadEof, rigid
  <2> QED
    BY <1>2, <2>1, Zenon DEF ClientInv, TypeOK, ConnInv, PlaceInv, Before, Asked
<1> QED
  BY <1>1, <1>2, Zenon DEF Timeout, ReadEof

\* Closing the session keeps it.
LEMMA CloseKeeps ==
  ASSUME NEW U, Sound(U), ClientInv(U), CloseSession
  PROVE  ClientInv(U)'
<1> USE DEF ClientInv
<1>1. UNCHANGED <<kind, appLeft>> /\ clientPc = "closing" /\ clientPc' = "closed"
      /\ conns' = Dropped(conns, TasksOwnIt) /\ TasksOwnIt \in BOOLEAN
      /\ direct' = (IF direct = "open" THEN "closed" ELSE direct)
  BY Zenon DEF CloseSession, TasksOwnIt, rigid
<1>a. kind = "raw" => ~TasksOwnIt
  BY TransportTasks, Zenon DEF TasksOwnIt, TypeOK, Spawning
<1>2. /\ conns' \in Seq(Conn(U)) /\ Len(conns') = Len(conns) /\ Len(conns) \in Nat
      /\ \A j \in 1..Len(conns) :
            /\ conns'[j].open => conns[j].open /\ (j # Len(conns) \/ TasksOwnIt)
            /\ conns'[j].up = conns[j].up /\ conns'[j].down = conns[j].down
            /\ conns'[j].peer = conns[j].peer
  BY <1>1, Closed, Zenon DEF TypeOK
<1>3. conns = <<>> => conns' = <<>>
  BY <1>1, Zenon DEF Dropped
<1>4. TypeOK(U)'
  BY <1>1, <1>2, Zenon DEF TypeOK, Asked
<1>5. ConnInv'
  BY <1>1, <1>2, <1>a DEF ConnInv, Asked, Spawning
<1>6. PlaceInv'
  BY <1>1, <1>3, Zenon DEF PlaceInv, Before, Asked, TypeOK
<1> QED
  BY <1>4, <1>5, <1>6, Zenon

\* What a connection that was not asked may hold.
Quiet(c) == \/ c.down = <<>>
            \/ c.down = <<"proof">> /\ c.peer = "server"
            \/ c.down = <<"lie">>

\* One connection changes, its peer apart, and is not opened again.
LEMMA OneChanged ==
  ASSUME NEW U, ClientInv(U), NEW i \in 1..Len(conns), NEW c \in Conn(U),
         conns' = [conns EXCEPT ![i] = c], kind' = kind, direct' = direct, appLeft' \in Seq(U),
         c.peer = conns[i].peer, c.open => conns[i].open,
         clientPc' = clientPc \/ clientPc' \in {"write", "closing"} \/ (clientPc \in Asked \cup {"write"} /\ clientPc' \in Asked),
         clientPc' # clientPc => clientPc' # "closed", clientPc \in Asked => clientPc' \in Asked,
         c.up # <<>> => /\ i = Len(conns) /\ clientPc' \in Asked
                        /\ kind # "plain" => c.peer = "server",
         c.up = <<>> => Quiet(c)
  PROVE  /\ TypeOK(U)' /\ ConnInv'
         /\ Len(conns') = Len(conns) /\ conns'[i] = c /\ conns # <<>> /\ conns' # <<>>
         /\ \A j \in 1..Len(conns) : j # i => conns'[j] = conns[j]
<1> USE DEF ClientInv
<1>1. conns \in Seq(Conn(U)) /\ Len(conns) \in Nat
  BY LenProperties, Zenon DEF TypeOK
<1>2. /\ conns' \in Seq(Conn(U)) /\ Len(conns') = Len(conns) /\ conns'[i] = c
      /\ \A j \in 1..Len(conns) : j # i => conns'[j] = conns[j]
  BY <1>1, Replaced
<1>3. conns # <<>> /\ conns' # <<>>
  <2>1. i \in 1..Len(conns')
    BY <1>2, ZenonT(40)
  <2> QED
    BY <1>1, <1>2, <2>1, NotEmpty, ZenonT(40)
<1>4. TypeOK(U)'
  BY <1>2, Zenon DEF TypeOK, Asked
<1>5. clientPc' = "closed" => clientPc = "closed"
  BY Zenon
<1>6. clientPc' = "dial" => clientPc = "dial"
  BY Zenon DEF Asked
<1>7. ASSUME NEW j \in 1..Len(conns'), j # i
      PROVE  /\ conns'[j].open /\ kind' \notin Spawning => j = Len(conns') /\ clientPc' # "dial"
             /\ conns'[j].open /\ kind' = "raw" => clientPc' # "closed"
             /\ conns'[j].up # <<>> => j = Len(conns') /\ clientPc' \in Asked
             /\ conns'[j].up # <<>> /\ kind' # "plain" => conns'[j].peer = "server"
             /\ conns'[j].up = <<>> => Quiet(conns'[j])
  <2>1. conns'[j] = conns[j] /\ j \in 1..Len(conns)
    BY <1>2, <1>7, Zenon
  <2>2. /\ conns[j].open /\ kind' \notin Spawning => j = Len(conns) /\ clientPc' # "dial"
        /\ conns[j].open /\ kind' = "raw" => clientPc' # "closed"
    BY <2>1, <1>5, <1>6, Zenon DEF ConnInv
  <2>3. /\ conns[j].up # <<>> => j = Len(conns) /\ clientPc' \in Asked
        /\ conns[j].up # <<>> /\ kind' # "plain" => conns[j].peer = "server"
        /\ conns[j].up = <<>> => Quiet(conns[j])
    BY <2>1, Zenon DEF ConnInv, Quiet
  <2> QED
    BY <1>2, <2>1, <2>2, <2>3, ZenonT(40)
<1>8. /\ conns'[i].open /\ kind' \notin Spawning => i = Len(conns') /\ clientPc' # "dial"
      /\ conns'[i].open /\ kind' = "raw" => clientPc' # "closed"
      /\ conns'[i].up # <<>> => i = Len(conns') /\ clientPc' \in Asked
      /\ conns'[i].up # <<>> /\ kind' # "plain" => conns'[i].peer = "server"
      /\ conns'[i].up = <<>> => Quiet(conns'[i])
  BY <1>2, <1>5, <1>6, ZenonT(40) DEF ConnInv
<1>9. ConnInv'
  BY <1>7, <1>8, Zenon DEF ConnInv, Quiet
<1> QED
  BY <1>2, <1>3, <1>4, <1>9, Zenon

\* The reads and writes of the dial and of the relay, on the connection in use.
LEMMA LastInUse ==
  ASSUME NEW U, ClientInv(U),
         clientPc \in {"proof", "write", "response"} \/ (clientPc = "relay" /\ direct = "no")
  PROVE  /\ Len(conns) \in 1..Len(conns) /\ conns[Len(conns)] \in Conn(U)
         /\ direct = "no"
<1>1. conns # <<>> /\ conns \in Seq(Conn(U))
  BY Zenon DEF ClientInv, PlaceInv, TypeOK
<1>2. Len(conns) \in 1..Len(conns)
  BY <1>1, EmptySeq, LenProperties
<1>3. conns[Len(conns)] \in Conn(U)
  BY <1>1, <1>2, ElementOfSeq, Zenon
<1> QED
  BY <1>1, <1>2, <1>3, Zenon DEF ClientInv, PlaceInv, Asked

\* Reading the server's proof keeps it.
LEMMA ReadProofKeeps ==
  ASSUME NEW U, ClientInv(U), ReadProof
  PROVE  ClientInv(U)'
<1> DEFINE n == Len(conns)
           c == [conns[n] EXCEPT !.down = Tail(@)]
<1>1. n \in 1..Len(conns) /\ conns[n] \in Conn(U) /\ direct = "no" /\ clientPc = "proof"
  BY LastInUse, Zenon DEF ReadProof
<1>2. /\ UNCHANGED <<kind, direct, appLeft>> /\ conns[n].down # <<>>
      /\ clientPc' = IF Head(conns[n].down) = "proof" THEN "write" ELSE "closing"
  BY Zenon DEF ReadProof, rigid, conn, last
<1>3. conns[n].up = <<>> /\ Quiet(conns[n])
  BY <1>1, Zenon DEF ClientInv, PlaceInv, ConnInv, Quiet
<1>4. Tail(conns[n].down) = <<>> /\ (clientPc' = "write" => conns[n].peer = "server")
  <2>1. CASE conns[n].down = <<"proof">> /\ conns[n].peer = "server"
    BY <2>1
  <2>2. CASE conns[n].down = <<"lie">>
    <3>1. Head(conns[n].down) = "lie" /\ Tail(conns[n].down) = <<>>
      BY <2>2
    <3> QED
      BY <3>1, <1>2, Zenon
  <2> QED
    BY <1>2, <1>3, <2>1, <2>2, Zenon DEF Quiet
<1>5. /\ c \in Conn(U) /\ c.up = <<>> /\ c.down = <<>> /\ c.peer = conns[n].peer
      /\ c.open = conns[n].open
  BY <1>1, <1>3, <1>4, Zenon DEF Conn
<1>6. conns' = [conns EXCEPT ![n] = c]
  BY <1>1, Zenon DEF ReadProof, last
<1> HIDE DEF c
<1>7. appLeft' \in Seq(U)
  BY <1>2, Zenon DEF ClientInv, TypeOK
<1>8. /\ TypeOK(U)' /\ ConnInv' /\ Len(conns') = n /\ conns'[n] = c /\ conns' # <<>>
  BY <1>1, <1>2, <1>5, <1>6, <1>7, OneChanged, Zenon DEF Quiet, Asked
<1>9. PlaceInv'
  BY <1>1, <1>2, <1>4, <1>5, <1>8, Zenon DEF PlaceInv, Before, Asked
<1> QED
  BY <1>8, <1>9, Zenon DEF ClientInv

\* Writing the request keeps it.
LEMMA WriteRequestKeeps ==
  ASSUME NEW U, Sound(U), ClientInv(U), WriteRequest
  PROVE  ClientInv(U)'
<1> DEFINE n == Len(conns)
           c == [conns[n] EXCEPT !.up = Append(@, Request)]
<1>1. n \in 1..Len(conns) /\ conns[n] \in Conn(U) /\ direct = "no" /\ clientPc = "write"
  BY LastInUse, Zenon DEF WriteRequest
<1>2. UNCHANGED <<kind, direct, appLeft>> /\ clientPc' = "response"
  BY Zenon DEF WriteRequest, rigid
<1>3. Request \in U /\ conns[n].up \in Seq(U)
  BY <1>1, Zenon DEF Sound, Conn
<1>4. Append(conns[n].up, Request) \in Seq(U) /\ Append(conns[n].up, Request) # <<>>
  BY <1>3, AppendProperties
<1>5. kind # "plain" => conns[n].peer = "server"
  BY <1>1, Zenon DEF ClientInv, PlaceInv
<1>6. /\ c \in Conn(U) /\ c.up # <<>> /\ c.peer = conns[n].peer /\ c.open = conns[n].open
  BY <1>1, <1>4, Zenon DEF Conn
<1>7. conns' = [conns EXCEPT ![n] = c]
  BY <1>1, Zenon DEF WriteRequest, last
<1> HIDE DEF c
<1>8. appLeft' \in Seq(U)
  BY <1>2, Zenon DEF ClientInv, TypeOK
<1>9. /\ TypeOK(U)' /\ ConnInv' /\ Len(conns') = n /\ conns'[n] = c /\ conns' # <<>>
  BY <1>1, <1>2, <1>5, <1>6, <1>7, <1>8, OneChanged, Zenon DEF Asked
<1>10. PlaceInv'
  BY <1>1, <1>2, <1>6, <1>9, Zenon DEF PlaceInv, Before, Asked
<1> QED
  BY <1>9, <1>10, Zenon DEF ClientInv

\* What is read off the connection in use after the request: its request stays.
LEMMA ReadKeeps ==
  ASSUME NEW U, ClientInv(U), clientPc = "response" \/ (clientPc = "relay" /\ direct = "no"),
         NEW d \in Seq(U), conns' = [conns EXCEPT ![Len(conns)].down = d],
         UNCHANGED <<kind, direct, appLeft>>,
         clientPc' \in {"response", "accept", "relay", "closing"}
  PROVE  ClientInv(U)'
<1> DEFINE n == Len(conns)
           c == [conns[n] EXCEPT !.down = d]
<1>1. n \in 1..Len(conns) /\ conns[n] \in Conn(U) /\ direct = "no" /\ clientPc \in Asked
  BY LastInUse, Zenon DEF Asked
<1>2. conns[n].up # <<>> /\ (kind # "plain" => conns[n].peer = "server")
  BY <1>1, Zenon DEF ClientInv, PlaceInv, ConnInv
<1>3. /\ c \in Conn(U) /\ c.up # <<>> /\ c.peer = conns[n].peer /\ c.open = conns[n].open
  BY <1>1, <1>2, Zenon DEF Conn
<1>4. conns' = [conns EXCEPT ![n] = c]
  BY <1>1, Zenon
<1> HIDE DEF c
<1>5. appLeft' \in Seq(U) /\ clientPc' \in Asked
  BY Zenon DEF ClientInv, TypeOK, Asked
<1>6. clientPc' # "closed"
  BY Zenon
<1>7. /\ TypeOK(U)' /\ ConnInv' /\ Len(conns') = n /\ conns'[n] = c /\ conns' # <<>>
  BY <1>1, <1>2, <1>3, <1>4, <1>5, <1>6, OneChanged, ZenonT(60)
<1>8. PlaceInv'
  BY <1>1, <1>3, <1>5, <1>7, Zenon DEF PlaceInv, Before, Asked
<1> QED
  BY <1>7, <1>8, Zenon DEF ClientInv

\* Reading from the server keeps it.
LEMMA ReadsKeep ==
  ASSUME NEW U, ClientInv(U), ReadPrefix \/ ReadResponse \/ TunnelDown
  PROVE  ClientInv(U)'
<1> DEFINE d == conns[Len(conns)].down
<1>1. d \in Seq(U)
  BY LastInUse, Zenon DEF ReadPrefix, ReadResponse, TunnelDown, Conn
<1>2. UNCHANGED <<kind, direct, appLeft>>
  BY Zenon DEF ReadPrefix, ReadResponse, TunnelDown, rigid
<1>3. \A i \in 1..Len(d) : SubSeq(d, i + 1, Len(d)) \in Seq(U)
  BY <1>1, SubSeqProperties
<1>4. CASE ReadPrefix
  <2>1. Len(d) >= 2 /\ Len(d) \in Nat
    BY <1>1, <1>4, LenProperties, Zenon DEF ReadPrefix, conn, last
  <2>2. SubSeq(d, 3, Len(d)) \in Seq(U)
    BY <1>3, <2>1
  <2>3. /\ clientPc = "response" /\ clientPc' \in {"accept", "closing"}
        /\ conns' = [conns EXCEPT ![Len(conns)].down = SubSeq(d, 3, Len(d))]
    BY <1>4, Zenon DEF ReadPrefix, conn, last
  <2> QED
    BY <1>2, <2>2, <2>3, ReadKeeps, Zenon
<1>5. CASE ReadResponse
  <2>1. PICK n \in 1..Len(d) :
          /\ conns' = [conns EXCEPT ![Len(conns)].down = SubSeq(d, n + 1, Len(d))]
          /\ clientPc' \in {"response", "closing", "relay"}
    BY <1>5, Zenon DEF ReadResponse, conn, last
  <2>2. clientPc = "response"
    BY <1>5, Zenon DEF ReadResponse
  <2> QED
    BY <1>2, <1>3, <2>1, <2>2, ReadKeeps, ZenonT(40)
<1>6. CASE TunnelDown
  <2>1. d # <<>> /\ clientPc = "relay" /\ direct = "no" /\ clientPc' = clientPc
        /\ conns' = [conns EXCEPT ![Len(conns)].down = Tail(d)]
    BY <1>6, Zenon DEF TunnelDown, conn, last
  <2>2. Tail(d) \in Seq(U)
    BY <1>1, <2>1, HeadTailProperties, Zenon
  <2> QED
    BY <1>2, <2>1, <2>2, ReadKeeps, Zenon
<1> QED
  BY <1>4, <1>5, <1>6, Zenon

\* Relaying a unit up keeps it.
LEMMA RelayUpKeeps ==
  ASSUME NEW U, ClientInv(U), TunnelUp
  PROVE  ClientInv(U)'
<1> DEFINE n == Len(conns)
           c == [conns[n] EXCEPT !.up = Append(@, Head(appLeft))]
<1>1. n \in 1..Len(conns) /\ conns[n] \in Conn(U) /\ direct = "no" /\ clientPc = "relay"
  BY LastInUse, Zenon DEF TunnelUp
<1>2. UNCHANGED <<kind, direct, clientPc>> /\ appLeft # <<>> /\ appLeft' = Tail(appLeft)
  BY Zenon DEF TunnelUp, rigid
<1>3. appLeft' \in Seq(U) /\ Head(appLeft) \in U
  BY <1>2, HeadTailProperties, Zenon DEF ClientInv, TypeOK
<1>4. kind # "plain" => conns[n].peer = "server"
  BY <1>1, Zenon DEF ClientInv, PlaceInv, ConnInv
<1>5. conns[n].up \in Seq(U)
  BY <1>1, Zenon DEF Conn
<1>6. Append(conns[n].up, Head(appLeft)) \in Seq(U) /\ Append(conns[n].up, Head(appLeft)) # <<>>
  BY <1>3, <1>5, AppendProperties
<1>7. /\ c \in Conn(U) /\ c.up # <<>> /\ c.peer = conns[n].peer /\ c.open = conns[n].open
  BY <1>1, <1>6, Zenon DEF Conn
<1>8. conns' = [conns EXCEPT ![n] = c]
  BY <1>1, Zenon DEF TunnelUp, last
<1> HIDE DEF c
<1>9. /\ TypeOK(U)' /\ ConnInv' /\ Len(conns') = n /\ conns'[n] = c /\ conns' # <<>>
  BY <1>1, <1>2, <1>3, <1>4, <1>7, <1>8, OneChanged, Zenon DEF Asked
<1>10. PlaceInv'
  BY <1>1, <1>2, <1>7, <1>9, Zenon DEF PlaceInv, Before, Asked
<1> QED
  BY <1>9, <1>10 DEF ClientInv

\* The other end of a connection: what was written to it stays.
LEMMA PeerKeeps ==
  ASSUME NEW U, ClientInv(U), NEW i \in 1..Len(conns), NEW c \in Conn(U),
         conns' = [conns EXCEPT ![i] = c], UNCHANGED <<kind, direct, appLeft, clientPc>>,
         c.up = conns[i].up, c.peer = conns[i].peer, c.open => conns[i].open,
         c.up = <<>> => Quiet(c)
  PROVE  ClientInv(U)'
<1>1. appLeft' \in Seq(U)
  BY Zenon DEF ClientInv, TypeOK
<1>2. c.up # <<>> => /\ i = Len(conns) /\ clientPc' \in Asked
                     /\ kind # "plain" => c.peer = "server"
  BY Zenon DEF ClientInv, ConnInv
<1>3. /\ TypeOK(U)' /\ ConnInv'
      /\ Len(conns') = Len(conns) /\ conns'[i] = c /\ conns # <<>> /\ conns' # <<>>
      /\ \A j \in 1..Len(conns) : j # i => conns'[j] = conns[j]
  BY <1>1, <1>2, OneChanged, ZenonT(40)
<1>4. Len(conns) \in 1..Len(conns)
  BY <1>3, EmptySeq, LenProperties DEF ClientInv, TypeOK
<1>5. /\ conns'[Len(conns)].up = conns[Len(conns)].up
      /\ conns'[Len(conns)].peer = conns[Len(conns)].peer
  BY <1>3, <1>4, Zenon
<1>6. PlaceInv'
  BY <1>3, <1>5, Zenon DEF ClientInv, PlaceInv
<1> QED
  BY <1>3, <1>6, Zenon DEF ClientInv

\* What the peers and the spawned tasks do keeps it.
LEMMA PeersKeep ==
  ASSUME NEW U, Sound(U), ClientInv(U), NEW i \in DOMAIN conns,
         TaskEnds(i) \/ PeerHandshake(i) \/ PeerAnswers(i) \/ PeerHangsUp(i)
  PROVE  ClientInv(U)'
<1>1. conns \in Seq(Conn(U))
  BY Zenon DEF ClientInv, TypeOK
<1>2. i \in 1..Len(conns) /\ conns[i] \in Conn(U)
  BY <1>1, LenProperties, ElementOfSeq, Zenon
<1>3. UNCHANGED <<kind, direct, appLeft, clientPc>>
  BY Zenon DEF TaskEnds, PeerHandshake, PeerAnswers, PeerHangsUp, rigid
<1>4. conns[i].up = <<>> => Quiet(conns[i])
  BY <1>2, Zenon DEF ClientInv, ConnInv, Quiet
<1>5. CASE PeerHandshake(i)
  <2> DEFINE d == IF transport.proof # "in-tunnel" THEN <<>>
                  ELSE IF conns[i].peer = "server" THEN <<"proof">> ELSE <<"lie">>
             c == [conns[i] EXCEPT !.st = "up", !.down = d]
  <2>1. d \in Seq(U)
    BY DEF Sound
  <2>2. /\ c \in Conn(U) /\ c.up = conns[i].up /\ c.peer = conns[i].peer /\ c.open = conns[i].open
        /\ c.down = d
    BY <1>2, <2>1, Zenon DEF Conn
  <2>3. conns' = [conns EXCEPT ![i] = c]
    BY <1>2, <1>5, Zenon DEF PeerHandshake, Conn
  <2>4. Quiet(c)
    BY <2>2, Zenon DEF Quiet
  <2> HIDE DEF c
  <2> QED
    BY <1>2, <1>3, <2>2, <2>3, <2>4, PeerKeeps, Zenon
<1>6. CASE PeerAnswers(i)
  <2>1. PICK r \in Responses : conns' = [conns EXCEPT ![i].down = @ \o r \o AppPayload, ![i].told = 1]
    BY <1>6, Zenon DEF PeerAnswers
  <2> DEFINE d == conns[i].down \o r \o AppPayload
             c == [conns[i] EXCEPT !.down = d, !.told = 1]
  <2>2. conns[i].down \in Seq(U) /\ r \in Seq(U) /\ AppPayload \in Seq(U)
    BY <1>2, Zenon DEF Sound, Conn
  <2>3. d \in Seq(U)
    BY <2>2, ConcatProperties, Zenon
  <2>4. conns' = [conns EXCEPT ![i] = c]
    BY <1>2, <2>1, Zenon DEF Conn
  <2> HIDE DEF d
  <2>5. c \in Conn(U) /\ c.up = conns[i].up /\ c.peer = conns[i].peer /\ c.open = conns[i].open
    BY <1>2, <2>3, Zenon DEF Conn
  <2>6. c.up # <<>>
    BY <1>6, <2>5, Zenon DEF PeerAnswers
  <2> HIDE DEF c
  <2> QED
    BY <1>2, <1>3, <2>4, <2>5, <2>6, PeerKeeps, Zenon
<1>7. CASE PeerHangsUp(i)
  <2> DEFINE c == [conns[i] EXCEPT !.st = "closed"]
  <2>1. /\ c \in Conn(U) /\ c.up = conns[i].up /\ c.peer = conns[i].peer /\ c.open = conns[i].open
        /\ c.down = conns[i].down
    BY <1>2, Zenon DEF Conn
  <2>2. conns' = [conns EXCEPT ![i] = c]
    BY <1>2, <1>7, Zenon DEF PeerHangsUp
  <2> HIDE DEF c
  <2>3. c.up = <<>> => Quiet(c)
    BY <1>4, <2>1, Zenon DEF Quiet
  <2> QED
    BY <1>2, <1>3, <2>1, <2>2, <2>3, PeerKeeps, Zenon
<1>8. CASE TaskEnds(i)
  <2> DEFINE c == [conns[i] EXCEPT !.open = FALSE]
  <2>1. /\ c \in Conn(U) /\ c.up = conns[i].up /\ c.peer = conns[i].peer /\ ~c.open
        /\ c.down = conns[i].down
    BY <1>2, Zenon DEF Conn
  <2>2. conns' = [conns EXCEPT ![i] = c]
    BY <1>2, <1>8, Zenon DEF TaskEnds
  <2> HIDE DEF c
  <2>3. c.up = <<>> => Quiet(c)
    BY <1>4, <2>1, Zenon DEF Quiet
  <2> QED
    BY <1>2, <1>3, <2>1, <2>2, <2>3, PeerKeeps, Zenon
<1> QED
  BY <1>5, <1>6, <1>7, <1>8, Zenon

\* Every step keeps the invariant.
LEMMA ClientStep ==
  ASSUME NEW U, Sound(U), ClientInv(U), [ClientNext]_clientVars
  PROVE  ClientInv(U)'
<1>1. CASE UNCHANGED clientVars
  BY <1>1, Zenon DEF clientVars, ClientInv, TypeOK, ConnInv, PlaceInv
<1>2. CASE Client
  BY <1>2, HandshakeKeeps, ConnectKeeps, HandshakeStepKeeps, EndsKeep, ReadProofKeeps,
     WriteRequestKeeps, ReadsKeep, RelayUpKeeps, CloseKeeps, Zenon DEF Client
<1>3. CASE AppGone \/ TunnelEnds
  BY <1>3, HandshakeKeeps, Zenon
<1>4. CASE \E i \in DOMAIN conns : TaskEnds(i) \/ PeerHandshake(i) \/ PeerAnswers(i) \/ PeerHangsUp(i)
  BY <1>4, PeersKeep, Zenon
<1> QED
  BY <1>1, <1>2, <1>3, <1>4, Zenon DEF ClientNext

-----------------------------------------------------------------------------
(* The theorem *)

\* The request, and with it the user's id, is given away at most once and only to the server; an
\* attempt's connection is closed before the next one is made unless its dial spawns tasks, and
\* the raw transport leaves nothing open behind a session: for every limit of attempts, every
\* transport and whatever answers (the dialers, handle_socks_session and its likes).
THEOREM RequestGivenOnce ==
  ASSUME NEW U, Sound(U)
  PROVE  ClientSpec => []RequestOnce
<1>1. ClientInit => ClientInv(U)
  BY ClientStart, Zenon
<1>2. ClientInv(U) /\ [ClientNext]_clientVars => ClientInv(U)'
  BY ClientStep, Zenon
<1>3. ClientInv(U) => RequestOnce
  <2> SUFFICES ASSUME ClientInv(U) PROVE RequestOnce
    BY Zenon
  <2> DEFINE asked == {i \in DOMAIN conns : conns[i].up # <<>>}
             opened == {i \in DOMAIN conns : conns[i].open}
  <2>1. DOMAIN conns = 1..Len(conns)
    BY LenProperties, Zenon DEF ClientInv, TypeOK
  <2>2. asked \subseteq {Len(conns)} /\ (kind \notin Spawning => opened \subseteq {Len(conns)})
    BY <2>1, ZenonT(40) DEF ClientInv, ConnInv
  <2>3. kind # "plain" => \A i \in asked : conns[i].peer = "server"
    BY <2>1, ZenonT(40) DEF ClientInv, ConnInv
  <2>4. clientPc = "closed" => direct # "open" /\ (kind = "raw" => opened = {})
    BY <2>1, Zenon DEF ClientInv, ConnInv, PlaceInv
  <2>5. (\A i, j \in asked : i = j) /\ (kind \notin Spawning => \A i, j \in opened : i = j)
    BY <2>2, Zenon
  <2>6. (transport.tasks = "dialling" <=> kind \in Spawning) /\ (transport.tasks = "never" <=> kind = "raw")
    BY TransportTasks, Zenon DEF ClientInv, TypeOK
  <2> QED
    BY <2>3, <2>4, <2>5, <2>6, Zenon DEF RequestOnce
<1> QED
  BY <1>1, <1>2, <1>3, PTL DEF ClientSpec

-----------------------------------------------------------------------------
(* What the two sides are given *)

\* A response is its version, the length of its addons and the addons (Response::encode).
WellFormed ==
  \A r \in Responses : Len(r) >= 2 /\ (r[1] = 0 => r[2] \in Nat /\ Len(r) = 2 + r[2])

Dialing == {"dial", "tls", "proof", "write"}
Local == {"direct", "freedom", "block", "blackhole"}

\* The sequence w is a and then b.
Splits(a, b, w) == a \o b = w

\* What a tunnel is told, and what the server that took the request sends.
Said == <<Request>> \o AppData
Answer(r) == r \o AppPayload

\* A connection that was not asked has not answered.  One that was has finished its handshake, and
\* was sent the request and then what the application has let go of.
Sent(c, left) ==
  /\ c.up = <<>> => c.told = 0
  /\ c.up = <<>> /\ transport.proof # "in-tunnel" => c.down = <<>>
  /\ c.up # <<>> => /\ c.st # "new"
                    /\ Splits(c.up, left, Said)
                    /\ c.told = 0 => c.down = <<>>

SentInv == \A i \in 1..Len(conns) : Sent(conns[i], appLeft)

\* What the session has read of the connection in use: a part of the response, or the response and
\* a part of the payload, and the rest is still to be read.
ReadInv(U) ==
  /\ acc \in Seq(U) /\ given \in Seq(U) /\ StartOf(given, AppPayload)
  /\ clientPc \in Before \cup Dialing \/ direct # "no" => acc = <<>> /\ given = <<>>
  /\ clientPc \in Before \cup Dialing => appLeft = AppData
  /\ clientPc \in {"proof", "write"} => conns[Len(conns)].st # "new"
  /\ clientPc = "write" => conns[Len(conns)].down = <<>>
  /\ clientPc = "response" => /\ given = <<>>
                              /\ transport.exact => acc = <<>>
                              /\ conns[Len(conns)].told = 0 => acc = <<>>
                              /\ conns[Len(conns)].told = 1 =>
                                   \E r \in Responses : Splits(acc, conns[Len(conns)].down, Answer(r))
  /\ clientPc \in {"accept", "relay"} /\ direct = "no" =>
       conns[Len(conns)].told = 1 /\ Splits(given, conns[Len(conns)].down, AppPayload)

\* What the application was told, and where the router wants its target.
RouteInv ==
  /\ replies \in Seq({"none", "method", "unsupported", "ok"})
  /\ (\E i \in DOMAIN replies : replies[i] = "ok") =>
       /\ clientPc \in {"relay", "closing", "closed"}
       /\ direct # "no" \/ (conns # <<>> /\ conns[Len(conns)].told = 1)
  /\ transport.routed /\ tag \in Local => conns = <<>> /\ clientPc \notin Dialing
  /\ transport.routed /\ tag \notin {"direct", "freedom"} =>
       direct = "no" /\ clientPc \notin {"resolve", "connect"}

ContentInv(U) == SentInv /\ ReadInv(U) /\ RouteInv

\* The empty stream begins every stream.
LEMMA EmptyBegins ==
  ASSUME NEW S, NEW t \in Seq(S)
  PROVE  StartOf(<<>>, t)
BY SubSeqEmpty, LenProperties DEF StartOf

\* Nothing is relayed yet when the program starts.
LEMMA ContentInit ==
  ASSUME NEW U, Sound(U), ClientInit
  PROVE  ContentInv(U)
<1>1. conns = <<>> /\ Len(conns) = 0 /\ <<>> \in Seq(U) /\ AppPayload \in Seq(U)
  BY DEF ClientInit, Sound
<1>2. StartOf(<<>>, AppPayload)
  BY <1>1, EmptyBegins, Zenon
<1>3. SentInv
  BY <1>1 DEF SentInv
<1>4. ReadInv(U)
  BY <1>1, <1>2, Zenon DEF ClientInit, ReadInv, Before, Dialing
<1>5. kind = "chain" => ~transport.routed
  BY DEF transport, Chain, Dialer, Plain, Veil, Xhttp, H3, Raw
<1>6. RouteInv
  BY <1>1, <1>5 DEF ClientInit, RouteInv, Dialing
<1> QED
  BY <1>3, <1>4, <1>6, Zenon DEF ContentInv

\* The SOCKS handshake and the direct dial: there is no connection to the server yet.
LEMMA NoConnectionContent ==
  ASSUME NEW U, ClientInv(U), ContentInv(U),
         ReadGreeting \/ ReadConnect \/ AppGone \/ Resolve \/ ConnectDirect
  PROVE  ContentInv(U)'
<1> USE DEF ContentInv
<1>1. UNCHANGED <<kind, tag, conns, acc, given, appLeft>> /\ transport' = transport
  BY Zenon DEF ReadGreeting, ReadConnect, AppGone, Resolve, ConnectDirect, rigid, transport
<1>2. conns = <<>> /\ Len(conns) = 0 /\ clientPc \in Before
  BY Zenon DEF ReadGreeting, ReadConnect, AppGone, Resolve, ConnectDirect, ClientInv, PlaceInv,
     Before
<1>3. SentInv'
  BY <1>1, <1>2 DEF SentInv
<1>4. /\ clientPc' \in {"request", "resolve", "connect", "dial", "closing", "accept"}
      /\ clientPc' = "accept" => direct' = "open"
      /\ clientPc' # "accept" => direct' = direct
      /\ direct = "no"
  BY <1>2, Zenon DEF ReadGreeting, ReadConnect, AppGone, Resolve, ConnectDirect, ClassifyRoute,
     ClientInv,
              PlaceInv, Before, Asked
<1>5. ReadInv(U)'
  BY <1>1, <1>2, <1>4, Zenon DEF ReadInv, Before, Dialing
<1>6. /\ replies' \in Seq({"none", "method", "unsupported", "ok"})
      /\ ~ \E i \in DOMAIN replies' : replies'[i] = "ok"
  <2>1. \/ replies' = replies
        \/ \E m \in {"none", "method", "unsupported"} : replies' = Append(replies, m)
    BY Zenon DEF ReadGreeting, ReadConnect, AppGone, Resolve, ConnectDirect
  <2>2. ~ \E i \in DOMAIN replies : replies[i] = "ok"
    BY <1>2, Zenon DEF RouteInv, Before
  <2> QED
    BY <2>1, <2>2 DEF RouteInv
<1>7. /\ transport.routed /\ tag \in Local => clientPc' \notin Dialing
      /\ transport.routed /\ tag \notin {"direct", "freedom"} =>
           direct' = "no" /\ clientPc' \notin {"resolve", "connect"}
  <2>1. CASE ReadConnect
    BY <2>1, <1>4, Zenon DEF ReadConnect, ClassifyRoute, Local, Dialing
  <2>2. CASE ReadGreeting \/ AppGone \/ Resolve \/ ConnectDirect
    BY <2>2, <1>4, Zenon DEF ReadGreeting, AppGone, Resolve, ConnectDirect, Local, Dialing, RouteInv
  <2> QED
    BY <2>1, <2>2, Zenon
<1>8. RouteInv'
  BY <1>1, <1>2, <1>6, <1>7, Zenon DEF RouteInv
<1> QED
  BY <1>3, <1>5, <1>8, Zenon

\* The connections keep what they hold, and the session ends, gives up an attempt or relays.
LEMMA AsItWas ==
  ASSUME NEW U, ClientInv(U), ContentInv(U), UNCHANGED <<kind, tag, acc, given, appLeft>>,
         conns = <<>> => conns' = <<>>, conns # <<>> => conns' # <<>>, Len(conns') = Len(conns),
         \A j \in 1..Len(conns) :
            /\ conns'[j].up = conns[j].up /\ conns'[j].down = conns[j].down
            /\ conns'[j].st = conns[j].st /\ conns'[j].told = conns[j].told,
         \/ clientPc = "dial" /\ clientPc' = "dial" /\ direct' = direct /\ replies' = replies
         \/ clientPc = "tls" /\ clientPc' = "dial" /\ direct' = direct /\ replies' = replies
         \/ /\ clientPc = "tls" /\ clientPc' \in {"proof", "write"} /\ direct' = direct /\ replies' = replies
            /\ conns[Len(conns)].st # "new"
            /\ clientPc' = "write" => transport.proof # "in-tunnel"
         \/ /\ clientPc' \in {"closing", "closed"} /\ replies' = replies
            /\ direct' = "no" <=> direct = "no"
         \/ clientPc = "accept" /\ clientPc' = "relay" /\ direct' = direct /\ replies' = Append(replies, "ok")
  PROVE  ContentInv(U)'
<1> USE DEF ContentInv
<1>1. transport' = transport
  BY Zenon DEF transport
<1>2. SentInv'
  BY <1>1 DEF SentInv, Sent
<1>3. conns \in Seq(Conn(U)) /\ (conns # <<>> => Len(conns) \in 1..Len(conns))
  BY EmptySeq, LenProperties DEF ClientInv, TypeOK
<1>4. clientPc \in {"accept", "relay", "tls"} /\ direct = "no" => conns # <<>>
  BY Zenon DEF ClientInv, PlaceInv
<1>5. clientPc = "tls" => direct = "no" /\ conns[Len(conns)].up = <<>>
  BY Zenon DEF ClientInv, PlaceInv, Asked
<1>6. clientPc' = "write" => conns[Len(conns)].down = <<>>
  BY <1>3, <1>4, <1>5, Zenon DEF SentInv, Sent
<1>7. ReadInv(U)'
  BY <1>1, <1>3, <1>4, <1>5, <1>6, Zenon DEF ReadInv, Before, Dialing
<1>8. /\ replies' \in Seq({"none", "method", "unsupported", "ok"})
      /\ (\E i \in DOMAIN replies' : replies'[i] = "ok") =>
           clientPc' = "relay" \/ \E i \in DOMAIN replies : replies[i] = "ok"
  BY SMTT(30) DEF RouteInv
<1>9. clientPc' = "relay" /\ direct' = "no" => conns # <<>> /\ conns[Len(conns)].told = 1
  BY <1>4, Zenon DEF ReadInv
<1>10. RouteInv'
  BY <1>1, <1>3, <1>8, <1>9, Zenon DEF RouteInv, Dialing
<1> QED
  BY <1>2, <1>7, <1>10, Zenon

\* The steps that carry no content leave it alone.
LEMMA AttemptsContent ==
  ASSUME NEW U, ClientInv(U), ContentInv(U),
         \/ Handshake \/ Timeout \/ ReadEof \/ AcceptConnect \/ TunnelEnds \/ CloseSession
         \/ (Connect /\ UNCHANGED conns)
  PROVE  ContentInv(U)'
<1>1. UNCHANGED <<kind, tag, acc, given, appLeft>>
  BY Zenon DEF Handshake, Timeout, ReadEof, AcceptConnect, TunnelEnds, CloseSession, Connect, rigid
<1>2. conns' = conns \/ \E owned \in BOOLEAN : conns' = Dropped(conns, owned)
  BY Zenon DEF Handshake, Timeout, ReadEof, AcceptConnect, TunnelEnds, CloseSession, Connect,
     AttemptDropped, TasksOwnIt
<1>3. /\ conns = <<>> => conns' = <<>>
      /\ conns # <<>> => conns' # <<>>
      /\ Len(conns') = Len(conns)
      /\ \A j \in 1..Len(conns) :
           /\ conns'[j].up = conns[j].up /\ conns'[j].down = conns[j].down
           /\ conns'[j].st = conns[j].st /\ conns'[j].told = conns[j].told
  <2>1. conns \in Seq(Conn(U))
    BY Zenon DEF ClientInv, TypeOK
  <2>2. CASE conns' = conns
    BY <2>2, Zenon
  <2>3. ASSUME NEW owned \in BOOLEAN, conns' = Dropped(conns, owned)
        PROVE  /\ conns = <<>> => conns' = <<>>
               /\ conns # <<>> => conns' # <<>>
               /\ Len(conns') = Len(conns)
               /\ \A j \in 1..Len(conns) :
                    /\ conns'[j].up = conns[j].up /\ conns'[j].down = conns[j].down
                    /\ conns'[j].st = conns[j].st /\ conns'[j].told = conns[j].told
    <3>1. conns = <<>> => conns' = <<>>
      BY <2>3, Zenon DEF Dropped
    <3>2. /\ Len(conns') = Len(conns) /\ conns' \in Seq(Conn(U))
          /\ \A j \in 1..Len(conns) :
               /\ conns'[j].up = conns[j].up /\ conns'[j].down = conns[j].down
               /\ conns'[j].st = conns[j].st /\ conns'[j].told = conns[j].told
      BY <2>1, <2>3, Closed, Zenon
    <3>3. conns # <<>> => conns' # <<>>
      BY <2>1, <3>2, EmptySeq, Zenon
    <3> QED
      BY <3>1, <3>2, <3>3, Zenon
  <2> QED
    BY <1>2, <2>2, <2>3, Zenon
<1>4. CASE Handshake
  <2>1. clientPc = "tls" /\ direct' = direct /\ replies' = replies /\ conns[Len(conns)].st # "new"
    BY <1>4, Zenon DEF Handshake, conn, last
  <2>2. \/ clientPc' \in {"dial", "closing"}
        \/ clientPc' \in {"proof", "write"} /\ (clientPc' = "write" => transport.proof # "in-tunnel")
    BY <1>4, Zenon DEF Handshake, NextAttempt
  <2> QED
    BY <1>1, <1>3, <2>1, <2>2, AsItWas, Zenon
<1>5. CASE Timeout \/ ReadEof
  <2>1. /\ direct' = direct /\ replies' = replies
        /\ clientPc' = "closing" \/ (clientPc = "tls" /\ clientPc' = "dial")
    BY <1>5, Zenon DEF Timeout, ReadEof, NextAttempt
  <2> QED
    BY <1>1, <1>3, <2>1, AsItWas, Zenon
<1>6. CASE AcceptConnect
  <2>1. clientPc = "accept" /\ clientPc' = "relay" /\ direct' = direct /\ replies' = Append(replies, "ok")
    BY <1>6, Zenon DEF AcceptConnect
  <2> QED
    BY <1>1, <1>3, <2>1, AsItWas, Zenon
<1>7. CASE TunnelEnds \/ CloseSession
  <2>1. /\ clientPc' \in {"closing", "closed"} /\ replies' = replies
        /\ direct' = "no" <=> direct = "no"
    BY <1>7, Zenon DEF TunnelEnds, CloseSession
  <2> QED
    BY <1>1, <1>3, <2>1, AsItWas, Zenon
<1>8. CASE Connect /\ UNCHANGED conns
  <2>1. \/ clientPc = "dial" /\ clientPc' = "dial"
        \/ clientPc' = "closing"
        \/ \E c : conns' = Append(conns, c)
    BY <1>8, Zenon DEF Connect, NextAttempt
  <2>2. direct' = direct /\ replies' = replies
    BY <1>8, Zenon DEF Connect
  <2>3. ASSUME NEW c, conns' = Append(conns, c) PROVE FALSE
    <3>1. Len(Append(conns, c)) = Len(conns) + 1 /\ Len(conns) \in Nat
      BY LenProperties DEF ClientInv, TypeOK
    <3> QED
      BY <1>8, <2>3, <3>1
  <2> QED
    BY <1>1, <1>3, <2>1, <2>2, <2>3, AsItWas, Zenon
<1> QED
  BY <1>4, <1>5, <1>6, <1>7, <1>8, Zenon

\* A new connection: nothing was said on it.
LEMMA ConnectContent ==
  ASSUME NEW U, ClientInv(U), ContentInv(U), Connect
  PROVE  ContentInv(U)'
<1> USE DEF ContentInv
<1>1. CASE UNCHANGED conns
  BY <1>1, AttemptsContent, Zenon
<1>2. CASE ~ UNCHANGED conns
  <2>1. PICK who \in {"server", "other", "nobody"} :
          conns' = Append(conns, [peer |-> who, open |-> TRUE, st |-> "new", up |-> <<>>,
                                  down |-> <<>>, told |-> 0])
    BY <1>2, Zenon DEF Connect
  <2> DEFINE c == [peer |-> who, open |-> TRUE, st |-> "new", up |-> <<>>,
                   down |-> <<>>, told |-> 0]
  <2>2. /\ clientPc = "dial" /\ clientPc' = "tls" /\ direct = "no" /\ transport' = transport
        /\ UNCHANGED <<kind, tag, direct, replies, acc, given, appLeft>>
    BY <1>2, Zenon DEF Connect, rigid, transport, ClientInv, PlaceInv, Asked
  <2>3. c \in Conn(U) /\ c.up = <<>> /\ c.down = <<>> /\ c.told = 0
    BY DEF Conn
  <2>4. conns' = Append(conns, c) /\ conns \in Seq(Conn(U)) /\ Len(conns) \in Nat
    BY <2>1, LenProperties, Zenon DEF ClientInv, TypeOK
  <2> HIDE DEF c
  <2>5. /\ Len(conns') = Len(conns) + 1 /\ conns'[Len(conns) + 1] = c
        /\ \A j \in 1..Len(conns) : conns'[j] = conns[j]
    BY <2>3, <2>4, AppendProperties
  <2>6. SentInv'
    <3> SUFFICES ASSUME NEW j \in 1..Len(conns') PROVE Sent(conns[j], appLeft)'
      BY Zenon DEF SentInv
    <3>1. CASE j \in 1..Len(conns)
      <4>1. Sent(conns[j], appLeft) /\ conns'[j] = conns[j]
        BY <2>5, <3>1, Zenon DEF SentInv
      <4> QED
        BY <2>2, <4>1, Zenon DEF Sent
    <3>2. CASE j = Len(conns) + 1
      BY <2>2, <2>3, <2>5, <3>2, Zenon DEF Sent
    <3> QED
      BY <2>4, <2>5, <3>1, <3>2
  <2>7. ReadInv(U)'
    BY <2>2, Zenon DEF ReadInv, Before, Dialing
  <2>8. RouteInv'
    BY <2>2, Zenon DEF RouteInv, Dialing
  <2> QED
    BY <2>6, <2>7, <2>8, Zenon
<1> QED
  BY <1>1, <1>2, Zenon

\* One connection changes.
LEMMA SentOne ==
  ASSUME NEW C, conns \in Seq(C), ConnInv, SentInv, NEW i \in 1..Len(conns), NEW c \in C,
         conns' = [conns EXCEPT ![i] = c], kind' = kind,
         appLeft' = appLeft \/ i = Len(conns), Sent(c, appLeft')
  PROVE  /\ SentInv'
         /\ Len(conns') = Len(conns) /\ conns'[i] = c /\ conns # <<>> /\ conns' # <<>>
         /\ \A j \in 1..Len(conns) : j # i => conns'[j] = conns[j]
<1>1. Len(conns) \in Nat
  BY LenProperties, Zenon
<1>2. /\ conns' \in Seq(C) /\ Len(conns') = Len(conns) /\ conns'[i] = c
      /\ \A j \in 1..Len(conns) : j # i => conns'[j] = conns[j]
  BY ExceptSeq
<1>3. conns # <<>> /\ conns' # <<>>
  <2>1. i \in 1..Len(conns')
    BY <1>2, Zenon
  <2> QED
    BY <1>1, <1>2, <2>1, NotEmpty, ZenonT(40)
<1>4. transport' = transport
  BY Zenon DEF transport
<1>5. SentInv'
  <2> SUFFICES ASSUME NEW j \in 1..Len(conns') PROVE Sent(conns[j], appLeft)'
    BY Zenon DEF SentInv
  <2>1. CASE j = i
    BY <1>2, <1>4, <2>1, ZenonT(40) DEF Sent
  <2>2. CASE j # i
    <3>1. conns'[j] = conns[j] /\ Sent(conns[j], appLeft)
      BY <1>2, <2>2, ZenonT(40) DEF SentInv
    <3>2. appLeft' # appLeft => conns[j].up = <<>>
      BY <1>2, <2>2, Zenon DEF ConnInv
    <3> QED
      BY <1>4, <3>1, <3>2, Zenon DEF Sent
  <2> QED
    BY <2>1, <2>2, Zenon
<1> QED
  BY <1>2, <1>3, <1>5, Zenon

-----------------------------------------------------------------------------
(* Lemmas about sequences that are read from the front *)

\* A stream splits into the part read and the part left.
LEMMA ReadPart ==
  ASSUME NEW S, NEW d \in Seq(S), NEW n \in 1..Len(d)
  PROVE  /\ SubSeq(d, 1, n) \in Seq(S) /\ SubSeq(d, n + 1, Len(d)) \in Seq(S)
         /\ Len(SubSeq(d, 1, n)) = n
         /\ SubSeq(d, 1, n) \o SubSeq(d, n + 1, Len(d)) = d
<1>1. Len(d) \in Nat /\ n \in Nat /\ 1 <= n /\ n <= Len(d)
  BY LenProperties
<1>2. \A i \in 1..n : d[i] \in S
  BY <1>1, ElementOfSeq
<1>3. SubSeq(d, 1, n) \in Seq(S) /\ Len(SubSeq(d, 1, n)) = n
  BY <1>1, <1>2, SubSeqProperties
<1>4. SubSeq(d, n + 1, Len(d)) \in Seq(S)
  BY <1>1, SubSeqProperties
<1>5. 1 \in 1..Len(d) + 1 /\ n \in 1 - 1..Len(d) /\ Len(d) \in n..Len(d)
  BY <1>1
<1>6. SubSeq(d, 1, n) \o SubSeq(d, n + 1, Len(d)) = SubSeq(d, 1, Len(d))
  BY <1>5, ConcatAdjacentSubSeq, Zenon
<1> QED
  BY <1>3, <1>4, <1>6, SubSeqFull, Zenon

\* Part of what is left is read: read and left together are still the stream.
LEMMA ReadMore ==
  ASSUME NEW S, NEW a \in Seq(S), NEW d \in Seq(S), NEW n \in 1..Len(d)
  PROVE  /\ a \o SubSeq(d, 1, n) \in Seq(S)
         /\ (a \o SubSeq(d, 1, n)) \o SubSeq(d, n + 1, Len(d)) = a \o d
<1> DEFINE x == SubSeq(d, 1, n)
           y == SubSeq(d, n + 1, Len(d))
<1>1. x \in Seq(S) /\ y \in Seq(S) /\ x \o y = d
  BY ReadPart, Zenon
<1> HIDE DEF x, y
<1>2. /\ Len(a) \in Nat /\ Len(x) \in Nat /\ Len(y) \in Nat /\ Len(d) = Len(x) + Len(y)
      /\ \A i \in 1..Len(d) : d[i] = IF i <= Len(x) THEN x[i] ELSE y[i - Len(x)]
  BY <1>1, LenProperties, ConcatProperties, SMTT(30)
<1>3. /\ a \o x \in Seq(S) /\ Len(a \o x) = Len(a) + Len(x)
      /\ \A i \in 1..Len(a) + Len(x) : (a \o x)[i] = IF i <= Len(a) THEN a[i] ELSE x[i - Len(a)]
  BY <1>1, ConcatProperties, Zenon
<1> DEFINE l == (a \o x) \o y
           r == a \o d
<1>4. /\ l \in Seq(S) /\ Len(l) = Len(a) + Len(x) + Len(y)
      /\ \A i \in 1..Len(l) : l[i] = IF i <= Len(a) + Len(x) THEN (a \o x)[i]
                                      ELSE y[i - (Len(a) + Len(x))]
  BY <1>1, <1>3, ConcatProperties
<1>5. /\ r \in Seq(S) /\ Len(r) = Len(a) + Len(d)
      /\ \A i \in 1..Len(r) : r[i] = IF i <= Len(a) THEN a[i] ELSE d[i - Len(a)]
  BY ConcatProperties
<1> HIDE DEF l, r
<1>6. Len(l) = Len(r)
  BY <1>2, <1>4, <1>5
<1>7. ASSUME NEW i \in 1..Len(l) PROVE l[i] = r[i]
  <2>1. i \in Nat /\ 1 <= i /\ i <= Len(a) + Len(x) + Len(y) /\ i \in 1..Len(r)
    BY <1>2, <1>4, <1>6
  <2>2. CASE i <= Len(a)
    <3>1. i <= Len(a) + Len(x) /\ i \in 1..Len(a) + Len(x)
      BY <1>2, <2>1, <2>2
    <3>2. l[i] = a[i]
      BY <1>3, <1>4, <2>2, <3>1, Zenon
    <3>3. r[i] = a[i]
      BY <1>5, <2>1, <2>2, Zenon
    <3> QED
      BY <3>2, <3>3, Zenon
  <2>3. CASE ~(i <= Len(a)) /\ i <= Len(a) + Len(x)
    <3>1. l[i] = x[i - Len(a)]
      BY <1>2, <1>3, <1>4, <2>1, <2>3
    <3>2. r[i] = d[i - Len(a)] /\ i - Len(a) \in 1..Len(d) /\ i - Len(a) <= Len(x)
      BY <1>2, <1>5, <2>1, <2>3
    <3> QED
      BY <1>2, <3>1, <3>2, Zenon
  <2>4. CASE ~(i <= Len(a) + Len(x))
    <3>1. l[i] = y[i - (Len(a) + Len(x))]
      BY <1>2, <1>4, <2>1, <2>4, Zenon
    <3>2. r[i] = d[i - Len(a)] /\ i - Len(a) \in 1..Len(d) /\ ~(i - Len(a) <= Len(x))
      BY <1>2, <1>5, <2>1, <2>4
    <3>3. (i - Len(a)) - Len(x) = i - (Len(a) + Len(x))
      BY <1>2, <2>1
    <3> QED
      BY <1>2, <3>1, <3>2, <3>3, Zenon
  <2> QED
    BY <2>2, <2>3, <2>4, Zenon
<1>8. l = r
  BY <1>4, <1>5, <1>6, <1>7, SeqEqual, Zenon
<1> QED
  BY <1>3, <1>8, Zenon DEF x, y, l, r

\* One unit is read: read and left together are still the stream.
LEMMA ReadOne ==
  ASSUME NEW S, NEW g \in Seq(S), NEW d \in Seq(S), d # <<>>
  PROVE  /\ Head(d) \in S /\ Tail(d) \in Seq(S) /\ Append(g, Head(d)) \in Seq(S)
         /\ Append(g, Head(d)) \o Tail(d) = g \o d
<1>1. Head(d) \in S /\ Tail(d) \in Seq(S) /\ Len(d) \in Nat \ {0}
  BY HeadTailProperties, EmptySeq, Zenon
<1>2. Append(g, Head(d)) \in Seq(S) /\ Append(g, Head(d)) = g \o <<Head(d)>>
  BY <1>1, AppendProperties, AppendIsConcat, Zenon
<1>3. <<Head(d)>> \in Seq(S)
  BY <1>1
<1>4. (g \o <<Head(d)>>) \o Tail(d) = g \o (<<Head(d)>> \o Tail(d))
  BY <1>1, <1>3, ConcatAssociative, SMTT(30)
<1>5. <<Head(d)>> \o Tail(d) = d
  BY <1>1
<1> QED
  BY <1>1, <1>2, <1>4, <1>5, Zenon

\* The same, for a stream that is known as a whole.
LEMMA ReadNext ==
  ASSUME NEW S, NEW g \in Seq(S), NEW d \in Seq(S), d # <<>>, NEW w, Splits(g, d, w)
  PROVE  /\ Tail(d) \in Seq(S) /\ Append(g, Head(d)) \in Seq(S)
         /\ Splits(Append(g, Head(d)), Tail(d), w)
<1>1. /\ Tail(d) \in Seq(S) /\ Append(g, Head(d)) \in Seq(S)
      /\ Append(g, Head(d)) \o Tail(d) = g \o d
  BY ReadOne, Zenon
<1>2. g \o d = w
  BY Zenon DEF Splits
<1>3. Append(g, Head(d)) \o Tail(d) = w
  BY <1>1, <1>2, Zenon
<1> QED
  BY <1>1, <1>3, Zenon DEF Splits

\* The start of a stream begins it.
LEMMA StartBegins ==
  ASSUME NEW S, NEW g \in Seq(S), NEW d \in Seq(S)
  PROVE  StartOf(g, g \o d)
<1>1. Len(g) \in Nat /\ Len(d) \in Nat /\ Len(g \o d) = Len(g) + Len(d) /\ g \o d \in Seq(S)
  BY LenProperties, ConcatProperties, Zenon
<1>2. CASE g = <<>>
  BY <1>1, <1>2, SubSeqEmpty DEF StartOf
<1>3. CASE g # <<>>
  <2>1. 1 \in 1..Len(g) /\ Len(g) \in 1..Len(g)
    BY <1>1, <1>3, EmptySeq
  <2>2. SubSeq(g \o d, 1, Len(g)) = SubSeq(g, 1, Len(g))
    BY <2>1, SubSeqOfConcat1, Zenon
  <2> QED
    BY <1>1, <2>2, SubSeqFull DEF StartOf
<1> QED
  BY <1>2, <1>3, Zenon

\* What is left once the start is taken is the rest.
LEMMA RestOf ==
  ASSUME NEW S, NEW s \in Seq(S), NEW m \in Nat, m <= Len(s)
  PROVE  /\ SubSeq(s, m + 1, Len(s)) \in Seq(S)
         /\ Len(SubSeq(s, m + 1, Len(s))) = Len(s) - m
         /\ \A i \in 1..Len(s) - m : SubSeq(s, m + 1, Len(s))[i] = s[m + i]
<1>1. Len(s) \in Nat
  BY LenProperties, Zenon
<1>2. \A i \in m + 1..Len(s) : s[i] \in S
  BY <1>1, ElementOfSeq
<1>3. SubSeq(s, m + 1, Len(s)) \in Seq(S)
  BY <1>1, <1>2, SubSeqProperties
<1>4. Len(SubSeq(s, m + 1, Len(s))) = Len(s) - m
  BY <1>1
<1>5. \A i \in 1..Len(s) - m : SubSeq(s, m + 1, Len(s))[i] = s[m + i]
  BY <1>1
<1> QED
  BY <1>3, <1>4, <1>5, Zenon

\* Two cuts of the same sequence: what is behind the earlier one.
LEMMA Behind ==
  ASSUME NEW S, NEW b \in Seq(S), NEW d \in Seq(S), NEW r \in Seq(S), NEW p \in Seq(S),
         NEW w, Splits(b, d, w), Splits(r, p, w), Len(r) <= Len(b)
  PROVE  /\ SubSeq(b, Len(r) + 1, Len(b)) \in Seq(S)
         /\ Splits(SubSeq(b, Len(r) + 1, Len(b)), d, p)
<1>1. Len(b) \in Nat /\ Len(d) \in Nat /\ Len(r) \in Nat /\ Len(p) \in Nat
  BY LenProperties, Zenon
<1>2. /\ Len(b) + Len(d) = Len(r) + Len(p)
      /\ \A i \in 1..Len(b) + Len(d) : (IF i <= Len(b) THEN b[i] ELSE d[i - Len(b)])
                                     = (IF i <= Len(r) THEN r[i] ELSE p[i - Len(r)])
  <2>1. /\ Len(b \o d) = Len(b) + Len(d)
        /\ \A i \in 1..Len(b) + Len(d) : (b \o d)[i] = IF i <= Len(b) THEN b[i] ELSE d[i - Len(b)]
    BY ConcatProperties, Zenon
  <2>2. /\ Len(r \o p) = Len(r) + Len(p)
        /\ \A i \in 1..Len(r) + Len(p) : (r \o p)[i] = IF i <= Len(r) THEN r[i] ELSE p[i - Len(r)]
    BY ConcatProperties, Zenon
  <2>3. Len(b) + Len(d) = Len(r) + Len(p)
    BY <2>1, <2>2, Zenon DEF Splits
  <2>4. ASSUME NEW i \in 1..Len(b) + Len(d)
        PROVE  (IF i <= Len(b) THEN b[i] ELSE d[i - Len(b)])
             = (IF i <= Len(r) THEN r[i] ELSE p[i - Len(r)])
    <3>1. w[i] = IF i <= Len(b) THEN b[i] ELSE d[i - Len(b)]
      BY <2>1, Zenon DEF Splits
    <3>2. w[i] = IF i <= Len(r) THEN r[i] ELSE p[i - Len(r)]
      BY <2>2, <2>3, Zenon DEF Splits
    <3> QED
      BY <3>1, <3>2, Zenon
  <2> QED
    BY <2>3, <2>4, Zenon
<1> DEFINE t == SubSeq(b, Len(r) + 1, Len(b))
<1>5. /\ t \in Seq(S) /\ Len(t) = Len(b) - Len(r)
      /\ \A i \in 1..Len(b) - Len(r) : t[i] = b[Len(r) + i]
  BY <1>1, RestOf, Zenon
<1> HIDE DEF t
<1>6. /\ t \o d \in Seq(S) /\ Len(t \o d) = Len(p)
      /\ \A i \in 1..Len(p) : (t \o d)[i] = IF i <= Len(t) THEN t[i] ELSE d[i - Len(t)]
  BY <1>1, <1>2, <1>5, ConcatProperties, SMTT(30)
<1>7. ASSUME NEW i \in 1..Len(p) PROVE (t \o d)[i] = p[i]
  <2>1. Len(r) + i \in 1..Len(b) + Len(d) /\ ~(Len(r) + i <= Len(r)) /\ (Len(r) + i) - Len(r) = i
    BY <1>1, <1>2
  <2>2. p[i] = IF Len(r) + i <= Len(b) THEN b[Len(r) + i] ELSE d[Len(r) + i - Len(b)]
    BY <1>2, <2>1
  <2>3. CASE i <= Len(t)
    BY <1>1, <1>5, <1>6, <2>2, <2>3
  <2>4. CASE ~(i <= Len(t))
    <3>1. Len(r) + i - Len(b) = i - Len(t) /\ ~(Len(r) + i <= Len(b))
      BY <1>1, <1>5, <2>4
    <3> QED
      BY <1>6, <2>2, <2>4, <3>1, Zenon
  <2> QED
    BY <2>3, <2>4, Zenon
<1>8. t \o d = p
  BY <1>6, <1>7, SeqEqual, Zenon
<1> QED
  BY <1>5, <1>8, Zenon DEF t, Splits

-----------------------------------------------------------------------------
(* What is said on the connection in use *)

\* Reading the proof keeps the content.
LEMMA ReadProofContent ==
  ASSUME NEW U, ClientInv(U), ContentInv(U), ReadProof
  PROVE  ContentInv(U)'
<1> DEFINE n == Len(conns)
           c == [conns[n] EXCEPT !.down = Tail(@)]
<1>1. n \in 1..Len(conns) /\ conns[n] \in Conn(U) /\ direct = "no" /\ clientPc = "proof"
  BY LastInUse, Zenon DEF ReadProof
<1>2. /\ UNCHANGED <<kind, tag, direct, replies, acc, given, appLeft>> /\ conns[n].down # <<>>
      /\ clientPc' \in {"write", "closing"} /\ transport' = transport
  BY Zenon DEF ReadProof, rigid, conn, last, transport
<1>3. conns[n].up = <<>> /\ Quiet(conns[n]) /\ Sent(conns[n], appLeft) /\ conns[n].st # "new"
  BY <1>1, Zenon DEF ClientInv, PlaceInv, ConnInv, Quiet, ContentInv, SentInv, ReadInv
<1>4. Tail(conns[n].down) = <<>>
  <2>1. CASE conns[n].down = <<"proof">>
    BY <2>1
  <2>2. CASE conns[n].down = <<"lie">>
    BY <2>2
  <2> QED
    BY <1>2, <1>3, <2>1, <2>2, Zenon DEF Quiet
<1>5. /\ c \in Conn(U) /\ c.up = <<>> /\ c.down = <<>> /\ c.told = 0 /\ c.st # "new"
  BY <1>1, <1>3, <1>4, Zenon DEF Conn, Sent
<1>6. conns' = [conns EXCEPT ![n] = c]
  BY <1>1, Zenon DEF ReadProof, last
<1> HIDE DEF c
<1>7. /\ SentInv' /\ Len(conns') = n /\ conns'[n] = c /\ conns # <<>>
      /\ conns' # <<>>
  <2>1. Sent(c, appLeft')
    BY <1>5, Zenon DEF Sent
  <2>2. conns \in Seq(Conn(U)) /\ ConnInv /\ SentInv /\ kind' = kind
    BY <1>2, Zenon DEF ClientInv, TypeOK, ContentInv
  <2>3. n \in 1..Len(conns) /\ c \in Conn(U)
    BY <1>1, <1>5, Zenon
  <2> QED
    BY <1>6, <2>1, <2>2, <2>3, SentOne, ZenonT(60)
<1>8. ReadInv(U)'
  BY <1>1, <1>2, <1>5, <1>7, Zenon DEF ContentInv, ReadInv, Before, Dialing
<1>9. RouteInv'
  BY <1>1, <1>2, <1>7, Zenon DEF ContentInv, RouteInv, Dialing
<1> QED
  BY <1>7, <1>8, <1>9, Zenon DEF ContentInv

\* Writing the request keeps the content.
LEMMA WriteRequestContent ==
  ASSUME NEW U, Sound(U), ClientInv(U), ContentInv(U), WriteRequest
  PROVE  ContentInv(U)'
<1> DEFINE n == Len(conns)
           c == [conns[n] EXCEPT !.up = Append(@, Request)]
<1>1. n \in 1..Len(conns) /\ conns[n] \in Conn(U) /\ direct = "no" /\ clientPc = "write"
  BY LastInUse, Zenon DEF WriteRequest
<1>2. /\ UNCHANGED <<kind, tag, direct, replies, acc, given, appLeft>> /\ clientPc' = "response"
      /\ transport' = transport
  BY Zenon DEF WriteRequest, rigid, transport
<1>3. /\ conns[n].up = <<>> /\ conns[n].down = <<>> /\ conns[n].st # "new"
      /\ Sent(conns[n], appLeft) /\ appLeft = AppData /\ acc = <<>> /\ given = <<>>
  BY <1>1, Zenon DEF ClientInv, PlaceInv, ContentInv, SentInv, ReadInv, Dialing
<1>4. Append(conns[n].up, Request) = <<Request>> /\ <<Request>> \in Seq(U) /\ <<Request>> # <<>>
  BY <1>3 DEF Sound
<1>5. /\ c \in Conn(U) /\ c.up = <<Request>> /\ c.down = <<>> /\ c.told = 0 /\ c.st # "new"
  BY <1>1, <1>3, <1>4, Zenon DEF Conn, Sent
<1>6. conns' = [conns EXCEPT ![n] = c]
  BY <1>1, Zenon DEF WriteRequest, last
<1> HIDE DEF c
<1>7. c.up # <<>> /\ Splits(c.up, appLeft', Said)
  BY <1>2, <1>3, <1>4, <1>5, Zenon DEF Splits, Said
<1>8. /\ SentInv' /\ Len(conns') = n /\ conns'[n] = c /\ conns # <<>>
      /\ conns' # <<>>
  <2>1. Sent(c, appLeft')
    BY <1>5, <1>7, Zenon DEF Sent
  <2>2. conns \in Seq(Conn(U)) /\ ConnInv /\ SentInv /\ kind' = kind
    BY <1>2, Zenon DEF ClientInv, TypeOK, ContentInv
  <2>3. n \in 1..Len(conns) /\ c \in Conn(U)
    BY <1>1, <1>5, Zenon
  <2> QED
    BY <1>6, <2>1, <2>2, <2>3, SentOne, ZenonT(60)
<1>9. ReadInv(U)'
  BY <1>1, <1>2, <1>3, <1>5, <1>8 DEF ContentInv, ReadInv, Before, Dialing
<1>10. RouteInv'
  BY <1>1, <1>2, <1>8, Zenon DEF ContentInv, RouteInv, Dialing
<1> QED
  BY <1>8, <1>9, <1>10, Zenon DEF ContentInv

\* What is read off a connection that has answered.
LEMMA ReadSent ==
  ASSUME NEW U, ClientInv(U), ContentInv(U), clientPc = "response" \/ (clientPc = "relay" /\ direct = "no"),
         NEW d \in Seq(U), conns' = [conns EXCEPT ![Len(conns)].down = d],
         conns[Len(conns)].told = 1, kind' = kind, appLeft' = appLeft
  PROVE  /\ SentInv' /\ transport' = transport /\ Len(conns') = Len(conns)
         /\ conns'[Len(conns)].told = 1 /\ conns'[Len(conns)].down = d
         /\ conns # <<>> /\ conns' # <<>> /\ direct = "no"
<1> DEFINE n == Len(conns)
           c == [conns[n] EXCEPT !.down = d]
<1>1. n \in 1..Len(conns) /\ conns[n] \in Conn(U) /\ direct = "no" /\ transport' = transport
  BY LastInUse, Zenon DEF transport
<1>2. conns[n].up # <<>> /\ Sent(conns[n], appLeft)
  BY <1>1, Zenon DEF ClientInv, PlaceInv, ContentInv, SentInv
<1>3. /\ c \in Conn(U) /\ c.up = conns[n].up /\ c.st = conns[n].st /\ c.told = 1 /\ c.down = d
  BY <1>1, Zenon DEF Conn
<1>4. conns' = [conns EXCEPT ![n] = c]
  BY <1>1, Zenon
<1>5. conns \in Seq(Conn(U)) /\ conns # <<>>
  BY Zenon DEF ClientInv, TypeOK, PlaceInv
<1> HIDE DEF c
<1>6. c \in Conn(U)
  BY <1>3, Zenon
<1>7. /\ Len(conns') = n /\ conns'[n] = c /\ conns' \in Seq(Conn(U))
      /\ \A j \in 1..Len(conns) : j # n => conns'[j] = conns[j]
  <2> DEFINE m == [conns EXCEPT ![n] = c]
  <2>1. /\ Len(m) = n /\ m[n] = c /\ m \in Seq(Conn(U))
        /\ \A j \in 1..Len(conns) : j # n => m[j] = conns[j]
    BY <1>1, <1>5, <1>6, Replaced
  <2>2. conns' = m
    BY <1>4, Zenon
  <2> HIDE DEF m
  <2> QED
    BY <2>1, <2>2, Zenon
<1>8. Sent(c, appLeft)
  BY <1>2, <1>3 DEF Sent
<1>9. SentInv'
  <2> SUFFICES ASSUME NEW j \in 1..Len(conns') PROVE Sent(conns[j], appLeft)'
    BY Zenon DEF SentInv
  <2>1. Sent(conns'[j], appLeft)
    BY <1>7, <1>8, Zenon DEF ContentInv, SentInv
  <2> HIDE DEF n
  <2> QED
    BY <1>1, <2>1, Zenon DEF Sent
<1>10. conns' # <<>>
  <2>1. n \in 1..Len(conns')
    BY <1>1, <1>7, Zenon
  <2> QED
    BY <1>7, <2>1, NotEmpty, Zenon
<1> QED
  BY <1>1, <1>3, <1>5, <1>7, <1>9, <1>10, Zenon

\* Reading from the server keeps the content, once the server has answered.
LEMMA ReadContent ==
  ASSUME NEW U, ContentInv(U), SentInv', transport' = transport, conns # <<>>, conns' # <<>>,
         Len(conns') = Len(conns), conns[Len(conns)].told = 1, conns'[Len(conns)].told = 1,
         UNCHANGED <<tag, direct, replies, appLeft>>, direct = "no",
         clientPc \in {"response", "relay"}, clientPc' \in {"response", "accept", "relay", "closing"},
         clientPc = "relay" => clientPc' = "relay",
         acc' \in Seq(U), given' \in Seq(U), StartOf(given', AppPayload),
         clientPc' = "response" =>
           /\ given' = <<>> /\ (transport.exact => acc' = <<>>)
           /\ \E r \in Responses : Splits(acc', conns'[Len(conns)].down, Answer(r)),
         clientPc' \in {"accept", "relay"} => Splits(given', conns'[Len(conns)].down, AppPayload)
  PROVE  ContentInv(U)'
<1>1. ReadInv(U)'
  <2>1. clientPc' \notin Before \cup Dialing /\ clientPc' \notin {"proof", "write"} /\ direct' = "no"
    BY Zenon DEF Before, Dialing
  <2>2. CASE clientPc' = "response"
    <3>1. \E r \in Responses : Splits(acc', conns'[Len(conns')].down, Answer(r))
      BY <2>2, Zenon
    <3>2. conns'[Len(conns')].told = 1
      BY Zenon
    <3>3. given' = <<>> /\ (transport'.exact => acc' = <<>>)
      BY <2>2, Zenon
    <3> QED
      BY <2>1, <2>2, <3>1, <3>2, <3>3 DEF ReadInv
  <2>3. CASE clientPc' \in {"accept", "relay"}
    <3>1. Splits(given', conns'[Len(conns')].down, AppPayload) /\ conns'[Len(conns')].told = 1
      BY <2>3, Zenon
    <3> QED
      BY <2>1, <2>3, <3>1, Zenon DEF ReadInv
  <2>4. CASE clientPc' = "closing"
    BY <2>1, <2>4, Zenon DEF ReadInv
  <2> QED
    BY <2>2, <2>3, <2>4, Zenon
<1>2. RouteInv'
  <2>1. clientPc' \notin Dialing /\ clientPc' \notin {"resolve", "connect"} /\ direct' = "no"
    BY Zenon DEF Dialing
  <2> QED
    BY <2>1, Zenon DEF ContentInv, RouteInv
<1> QED
  BY <1>1, <1>2, Zenon DEF ContentInv

\* A connection that was asked and holds something has answered.
LEMMA Answered ==
  ASSUME NEW U, ClientInv(U), ContentInv(U), clientPc = "response" \/ (clientPc = "relay" /\ direct = "no"),
         conns[Len(conns)].down # <<>>
  PROVE  conns[Len(conns)].told = 1 /\ conns[Len(conns)].down \in Seq(U) /\ direct = "no"
<1>1. /\ Len(conns) \in 1..Len(conns) /\ conns[Len(conns)] \in Conn(U) /\ direct = "no"
  BY LastInUse, Zenon
<1>2. conns[Len(conns)].up # <<>> /\ Sent(conns[Len(conns)], appLeft)
  BY <1>1, Zenon DEF ClientInv, PlaceInv, ContentInv, SentInv
<1> QED
  BY <1>1, <1>2, Zenon DEF Sent, Conn

\* read_exact of two bytes: what follows a response without addons is the payload.
LEMMA PrefixDecoded ==
  ASSUME NEW U, Sound(U), WellFormed, NEW d \in Seq(U), NEW r \in Responses, d = Answer(r),
         Len(d) >= 2, Decode(SubSeq(d, 1, 2)) = "ok"
  PROVE  SubSeq(d, 3, Len(d)) = AppPayload
<1> DEFINE b == SubSeq(d, 1, 2)
<1>1. Len(d) \in Nat /\ 2 \in 1..Len(d) /\ r \in Seq(U) /\ AppPayload \in Seq(U) /\ Len(r) \in Nat
      /\ Len(r) >= 2
  BY LenProperties DEF Sound, WellFormed
<1>2. /\ b \in Seq(U) /\ SubSeq(d, 3, Len(d)) \in Seq(U) /\ Len(b) = 2
      /\ b \o SubSeq(d, 3, Len(d)) = d
  BY <1>1, ReadPart
<1>3. d = r \o AppPayload
  BY Zenon DEF Answer
<1>4. /\ Len(r) <= Len(d)
      /\ \A k \in 1..Len(r) : d[k] = r[k]
  BY <1>1, <1>3, ConcatProperties
<1>5. b[1] = r[1] /\ b[2] = r[2]
  BY <1>1, <1>4
<1>6. b[1] = 0 /\ ~(Len(b) < 2 + b[2])
  BY <1>2, Zenon DEF Decode
<1> HIDE DEF b
<1>7. r[2] \in Nat /\ Len(r) = 2 + r[2]
  BY <1>5, <1>6, Zenon DEF WellFormed
<1>8. Len(r) = 2
  BY <1>2, <1>5, <1>6, <1>7
<1>9. b \o SubSeq(d, 3, Len(d)) = r \o AppPayload
  BY <1>2, <1>3, Zenon
<1>10. b = r
  BY <1>1, <1>2, <1>5, <1>8, SeqEqual, SMTT(30)
<1> QED
  BY <1>1, <1>2, <1>9, <1>10, ConcatSimplifications, Zenon

\* Reading the prefix of the response keeps the content.
LEMMA ReadPrefixContent ==
  ASSUME NEW U, Sound(U), WellFormed, ClientInv(U), ContentInv(U), ReadPrefix
  PROVE  ContentInv(U)'
<1> DEFINE n == Len(conns)
           d == conns[n].down
<1>1. /\ clientPc = "response" /\ transport.exact /\ Len(d) >= 2
      /\ conns' = [conns EXCEPT ![n].down = SubSeq(d, 3, Len(d))]
      /\ clientPc' = IF Decode(SubSeq(d, 1, 2)) = "ok" THEN "accept" ELSE "closing"
      /\ UNCHANGED <<kind, tag, direct, replies, acc, given, appLeft>>
  BY Zenon DEF ReadPrefix, conn, last, rigid
<1>2. d # <<>>
  BY <1>1
<1>3. conns[n].told = 1 /\ d \in Seq(U) /\ direct = "no"
  BY <1>1, <1>2, Answered, Zenon
<1>4. SubSeq(d, 3, Len(d)) \in Seq(U) /\ Len(d) \in Nat
  BY <1>1, <1>3, ReadPart, LenProperties
<1>5. /\ SentInv' /\ transport' = transport /\ Len(conns') = Len(conns)
      /\ conns'[Len(conns)].told = 1 /\ conns'[Len(conns)].down = SubSeq(d, 3, Len(d))
      /\ conns # <<>> /\ conns' # <<>>
  BY <1>1, <1>3, <1>4, ReadSent, Zenon
<1>6. /\ given = <<>> /\ acc = <<>> /\ acc \in Seq(U) /\ given \in Seq(U) /\ StartOf(given, AppPayload)
      /\ \E r \in Responses : Splits(acc, d, Answer(r))
  BY <1>1, <1>3, Zenon DEF ContentInv, ReadInv
<1>7. clientPc' = "accept" => Splits(given', conns'[Len(conns)].down, AppPayload)
  <2>1. PICK r \in Responses : Splits(acc, d, Answer(r))
    BY <1>6, Zenon
  <2>2. d = Answer(r)
    BY <1>3, <1>6, <2>1, ConcatEmptySeq, Zenon DEF Splits
  <2>3. clientPc' = "accept" => SubSeq(d, 3, Len(d)) = AppPayload
    BY <1>1, <1>3, <2>2, PrefixDecoded, Zenon
  <2> QED
    BY <1>1, <1>5, <1>6, <2>3, ConcatEmptySeq, Zenon DEF Splits, Sound
<1>8. clientPc' \in {"accept", "closing"}
  BY <1>1, Zenon
<1> QED
  BY <1>1, <1>3, <1>5, <1>6, <1>7, <1>8, ReadContent, Zenon

\* read_response: once the bytes at hand hold a response, what is behind it is the payload's start.
LEMMA ResponseDecoded ==
  ASSUME NEW U, Sound(U), WellFormed, NEW b \in Seq(U), NEW d \in Seq(U), NEW r \in Responses,
         Splits(b, d, Answer(r)), Decode(b) = "ok"
  PROVE  /\ SubSeq(b, 3 + b[2], Len(b)) \in Seq(U)
         /\ Splits(SubSeq(b, 3 + b[2], Len(b)), d, AppPayload)
<1>1. r \in Seq(U) /\ AppPayload \in Seq(U) /\ Len(r) \in Nat /\ Len(r) >= 2 /\ Len(b) \in Nat
  BY LenProperties, Zenon DEF Sound, WellFormed
<1>2. Splits(r, AppPayload, Answer(r))
  BY Zenon DEF Answer, Splits
<1>3. b[1] = 0 /\ Len(b) >= 2 /\ ~(Len(b) < 2 + b[2])
  BY <1>1 DEF Decode
<1>4. b[1] = r[1] /\ b[2] = r[2]
  <2>1. (b \o d)[1] = b[1] /\ (b \o d)[2] = b[2]
    BY <1>1, <1>3
  <2>2. (r \o AppPayload)[1] = r[1] /\ (r \o AppPayload)[2] = r[2]
    BY <1>1
  <2> QED
    BY <1>2, <2>1, <2>2, Zenon DEF Splits
<1>5. r[2] \in Nat /\ Len(r) = 2 + r[2]
  BY <1>3, <1>4, Zenon DEF WellFormed
<1>6. Len(r) <= Len(b) /\ 3 + b[2] = Len(r) + 1
  BY <1>1, <1>3, <1>4, <1>5
<1>7. /\ SubSeq(b, Len(r) + 1, Len(b)) \in Seq(U)
      /\ Splits(SubSeq(b, Len(r) + 1, Len(b)), d, AppPayload)
  <2>1. Len(r) <= Len(b)
    BY <1>6, Zenon
  <2> QED
    BY <1>1, <1>2, <2>1, Behind, Zenon
<1>8. SubSeq(b, 3 + b[2], Len(b)) = SubSeq(b, Len(r) + 1, Len(b))
  BY <1>6, Zenon
<1> QED
  BY <1>7, <1>8, Zenon

\* Reading the response keeps the content.
LEMMA ReadResponseContent ==
  ASSUME NEW U, Sound(U), WellFormed, ClientInv(U), ContentInv(U), ReadResponse
  PROVE  ContentInv(U)'
<1> DEFINE d == conns[Len(conns)].down
<1>1. /\ clientPc = "response" /\ ~transport.exact /\ d # <<>>
      /\ UNCHANGED <<kind, tag, direct, replies, appLeft>>
  BY Zenon DEF ReadResponse, conn, last, rigid
<1>2. PICK n \in 1..Len(d) :
        LET b == acc \o SubSeq(d, 1, n) IN
        /\ conns' = [conns EXCEPT ![Len(conns)].down = SubSeq(d, n + 1, Len(d))]
        /\ \/ Decode(b) = "truncated" /\ acc' = b /\ UNCHANGED <<clientPc, given>>
           \/ Decode(b) = "bad" /\ clientPc' = "closing" /\ UNCHANGED <<acc, given>>
           \/ /\ Decode(b) = "ok" /\ clientPc' = "relay" /\ acc' = <<>>
              /\ given' = SubSeq(b, 3 + b[2], Len(b))
  BY Zenon DEF ReadResponse, conn, last
<1> DEFINE b == acc \o SubSeq(d, 1, n)
           e == SubSeq(d, n + 1, Len(d))
<1>3. conns[Len(conns)].told = 1 /\ d \in Seq(U) /\ direct = "no"
  BY <1>1, Answered, Zenon
<1>4. /\ SubSeq(d, 1, n) \in Seq(U) /\ e \in Seq(U) /\ SubSeq(d, 1, n) \o e = d
  BY <1>3, ReadPart, Zenon
<1>5. /\ given = <<>> /\ acc \in Seq(U) /\ given \in Seq(U) /\ StartOf(given, AppPayload)
      /\ \E r \in Responses : Splits(acc, d, Answer(r))
  BY <1>1, <1>3, Zenon DEF ContentInv, ReadInv
<1>6. PICK r \in Responses : Splits(acc, d, Answer(r))
  BY <1>5, Zenon
<1>7. b \in Seq(U) /\ Splits(b, e, Answer(r))
  <2>1. b \in Seq(U) /\ b \o e = acc \o d
    BY <1>3, <1>5, ReadMore, ZenonT(60)
  <2> QED
    BY <1>6, <2>1, Zenon DEF Splits
<1>8. /\ SentInv' /\ transport' = transport /\ Len(conns') = Len(conns)
      /\ conns'[Len(conns)].told = 1 /\ conns'[Len(conns)].down = e
      /\ conns # <<>> /\ conns' # <<>>
  BY <1>1, <1>2, <1>3, <1>4, ReadSent, Zenon
<1>9. \/ Decode(b) = "truncated" /\ acc' = b /\ UNCHANGED <<clientPc, given>>
      \/ clientPc' = "closing" /\ UNCHANGED <<acc, given>>
      \/ /\ Decode(b) = "ok" /\ clientPc' = "relay" /\ acc' = <<>>
         /\ given' = SubSeq(b, 3 + b[2], Len(b))
  BY <1>2, ZenonT(40)
<1> HIDE DEF b, e
<1>10. CASE Decode(b) = "truncated" /\ acc' = b /\ UNCHANGED <<clientPc, given>>
  <2>1. \E q \in Responses : Splits(acc', conns'[Len(conns)].down, Answer(q))
    BY <1>7, <1>8, <1>10, Zenon
  <2>2. clientPc' = "response" /\ given' = <<>> /\ acc' \in Seq(U) /\ given' \in Seq(U)
        /\ StartOf(given', AppPayload)
    BY <1>1, <1>5, <1>7, <1>10, Zenon
  <2> QED
    BY <1>1, <1>3, <1>8, <2>1, <2>2, ReadContent, Zenon
<1>11. CASE clientPc' = "closing" /\ UNCHANGED <<acc, given>>
  <2>1. acc' \in Seq(U) /\ given' \in Seq(U) /\ StartOf(given', AppPayload)
    BY <1>5, <1>11, Zenon
  <2> QED
    BY <1>1, <1>3, <1>8, <1>11, <2>1, ReadContent, Zenon
<1>12. CASE Decode(b) = "ok" /\ clientPc' = "relay" /\ acc' = <<>> /\ given' = SubSeq(b, 3 + b[2], Len(b))
  <2>1. given' \in Seq(U) /\ Splits(given', e, AppPayload)
    BY <1>4, <1>7, <1>12, ResponseDecoded, Zenon
  <2>2. StartOf(given', AppPayload)
    BY <1>4, <2>1, StartBegins, Zenon DEF e, Splits
  <2>3. Splits(given', conns'[Len(conns)].down, AppPayload)
    BY <1>8, <2>1, Zenon
  <2>4. acc' \in Seq(U) /\ clientPc' = "relay" /\ given' \in Seq(U)
    BY <1>12, <2>1
  <2> QED
    BY <1>1, <1>3, <1>8, <2>2, <2>3, <2>4, ReadContent, Zenon
<1> QED
  BY <1>9, <1>10, <1>11, <1>12, Zenon

\* Relaying down keeps the content.
LEMMA RelayDownContent ==
  ASSUME NEW U, Sound(U), ClientInv(U), ContentInv(U), TunnelDown
  PROVE  ContentInv(U)'
<1> DEFINE d == conns[Len(conns)].down
<1>1. /\ clientPc = "relay" /\ direct = "no" /\ d # <<>> /\ given' = Append(given, Head(d))
      /\ conns' = [conns EXCEPT ![Len(conns)].down = Tail(d)]
      /\ UNCHANGED <<kind, tag, clientPc, direct, replies, acc, appLeft>>
  BY Zenon DEF TunnelDown, conn, last, rigid
<1>2. conns[Len(conns)].told = 1 /\ d \in Seq(U)
  BY <1>1, Answered, Zenon
<1>3. given \in Seq(U) /\ acc \in Seq(U) /\ Splits(given, d, AppPayload)
  BY <1>1, Zenon DEF ContentInv, ReadInv
<1>4. Tail(d) \in Seq(U) /\ given' \in Seq(U) /\ Splits(given', Tail(d), AppPayload)
  BY <1>1, <1>2, <1>3, ReadNext, Zenon
<1>5. StartOf(given', AppPayload)
  BY <1>4, StartBegins, Zenon DEF Splits
<1>6. /\ SentInv' /\ transport' = transport /\ Len(conns') = Len(conns)
      /\ conns'[Len(conns)].told = 1 /\ conns'[Len(conns)].down = Tail(d)
      /\ conns # <<>> /\ conns' # <<>>
  BY <1>1, <1>2, <1>4, ReadSent, Zenon
<1>7. Splits(given', conns'[Len(conns)].down, AppPayload) /\ acc' \in Seq(U) /\ given' \in Seq(U)
  BY <1>1, <1>3, <1>4, <1>6, Zenon
<1> QED
  BY <1>1, <1>2, <1>5, <1>6, <1>7, ReadContent, Zenon

\* Relaying up keeps the content.
LEMMA RelayUpContent ==
  ASSUME NEW U, ClientInv(U), ContentInv(U), TunnelUp
  PROVE  ContentInv(U)'
<1> DEFINE n == Len(conns)
           c == [conns[n] EXCEPT !.up = Append(@, Head(appLeft))]
<1>1. n \in 1..Len(conns) /\ conns[n] \in Conn(U) /\ direct = "no" /\ clientPc = "relay"
  BY LastInUse, Zenon DEF TunnelUp
<1>2. /\ UNCHANGED <<kind, tag, direct, replies, acc, given, clientPc>> /\ transport' = transport
      /\ appLeft # <<>> /\ appLeft' = Tail(appLeft)
  BY Zenon DEF TunnelUp, rigid, transport
<1>3. /\ conns[n].up \in Seq(U) /\ appLeft \in Seq(U) /\ conns[n].up # <<>>
      /\ Sent(conns[n], appLeft) /\ conns[n].told = 1
  BY <1>1, Zenon DEF Conn, ClientInv, TypeOK, PlaceInv, ContentInv, SentInv, ReadInv
<1>4. /\ Append(conns[n].up, Head(appLeft)) \in Seq(U)
      /\ Append(conns[n].up, Head(appLeft)) # <<>>
      /\ Splits(Append(conns[n].up, Head(appLeft)), appLeft', Said)
  <2>1. Splits(conns[n].up, appLeft, Said)
    BY <1>3, Zenon DEF Sent
  <2>2. Head(appLeft) \in U
    BY <1>2, <1>3, HeadTailProperties, Zenon
  <2>3. Append(conns[n].up, Head(appLeft)) # <<>>
    BY <1>3, <2>2, AppendProperties, SMTT(30)
  <2> QED
    BY <1>2, <1>3, <2>1, <2>3, ReadNext, Zenon
<1>5. /\ c \in Conn(U) /\ c.up = Append(conns[n].up, Head(appLeft)) /\ c.st = conns[n].st
      /\ c.told = 1 /\ c.down = conns[n].down
  BY <1>1, <1>3, <1>4, Zenon DEF Conn
<1>6. conns' = [conns EXCEPT ![n] = c]
  BY <1>1, Zenon DEF TunnelUp, last
<1> HIDE DEF c
<1>7. Sent(c, appLeft')
  BY <1>3, <1>4, <1>5, Zenon DEF Sent
<1>8. SentInv' /\ Len(conns') = n /\ conns'[n] = c /\ conns # <<>> /\ conns' # <<>>
  <2>1. conns \in Seq(Conn(U)) /\ ConnInv /\ SentInv /\ kind' = kind
    BY <1>2, Zenon DEF ClientInv, TypeOK, ContentInv
  <2>2. n \in 1..Len(conns) /\ c \in Conn(U)
    BY <1>1, <1>5, Zenon
  <2> QED
    BY <1>6, <1>7, <2>1, <2>2, SentOne, ZenonT(60)
<1>9. conns'[Len(conns')].told = 1 /\ conns'[Len(conns')].down = conns[n].down
  BY <1>5, <1>8, Zenon
<1>10. ReadInv(U)'
  BY <1>1, <1>2, <1>9, Zenon DEF ContentInv, ReadInv, Before, Dialing
<1>11. RouteInv'
  BY <1>1, <1>2, <1>8, <1>9, ZenonT(40) DEF ContentInv, RouteInv, Dialing
<1> QED
  BY <1>8, <1>10, <1>11, Zenon DEF ContentInv

-----------------------------------------------------------------------------
(* The other end *)

\* What a peer may do to a connection.
LEMMA PeerContent ==
  ASSUME NEW U, ClientInv(U), ContentInv(U), NEW i \in 1..Len(conns), NEW c, SentInv',
         Len(conns') = Len(conns), conns'[i] = c, conns # <<>>, conns' # <<>>,
         \A j \in 1..Len(conns) : j # i => conns'[j] = conns[j],
         UNCHANGED <<kind, tag, clientPc, direct, replies, acc, given, appLeft>>,
         conns[i].st # "new" => c.st # "new", conns[i].told = 1 => c.told = 1,
         clientPc = "write" /\ i = Len(conns) => c.down = <<>>,
         clientPc = "response" /\ i = Len(conns) /\ c.told = 1 =>
           \E r \in Responses : Splits(acc, c.down, Answer(r)),
         clientPc \in {"accept", "relay"} /\ i = Len(conns) /\ direct = "no" => c.down = conns[i].down
  PROVE  ContentInv(U)'
<1>2. transport' = transport
  BY ZenonT(40) DEF transport
<1>3. Len(conns) \in 1..Len(conns) /\ conns[Len(conns)] \in Conn(U)
  BY EmptySeq, LenProperties, ElementOfSeq DEF ClientInv, TypeOK
<1> DEFINE k == conns[Len(conns)]
           m == conns'[Len(conns)]
<1>4. /\ k.st # "new" => m.st # "new"
      /\ k.told = 1 => m.told = 1
      /\ m.told = 0 => k.told = 0
      /\ clientPc = "write" => m.down = <<>>
      /\ clientPc = "response" /\ m.told = 1 => \E r \in Responses : Splits(acc, m.down, Answer(r))
      /\ clientPc \in {"accept", "relay"} /\ direct = "no" => m.down = k.down
  <2>1. CASE i = Len(conns)
    <3>1. k.told \in {0, 1} /\ m = c /\ k = conns[i]
      BY <1>3, <2>1, Zenon DEF Conn
    <3> HIDE DEF k, m
    <3> QED
      BY <2>1, <3>1, Zenon
  <2>2. CASE i # Len(conns)
    <3>1. m = k
      BY <1>3, <2>2, Zenon
    <3>2. /\ clientPc = "write" => k.down = <<>>
          /\ clientPc = "response" /\ k.told = 1 => \E r \in Responses : Splits(acc, k.down, Answer(r))
      BY Zenon DEF ContentInv, ReadInv
    <3> HIDE DEF k, m
    <3> QED
      BY <3>1, <3>2, Zenon
  <2> QED
    BY <2>1, <2>2, ZenonT(40)
<1>5. conns'[Len(conns')] = m /\ conns[Len(conns)] = k
  BY ZenonT(40)
<1> HIDE DEF k, m
<1>6. ReadInv(U)'
  BY <1>2, <1>4, <1>5, ZenonT(40) DEF ContentInv, ReadInv
<1>7. RouteInv'
  BY <1>2, <1>4, <1>5, Zenon DEF ContentInv, RouteInv
<1> QED
  BY <1>6, <1>7, ZenonT(40) DEF ContentInv

\* What the peers do keeps the content.
LEMMA PeersContent ==
  ASSUME NEW U, Sound(U), ClientInv(U), ContentInv(U), NEW i \in DOMAIN conns,
         TaskEnds(i) \/ PeerHandshake(i) \/ PeerAnswers(i) \/ PeerHangsUp(i)
  PROVE  ContentInv(U)'
<1>1. conns \in Seq(Conn(U)) /\ ConnInv /\ SentInv
  BY Zenon DEF ClientInv, TypeOK, ContentInv
<1>2. i \in 1..Len(conns) /\ conns[i] \in Conn(U)
  BY <1>1, LenProperties, ElementOfSeq, Zenon
<1>3. UNCHANGED <<kind, tag, clientPc, direct, replies, acc, given, appLeft>>
  BY Zenon DEF TaskEnds, PeerHandshake, PeerAnswers, PeerHangsUp, rigid
<1>4. Sent(conns[i], appLeft)
  BY <1>2, Zenon DEF ContentInv, SentInv
<1>5. ASSUME NEW c \in Conn(U), conns' = [conns EXCEPT ![i] = c], Sent(c, appLeft')
      PROVE  /\ SentInv' /\ Len(conns') = Len(conns) /\ conns'[i] = c /\ conns # <<>>
             /\ conns' # <<>> /\ \A j \in 1..Len(conns) : j # i => conns'[j] = conns[j]
  BY <1>1, <1>2, <1>3, <1>5, SentOne, ZenonT(40)
<1>6. CASE PeerHandshake(i)
  <2> DEFINE d == IF transport.proof # "in-tunnel" THEN <<>>
                  ELSE IF conns[i].peer = "server" THEN <<"proof">> ELSE <<"lie">>
             c == [conns[i] EXCEPT !.st = "up", !.down = d]
  <2>1. d \in Seq(U) /\ conns[i].st = "new" /\ conns[i].up = <<>>
    BY <1>4, <1>6 DEF Sound, PeerHandshake, Sent
  <2>2. c \in Conn(U) /\ c.up = <<>> /\ c.st = "up" /\ c.told = conns[i].told /\ c.down = d
    BY <1>2, <2>1, Zenon DEF Conn
  <2>3. conns' = [conns EXCEPT ![i] = c]
    BY <1>2, <1>6, Zenon DEF PeerHandshake, Conn
  <2>4. Sent(c, appLeft')
    BY <1>4, <2>1, <2>2, Zenon DEF Sent
  <2>5. clientPc \in {"proof", "write", "response"} \/ (clientPc \in {"accept", "relay"} /\ direct = "no") =>
          i # Len(conns)
    BY <2>1, Zenon DEF ClientInv, PlaceInv, ContentInv, ReadInv
  <2> HIDE DEF c, d
  <2>6. c \in Conn(U)
    BY <2>2, Zenon
  <2>7. /\ SentInv' /\ Len(conns') = Len(conns) /\ conns'[i] = c /\ conns # <<>>
        /\ conns' # <<>> /\ \A j \in 1..Len(conns) : j # i => conns'[j] = conns[j]
    BY <1>5, <2>3, <2>4, <2>6, ZenonT(60)
  <2> QED
    BY <1>2, <1>3, <2>2, <2>5, <2>7, PeerContent, Zenon
<1>7. CASE PeerAnswers(i)
  <2>1. PICK r \in Responses : conns' = [conns EXCEPT ![i].down = @ \o r \o AppPayload, ![i].told = 1]
    BY <1>7, ZenonT(40) DEF PeerAnswers
  <2>2. conns[i].up # <<>> /\ conns[i].told = 0 /\ conns[i].down = <<>> /\ conns[i].st = "up"
    BY <1>4, <1>7, ZenonT(40) DEF PeerAnswers, Sent
  <2>3. conns[i].down \o r \o AppPayload = Answer(r) /\ Answer(r) \in Seq(U)
    <3>1. r \in Seq(U) /\ AppPayload \in Seq(U)
      BY Zenon DEF Sound
    <3>2. conns[i].down \o r = r
      BY <2>2, <3>1, ConcatEmptySeq, Zenon
    <3> QED
      BY <3>1, <3>2, ConcatProperties, Zenon DEF Answer
  <2> DEFINE c == [conns[i] EXCEPT !.down = Answer(r), !.told = 1]
  <2>4. conns' = [conns EXCEPT ![i] = c]
    BY <1>2, <2>1, <2>3, Zenon DEF Conn
  <2>5. /\ c \in Conn(U) /\ c.up = conns[i].up /\ c.st = "up" /\ c.told = 1 /\ c.down = Answer(r)
    BY <1>2, <2>2, <2>3, ZenonT(60) DEF Conn
  <2> HIDE DEF c
  <2>6. Sent(c, appLeft')
    <3>1. Splits(conns[i].up, appLeft', Said) /\ conns[i].up # <<>>
      BY <1>3, <1>4, <2>2, Zenon DEF Sent
    <3>2. Splits(c.up, appLeft', Said) /\ c.up # <<>> /\ c.st = "up" /\ c.told = 1
      BY <2>5, <3>1, Zenon
    <3> QED
      BY <3>2 DEF Sent
  <2>7. c \in Conn(U)
    BY <2>5, Zenon
  <2>8. /\ SentInv' /\ Len(conns') = Len(conns) /\ conns'[i] = c /\ conns # <<>>
        /\ conns' # <<>> /\ \A j \in 1..Len(conns) : j # i => conns'[j] = conns[j]
    BY <1>5, <2>4, <2>6, <2>7, ZenonT(40)
  <2>9. i = Len(conns) => /\ clientPc # "write"
                          /\ ~(clientPc \in {"accept", "relay"} /\ direct = "no")
    <3>1. i = Len(conns) /\ clientPc = "write" => conns[i].up = <<>>
      BY Zenon DEF ClientInv, PlaceInv
    <3>2. i = Len(conns) /\ clientPc \in {"accept", "relay"} /\ direct = "no" => conns[i].told = 1
      BY Zenon DEF ContentInv, ReadInv
    <3> QED
      BY <2>2, <3>1, <3>2
  <2>10. i = Len(conns) /\ clientPc = "response" => Splits(acc, c.down, Answer(r))
    <3>1. i = Len(conns) /\ clientPc = "response" => acc = <<>>
      BY <2>2, ZenonT(40) DEF ContentInv, ReadInv
    <3> QED
      BY <2>3, <2>5, <3>1, ConcatEmptySeq, ZenonT(40) DEF Splits
  <2>11. conns[i].st # "new" => c.st # "new"
    BY <2>5, ZenonT(40)
  <2>12. conns[i].told = 1 => c.told = 1
    BY <2>5, ZenonT(40)
  <2> QED
    BY <1>2, <1>3, <2>8, <2>9, <2>10, <2>11, <2>12, PeerContent
<1>8. CASE PeerHangsUp(i)
  <2> DEFINE c == [conns[i] EXCEPT !.st = "closed"]
  <2>1. /\ c \in Conn(U) /\ c.up = conns[i].up /\ c.st = "closed" /\ c.told = conns[i].told
        /\ c.down = conns[i].down
    BY <1>2, Zenon DEF Conn
  <2>2. conns' = [conns EXCEPT ![i] = c]
    BY <1>2, <1>8, Zenon DEF PeerHangsUp
  <2> HIDE DEF c
  <2>3. Sent(c, appLeft')
    BY <1>3, <1>4, <2>1, ZenonT(40) DEF Sent
  <2>4. c \in Conn(U)
    BY <2>1, ZenonT(40)
  <2>5. /\ SentInv' /\ Len(conns') = Len(conns) /\ conns'[i] = c /\ conns # <<>>
        /\ conns' # <<>> /\ \A j \in 1..Len(conns) : j # i => conns'[j] = conns[j]
    BY <1>5, <2>2, <2>3, <2>4, ZenonT(40)
  <2>6. /\ clientPc = "write" /\ i = Len(conns) => c.down = <<>>
        /\ clientPc = "response" /\ i = Len(conns) /\ c.told = 1 =>
             \E r \in Responses : Splits(acc, c.down, Answer(r))
    BY <2>1, Zenon DEF ContentInv, ReadInv
  <2> QED
    BY <1>2, <1>3, <2>1, <2>5, <2>6, PeerContent, ZenonT(60)
<1>9. CASE TaskEnds(i)
  <2> DEFINE c == [conns[i] EXCEPT !.open = FALSE]
  <2>1. /\ c \in Conn(U) /\ c.up = conns[i].up /\ c.st = conns[i].st /\ c.told = conns[i].told
        /\ c.down = conns[i].down
    BY <1>2, Zenon DEF Conn
  <2>2. conns' = [conns EXCEPT ![i] = c]
    BY <1>2, <1>9, Zenon DEF TaskEnds
  <2> HIDE DEF c
  <2>3. Sent(c, appLeft')
    BY <1>3, <1>4, <2>1, ZenonT(40) DEF Sent
  <2>4. c \in Conn(U)
    BY <2>1, ZenonT(40)
  <2>5. /\ SentInv' /\ Len(conns') = Len(conns) /\ conns'[i] = c /\ conns # <<>>
        /\ conns' # <<>> /\ \A j \in 1..Len(conns) : j # i => conns'[j] = conns[j]
    BY <1>5, <2>2, <2>3, <2>4, ZenonT(40)
  <2>6. /\ clientPc = "write" /\ i = Len(conns) => c.down = <<>>
        /\ clientPc = "response" /\ i = Len(conns) /\ c.told = 1 =>
             \E r \in Responses : Splits(acc, c.down, Answer(r))
    BY <2>1, Zenon DEF ContentInv, ReadInv
  <2> QED
    BY <1>2, <1>3, <2>1, <2>5, <2>6, PeerContent, ZenonT(60)
<1> QED
  BY <1>6, <1>7, <1>8, <1>9, Zenon

\* Every step keeps the content.
LEMMA ContentStep ==
  ASSUME NEW U, Sound(U), WellFormed, ClientInv(U), ContentInv(U), [ClientNext]_clientVars
  PROVE  ContentInv(U)'
<1>1. CASE UNCHANGED clientVars
  BY <1>1, ZenonT(60) DEF clientVars, ContentInv, SentInv, Sent, ReadInv, RouteInv, transport
<1>2. CASE Client
  BY <1>2, NoConnectionContent, AttemptsContent, ConnectContent, ReadProofContent,
     WriteRequestContent, ReadPrefixContent, ReadResponseContent, RelayDownContent,
     RelayUpContent, Zenon DEF Client
<1>3. CASE AppGone \/ TunnelEnds
  BY <1>3, NoConnectionContent, AttemptsContent, Zenon
<1>4. CASE \E i \in DOMAIN conns : TaskEnds(i) \/ PeerHandshake(i) \/ PeerAnswers(i) \/ PeerHangsUp(i)
  BY <1>4, PeersContent, Zenon
<1> QED
  BY <1>1, <1>2, <1>3, <1>4, Zenon DEF ClientNext

\* The invariant gives the exact content.
LEMMA ContentIsExact ==
  ASSUME NEW U, Sound(U), ClientInv(U), ContentInv(U)
  PROVE  PayloadExact
<1>1. conns \in Seq(Conn(U)) /\ appLeft \in Seq(U) /\ DOMAIN conns = 1..Len(conns)
  BY LenProperties, Zenon DEF ClientInv, TypeOK
<1>2. StartOf(given, AppPayload)
  BY Zenon DEF ContentInv, ReadInv
<1>3. clientPc = "relay" /\ direct = "no" /\ conn.st = "closed" /\ conn.down = <<>> => given = AppPayload
  <2>1. clientPc = "relay" /\ direct = "no" => Splits(given, conn.down, AppPayload)
    BY Zenon DEF ContentInv, ReadInv, conn, last
  <2>2. given \in Seq(U)
    BY Zenon DEF ContentInv, ReadInv
  <2> QED
    <3>1. ASSUME Splits(given, <<>>, AppPayload) PROVE given = AppPayload
      BY <2>2, <3>1, ConcatEmptySeq, Zenon DEF Splits
    <3> QED
      BY <2>1, <3>1, Zenon
<1>4. ASSUME NEW i \in DOMAIN conns PROVE StartOf(conns[i].up, <<Request>> \o AppData)
  <2>1. conns[i] \in Conn(U) /\ Sent(conns[i], appLeft)
    BY <1>1, ElementOfSeq, Zenon DEF ContentInv, SentInv
  <2>2. conns[i].up \in Seq(U)
    BY <2>1, Zenon DEF Conn
  <2>3. CASE conns[i].up # <<>>
    <3>1. Splits(conns[i].up, appLeft, Said)
      BY <2>1, <2>3, Zenon DEF Sent
    <3> QED
      BY <1>1, <2>2, <3>1, StartBegins, Zenon DEF Splits, Said
  <2>4. CASE conns[i].up = <<>>
    <3>1. <<Request>> \o AppData \in Seq(U)
      BY ConcatProperties DEF Sound
    <3>2. StartOf(<<>>, <<Request>> \o AppData)
      BY <3>1, EmptyBegins, Zenon
    <3> QED
      BY <2>4, <3>2, Zenon
  <2> QED
    BY <2>3, <2>4, Zenon
<1>5. /\ (\E i \in DOMAIN replies : replies[i] = "ok") =>
           direct # "no" \/ (conns # <<>> /\ conn.told = 1)
      /\ transport.routed =>
           /\ tag \in {"direct", "freedom", "block", "blackhole"} => conns = <<>>
           /\ tag \notin {"direct", "freedom"} => direct = "no"
  BY Zenon DEF ContentInv, RouteInv, Local, conn, last
<1> QED
  BY <1>2, <1>3, <1>4, <1>5, Zenon DEF PayloadExact

\* What is relayed is what the other side sent: down, the payload behind the response, whole once
\* the tunnel is closed and read to its end; up, the request and then what the application sent.
\* Success is told only when there is something to relay to, and a target goes where the router
\* wants it.  For every content, every response a server can write, however it is cut into reads,
\* and every number of attempts (handle_socks_conn, read_response and the relays).
THEOREM ContentKept ==
  ASSUME NEW U, Sound(U), WellFormed
  PROVE  ClientSpec => []PayloadExact
<1>1. ClientInit => ClientInv(U) /\ ContentInv(U)
  BY ClientStart, ContentInit, Zenon
<1>2. ClientInv(U) /\ ContentInv(U) /\ [ClientNext]_clientVars => (ClientInv(U) /\ ContentInv(U))'
  BY ClientStep, ContentStep, Zenon
<1>3. ClientInv(U) /\ ContentInv(U) => PayloadExact
  BY ContentIsExact, Zenon
<1> QED
  BY <1>1, <1>2, <1>3, PTL DEF ClientSpec
=============================================================================
