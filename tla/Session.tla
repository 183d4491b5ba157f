------------------------------- MODULE Session -------------------------------
(***************************************************************************)
(* One connection of the server, from accept to its end: the front doors   *)
(* of proxy.rs (raw TLS in both Vision dialects, REALITY, veil, and the    *)
(* carriers behind TLS or QUIC), the triage of selfsteal.rs, the two       *)
(* session handlers, and the counters of metrics.rs they keep.  The bytes  *)
(* of the peer are units: "v" and "h" are the two pieces of a VLESS        *)
(* request, "p1" and "p2" its payload, "f1" and "f2" anything else.        *)
(*                                                                         *)
(* Behind the carrier and veil doors the connection has a task of its own  *)
(* and spawns one for its session: this is the session's, and Carrier is   *)
(* the connection's.  A relay moves units in order; how it moves them is   *)
(* MuxRelay, VisionSplice and PlainRelay.  What the server writes to a     *)
(* peer that is connected is taken: a peer that does not read is the       *)
(* subject of those modules.                                               *)
(***************************************************************************)
EXTENDS Integers, Sequences

CONSTANT Scripts  \* what the peer is and does, and how the server is configured

\* a command that is none of these does not decode
ASSUME ScriptsAssumption == \A x \in Scripts : x.cmd \in {"Tcp", "Udp", "Mux"}

VARIABLES
  script,   \* the chosen script
  pc,       \* where the connection's task is
  sent,     \* how many units of its stream the peer has sent
  taken,    \* and how many of them the server has read
  closed,   \* "no", or how the peer ended its side: "fin" or "rst"
  users,    \* the authorised users (AuthHandle's snapshot)
  revoked,  \* the user was removed before the request was read
  gone,     \* the far side of the relay has closed its connection
  buf,      \* bytes read and not yet passed on
  to,       \* where the relay leads: "none", "target" or "decoy"
  up, down, \* what the far side and the peer received
  guards,   \* how many ActiveGuards of each kind are held
  count     \* Metrics

serverVars == <<script, pc, sent, taken, closed, users, revoked, gone, buf, to, up, down, guards,
                count>>

door == script.door
Payload == <<"p1", "p2">>
Stream == IF script.hello \notin {"peer", "stranger"} THEN <<>>
          ELSE IF script.vless THEN <<"v", "h">> \o Payload ELSE <<"f1", "f2">>

\* the handler: handle_xray_vision_session behind these doors, handle_session behind the others
Xray == door \in {"xray", "reality"}
Triaged == door \in {"reality", "veil"}

\* the outbounds: built from the configuration for the triaged doors, empty for the others
IsChain == Triaged /\ script.chains /\ script.tag = "chain"
Frag == Triaged /\ script.frag
HasDecoy == door = "reality" \/ script.decoy

Outcomes == {"ok", "error", "rejected", "blackholed", "forwarded", "probe"}
Kinds == {"Tcp", "Udp", "Mux"}
NoGuards == [k \in Kinds |-> 0]

Accepted ==
  /\ pc = IF Triaged THEN "triage" ELSE "tls"
  /\ sent = 0 /\ taken = 0 /\ closed = "no" /\ users = {"u"} /\ revoked = FALSE /\ gone = FALSE
  /\ buf = <<>> /\ to = "none" /\ up = <<>> /\ down = <<>> /\ guards = NoGuards
  /\ count = [k \in Outcomes \union Kinds |-> 0]  \* outcomes, and the active gauge per kind

ServerInit == script \in Scripts /\ Accepted

-----------------------------------------------------------------------------
(* The world: the peer, the far side and the operator. *)

Tasks == UNCHANGED <<script, pc, taken, buf, to, up, down, guards, count>>

\* a peer whose protocol lets the server speak first, or that waits for an answer, sends on
\* only when it has one
Told(unit) == \E i \in DOMAIN down : down[i] = unit
MaySend(unit) ==
  /\ unit = "p1" /\ script.first = "server" => Told("r")
  /\ unit = "p2" /\ script.first # "hello" => Told("r")

PeerSends ==
  /\ closed = "no" /\ sent < Len(Stream) /\ MaySend(Stream[sent + 1])
  /\ sent' = sent + 1 /\ Tasks /\ UNCHANGED <<closed, users, revoked, gone>>
PeerCloses ==
  /\ closed = "no" /\ closed' \in {"fin", "rst"}
  /\ Tasks /\ UNCHANGED <<sent, users, revoked, gone>>
FarCloses == pc = "relay" /\ ~gone /\ gone' = TRUE /\ Tasks /\ UNCHANGED <<sent, closed, users, revoked>>
UserRemoved ==
  /\ users # {} /\ users' = {}
  /\ revoked' = (pc \in {"triage", "tls", "first", "carried", "request"})
  /\ Tasks /\ UNCHANGED <<sent, closed, gone>>

World == PeerSends \/ PeerCloses \/ FarCloses \/ UserRemoved

-----------------------------------------------------------------------------
(* The task.  A step of it leaves the world alone; Ends is the task's      *)
(* return, which drops the guards it holds.                                *)

Steps == UNCHANGED <<script, sent, closed, users, revoked, gone>>
Avail == sent - taken
Eof == Avail = 0 /\ closed = "fin"
Broken == closed = "rst"

\* ActiveGuard: tunnel_started_kind and drop
Bump(c, k) == [c EXCEPT ![k] = @ + 1]
Guarded(c, k) == count' = Bump(c, k) /\ guards' = Bump(guards, k)

\* Faulty variant: of two guards only one is dropped
ReturnsOneGuard(c) ==
  /\ pc' = "over" /\ guards' = NoGuards
  /\ count' = [k \in DOMAIN c |-> IF k = "Tcp" /\ guards[k] > 0 THEN c[k] - 1 ELSE c[k]]
  /\ Steps

Returns(c) ==
  /\ pc' = "over" /\ guards' = NoGuards
  /\ count' = [k \in DOMAIN c |-> IF k \in Kinds THEN c[k] - guards[k] ELSE c[k]]
  /\ Steps
Ends(c) == Returns(c) /\ UNCHANGED <<taken, buf, to, up, down>>

\* Prefixed and the read loops: what was read is read
Take(k) == taken' = taken + k
Units(k) == SubSeq(Stream, taken + 1, taken + k)

-----------------------------------------------------------------------------
(* selfsteal::triage: the ClientHello is read to its end, without a        *)
(* deadline, and anyone but an authenticated peer is led to the decoy.     *)

Triage ==
  /\ pc = "triage"
  /\ \/ Broken /\ Ends(count)
     \/ /\ ~Broken /\ script.hello \in {"peer", "stall"}
        /\ pc' = "tls" /\ Steps /\ UNCHANGED <<taken, buf, to, up, down, guards, count>>
     \/ /\ ~Broken /\ script.hello \notin {"peer", "stall"} /\ (Avail > 0 \/ Eof)
        /\ buf' = Units(Avail) /\ Take(Avail) /\ to' = "decoy" /\ pc' = "decoy"
        /\ Steps /\ UNCHANGED <<up, down, guards, count>>

\* relay_to_dest, relay_to_decoy, and the decoy branch of the Vision handler: what was read is
\* replayed first
ToDecoy ==
  /\ pc = "decoy"
  /\ \/ Ends(count)  \* the decoy does not answer
     \/ /\ pc' = "relay" /\ up' = buf /\ buf' = <<>>
        /\ Steps /\ UNCHANGED <<taken, to, down, guards, count>>

\* what the server says first
Greeting == IF door = "veil" THEN <<"proof">> ELSE <<>>

\* the outer TLS handshake is done; where the door starts the tunnel it takes a guard
Handshaken(next, guarded, says) ==
  /\ script.hello \in {"peer", "stranger"} /\ closed = "no"
  /\ pc' = next /\ down' = says
  /\ IF guarded THEN Guarded(count, "Tcp") ELSE UNCHANGED <<guards, count>>
  /\ Steps /\ UNCHANGED <<taken, buf, to, up>>

\* run_raw_proxy with the donut dialect: no deadline
RawTls == /\ door = "raw" /\ pc = "tls"
          /\ Handshaken("first", FALSE, <<>>) \/ (closed # "no" /\ Ends(count))


\* and with the xray dialect: it fails, or the deadline passes; a peer that never sent a byte
\* is a probe
XrayTls ==
  /\ door = "xray" /\ pc = "tls"
  /\ \/ Handshaken("request", FALSE, <<>>)
     \/ Ends(Bump(count, IF script.hello = "silence" THEN "probe" ELSE "error"))

\* run_reality_proxy after the triage
RealityTls == /\ door = "reality" /\ pc = "tls"
              /\ Handshaken("request", TRUE, <<>>) \/ Ends(Bump(count, "error"))

\* VeilServer::handle: no deadline, and then the server proves itself
VeilTls == /\ door = "veil" /\ pc = "tls"
           /\ Handshaken("request", TRUE, Greeting) \/ (closed # "no" /\ Ends(count))

\* run_tls_carrier_proxy: no deadline
CarrierTls == /\ door = "carrier" /\ pc = "tls"
              /\ Handshaken("carried", FALSE, <<>>) \/ (closed # "no" /\ Ends(count))

TlsHandshake == RawTls \/ XrayTls \/ RealityTls \/ VeilTls \/ CarrierTls

\* run_carrier_proxy and its likes: the session the carrier's acceptor makes of a request comes
\* out of rx.recv, and its task starts guarded
CarrierSession ==
  /\ pc = "carried"
  /\ \/ (Broken \/ Eof) /\ Ends(count)
     \/ /\ Avail > 0 /\ ~Broken
        /\ pc' = "request" /\ Guarded(count, "Tcp")
        /\ Steps /\ UNCHANGED <<taken, buf, to, up, down>>

\* the first byte behind the raw door decides between tunnel and decoy
FirstByte ==
  /\ pc = "first"
  /\ \/ (Broken \/ Eof) /\ Ends(count)
     \/ /\ Avail > 0 /\ ~Broken
        /\ IF script.vless
           THEN /\ pc' = "request" /\ buf' = Units(1) /\ Take(1)
                /\ Guarded(count, "Tcp")
                /\ Steps /\ UNCHANGED <<to, up, down>>
           ELSE IF HasDecoy
           THEN /\ pc' = "decoy" /\ to' = "decoy" /\ buf' = Units(1) /\ Take(1)
                /\ count' = Bump(count, "forwarded") /\ Steps /\ UNCHANGED <<up, down, guards>>
           ELSE Ends(count)

-----------------------------------------------------------------------------
(* The request: read until it decodes.  The handlers differ in what they   *)
(* count, in when they take a guard, and in the decoy behind the tunnel.   *)

Response == <<"resp">>

Reject == Returns(Bump(count, "rejected")) /\ UNCHANGED <<buf, to, up, down>>
Blackhole == Returns(Bump(count, "blackholed")) /\ UNCHANGED <<buf, to, up, down>>
StartMux(rest) == pc' = "respond" /\ buf' = rest /\ Steps /\ UNCHANGED <<to, up, down, count, guards>>
StartDial(rest) == pc' = "dial" /\ buf' = rest /\ Steps /\ UNCHANGED <<to, up, down>>

\* Faulty variant: the user is looked up among those who were authorised at the accept
DispatchStale(rest) ==
  \/ script.user # "u" /\ Reject
  \/ script.user = "u" /\ script.cmd = "Mux" /\ StartMux(rest)
  \/ script.user = "u" /\ script.cmd # "Mux" /\ script.tag = "block" /\ Blackhole
  \/ /\ script.user = "u" /\ script.cmd # "Mux" /\ script.tag # "block" /\ StartDial(rest)
     /\ IF script.cmd = "Udp" THEN Guarded(count, "Udp") ELSE UNCHANGED <<count, guards>>

\* handle_session once the request is decoded; rest is the payload read with it.  A UDP
\* session is guarded before it is dialled
Dispatch(rest) ==
  \/ script.user \notin users /\ Reject
  \/ script.user \in users /\ script.cmd = "Mux" /\ StartMux(rest)
  \/ script.user \in users /\ script.cmd # "Mux" /\ script.tag = "block" /\ Blackhole
  \/ /\ script.user \in users /\ script.cmd # "Mux" /\ script.tag # "block" /\ StartDial(rest)
     /\ IF script.cmd = "Udp" THEN Guarded(count, "Udp") ELSE UNCHANGED <<count, guards>>

\* handle_xray_vision_session likewise, with the guard taken after the dial.  Its branch for a
\* request without a target is never taken: only a Mux request decodes without one
DispatchVision(rest) ==
  \/ script.user \notin users /\ Reject
  \/ script.user \in users /\ script.cmd = "Mux" /\ StartMux(rest)
  \/ script.user \in users /\ script.cmd # "Mux" /\ script.tag = "block" /\ Blackhole
  \/ /\ script.user \in users /\ script.cmd # "Mux" /\ script.tag # "block" /\ StartDial(rest)
     /\ UNCHANGED <<count, guards>>

KeepReading(all) == buf' = all /\ Steps /\ UNCHANGED <<pc, to, up, down, guards, count>>
Rest(all) == SubSeq(all, 3, Len(all))

\* one turn of the read loop of handle_session; any number of units may have arrived
ReadRequest ==
  /\ pc = "request" /\ ~Xray
  /\ \/ (Broken \/ Eof) /\ Ends(count)
     \/ /\ ~Broken
        /\ \E k \in 1..Avail :
             LET all == buf \o Units(k) IN
             /\ Take(k)
             /\ \/ script.vless /\ Len(all) >= 2 /\ Dispatch(Rest(all))
                \/ script.vless /\ Len(all) < 2 /\ KeepReading(all)
                \/ ~script.vless /\ Returns(count) /\ UNCHANGED <<buf, to, up, down>>

\* of handle_xray_vision_session: what is no VLESS request goes to the decoy, if there is one
ReadRecords ==
  /\ pc = "request" /\ Xray
  /\ \/ (Broken \/ Eof) /\ Ends(count)
     \/ /\ ~Broken
        /\ \E k \in 1..Avail :
             LET all == buf \o Units(k) IN
             /\ Take(k)
             /\ \/ script.vless /\ Len(all) >= 2 /\ DispatchVision(Rest(all))
                \/ script.vless /\ Len(all) < 2 /\ KeepReading(all)
                \/ ~script.vless /\ ~HasDecoy /\ Returns(count) /\ UNCHANGED <<buf, to, up, down>>
                \/ /\ ~script.vless /\ HasDecoy
                   /\ pc' = "decoy" /\ to' = "decoy" /\ buf' = all
                   /\ count' = Bump(count, "forwarded") /\ Steps /\ UNCHANGED <<up, down, guards>>

-----------------------------------------------------------------------------
(* The dial: resolve and connect, which end by themselves, or              *)
(* ChainOutbound::dial and dial_udp, which wait for the exit without a     *)
(* deadline; the peer is not read meanwhile.  The response is written only *)
(* once the far side is there.                                             *)

Connected == pc' = "respond" /\ Steps /\ UNCHANGED <<taken, buf, to, up, down, guards, count>>

\* a name that does not resolve is an error nobody counts; the Vision handler counts a target that
\* does not answer
DialedDirect ==
  /\ pc = "dial" /\ ~IsChain
  /\ Connected \/ Ends(count) \/ (Xray /\ script.cmd = "Tcp" /\ Ends(Bump(count, "error")))

\* and any failure of a chain
DialedChain ==
  /\ pc = "dial" /\ IsChain
  /\ Connected \/ Ends(IF Xray THEN Bump(count, "error") ELSE count)

\* handle_session reads the first record itself before it fragments it
Fragments == ~Xray /\ Frag /\ ~IsChain /\ script.cmd = "Tcp" /\ script.flow = "None"

Relaying == pc' = "relay" /\ up' = buf /\ buf' = <<>>
Answered == down' = down \o Response /\ to' = "target" /\ Steps /\ UNCHANGED taken

\* the response cannot be written: nobody counts that
Unanswered == closed # "no" /\ Ends(count)

\* handle_session: only a mux is guarded now
Respond ==
  /\ pc = "respond" /\ ~Xray
  /\ \/ Unanswered
     \/ /\ Answered
        /\ IF script.cmd = "Mux" THEN Guarded(count, "Mux") ELSE UNCHANGED <<count, guards>>
        /\ IF Fragments THEN pc' = "record" /\ UNCHANGED <<up, buf>> ELSE Relaying

\* handle_xray_vision_session: everything is; FragmentWriter does the fragmenting here
RespondVision ==
  /\ pc = "respond" /\ Xray
  /\ Unanswered \/ (Answered /\ Relaying /\ Guarded(count, script.cmd))

\* read_first_record: until the length in the first five bytes is reached, whatever they are.
\* The payload's first unit is a whole record if it is a ClientHello; other protocols have
\* something else there, and only the end of the stream ends the wait.
FirstRecord ==
  /\ pc = "record"
  /\ \/ Broken /\ Ends(count)
     \/ /\ ~Broken /\ (Eof \/ (buf # <<>> /\ script.first = "hello"))
        /\ pc' = "relay" /\ up' = buf /\ buf' = <<>>
        /\ Steps /\ UNCHANGED <<taken, to, down, guards, count>>
     \/ /\ ~Broken /\ Avail > 0 /\ ~(buf # <<>> /\ script.first = "hello")
        /\ buf' = buf \o Units(Avail) /\ Take(Avail)
        /\ Steps /\ UNCHANGED <<pc, to, up, down, guards, count>>

-----------------------------------------------------------------------------
(* The relay, behind whichever handler. *)

\* the relays that end with the peer: run_mux_relay and vision_udp_relay have no connection to
\* wait for
Datagrams == to = "target" /\ (script.cmd = "Mux" \/ (script.cmd = "Udp" /\ ~IsChain))

\* the relays with an idle deadline: all but relay_to_dest, the decoy branch of the Vision
\* handler and its relay for flow = none
Bounded ==
  IF to = "decoy" THEN door = "raw"
  ELSE ~(Xray /\ script.cmd = "Tcp" /\ script.flow = "None")

\* how a relay that was idle too long returns; of the splice either half may be the one that was
IdleResults == IF Datagrams THEN {"ok"}
               ELSE IF Xray /\ script.cmd = "Tcp" THEN {"ok", "error"} ELSE {"error"}

RelayUp ==
  /\ pc = "relay" /\ Avail > 0 /\ ~Broken /\ ~gone
  /\ up' = Append(up, Stream[taken + 1]) /\ Take(1)
  /\ Steps /\ UNCHANGED <<pc, buf, to, down, guards, count>>

\* the far side answers what it got, or speaks first
RelayDown ==
  LET r == IF to = "decoy" THEN "d" ELSE "r" IN
  /\ pc = "relay" /\ ~Told(r) /\ ~Broken /\ ~gone
  /\ up # <<>> \/ (to = "target" /\ script.first = "server")
  /\ down' = Append(down, r)
  /\ Steps /\ UNCHANGED <<pc, taken, buf, to, up, guards, count>>

\* what the handler counts at the end: a forwarded stranger only once its relay is over, a
\* session of the Vision handler and every mux by its result
RelayCounts(result) ==
  IF to = "decoy" THEN IF Triaged /\ guards = NoGuards THEN Bump(count, "forwarded") ELSE count
  ELSE IF Xray \/ script.cmd = "Mux" THEN Bump(count, result) ELSE count

\* both ends have closed; nobody is left to write to; or the relay was idle too long
RelayEnds ==
  /\ pc = "relay"
  /\ \/ Eof /\ (gone \/ Datagrams) /\ Ends(RelayCounts("ok"))
     \/ gone /\ (Avail > 0 \/ Broken) /\ Ends(RelayCounts("error"))
     \/ Bounded /\ \E result \in IdleResults : Ends(RelayCounts(result))

\* either side resets, and the relay is not held up in a write to the other
RelayFails == pc = "relay" /\ Ends(RelayCounts("error"))

\* what the task does by itself, and what waits for a far side that may never answer
Task == \/ Triage \/ ToDecoy \/ TlsHandshake \/ CarrierSession \/ FirstByte
        \/ ReadRequest \/ ReadRecords \/ DialedDirect \/ Respond \/ RespondVision
        \/ FirstRecord \/ RelayUp \/ RelayDown \/ RelayEnds

ServerNext == World \/ Task \/ DialedChain \/ RelayFails

\* the task is scheduled; the peer and the far side owe nobody anything
ServerSpec == ServerInit /\ [][ServerNext]_serverVars /\ WF_serverVars(Task)

-----------------------------------------------------------------------------
(* Properties *)

Begins(s, t) == Len(s) <= Len(t) /\ s = SubSeq(t, 1, Len(s))

\* Whatever way the peer's bytes were cut and whoever held them on the way (the triage's
\* prefix, the first byte, the leftover of the request, the first record), the far side gets
\* them once and in order: the decoy from the very first byte, the target the payload alone, and
\* only of a user who is known and had not been removed by the time the request was read.
UpExact ==
  /\ Begins(up, IF to = "decoy" THEN Stream ELSE Payload)
  /\ to = "target" => script.user = "u" /\ ~revoked

\* A stranger at a triaged door gets nothing but the decoy's bytes, an unknown user nothing, and a
\* tunnel is answered in the order proof, response, payload: the response once, only for a VLESS
\* request, and only after the far side was reached.
AnswersInOrder ==
  /\ Triaged /\ script.hello \notin {"peer", "stall"} => \A i \in DOMAIN down : down[i] = "d"
  /\ to # "decoy" => Begins(down, Greeting \o <<"resp", "r">>)
  /\ Told("resp") => script.vless /\ script.user = "u" /\ to = "target"

\* Both directions of a connection, from the first byte on (handle_session, handle_vision_tls,
\* handle_selfsteal and what they call).
BothSidesExact == UpExact /\ AnswersInOrder

\* The metrics of a connection come out even, however many guards its task and its handler held
\* and wherever they returned: the active gauges of one that is over are back where they were, it
\* is counted at most once among ok, error, rejected, blackholed, forwarded and probe, and behind
\* the Vision handler's doors a session that was answered is counted exactly once by its end.
GaugesReturn ==
  /\ \A k \in Kinds : count[k] = guards[k]
  /\ pc = "over" => guards = NoGuards
  /\ \A k, l \in Outcomes : count[k] > 0 /\ count[l] > 0 => k = l /\ count[k] = 1
  /\ pc = "over" /\ Xray /\ Told("resp") => \E k \in Outcomes : count[k] = 1

\* the places where a task waits for its peer without a deadline, and those where it waits for
\* the far side
AwaitsPeer ==
  pc \in {"triage", "first", "carried", "request", "record"} \/ (pc = "tls" /\ door \notin {"xray", "reality"})
AwaitsFar == (pc = "dial" /\ IsChain) \/ (pc = "relay" /\ ~Bounded)

=============================================================================
