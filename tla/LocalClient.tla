----------------------------- MODULE LocalClient -----------------------------
(***************************************************************************)
(* One session of the local client, from the SOCKS greeting of an          *)
(* application to the relay, and the same dial made by a chained outbound  *)
(* of the server: local_proxy.rs, the dialers, donut-socks and             *)
(* outbound.rs.  What is at the other end of a connection is the           *)
(* environment: the server, somebody else, or nobody who answers.  A       *)
(* connection is what one attempt makes: for stream-up and packet-up it    *)
(* stands for all connections of one session id, which CarrierClient tells *)
(* apart.                                                                  *)
(***************************************************************************)
EXTENDS Integers, Sequences

CONSTANTS
  ClientKinds, \* the transports to run
  Tags,        \* the tags the router may answer
  Hellos,      \* what an application says in its SOCKS handshake
  Responses,   \* response prefixes a server may send
  AppPayload,  \* what the target sends
  Request,     \* the request header, with the user's id
  AppData,     \* what the application sends
  ATTEMPTS     \* 12 in the dialers

VARIABLES
  kind, tag, hello,  \* the transport, the router's verdict and the application's handshake
  clientPc,  \* where the session is
  attempt,   \* of connect
  conns,     \* the connections made to the server's address
  direct,    \* the connection to the target made from here: "no", "open" or "closed"
  replies,   \* what was written to the application during the handshake
  acc,       \* bytes read_response has read
  given,     \* payload handed to the application
  appLeft    \* what the application has not sent yet

clientVars == <<kind, tag, hello, clientPc, attempt, conns, direct, replies, acc, given, appLeft>>

-----------------------------------------------------------------------------
(* The transports: whether the dial is tried again, whether the server     *)
(* proves itself inside the tunnel or by its certificate, whether the      *)
(* router is asked, whether the response is read as it comes or as two     *)
(* bytes, and from when on spawned tasks own the connection: once it is    *)
(* dialled (the carrier's), during the dial already (of its first request, *)
(* or QUIC's driver), or never.                                            *)

Dialer(retry, proof, routed, exact, tasks) ==
  [retry |-> retry, proof |-> proof, routed |-> routed, exact |-> exact, tasks |-> tasks]

Plain == Dialer(FALSE, "none", FALSE, TRUE, "dialled")
Veil  == Dialer(FALSE, "in-tunnel", TRUE, TRUE, "dialled")
Xhttp == Dialer(TRUE, "certificate", TRUE, TRUE, "dialling")
H3    == Dialer(TRUE, "certificate", TRUE, TRUE, "dialling")
Raw   == Dialer(TRUE, "certificate", TRUE, TRUE, "never")
Chain == Dialer(FALSE, "in-tunnel", FALSE, FALSE, "dialled")

transport == [plain |-> Plain, veil |-> Veil, xhttp |-> Xhttp, h3 |-> H3, raw |-> Raw,
              chain |-> Chain][kind]

\* classify_route: a tag it does not know means the tunnel
ClassifyRoute(t) ==
  IF t \in {"block", "blackhole"} THEN "closing"
  ELSE IF t \in {"direct", "freedom"} THEN "resolve" ELSE "dial"

rigid == <<kind, tag, hello>>
last == Len(conns)
conn == conns[last]

-----------------------------------------------------------------------------
(* handshake_connect *)

ReadGreeting ==
  /\ clientPc = "greeting"
  /\ \/ hello.ver # 5 /\ clientPc' = "closing" /\ UNCHANGED replies
     \/ hello.ver = 5 /\ ~hello.noAuth /\ clientPc' = "closing" /\ replies' = Append(replies, "none")
     \/ hello.ver = 5 /\ hello.noAuth /\ clientPc' = "request" /\ replies' = Append(replies, "method")
  /\ UNCHANGED <<rigid, attempt, conns, direct, acc, given, appLeft>>

\* the address follows the head of the request, and a name must be one
TargetRead(h) == h.atyp \in {"v4", "v6"} \/ (h.atyp = "name" /\ h.utf8)

ReadConnect ==
  /\ clientPc = "request"
  /\ LET sound == hello.ver2 = 5 /\ hello.cmd = "connect" /\ TargetRead(hello) IN
     /\ clientPc' = IF ~sound THEN "closing"
              ELSE IF transport.routed THEN ClassifyRoute(tag) ELSE "dial"
     /\ replies' = IF hello.ver2 = 5 /\ hello.cmd # "connect" THEN Append(replies, "unsupported")
                   ELSE replies
  /\ UNCHANGED <<rigid, attempt, conns, direct, acc, given, appLeft>>

\* the application goes away during its handshake: read_exact fails
AppGone ==
  /\ clientPc \in {"greeting", "request"} /\ clientPc' = "closing"
  /\ UNCHANGED <<rigid, attempt, conns, direct, replies, acc, given, appLeft>>

-----------------------------------------------------------------------------
(* handle_direct_dial *)

Resolve ==
  /\ clientPc = "resolve"
  /\ clientPc' \in IF hello.atyp = "name" THEN {"connect", "closing"} ELSE {"connect"}
  /\ UNCHANGED <<rigid, attempt, conns, direct, replies, acc, given, appLeft>>

ConnectDirect ==
  /\ clientPc = "connect"
  /\ \/ clientPc' = "accept" /\ direct' = "open"
     \/ clientPc' = "closing" /\ UNCHANGED direct
  /\ UNCHANGED <<rigid, attempt, conns, replies, acc, given, appLeft>>

-----------------------------------------------------------------------------
(* connect: an attempt makes a connection, and who answers it is not known *)

\* the attempt's future, or the session, is dropped: its connection is closed with it, unless a
\* task owns it
Dropped(cs, owned) == IF cs = <<>> THEN cs ELSE [cs EXCEPT ![Len(cs)].open = @ /\ owned]
AttemptDropped ==
  \E owned \in IF transport.tasks = "dialling" THEN BOOLEAN ELSE {FALSE} : conns' = Dropped(conns, owned)

NextAttempt ==
  /\ attempt' = attempt + 1
  /\ clientPc' = IF transport.retry /\ attempt < ATTEMPTS THEN "dial" ELSE "closing"

\* TcpStream::connect succeeds or not
Connect ==
  /\ clientPc = "dial"
  /\ \/ /\ \E who \in {"server", "other", "nobody"} :
             conns' = Append(conns, [peer |-> who, open |-> TRUE, st |-> "new", up |-> <<>>,
                                     down |-> <<>>, told |-> 0])
        /\ clientPc' = "tls" /\ UNCHANGED attempt
     \/ NextAttempt /\ UNCHANGED conns
  /\ UNCHANGED <<rigid, direct, replies, acc, given, appLeft>>

\* the handshake is done on both sides; with a certificate only the server can complete it
Handshake ==
  /\ clientPc = "tls" /\ conn.st = "up"
  /\ \/ /\ transport.proof = "certificate" => conn.peer = "server"
        /\ clientPc' = IF transport.proof = "in-tunnel" THEN "proof" ELSE "write"
        /\ UNCHANGED <<attempt, conns>>
     \/ NextAttempt /\ AttemptDropped
  /\ UNCHANGED <<rigid, direct, replies, acc, given, appLeft>>

\* tokio::time::timeout of the retrying dialers, whatever the peer has done by then
Timeout ==
  /\ clientPc = "tls" /\ transport.retry
  /\ NextAttempt /\ AttemptDropped
  /\ UNCHANGED <<rigid, direct, replies, acc, given, appLeft>>

\* VeilClient::connect and VeilDialer::connect: the proof of the key comes before anything is said
ReadProof ==
  /\ clientPc = "proof" /\ conn.down # <<>>
  /\ conns' = [conns EXCEPT ![last].down = Tail(@)]
  /\ clientPc' = IF Head(conn.down) = "proof" THEN "write" ELSE "closing"
  /\ UNCHANGED <<rigid, attempt, direct, replies, acc, given, appLeft>>

\* the inner request
WriteRequest ==
  /\ clientPc = "write"
  /\ conns' = [conns EXCEPT ![last].up = Append(@, Request)]
  /\ clientPc' = "response"
  /\ UNCHANGED <<rigid, attempt, direct, replies, acc, given, appLeft>>

-----------------------------------------------------------------------------
(* The response prefix: version, length of the addons, addons. *)

\* Faulty variant: the addons are left in the stream
DecodeNoAddons(b) ==
  IF b = <<>> THEN "truncated"
  ELSE IF b[1] # 0 THEN "bad"
  ELSE IF Len(b) < 2 THEN "truncated" ELSE "ok"

\* Response::decode over the bytes at hand: how much it takes, or why it cannot
Decode(b) ==
  IF b = <<>> THEN "truncated"
  ELSE IF b[1] # 0 THEN "bad"
  ELSE IF Len(b) < 2 THEN "truncated"
  ELSE IF Len(b) < 2 + b[2] THEN "truncated" ELSE "ok"

\* read_exact of two bytes and no more: a response with addons is refused
ReadPrefix ==
  /\ clientPc = "response" /\ transport.exact /\ Len(conn.down) >= 2
  /\ LET b == SubSeq(conn.down, 1, 2) IN
     /\ conns' = [conns EXCEPT ![last].down = SubSeq(@, 3, Len(@))]
     /\ clientPc' = IF Decode(b) = "ok" THEN "accept" ELSE "closing"
  /\ UNCHANGED <<rigid, attempt, direct, replies, acc, given, appLeft>>

\* read_response of the chained outbound: what follows the response is replayed by Prefixed
ReadResponse ==
  /\ clientPc = "response" /\ ~transport.exact /\ conn.down # <<>>
  /\ \E n \in 1..Len(conn.down) :
       LET b == acc \o SubSeq(conn.down, 1, n) IN
       /\ conns' = [conns EXCEPT ![last].down = SubSeq(@, n + 1, Len(@))]
       /\ \/ Decode(b) = "truncated" /\ acc' = b /\ UNCHANGED <<clientPc, given>>
          \/ Decode(b) = "bad" /\ clientPc' = "closing" /\ UNCHANGED <<acc, given>>
          \/ /\ Decode(b) = "ok" /\ clientPc' = "relay" /\ acc' = <<>>
             /\ given' = SubSeq(b, 3 + b[2], Len(b))
  /\ UNCHANGED <<rigid, attempt, direct, replies, appLeft>>

\* Faulty variant: a tunnel that closes before it answers is dialled again
ReadEofRetries ==
  /\ clientPc \in {"tls", "proof", "response"} /\ conn.st = "closed"
  /\ Len(conn.down) < IF clientPc = "response" /\ transport.exact THEN 2 ELSE 1
  /\ NextAttempt /\ AttemptDropped
  /\ UNCHANGED <<rigid, direct, replies, acc, given, appLeft>>

\* any of these reads meets the end of the stream
ReadEof ==
  /\ clientPc \in {"tls", "proof", "response"} /\ conn.st = "closed"
  /\ Len(conn.down) < IF clientPc = "response" /\ transport.exact THEN 2 ELSE 1
  /\ \/ clientPc = "tls" /\ NextAttempt /\ AttemptDropped
     \/ clientPc # "tls" /\ clientPc' = "closing" /\ UNCHANGED <<attempt, conns>>
  /\ UNCHANGED <<rigid, direct, replies, acc, given, appLeft>>

\* PendingConnect::accept
AcceptConnect ==
  /\ clientPc = "accept"
  /\ replies' = Append(replies, "ok") /\ clientPc' = "relay"
  /\ UNCHANGED <<rigid, attempt, conns, direct, acc, given, appLeft>>

-----------------------------------------------------------------------------
(* The relay, and the end of the session. *)

TunnelDown ==
  /\ clientPc = "relay" /\ direct = "no" /\ conn.down # <<>>
  /\ given' = Append(given, Head(conn.down))
  /\ conns' = [conns EXCEPT ![last].down = Tail(@)]
  /\ UNCHANGED <<rigid, clientPc, attempt, direct, replies, acc, appLeft>>

TunnelUp ==
  /\ clientPc = "relay" /\ direct = "no" /\ appLeft # <<>>
  /\ conns' = [conns EXCEPT ![last].up = Append(@, Head(appLeft))]
  /\ appLeft' = Tail(appLeft)
  /\ UNCHANGED <<rigid, clientPc, attempt, direct, replies, acc, given>>

TunnelEnds ==
  /\ clientPc = "relay" /\ clientPc' = "closing"
  /\ direct = "no" => conn.st = "closed" /\ conn.down = <<>>
  /\ UNCHANGED <<rigid, attempt, conns, direct, replies, acc, given, appLeft>>

TasksOwnIt ==
  transport.tasks = "dialling" \/ (transport.tasks = "dialled" /\ conns # <<>> /\ conn.up # <<>>)

\* the session's task returns and drops what it holds: sockets, or its end of a carrier's pipe
CloseSession ==
  /\ clientPc = "closing" /\ clientPc' = "closed"
  /\ conns' = Dropped(conns, TasksOwnIt)
  /\ direct' = IF direct = "open" THEN "closed" ELSE direct
  /\ UNCHANGED <<rigid, attempt, replies, acc, given, appLeft>>

\* a spawned task meets the end of its stream, or has something for a pipe whose other end is gone
TaskEnds(i) ==
  /\ transport.tasks # "never" /\ conns[i].open
  /\ i # last \/ clientPc \in {"dial", "closing", "closed"}
  /\ conns[i].st = "closed" \/ conns[i].down # <<>>
  /\ conns' = [conns EXCEPT ![i].open = FALSE]
  /\ UNCHANGED <<rigid, clientPc, attempt, direct, replies, acc, given, appLeft>>

-----------------------------------------------------------------------------
(* The other end.  It may be slow: it goes on with a connection that was   *)
(* given up until it notices.                                              *)

PeerHandshake(i) ==
  /\ conns[i].st = "new" /\ conns[i].peer # "nobody"
  /\ conns' = [conns EXCEPT ![i].st = "up",
                            ![i].down = IF transport.proof # "in-tunnel" THEN <<>>
                                        ELSE IF conns[i].peer = "server" THEN <<"proof">> ELSE <<"lie">>]
  /\ UNCHANGED <<rigid, clientPc, attempt, direct, replies, acc, given, appLeft>>

\* it has read the request and reached the target: the response, with what the target sent so far
PeerAnswers(i) ==
  /\ conns[i].st = "up" /\ conns[i].up # <<>> /\ conns[i].told = 0
  /\ \E r \in Responses :
       conns' = [conns EXCEPT ![i].down = @ \o r \o AppPayload, ![i].told = 1]
  /\ UNCHANGED <<rigid, clientPc, attempt, direct, replies, acc, given, appLeft>>

\* it closes, sooner or later: a refused user, a failed dial, the end of the session
PeerHangsUp(i) ==
  /\ conns[i].st \in {"new", "up"} /\ conns[i].peer # "nobody"
  /\ conns' = [conns EXCEPT ![i].st = "closed"]
  /\ UNCHANGED <<rigid, clientPc, attempt, direct, replies, acc, given, appLeft>>

ClientInit ==
  /\ kind \in ClientKinds /\ tag \in Tags /\ hello \in Hellos
  /\ clientPc = IF kind = "chain" THEN "dial" ELSE "greeting"
  /\ kind \in {"plain", "chain"} => tag = "proxy"
  /\ attempt = 1 /\ conns = <<>> /\ direct = "no" /\ replies = <<>> /\ acc = <<>>
  /\ given = <<>> /\ appLeft = AppData

Client ==
  \/ ReadGreeting \/ ReadConnect \/ Resolve \/ ConnectDirect \/ Connect \/ Handshake
  \/ Timeout \/ ReadProof \/ WriteRequest \/ ReadPrefix \/ ReadResponse \/ ReadEof
  \/ AcceptConnect \/ TunnelDown \/ TunnelUp \/ CloseSession

ClientNext ==
  \/ Client \/ AppGone \/ TunnelEnds
  \/ \E i \in DOMAIN conns : TaskEnds(i) \/ PeerHandshake(i) \/ PeerAnswers(i) \/ PeerHangsUp(i)

\* the session's task runs, and its timers fire
ClientSpec == ClientInit /\ [][ClientNext]_clientVars /\ WF_clientVars(Client)

-----------------------------------------------------------------------------
\* However many attempts time out while somebody is still answering them, the request, and with it
\* the user's id, is given away at most once and only to the server: whoever else answers the
\* address is given up before, by the certificate or by the proof.  Where no task is spawned
\* before the dial is over, one attempt's connection is closed before the next is made; the raw
\* transport, which spawns none at all, leaves nothing open behind a session
\* (RawClient::connect and the other dialers).
RequestOnce ==
  LET asked == {i \in DOMAIN conns : conns[i].up # <<>>}
      opened == {i \in DOMAIN conns : conns[i].open}
  IN  /\ \A i, j \in asked : i = j
      /\ kind # "plain" => \A i \in asked : conns[i].peer = "server"
      /\ transport.tasks # "dialling" => \A i, j \in opened : i = j
      /\ clientPc = "closed" => direct # "open" /\ (transport.tasks = "never" => opened = {})

StartOf(s, t) == Len(s) <= Len(t) /\ s = SubSeq(t, 1, Len(s))

\* What is relayed is what the other side sent.  Down: no byte of the response, none lost with it,
\* and all of it by the time the tunnel is closed and read to its end.  Up: the request first, once,
\* and then what the application sent.  The application is told of success only when there is
\* something to relay to, and where the router decides a target that is to stay local never leaves
\* through the tunnel, one to be tunnelled is never dialled from here, a blocked one is neither
\* (handle_socks_conn, read_response and the relay of each transport).
PayloadExact ==
  /\ StartOf(given, AppPayload)
  /\ clientPc = "relay" /\ direct = "no" /\ conn.st = "closed" /\ conn.down = <<>> => given = AppPayload
  /\ \A i \in DOMAIN conns : StartOf(conns[i].up, <<Request>> \o AppData)
  /\ (\E i \in DOMAIN replies : replies[i] = "ok") => direct # "no" \/ (conns # <<>> /\ conn.told = 1)
  /\ transport.routed =>
       /\ tag \in {"direct", "freedom", "block", "blackhole"} => conns = <<>>
       /\ tag \notin {"direct", "freedom"} => direct = "no"
=============================================================================
