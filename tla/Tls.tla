--------------------------------- MODULE Tls ---------------------------------
(***************************************************************************)
(* A client and a server of donut-tls over a byte stream, for two          *)
(* connections in a row that share the session stores.  Every record of    *)
(* the peer reaches the state machine of client or server, or the part of  *)
(* conn.rs and common_state.rs that takes it before.                       *)
(***************************************************************************)
EXTENDS TlsClient, TlsServer

\* two new connections, and empty stores
Fresh ==
  /\ round = 1
  /\ c = ClientConn /\ s = [ServerConn EXCEPT !.st = "ClientHello"]
  /\ c2s = <<>> /\ s2c = <<>>
  /\ cstore = NoClientStore /\ sstore = {} /\ altered = FALSE

Init == plan \in Plans /\ Fresh

-----------------------------------------------------------------------------
(* The application's writes: CommonState::buffer_plaintext keeps them      *)
(* until start_traffic, WriteEarlyData sends them at once while the        *)
(* session's allowance lasts.                                              *)

Written(x, d) == IF x.maySend THEN SendRec(x, "app", Msg("App", d, None), TRUE)
                 ELSE [x EXCEPT !.pend = Append(@, d)]

ClientWrites ==
  /\ Live(c) /\ ~c.wrote /\ env.write
  /\ LET x == Written([c EXCEPT !.wrote = TRUE], "fromClient")
     IN  c' = [x EXCEPT !.out = <<>>] /\ c2s' = c2s \o x.out
  /\ UNCHANGED <<plan, round, s, s2c, cstore, sstore, altered>>

ServerWrites ==
  /\ Live(s) /\ ~s.wrote /\ env.write
  /\ LET x == Written([s EXCEPT !.wrote = TRUE], "fromServer")
     IN  s' = [x EXCEPT !.out = <<>>] /\ s2c' = s2c \o x.out
  /\ UNCHANGED <<plan, round, c, c2s, cstore, sstore, altered>>

\* ClientConnection::early_data is there only while early data is enabled
ClientWritesEarly ==
  /\ Live(c) /\ EarlyEnabled(c) /\ c.earlyTraffic /\ c.sent + EarlyLen <= c.res.maxEarly
  /\ c.sent < env.early
  /\ LET x == SendRec([c EXCEPT !.sent = @ + EarlyLen], "app", Msg("Early", c.sent + 1, None), TRUE)
     IN  c' = [x EXCEPT !.out = <<>>] /\ c2s' = c2s \o x.out
  /\ UNCHANGED <<plan, round, s, s2c, cstore, sstore, altered>>

-----------------------------------------------------------------------------
(* What process_msg and process_more_input do with the other records.      *)

ClientTakes(ty, how) == /\ Live(c) /\ s2c # <<>> /\ Head(s2c).ty = ty
                        /\ Reading(c, Head(s2c)) \in how
ServerTakes(ty, how) == /\ Live(s) /\ c2s # <<>> /\ Head(c2s).ty = ty
                        /\ Reading(s, Head(c2s)) \in how

\* process_alert
ClientAlert == ClientTakes("alert", {"clear", "opened"}) /\ ClientDoes(Err(cx, "AlertReceived"), cstore)
ServerAlert == ServerTakes("alert", {"clear", "opened"}) /\ ServerDoes(Err(sx, "AlertReceived"), sstore)

\* process_msg: TLS 1.3 drops the compatibility ChangeCipherSpec while handshaking
DropsCcs(x) == x.ver = 13 /\ ~x.mayRecv
ClientCcs ==
  /\ ClientTakes("ccs", {"clear"}) /\ c.st # "Ccs12"
  /\ ClientDoes(IF DropsCcs(c) THEN cx ELSE Fatal(cx, "UnexpectedMessage"), cstore)
ServerCcs ==
  /\ ServerTakes("ccs", {"clear"}) /\ s.st # "ClientCcs"
  /\ ServerDoes(IF DropsCcs(s) THEN sx ELSE Fatal(sx, "UnexpectedMessage"), sstore)

\* the states that take a handshake message; process_main_protocol answers every other one
\* with an alert (the server's states never meet one: the client keeps to the order)
ClientExpects ==
  [SH |-> {"ServerHelloOrRetry", "ServerHello"}, HRR |-> {"ServerHelloOrRetry"},
   EE |-> {"EncryptedExtensions"}, CR |-> {"CertOrReq", "DoneOrReq12"},
   Cert |-> {"CertOrReq", "Cert", "Cert12"}, CCert |-> {"CertOrReq", "Cert"}, CV |-> {"CertVerify"},
   Fin |-> {"Finished13", "Finished12"}, NST |-> {"Traffic"}, CS |-> {"StatusOrKx12"},
   SKX |-> {"StatusOrKx12", "ServerKx12"}, SHD |-> {"DoneOrReq12", "Done12"},
   NST12 |-> {"NewTicket12"}]
ClientUnexpected ==
  /\ ClientTakes("hs", {"clear", "opened"}) /\ c.st \notin ClientExpects[cm.t]
  /\ ClientDoes(Fatal(cx, "UnexpectedMessage"), cstore)

\* ExpectTraffic; ExpectEarlyData; every other state refuses application data
ClientAppData ==
  /\ ClientTakes("app", {"opened"})
  /\ ClientDoes(IF c.st = "Traffic" THEN [cx EXCEPT !.got = Append(@, cm.f)]
                ELSE Fatal(cx, "UnexpectedMessage"), cstore)
\* EarlyDataState::take_received_plaintext
TakeEarly(x, d) == [x EXCEPT !.earlyGot = Append(@, d), !.left = @ - EarlyLen]

ServerAppData ==
  /\ ServerTakes("app", {"opened"})
  /\ ServerDoes(IF s.st = "Traffic" THEN [sx EXCEPT !.got = Append(@, sm.f)]
                ELSE IF s.st = "EarlyData" /\ s.left >= EarlyLen THEN TakeEarly(sx, sm.f)
                ELSE Fatal(sx, "UnexpectedMessage"), sstore)

\* what the client sealed under the early key (an alert included) once early data is refused:
\* dropped by trial decryption, or after a HelloRetryRequest by its record type
ServerSkips ==
  /\ Live(s) /\ c2s # <<>>
  /\ \/ Reading(s, Head(c2s)) = "skipped" /\ ServerDoes(sx, sstore)
     \/ /\ Reading(s, Head(c2s)) = "opaque"
        /\ ServerDoes(IF s.skip >= SealedLen THEN [sx EXCEPT !.skip = @ - SealedLen]
                      ELSE Fatal(sx, "UnexpectedMessage"), sstore)

\* process_more_input starts again at the skipped records when more of the stream has arrived,
\* and counts them once more
ServerRescans ==
  /\ Live(s) /\ s.kept > 0 /\ c2s # <<>>
  /\ LET x == IF s.kept <= s.trial THEN [s EXCEPT !.trial = @ - s.kept] ELSE Fatal(s, "BadRecordMac")
     IN  s' = [x EXCEPT !.out = <<>>] /\ s2c' = s2c \o x.out
  /\ UNCHANGED <<plan, round, c, c2s, cstore, sstore, altered>>

\* handle_deframe_error on a record that does not decrypt; a resumption of TLS 1.2 that
\* ends so forgets its session
ClientBadRecord ==
  /\ Live(c) /\ s2c # <<>> /\ Reading(c, Head(s2c)) = "bad"
  /\ ClientDoes(Fatal(c, "BadRecordMac"),
                IF c.st = "Finished12" /\ c.kind = "Resumed" THEN Keep([cstore EXCEPT !.t12 = None])
                ELSE cstore)
ServerBadRecord ==
  /\ Live(s) /\ c2s # <<>> /\ Reading(s, Head(c2s)) = "bad"
  /\ ServerDoes(Fatal(s, "BadRecordMac"), sstore)

\* the transport ends where the peer gave up
ClientEof ==
  /\ Live(c) /\ s2c = <<>> /\ s.st = "Failed"
  /\ c' = Err(c, "UnexpectedEof") /\ UNCHANGED <<plan, round, s, c2s, s2c, cstore, sstore, altered>>
ServerEof ==
  /\ Live(s) /\ c2s = <<>> /\ c.st = "Failed"
  /\ s' = Err(s, "UnexpectedEof") /\ UNCHANGED <<plan, round, c, c2s, s2c, cstore, sstore, altered>>

-----------------------------------------------------------------------------
(* The surroundings: a middlebox that rewrites one hello in the clear, and *)
(* the application that connects once more.                                *)

Rewritten(m) ==
  CASE env.alter = "strip13" -> [m EXCEPT !.f.vers = @ \ {13}]
    [] env.alter = "alpn" -> [m EXCEPT !.f.alpn = <<>>]
    [] env.alter = "suites" -> [m EXCEPT !.f.suites = Tail(@)]
    [] env.alter = "shares" -> [m EXCEPT !.f.shares = IF @ = None THEN @ ELSE Tail(@)]
    [] env.alter = "sid" -> [m EXCEPT !.f.sid = <<"other">>]
    [] env.alter = "sni" -> [m EXCEPT !.f.sni = "other"]
    [] env.alter = "ems" -> [m EXCEPT !.f.ems = FALSE]

Middlebox ==
  /\ env.alter # None /\ ~altered /\ Live(s)
  /\ c2s # <<>> /\ Head(c2s).m.t = "CH"
  /\ c2s' = <<[Head(c2s) EXCEPT !.m = Rewritten(@)]>> \o Tail(c2s)
  /\ altered' = TRUE
  /\ UNCHANGED <<plan, round, c, s, s2c, cstore, sstore>>

Over(x) == x.st \in {"Traffic", "Failed", "Forwarded"}
Settled == (Over(c) /\ Over(s)) \/ s.st = "Forwarded"

Reconnect ==
  /\ round = 1 /\ Over(c) /\ Over(s)
  /\ round' = 2
  /\ c' = ClientConn /\ s' = [ServerConn EXCEPT !.st = "ClientHello"]
  /\ c2s' = <<>> /\ s2c' = <<>> /\ altered' = FALSE
  /\ UNCHANGED <<plan, cstore, sstore>>

-----------------------------------------------------------------------------
ClientStep ==
  \/ ClientStart \/ OnHelloRetryRequest
  \/ OnServerHello13 \/ OnEncryptedExtensions \/ OnCertificateRequest13 \/ OnCertificate13
  \/ OnCompressedCertificate13
  \/ OnCertificateVerify13 \/ OnFinished13 \/ OnNewTicket13
  \/ OnServerHello12 \/ OnCertificate12 \/ OnCertificateStatus12 \/ OnServerKx12
  \/ OnCertificateRequest12 \/ OnServerDone12 \/ OnNewTicket12 \/ OnServerCcs12 \/ OnFinished12
  \/ ClientAlert \/ ClientUnexpected \/ ClientCcs \/ ClientAppData \/ ClientBadRecord \/ ClientEof

ServerStep ==
  \/ ForwardHello \/ RefuseHello \/ OnClientHello13 \/ OnClientHello12
  \/ OnClientCertificate13 \/ OnClientCompressedCertificate13 \/ OnClientCertVerify13
  \/ \/ OnEndOfEarlyData \/ OnClientFinished13
  \/ OnClientCertificate12 \/ OnClientKx \/ OnClientCertVerify12 \/ OnClientCcs12
  \/ OnClientFinished12
  \/ ServerAlert \/ ServerCcs \/ ServerAppData \/ ServerSkips \/ ServerRescans \/ ServerBadRecord \/ ServerEof

\* nothing left to read for a side that is still there
Quiet == /\ c.st # None
         /\ Live(c) => s2c = <<>> /\ s.st # "Failed"
         /\ Live(s) => c2s = <<>> /\ c.st # "Failed"

\* a connection that is through: every other state without a step is a deadlock
Done == Quiet /\ Settled /\ UNCHANGED vars

Next == ClientStep \/ ServerStep \/ ClientWrites \/ ServerWrites \/ ClientWritesEarly
        \/ Middlebox \/ Reconnect \/ Done

Spec == Init /\ [][Next]_vars

-----------------------------------------------------------------------------
(* Properties *)

BothTraffic == c.st = "Traffic" /\ s.st = "Traffic"
BestVersion == IF 13 \in cc.vers \cap sc.vers THEN 13 ELSE 12

\* two configurations that can come to an agreement, from their settings alone: a version, a
\* suite and a group in common, protocols, and credentials each side accepts
Compatible ==
  /\ BestVersion \in cc.vers \cap sc.vers
  /\ \E q \in ToSet(cc.suites) \cap ToSet(sc.suites) : SuiteVersion[q] = BestVersion
  /\ \E g \in ToSet(cc.groups) \cap ToSet(sc.groups) : Usable(g, BestVersion)
  /\ cc.alpn = <<>> \/ sc.alpn = <<>> \/ ToSet(cc.alpn) \cap ToSet(sc.alpn) # {}
  /\ {"srv", "reality"} \subseteq cc.trusts
  /\ sc.auth = "man" => cc.cert
  /\ (sc.auth # None /\ cc.cert) => "cli" \in sc.trusts
  /\ sc.hook # None => cc.mut

\* what the code does not survive: a HelloRetryRequest to a rewritten hello, a server that has
\* lost TLS 1.3 since it handed out an early data ticket, and refused early data whose sealed
\* records exceed the allowance, counted as often as the server reads while it keeps them
OutOfReach ==
  \/ cc.mut /\ Head(cc.groups) \notin ToSet(sc.groups)
  \/ c.earlyTraffic /\ 13 \notin sc.vers
  \/ c.early = "Rejected" /\ c.sent * SealedLen > MaxEarlyDataSize
  \/ s.err = "BadRecordMac" /\ s.kept > s.trial

\* A handshake between compatible configurations completes on both sides, through retries,
\* refused tickets and refused early data, and what the applications wrote, before it ended or
\* after, has then reached the peer once; with ECH, which this server does not know, the
\* client completes it and then reports exactly that (client/tls13.rs:1427).  Whatever the
\* configurations, when nothing is left to read the connection is over on both sides, in
\* application data or in an error: never do both wait for a message the other does not send.
CompatibleCompletes ==
  /\ (Settled /\ ~altered /\ Compatible /\ ~OutOfReach) =>
       IF cc.ech = "on" THEN 13 \in sc.vers => c.err = "EchRequired" ELSE BothTraffic
  /\ Quiet => Settled
  /\ (Quiet /\ BothTraffic) => /\ c.wrote => s.got = <<"fromClient">>
                               /\ s.wrote => c.got = <<"fromServer">>

\* Early data is delivered to the server exactly when the client learns that it was accepted,
\* all of it and in order, and never mixed into the connection's own data.
EarlyDataExact ==
  /\ IsPrefix(s.earlyGot, [i \in 1..c.sent |-> i])
  /\ Len(s.got) <= IF c.wrote THEN 1 ELSE 0
  /\ BothTraffic => IF s.early = "Accepted"
                     THEN c.early = "AcceptedFinished" /\ Len(s.earlyGot) = c.sent
                     ELSE c.early # "AcceptedFinished" /\ s.earlyGot = <<>>

\* Two sides that both exchange application data agree on everything they negotiated, on the
\* whole transcript and on both traffic keys, whatever a middlebox did to a hello; neither gets
\* there with an older version than both configurations allow (the downgrade sentinel of
\* server/tls12.rs:107 and the Finished messages), nor with a peer it has not authenticated:
\* the client with a certificate its verifier accepts, also when the session is resumed, the
\* server that demands a client certificate with one it accepts; and they agree on the early data.
SidesAgree ==
  /\ BothTraffic =>
       /\ <<c.ver, c.suite, c.alpn, c.kx, c.kind, c.ems>> = <<s.ver, s.suite, s.alpn, s.kx, s.kind, s.ems>>
       /\ c.tr = s.tr /\ c.enc.k = s.dec.k /\ c.dec.k = s.enc.k
  /\ \A x \in {c, s} : x.st = "Traffic" => x.ver = BestVersion
  /\ (c.maySend \/ c.mayRecv) => c.peer \in cc.trusts
  /\ (s.mayRecv /\ sc.auth = "man") => s.peer \in sc.trusts
  /\ EarlyDataExact

\* A record number is never used twice under one key: a handler that installs a key again
\* does so before anything was sent under it (client/tls13.rs:571 after a retry).
NumbersAdvance ==
  [][\A p \in {<<c, c'>>, <<s, s'>>} : p[2].enc.k = p[1].enc.k => p[2].enc.n >= p[1].enc.n]_vars
=============================================================================
