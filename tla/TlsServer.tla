------------------------------ MODULE TlsServer ------------------------------
(***************************************************************************)
(* The server of donut-tls: its choice in server/hs.rs, with the hook of   *)
(* donut-veil that sees every ClientHello first, then the states of        *)
(* server/tls13.rs and server/tls12.rs.                                    *)
(***************************************************************************)
EXTENDS TlsBase

ServerConn ==
  [side |-> "s", rnd |-> None, sid |-> None, sni |-> None, retried |-> FALSE, skip |-> 0,
   resume |-> None, early |-> "New", earlyGot |-> <<>>, left |-> 0, reality |-> FALSE,
   cert |-> None, sendTicket |-> FALSE, crnd |-> None, share |-> None] @@ Conn

\* the early data allowance in records' units; an unset one is the size of one full record
DefaultEarly == 6
MaxEarlyDataSize == IF sc.early > 0 THEN sc.early ELSE DefaultEarly

-----------------------------------------------------------------------------
sm == Head(c2s).m
sx == Taken(s, Head(c2s))

ServerReads(states, t) ==
  /\ s.st \in states /\ c2s # <<>> /\ Head(c2s).ty = "hs" /\ sm.t = t
  /\ Reading(s, Head(c2s)) \in {"clear", "opened"}

\* the sessions StoresServerSessions holds under an id
StoredAs(id) == {e \in sstore : e.id = id}

ServerDoes(x, store) ==
  /\ s' = [x EXCEPT !.out = <<>>] /\ s2c' = s2c \o x.out /\ c2s' = Tail(c2s)
  /\ sstore' = store
  /\ UNCHANGED <<plan, round, c, cstore, altered>>

-----------------------------------------------------------------------------
\* server_verdict / decide: the session id was sealed for one of the hello's key shares
Authentic(h) == h.shares # None /\ \E i \in DOMAIN h.shares : h.sid = <<"veil", h.shares[i].pub>>

\* VeilDecision of the hook: forward what it does not recognise
Decision(h) == IF sc.hook = None THEN "proceed"
               ELSE IF ~Authentic(h) THEN "forward" ELSE sc.hook

\* with_certified_key: the version, and choose_suite_and_kx_group
ChosenVersion(h) == IF 13 \in h.vers \cap sc.vers THEN 13 ELSE 12
ChosenSuite(h, v) == LET ours == SelectSeq(sc.suites, LAMBDA q : SuiteVersion[q] = v)
                     IN  IF sc.ownOrder THEN FirstIn(ours, ToSet(h.suites))
                         ELSE FirstIn(h.suites, ToSet(ours))
ChosenGroup(h, v) == FirstIn(h.groups, {g \in ToSet(sc.groups) : Usable(g, v)})

\* why with_certified_key refuses the hello
HelloRefused(x, h) ==
  LET v == ChosenVersion(h) IN
  Refusal(<< <<v = 12 /\ 12 \notin h.vers \cap sc.vers, "ProtocolVersion">>,
             <<None \in {ChosenSuite(h, v), ChosenGroup(h, v)}, "HandshakeFailure">>,
             <<x.retried /\ HashOf(ChosenSuite(h, v)) # x.tr[1][2], "IllegalParameter">> >>)

\* can_resume: same suite, same name, and no session without EMS where the hello has it
CanResume(suite, sni, ems, v) == v.suite = suite /\ v.sni = sni /\ (v.ems \/ ~ems)

\* process_common: our first protocol the client also has
ChosenAlpn(h) == FirstIn(sc.alpn, ToSet(h.alpn))
NoCommonAlpn(h) == h.alpn # <<>> /\ sc.alpn # <<>> /\ ChosenAlpn(h) = None

\* the connection once the hello is accepted
Chosen(x, h) == [x EXCEPT !.ver = ChosenVersion(h), !.suite = ChosenSuite(h, ChosenVersion(h)),
                          !.rnd = <<"sr", round>>]

\* ExpectClientHello::handle up to the version's own handling: the name must not change
Admitted(x, h) == [x EXCEPT !.reality = @ \/ Decision(h) = "reality",
                            !.sni = IF x.retried THEN @ ELSE h.sni, !.skip = 0]
NameChanged(x, h) == x.retried /\ x.sni # h.sni

\* VeilDecision::Forward: the connection leaves TLS, and the hello goes to the cover site
ForwardHello ==
  /\ ServerReads({"ClientHello"}, "CH") /\ Decision(sm.f) = "forward"
  /\ ServerDoes([sx EXCEPT !.st = "Forwarded"], sstore)

\* the hello is refused before a version is dispatched on
RefuseHello ==
  /\ ServerReads({"ClientHello"}, "CH") /\ Decision(sm.f) # "forward"
  /\ LET x == Admitted(sx, sm.f) IN
     \/ NameChanged(sx, sm.f) /\ ServerDoes(Err(x, "NameChanged"), sstore)
     \/ /\ ~NameChanged(sx, sm.f) /\ HelloRefused(x, sm.f) # None
        /\ ServerDoes(Fatal(x, HelloRefused(x, sm.f)), sstore)

\* the hello goes on to the version v
Accepts(v) ==
  /\ ServerReads({"ClientHello"}, "CH") /\ Decision(sm.f) # "forward"
  /\ ~NameChanged(sx, sm.f) /\ HelloRefused(Admitted(sx, sm.f), sm.f) = None
  /\ ChosenVersion(sm.f) = v

-----------------------------------------------------------------------------
(* The TLS 1.3 states: server/tls13.rs.                                    *)

-----------------------------------------------------------------------------
(* CompleteClientHelloHandling::handle_client_hello                        *)

HasShare(h, g) == \E i \in DOMAIN h.shares : h.shares[i].g = g
ShareOf(h, g) == h.shares[CHOOSE i \in DOMAIN h.shares : h.shares[i].g = g].pub

\* emit_hello_retry_request; rejected early data is skipped until the second hello
RetryHello(x, h) ==
  LET y == Rollup(AddT(x, sm))
      z == SendHs(y, Msg("HRR", [sid |-> h.sid, suite |-> y.suite,
                                 group |-> ChosenGroup(h, 13)], None), FALSE)
  IN  [SendCcs(z) EXCEPT !.kind = "FullWithRetry", !.retried = TRUE, !.st = "ClientHello",
                         !.skip = IF h.early THEN MaxEarlyDataSize ELSE 0]

\* attempt_tls13_ticket_decryption: a ticket is opened, a stored session is taken out
TicketSession(h, t) ==
  IF h.psk = None THEN None
  ELSE IF sc.ticketer THEN IF t # None /\ t.id = h.psk /\ t.sealed THEN t.val ELSE None
  ELSE IF StoredAs(h.psk) = {} THEN None ELSE (CHOOSE e \in StoredAs(h.psk) : TRUE).val
StoreAfterTake(h) == IF sc.ticketer THEN sstore ELSE sstore \ StoredAs(h.psk)

\* decide_if_early_data_allowed
EarlyAccepted(x, h, resume) ==
  /\ h.early /\ resume # None /\ sc.early > 0 /\ ~sc.ticketer
  /\ env.age = "fresh" /\ resume.ver = x.ver /\ resume.suite = x.suite /\ resume.alpn = x.alpn
  /\ x.early # "Rejected"

\* emit_server_hello: the hello in the clear, then the handshake keys
EmitServerHello(x, h, resume) ==
  LET g == ChosenGroup(h, 13)
      pub == <<"s", round>>
      y == AddT(x, sm)
      f == [ver |-> 13, rnd |-> x.rnd, sid |-> h.sid, suite |-> x.suite, alpn |-> None,
            share |-> [g |-> g, pub |-> pub], psk |-> resume # None, conf |-> None]
      z == SendHs(y, Msg("SH", f, None), FALSE)
      hs == HsSecret(IF resume = None THEN None ELSE resume.secret, Dh(g, ShareOf(h, g), pub))
      e == IF resume = None THEN z ELSE SetDec(z, EarlyKey(resume.secret, y.tr))
      k == [e EXCEPT !.hs = hs, !.kx = g,
                     !.hsk = [c |-> HsKey("c", hs, z.tr), s |-> HsKey("s", hs, z.tr)]]
      w == SetEnc(k, k.hsk.s)
  IN  IF x.retried THEN w ELSE SendCcs(w)

\* emit_certificate_req, emit_(compressed_)certificate and emit_certificate_verify
EmitServerAuth(x, h) ==
  LET who == IF x.reality THEN "reality" ELSE "srv"
      y == IF sc.auth = None THEN x ELSE SendHs(x, Msg("CR", [comp |-> sc.decomp], None), TRUE)
      compress == h.comp /\ sc.comp /\ ~x.reality
      z == SendHs(y, Msg(IF compress THEN "CCert" ELSE "Cert", [cert |-> who], None), TRUE)
  IN  SendHs(z, Msg("CV", None, Mac(<<"sig", who>>, z.tr)), TRUE)

\* the rest of the flight, up to Finished and the server's traffic key
EmitFlight(x, h, resume) ==
  LET early == EarlyAccepted(x, h, resume)
      e == SendHs(x, Msg("EE", [alpn |-> x.alpn, early |-> early], None), TRUE)
      a == IF resume = None THEN EmitServerAuth(e, h) ELSE e
      d == IF early THEN [a EXCEPT !.early = "Accepted", !.left = sc.early]
           ELSE [SetDecTrial(a, a.hsk.c, IF h.early THEN MaxEarlyDataSize ELSE 0)
                   EXCEPT !.early = "Rejected"]
      f == SendHs(d, Msg("Fin", None, Mac(d.hsk.s, d.tr)), TRUE)
      t == SetEnc([f EXCEPT !.appTr = f.tr], AppKey("s", f.hs, f.tr))
      auth == resume = None /\ sc.auth # None
      o == IF ~auth /\ sc.half THEN StartOutgoing(t) ELSE t
  IN  [o EXCEPT !.st = IF auth THEN "ClientCert" ELSE IF early THEN "EarlyData" ELSE "ClientFin13"]

\* check_binder
CheckBinder(x, h, resume) == sm.x.binder = Binder(resume.secret, x.tr, h)

OnClientHello13 ==
  /\ Accepts(13)
  /\ LET h == sm.f
         x == Chosen(Admitted(sx, h), h)
         session == TicketSession(h, sm.x.ticket)
         resume == IF session # None /\ CanResume(x.suite, x.sni, FALSE, session) THEN session
                   ELSE None
         hello == EmitServerHello([x EXCEPT !.resume = resume,
                                            !.peer = IF resume = None THEN @ ELSE resume.cert,
                                            !.kind = IF resume # None THEN "Resumed"
                                                     ELSE IF @ = None THEN "Full" ELSE @],
                                  h, resume)
         y == [hello EXCEPT !.alpn = ChosenAlpn(h)]
     IN  IF h.shares = None THEN ServerDoes(Fatal(x, "HandshakeFailure"), sstore)
         ELSE IF x.retried /\ h.early THEN ServerDoes(Fatal(x, "IllegalParameter"), sstore)
         ELSE IF ~HasShare(h, ChosenGroup(h, 13))
         THEN ServerDoes(IF x.retried THEN Fatal(x, "IllegalParameter") ELSE RetryHello(x, h),
                         sstore)
         ELSE IF resume # None /\ ~CheckBinder(x, h, resume)
         THEN ServerDoes(Fatal(x, "DecryptError"), StoreAfterTake(h))
         ELSE ServerDoes(IF NoCommonAlpn(h) THEN Fatal(y, "NoApplicationProtocol")
                         ELSE EmitFlight(y, h, resume), StoreAfterTake(h))

-----------------------------------------------------------------------------
\* ExpectCertificate::handle_certificate
ClientCertified(x, cert) ==
  LET bad == Refusal(<< <<cert = None /\ sc.auth = "man", "CertificateRequired">>,
                        <<cert \notin sc.trusts \cup {None}, "BadCertificate">> >>)
  IN  IF bad # None THEN Fatal(x, bad)
      ELSE IF cert = None THEN [x EXCEPT !.st = "ClientFin13"]
      ELSE [x EXCEPT !.cert = cert, !.st = "ClientCV"]

OnClientCertificate13 ==
  /\ ServerReads({"ClientCert"}, "Cert") /\ sx.ver = 13
  /\ ServerDoes(ClientCertified(AddT(sx, sm), sm.f.cert), sstore)

\* ExpectCompressedCertificate, where the request offered it
OnClientCompressedCertificate13 ==
  /\ ServerReads({"ClientCert"}, "CCert")
  /\ ServerDoes(IF ~sc.decomp THEN Fatal(sx, "UnexpectedMessage")
                ELSE ClientCertified(AddT(sx, sm), sm.f.cert), sstore)

\* ExpectCertificateVerify
OnClientCertVerify13 ==
  /\ ServerReads({"ClientCV"}, "CV") /\ sx.ver = 13
  /\ ServerDoes(IF sm.x # Mac(<<"sig", sx.cert>>, sx.tr) THEN Fatal(sx, "DecryptError")
                ELSE [AddT(sx, sm) EXCEPT !.peer = sx.cert, !.st = "ClientFin13"], sstore)

\* ExpectEarlyData on EndOfEarlyData: the handshake key reads what follows
OnEndOfEarlyData ==
  /\ ServerReads({"EarlyData"}, "EOED")
  /\ ServerDoes([SetDec(AddT(sx, sm), sx.hsk.c) EXCEPT !.st = "ClientFin13"], sstore)

\* get_server_session_value and emit_ticket: the k-th ticket of this connection
SessionValue13(x, k) ==
  [ver |-> 13, suite |-> x.suite, secret |-> ResumptionPsk(x.hs, x.tr, k), ems |-> FALSE,
   cert |-> x.peer, alpn |-> x.alpn, sni |-> x.sni]
TicketId(k) == <<"ticket", round, k>>
EmitTicket13(x, k) ==
  LET ticket == [id |-> TicketId(k), sealed |-> sc.ticketer,
                 val |-> IF sc.ticketer THEN SessionValue13(x, k) ELSE None]
  IN  SendRec(x, "hs", Msg("NST", [nonce |-> k, maxEarly |-> IF sc.ticketer THEN 0 ELSE sc.early],
                           ticket), TRUE)

\* ExpectFinished: the client's traffic key is installed before its Finished is verified
OnClientFinished13 ==
  /\ ServerReads({"ClientFin13"}, "Fin")
  /\ LET k == SetDec(sx, AppKey("c", sx.hs, sx.appTr))
         x == AddT(k, sm)
         n == IF sc.ticketer \/ sc.storage THEN sc.tickets ELSE 0
         t == FoldLeft(EmitTicket13, x, [i \in 1..n |-> i])
         kept == IF sc.ticketer THEN {}
                 ELSE {[id |-> TicketId(i), val |-> SessionValue13(x, i)] : i \in 1..n}
     IN  IF sm.x # Mac(sx.hsk.c, sx.tr) THEN ServerDoes(Fatal(k, "DecryptError"), sstore)
         ELSE ServerDoes([StartTraffic(t) EXCEPT !.st = "Traffic"], sstore \cup kept)

-----------------------------------------------------------------------------
(* The TLS 1.2 states: server/tls12.rs.                                    *)

RandomsOf(x) == <<x.crnd, x.rnd>>

\* get_server_connection_value_tls12, emit_ticket, emit_ccs and emit_finished
SessionValue12(x) ==
  [ver |-> 12, suite |-> x.suite, secret |-> x.master, ems |-> x.ems, cert |-> x.peer,
   alpn |-> x.alpn, sni |-> x.sni]
TicketId12 == <<"ticket12", round>>
EmitTicket12(x) ==
  SendHs(x, Msg("NST12", None, [id |-> TicketId12, sealed |-> TRUE, val |-> SessionValue12(x)]),
         FALSE)
EmitCcsFinished12(x) ==
  LET t == IF x.sendTicket THEN EmitTicket12(x) ELSE x
      e == StartEnc(SendCcs(t))
  IN  SendHs(e, Msg("Fin", None, Mac(<<"s", x.master>>, e.tr)), TRUE)

\* the session a hello asks for: a ticket it offers hides the session id
ResumeData12(h, t) ==
  IF h.ticket \notin {None, Request}
  THEN IF sc.ticketer /\ t # None /\ t.id = h.ticket /\ t.sealed THEN t.val ELSE None
  ELSE IF h.sid = None \/ StoredAs(h.sid) = {} THEN None
  ELSE (CHOOSE e \in StoredAs(h.sid) : TRUE).val

EmitServerHello12(x, h) ==
  SendHs(x, Msg("SH", [ver |-> 12, rnd |-> x.rnd, sid |-> x.sid, suite |-> x.suite,
                       alpn |-> x.alpn, ems |-> x.ems, ticket |-> x.sendTicket,
                       status |-> sc.ocsp /\ x.kind = "Full"], None), FALSE)

\* Faulty variant: the server waits for the client's Finished before it sends its own
StartResumptionWaiting(x, h, session) ==
  LET y == EmitServerHello12([x EXCEPT !.sid = h.sid], h)
  IN  [Prepare12(y, session.secret, RandomsOf(y))
         EXCEPT !.peer = session.cert, !.kind = "Resumed", !.st = "ClientCcs"]

\* start_resumption
StartResumption(x, h, session) ==
  LET y == EmitServerHello12([x EXCEPT !.sid = h.sid], h)
      k == [Prepare12(y, session.secret, RandomsOf(y)) EXCEPT !.peer = session.cert,
                                                              !.kind = "Resumed"]
  IN  [EmitCcsFinished12(k) EXCEPT !.st = "ClientCcs"]

\* the full handshake's flight
EmitFlight12(x, h) ==
  LET given == h.ticket \notin {None, Request}
      y == EmitServerHello12([x EXCEPT !.kind = "Full",
                                !.sid = IF sc.storage /\ ~given THEN <<"sid", "s", round>> ELSE None],
                             h)
      a == SendHs(y, Msg("Cert", [cert |-> "srv"], None), FALSE)
      o == IF sc.ocsp THEN SendHs(a, Bare("CS"), FALSE) ELSE a
      p == [g |-> ChosenGroup(h, 12), pub |-> <<"s12", round>>]
      k == SendHs(o, Msg("SKX", p, Mac(<<"sig", "srv">>, <<RandomsOf(y), p>>)), FALSE)
      r == IF sc.auth = None THEN k ELSE SendHs(k, Msg("CR", [comp |-> FALSE], None), FALSE)
      d == SendHs(r, Bare("SHD"), FALSE)
  IN  [d EXCEPT !.share = p, !.st = IF sc.auth = None THEN "ClientKx" ELSE "ClientCert"]

\* CompleteClientHelloHandling::handle_client_hello
OnClientHello12 ==
  /\ Accepts(12)
  /\ LET h == sm.f
         x == [AddT(Chosen(Admitted(sx, h), h), sm) EXCEPT
                 !.crnd = h.rnd, !.rnd = <<"sr12", round, 13 \in sc.vers>>, !.ems = h.ems,
                 !.alpn = ChosenAlpn(h), !.sendTicket = h.ticket # None /\ sc.ticketer]
         session == ResumeData12(h, sm.x.ticket)
         resume == session # None /\ CanResume(x.suite, x.sni, x.ems, session)
         bad == Refusal(<< <<sc.requireEms /\ ~h.ems, "HandshakeFailure">>,
                           <<resume /\ session.ems /\ ~x.ems, "IllegalParameter">>,
                           <<NoCommonAlpn(h), "NoApplicationProtocol">> >>)
     IN  ServerDoes(IF bad # None THEN Fatal(x, bad)
                    ELSE IF resume THEN StartResumption(x, h, session)
                    ELSE EmitFlight12(x, h), sstore)

-----------------------------------------------------------------------------
\* ExpectCertificate
OnClientCertificate12 ==
  /\ ServerReads({"ClientCert"}, "Cert") /\ sx.ver = 12
  /\ LET bad == Refusal(<< <<sm.f.cert = None /\ sc.auth = "man", "CertificateRequired">>,
                           <<sm.f.cert \notin sc.trusts \cup {None}, "BadCertificate">> >>)
     IN  ServerDoes(IF bad # None THEN Fatal(AddT(sx, sm), bad)
                    ELSE [AddT(sx, sm) EXCEPT !.cert = sm.f.cert, !.st = "ClientKx"], sstore)

\* ExpectClientKx
OnClientKx ==
  /\ ServerReads({"ClientKx"}, "CKX")
  /\ LET x == AddT(sx, sm)
         master == Master(Dh(x.share.g, sm.f, x.share.pub), x.ems, x.tr, RandomsOf(x))
     IN  ServerDoes([Prepare12(x, master, RandomsOf(x)) EXCEPT
                       !.kx = x.share.g,
                       !.st = IF x.cert = None THEN "ClientCcs" ELSE "ClientCV"], sstore)

\* ExpectCertificateVerify
OnClientCertVerify12 ==
  /\ ServerReads({"ClientCV"}, "CV") /\ sx.ver = 12
  /\ ServerDoes(IF sm.x # Mac(<<"sig", sx.cert>>, sx.tr) THEN Fatal(sx, "DecryptError")
                ELSE [AddT(sx, sm) EXCEPT !.peer = sx.cert, !.st = "ClientCcs"], sstore)

\* ExpectCcs
OnClientCcs12 ==
  /\ s.st = "ClientCcs" /\ c2s # <<>> /\ Head(c2s).ty = "ccs"
  /\ ServerDoes([StartDec(sx) EXCEPT !.st = "ClientFin12"], sstore)

\* ExpectFinished: the session is kept before the server's own Finished leaves
OnClientFinished12 ==
  /\ ServerReads({"ClientFin12"}, "Fin")
  /\ LET x == AddT(sx, sm)
         full == sx.kind # "Resumed"
         kept == IF full /\ sx.sid # None /\ sc.storage
                 THEN {[id |-> sx.sid, val |-> SessionValue12(sx)]} ELSE {}
     IN  IF sm.x # Mac(<<"c", sx.master>>, sx.tr) THEN ServerDoes(Fatal(sx, "DecryptError"), sstore)
         ELSE ServerDoes([StartTraffic(IF full THEN EmitCcsFinished12(x) ELSE x) EXCEPT
                            !.st = "Traffic"], sstore \cup kept)
=============================================================================
