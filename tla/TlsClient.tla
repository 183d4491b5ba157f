------------------------------ MODULE TlsClient ------------------------------
(***************************************************************************)
(* The client of donut-tls: client/hs.rs up to the ServerHello with the    *)
(* parts of client/ech.rs and client/handy.rs it calls, then the states    *)
(* of client/tls13.rs and client/tls12.rs.                                 *)
(***************************************************************************)
EXTENDS TlsBase

ClientConn ==
  [side |-> "c", rnd |-> None, sid |-> None, res |-> None, share |-> None, early |-> "Disabled",
   earlyTraffic |-> FALSE, fakeCcs |-> FALSE, ech |-> "NotOffered", sched |-> None,
   inner |-> <<>>, hrr |-> None, resumed |-> FALSE, auth |-> None, cert |-> None,
   compOff |-> FALSE, srnd |-> None, sesid |-> None, mustTicket |-> FALSE, nst |-> None,
   kxp |-> None, status |-> FALSE, sent |-> 0] @@ Conn

\* an operation on the client's session store; NoClientSessionStorage ignores it
Keep(store) == IF cc.store THEN store ELSE cstore

NoClientStore == [t13 |-> <<>>, t12 |-> None, hint |-> None]

\* EarlyData::is_enabled
EarlyEnabled(x) == x.early \in {"Ready", "Accepted"}

-----------------------------------------------------------------------------
(* ClientSessionValue::retrieve: the newest TLS 1.3 ticket leaves the      *)
(* store, whatever becomes of it; only without one a TLS 1.2 session is    *)
(* looked up.  It is used if the configuration still is the one it was     *)
(* made under, and it has not expired.                                     *)

Found == IF ~cc.store THEN None
         ELSE IF cstore.t13 # <<>> THEN Last(cstore.t13) ELSE cstore.t12
Retrieved == IF Found # None /\ env.creds /\ env.age # "expired" THEN Found ELSE None
StoreAfterRetrieve == Keep([cstore EXCEPT !.t13 = IF @ = <<>> THEN @ ELSE Front(@)])

\* ClientHelloInput::new: a ticket of TLS 1.2 needs an id to recognise its acceptance by
InputSessionId(res) ==
  IF res # None /\ res.v = 12 THEN IF res.ticket # None THEN <<"sid", "c", round>> ELSE res.sid
  ELSE IF 13 \notin cc.vers THEN None
  ELSE <<"sid", "c", round>>

\* tls13::initial_key_share: the group the server liked last time, or the first one
InitialGroup == IF cc.store /\ cstore.hint # None /\ FindGroup(cc, cstore.hint, 13) THEN cstore.hint
                ELSE Head(cc.groups)

-----------------------------------------------------------------------------
(* emit_client_hello_for_retry *)

OfferedVersions(x) == IF cc.ech = "on" THEN cc.vers \ {12} ELSE cc.vers

\* prepare_resumption: whether the hello offers the TLS 1.3 session as a PSK
OffersPsk(x, suite) == /\ x.res # None /\ x.res.v = 13 /\ 13 \in cc.vers
                       /\ suite # None => SuiteHash[suite] = SuiteHash[x.res.suite]

\* and what it says about TLS 1.2 tickets
TicketExt(x) ==
  IF 12 \notin cc.vers \/ cc.t12 # "SessionIdOrTickets" \/ (x.res # None /\ x.res.v = 13) THEN None
  ELSE IF x.res = None THEN Request
  ELSE IF x.res.ticket = None THEN Request ELSE x.res.ticket.id

\* the shares: the hybrid group's component rides along unless the server asked for a group
Shares(x, retry) ==
  LET g == x.share.g IN
  <<x.share>> \o IF ~retry /\ Component(g) # None /\ FindGroup(cc, Component(g), 13)
                 THEN <<[g |-> Component(g), pub |-> x.share.pub]>> ELSE <<>>

\* tls13::emit_fake_ccs
FakeCcs(x) == IF x.fakeCcs THEN x ELSE SendCcs([x EXCEPT !.fakeCcs = TRUE])

\* EchState::encode_inner_hello: the real hello, as the inner transcript covers it
InnerHello(plain) == <<"CH", <<"inner", plain>>>>

\* grease_psk: a made-up identity, and a binder nobody checks
GreasePsk == <<"grease">>

\* ech_hello: what the world sees has the cover name
OuterHello(plain) ==
  [plain EXCEPT !.psk = IF plain.psk # None THEN GreasePsk ELSE None, !.sni = "cover"]

\* tls13::derive_early_traffic_secret
DeriveEarly(x, secret, tr) ==
  [SetEnc(FakeCcs(x), EarlyKey(secret, tr)) EXCEPT !.earlyTraffic = TRUE]

EmitClientHello(x0, retry, suite) ==
  LET x == [x0 EXCEPT !.compOff = 13 \in cc.vers /\ cc.decomp]
      psk == OffersPsk(x, suite)
      early == psk /\ cc.early /\ x.res.maxEarly > 0 /\ ~retry
      inEch == cc.ech = "on" /\ x.ech \in {"NotOffered", "Offered"}
      ech == IF inEch THEN "Offered"
             ELSE IF x.ech = "NotOffered" /\ cc.ech = "grease" THEN "Grease" ELSE x.ech
      plain == [rnd |-> x.rnd, sid |-> x.sid, vers |-> OfferedVersions(x), groups |-> cc.groups,
                shares |-> IF x.share = None THEN None ELSE Shares(x, retry),
                suites |-> cc.suites, alpn |-> cc.alpn, ticket |-> TicketExt(x),
                psk |-> IF psk THEN x.res.ticket.id ELSE None, early |-> early,
                comp |-> x.compOff, ech |-> ech # "NotOffered", sni |-> "name",
                ems |-> TRUE]
      f == IF inEch THEN OuterHello(plain)
           ELSE IF cc.ech = "on" THEN [plain EXCEPT !.sni = "cover"] ELSE plain
      innerTr == IF inEch THEN Append(x.inner, InnerHello(plain)) ELSE x.inner
      \* with ECH state the schedule is the inner hello's, and the outer binder stays as it is
      sched == IF psk /\ (cc.ech = "on" => inEch) THEN x.res.secret ELSE None
      binder == IF psk /\ cc.ech # "on" THEN Binder(x.res.secret, x.tr, f) ELSE <<"zeros">>
      \* the mutator rewrites the encoded hello after the binder was computed
      wire == IF cc.mut /\ x.share # None THEN [f EXCEPT !.sid = <<"veil", x.share.pub>>] ELSE f
      ch == Msg("CH", wire, [ticket |-> IF f.psk # None \/ f.ticket \notin {None, Request}
                                        THEN x.res.ticket ELSE None,
                             binder |-> binder])
      y == [x EXCEPT !.early = IF early THEN "Ready" ELSE @, !.ech = ech, !.inner = innerTr,
                     !.sched = sched, !.hrr = suite,
                     !.st = IF 13 \in cc.vers /\ ~retry THEN "ServerHelloOrRetry" ELSE "ServerHello"]
      z == SendHs(IF retry THEN FakeCcs(y) ELSE y, ch, FALSE)
  IN  IF sched # None /\ EarlyEnabled(z)
      THEN DeriveEarly(z, sched, IF inEch THEN innerTr ELSE z.tr) ELSE z

\* ClientConnection::new: ClientHelloInput::new and start_handshake
ClientStart ==
  /\ c.st = None
  /\ LET res == Retrieved
         id == InputSessionId(res)
         x == [c EXCEPT !.rnd = <<"cr", round>>, !.sid = id,
                        !.res = IF res # None /\ res.v = 12 THEN [res EXCEPT !.sid = id] ELSE res,
                        !.share = IF 13 \in cc.vers
                                  THEN [g |-> InitialGroup, pub |-> <<"c", round, 1>>] ELSE None]
         y == EmitClientHello(x, FALSE, None)
     IN  c' = [y EXCEPT !.out = <<>>] /\ c2s' = c2s \o y.out
  /\ cstore' = StoreAfterRetrieve
  /\ UNCHANGED <<plan, round, s, s2c, sstore, altered>>

-----------------------------------------------------------------------------
(* A client handler: it runs on the next message of the server, and its    *)
(* effect is a connection record and the session store.                    *)

cm == Head(s2c).m
cx == Taken(c, Head(s2c))

ClientReads(states, t) ==
  /\ c.st \in states /\ s2c # <<>> /\ Head(s2c).ty = "hs" /\ cm.t = t
  /\ Reading(c, Head(s2c)) \in {"clear", "opened"}

ClientDoes(x, store) ==
  /\ c' = [x EXCEPT !.out = <<>>] /\ c2s' = c2s \o x.out /\ s2c' = Tail(s2c)
  /\ cstore' = store
  /\ UNCHANGED <<plan, round, s, sstore, altered>>

\* process_alpn_protocol
AlpnRefused(alpn) == alpn # None /\ alpn \notin ToSet(cc.alpn)

\* handle_hello_retry_request
OnHelloRetryRequest ==
  /\ ClientReads({"ServerHelloOrRetry"}, "HRR")
  /\ LET h == cm.f
         offered == {x \in {cx.share.g, Component(cx.share.g)} : FindGroup(cc, x, 13)}
         bad == Refusal(<< <<h.group \in offered, "IllegalParameter">>,
                           <<h.sid # cx.sid, "IllegalParameter">>,
                           <<h.suite \notin ToSet(cc.suites), "IllegalParameter">> >>)
         x == [cx EXCEPT !.ver = 13, !.suite = h.suite, !.kind = "FullWithRetry",
                         !.ech = IF @ = "Offered" THEN "Rejected" ELSE @,
                         !.early = IF EarlyEnabled(cx) THEN "Rejected" ELSE @]
         y == AddT(Rollup(x), cm)
         z == [y EXCEPT !.inner = IF @ = <<>> THEN @
                                  ELSE <<<<"hash", SuiteHash[h.suite], @>>, <<cm.t, cm.f>>>>,
                        !.share = [g |-> h.group, pub |-> <<"c", round, 2>>]]
     IN  ClientDoes(IF bad # None THEN Fatal(cx, bad)
                    ELSE IF ~FindGroup(cc, h.group, 13) THEN Fatal(y, "IllegalParameter")
                    ELSE EmitClientHello(z, TRUE, h.suite),
                    cstore)

\* ExpectServerHello::handle up to the version's own handling, which gets the connection y
HandleServerHello(y, h) ==
  Refusal(<< <<h.ver = 12 /\ 12 \in cc.vers /\ EarlyEnabled(y) /\ y.earlyTraffic, "OldVersion">>,
             <<h.ver \notin cc.vers, "ProtocolVersion">>,
             <<h.ver = 12 /\ AlpnRefused(h.alpn), "IllegalParameter">>,
             <<h.suite \notin ToSet(cc.suites), "HandshakeFailure">>,
             <<SuiteVersion[h.suite] # h.ver, "IllegalParameter">>,
             <<y.hrr # None /\ y.hrr # h.suite, "IllegalParameter">> >>)

\* Faulty variant: the protocol of a TLS 1.2 ServerHello is not recorded
NegotiatedWithoutAlpn(y, h) == AddT([y EXCEPT !.ver = h.ver, !.suite = h.suite], cm)

\* the connection once the ServerHello is accepted: its version, suite and transcript
Negotiated(y, h) == AddT([y EXCEPT !.ver = h.ver, !.suite = h.suite,
                                   !.alpn = IF h.ver = 12 THEN h.alpn ELSE @], cm)

-----------------------------------------------------------------------------
(* The TLS 1.3 states: client/tls13.rs.                                    *)

\* KeyExchangeChoice::new: the server answered our share or the hybrid's component
ChoosesOurShare(x, g) == \/ g = x.share.g
                         \/ g = Component(x.share.g) /\ FindGroup(cc, g, 13)

\* EchState::confirm_acceptance: the server's random commits to the inner hello
EchConfirmed(x, h) == h.conf = <<"ech", x.inner>>

\* tls13::handle_server_hello
OnServerHello13 ==
  /\ ClientReads({"ServerHelloOrRetry", "ServerHello"}, "SH") /\ cm.f.ver = 13
  /\ LET h == cm.f
         early == HandleServerHello(cx, h)
         y == Negotiated(cx, h)
         psk == h.psk /\ cx.sched # None
         bad == Refusal(<< <<~ChoosesOurShare(cx, h.share.g), "IllegalParameter">>,
                  <<psk /\ SuiteHash[h.suite] # SuiteHash[cx.res.suite], "IllegalParameter">>,
                  <<psk /\ EarlyEnabled(cx) /\ cx.res.suite # h.suite, "IllegalParameter">> >>)
         r == IF psk THEN [y EXCEPT !.resumed = TRUE]
              ELSE [y EXCEPT !.early = "Rejected", !.earlyTraffic = FALSE, !.resumed = FALSE]
         hs == HsSecret(IF psk THEN cx.sched ELSE None, Dh(h.share.g, cx.share.pub, h.share.pub))
         e == IF cc.ech # "on" THEN r
              ELSE IF EchConfirmed(cx, h) THEN AddT([r EXCEPT !.ech = "Accepted", !.tr = cx.inner], cm)
              ELSE [r EXCEPT !.ech = "Rejected"]
         k == [e EXCEPT !.hs = hs, !.kx = h.share.g, !.st = "EncryptedExtensions",
                        !.hsk = [c |-> HsKey("c", hs, e.tr), s |-> HsKey("s", hs, e.tr)]]
         d == SetDec(k, k.hsk.s)
     IN  IF early # None
         THEN ClientDoes(IF early = "OldVersion" THEN Err(cx, early) ELSE Fatal(cx, early), cstore)
         ELSE IF bad # None THEN ClientDoes(Fatal(y, bad), cstore)
         ELSE ClientDoes(FakeCcs(IF EarlyEnabled(d) THEN d ELSE SetEnc(d, d.hsk.c)),
                         Keep([cstore EXCEPT !.hint = h.share.g]))

\* ExpectEncryptedExtensions::handle
OnEncryptedExtensions ==
  /\ ClientReads({"EncryptedExtensions"}, "EE")
  /\ LET e == cm.f
         x == AddT([cx EXCEPT !.alpn = e.alpn], cm)
         bad == Refusal(<< <<e.alpn # None /\ cc.alpn = <<>>, "UnsupportedExtension">>,
                           <<AlpnRefused(e.alpn), "IllegalParameter">> >>)
         \* the server took the PSK: it may still have refused the early data
         early == IF ~x.earlyTraffic THEN x
                  ELSE IF e.early THEN [x EXCEPT !.early = "Accepted"]
                  ELSE SetEnc([x EXCEPT !.early = "Rejected", !.earlyTraffic = FALSE], x.hsk.c)
     IN  ClientDoes(
           IF bad # None THEN Fatal(x, bad)
           ELSE IF x.resumed THEN [early EXCEPT !.peer = x.res.cert, !.kind = "Resumed",
                                                !.st = "Finished13"]
           ELSE IF e.early THEN Err(x, "EarlyDataWithoutResumption")
           ELSE [x EXCEPT !.kind = IF @ = None THEN "Full" ELSE @, !.st = "CertOrReq"],
           cstore)

\* ExpectCertificateOrCertReq, ExpectCertificateOrCompressedCertificate and their combination
\* dispatch on the message: with or without a request before it
CertStates == {"CertOrReq", "Cert"}

\* ExpectCertificateRequest::handle: who the client will be, and whether to compress that
OnCertificateRequest13 ==
  /\ ClientReads({"CertOrReq"}, "CR") /\ cx.ver = 13
  /\ ClientDoes([AddT(cx, cm) EXCEPT
                   !.auth = IF ~cc.cert THEN "Empty"
                            ELSE IF cm.f.comp /\ cc.comp THEN "Compressed" ELSE "Cert",
                   !.st = "Cert"], cstore)

\* ExpectCertificate::handle
OnCertificate13 ==
  /\ ClientReads(CertStates, "Cert")
  /\ ClientDoes([AddT(cx, cm) EXCEPT !.cert = cm.f.cert, !.st = "CertVerify"], cstore)

\* ExpectCompressedCertificate::handle, where compression was offered
OnCompressedCertificate13 ==
  /\ ClientReads(CertStates, "CCert")
  /\ ClientDoes(IF ~cx.compOff THEN Fatal(cx, "UnexpectedMessage")
                ELSE [AddT(cx, cm) EXCEPT !.cert = cm.f.cert, !.st = "CertVerify"], cstore)

\* ExpectCertificateVerify::handle: first the chain, then the signature over the transcript
OnCertificateVerify13 ==
  /\ ClientReads({"CertVerify"}, "CV")
  /\ LET bad == Refusal(<< <<cx.cert \notin cc.trusts, "BadCertificate">>,
                           <<cm.x # Mac(<<"sig", cx.cert>>, cx.tr), "DecryptError">> >>)
     IN  ClientDoes(IF bad # None THEN Fatal(cx, bad)
                    ELSE [AddT(cx, cm) EXCEPT !.peer = cx.cert, !.st = "Finished13"], cstore)

\* the client's part of the last flight: its certificate and the proof that it owns it
EmitClientAuth(x) ==
  IF x.auth = None THEN x
  ELSE IF x.auth = "Empty" \/ x.ech = "Rejected"
  THEN SendHs(x, Msg("Cert", [cert |-> None], None), TRUE)
  ELSE LET y == SendHs(x, Msg(IF x.auth = "Compressed" THEN "CCert" ELSE "Cert",
                              [cert |-> "cli"], None), TRUE)
       IN  SendHs(y, Msg("CV", None, Mac(<<"sig", "cli">>, y.tr)), TRUE)

\* ExpectFinished::handle
OnFinished13 ==
  /\ ClientReads({"Finished13"}, "Fin")
  /\ LET x == [AddT(cx, cm) EXCEPT !.appTr = AddT(cx, cm).tr]
         \* EndOfEarlyData still goes out under the early key
         e == IF x.earlyTraffic
              THEN SetEnc([SendHs(x, Bare("EOED"), TRUE) EXCEPT !.earlyTraffic = FALSE,
                                                                !.early = "AcceptedFinished"],
                          x.hsk.c)
              ELSE x
         a == EmitClientAuth(e)
         f == SendHs(a, Msg("Fin", None, Mac(a.hsk.c, a.tr)), TRUE)
         t == StartTraffic(SetDec(SetEnc(f, AppKey("c", f.hs, f.appTr)),
                                  AppKey("s", f.hs, f.appTr)))
     IN  IF cm.x # Mac(cx.hsk.s, cx.tr) THEN ClientDoes(Fatal(cx, "DecryptError"), cstore)
         ELSE ClientDoes(IF t.ech = "Rejected" THEN Fatal(t, "EchRequired")
                         ELSE [t EXCEPT !.st = "Traffic"],
                         Keep([cstore EXCEPT !.t12 = None]))

\* handle_new_ticket_impl: the store keeps the newest eight tickets of a server
MaxTickets == 8
OnNewTicket13 ==
  /\ ClientReads({"Traffic"}, "NST") /\ cx.ver = 13
  /\ LET v == [v |-> 13, suite |-> cx.suite, ticket |-> cm.x, cert |-> cx.peer,
               secret |-> ResumptionPsk(cx.hs, cx.tr, cm.f.nonce), maxEarly |-> cm.f.maxEarly]
         kept == IF Len(cstore.t13) = MaxTickets THEN Tail(cstore.t13) ELSE cstore.t13
     IN  ClientDoes(cx, Keep([cstore EXCEPT !.t13 = Append(kept, v)]))

-----------------------------------------------------------------------------
(* The TLS 1.2 states: client/tls12.rs.                                    *)

Randoms(x) == <<x.rnd, x.srnd>>

\* a server that knows TLS 1.3 marks its random when it answers with TLS 1.2
Sentinel(rnd) == rnd[3]

\* CompleteServerHelloHandling::handle_server_hello
OnServerHello12 ==
  /\ ClientReads({"ServerHelloOrRetry", "ServerHello"}, "SH") /\ cm.f.ver = 12
  /\ LET h == cm.f
         refused == HandleServerHello(cx, h)
         y == [Negotiated(cx, h) EXCEPT !.srnd = h.rnd, !.sesid = h.sid, !.ems = h.ems,
                                        !.mustTicket = h.ticket, !.status = h.status]
         bad == Refusal(<< <<13 \in cc.vers /\ Sentinel(h.rnd), "IllegalParameter">>,
                           <<cx.res = None /\ cx.sid # None /\ cx.sid = h.sid, "IllegalParameter">>,
                           <<cc.requireEms /\ ~h.ems, "HandshakeFailure">> >>)
         resumes == cx.res # None /\ cx.res.v = 12 /\ cx.res.sid = h.sid
         varied == resumes /\ (cx.res.suite # h.suite \/ cx.res.ems # h.ems)
         keyed == [Prepare12(y, cx.res.master, Randoms(y)) EXCEPT
                     !.peer = cx.res.cert, !.kind = "Resumed",
                     !.st = IF h.ticket THEN "NewTicket12" ELSE "Ccs12"]
     IN  ClientDoes(
           IF refused = "OldVersion" THEN Err(cx, refused)
           ELSE IF refused # None THEN Fatal(cx, refused)
           ELSE IF bad # None THEN Fatal(y, bad)
           ELSE IF varied THEN Err(y, "VariedResumption")
           ELSE IF resumes THEN keyed
           ELSE [y EXCEPT !.kind = "Full", !.st = "Cert12"], cstore)

\* ExpectCertificate: OCSP status may follow if the server acknowledged the request
OnCertificate12 ==
  /\ ClientReads({"Cert12"}, "Cert")
  /\ ClientDoes([AddT(cx, cm) EXCEPT !.cert = cm.f.cert, !.st = IF cx.status THEN "StatusOrKx12" ELSE "ServerKx12"], cstore)

\* ExpectCertificateStatusOrServerKx, ExpectCertificateStatus
OnCertificateStatus12 ==
  /\ ClientReads({"StatusOrKx12"}, "CS")
  /\ ClientDoes([AddT(cx, cm) EXCEPT !.st = "ServerKx12"], cstore)

\* ExpectServerKx: kept with its signature until ServerHelloDone
OnServerKx12 ==
  /\ ClientReads({"StatusOrKx12", "ServerKx12"}, "SKX")
  /\ ClientDoes([AddT(cx, cm) EXCEPT !.kxp = [f |-> cm.f, sig |-> cm.x], !.st = "DoneOrReq12"],
                cstore)

\* ExpectServerDoneOrCertReq, ExpectCertificateRequest
OnCertificateRequest12 ==
  /\ ClientReads({"DoneOrReq12"}, "CR")
  /\ ClientDoes([AddT(cx, cm) EXCEPT !.auth = IF cc.cert THEN "Cert" ELSE "Empty",
                                     !.st = "Done12"], cstore)

EmitCertificate12(x) ==
  SendHs(x, Msg("Cert", [cert |-> IF x.auth = "Cert" THEN "cli" ELSE None], None), FALSE)
EmitFinished12(x) == SendHs(x, Msg("Fin", None, Mac(<<"c", x.master>>, x.tr)), TRUE)

\* ExpectServerDone: verify, then the client's whole flight
OnServerDone12 ==
  /\ ClientReads({"DoneOrReq12", "Done12"}, "SHD")
  /\ LET x == AddT(cx, cm)
         p == x.kxp.f
         bad == Refusal(<< <<x.cert \notin cc.trusts, "BadCertificate">>,
                           <<x.kxp.sig # Mac(<<"sig", x.cert>>, <<Randoms(x), p>>), "DecryptError">> >>)
         v == [x EXCEPT !.peer = x.cert]
         a == IF x.auth = None THEN v ELSE EmitCertificate12(v)
         pub == <<"c12", round>>
         k == SendHs(a, Msg("CKX", pub, None), FALSE)
         master == Master(Dh(p.g, pub, p.pub), x.ems, k.tr, Randoms(x))
         w == IF x.auth = "Cert" THEN SendHs(k, Msg("CV", None, Mac(<<"sig", "cli">>, k.tr)), FALSE)
              ELSE k
         f == EmitFinished12(StartEnc(Prepare12(SendCcs(w), master, Randoms(x))))
     IN  ClientDoes(IF bad # None THEN Fatal(x, bad)
                    ELSE IF ~FindGroup(cc, p.g, 12) THEN Fatal(a, "IllegalParameter")
                    ELSE [f EXCEPT !.kx = p.g,
                                   !.st = IF x.mustTicket THEN "NewTicket12" ELSE "Ccs12"], cstore)

\* ExpectNewTicket
OnNewTicket12 ==
  /\ ClientReads({"NewTicket12"}, "NST12")
  /\ ClientDoes([AddT(cx, cm) EXCEPT !.nst = cm.x, !.st = "Ccs12"], cstore)

\* ExpectCcs: from here on the server's records are encrypted
OnServerCcs12 ==
  /\ c.st = "Ccs12" /\ s2c # <<>> /\ Head(s2c).ty = "ccs"
  /\ ClientDoes([StartDec(cx) EXCEPT !.st = "Finished12"], cstore)

\* ExpectFinished::save_session: a resumed session keeps its ticket unless it got a new one
SavedSession(x) ==
  LET ticket == IF x.nst # None THEN x.nst ELSE IF x.kind = "Resumed" THEN x.res.ticket ELSE None
  IN  IF x.sesid = None /\ ticket = None THEN cstore
      ELSE Keep([cstore EXCEPT !.t12 =
                   [v |-> 12, suite |-> x.suite, sid |-> x.sesid, ticket |-> ticket,
                    master |-> x.master, ems |-> x.ems, cert |-> x.peer]])

\* ExpectFinished: in a resumption the client's own Finished comes last
OnFinished12 ==
  /\ ClientReads({"Finished12"}, "Fin")
  /\ LET x == AddT(cx, cm)
         r == IF x.kind # "Resumed" THEN x ELSE EmitFinished12(StartEnc(SendCcs(x)))
     IN  IF cm.x # Mac(<<"s", cx.master>>, cx.tr) THEN ClientDoes(Fatal(cx, "DecryptError"), cstore)
         ELSE ClientDoes([StartTraffic(r) EXCEPT !.st = "Traffic"], SavedSession(x))
=============================================================================
