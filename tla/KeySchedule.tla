------------------------------ MODULE KeySchedule ------------------------------
(***************************************************************************)
(* The TLS 1.3 key schedule (donut-tls tls13/key_schedule.rs) and the keys *)
(* a QUIC transport takes from it (quic.rs), run by a client and a server  *)
(* through one handshake.  The HKDF functions are free constructors: a key *)
(* is the term that says how it was derived, so two keys are equal exactly *)
(* when they were derived in the same way from the same inputs.            *)
(*                                                                         *)
(* What the handshake decides (suite, PSK, early data) is a configuration  *)
(* chosen once; TlsClient13 and TlsServer13 have the decisions themselves. *)
(* Each end records in "made" every secret it ever put to a use.           *)
(***************************************************************************)
EXTENDS Integers, Sequences, FiniteSets, SequencesExt

CONSTANTS
  Confs,       \* what the two ends agree on in the hello messages
  MaxUpdates,  \* bound: key updates of one direction
  None         \* an absent Option

VARIABLES
  conf,      \* the chosen configuration
  c, s,      \* the two ends
  c2s, s2c   \* records, or QUIC datagrams, in flight

vars == <<conf, c, s, c2s, s2c>>

-----------------------------------------------------------------------------
(* HKDF.  A and B share a hash, X has another. *)

HashAlg == [A |-> "h1", B |-> "h1", X |-> "h2"]
H(suite) == HashAlg[suite]

Digest(h, tr) == <<"hash", h, tr>>
Extract(h, salt, ikm) == <<"extract", h, salt, ikm>>
ForOkm(suite, secret) == <<"prk", H(suite), secret>>
Hmac(suite, key, data) == <<"hmac", H(suite), key, data>>
Zeros == <<"zeros">>

\* hkdf_expand_label_inner: the expander, the label and the context (n is the kind of output)
ExpandLabel(prk, label, ctx, n) == <<"expand", prk, label, ctx, n>>
Block(prk, label, ctx) == ExpandLabel(prk, label, ctx, "block")

\* KeySchedule::new and new_with_empty_secret
New(suite, secret) == [cur |-> Extract(H(suite), None, secret), suite |-> suite]
NewEmpty(suite) == [cur |-> Extract(H(suite), None, Zeros), suite |-> suite]

\* SecretKind::to_bytes
Label == [ResumptionPskBinderKey |-> "res binder", ClientEarlyTraffic |-> "c e traffic",
          ClientHandshakeTraffic |-> "c hs traffic", ServerHandshakeTraffic |-> "s hs traffic",
          ClientApplicationTraffic |-> "c ap traffic", ServerApplicationTraffic |-> "s ap traffic",
          ExporterMaster |-> "exp master", ResumptionMaster |-> "res master",
          Derived |-> "derived", ServerEchConfirmation |-> "ech accept confirmation"]

Derive(ks, kind, hash) == Block(ks.cur, Label[kind], hash)
DeriveForEmptyHash(ks, kind) == Derive(ks, kind, Digest(H(ks.suite), <<>>))

InputSecret(ks, secret) ==
  [ks EXCEPT !.cur = Extract(H(ks.suite), DeriveForEmptyHash(ks, "Derived"), secret)]
InputEmpty(ks) == InputSecret(ks, Zeros)

\* sign_verify_data, and the key it uses
FinishedKey(suite, base) == Block(ForOkm(suite, base), "finished", <<>>)
VerifyData(suite, base, hash) == Hmac(suite, FinishedKey(suite, base), hash)

NextSecret(suite, secret) == Block(ForOkm(suite, secret), "traffic upd", <<>>)
TicketPsk(suite, rms, nonce) == Block(ForOkm(suite, rms), "resumption", <<nonce>>)

\* KeyScheduleSuite::export_keying_material; no context is the empty context
Export(suite, master, label, ctx) ==
  LET secret == Block(ForOkm(suite, master), label, Digest(H(suite), <<>>))
      bytes == IF ctx = None THEN <<>> ELSE <<ctx>>
  IN  ExpandLabel(ForOkm(suite, secret), "exporter", Digest(H(suite), bytes), "out")

\* server_ech_confirmation_secret
EchConfirmation(suite, random, hash) ==
  ExpandLabel(Extract(H(suite), None, random), Label["ServerEchConfirmation"], hash, "8")

-----------------------------------------------------------------------------
(* Keys of the record layer and of a QUIC transport. *)

\* derive_traffic_key and derive_traffic_iv, as set_encrypter, derive_decrypter and
\* expand_secret use them
RecordKey(suite, secret) ==
  [alg |-> suite, key |-> ExpandLabel(ForOkm(suite, secret), "key", <<>>, "key"),
   iv |-> ExpandLabel(ForOkm(suite, secret), "iv", <<>>, "iv")]

\* the labels of a QUIC version
QuicLabel(v) == IF v = "V2" THEN [key |-> "quicv2 key", iv |-> "quicv2 iv", hp |-> "quicv2 hp", ku |-> "quicv2 ku"]
                ELSE [key |-> "quic key", iv |-> "quic iv", hp |-> "quic hp", ku |-> "quic ku"]
\* every version has its own salt
InitialSalt(v) == <<"salt", v>>

\* DirectionalKeys::new: KeyBuilder's packet_key and header_protection_key
DirectionalKeys(suite, secret, v) ==
  LET e(part, n) == ExpandLabel(ForOkm(suite, secret), QuicLabel(v)[part], <<>>, n)
  IN  [alg |-> suite, key |-> e("key", "key"), iv |-> e("iv", "iv"), hp |-> e("hp", "key")]

\* PacketKeySet: only the packet keys follow an update, the header key stays
PacketKey(suite, secret, v, old) ==
  LET e(part, n) == ExpandLabel(ForOkm(suite, secret), QuicLabel(v)[part], <<>>, n)
  IN  [alg |-> suite, key |-> e("key", "key"), iv |-> e("iv", "iv"), hp |-> old.hp]

\* Secrets::update: both directions move on together
UpdateSecrets(q, v) ==
  LET next(secret) == Block(ForOkm(q.suite, secret), QuicLabel(v).ku, <<>>)
  IN  [q EXCEPT !.c = next(q.c), !.s = next(q.s)]

\* Secrets::local_remote
Local(q, side) == IF side = "c" THEN q.c ELSE q.s
Remote(q, side) == IF side = "c" THEN q.s ELSE q.c

\* what a key is used for: who sends with it, at which stage, after how many updates
Use(side, stage, n, part) == <<side, stage, n, part>>
Parts(side, stage, n, k) == {[use |-> Use(side, stage, n, part), term |-> k[part]] :
                               part \in DOMAIN k \ {"alg"}}

-----------------------------------------------------------------------------
(* One end: the schedule it holds, its record keys, and CommonState.quic   *)
(* with the transport's own keys by level (i, h and d for Initial,         *)
(* Handshake and 1-RTT).                                                   *)

Peer(side) == IF side = "c" THEN "s" ELSE "c"
NoKeys == [i |-> None, h |-> None, d |-> None]

\* Keys::initial
InitialKeys(side) ==
  LET prk == Extract(H("A"), InitialSalt(conf.ver), <<"dcid">>)
      label == IF side = "c" THEN "client in" ELSE "server in"
  IN  DirectionalKeys("A", Block(prk, label, <<>>), conf.ver)

End(side) ==
  [side |-> side, st |-> "start", ks |-> None, suite |-> None,
   hsC |-> None, hsS |-> None, apC |-> None, apS |-> None, exp |-> None, res |-> None,
   nC |-> 0, nS |-> 0, enc |-> None, dec |-> None, trial |-> FALSE, early |-> FALSE,
   exported |-> FALSE, out |-> <<>>, made |-> {},
   queue |-> <<>>, qearly |-> None, qhs |-> None, qap |-> None, returned |-> FALSE,
   next |-> None, gen |-> 0, lvl |-> "i", tx |-> NoKeys, rx |-> NoKeys]

Made(x, uses) == [x EXCEPT !.made = @ \cup uses]

\* set_encrypter and set_decrypter: a secret of "side" at a stage becomes the record key
SetEnc(x, secret, stage, n) ==
  LET k == RecordKey(x.suite, secret)
  IN  Made([x EXCEPT !.enc = k], Parts(x.side, stage, n, k))
SetDec(x, secret, stage, n) ==
  LET k == RecordKey(x.suite, secret)
  IN  Made([x EXCEPT !.dec = k, !.trial = FALSE], Parts(Peer(x.side), stage, n, k))
\* set_message_decrypter_with_trial_decryption
SetDecTrial(x, secret) == [SetDec(x, secret, "hs", 0) EXCEPT !.trial = TRUE]

Msg(t, x) == [t |-> t, x |-> x]
\* CommonState::send_msg: QUIC queues the bytes with their level, TCP seals a record
Send(x, m, must) ==
  IF conf.quic THEN [x EXCEPT !.queue = Append(@, [must |-> must, m |-> m])]
  ELSE [x EXCEPT !.out = Append(@, [k |-> IF must THEN x.enc ELSE None, m |-> m])]

-----------------------------------------------------------------------------
(* The stages of the schedule. *)

Psk == <<"psk">>
Dh == <<"dh">>
Partial == <<"hello without binders">>
Trans(x, tr) == Digest(H(x.suite), tr)
EarlyEnd == IF conf.quic \/ ~conf.ack THEN <<>> ELSE <<"EndOfEarlyData">>

\* resumption_psk_binder_key_and_sign_verify_data
BinderKey(ks) == DeriveForEmptyHash(ks, "ResumptionPskBinderKey")
BinderTag(ks) == VerifyData(ks.suite, BinderKey(ks), Digest(H(ks.suite), Partial))

\* KeyScheduleEarly::client_early_traffic_secret
EarlySecret(x) ==
  LET secret == Derive(x.ks, "ClientEarlyTraffic", Trans(x, <<"CH">>))
      y == IF x.side = "c" THEN SetEnc(x, secret, "early", 0) ELSE SetDec(x, secret, "early", 0)
  IN  IF conf.quic THEN [y EXCEPT !.qearly = secret] ELSE y

\* KeyScheduleHandshakeStart::into_handshake
IntoHandshake(x) ==
  LET t == Trans(x, <<"CH", "SH">>)
      cl == Derive(x.ks, "ClientHandshakeTraffic", t)
      sv == Derive(x.ks, "ServerHandshakeTraffic", t)
  IN  [x EXCEPT !.hsC = cl, !.hsS = sv,
                !.qhs = IF conf.quic THEN [c |-> cl, s |-> sv, suite |-> x.suite] ELSE None]

\* KeyScheduleBeforeFinished::new: the master secret, then the three secrets from it
BeforeFinished(x) ==
  LET ks == InputEmpty(x.ks)
      t == Trans(x, <<"CH", "SH", "SF">>)
  IN  [x EXCEPT !.ks = ks, !.apC = Derive(ks, "ClientApplicationTraffic", t),
                !.apS = Derive(ks, "ServerApplicationTraffic", t),
                !.exp = Derive(ks, "ExporterMaster", t)]

\* quic::Secrets of the application
TrafficSecrets(x) ==
  IF conf.quic THEN [x EXCEPT !.qap = [c |-> x.apC, s |-> x.apS, suite |-> x.suite]] ELSE x

\* KeyScheduleBeforeFinished::into_traffic
IntoTraffic(x) ==
  [x EXCEPT !.res = Derive(x.ks, "ResumptionMaster",
                           Trans(x, <<"CH", "SH", "SF">> \o EarlyEnd \o <<"CF">>)),
            !.st = "traffic"]

FinishedTag(x, side) ==
  IF side = "s" THEN VerifyData(x.suite, x.hsS, Trans(x, <<"CH", "SH">>))
  ELSE VerifyData(x.suite, x.hsC, Trans(x, <<"CH", "SH", "SF">> \o EarlyEnd))
FinishedUse(x, side) ==
  {[use |-> Use(side, "finished", 0, "mac"),
    term |-> FinishedKey(x.suite, IF side = "s" THEN x.hsS ELSE x.hsC)]}

\* zero_rtt_keys: on the early secret and the suite of the moment
ZeroRtt(x) == IF x.qearly = None THEN x
              ELSE Made(x, Parts("c", "0rtt", 0, DirectionalKeys(x.suite, x.qearly, conf.ver)))

Init ==
  /\ conf \in Confs
  /\ c = End("c") /\ s = End("s") /\ c2s = <<>> /\ s2c = <<>>

\* what a handler leaves on an end, and what it sent
ClientDoes(x) == c' = [x EXCEPT !.out = <<>>] /\ c2s' = c2s \o x.out
ServerDoes(x) == s' = [x EXCEPT !.out = <<>>] /\ s2c' = s2c \o x.out

Start(x) == IF conf.quic
            THEN Made([x EXCEPT !.tx.i = InitialKeys(x.side), !.rx.i = InitialKeys(Peer(x.side))],
                      Parts(x.side, "initial", 0, InitialKeys(x.side)))
            ELSE x

\* fill_in_psk_binder and derive_early_traffic_secret: the schedule starts on the session's suite
ClientHello ==
  /\ c.st = "start"
  /\ LET ks == New(conf.sess, Psk)
         x == [Start(c) EXCEPT !.st = "hello"]
         y == Made([x EXCEPT !.ks = ks, !.suite = conf.sess],
                   {[use |-> Use("c", "binder", 0, "mac"), term |-> FinishedKey(conf.sess, BinderKey(ks))]})
         z == Send(y, Msg("CH", BinderTag(ks)), FALSE)
     IN  ClientDoes(IF ~conf.psk THEN Send(x, Msg("CH", <<>>), FALSE)
                    ELSE IF ~conf.early THEN z
                    ELSE IF conf.quic THEN ZeroRtt(EarlySecret([z EXCEPT !.early = TRUE]))
                    ELSE Send(EarlySecret([z EXCEPT !.early = TRUE]), Msg("ED", <<>>), TRUE))
  /\ UNCHANGED <<conf, s, s2c>>

-----------------------------------------------------------------------------
(* Reading a record, or the next message of a datagram. *)

\* a record opens under the read key; what trial decryption cannot open is early data
Opens(x, r) == r.k = x.dec \/ (x.trial /\ r.m.t = "ED")

\* the transport has the key of the datagram's level, and it is the sender's
Readable(x, r) == IF conf.quic THEN x.rx[r.lvl] # None ELSE TRUE

Next1(x, ch, t) ==
  /\ ch # <<>> /\ Readable(x, Head(ch))
  /\ (IF conf.quic THEN Head(Head(ch).ms).t ELSE Head(ch).m.t) = t
Got(ch) == IF conf.quic THEN Head(Head(ch).ms).x ELSE Head(ch).m.x
Rest(ch) == IF conf.quic /\ Len(Head(ch).ms) > 1
            THEN <<[Head(ch) EXCEPT !.ms = Tail(@)]>> \o Tail(ch) ELSE Tail(ch)

Failed(x) == [x EXCEPT !.st = "failed"]

\* ExpectClientHello, check_binder and emit_server_hello, to the server's Finished
OnClientHello ==
  /\ s.st = "start" /\ Next1(Start(s), c2s, "CH")
  /\ LET b == Got(c2s)
         x0 == [Start(s) EXCEPT !.suite = conf.suite]
         x1 == IF conf.resumes
               THEN EarlySecret([x0 EXCEPT !.ks = New(conf.suite, Psk)])
               ELSE [x0 EXCEPT !.ks = NewEmpty(conf.suite)]
         \* Some(early) is clobbered unless early data is accepted
         x2 == IF conf.ack THEN ZeroRtt(x1) ELSE [x1 EXCEPT !.qearly = None]
         x3 == Send(IntoHandshake([x2 EXCEPT !.ks = InputSecret(@, Dh)]),
                    Msg("SH", <<conf.suite, conf.resumes>>), FALSE)
         x4 == SetEnc(x3, x3.hsS, "hs", 0)
         x5 == CASE conf.ack -> x4
                 [] conf.early /\ ~conf.ack -> SetDecTrial(x4, x4.hsC)
                 [] OTHER -> SetDec(x4, x4.hsC, "hs", 0)
         x6 == BeforeFinished(Send(Made(x5, FinishedUse(x5, "s")),
                                   Msg("SF", <<FinishedTag(x5, "s"), conf.ack>>), TRUE))
         x7 == TrafficSecrets(SetEnc(x6, x6.apS, "ap", 0))
     IN  ServerDoes(IF conf.resumes /\ b # BinderTag(New(conf.suite, Psk)) THEN Failed(x0)
                    ELSE [x7 EXCEPT !.st = IF conf.ack /\ ~conf.quic THEN "early" ELSE "finished"])
  /\ c2s' = Rest(c2s) /\ UNCHANGED <<conf, c>>

\* handle_server_hello: the early schedule goes on if the PSK was taken, with the suite chosen now
OnServerHello ==
  /\ c.st = "hello" /\ Next1(c, s2c, "SH")
  /\ LET suite == Got(s2c)[1]
         resumed == Got(s2c)[2]
         x0 == IF resumed THEN c ELSE [c EXCEPT !.ks = NewEmpty(suite), !.early = FALSE]
         x1 == [x0 EXCEPT !.ks = [InputSecret(x0.ks, Dh) EXCEPT !.suite = suite], !.suite = suite]
         x2 == IF ~conf.ech THEN x1
               ELSE Made(x1, {[use |-> Use("s", "ech", 0, "conf"),
                               term |-> EchConfirmation(suite, <<"inner">>, Trans(x1, <<"CH", "SH">>))]})
         x3 == IntoHandshake(x2)
         x4 == SetDec(x3, x3.hsS, "hs", 0)
     IN  ClientDoes([IF x4.early THEN x4 ELSE SetEnc(x4, x4.hsC, "hs", 0) EXCEPT !.st = "finished"])
  /\ s2c' = Rest(s2c) /\ UNCHANGED <<conf, s>>

\* the EncryptedExtensions and Finished of the server: ExpectFinished::handle
OnServerFinished ==
  /\ c.st = "finished" /\ Next1(c, s2c, "SF")
  /\ LET tag == Got(s2c)[1]
         ack == Got(s2c)[2]
         \* early data refused: from here on the handshake key; accepted: its end is sealed with
         \* the early key
         x1 == CASE c.early /\ ~ack -> SetEnc(c, c.hsC, "hs", 0)
                 [] c.early /\ ack /\ ~conf.quic -> SetEnc(Send(c, Msg("EOED", <<>>), TRUE), c.hsC, "hs", 0)
                 [] c.early /\ ack /\ conf.quic -> SetEnc(c, c.hsC, "hs", 0)
                 [] OTHER -> c
         x2 == Made(BeforeFinished([x1 EXCEPT !.early = FALSE]), FinishedUse(x1, "c"))
         x3 == Send(x2, Msg("CF", FinishedTag(x2, "c")), TRUE)
         x4 == SetEnc(SetDec(x3, x3.apS, "ap", 0), x3.apC, "ap", 0)
     IN  ClientDoes(IF tag # FinishedTag(c, "s") THEN Failed(c) ELSE IntoTraffic(TrafficSecrets(x4)))
  /\ s2c' = Rest(s2c) /\ UNCHANGED <<conf, s>>

\* early data, and ExpectEarlyData's end of it: update_decrypter
OnEarlyData ==
  /\ ~conf.quic /\ Next1(s, c2s, "ED") /\ s.st # "start"
  /\ c2s' = Tail(c2s) /\ UNCHANGED <<conf, c, s, s2c>>
OnEndOfEarlyData ==
  /\ s.st = "early" /\ Next1(s, c2s, "EOED")
  /\ ServerDoes([SetDec(s, s.hsC, "hs", 0) EXCEPT !.st = "finished"])
  /\ c2s' = Rest(c2s) /\ UNCHANGED <<conf, c>>

\* ExpectFinished::handle of the server: sign_client_finish, into_traffic and a ticket
OnClientFinished ==
  /\ s.st = "finished" /\ Next1(s, c2s, "CF")
  /\ LET x1 == Made(IntoTraffic(SetDec(s, s.apC, "ap", 0)), FinishedUse(s, "c"))
         x2 == Made(x1, {[use |-> Use("s", "ticket", 1, "psk"), term |-> TicketPsk(x1.suite, x1.res, 1)]})
     IN  ServerDoes(IF Got(c2s) # FinishedTag(s, "c") THEN Failed(s)
                    ELSE Send(x2, Msg("NST", <<1>>), TRUE))
  /\ c2s' = Rest(c2s) /\ UNCHANGED <<conf, c>>

\* handle_new_ticket_tls13
OnTicket ==
  /\ c.st = "traffic" /\ Next1(c, s2c, "NST")
  /\ c' = Made(c, {[use |-> Use("s", "ticket", Got(s2c)[1], "psk"),
                    term |-> TicketPsk(c.suite, c.res, Got(s2c)[1])]})
  /\ s2c' = Rest(s2c) /\ UNCHANGED <<conf, s, c2s>>

-----------------------------------------------------------------------------
(* Traffic: key updates, the kernel, exporters. *)

\* Faulty variant: the update is announced under the key it announces
UpdateEncrypterEarly(x) ==
  LET z == IF x.side = "c" THEN [x EXCEPT !.apC = NextSecret(x.suite, @), !.nC = @ + 1]
           ELSE [x EXCEPT !.apS = NextSecret(x.suite, @), !.nS = @ + 1]
  IN  Send(IF x.side = "c" THEN SetEnc(z, z.apC, "ap", z.nC) ELSE SetEnc(z, z.apS, "ap", z.nS),
           Msg("KU", <<>>), TRUE)

\* request_key_update_and_update_encrypter: announced under the old key
UpdateEncrypter(x) ==
  LET y == Send(x, Msg("KU", <<>>), TRUE)
      z == IF x.side = "c" THEN [y EXCEPT !.apC = NextSecret(x.suite, @), !.nC = @ + 1]
           ELSE [y EXCEPT !.apS = NextSecret(x.suite, @), !.nS = @ + 1]
  IN  IF x.side = "c" THEN SetEnc(z, z.apC, "ap", z.nC) ELSE SetEnc(z, z.apS, "ap", z.nS)

\* KeyScheduleTraffic::update_decrypter
UpdateDecrypter(x) ==
  LET z == IF x.side = "c" THEN [x EXCEPT !.apS = NextSecret(x.suite, @), !.nS = @ + 1]
           ELSE [x EXCEPT !.apC = NextSecret(x.suite, @), !.nC = @ + 1]
  IN  IF x.side = "c" THEN SetDec(z, z.apS, "ap", z.nS) ELSE SetDec(z, z.apC, "ap", z.nC)

ClientUpdates == /\ ~conf.quic /\ c.st = "traffic" /\ c.nC < MaxUpdates
                 /\ ClientDoes(UpdateEncrypter(c)) /\ UNCHANGED <<conf, s, s2c>>
ServerUpdates == /\ ~conf.quic /\ s.st = "traffic" /\ s.nS < MaxUpdates
                 /\ ServerDoes(UpdateEncrypter(s)) /\ UNCHANGED <<conf, c, c2s>>
ClientUpdated == /\ c.st = "traffic" /\ Next1(c, s2c, "KU")
                 /\ c' = UpdateDecrypter(c) /\ s2c' = Tail(s2c) /\ UNCHANGED <<conf, s, c2s>>
ServerUpdated == /\ s.st = "traffic" /\ Next1(s, c2s, "KU")
                 /\ s' = UpdateDecrypter(s) /\ c2s' = Tail(c2s) /\ UNCHANGED <<conf, c, s2c>>

\* extract_secrets: the kernel goes on with the keys of the current secrets
Extracted(x) ==
  IF x.side = "c" THEN SetEnc(SetDec(x, x.apS, "ap", x.nS), x.apC, "ap", x.nC)
  ELSE SetEnc(SetDec(x, x.apC, "ap", x.nC), x.apS, "ap", x.nS)

\* two labels, with no context, the empty one and another
Exports(x) == {[use |-> Use("both", "export", l, IF ctx = None THEN "" ELSE ctx),
                term |-> Export(x.suite, x.exp, l, ctx)] : l \in {"l1", "l2"}, ctx \in {None, "z"}}

\* the application exports keying material and, on TCP, takes the secrets for the kernel
ClientExports == /\ c.st = "traffic" /\ ~c.exported
                 /\ c' = [Made(IF conf.quic THEN c ELSE Extracted(c), Exports(c)) EXCEPT !.exported = TRUE]
                 /\ UNCHANGED <<conf, s, c2s, s2c>>
ServerExports == /\ s.st = "traffic" /\ ~s.exported
                 /\ s' = [Made(IF conf.quic THEN s ELSE Extracted(s), Exports(s)) EXCEPT !.exported = TRUE]
                 /\ UNCHANGED <<conf, c, c2s, s2c>>

-----------------------------------------------------------------------------
(* QUIC: the transport calls write_hs when it likes, sends what it got at  *)
(* the level it is at, and then moves up if it got keys.                   *)

\* the messages one call of write_hs takes off the queue
Written(x) ==
  LET stop == {n \in 1..Len(x.queue) : n = Len(x.queue) \/ (x.queue[n + 1].must /\ x.qhs # None)}
  IN  IF stop = {} THEN 0 ELSE CHOOSE n \in stop : \A k \in stop : n <= k

\* Keys::new of Secrets, installed by the transport at a level
Install(x, q, lvl, stage) ==
  LET tx == DirectionalKeys(q.suite, Local(q, x.side), conf.ver)
      rx == DirectionalKeys(q.suite, Remote(q, x.side), conf.ver)
  IN  Made([x EXCEPT !.tx[lvl] = tx, !.rx[lvl] = rx, !.lvl = lvl],
           Parts(x.side, stage, 0, tx) \cup Parts(Peer(x.side), stage, 0, rx))

\* Quic::write_hs
WriteHs(x) ==
  LET n == Written(x)
      ms == [k \in 1..n |-> x.queue[k].m]
      y == [x EXCEPT !.queue = SubSeq(@, n + 1, Len(@)),
                     !.out = IF n = 0 THEN <<>> ELSE <<[lvl |-> x.lvl, g |-> x.gen, k |-> x.tx[x.lvl], ms |-> ms]>>]
  IN  CASE x.qhs # None -> Install([y EXCEPT !.qhs = None], x.qhs, "h", "quic hs")
        [] x.qhs = None /\ x.qap # None /\ ~x.returned ->
             Install([y EXCEPT !.qap = None, !.returned = TRUE, !.next = UpdateSecrets(x.qap, conf.ver)],
                     x.qap, "d", "1rtt")
        [] OTHER -> y

CanWrite(x) == conf.quic /\ (x.queue # <<>> \/ x.qhs # None \/ x.qap # None)
ClientWrites == CanWrite(c) /\ ClientDoes(WriteHs(c)) /\ UNCHANGED <<conf, s, s2c>>
ServerWrites == CanWrite(s) /\ ServerDoes(WriteHs(s)) /\ UNCHANGED <<conf, c, c2s>>

\* Secrets::next_packet_keys: the transport moves to the next key phase
NextPacketKeys(x) ==
  LET tx == PacketKey(x.next.suite, Local(x.next, x.side), conf.ver, x.tx.d)
      rx == PacketKey(x.next.suite, Remote(x.next, x.side), conf.ver, x.rx.d)
      part(side, k) == {u \in Parts(side, "1rtt", x.gen + 1, k) : u.use[4] # "hp"}
  IN  Made([x EXCEPT !.tx.d = tx, !.rx.d = rx, !.gen = @ + 1, !.next = UpdateSecrets(@, conf.ver)],
           part(x.side, tx) \cup part(Peer(x.side), rx))
CanPhase(x) == x.next # None /\ x.gen < MaxUpdates
ClientPhase == CanPhase(c) /\ c' = NextPacketKeys(c) /\ UNCHANGED <<conf, s, c2s, s2c>>
ServerPhase == CanPhase(s) /\ s' = NextPacketKeys(s) /\ UNCHANGED <<conf, c, c2s, s2c>>

\* both ends are done, and nothing is in flight
Done == /\ c.st = "traffic" /\ s.st = "traffic" /\ c2s = <<>> /\ s2c = <<>>
        /\ c.exported /\ s.exported
        /\ UNCHANGED vars

Next ==
  \/ ClientHello \/ OnClientHello \/ OnServerHello \/ OnServerFinished
  \/ OnEarlyData \/ OnEndOfEarlyData \/ OnClientFinished \/ OnTicket
  \/ ClientUpdates \/ ServerUpdates \/ ClientUpdated \/ ServerUpdated
  \/ ClientExports \/ ServerExports
  \/ ClientWrites \/ ServerWrites \/ ClientPhase \/ ServerPhase \/ Done

Spec == Init /\ [][Next]_vars

-----------------------------------------------------------------------------
\* Whatever is next in flight opens under the key the receiver holds then, and no Finished or binder
\* is refused: the order in which set_encrypter and set_decrypter are called around early data, the
\* Finished messages and key updates is the same on both ends.
EverythingOpens ==
  /\ c.st # "failed" /\ s.st # "failed"
  /\ ~conf.quic => /\ c2s # <<>> => Opens(s, Head(c2s)) \/ s.st = "start"
                   /\ s2c # <<>> => Opens(c, Head(s2c))
  /\ conf.quic => /\ \A i \in DOMAIN c2s : s.rx[c2s[i].lvl] \in {None, c2s[i].k} \/ c2s[i].g # s.gen
                  /\ \A i \in DOMAIN s2c : c.rx[s2c[i].lvl] \in {None, s2c[i].k} \/ s2c[i].g # c.gen

\* The level of each handshake message in QUIC: hellos in Initial packets, the rest of the handshake
\* under the handshake keys, tickets under the 1-RTT keys.
LevelOf == [CH |-> "i", SH |-> "i", SF |-> "h", CF |-> "h", NST |-> "d"]

(* The two ends agree on every key and use none of them twice: over        *)
(* everything either end ever derived for use, the use (who sends with it, *)
(* in which stage, after how many updates, as key, IV, header key, MAC     *)
(* key, PSK or exported value) and the derived term determine each other.  *)
(* It is about the labels, contexts and order of key_schedule.rs and       *)
(* quic.rs on both sides, with the suite changed under a running schedule. *)
(* So everything in flight opens, and Quic::write_hs hands each message to *)
(* the transport at its own level, whenever the transport calls it.        *)
OneKeyPerUse ==
  /\ \A a, b \in c.made \cup s.made : (a.use = b.use) <=> (a.term = b.term)
  /\ EverythingOpens
  /\ \A ch \in {c2s, s2c} : conf.quic =>
       \A i \in DOMAIN ch : \A k \in DOMAIN ch[i].ms : LevelOf[ch[i].ms[k].t] = ch[i].lvl
=============================================================================
