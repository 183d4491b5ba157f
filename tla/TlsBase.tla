------------------------------- MODULE TlsBase -------------------------------
(***************************************************************************)
(* What the TLS state machines of donut-tls share: two connections, the    *)
(* records in flight between them, the record layer, the transcript and a  *)
(* symbolic key schedule.  A secret is the tuple of what it is derived     *)
(* from, so two keys are equal exactly when the two sides derived them     *)
(* from the same inputs.                                                    *)
(*                                                                         *)
(* A handler of the code is an expression on the connection record: it     *)
(* takes the record, threads it through the operators below (send a        *)
(* message, change a key, add to the transcript) and the action installs   *)
(* the result and appends the records it sent to the channel.              *)
(***************************************************************************)
EXTENDS Integers, Sequences, FiniteSets, SequencesExt, FiniteSetsExt, TLC

CONSTANTS
  Plans,  \* the pairs of configurations two consecutive connections may have
  None    \* no value: an absent Option

VARIABLES
  plan,    \* the chosen pair of configurations
  round,   \* which of the two connections is running
  c, s,    \* ConnectionCommon of the client and of the server
  c2s, s2c,  \* the byte streams between them, cut into records
  cstore,  \* the client's session store
  sstore,  \* the server's session store: the sessions it kept
  altered  \* whether the middlebox has rewritten a hello of this connection

vars == <<plan, round, c, s, c2s, s2c, cstore, sstore, altered>>

cc == plan[round].c  \* ClientConfig
sc == plan[round].s  \* ServerConfig
env == plan[round].e  \* what happens around the connection

-----------------------------------------------------------------------------
(* Suites and groups.  "A" and "B" share a hash, "X" has another, "E" is   *)
(* the TLS 1.2 suite; "hy" is a hybrid group with component "g1".          *)

SuiteHash == [A |-> "h1", B |-> "h1", X |-> "h2", E |-> "h1"]
SuiteVersion == [A |-> 13, B |-> 13, X |-> 13, E |-> 12]
Component(g) == IF g = "hy" THEN "g1" ELSE None
Usable(g, v) == g # "hy" \/ v = 13

\* Config::find_kx_group: a configured group usable for the version
FindGroup(conf, g, v) == g \in ToSet(conf.groups) /\ Usable(g, v)

HashOf(suite) == IF suite = None THEN None ELSE SuiteHash[suite]

\* the first member of a sequence that satisfies a set test, or None
FirstIn(q, S) == LET at == {i \in DOMAIN q : q[i] \in S}
                 IN  IF at = {} THEN None ELSE q[Min(at)]

\* the alert of the first check that fails, or None
Refusal(checks) == LET bad == {i \in DOMAIN checks : checks[i][1]}
                   IN  IF bad = {} THEN None ELSE checks[Min(bad)][2]

-----------------------------------------------------------------------------
(* The key schedule, as terms. *)

EarlyKey(psk, tr) == <<"early", psk, tr>>
HsSecret(psk, dh) == <<"hs", psk, dh>>
HsKey(side, hs, tr) == <<"hskey", side, hs, tr>>
AppKey(side, hs, tr) == <<"app", side, hs, tr>>
ResumptionPsk(hs, tr, nonce) == <<"psk", hs, tr, nonce>>
\* ConnectionSecrets of TLS 1.2: the master secret, with EMS over the handshake so far
Master(dh, ems, tr, randoms) == <<"master", dh, IF ems THEN tr ELSE randoms>>
Key12(side, master, randoms) == <<"key12", side, master, randoms>>
Mac(key, tr) == <<"mac", key, tr>>
Dh(g, a, b) == <<g, a, b>>

\* fill_in_psk_binder and check_binder: over the transcript so far and the hello without the binder
Binder(secret, tr, f) == Mac(<<"binder", secret>>, Append(tr, <<"CH", f>>))

NoKey == [k |-> None, n |-> 0, on |-> FALSE]

-----------------------------------------------------------------------------
(* Messages and records.  "f" is what the message says, "x" what is        *)
(* computed from the transcript or a secret (binder, signature, verify     *)
(* data, ticket contents): the receiver checks x, and the transcript hash  *)
(* covers f.                                                               *)

\* the empty session_ticket extension
Request == <<"request">>

Msg(t, f, x) == [t |-> t, f |-> f, x |-> x]
Bare(t) == Msg(t, None, None)

Conn == [st |-> None, err |-> None, ver |-> 0, suite |-> None, kind |-> None, alpn |-> None,
         peer |-> None, kx |-> None, tr |-> <<>>, hs |-> None, hsk |-> None, appTr |-> <<>>,
         master |-> None, ems |-> FALSE,
         enc |-> NoKey, dec |-> NoKey, trial |-> 0, kept |-> 0,
         hasDec |-> FALSE, maySend |-> FALSE, mayRecv |-> FALSE, pend |-> <<>>,
         got |-> <<>>, wrote |-> FALSE, out |-> <<>>]

AddT(x, m) == [x EXCEPT !.tr = Append(@, <<m.t, m.f>>)]

\* HandshakeHash::rollup_for_hrr and into_hrr_buffer: the first hello is replaced by its hash
Rollup(x) == [x EXCEPT !.tr = <<<<"hash", SuiteHash[x.suite], @>>>>]

\* CommonState::send_msg with must_encrypt: a record under the current key, or in the clear
SendRec(x, ty, m, must) ==
  IF must THEN [x EXCEPT !.out = Append(@, [ty |-> ty, k |-> x.enc.k, n |-> x.enc.n, m |-> m]),
                         !.enc.n = @ + 1]
  ELSE [x EXCEPT !.out = Append(@, [ty |-> ty, k |-> None, n |-> 0, m |-> m])]

SendHs(x, m, must) == SendRec(AddT(x, m), "hs", m, must)
SendCcs(x) == SendRec(x, "ccs", Bare("CCS"), FALSE)

\* set_message_encrypter / set_message_decrypter: a new key starts at sequence number 0
SetEnc(x, k) == [x EXCEPT !.enc = [k |-> k, n |-> 0, on |-> TRUE]]
SetDec(x, k) == [x EXCEPT !.dec = [k |-> k, n |-> 0, on |-> TRUE], !.trial = 0]
SetDecTrial(x, k, budget) == [SetDec(x, k) EXCEPT !.trial = budget]
\* start_encryption_tls12: both keys are prepared, and used only after the ChangeCipherSpec
Prepare12(x, master, randoms) ==
  LET key(side) == [k |-> Key12(side, master, randoms), n |-> 0, on |-> FALSE]
      peer == IF x.side = "c" THEN "s" ELSE "c"
  IN  [x EXCEPT !.master = master, !.enc = key(x.side), !.dec = key(peer)]
StartEnc(x) == [x EXCEPT !.enc.on = TRUE]
StartDec(x) == [x EXCEPT !.dec.on = TRUE]

\* an error a handler returns without an alert, and one it returns with send_fatal_alert
Err(x, why) == [x EXCEPT !.st = "Failed", !.err = why]
Fatal(x, why) == Err(SendRec(x, "alert", Msg(why, "fatal", None), x.enc.on), why)

\* Faulty variant: the encrypter is installed again when traffic starts
StartOutgoingRekeyed(x) ==
  FoldLeft(LAMBDA y, d : SendRec(y, "app", Msg("App", d, None), TRUE),
           [x EXCEPT !.maySend = TRUE, !.pend = <<>>, !.enc.n = 0], x.pend)

\* start_outgoing_traffic: what the application wrote so far leaves now
StartOutgoing(x) ==
  FoldLeft(LAMBDA y, d : SendRec(y, "app", Msg("App", d, None), TRUE),
           [x EXCEPT !.maySend = TRUE, !.pend = <<>>], x.pend)
StartTraffic(x) == StartOutgoing([x EXCEPT !.mayRecv = TRUE])

-----------------------------------------------------------------------------
(* Receiving: process_more_input takes one record off the stream and       *)
(* classifies it before the state machine sees it.                          *)

\* early data is written one unit at a time, and sealing a record adds to its length
EarlyLen == 1
SealedLen == EarlyLen + 1

\* how the record layer of x reads record r
Reading(x, r) ==
  IF r.ty = "ccs" \/ (r.ty = "alert" /\ r.k = None /\ x.ver = 13 /\ ~x.hasDec) THEN "clear"
  ELSE IF ~x.dec.on THEN IF r.k = None THEN "clear" ELSE "opaque"
  ELSE IF r.k = x.dec.k /\ r.n = x.dec.n THEN "opened"
  ELSE IF x.trial >= SealedLen THEN "skipped" ELSE "bad"

\* x after it took the record: the read sequence number, and the end of trial decryption; a
\* skipped record stays in the buffer until one that opens lets go of both
Taken(x, r) ==
  CASE Reading(x, r) = "opened" -> [x EXCEPT !.dec.n = @ + 1, !.hasDec = TRUE,
                                             !.trial = IF r.ty = "hs" THEN 0 ELSE @,
                                             !.kept = 0]
    [] Reading(x, r) = "skipped" -> [x EXCEPT !.trial = @ - SealedLen, !.kept = @ + SealedLen]
    [] OTHER -> x

Live(x) == x.st \notin {None, "Failed", "Forwarded"}
=============================================================================
