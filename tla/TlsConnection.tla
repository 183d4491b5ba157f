---------------------------- MODULE TlsConnection ----------------------------
(***************************************************************************)
(* Two connections of donut-tls once their handshake has given them keys:  *)
(* conn.rs, common_state.rs, record_layer.rs, stream.rs and the unbuffered *)
(* and kernel interfaces under conn/.  Each end buffers plaintext, cuts it *)
(* into records, seals them under a key and a sequence number, changes     *)
(* keys, answers key updates, and closes.  The server uses the buffered    *)
(* interface through Stream; the client uses it too, or the unbuffered     *)
(* one, whose caller owns the buffers.                                     *)
(*                                                                         *)
(* A byte of application data is its number; a byte of a handshake message *)
(* is a record naming the message, its position and the message's length.  *)
(* Every record has one byte of overhead.  A record of which only a part   *)
(* was written or read waits where it is: DeframerIter yields nothing for  *)
(* it and ChunkVecBuffer keeps the rest.                                   *)
(***************************************************************************)
EXTENDS Integers, Sequences, SequencesExt, FiniteSetsExt

CONSTANTS
  Plans,       \* the version, the client's interface, the fragment size, set_buffer_limit, who is
               \* late, whether the kernel takes over, and what the applications and TCP do: how
               \* many bytes are written and how many at once, who asks for new keys, who leaves
  WriteMax,    \* write_seq_max: the confidentiality limit of the suite
  SoftLimit,   \* SEQ_SOFT_LIMIT
  HardLimit,   \* SEQ_HARD_LIMIT
  TicketLen,   \* the length of a NewSessionTicket
  KeyUpdates,  \* INITIAL_KEY_UPDATE_REQUESTS
  None

VARIABLES
  plan,    \* the chosen plan
  conn,    \* ConnectionCommon of each end
  wire,    \* the records on their way from each end
  down,    \* whether an end's TCP stream has ended
  app      \* each application: what it wrote, read, asked for and was told

vars == <<plan, conn, wire, down, app>>

Ends == {"c", "s"}
Peer(e) == IF e = "c" THEN "s" ELSE "c"
Unbuffered(e) == e = "c" /\ plan.unbuffered

Conn(e) == [side |-> e, st |-> "traffic", err |-> None, maySend |-> e \notin plan.late,
            pend |-> <<>>, out |-> <<>>, recv |-> <<>>, hs |-> <<>>,
            enc |-> [k |-> 0, n |-> 0], dec |-> [k |-> 0, n |-> 0], queued |-> None,
            refresh |-> FALSE, alerted |-> FALSE, sentClose |-> FALSE, gotClose |-> FALSE,
            eof |-> FALSE, updates |-> KeyUpdates, held |-> <<>>, kernel |-> FALSE]

Init ==
  /\ plan \in Plans
  /\ conn = [e \in Ends |-> Conn(e)]
  /\ wire = [e \in Ends |-> <<>>] /\ down = [e \in Ends |-> FALSE]
  /\ app = [e \in Ends |-> [wrote |-> 0, read |-> <<>>, end |-> None, closed |-> None,
                            refreshed |-> FALSE]]

-----------------------------------------------------------------------------
(* RecordLayer and the sending half of CommonState, on a connection x. *)

RecordLen(r) == Len(r.p) + 1
BytesOf(records) == FoldLeft(LAMBDA n, r : n + RecordLen(r), 0, records)

\* MessageFragmenter
Fragments(p) == [i \in 1..((Len(p) + plan.frag - 1) \div plan.frag) |->
                   SubSeq(p, (i - 1) * plan.frag + 1, IF i * plan.frag < Len(p) THEN i * plan.frag
                                                      ELSE Len(p))]

\* encrypt_outgoing
Sealed(x, ty, p) == [ty |-> ty, k |-> x.enc.k, n |-> x.enc.n, p |-> p]
Counted(x) == [x EXCEPT !.enc.n = @ + 1]

\* prepare_message_encrypter, prepare_message_decrypter: the next key, from its first number
NextEnc(x) == [x EXCEPT !.enc = [k |-> @.k + 1, n |-> 0]]
NextDec(x) == [x EXCEPT !.dec = [k |-> @.k + 1, n |-> 0]]

\* perhaps_write_key_update: the answer to a key update goes before anything sealed later
PerhapsWriteKeyUpdate(x) ==
  IF x.queued = None THEN x ELSE [x EXCEPT !.out = Append(@, x.queued), !.queued = None]

\* queue_tls_message
Queue(x, r) == LET y == PerhapsWriteKeyUpdate(x) IN [y EXCEPT !.out = Append(@, r)]

\* pre_encrypt_action
PreEncrypt(x, add) == IF x.enc.n + add = WriteMax THEN "RefreshOrClose"
                      ELSE IF x.enc.n + add >= HardLimit THEN "Refuse" ELSE "Nothing"

\* alerts are always sendable
SendAlert(x, desc) == Queue(Counted(x), Sealed(x, "alert", <<desc>>))

\* send_fatal_alert and send_close_notify
SendFatalAlert(x, why) == [SendAlert(x, why) EXCEPT !.alerted = TRUE]
SendCloseNotify(x) ==
  IF x.alerted THEN x
  ELSE [SendAlert(x, "CloseNotify") EXCEPT !.alerted = TRUE, !.sentClose = TRUE]

\* send_single_fragment: a used-up key is changed soon under TLS 1.3, and closes TLS 1.2
SendSingleFragment(x, ty, p) ==
  CASE PreEncrypt(x, 0) = "Refuse" -> x
    [] PreEncrypt(x, 0) = "RefreshOrClose" /\ plan.ver = 12 -> SendCloseNotify(x)
    [] OTHER -> [Queue(Counted(x), Sealed(x, ty, p)) EXCEPT
                   !.refresh = @ \/ PreEncrypt(x, 0) = "RefreshOrClose"]

\* send_msg_encrypt, send_appdata_encrypt
SendFragments(x, ty, p) ==
  FoldLeft(LAMBDA y, f : SendSingleFragment(y, ty, f), x, Fragments(p))

\* ChunkVecBuffer::apply_limit, on bytes that are already waiting
Room(len, used) == Min({len, Max({0, plan.limit - used})})

\* handshake messages
Message(m, n) == [i \in 1..n |-> [m |-> m, i |-> i, n |-> n]]
Aligned(x) == x.hs = <<>>

\* request_key_update_and_update_encrypter, through refresh_traffic_keys; TLS 1.2 has none
RequestKeyUpdate(x) ==
  IF plan.ver = 12 \/ x.st = "failed" THEN x
  ELSE IF ~Aligned(x) THEN SendFatalAlert(x, "PendingFragment")
  ELSE NextEnc(SendFragments(x, "hs", Message("KeyUpdateRequest", 1)))

\* maybe_refresh_traffic_keys
MaybeRefresh(x) == IF x.refresh THEN RequestKeyUpdate([x EXCEPT !.refresh = FALSE]) ELSE x

-----------------------------------------------------------------------------
(* The receiving half: deframe, process_msg and ExpectTraffic on one       *)
(* record after another.                                                   *)

Fail(x, why) == [x EXCEPT !.st = "failed", !.err = why]

\* process_alert
ProcessAlert(x, desc) ==
  IF desc = "CloseNotify" THEN [x EXCEPT !.gotClose = TRUE] ELSE Fail(x, "AlertReceived")

\* take_received_plaintext
TakePlaintext(x, p) == [x EXCEPT !.recv = @ \o p, !.updates = KeyUpdates]

\* Faulty variant: the key changes, and the answer that says so is never sent
HandleKeyUpdateUnanswered(x, requested) ==
  IF plan.ver = 12 \/ ~Aligned(x) THEN Fail(SendFatalAlert(x, "UnexpectedMessage"), "Refused")
  ELSE IF x.updates = 0 THEN Fail(x, "TooManyKeyUpdates")
  ELSE LET y == [x EXCEPT !.updates = @ - 1]
       IN  NextDec(IF requested /\ y.queued = None THEN NextEnc(y) ELSE y)

\* handle_key_update: the answer is sealed under the old key and waits for the next write
HandleKeyUpdate(x, requested) ==
  IF plan.ver = 12 \/ ~Aligned(x) THEN Fail(SendFatalAlert(x, "UnexpectedMessage"), "Refused")
  ELSE IF x.updates = 0 THEN Fail(x, "TooManyKeyUpdates")
  ELSE LET y == [x EXCEPT !.updates = @ - 1]
           note == Sealed(y, "hs", Message("KeyUpdate", 1))
       IN  NextDec(IF requested /\ y.queued = None
                   THEN NextEnc([Counted(y) EXCEPT !.queued = note]) ELSE y)

\* ExpectTraffic::handle; a ticket is for the client
HandleMessage(x, m) ==
  CASE m = "KeyUpdateRequest" -> HandleKeyUpdate(x, TRUE)
    [] m = "KeyUpdate" -> HandleKeyUpdate(x, FALSE)
    [] m = "Ticket" /\ x.side = "c" -> x
    [] OTHER -> Fail(SendFatalAlert(x, "UnexpectedMessage"), "Refused")

\* HandshakeDeframer: joins fragments; here a record never holds more than one message
TakeHandshake(x, p) ==
  LET all == x.hs \o p IN
  IF Len(all) < Head(all).n THEN [x EXCEPT !.hs = all]
  ELSE HandleMessage([x EXCEPT !.hs = SubSeq(all, Head(all).n + 1, Len(all))], Head(all).m)

\* process_more_input, decrypt_incoming and process_msg
ProcessRecord(x, r) ==
  LET limit == IF x.dec.n = SoftLimit THEN SendCloseNotify(x) ELSE x
      y == [limit EXCEPT !.dec.n = @ + 1]
  IN  IF r.k # x.dec.k \/ r.n # x.dec.n THEN Fail(SendFatalAlert(x, "BadRecordMac"), "BadRecordMac")
      ELSE IF ~Aligned(x) /\ r.ty # "hs" THEN Fail(y, "Interleaved")
      ELSE CASE r.ty = "app" -> TakePlaintext(y, r.p)
             [] r.ty = "alert" -> ProcessAlert(y, r.p[1])
             [] r.ty = "hs" -> TakeHandshake(y, r.p)

\* process_new_packets: to the first error, or to a close_notify, behind which all is dropped
ProcessNewPackets(x, records) ==
  FoldLeft(LAMBDA y, r : IF y.st = "failed" \/ y.gotClose THEN y ELSE ProcessRecord(y, r),
           x, records)

WantsWrite(x) == x.out # <<>>

\* Faulty variant: an end that closed its own direction stops reading the other
WantsReadUntilClosed(x) ==
  x.recv = <<>> /\ ~x.gotClose /\ ~x.sentClose /\ (x.maySend \/ x.out = <<>>)

WantsRead(x) == x.recv = <<>> /\ ~x.gotClose /\ (x.maySend \/ x.out = <<>>)

-----------------------------------------------------------------------------
(* The buffered interface, as Stream drives it: each call is cut where it  *)
(* touches the socket.                                                     *)

Set(e, x) == conn' = [conn EXCEPT ![e] = x]
Put(e, records) == wire' = [wire EXCEPT ![e] = @ \o records]
Note(e, a) == app' = [app EXCEPT ![e] = a]
Bytes(e, len) == [i \in 1..len |-> app[e].wrote + i]
Wanted(e) == Min({plan.chunk, plan.total[e] - app[e].wrote})
MayWrite(e) == app[e].closed = None /\ ~down[e]

\* buffer_plaintext: before the traffic keys are there it is kept, up to the limit
Accepted(x, len) == IF x.maySend THEN Room(len, BytesOf(x.out)) ELSE Room(len, Len(x.pend))

\* Stream::write: complete_prior_io, then the writer; a queued answer goes out ahead of the data
\* even where it leaves the data no room
StreamWrite(e) ==
  LET x == PerhapsWriteKeyUpdate(conn[e])
      p == Bytes(e, Accepted(x, Wanted(e)))
  IN  /\ ~Unbuffered(e) /\ MayWrite(e) /\ (conn[e].maySend => ~WantsWrite(conn[e]))
      /\ Wanted(e) > 0 /\ (p = <<>> => x # conn[e])
      /\ Set(e, IF x.maySend THEN MaybeRefresh(SendFragments(x, "app", p))
                ELSE MaybeRefresh([x EXCEPT !.pend = @ \o p]))
      /\ Note(e, [app[e] EXCEPT !.wrote = @ + Len(p)])
      /\ UNCHANGED <<plan, wire, down>>

\* complete_io with something to write: it leaves, a record at a time
CompleteIoWrites(e) ==
  LET x == conn[e] IN
  /\ ~Unbuffered(e) /\ WantsWrite(x) /\ ~down[e]
  /\ Put(e, <<Head(x.out)>>) /\ Set(e, [x EXCEPT !.out = Tail(@)])
  /\ UNCHANGED <<plan, down, app>>

\* and with nothing to write: what arrived, a record or all of it, is processed; an error's
\* alert is still written
CompleteIoReads(e) ==
  LET x == conn[e] IN
  /\ ~Unbuffered(e) /\ WantsRead(x) /\ x.st # "failed" /\ wire[Peer(e)] # <<>>
  /\ \E k \in {1, Len(wire[Peer(e)])} :
       LET y == ProcessNewPackets(x, SubSeq(wire[Peer(e)], 1, k))
           sent == IF y.st = "failed" /\ ~down[e] THEN y.out ELSE <<>>
       IN  /\ Set(e, IF y.st = "failed" THEN [y EXCEPT !.out = <<>>] ELSE y)
           /\ wire' = [wire EXCEPT ![Peer(e)] = SubSeq(@, k + 1, Len(@)), ![e] = @ \o sent]
  /\ UNCHANGED <<plan, down, app>>

\* read_tls at the end of the stream
ReadTlsEof(e) ==
  /\ wire[Peer(e)] = <<>> /\ down[Peer(e)] /\ ~conn[e].gotClose /\ ~conn[e].eof
  /\ Unbuffered(e) \/ WantsRead(conn[e])
  /\ Set(e, [conn[e] EXCEPT !.eof = TRUE]) /\ UNCHANGED <<plan, wire, down, app>>

\* Reader::check_no_bytes_state
CheckNoBytes(x) == IF x.gotClose THEN "clean" ELSE IF x.eof THEN "unexpected" ELSE None

\* Reader::read: what is there, or how the stream ended
StreamRead(e) ==
  LET x == conn[e] IN
  /\ ~x.kernel
  /\ \/ /\ x.recv # <<>> /\ Set(e, [x EXCEPT !.recv = <<>>])
        /\ Note(e, [app[e] EXCEPT !.read = @ \o x.recv])
     \/ /\ x.recv = <<>> /\ CheckNoBytes(x) # None /\ app[e].end = None
        /\ Note(e, [app[e] EXCEPT !.end = CheckNoBytes(x)]) /\ UNCHANGED conn
  /\ UNCHANGED <<plan, wire, down>>

\* send_close_notify, by the application
Close(e) ==
  /\ MayWrite(e) /\ ~conn[e].kernel
  /\ conn[e].maySend
  /\ Set(e, SendCloseNotify(conn[e]))
  /\ Note(e, [app[e] EXCEPT !.closed = [at |-> app[e].wrote, first |-> ~conn[e].alerted]])
  /\ UNCHANGED <<plan, wire, down>>

\* ConnectionCommon::refresh_traffic_keys
RefreshTrafficKeys(e) ==
  /\ MayWrite(e) /\ ~conn[e].kernel /\ conn[e].maySend /\ e \in plan.refresh /\ ~app[e].refreshed
  /\ Set(e, RequestKeyUpdate(conn[e]))
  /\ Note(e, [app[e] EXCEPT !.refreshed = TRUE])
  /\ UNCHANGED <<plan, wire, down>>

\* start_traffic: the server sends its ticket first, then what the application wrote so far
StartTraffic(e) ==
  LET x == conn[e]
      y == IF e = "s" /\ plan.ver = 13 THEN SendFragments(x, "hs", Message("Ticket", TicketLen)) ELSE x
      z == [y EXCEPT !.maySend = TRUE, !.pend = <<>>]
  IN  /\ ~x.maySend /\ ~down[e]
      /\ Set(e, IF x.pend = <<>> THEN z ELSE SendFragments(z, "app", x.pend))
      /\ UNCHANGED <<plan, wire, down, app>>

-----------------------------------------------------------------------------
(* The unbuffered interface: process_tls_records takes one step and says   *)
(* what to do next.  "held" is the caller's buffer of bytes to transmit.   *)

\* ReadTraffic comes first, then EncodeTlsData, and only then is input looked at
Idle(x) == x.recv = <<>> /\ x.out = <<>>

ProcessTlsRecords(e) ==
  LET x == conn[e] IN
  /\ Unbuffered(e) /\ ~x.kernel /\ Idle(x) /\ ~x.gotClose /\ x.st # "failed" /\ wire[Peer(e)] # <<>>
  /\ Set(e, ProcessRecord(x, Head(wire[Peer(e)])))
  /\ wire' = [wire EXCEPT ![Peer(e)] = Tail(@)]
  /\ UNCHANGED <<plan, down, app>>

\* EncodeTlsData::encode
EncodeTlsData(e) ==
  LET x == conn[e] IN
  /\ Unbuffered(e) /\ ~x.kernel /\ x.recv = <<>> /\ x.out # <<>>
  /\ Set(e, [x EXCEPT !.out = Tail(@), !.held = Append(@, Head(x.out))])
  /\ UNCHANGED <<plan, wire, down, app>>

\* TransmitTlsData: the caller sends what it holds
TransmitTlsData(e) ==
  /\ Unbuffered(e) /\ conn[e].held # <<>> /\ ~down[e]
  /\ Put(e, conn[e].held) /\ Set(e, [conn[e] EXCEPT !.held = <<>>])
  /\ UNCHANGED <<plan, down, app>>

\* the checks write_plaintext makes of every fragment before it seals any
Exhausted(x, fragments) ==
  \E i \in DOMAIN fragments :
    \/ PreEncrypt(x, i - 1) = "Refuse"
    \/ PreEncrypt(x, i - 1) = "RefreshOrClose" /\ plan.ver = 12
NeedsRefresh(x, fragments) ==
  \E i \in DOMAIN fragments : PreEncrypt(x, i - 1) = "RefreshOrClose"

\* write_fragments, straight into the caller's buffer
WriteFragments(x, fragments) ==
  [i \in DOMAIN fragments |->
     [ty |-> "app", k |-> x.enc.k, n |-> x.enc.n + i - 1, p |-> fragments[i]]]

\* WriteTraffic::encrypt: it all fits the caller's buffer, or nothing is sealed
EncryptTraffic(e) ==
  \E fits \in BOOLEAN :
    LET x == MaybeRefresh(conn[e])
        p == Bytes(e, Wanted(e))
        f == Fragments(p)
        y == PerhapsWriteKeyUpdate([x EXCEPT !.refresh = @ \/ NeedsRefresh(x, f)])
    IN  /\ Unbuffered(e) /\ ~conn[e].kernel /\ MayWrite(e) /\ Idle(conn[e]) /\ conn[e].maySend
        /\ p # <<>>
        /\ IF Exhausted(x, f)
           THEN /\ Set(e, IF plan.ver = 12 THEN SendCloseNotify(x) ELSE x)
                /\ Note(e, [app[e] EXCEPT !.closed = [at |-> app[e].wrote, first |-> FALSE]])
           ELSE IF ~fits THEN Set(e, y) /\ y # conn[e] /\ UNCHANGED app
           ELSE /\ Set(e, [y EXCEPT !.held = @ \o y.out \o WriteFragments(y, f), !.out = <<>>,
                                    !.enc.n = @ + Len(f)])
                /\ Note(e, [app[e] EXCEPT !.wrote = @ + Len(p)])
        /\ UNCHANGED <<plan, wire, down>>

\* dangerous_into_kernel_connection: sequence numbers and secrets go to the kernel, whose
\* first record is this one
IntoKernel(e) ==
  LET x == conn[e] IN
  /\ Unbuffered(e) /\ plan.kernel /\ ~x.kernel /\ x.maySend /\ x.out = <<>> /\ x.st # "failed"
  /\ x.held = <<>> /\ x.recv = <<>> /\ MayWrite(e) /\ Wanted(e) > 0
  /\ Set(e, [Counted(x) EXCEPT !.kernel = TRUE])
  /\ Put(e, <<Sealed(x, "app", Bytes(e, 1))>>)
  /\ Note(e, [app[e] EXCEPT !.wrote = @ + 1, !.closed = [at |-> app[e].wrote + 1, first |-> FALSE]])
  /\ UNCHANGED <<plan, down>>

-----------------------------------------------------------------------------
(* TCP: an end goes away, with any of what it sent lost. *)

TcpEnds(e) ==
  /\ e \in plan.cut /\ ~down[e] /\ down' = [down EXCEPT ![e] = TRUE]
  /\ \E k \in 0..Len(wire[e]) : wire' = [wire EXCEPT ![e] = SubSeq(@, 1, k)]
  /\ UNCHANGED <<plan, conn, app>>

Moves(e) == \/ CompleteIoWrites(e) \/ CompleteIoReads(e) \/ ReadTlsEof(e) \/ StreamRead(e)
            \/ StartTraffic(e) \/ ProcessTlsRecords(e) \/ EncodeTlsData(e) \/ TransmitTlsData(e)

Next == \E e \in Ends : \/ Moves(e) \/ StreamWrite(e) \/ EncryptTraffic(e) \/ Close(e)
                        \/ RefreshTrafficKeys(e) \/ IntoKernel(e) \/ TcpEnds(e)

\* both callers keep driving their connections and read what arrives; nobody has to write
Spec == Init /\ [][Next]_vars /\ \A e \in Ends : WF_vars(Moves(e))

-----------------------------------------------------------------------------
(* Properties *)

\* However key updates from both sides cross, whichever interface seals, and whenever the
\* answers leave, every record finds the receiver at its key and number, and no end ever finds
\* fault with the other; except that an end that changes its keys in the middle of the peer's
\* fragmented message sends an alert, and a connection given to the kernel with an answer
\* still queued loses it.
NoFaultFound ==
  \A e \in Ends :
    conn[e].err # None =>
      \/ conn[e].err = "AlertReceived" /\ conn[Peer(e)].alerted /\ conn[Peer(e)].st # "failed"
      \/ conn[Peer(e)].kernel /\ conn[Peer(e)].queued # None
      \/ conn[Peer(e)].err # None

\* What was read is a prefix of what was written, and an application that is told of a clean end
\* has everything the other wrote before it closed, if it was the other application that closed,
\* and not its connection.
ReadInOrder ==
  \A e \in Ends :
    LET other == app[Peer(e)].closed IN
    /\ IsPrefix(app[e].read, [i \in 1..app[Peer(e)].wrote |-> i])
    /\ app[e].end = "clean" /\ other # None => (other.first => Len(app[e].read) = other.at)

\* Two connected ends understand each other: no end finds fault with the other, the data is exact
\* up to its end, and under TLS 1.3 keys never wear out, no key sealing more records than its limit
\* and one write's worth as long as no alert says the connection is over (CommonState::
\* send_appdata_encrypt, perhaps_write_key_update, process_key_update).
PeersUnderstand ==
  /\ NoFaultFound /\ ReadInOrder
  /\ plan.ver = 13 => \A e \in Ends : ~conn[e].alerted => conn[e].enc.n <= WriteMax + plan.chunk

\* Whatever was written is read in the end, the data written before the traffic keys existed
\* and the data written to an application that has already closed its own direction included,
\* unless TCP ends, a connection fails, closes itself or goes to the kernel.
WrittenIsRead ==
  <>[]((\A e \in Ends : /\ ~down[e] /\ conn[e].st # "failed" /\ ~conn[e].kernel
                        /\ conn[e].alerted => app[e].closed # None /\ app[e].closed.first)
       => \A e \in Ends : Len(app[Peer(e)].read) = app[e].wrote)
=============================================================================
