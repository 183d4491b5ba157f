----------------------------- MODULE VisionSplice -----------------------------
(***************************************************************************)
(* The server side of the Vision data plane (vision_server_splice and      *)
(* RecordTlsServer of crates/donut-server/src/vision_xray_splice.rs).  Each*)
(* direction starts inside the outer TLS, in padded blocks, and may switch *)
(* to raw bytes after a Direct block; the two switch on their own.  What   *)
(* travels is numbered units: unit n of the client is the n-th piece of    *)
(* the inner stream, whatever record or read it comes in.                  *)
(***************************************************************************)
EXTENDS Integers, Sequences

CONSTANTS
    MaxUp, MaxDown,    \* units the client and the target may send
    Ahead,             \* units of the target that wait for the server to read them
    KeyUpdates,        \* outer-TLS key updates the client may send
    FilterMax,         \* packets inspected for an inner TLS handshake (8 in the code)
    InnerTls           \* the client's first unit is a ClientHello

VARIABLES
    cmode, csent, cfin, kus,  \* the client: framing, units sent, closed, key updates left
    wire,                     \* client to server: records and raw units on the socket, each with
                              \* the number of units sent up to it
    tsent, tfin, tq,          \* the target: units sent, closed, what the server has not read
    pc,                       \* "framed", "raw" (copy_bidirectional), "ended"
    waits,                    \* the peer a write of the loop waits for: "none", "target", "client"
    inbuf,                    \* read from the socket, not yet consumed
    answer,                   \* queued_key_update_message: rustls's answer to a key update
    uspl, udone, dspl, ddone, \* uplink_spliced, uplink_done, downlink_spliced, downlink_done
    padding, uuidOnce,        \* is_padding, uuid_once
    filter,                   \* FilterState
    upOut, upFin,             \* what the target has got, and its end
    dn, dnFin                 \* what was put on the client's socket, and its end

client == <<cmode, csent, cfin, kus>>
target == <<tsent, tfin>>
uplink == <<wire, inbuf, uspl, udone, upOut, upFin>>
downlink == <<tq, dspl, ddone, padding, uuidOnce, dn, dnFin>>
spliceVars == <<client, target, uplink, downlink, pc, waits, answer, filter>>

SpliceInit ==
    /\ cmode = "pad" /\ csent = 0 /\ cfin = FALSE /\ kus = KeyUpdates
    /\ tsent = 0 /\ tfin = FALSE
    /\ wire = <<>> /\ inbuf = <<>> /\ tq = <<>>
    /\ pc = "framed" /\ waits = "none" /\ answer = FALSE
    /\ uspl = FALSE /\ udone = FALSE /\ dspl = FALSE /\ ddone = FALSE
    /\ padding = TRUE /\ uuidOnce = TRUE
    /\ filter = [left |-> FilterMax, tls |-> FALSE, xtls |-> FALSE]
    /\ upOut = <<>> /\ upFin = FALSE /\ dn = <<>> /\ dnFin = FALSE

-----------------------------------------------------------------------------
\* The client: padded blocks up to End (then plain records) or Direct (then
\* raw units).  What the peers do once the relay is over reaches nobody.
Live == pc # "ended"
Commands == {"continue", "end", "direct"}
OnWire(k, cmd, n) == [k |-> k, cmd |-> cmd, n |-> n]
NextMode(cmd) == CASE cmd = "continue" -> "pad" [] cmd = "end" -> "plain" [] cmd = "direct" -> "raw"

ClientSends ==
    /\ Live /\ ~cfin /\ csent < MaxUp
    /\ csent' = csent + 1
    /\ \/ /\ cmode = "pad"
          /\ \E cmd \in Commands :
                /\ wire' = Append(wire, OnWire("record", cmd, csent + 1))
                /\ cmode' = NextMode(cmd)
       \/ /\ cmode = "plain"
          /\ wire' = Append(wire, OnWire("record", "plain", csent + 1))
          /\ UNCHANGED cmode
       \/ /\ cmode = "raw"
          /\ wire' = Append(wire, OnWire("raw", "plain", csent + 1))
          /\ UNCHANGED cmode
    /\ UNCHANGED <<cfin, kus, target, inbuf, uspl, udone, upOut, upFin, downlink, pc, waits, answer, filter>>

ClientUpdatesKey ==
    /\ Live /\ ~cfin /\ kus > 0 /\ cmode # "raw"
    /\ kus' = kus - 1
    /\ wire' = Append(wire, OnWire("rekey", "plain", csent))
    /\ UNCHANGED <<cmode, csent, cfin, target, inbuf, uspl, udone, upOut, upFin, downlink, pc, waits, answer, filter>>

ClientCloses ==
    /\ Live /\ ~cfin /\ cfin' = TRUE
    /\ UNCHANGED <<cmode, csent, kus, target, uplink, downlink, pc, waits, answer, filter>>

\* What a read of the target brings: a TLS 1.3 or older ServerHello, complete
\* application records, or anything else.
Kinds == {"hello13", "hello12", "records", "other"}
TargetSends ==
    /\ Live /\ ~tfin /\ tsent < MaxDown /\ Len(tq) < Ahead
    /\ tsent' = tsent + 1
    /\ \E kind \in Kinds : tq' = Append(tq, [kind |-> kind, n |-> tsent + 1])
    /\ UNCHANGED <<tfin, client, uplink, dspl, ddone, padding, uuidOnce, dn, dnFin, pc, waits, answer, filter>>

TargetCloses ==
    /\ Live /\ ~tfin /\ tfin' = TRUE
    /\ UNCHANGED <<tsent, client, uplink, downlink, pc, waits, answer, filter>>

-----------------------------------------------------------------------------

\* FilterState::filter, only while packets are left to inspect.
Filtered(f, isClientHello, kind) ==
    IF f.left = 0 THEN f
    ELSE [left |-> IF kind \in {"hello13", "hello12"} THEN 0 ELSE f.left - 1,
          tls  |-> f.tls \/ isClientHello \/ kind \in {"hello13", "hello12"},
          xtls |-> f.xtls \/ kind = "hello13"]

Framed == pc = "framed" /\ waits = "none" /\ ~(uspl /\ dspl) /\ ~(udone /\ ddone)

\* TcpStream::read brings whatever part of the stream has arrived.
Fill ==
    /\ Framed /\ ~udone /\ inbuf = <<>>
    /\ \E k \in 1..Len(wire) :
          /\ inbuf' = SubSeq(wire, 1, k)
          /\ wire' = SubSeq(wire, k + 1, Len(wire))
    /\ UNCHANGED <<client, target, uspl, udone, upOut, upFin, downlink, pc, waits, answer, filter>>

Numbers(items) == [i \in 1..Len(items) |-> IF items[i].k = "rekey" THEN 0 ELSE items[i].n]

Spliced(record) == record.cmd = "direct"

\* One record at a time: unpad, inspect, pass on.  upstream.write_all may have
\* to wait, and nothing else is polled until the target takes it.
UplinkRecord ==
    /\ Framed /\ ~udone /\ ~uspl /\ inbuf # <<>>
    /\ Head(inbuf).k = "record"
    /\ upOut' = Append(upOut, Head(inbuf).n) /\ waits' = "target"
    /\ uspl' = Spliced(Head(inbuf))
    /\ filter' = Filtered(filter, InnerTls /\ Head(inbuf).n = 1, "other")
    /\ inbuf' = Tail(inbuf)
    /\ UNCHANGED <<client, target, wire, udone, upFin, downlink, pc, answer>>

\* rustls queues its answer, if one is asked for and none is queued yet.  It is
\* not yet output (wants_write), so the flush_tls that follows sends nothing.
UplinkKeyUpdate ==
    /\ Framed /\ ~udone /\ ~uspl /\ inbuf # <<>>
    /\ Head(inbuf).k = "rekey"
    /\ inbuf' = Tail(inbuf)
    /\ answer' \in {answer, TRUE}
    /\ UNCHANGED <<client, target, wire, uspl, udone, upOut, upFin, downlink, pc, waits, filter>>

\* Past the Direct block: what is left in inbuf, then the socket, as it comes.
UplinkRaw ==
    /\ Framed /\ ~udone /\ uspl /\ inbuf # <<>>
    /\ upOut' = upOut \o Numbers(inbuf) /\ waits' = "target"
    /\ inbuf' = <<>>
    /\ UNCHANGED <<client, target, wire, uspl, udone, upFin, downlink, pc, answer, filter>>

UplinkEof ==
    /\ Framed /\ ~udone /\ inbuf = <<>> /\ wire = <<>> /\ cfin
    /\ udone' = TRUE /\ upFin' = TRUE
    /\ UNCHANGED <<client, target, wire, inbuf, uspl, upOut, downlink, pc, waits, answer, filter>>

-----------------------------------------------------------------------------
Command(kind, f) ==
    IF kind = "records" /\ f.tls THEN IF f.xtls THEN "direct" ELSE "end" ELSE "continue"

Form(spliced) == IF spliced THEN "raw" ELSE "tls"

Item(form, cmd, uuid, n) == [form |-> form, cmd |-> cmd, uuid |-> uuid, n |-> n]

\* Faulty variant: the answer is written out although the downlink is raw.
AnswerAlways == IF answer THEN <<Item("tls", "rekey", FALSE, 0)>> ELSE <<>>

\* The next write through rustls sends a queued answer first (buffer_plaintext);
\* a raw write goes past rustls, and leaves the answer where it is.
Answer == IF answer /\ ~dspl THEN <<Item("tls", "rekey", FALSE, 0)>> ELSE <<>>

\* write_plaintext and write_raw wait until the client takes what is written,
\* without a deadline; nothing else is polled meanwhile.
Downlink ==
    /\ Framed /\ ~ddone /\ tq # <<>>
    /\ LET chunk == Head(tq)
           f == IF dspl THEN filter ELSE Filtered(filter, FALSE, chunk.kind)
           cmd == IF padding THEN Command(chunk.kind, f) ELSE "plain"
       IN  /\ dn' = dn \o Answer \o <<Item(Form(dspl), cmd, padding /\ uuidOnce, chunk.n)>>
           /\ filter' = f
           /\ padding' = (padding /\ cmd = "continue")
           /\ uuidOnce' = (uuidOnce /\ ~padding)
           /\ dspl' = (dspl \/ cmd = "direct")
    /\ tq' = Tail(tq) /\ answer' = (answer /\ dspl) /\ waits' = "client"
    /\ UNCHANGED <<client, target, uplink, ddone, dnFin, pc>>

DownlinkEof ==
    /\ Framed /\ ~ddone /\ tq = <<>> /\ tfin
    /\ ddone' = TRUE /\ dnFin' = TRUE
    /\ UNCHANGED <<client, target, uplink, tq, dspl, padding, uuidOnce, dn, pc, waits, answer, filter>>

\* The peer has taken all of a write.
Taken ==
    /\ Live /\ waits # "none" /\ waits' = "none"
    /\ UNCHANGED <<client, target, uplink, downlink, pc, answer, filter>>

\* The deadline is noticed only where upstream is polled: in its read, and in a
\* write to it that waits.
Deadline ==
    \/ Framed /\ ~ddone /\ tq = <<>> /\ ~tfin
    \/ waits = "target"

Idle ==
    /\ Live /\ Deadline /\ pc' = "ended"
    /\ UNCHANGED <<client, target, uplink, downlink, waits, answer, filter>>

Done ==
    /\ pc = "framed" /\ waits = "none" /\ udone /\ ddone /\ pc' = "ended"
    /\ UNCHANGED <<client, target, uplink, downlink, waits, answer, filter>>

-----------------------------------------------------------------------------
\* Faulty variant: what was read past the Direct record is not passed on.
LeftoverDropped == <<>>
Leftover == Numbers(inbuf)

\* Both directions are raw: pass on what is left, then copy both ways.
HandOver ==
    /\ pc = "framed" /\ waits = "none" /\ uspl /\ dspl /\ ~(udone /\ ddone)
    /\ pc' = "raw" /\ waits' = IF inbuf = <<>> THEN "none" ELSE "target"
    /\ upOut' = upOut \o Leftover /\ inbuf' = <<>>
    /\ UNCHANGED <<client, target, wire, uspl, udone, upFin, downlink, answer, filter>>

\* copy_bidirectional over two streams with an idle deadline each; a direction
\* that waits does not hold up the other.
RawUp ==
    /\ pc = "raw" /\ waits = "none" /\ ~udone
    /\ \/ /\ wire # <<>> /\ upOut' = upOut \o Numbers(wire) /\ wire' = <<>> /\ UNCHANGED <<udone, upFin>>
       \/ /\ wire = <<>> /\ cfin /\ udone' = TRUE /\ upFin' = TRUE /\ UNCHANGED <<wire, upOut>>
    /\ UNCHANGED <<client, target, inbuf, uspl, downlink, pc, waits, answer, filter>>

RawDown ==
    /\ pc = "raw" /\ waits = "none" /\ ~ddone
    /\ \/ /\ tq # <<>> /\ tq' = Tail(tq) /\ dn' = Append(dn, Item("raw", "plain", FALSE, Head(tq).n))
          /\ UNCHANGED <<ddone, dnFin>>
       \/ /\ tq = <<>> /\ tfin /\ ddone' = TRUE /\ dnFin' = TRUE /\ UNCHANGED <<tq, dn>>
    /\ UNCHANGED <<client, target, uplink, dspl, padding, uuidOnce, pc, waits, answer, filter>>

\* Both ends of the copy, or the deadline of a stream whose reads and writes
\* all wait: both sockets are shut down.
RawEnds ==
    /\ pc = "raw" /\ waits = "none" /\ pc' = "ended"
    /\ UNCHANGED <<client, target, uplink, downlink, waits, answer, filter>>

\* A read or a write fails.
Fails ==
    /\ Live /\ pc' = "ended"
    /\ UNCHANGED <<client, target, uplink, downlink, waits, answer, filter>>

Relay ==
    \/ Fill \/ UplinkRecord \/ UplinkKeyUpdate \/ UplinkRaw \/ UplinkEof
    \/ Downlink \/ DownlinkEof \/ Idle \/ Done
    \/ HandOver \/ RawUp \/ RawDown \/ RawEnds

SpliceNext ==
    \/ ClientSends \/ ClientUpdatesKey \/ ClientCloses
    \/ TargetSends \/ TargetCloses
    \/ Relay \/ Taken \/ Fails

SpliceSpec == SpliceInit /\ [][SpliceNext]_spliceVars

\* The relay is polled while it can go on and its timers fire; nothing is
\* assumed of the client or the target, who may fall silent at any time and
\* need not take what is written to them.
FairSpec == SpliceSpec /\ WF_spliceVars(Relay)

-----------------------------------------------------------------------------
(***************************************************************************)
(* The target gets the client's stream, in order and without a gap, across *)
(* the switch to raw and the hand-over, however reads cut the stream, and  *)
(* its end is passed on only when nothing is missing ("whatever is left in *)
(* our TCP buffer at the splice point is cleanly raw inner-TLS").  rustls  *)
(* is only ever given records of the outer TLS: no raw unit is first in    *)
(* line while the uplink is still read as records, however many units one  *)
(* read of the socket brought (ensure_one_record, feed_record).            *)
(***************************************************************************)
UplinkFaithful ==
    /\ upOut = [i \in 1..Len(upOut) |-> i]
    /\ upFin => Len(upOut) = csent
    /\ Framed /\ ~uspl /\ inbuf # <<>> => Head(inbuf).k # "raw"

(***************************************************************************)
(* The client can decode what the relay writes to it: units in order and   *)
(* complete at the end, the user id on the first block only, no block      *)
(* after End or Direct, and every item, a record of rustls's own included, *)
(* inside the outer TLS up to the Direct block and raw after it: an answer *)
(* that is still queued then never gets between the raw bytes (the         *)
(* downlink branch of vision_server_splice).                               *)
(***************************************************************************)
Units == {i \in 1..Len(dn) : dn[i].n > 0}
Earlier(i, cmds) == \E j \in 1..(i - 1) : dn[j].cmd \in cmds
DownlinkDecodable ==
    /\ dnFin => \A n \in 1..tsent : \E i \in Units : dn[i].n = n
    /\ \A i \in 1..Len(dn) : dn[i].form = "raw" <=> Earlier(i, {"direct"})
    /\ \A i \in Units :
          /\ \A j \in 1..(i - 1) : dn[j].n < dn[i].n
          /\ dn[i].n = 1 \/ \E j \in 1..(i - 1) : dn[j].n = dn[i].n - 1
          /\ dn[i].uuid <=> dn[i].n = 1
          /\ dn[i].cmd = "plain" <=> Earlier(i, {"end", "direct"})

(***************************************************************************)
(* A relay whose target keeps its side open ends once both peers are       *)
(* silent, []Reapable /\ []<>~Unread => <>Over: the deadline of upstream   *)
(* is noticed in every phase, and in a write that waits for the target.    *)
(* Unread is the exception: a write to a client that does not take it has  *)
(* no deadline, and upstream is not polled meanwhile.                      *)
(***************************************************************************)
Reapable == ~tfin
Unread == waits = "client"
Over == pc = "ended"

=============================================================================
