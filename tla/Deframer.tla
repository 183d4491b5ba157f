------------------------------- MODULE Deframer -------------------------------
(***************************************************************************)
(* How donut-tls finds records in the bytes it has read and handshake      *)
(* messages in the records: msgs/deframer/ and the loop of conn.rs that    *)
(* drives it.  Everything happens in one buffer: records are decrypted in  *)
(* place, the fragments of a handshake message are moved together in       *)
(* place, and nothing is removed from the front while a message still lies *)
(* behind it.  Positions are offsets into that buffer.                     *)
(*                                                                         *)
(* A byte is a tuple that says what it is: the header of a record with its *)
(* type, length and number (one byte here), byte i of handshake message m  *)
(* whose body has a given size, a byte of another record, or a byte of     *)
(* encryption overhead.                                                    *)
(***************************************************************************)
EXTENDS Integers, Sequences, SequencesExt, FiniteSetsExt

CONSTANTS
  Scripts,    \* what the peer sends, as [feed, expect, early]
  HsHeader,   \* HANDSHAKE_HEADER_LEN
  MaxHs,      \* MAX_HANDSHAKE_SIZE of a message
  JoinMax,    \* the most that is buffered while a handshake message is joined
  WireMax,    \* the most that is buffered otherwise
  ReadSize,   \* READ_SIZE
  MaxEmpty,   \* ALLOWED_CONSECUTIVE_EMPTY_FRAGMENTS_MAX
  Budget,     \* the trial decryption allowance once early data is refused
  None

VARIABLES
  script,  \* the chosen script
  feed,    \* the bytes that have not been read yet
  d,       \* the buffer, the deframers and the progress of the current call
  out      \* the messages the connection has processed

vars == <<script, feed, d, out>>

NoTrial == -1

Init ==
  /\ script \in Scripts
  /\ feed = script.feed /\ out = <<>>
  /\ d = [pc |-> "idle", err |-> None, buf |-> <<>>, cap |-> 0, spans |-> <<>>, outer |-> 0, seq |-> 0,
          trial |-> IF script.early > 0 THEN Budget ELSE NoTrial, empties |-> 0,
          processed |-> 0, discard |-> 0, consumed |-> 0, closed |-> FALSE]

Used(x) == Len(x.buf)
Slice(x, lo, hi) == SubSeq(x.buf, lo + 1, hi)

-----------------------------------------------------------------------------
(* HandshakeDeframer *)

SpanLen(sp) == sp.hi - sp.lo
IsComplete(sp) == sp.size # None /\ sp.size + HsHeader = SpanLen(sp)
IsAligned(x) == \A i \in DOMAIN x.spans : IsComplete(x.spans[i])
HasMessageReady(x) == x.spans # <<>> /\ IsComplete(Head(x.spans))

\* DissectHandshakeIter: the messages that begin in buf[lo..hi), the last one perhaps cut off
RECURSIVE Dissect(_, _, _)
Dissect(buf, lo, hi) ==
  IF lo = hi THEN <<>>
  ELSE IF hi - lo < HsHeader THEN <<[size |-> None, lo |-> lo, hi |-> hi]>>
  ELSE LET size == buf[lo + 1][4]
           end == lo + HsHeader + IF size < hi - lo - HsHeader THEN size ELSE hi - lo - HsHeader
       IN  <<[size |-> size, lo |-> lo, hi |-> end]>> \o Dissect(buf, end, hi)

\* input_message: behind an unfinished message a fragment is not looked into
InputMessage(x, lo, hi) ==
  [x EXCEPT !.outer = x.processed,
            !.spans = IF @ # <<>> /\ ~IsComplete(Last(@))
                      THEN Append(@, [size |-> None, lo |-> lo, hi |-> hi])
                      ELSE @ \o Dissect(x.buf, lo, hi)]

\* Faulty variant: the fragments stay where they are
CopyWithinNot(buf, lo, hi, to) == buf

\* Coalescer::copy_within: buf[lo..hi) to the place that begins at to
CopyWithin(buf, lo, hi, to) ==
  SubSeq(buf, 1, to) \o SubSeq(buf, lo + 1, hi) \o SubSeq(buf, to + hi - lo + 1, Len(buf))

\* coalesce_one: span i + 1 is moved down to the end of span i, and both are parsed again
CoalesceOne(x, i) ==
  LET a == x.spans[i]
      b == x.spans[i + 1]
      moved == CopyWithin(x.buf, b.lo, b.hi, a.hi)
  IN  [x EXCEPT !.buf = moved,
                !.spans = SubSeq(@, 1, i - 1) \o Dissect(moved, a.lo, a.hi + SpanLen(b))
                              \o SubSeq(@, i + 2, Len(@))]

\* coalesce: an unfinished span that has a successor; there is at most one, the last but one,
\* so that the loop of the code ends after one round (TypeOK)
RequiresCoalesce(x) == {i \in 1 .. Len(x.spans) - 1 : ~IsComplete(x.spans[i])}
Coalesce(x) ==
  IF RequiresCoalesce(x) = {} THEN x ELSE CoalesceOne(x, Min(RequiresCoalesce(x)))

TooLarge(x) == \E i \in DOMAIN x.spans : x.spans[i].size # None /\ x.spans[i].size > MaxHs

-----------------------------------------------------------------------------
(* DeframerVecBuffer and BufferProgress *)

\* take_discard and discard
DiscardTaken(x) ==
  [x EXCEPT !.processed = Max({0, @ - x.discard}), !.discard = 0,
            !.buf = SubSeq(@, x.discard + 1, Len(@))]

Fail(x, why) == [DiscardTaken(x) EXCEPT !.err = why, !.pc = "idle"]

\* prepare_read: the buffer grows by a read's worth, and shrinks again when it can
AllowMax(x) == IF x.spans # <<>> THEN JoinMax ELSE WireMax
Capacity(x) ==
  LET need == Min({AllowMax(x), Used(x) + ReadSize})
  IN  IF need > x.cap \/ Used(x) = 0 \/ x.cap > AllowMax(x) THEN need ELSE x.cap

\* read_tls: some of what has arrived
ReadTls ==
  /\ d.pc = "idle" /\ d.err = None /\ ~d.closed /\ feed # <<>>
  /\ IF Used(d) >= AllowMax(d) THEN d' = Fail(d, "Full") /\ UNCHANGED feed
     ELSE \E k \in 1..Min({Capacity(d) - Used(d), Len(feed)}) :
            /\ d' = [d EXCEPT !.buf = @ \o SubSeq(feed, 1, k), !.cap = Capacity(d), !.pc = "loop",
                              !.processed = d.outer, !.discard = 0, !.consumed = 0]
            /\ feed' = SubSeq(feed, k + 1, Len(feed))
  /\ UNCHANGED <<script, out>>

-----------------------------------------------------------------------------
(* process_new_packets: one record, or one message that is ready, at a     *)
(* time.                                                                   *)

\* DeframerIter: the record at the front of what is not processed, if it is all there
At(x) == x.processed + x.consumed
HeaderThere(x) == At(x) < Used(x)
Record(x) == x.buf[At(x) + 1]
RecordThere(x) == HeaderThere(x) /\ At(x) + 1 + Record(x)[3] <= Used(x)
Consumed(x) == [x EXCEPT !.consumed = @ + 1 + Record(x)[3]]

\* a ChangeCipherSpec is never encrypted, and not looked for inside a handshake message
IsPlain(x) == Record(x)[2] = "ccs" /\ x.spans = <<>>
Opens(x) == IsPlain(x) \/ Record(x)[4] = x.seq
PayloadEnd(x) == At(x) + Record(x)[3] + IF IsPlain(x) THEN 1 ELSE 0

\* the payload is accounted for and processed moves behind the record
Empties(x) == IF PayloadEnd(x) = At(x) + 1 THEN x.empties + 1 ELSE 0
Accepted(x) ==
  LET y == Consumed(x)
  IN  [y EXCEPT !.seq = IF IsPlain(x) THEN @ ELSE @ + 1, !.empties = Empties(x),
                !.processed = @ + y.consumed, !.consumed = 0]

Set(x) == d' = x /\ UNCHANGED <<script, feed, out>>
Processed(x, m) == d' = x /\ out' = Append(out, m) /\ UNCHANGED <<script, feed>>

\* the end of a round of the loop: a close_notify drops all that is left
Closing(x, m) ==
  IF m = <<<<"close", 0, 0, 0>>>>
  THEN DiscardTaken([x EXCEPT !.discard = @ + Used(x), !.closed = TRUE, !.pc = "idle"])
  ELSE DiscardTaken(x)

\* take_handshake_message: the input goes only with the last message in it
TakeHandshakeMessage ==
  /\ d.pc = "loop" /\ HasMessageReady(d)
  /\ LET sp == Head(d.spans)
         last == Len(d.spans) = 1
         y == [d EXCEPT !.spans = Tail(@), !.discard = @ + IF last THEN d.outer ELSE 0,
                        !.outer = IF last THEN 0 ELSE @]
     IN  Processed(DiscardTaken(y), Slice(d, sp.lo, sp.hi))

\* a record that does not open: skipped on trial, or the end
SkipOrFail ==
  /\ d.pc = "loop" /\ ~HasMessageReady(d) /\ RecordThere(d) /\ ~Opens(d)
  /\ Set(IF d.trial < Record(d)[3] THEN Fail(d, "Decrypt")
         ELSE IF ~IsAligned(d) THEN Fail([d EXCEPT !.trial = @ - Record(d)[3]], "Interleaved")
         ELSE [Consumed(d) EXCEPT !.trial = @ - Record(d)[3]])

Refused(x) == IF ~IsAligned(x) /\ Record(x)[2] # "hs" THEN "Interleaved"
              ELSE IF Empties(x) > MaxEmpty THEN "TooManyEmpty" ELSE None

\* a record of another type is a message of its own
OtherRecord ==
  /\ d.pc = "loop" /\ ~HasMessageReady(d) /\ RecordThere(d) /\ Opens(d)
  /\ Record(d)[2] # "hs" \/ Refused(d) # None
  /\ LET m == Slice(d, At(d) + 1, PayloadEnd(d))
         y == [Accepted(d) EXCEPT !.discard = @ + Consumed(d).consumed]
     IN  IF Refused(d) # None THEN Set(Fail([d EXCEPT !.seq = @ + 1], Refused(d)))
         ELSE Processed(Closing(y, m), m)

\* a handshake record goes through the handshake deframer; the first message ends the trial
HandshakeRecord ==
  /\ d.pc = "loop" /\ ~HasMessageReady(d) /\ RecordThere(d) /\ Opens(d)
  /\ Record(d)[2] = "hs" /\ Refused(d) = None
  /\ LET y == Coalesce(InputMessage(Accepted(d), At(d) + 1, PayloadEnd(d)))
     IN  Set(IF TooLarge(y) THEN Fail(y, "TooLarge")
             ELSE [y EXCEPT !.trial = IF HasMessageReady(y) THEN NoTrial ELSE @])

\* no further whole record: the call ends
EndOfInput ==
  /\ d.pc = "loop" /\ ~HasMessageReady(d) /\ ~RecordThere(d)
  /\ Set([DiscardTaken(d) EXCEPT !.pc = "idle", !.processed = 0, !.consumed = 0])

\* the stream is read to its end; every other state without a step is a deadlock
Done == d.pc = "idle" /\ (feed = <<>> \/ d.err # None \/ d.closed) /\ UNCHANGED vars

Next == ReadTls \/ TakeHandshakeMessage \/ SkipOrFail \/ OtherRecord \/ HandshakeRecord \/ EndOfInput
        \/ Done

Spec == Init /\ [][Next]_vars

-----------------------------------------------------------------------------
(* Properties *)

\* Every span lies inside the processed part of the buffer and in front of the next one, and
\* only the last may be unfinished between two rounds, so that slicing and moving never leave
\* the buffer.
SpansSound ==
  /\ d.processed + d.consumed <= Used(d) /\ d.discard = 0
  /\ d.closed \/ d.outer <= Used(d)
  /\ Used(d) <= JoinMax
  /\ \A i \in DOMAIN d.spans :
       /\ d.spans[i].lo <= d.spans[i].hi /\ d.spans[i].hi <= d.outer
       /\ i < Len(d.spans) => /\ IsComplete(d.spans[i])
                              /\ d.spans[i].hi <= d.spans[i + 1].lo

\* When there is nothing left to read, everything has been processed and no byte is held any
\* more, except records without content that the next handshake message will take along.
AllProcessed ==
  (d.pc = "idle" /\ d.err = None /\ (feed = <<>> \/ d.closed)) =>
     /\ out = script.expect /\ d.spans = <<>>
     /\ Used(d) = IF d.closed THEN 0 ELSE d.outer

\* However the messages are cut into records and the records into reads, what the connection
\* processes is what the peer sent, byte for byte, in order and once, and all of it once everything
\* is read.  A stream that keeps to the protocol is never refused, unless it has refused early data
\* in front, which stays in the buffer and is tried again with every read, or handshake records
\* without content, which stay too and take room from a record of the largest size
\* (HandshakeDeframer, DeframerVecBuffer, Connection::deframe).
DeliveredExactly ==
  /\ SpansSound
  /\ IsPrefix(out, script.expect)
  /\ script.early = 0 => d.err = None \/ (d.err = "Full" /\ d.spans = <<>> /\ d.outer > 0)
  /\ AllProcessed
=============================================================================
