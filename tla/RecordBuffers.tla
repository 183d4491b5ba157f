----------------------------- MODULE RecordBuffers -----------------------------
(***************************************************************************)
(* The way of application bytes through a TLS connection: a vectored write *)
(* (OutboundChunks), the plaintext buffer before the handshake is over,    *)
(* the cut into fragments, records with their header and inner content     *)
(* type, the buffer of outgoing bytes (ChunkVecBuffer) with its vectored   *)
(* socket writes, and on the other side the record headers, the unpadding  *)
(* and the received plaintext.  Sealing is the identity on the bytes: the  *)
(* record layer and its keys are in TlsConnection.                         *)
(***************************************************************************)
EXTENDS Integers, Sequences, FiniteSets, SequencesExt

CONSTANTS
  Scripts,  \* what the application writes: sequences of vectored writes
  MaxFrag,  \* MessageFragmenter::max_frag
  Limits,   \* the buffer limits the application may choose, None for no limit
  IovMax,   \* slices of one vectored socket write (64 in the code)
  MaxRead,  \* bound: the application's read buffer
  MaxPad,   \* bound: padding a peer may add to a record
  MaxPayload,  \* MAX_PAYLOAD
  None      \* an absent Option

VARIABLES
  todo,    \* vectored writes the application still has to make
  limit,   \* the limit of both buffers
  ready,   \* may_send_application_data
  plain,   \* sendable_plaintext
  tls,     \* sendable_tls
  broken,  \* the socket claimed more bytes than it was given
  wire,    \* bytes written to the socket and not read yet
  rx,      \* received_plaintext
  given, got  \* every byte the connection accepted, and every byte it delivered

vars == <<todo, limit, ready, plain, tls, broken, wire, rx, given, got>>

-----------------------------------------------------------------------------
(* OutboundChunks: one slice, or several and a window on their bytes. *)

LenOf(chunks) == Len(FlattenSeq(chunks))
Single(b) == [chunks |-> <<b>>, start |-> 0, end |-> Len(b)]
ChunksNew(cs) == IF Len(cs) = 1 THEN Single(cs[1]) ELSE [chunks |-> cs, start |-> 0, end |-> LenOf(cs)]
ChunksLen(o) == o.end - o.start

LeastOf(a, b) == IF a < b THEN a ELSE b

\* Faulty variant: the end of the window is cut off the wrong slice
CopyToVecShort(o) ==
  LET psize(i) == LenOf(SubSeq(o.chunks, 1, i - 1))
      piece(i) == LET n == Len(o.chunks[i])
                      from == IF o.start > psize(i) THEN o.start - psize(i) ELSE 0
                      to == IF o.end < n THEN o.end ELSE n
                  IN  SubSeq(o.chunks[i], from + 1, to)
      inside(i) == psize(i) + Len(o.chunks[i]) > o.start /\ psize(i) < o.end
  IN  FlattenSeq([i \in DOMAIN o.chunks |-> IF inside(i) THEN piece(i) ELSE <<>>])

\* copy_to_vec: of every slice the part inside the window
CopyToVec(o) ==
  LET psize(i) == LenOf(SubSeq(o.chunks, 1, i - 1))
      piece(i) == LET n == Len(o.chunks[i])
                      from == IF o.start > psize(i) THEN o.start - psize(i) ELSE 0
                      to == IF o.end - psize(i) < n THEN o.end - psize(i) ELSE n
                  IN  SubSeq(o.chunks[i], from + 1, to)
      inside(i) == psize(i) + Len(o.chunks[i]) > o.start /\ psize(i) < o.end
  IN  FlattenSeq([i \in DOMAIN o.chunks |-> IF inside(i) THEN piece(i) ELSE <<>>])

\* split_at
Before(o, mid) == [o EXCEPT !.end = LeastOf(o.start + mid, o.end)]
After(o, mid) == [o EXCEPT !.start = LeastOf(o.start + mid, o.end)]

\* Chunker: fragments of at most max_frag bytes until nothing is left
Chunker(o) ==
  LET f[p \in 0..ChunksLen(o)] ==
        LET rest == After(o, p)
        IN  IF ChunksLen(rest) = 0 THEN <<>>
            ELSE <<Before(rest, MaxFrag)>> \o f[p + LeastOf(MaxFrag, ChunksLen(rest))]
  IN  f[0]

-----------------------------------------------------------------------------
(* ChunkVecBuffer: chunks, of which a prefix of the first is used up. *)

Empty == [used |-> 0, chunks |-> <<>>]
Flat(b) == LET all == FlattenSeq(b.chunks) IN SubSeq(all, b.used + 1, Len(all))
BufLen(b) == LenOf(b.chunks) - b.used

ApplyLimit(b, n) ==
  IF limit = None THEN n
  ELSE LeastOf(n, IF limit > BufLen(b) THEN limit - BufLen(b) ELSE 0)

Push(b, bytes) == IF bytes = <<>> THEN b ELSE [b EXCEPT !.chunks = Append(@, bytes)]

\* pop: the first chunk without its used prefix
Pop(b) == [first |-> SubSeq(b.chunks[1], b.used + 1, Len(b.chunks[1])),
           rest |-> [used |-> 0, chunks |-> Tail(b.chunks)]]

\* consume: the chunks the used prefix covers leave
Consume(b, n) ==
  LET used == b.used + n
      gone == {k \in 0..Len(b.chunks) : LenOf(SubSeq(b.chunks, 1, k)) <= used}
      k == CHOOSE k \in gone : \A j \in gone : j <= k
  IN  [used |-> used - LenOf(SubSeq(b.chunks, 1, k)), chunks |-> SubSeq(b.chunks, k + 1, Len(b.chunks))]

\* read: slice by slice into the caller's buffer of n bytes
ReadLen(b, n) == LeastOf(n, BufLen(b))

\* write_to: the bytes offered to the socket in one vectored write
Offered(b) ==
  LET k == LeastOf(IovMax, Len(b.chunks))
  IN  LenOf(SubSeq(b.chunks, 1, k)) - b.used

-----------------------------------------------------------------------------
(* Records. *)

HeaderSize == 5
AppData == 23
Be2(n) == <<(n \div 256) % 256, n % 256>>

\* PrefixedPayload: the payload is put behind room for the header
Prefixed(payload) == [i \in 1..HeaderSize |-> 0] \o payload

\* OutboundOpaqueMessage::encode: the header is written into that room
Encode(payload) ==
  LET p == Prefixed(payload)
      header == <<AppData, 3, 3>> \o Be2(Len(p) - HeaderSize)
  IN  [i \in DOMAIN p |-> IF i <= HeaderSize THEN header[i] ELSE p[i]]

\* the inner plaintext: the content type, and a peer's padding
Inner(bytes, pad) == bytes \o <<AppData>> \o [i \in 1..pad |-> 0]

Seal(b, o, pad) == FoldLeft(LAMBDA acc, f : Push(acc, Encode(Inner(CopyToVec(f), pad))), b, Chunker(o))

KnownTypes == {20, 21, 22, 23, 24}
\* read_opaque_message_header: the length of the record's payload, or why there is none
Header(bytes) ==
  IF Len(bytes) = 0 THEN "short"
  ELSE IF bytes[1] \notin KnownTypes THEN "type"
  ELSE IF Len(bytes) < 3 THEN "short"
  ELSE IF bytes[2] # 3 THEN "version"
  ELSE IF Len(bytes) < HeaderSize THEN "short"
  ELSE LET n == 256 * bytes[4] + bytes[5]
       IN  IF bytes[1] # AppData /\ n = 0 THEN "empty" ELSE IF n >= MaxPayload THEN "large" ELSE "ok"
PayloadLen(bytes) == 256 * bytes[4] + bytes[5]

\* unpad_tls13_payload: the last byte that is not zero is the content type
Unpad(p) ==
  LET kept == {i \in 1..Len(p) : p[i] # 0}
      last == CHOOSE i \in kept : \A j \in kept : j <= i
  IN  IF kept = {} THEN [typ |-> 0, bytes |-> <<>>]
      ELSE [typ |-> p[last], bytes |-> SubSeq(p, 1, last - 1)]

\* into_tls13_unpadded_message
Unpadded(p) ==
  LET u == Unpad(p)
  IN  IF u.typ = 0 \/ Len(u.bytes) > MaxFrag THEN "refused" ELSE "ok"

-----------------------------------------------------------------------------
Init ==
  /\ todo \in Scripts /\ limit \in Limits /\ ready \in BOOLEAN
  /\ plain = Empty /\ tls = Empty /\ rx = Empty
  /\ broken = FALSE /\ wire = <<>> /\ given = <<>> /\ got = <<>>

\* what is left of the writes after n bytes of the first were taken
Left(n) ==
  LET o == After(ChunksNew(todo[1]), n)
  IN  IF ChunksLen(o) = 0 THEN Tail(todo) ELSE <<<<CopyToVec(o)>>>> \o Tail(todo)

\* buffer_plaintext before traffic: append_limited_copy
WriteBuffered ==
  /\ ~ready /\ todo # <<>>
  /\ LET o == ChunksNew(todo[1])
         take == ApplyLimit(plain, ChunksLen(o))
         bytes == CopyToVec(Before(o, take))
     IN  /\ plain' = Push(plain, bytes)
         /\ given' = given \o SubSeq(FlattenSeq(todo[1]), 1, take)
         /\ todo' = Left(take)
  /\ UNCHANGED <<limit, ready, tls, broken, wire, rx, got>>

\* start_outgoing_traffic and flush_plaintext: every buffered chunk is cut and sealed
StartTraffic ==
  /\ ~ready /\ ready' = TRUE
  /\ LET f[b \in {[plain EXCEPT !.chunks = SubSeq(@, k, Len(@)), !.used = IF k = 1 THEN @ ELSE 0] :
                    k \in 1..(Len(plain.chunks) + 1)}] ==
           IF b.chunks = <<>> THEN <<>> ELSE <<Pop(b).first>> \o f[Pop(b).rest]
     IN  tls' = FoldLeft(LAMBDA acc, x : Seal(acc, Single(x), 0), tls, f[plain])
  /\ plain' = Empty
  /\ UNCHANGED <<todo, limit, broken, wire, rx, given, got>>

\* send_appdata_encrypt: as much as the buffer of sealed bytes has room for; a peer may pad
WriteDirect(pad) ==
  /\ ready /\ todo # <<>> /\ ~broken
  /\ LET o == ChunksNew(todo[1])
         take == ApplyLimit(tls, ChunksLen(o))
     IN  /\ tls' = Seal(tls, Before(o, take), pad)
         /\ given' = given \o SubSeq(FlattenSeq(todo[1]), 1, take)
         /\ todo' = Left(take)
  /\ UNCHANGED <<limit, ready, plain, broken, wire, rx, got>>

\* write_to: the socket takes some of what it was offered
WriteTo(used) ==
  /\ used <= Offered(tls)
  /\ wire' = wire \o SubSeq(Flat(tls), 1, used)
  /\ tls' = Consume(tls, used)
  /\ UNCHANGED <<todo, limit, ready, plain, broken, rx, given, got>>

\* the socket claims more than it was offered: all of it counts as written, and the call fails
WriteTooMuch ==
  /\ tls.chunks # <<>> /\ ~broken /\ broken' = TRUE
  /\ wire' = wire \o SubSeq(Flat(tls), 1, Offered(tls))
  /\ tls' = Consume(tls, Offered(tls))
  /\ UNCHANGED <<todo, limit, ready, plain, rx, given, got>>

\* the peer's record layer: a whole record, unpadded into received_plaintext
Receive ==
  /\ Header(wire) = "ok" /\ Len(wire) >= HeaderSize + PayloadLen(wire)
  /\ LET p == SubSeq(wire, HeaderSize + 1, HeaderSize + PayloadLen(wire))
     IN  /\ Unpadded(p) = "ok"
         /\ rx' = Push(rx, Unpad(p).bytes)
  /\ wire' = SubSeq(wire, HeaderSize + PayloadLen(wire) + 1, Len(wire))
  /\ UNCHANGED <<todo, limit, ready, plain, tls, broken, given, got>>

\* Reader::read
Read(n) ==
  /\ rx.chunks # <<>>
  /\ got' = got \o SubSeq(Flat(rx), 1, ReadLen(rx, n))
  /\ rx' = Consume(rx, ReadLen(rx, n))
  /\ UNCHANGED <<todo, limit, ready, plain, tls, broken, wire, given>>

\* BufRead: the whole first chunk
ReadChunk ==
  /\ rx.chunks # <<>>
  /\ got' = got \o Pop(rx).first
  /\ rx' = Pop(rx).rest
  /\ UNCHANGED <<todo, limit, ready, plain, tls, broken, wire, given>>

\* set_buffer_limit: what is already buffered stays
SetLimit == /\ limit' \in Limits \ {limit} /\ todo # <<>>
            /\ UNCHANGED <<todo, ready, plain, tls, broken, wire, rx, given, got>>

Finished == /\ \A b \in {plain, tls, rx} : b.chunks = <<>>
            /\ wire = <<>> /\ (todo = <<>> \/ broken)
            /\ UNCHANGED vars

Next ==
  \/ WriteBuffered \/ StartTraffic \/ \E pad \in 0..MaxPad : WriteDirect(pad)
  \/ \E used \in 1..Offered(tls) : WriteTo(used)
  \/ WriteTooMuch \/ Receive \/ \E n \in 1..MaxRead : Read(n)
  \/ ReadChunk \/ SetLimit \/ Finished

Spec == Init /\ [][Next]_vars

-----------------------------------------------------------------------------
\* the contents of the whole records in a string of bytes
Contents(bytes) ==
  LET f[p \in 0..Len(bytes)] ==
        IF p + HeaderSize > Len(bytes) THEN <<>>
        ELSE LET n == 256 * bytes[p + 4] + bytes[p + 5]
             IN  Unpad(SubSeq(bytes, p + HeaderSize + 1, p + HeaderSize + n)).bytes \o f[p + HeaderSize + n]
  IN  f[0]

InTransit == Flat(rx) \o Contents(wire \o Flat(tls)) \o Flat(plain)

Q == INSTANCE ByteQueue WITH queue <- InTransit

(* The whole way is one queue of bytes: each step puts the accepted bytes  *)
(* at its end, takes some from its front for the application, or changes   *)
(* nothing.  It is about OutboundChunks' windows, the fragmenter, the      *)
(* headers, the unpadding and ChunkVecBuffer's used prefix together, with  *)
(* the socket and the reader cutting where they like.                      *)
OneByteQueue == Q!QSpec
=============================================================================
