-------------------------------- MODULE Wire --------------------------------
(***************************************************************************)
(* The inner protocol's bytes: the request and the response of donut-wire  *)
(* with their addons, the Mux frames of donut-server/src/mux.rs and the    *)
(* length-prefixed datagrams.  What the reader gets is a stream, cut in    *)
(* two at any place: it decodes what it has, and again when there is more. *)
(***************************************************************************)
EXTENDS TlsCodec
X == INSTANCE Bitwise

CONSTANTS
  IdLen,     \* bytes of a UserId (16)
  V4Len,     \* bytes of an IPv4 address (4)
  V6Len,     \* bytes of an IPv6 address (16)
  FlowName,  \* EXTENDED_WIRE, as bytes
  NoneName,  \* "none"
  VarintMax, \* the bytes of the longest varint (10)
  MetaMax    \* the longest Mux metadata (512)

\* String::from_utf8 succeeds: all of it is ASCII, of what the instances have
Utf8(b) == \A i \in DOMAIN b : b[i] < 128

-----------------------------------------------------------------------------
(* Addons: two fields of a protobuf message *)

RECURSIVE PutVarint(_)
PutVarint(n) == IF n >= 128 THEN <<128 + (n % 128)>> \o PutVarint(n \div 128) ELSE <<n>>

\* get_varint, from its i-th byte on; values past the cap of the instance's numbers do not occur
RECURSIVE GetVarint(_, _)
GetVarint(b, i) ==
  IF i = VarintMax THEN Bad("VarintOverflow")
  ELSE IF b = <<>> THEN Bad("BadAddonsProto")
  ELSE IF b[1] < 128 THEN Good(b[1], Tail(b))
  ELSE LET r == GetVarint(Tail(b), i + 1)
       IN  IF r.ok THEN Good(b[1] - 128 + 128 * r.v, r.rest) ELSE r

TagFlow == 10
TagSeed == 18

Addons(flow, seed) == [flow |-> flow, seed |-> seed]
Field(tag, v) == IF v = <<>> THEN <<>> ELSE <<tag>> \o PutVarint(Len(v)) \o v
AddonsEncode(a) == Field(TagFlow, a.flow) \o Field(TagSeed, a.seed)

\* Addons::decode: a later field of a kind replaces an earlier one, and any other tag is an error
RECURSIVE AddonsDecode(_, _)
AddonsDecode(b, me) ==
  IF b = <<>> THEN Good(me, b)
  ELSE LET len == GetVarint(Tail(b), 0)
           value == Take(len.rest, len.v)
           rest == After(len.rest, len.v)
       IN  IF ~len.ok THEN len
           ELSE IF Len(len.rest) < len.v THEN Bad("BadAddonsProto")
           ELSE IF b[1] = TagFlow /\ Utf8(value) THEN AddonsDecode(rest, [me EXCEPT !.flow = value])
           ELSE IF b[1] = TagSeed THEN AddonsDecode(rest, [me EXCEPT !.seed = value])
           ELSE Bad("BadAddonsProto")

\* ensure, then the bytes
Ensure(b, n) == IF Len(b) < n THEN Bad("Truncated") ELSE Good(Take(b, n), After(b, n))

\* the addons of a request and of a response: their length in a byte, and all of them
ReadAddons(b) ==
  IF b = <<>> THEN Bad("Truncated")
  ELSE LET part == Ensure(Tail(b), b[1])
           r == AddonsDecode(part.v, Addons(<<>>, <<>>))
       IN  IF ~part.ok THEN part ELSE IF r.ok THEN Good(r.v, part.rest) ELSE r

\* FlowKind::as_str and from_wire
FlowOf(kind) == IF kind = "extended" THEN FlowName ELSE <<>>
FlowKind(b) == CASE b = FlowName -> "extended" [] b \in {<<>>, NoneName} -> "none" [] OTHER -> "unknown"

-----------------------------------------------------------------------------
(* Requests and responses *)

Mux == 3

AddrEncode(a) ==
  CASE a.type = 2 -> <<2, Len(a.v)>> \o a.v
    [] OTHER -> <<a.type>> \o a.v

RequestEncode(r) ==
  <<0>> \o r.user \o Prefixed(1, AddonsEncode(Addons(FlowOf(r.flow), r.seed))) \o <<r.command>>
    \o IF r.target = None THEN <<>> ELSE Be(2, r.target.port) \o AddrEncode(r.target.addr)

\* the target of a request: port, type and address
ReadAddr(b, type) ==
  CASE type = 1 -> Ensure(b, V4Len)
    [] type = 3 -> Ensure(b, V6Len)
    [] type = 2 -> IF b = <<>> THEN Bad("Truncated") ELSE IF b[1] = 0 THEN Bad("ZeroDomain")
                   ELSE LET d == Ensure(Tail(b), b[1])
                        IN  IF d.ok /\ ~Utf8(d.v) THEN Bad("InvalidDomainUtf8") ELSE d
    [] OTHER -> Bad("UnknownAddressType")
ReadTarget(b) ==
  LET head == Ensure(b, 3)
      addr == ReadAddr(head.rest, head.v[3])
  IN  IF ~head.ok THEN head ELSE IF ~addr.ok THEN addr
      ELSE Good([port |-> Num(Take(head.v, 2)), addr |-> [type |-> head.v[3], v |-> addr.v]], addr.rest)

RequestDecode(b) ==
  LET user == Ensure(Tail(b), IdLen)
      addons == ReadAddons(user.rest)
      flow == FlowKind(addons.v.flow)
      command == Head(addons.rest)
      target == IF command = Mux THEN Good(None, Tail(addons.rest)) ELSE ReadTarget(Tail(addons.rest))
  IN  IF b = <<>> THEN Bad("Truncated") ELSE IF b[1] # 0 THEN Bad("BadVersion")
      ELSE IF ~user.ok THEN user ELSE IF ~addons.ok THEN addons
      ELSE IF flow = "unknown" THEN Bad("UnknownFlow")
      ELSE IF addons.rest = <<>> THEN Bad("Truncated")
      ELSE IF command \notin 1..3 THEN Bad("UnknownCommand")
      ELSE IF ~target.ok THEN target
      ELSE Good([user |-> user.v, flow |-> flow, command |-> command, target |-> target.v,
                 seed |-> addons.v.seed], target.rest)

ResponseEncode(a) == <<0>> \o Prefixed(1, AddonsEncode(a))
ResponseDecode(b) == IF b = <<>> THEN Bad("Truncated") ELSE IF b[1] # 0 THEN Bad("BadVersion") ELSE ReadAddons(Tail(b))

HeaderDecode(kind, b) == IF kind = "request" THEN RequestDecode(b) ELSE ResponseDecode(b)

Leftover(first) == first.rest

\* the loops of the server and of a chained outbound: decode again on every chunk until it is no
\* longer Truncated; what follows the header, in the buffer or yet to come, is the payload
ReadHeader ==
  /\ input.kind \in {"request", "response"} /\ output = None /\ UNCHANGED input
  /\ LET first == HeaderDecode(input.kind, Take(input.bytes, input.cut))
     IN  output' = IF first.ok THEN Good(first.v, Leftover(first) \o After(input.bytes, input.cut))
                   ELSE IF first.v = "Truncated" THEN HeaderDecode(input.kind, input.bytes) ELSE first

-----------------------------------------------------------------------------
(* Mux frames *)

StatusNew == 1
StatusKeep == 2
NetUdp == 2

\* write_addr and keep_frame
WriteAddr(src) == <<NetUdp>> \o Be(2, src.port) \o <<src.type>> \o src.v
KeepFrame(sid, src, data) ==
  Prefixed(2, Be(2, sid) \o <<StatusKeep, 1>> \o WriteAddr(src)) \o Prefixed(2, data)

\* read_addr: None for a type it does not know and for too few bytes alike
MuxAddr(b) ==
  LET of(n, from) == IF Len(b) < from + n THEN None
                     ELSE [port |-> Num(Take(b, 2)), type |-> b[3], v |-> SubSeq(b, from + 1, from + n)]
  IN  IF Len(b) < 3 THEN None
      ELSE CASE b[3] = 1 -> of(V4Len, 3)
             [] b[3] = 3 -> of(V6Len, 3)
             [] b[3] = 2 -> IF Len(b) < 4 THEN None ELSE of(b[4], 4)
             [] OTHER -> None

Wait == [t |-> "wait", v |-> None, rest |-> <<>>]
BadMux == [t |-> "error", v |-> None, rest |-> <<>>]

\* the data of a frame is there when its length and all of it are
DataHere(b) == Len(b) >= 2 /\ Len(b) >= 2 + Num(Take(b, 2))

\* parse_frame
ParseFrame(b) ==
  LET len == Num(Take(b, 2))
      meta == SubSeq(b, 3, 2 + len)
      after == After(b, 2 + len)
      hasAddr == meta[3] = StatusNew \/ (meta[3] = StatusKeep /\ len > 4 /\ meta[5] = NetUdp)
      target == IF hasAddr THEN MuxAddr(After(meta, 5)) ELSE None
      hasData == meta[4] % 2 = 1
      frame(data) == [sid |-> Num(Take(meta, 2)), status |-> meta[3], target |-> target, data |-> data]
  IN  IF Len(b) < 2 THEN Wait
      ELSE IF len \notin 4..MetaMax THEN BadMux
      ELSE IF Len(b) < 2 + len THEN Wait
      ELSE IF hasAddr /\ target = None THEN BadMux
      ELSE IF ~hasData THEN [t |-> "frame", v |-> frame(None), rest |-> after]
      ELSE IF ~DataHere(after) THEN Wait
      ELSE LET n == Num(Take(after, 2))
           IN  [t |-> "frame", v |-> frame(SubSeq(after, 3, 2 + n)), rest |-> After(after, 2 + n)]

RECURSIVE Drain(_, _)

\* Faulty variant: the length of the metadata leaves the buffer before the frame is complete
DrainAdvanced(b, frames) ==
  LET r == ParseFrame(b) IN
  IF r.t = "frame" THEN Drain(r.rest, Append(frames, r.v))
  ELSE [t |-> r.t, frames |-> frames, rest |-> IF r.t = "wait" THEN After(b, Min({2, Len(b)})) ELSE <<>>]

\* the loop of mux_relay over the frames in its buffer; after an error the relay has ended
Drain(b, frames) ==
  LET r == ParseFrame(b) IN
  IF r.t = "frame" THEN Drain(r.rest, Append(frames, r.v))
  ELSE [t |-> r.t, frames |-> frames, rest |-> IF r.t = "wait" THEN b ELSE <<>>]

ReadMux ==
  /\ pending("mux") /\ UNCHANGED input
  /\ LET first == Drain(Take(input.bytes, input.cut), <<>>)
     IN  output' = IF first.t = "error" THEN first
                   ELSE Drain(first.rest \o After(input.bytes, input.cut), first.frames)

\* take_datagram, and the writers of the same two bytes and the payload
TakeDatagram(b) == IF DataHere(b) THEN SubSeq(b, 3, 2 + Num(Take(b, 2))) ELSE None

-----------------------------------------------------------------------------
(* The user check *)

RECURSIVE Diff(_, _, _)
Diff(a, b, i) == IF i = 0 THEN 0 ELSE X!|(Diff(a, b, i - 1), X!^^(a[i], b[i]))

\* is_authorized: 0 becomes 255 and anything else 0, in 16 bits, and the answers are or'ed
MatchByte(diff) == ((diff + 65536 - 1) % 65536) \div 256
IsAuthorized(users, cand) ==
  FoldLeft(LAMBDA found, u : X!|(found, MatchByte(Diff(u, cand, IdLen)) % 256), 0, users) # 0

CheckUser ==
  /\ pending("auth") /\ UNCHANGED input
  /\ output' = IsAuthorized(input.users, input.cand)

-----------------------------------------------------------------------------
(* Properties *)

\* What one side encodes the other decodes, in whatever two pieces it arrives, with the payload
\* behind it intact, and what is cut short is waited for: no header of a well-behaved peer is ever
\* refused (Request::encode and decode, Response::encode and decode, Addons).
HeaderReadsBack ==
  Has("request") \/ Has("response") =>
    (input.of # None =>
       /\ input.edit = "none" => output.ok /\ output.v = input.of /\ output.rest = input.payload
       /\ input.edit = "cut" => ~output.ok /\ output.v = "Truncated")

\* The verdict on a stream does not depend on where it was cut: bytes that were refused or accepted
\* would have been refused or accepted, with the same payload, had they come at once
\* (Truncated is the only error the loops go on after).
HeaderUncut ==
  Has("request") \/ Has("response") => output = HeaderDecode(input.kind, input.bytes)

\* Frames do not depend on where the stream was cut either: the same frames in the same order, the
\* same bytes left over, and an error after the same frames (parse_frame leaves the buffer alone
\* until the frame is complete).
FramesUncut == Has("mux") => output = Drain(input.bytes, <<>>)

\* The frames the server writes for the answers of a target are read by the same format as answers
\* of that source with that payload, however long (keep_frame, write_addr against parse_frame), and
\* the payload also survives as a length-prefixed datagram.
AnswersReadBack ==
  Has("mux") /\ input.of # None =>
    /\ output.t = "wait" /\ output.rest = <<>>
    /\ output.frames = [i \in DOMAIN input.of |->
         [sid |-> input.of[i].sid, status |-> StatusKeep, target |-> input.of[i].src, data |-> input.of[i].data]]
    /\ \A i \in DOMAIN input.of : TakeDatagram(Prefixed(2, input.of[i].data) \o input.bytes) = input.of[i].data

\* A user is let in exactly if the identifier is one of the configured ones, whichever byte differs
\* (the branch-free comparison of UserAuth::is_authorized).
AuthorizedExactly == Has("auth") => output = (input.cand \in ToSet(input.users))

\* What the server understands is what its peer meant, whichever reads it arrives in: requests and
\* responses, Mux frames and the answers to them, and who may use the tunnel.
WireUnderstood == HeaderReadsBack /\ HeaderUncut /\ FramesUncut /\ AnswersReadBack /\ AuthorizedExactly
=============================================================================
