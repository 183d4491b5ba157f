------------------------------- MODULE Padding -------------------------------
(***************************************************************************)
(* The Vision padding codecs: one direction of a tunnel, from the writer   *)
(* that wraps the first writes in padded blocks to the reader that takes   *)
(* the padding off, over a byte stream that is cut anywhere.               *)
(*                                                                         *)
(*   "donut"  encode_copy and decode_copy of donut-io/vision.rs            *)
(*   "xray"   the padder of vision_xray.rs (and VisionPadder of donut-wire,*)
(*            byte for byte the same), read by both unpadders side by side:*)
(*            Unpadder of vision_xray.rs and VisionUnpadder of donut-wire  *)
(*                                                                         *)
(* A byte is a number; a length is two bytes to the base Base.             *)
(***************************************************************************)
EXTENDS Integers, Sequences

CONSTANTS
  Uuid,       \* the user id's bytes (16 in the code)
  Streams,    \* what the writer's source delivers: sequences of reads
  MaxPad,     \* VisionConfig::max_pad
  Seed,       \* DEFAULT_SEED
  BufSize,    \* BUF_SIZE: the budget of a padded block
  PadFrames,  \* VisionConfig::pad_frames
  Base,       \* 256
  ReadMax     \* bound on the bytes a read of the tunnel returns

VARIABLES
  codec,    \* "donut" or "xray"
  plain,    \* the writer's peer never started Vision: the stream is not padded at all
  todo,     \* reads still to come from the source
  src,      \* what the source has delivered so far
  frames,   \* blocks written
  size,     \* the length of the last one
  framing,  \* whether the writer still wraps what it writes
  wire,     \* bytes in the tunnel
  sent,     \* the source ended and the writer shut the tunnel down
  dec,      \* decode_copy: its phase, the lengths left, and the bytes of a block not complete yet
  un,       \* Unpadder
  vun,      \* VisionUnpadder
  out, vout,  \* what the reader, and VisionUnpadder, have written on
  ended     \* how the reader ended: "no", "shutdown", "error"

vars == <<codec, plain, todo, src, frames, size, framing, wire, sent, dec, un, vun, out, vout, ended>>

\* what the first read of an unpadder needs: the user id and a header
Detect == Len(Uuid) + 5

U16(n) == <<n \div Base, n % Base>>
Len16(b, i) == b[i] * Base + b[i + 1]

-----------------------------------------------------------------------------
(* Writing *)

CONTINUE == 0
END == 1
DIRECT == 2

\* the length drawn by xtls_padding: long ones hide a short content, and a block keeps to its budget
PaddingLen(n, long, draw) ==
  LET want == IF n < Seed[1] /\ long THEN (draw % Seed[2]) + Seed[3] - n ELSE draw % Seed[4]
      room == BufSize - Detect - n
      len == IF want < room THEN want ELSE room
  IN  IF len < 0 THEN 0 ELSE len

\* the lengths a block of content n may have
Pads(n) == IF codec = "donut" THEN 0..MaxPad
           ELSE {PaddingLen(n, long, draw) : long \in BOOLEAN, draw \in 0..MaxPad}

Zeros(n) == [i \in 1..n |-> 0]

\* write_frame, xtls_padding and VisionPadder::frame: command, two lengths, content, padding
Block(cmd, data, pad) == <<cmd>> \o U16(Len(data)) \o U16(pad) \o data \o Zeros(pad)

\* the user id goes before the first block only
UuidOnce == IF codec = "xray" /\ frames = 0 THEN Uuid ELSE <<>>

\* the commands a block may end the framing with
EndsFraming(cmd) == cmd # CONTINUE

\* encode_copy reads from the source and the block is not the last; with the Xray codec the
\* transport decides when to end, here at any block
WriteBlock(cmd, pad) ==
  /\ ~plain /\ framing /\ todo # <<>>
  /\ pad \in Pads(Len(Head(todo)))
  /\ codec = "donut" => cmd = IF frames + 1 >= PadFrames THEN END ELSE CONTINUE
  /\ wire' = wire \o UuidOnce \o Block(cmd, Head(todo), pad)
  /\ size' = Len(wire') - Len(wire)
  /\ frames' = frames + 1 /\ framing' = ~EndsFraming(cmd)
  /\ src' = src \o Head(todo) /\ todo' = Tail(todo)
  /\ UNCHANGED <<codec, plain, sent, dec, un, vun, out, vout, ended>>

\* past the last block, and on a stream without Vision, bytes are copied as they are
WriteRaw ==
  /\ plain \/ ~framing
  /\ todo # <<>>
  /\ wire' = wire \o Head(todo)
  /\ src' = src \o Head(todo) /\ todo' = Tail(todo)
  /\ UNCHANGED <<codec, plain, frames, size, framing, sent, dec, un, vun, out, vout, ended>>

\* the source ends: a terminal END lets the peer leave the framed mode, then the tunnel is shut down
WriteEnd(pad) ==
  /\ todo = <<>> /\ ~sent /\ sent' = TRUE /\ pad \in Pads(0)
  /\ wire' = IF codec = "donut" /\ framing /\ ~plain THEN wire \o Block(END, <<>>, pad) ELSE wire
  /\ UNCHANGED <<codec, plain, todo, src, frames, size, framing, dec, un, vun, out, vout, ended>>

-----------------------------------------------------------------------------
(* decode_copy: read_exact for the header, the content and the padding *)

AfterPadding(d) == IF EndsFraming(d.cmd) THEN "raw" ELSE "header"
AfterContent(d) == IF d.pad > 0 THEN "pad" ELSE AfterPadding(d)

\* the bytes its current read_exact asks for
Wants(d) == CASE d.at = "header" -> 5 [] d.at = "data" -> d.len [] d.at = "pad" -> d.pad

\* one read_exact that is complete
DecodeStep ==
  /\ codec = "donut" /\ ended = "no" /\ dec.at # "raw"
  /\ Len(wire) >= Wants(dec)
  /\ LET n == Wants(dec)
         b == SubSeq(wire, 1, n)
         d == [dec EXCEPT !.cmd = b[1], !.len = Len16(b, 2), !.pad = Len16(b, 4)]
     IN  /\ wire' = SubSeq(wire, n + 1, Len(wire))
         /\ \/ /\ dec.at = "header" /\ out' = out
               /\ dec' = [d EXCEPT !.at = IF d.len > 0 THEN "data" ELSE AfterContent(d)]
            \/ dec.at = "data" /\ out' = out \o b /\ dec' = [dec EXCEPT !.at = AfterContent(dec)]
            \/ dec.at = "pad" /\ out' = out /\ dec' = [dec EXCEPT !.at = AfterPadding(dec)]
  /\ UNCHANGED <<codec, plain, todo, src, frames, size, framing, sent, un, vun, vout, ended>>

\* the stream ends inside a read_exact: at a header a shutdown, anywhere else an error
DecodeEof ==
  /\ codec = "donut" /\ ended = "no" /\ dec.at # "raw"
  /\ sent /\ Len(wire) < Wants(dec)
  /\ ended' = IF dec.at = "header" THEN "shutdown" ELSE "error"
  /\ UNCHANGED <<codec, plain, todo, src, frames, size, framing, wire, sent, dec, un, vun, out, vout>>

\* after the last block: a copy, until the end
DecodeRaw ==
  /\ codec = "donut" /\ ended = "no" /\ dec.at = "raw"
  /\ \/ wire # <<>> /\ out' = out \o wire /\ wire' = <<>> /\ ended' = ended
     \/ wire = <<>> /\ sent /\ ended' = "shutdown" /\ UNCHANGED <<wire, out>>
  /\ UNCHANGED <<codec, plain, todo, src, frames, size, framing, sent, dec, un, vun, vout>>

-----------------------------------------------------------------------------
(* Unpadder::push.  The counters are -1 before the first block and after   *)
(* the last.                                                               *)

\* process, one byte of the input: the counters of the block, and what it adds to the output
Counted(u, byte) ==
  CASE u.cmdLeft = 5 -> [u EXCEPT !.cmdLeft = 4, !.cmd = byte]
    [] u.cmdLeft = 4 -> [u EXCEPT !.cmdLeft = 3, !.content = byte * Base]
    [] u.cmdLeft = 3 -> [u EXCEPT !.cmdLeft = 2, !.content = @ + byte]
    [] u.cmdLeft = 2 -> [u EXCEPT !.cmdLeft = 1, !.padding = byte * Base]
    [] u.cmdLeft = 1 -> [u EXCEPT !.cmdLeft = 0, !.padding = @ + byte]
    [] u.cmdLeft <= 0 /\ u.content > 0 -> [u EXCEPT !.content = @ - 1, !.out = Append(@, byte)]
    [] OTHER -> [u EXCEPT !.padding = @ - 1]

\* Faulty variant: a block ends with its content
BlockDoneAtContent(u) ==
  IF u.cmdLeft > 0 \/ u.content > 0 THEN u
  ELSE IF u.cmd = CONTINUE THEN [u EXCEPT !.cmdLeft = 5]
  ELSE [u EXCEPT !.cmdLeft = -1, !.content = -1, !.padding = -1, !.finished = TRUE,
                 !.direct = u.cmd = DIRECT]

\* the block is complete: the next one follows a Continue, anything else is the last
BlockDone(u) ==
  IF u.cmdLeft > 0 \/ u.content > 0 \/ u.padding > 0 THEN u
  ELSE IF u.cmd = CONTINUE THEN [u EXCEPT !.cmdLeft = 5]
  ELSE [u EXCEPT !.cmdLeft = -1, !.content = -1, !.padding = -1, !.finished = TRUE,
                 !.direct = u.cmd = DIRECT]

Processed(u, input) ==
  LET after[i \in 0..Len(input)] ==
        IF i = 0 THEN u
        ELSE LET x == after[i - 1] IN
             IF x.finished THEN [x EXCEPT !.out = Append(@, input[i])]
             ELSE BlockDone(Counted(x, input[i]))
  IN  after[Len(input)]

\* Unpadder::push
Pushed(u0, input) ==
  LET u == [u0 EXCEPT !.out = <<>>]
      pending == u.pending \o input
  IN  IF u.finished \/ u.passthrough THEN [u EXCEPT !.out = input]
      ELSE IF u.started THEN Processed(u, input)
      ELSE IF Len(pending) < Detect THEN [u EXCEPT !.pending = pending]
      ELSE IF SubSeq(pending, 1, Len(Uuid)) # Uuid
      THEN [u EXCEPT !.passthrough = TRUE, !.out = pending, !.pending = <<>>]
      ELSE Processed([u EXCEPT !.started = TRUE, !.cmdLeft = 5, !.pending = <<>>],
                     SubSeq(pending, Len(Uuid) + 1, Len(pending)))

-----------------------------------------------------------------------------
(* VisionUnpadder::push: the same job over a buffer, a block at a time.    *)

\* the body of its loop: the header if it is there, then what there is of content and padding
VStep(v) ==
  LET header == v.reading
      w == IF header THEN [v EXCEPT !.reading = FALSE, !.cmd = v.pending[1],
                                    !.content = Len16(v.pending, 2), !.padding = Len16(v.pending, 4),
                                    !.pending = SubSeq(@, 6, Len(@))] ELSE v
      n == IF w.content < Len(w.pending) THEN w.content ELSE Len(w.pending)
      x == [w EXCEPT !.out = @ \o SubSeq(w.pending, 1, n), !.content = @ - n,
                     !.pending = SubSeq(@, n + 1, Len(@))]
      k == IF x.content > 0 THEN 0 ELSE IF x.padding < Len(x.pending) THEN x.padding ELSE Len(x.pending)
      y == [x EXCEPT !.padding = @ - k, !.pending = SubSeq(@, k + 1, Len(@))]
  IN  IF header /\ Len(v.pending) < 5 THEN [v EXCEPT !.stop = TRUE]
      ELSE IF y.content > 0 \/ y.padding > 0 THEN [y EXCEPT !.stop = TRUE]
      ELSE IF y.cmd = CONTINUE THEN [y EXCEPT !.reading = TRUE]
      ELSE [y EXCEPT !.direct = TRUE, !.out = @ \o y.pending, !.pending = <<>>, !.stop = TRUE]

\* the loop runs at most once per block of the input
VLoop(v) ==
  LET after[i \in 0..(Len(v.pending) + 1)] ==
        IF i = 0 THEN [v EXCEPT !.stop = FALSE]
        ELSE LET x == after[i - 1] IN IF x.stop THEN x ELSE VStep(x)
  IN  after[Len(v.pending) + 1]

VPushed(v0, input) ==
  LET v == [v0 EXCEPT !.out = <<>>, !.pending = @ \o input]
  IN  IF v0.direct THEN [v0 EXCEPT !.out = input]
      ELSE IF v.started THEN VLoop(v)
      ELSE IF Len(v.pending) < Detect THEN v
      ELSE IF SubSeq(v.pending, 1, Len(Uuid)) # Uuid
      THEN [v EXCEPT !.direct = TRUE, !.out = v.pending, !.pending = <<>>]
      ELSE VLoop([v EXCEPT !.started = TRUE, !.reading = TRUE,
                           !.pending = SubSeq(@, Len(Uuid) + 1, Len(@))])

\* a read of the tunnel, of any length, goes through both
Push ==
  /\ codec = "xray" /\ wire # <<>>
  /\ \E n \in 1..ReadMax :
       /\ n <= Len(wire)
       /\ LET input == SubSeq(wire, 1, n) IN
          /\ un' = Pushed(un, input) /\ vun' = VPushed(vun, input)
          /\ out' = out \o un'.out /\ vout' = vout \o vun'.out
       /\ wire' = SubSeq(wire, n + 1, Len(wire))
  /\ UNCHANGED <<codec, plain, todo, src, frames, size, framing, sent, dec, ended>>

Done == sent /\ (ended # "no" \/ (codec = "xray" /\ wire = <<>>)) /\ UNCHANGED vars

Init ==
  /\ codec \in {"donut", "xray"} /\ plain \in (IF codec = "xray" THEN BOOLEAN ELSE {FALSE})
  /\ todo \in {q \in Streams : codec = "donut" => \A i \in 1..Len(q) : q[i] # <<>>}
  /\ src = <<>> /\ frames = 0 /\ size = 0 /\ framing = TRUE /\ wire = <<>> /\ sent = FALSE
  /\ dec = [at |-> "header", cmd |-> CONTINUE, len |-> 0, pad |-> 0]
  /\ un = [started |-> FALSE, passthrough |-> FALSE, finished |-> FALSE, direct |-> FALSE,
           pending |-> <<>>, cmdLeft |-> -1, content |-> -1, padding |-> -1, cmd |-> CONTINUE,
           out |-> <<>>]
  /\ vun = [started |-> FALSE, direct |-> FALSE, reading |-> FALSE, pending |-> <<>>, content |-> 0,
            padding |-> 0, cmd |-> CONTINUE, stop |-> FALSE, out |-> <<>>]
  /\ out = <<>> /\ vout = <<>> /\ ended = "no"

Next ==
  \/ \E cmd \in {CONTINUE, END, DIRECT}, pad \in 0..BufSize : WriteBlock(cmd, pad)
  \/ WriteRaw
  \/ \E pad \in 0..MaxPad : WriteEnd(pad)
  \/ DecodeStep \/ DecodeEof \/ DecodeRaw
  \/ Push
  \/ Done

Spec == Init /\ [][Next]_vars

-----------------------------------------------------------------------------
\* Types: no counter of a block in progress is out of range, and nothing is held back once the
\* detection is over.
\* What comes out is what went in, in order and without a byte of framing or padding, however the
\* tunnel cuts the stream and whenever the writer stops framing; and everything has come out once
\* the writer is done and the reader has read it all, only a stream without Vision that is shorter
\* than the detection being held back (PaddedWriter against Unpadder, decode_copy).
Exact ==
  /\ Len(out) <= Len(src) /\ out = SubSeq(src, 1, Len(out))
  /\ ended = "shutdown" => out = src
  /\ codec = "xray" /\ sent /\ wire = <<>> => (out = src \/ (plain /\ Len(src) < Detect))

\* The two unpadders agree after every read, the same bytes out and the same moment to go raw, and
\* that is where the writer stopped framing: an End or Direct block that was read to its last byte,
\* and no raw byte taken for a block.
InStep ==
  /\ codec = "xray" => out = vout /\ (un.finished \/ un.passthrough) = vun.direct
  /\ un.finished => ~framing
  /\ codec = "xray" /\ ~plain /\ ~framing /\ wire = <<>> => un.finished

\* The framing is transparent, and writer and reader leave it at the same byte.
ContentExact == Exact /\ InStep
=============================================================================
