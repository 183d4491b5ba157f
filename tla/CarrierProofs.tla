---------------------------- MODULE CarrierProofs ----------------------------
(***************************************************************************)
(* A proof about Carrier, for every capacity of the pipes, every window of *)
(* the bodies and any number of writes: the end of a stream means that     *)
(* everything was read, and what is read is what was written.              *)
(***************************************************************************)
EXTENDS Carrier, SequenceTheorems, TLAPS

-----------------------------------------------------------------------------
(* One direction of an exchange.  A chunk goes from the writer's pipe to   *)
(* the body of the message, to the reader's pipe, to the reader; the       *)
(* sending pump does the first move and the receiving pump the second.     *)

Chunk == [from : {"c", "s", "decoy"}, n : Int]

\* The chunks of w from number base + 1 on, one after the other.
Chain(w, s, base) == \A i \in 1..Len(s) : s[i] = [from |-> w, n |-> base + i]

\* k chunks were written by w, of which src is not sent yet; it shut the pipe down, or left.
\* body is under way and fin says it is finished; sink is received and read says what the reader
\* has, unless it is deaf: gone.  As long as the receiving pump runs nothing is missing between
\* what it has delivered and the body, and as long as the sending pump runs, too, nothing behind
\* it: a gap opens only where a pump stops, and nothing passes it.
Flow(w, k, src, shut, left, snd, body, fin, rcv, sink, read, deaf, lost) ==
  LET d == Len(read) + Len(sink) IN
  /\ k \in Nat /\ {src, body, sink, read} \subseteq Seq(Chunk)
  /\ Chain(w, src, k - Len(src)) /\ Chain(w, read, 0) /\ Chain(w, sink, Len(read)) /\ d <= k
  /\ rcv # "done" => /\ Chain(w, body, d) /\ d + Len(body) + Len(src) <= k
                     /\ snd # "done" /\ ~lost => d + Len(body) + Len(src) = k
  /\ fin => /\ shut \/ left
            /\ src = <<>> /\ snd = "done"
            /\ rcv # "done" /\ ~lost => d + Len(body) = k
  /\ rcv = "done" /\ ~lost /\ ~deaf => fin /\ d = k

\* Appending the next chunk keeps a run of consecutive chunks.
LEMMA ChainAppend ==
  ASSUME NEW w \in Ends, NEW s \in Seq(Chunk), NEW b \in Int, Chain(w, s, b),
         NEW c, c = [from |-> w, n |-> b + Len(s) + 1]
  PROVE  /\ Append(s, c) \in Seq(Chunk) /\ Len(Append(s, c)) = Len(s) + 1
         /\ Chain(w, Append(s, c), b)
<1>1. c \in Chunk
  BY LenProperties DEF Chunk, Ends
<1>2. /\ Append(s, c) \in Seq(Chunk) /\ Len(Append(s, c)) = Len(s) + 1
      /\ \A i \in 1..Len(s) : Append(s, c)[i] = s[i]
      /\ Append(s, c)[Len(s) + 1] = c /\ Len(s) \in Nat
  BY <1>1, AppendProperties, LenProperties
<1>3. ASSUME NEW i \in 1..Len(Append(s, c)) PROVE Append(s, c)[i] = [from |-> w, n |-> b + i]
  <2>1. CASE i \in 1..Len(s)
    BY <1>2, <2>1, Zenon DEF Chain
  <2>2. CASE i = Len(s) + 1
    <3>1. b + i = b + Len(s) + 1
      BY <1>2, <2>2
    <3> QED
      BY <1>2, <2>2, <3>1, Zenon
  <2> QED
    BY <1>2, <2>1, <2>2
<1> QED
  BY <1>2, <1>3, Zenon DEF Chain

\* Taking the first chunk of a run leaves a run that starts one later.
LEMMA ChainTail ==
  ASSUME NEW w \in Ends, NEW s \in Seq(Chunk), NEW b \in Int, Chain(w, s, b), s # <<>>
  PROVE  /\ Tail(s) \in Seq(Chunk) /\ Len(Tail(s)) = Len(s) - 1 /\ Len(s) \in Nat /\ Len(s) > 0
         /\ Head(s) = [from |-> w, n |-> b + 1] /\ Chain(w, Tail(s), b + 1)
<1>1. Len(s) \in Nat /\ Len(s) > 0 /\ Head(s) = s[1]
  BY EmptySeq, LenProperties
<1>2. /\ Tail(s) \in Seq(Chunk) /\ Len(Tail(s)) = Len(s) - 1
      /\ \A i \in 1..Len(Tail(s)) : Tail(s)[i] = s[i + 1]
  BY HeadTailProperties, Zenon
<1>3. ASSUME NEW i \in 1..Len(Tail(s)) PROVE Tail(s)[i] = [from |-> w, n |-> (b + 1) + i]
  <2>1. i + 1 \in 1..Len(s) /\ b + (i + 1) = (b + 1) + i
    BY <1>1, <1>2
  <2>2. s[i + 1] = [from |-> w, n |-> b + (i + 1)]
    BY <2>1, Zenon DEF Chain
  <2> QED
    BY <1>2, <2>1, <2>2, Zenon
<1>4. s[1] = [from |-> w, n |-> b + 1]
  BY <1>1 DEF Chain
<1> QED
  BY <1>1, <1>2, <1>3, <1>4, Zenon DEF Chain

\* Nothing was written yet.
LEMMA FlowEmpty ==
  ASSUME NEW w, NEW snd, NEW rcv, snd # "done", rcv # "done"
  PROVE  Flow(w, 0, <<>>, FALSE, FALSE, snd, <<>>, FALSE, rcv, <<>>, <<>>, FALSE, FALSE)
<1>1. <<>> \in Seq(Chunk) /\ Len(<<>>) = 0 /\ \A b : Chain(w, <<>>, b)
  BY DEF Chain
<1> QED
  BY <1>1 DEF Flow

\* The parts of a flow, as the lemmas below use them.
Parts(w, k, src, snd, body, rcv, sink, read, lost) ==
  /\ k \in Nat /\ src \in Seq(Chunk) /\ body \in Seq(Chunk) /\ sink \in Seq(Chunk)
  /\ read \in Seq(Chunk)
  /\ Len(src) \in Nat /\ Len(body) \in Nat /\ Len(sink) \in Nat /\ Len(read) \in Nat
  /\ Chain(w, src, k - Len(src)) /\ Chain(w, read, 0) /\ Chain(w, sink, Len(read))
  /\ Len(read) + Len(sink) <= k
  /\ rcv # "done" => /\ Chain(w, body, Len(read) + Len(sink))
                     /\ Len(read) + Len(sink) + Len(body) + Len(src) <= k
  /\ rcv # "done" /\ snd # "done" /\ ~lost =>
       Len(read) + Len(sink) + Len(body) + Len(src) = k

\* What a flow is made of.
LEMMA FlowParts ==
  ASSUME NEW w \in Ends, NEW k, NEW src, NEW shut, NEW left, NEW snd, NEW body, NEW fin, NEW rcv,
         NEW sink, NEW read, NEW deaf, NEW lost,
         Flow(w, k, src, shut, left, snd, body, fin, rcv, sink, read, deaf, lost)
  PROVE  Parts(w, k, src, snd, body, rcv, sink, read, lost)
BY LenProperties, Zenon DEF Flow, Parts

\* The reader has the writer's chunks from the first one on, and no more than were written.
LEMMA FlowReader ==
  ASSUME NEW w \in Ends, NEW k, NEW src, NEW shut, NEW left, NEW snd, NEW body, NEW fin, NEW rcv,
         NEW sink, NEW read, NEW deaf, NEW lost,
         Flow(w, k, src, shut, left, snd, body, fin, rcv, sink, read, deaf, lost)
  PROVE  Chain(w, read, 0) /\ Len(read) <= k
<1>1. Parts(w, k, src, snd, body, rcv, sink, read, lost)
  BY FlowParts, Zenon
<1> QED
  BY <1>1 DEF Parts

\* The writer writes a chunk.
LEMMA FlowWrite ==
  ASSUME NEW w \in Ends, NEW k, NEW src, NEW shut, NEW left, NEW snd, NEW body, NEW fin, NEW rcv,
         NEW sink, NEW read, NEW deaf, NEW lost,
         Flow(w, k, src, shut, left, snd, body, fin, rcv, sink, read, deaf, lost),
         ~shut, ~left
  PROVE  Flow(w, k + 1, Append(src, [from |-> w, n |-> k + 1]), shut, left, snd, body, fin, rcv,
              sink, read, deaf, lost)
<1>p. Parts(w, k, src, snd, body, rcv, sink, read, lost)
  BY FlowParts, Zenon
<1> DEFINE c == [from |-> w, n |-> k + 1]
<1>1. c = [from |-> w, n |-> (k - Len(src)) + Len(src) + 1]
  BY <1>p DEF Parts
<1>2. /\ Append(src, c) \in Seq(Chunk) /\ Len(Append(src, c)) = Len(src) + 1
      /\ Chain(w, Append(src, c), k - Len(src))
  BY <1>p, <1>1, ChainAppend DEF Parts
<1>3. (k + 1) - Len(Append(src, c)) = k - Len(src) /\ k + 1 \in Nat
  BY <1>p, <1>2 DEF Parts
<1>4. ~fin
  BY Zenon DEF Flow
<1> DEFINE s == Append(src, c)
<1>5. /\ s \in Seq(Chunk) /\ Len(s) = Len(src) + 1 /\ Chain(w, s, (k + 1) - Len(s))
  BY <1>2, <1>3, Zenon
<1> HIDE DEF c, s
<1>6. Flow(w, k + 1, s, shut, left, snd, body, fin, rcv, sink, read, deaf, lost)
  BY <1>p, <1>3, <1>4, <1>5 DEF Parts, Flow
<1> QED
  BY <1>6, Zenon DEF c, s

\* The sending pump moves a chunk into the body.
LEMMA FlowSend ==
  ASSUME NEW w \in Ends, NEW k, NEW src, NEW shut, NEW left, NEW snd, NEW body, NEW fin, NEW rcv,
         NEW sink, NEW read, NEW deaf, NEW lost,
         Flow(w, k, src, shut, left, snd, body, fin, rcv, sink, read, deaf, lost),
         snd = "run", ~lost, src # <<>>
  PROVE  Flow(w, k, Tail(src), shut, left, snd, Append(body, Head(src)), fin, rcv,
              sink, read, deaf, lost)
<1>p. Parts(w, k, src, snd, body, rcv, sink, read, lost)
  BY FlowParts, Zenon
<1>1. /\ Tail(src) \in Seq(Chunk) /\ Len(Tail(src)) = Len(src) - 1
      /\ Head(src) = [from |-> w, n |-> (k - Len(src)) + 1]
      /\ Chain(w, Tail(src), (k - Len(src)) + 1)
  BY <1>p, ChainTail DEF Parts
<1>2. k - Len(Tail(src)) = (k - Len(src)) + 1
  BY <1>p, <1>1 DEF Parts
<1>3. ~fin
  BY Zenon DEF Flow
<1>4. CASE rcv = "done"
  <2>1. Append(body, Head(src)) \in Seq(Chunk)
    <3>1. Head(src) \in Chunk
      BY <1>p, <1>1 DEF Parts, Chunk, Ends
    <3> QED
      BY <1>p, <3>1, AppendProperties, Zenon DEF Parts
  <2> QED
    BY <1>p, <1>1, <1>2, <1>3, <1>4, <2>1, Zenon DEF Parts, Flow
<1>5. CASE rcv # "done"
  <2>1. (k - Len(src)) + 1 = (Len(read) + Len(sink)) + Len(body) + 1
    <3>1. /\ Len(read) + Len(sink) + Len(body) + Len(src) = k /\ Len(src) \in Nat
          /\ Len(body) \in Nat /\ Len(sink) \in Nat /\ Len(read) \in Nat
      BY <1>p, <1>5, Zenon DEF Parts
    <3> QED
      BY <3>1
  <2> DEFINE h == Head(src)
             b == Append(body, h)
             s == Tail(src)
  <2>2. h = [from |-> w, n |-> (Len(read) + Len(sink)) + Len(body) + 1]
    BY <1>1, <2>1, Zenon
  <2> HIDE DEF h
  <2>3. b \in Seq(Chunk) /\ Len(b) = Len(body) + 1 /\ Chain(w, b, Len(read) + Len(sink))
    BY <1>p, <1>5, <2>2, ChainAppend DEF Parts
  <2>4. /\ b \in Seq(Chunk) /\ Len(b) = Len(body) + 1 /\ Chain(w, b, Len(read) + Len(sink))
        /\ s \in Seq(Chunk) /\ Len(s) = Len(src) - 1 /\ Chain(w, s, k - Len(s))
    BY <1>1, <1>2, <2>3, Zenon
  <2> HIDE DEF b, s
  <2>5. (Len(read) + Len(sink)) + Len(b) + Len(s) = k
    <3>1. /\ k \in Nat /\ Len(src) \in Nat /\ Len(body) \in Nat /\ Len(sink) \in Nat
          /\ Len(read) \in Nat
      BY <1>p, Zenon DEF Parts
    <3> QED
      BY <2>1, <2>4, <3>1
  <2>6. Flow(w, k, s, shut, left, snd, b, fin, rcv, sink, read, deaf, lost)
    BY <1>p, <1>3, <1>5, <2>4, <2>5, Zenon DEF Parts, Flow
  <2> QED
    BY <2>6, Zenon DEF b, s, h
<1> QED
  BY <1>4, <1>5, Zenon

\* The sending pump stops, with the chunk it could not send.
LEMMA FlowSendFails ==
  ASSUME NEW w \in Ends, NEW k, NEW src, NEW shut, NEW left, NEW snd, NEW body, NEW fin, NEW rcv,
         NEW sink, NEW read, NEW deaf, NEW lost,
         Flow(w, k, src, shut, left, snd, body, fin, rcv, sink, read, deaf, lost),
         snd = "run", src # <<>>
  PROVE  Flow(w, k, Tail(src), shut, left, "done", body, fin, rcv, sink, read, deaf, lost)
<1>p. Parts(w, k, src, snd, body, rcv, sink, read, lost)
  BY FlowParts, Zenon
<1>1. /\ Tail(src) \in Seq(Chunk) /\ Len(Tail(src)) = Len(src) - 1
      /\ Chain(w, Tail(src), (k - Len(src)) + 1)
  BY <1>p, ChainTail DEF Parts
<1>2. k - Len(Tail(src)) = (k - Len(src)) + 1
  BY <1>p, <1>1 DEF Parts
<1>3. ~fin
  BY Zenon DEF Flow
<1> DEFINE s == Tail(src)
<1>4. s \in Seq(Chunk) /\ Len(s) = Len(src) - 1 /\ Chain(w, s, k - Len(s))
  BY <1>1, <1>2, Zenon
<1> HIDE DEF s
<1>5. Flow(w, k, s, shut, left, "done", body, fin, rcv, sink, read, deaf, lost)
  BY <1>p, <1>3, <1>4 DEF Parts, Flow
<1> QED
  BY <1>5, Zenon DEF s

\* The sending pump stops.
LEMMA FlowStop ==
  ASSUME NEW w \in Ends, NEW k, NEW src, NEW shut, NEW left, NEW snd, NEW body, NEW fin, NEW rcv,
         NEW sink, NEW read, NEW deaf, NEW lost,
         Flow(w, k, src, shut, left, snd, body, fin, rcv, sink, read, deaf, lost)
  PROVE  Flow(w, k, src, shut, left, "done", body, fin, rcv, sink, read, deaf, lost)
BY Zenon DEF Flow

\* The sending pump finishes the body.
LEMMA FlowFinish ==
  ASSUME NEW w \in Ends, NEW k, NEW src, NEW shut, NEW left, NEW snd, NEW body, NEW fin, NEW rcv,
         NEW sink, NEW read, NEW deaf, NEW lost,
         Flow(w, k, src, shut, left, snd, body, fin, rcv, sink, read, deaf, lost),
         snd = "run", src = <<>>, shut \/ left, ~lost
  PROVE  Flow(w, k, src, shut, left, "done", body, TRUE, rcv, sink, read, deaf, lost)
<1>p. Parts(w, k, src, snd, body, rcv, sink, read, lost)
  BY FlowParts, Zenon
<1>1. ~fin /\ Len(src) = 0
  BY Zenon DEF Flow
<1> QED
  BY <1>p, <1>1 DEF Parts, Flow

\* The connection breaks, and what is under way is lost.
LEMMA FlowLose ==
  ASSUME NEW w \in Ends, NEW k, NEW src, NEW shut, NEW left, NEW snd, NEW body, NEW fin, NEW rcv,
         NEW sink, NEW read, NEW deaf, NEW lost,
         Flow(w, k, src, shut, left, snd, body, fin, rcv, sink, read, deaf, lost)
  PROVE  Flow(w, k, src, shut, left, snd, <<>>, fin, rcv, sink, read, deaf, TRUE)
<1>p. Parts(w, k, src, snd, body, rcv, sink, read, lost)
  BY FlowParts, Zenon
<1>1. <<>> \in Seq(Chunk) /\ Len(<<>>) = 0 /\ Chain(w, <<>>, Len(read) + Len(sink))
  BY DEF Chain
<1> QED
  BY <1>p, <1>1 DEF Parts, Flow

\* The receiving pump delivers a chunk.
LEMMA FlowDeliver ==
  ASSUME NEW w \in Ends, NEW k, NEW src, NEW shut, NEW left, NEW snd, NEW body, NEW fin, NEW rcv,
         NEW sink, NEW read, NEW deaf, NEW lost,
         Flow(w, k, src, shut, left, snd, body, fin, rcv, sink, read, deaf, lost),
         rcv = "run", body # <<>>
  PROVE  Flow(w, k, src, shut, left, snd, Tail(body), fin, rcv, Append(sink, Head(body)),
              read, deaf, lost)
<1>p. Parts(w, k, src, snd, body, rcv, sink, read, lost)
  BY FlowParts, Zenon
<1> DEFINE d == Len(read) + Len(sink)
<1>1. d \in Nat /\ rcv # "done"
  BY <1>p DEF Parts
<1>2. /\ Tail(body) \in Seq(Chunk) /\ Len(Tail(body)) = Len(body) - 1
      /\ Head(body) = [from |-> w, n |-> d + 1] /\ Chain(w, Tail(body), d + 1) /\ Len(body) > 0
  BY <1>p, <1>1, ChainTail DEF Parts
<1> DEFINE h == Head(body)
           b == Tail(body)
           s == Append(sink, h)
<1>3. h = [from |-> w, n |-> Len(read) + Len(sink) + 1] /\ Len(body) > 0
  BY <1>2, Zenon
<1> HIDE DEF h
<1>4. s \in Seq(Chunk) /\ Len(s) = Len(sink) + 1 /\ Chain(w, s, Len(read))
  BY <1>p, <1>3, ChainAppend DEF Parts
<1>5. /\ b \in Seq(Chunk) /\ Len(b) = Len(body) - 1 /\ Chain(w, b, d + 1)
      /\ s \in Seq(Chunk) /\ Len(s) = Len(sink) + 1 /\ Chain(w, s, Len(read))
  BY <1>2, <1>4, Zenon
<1> HIDE DEF b, s
<1>6. Len(read) + Len(s) = d + 1 /\ d + 1 <= k
  <2>1. /\ d + Len(body) + Len(src) <= k /\ Len(src) \in Nat /\ Len(body) \in Nat /\ k \in Nat
        /\ Len(sink) \in Nat /\ Len(read) \in Nat
    BY <1>p, <1>1, Zenon DEF Parts
  <2> QED
    BY <1>5, <1>3, <2>1
<1>7. Len(read) + Len(s) + Len(b) + Len(src) = d + Len(body) + Len(src)
      /\ Len(read) + Len(s) + Len(b) = d + Len(body)
  BY <1>p, <1>1, <1>5, <1>6 DEF Parts
<1>8. Chain(w, b, Len(read) + Len(s))
  BY <1>5, <1>6, Zenon
<1>9. Flow(w, k, src, shut, left, snd, b, fin, rcv, s, read, deaf, lost)
  BY <1>p, <1>1, <1>5, <1>6, <1>7, <1>8, Zenon DEF Parts, Flow
<1> QED
  BY <1>9, Zenon DEF b, s, h

\* The receiving pump stops, for its reader is gone.
LEMMA FlowDeaf ==
  ASSUME NEW w \in Ends, NEW k, NEW src, NEW shut, NEW left, NEW snd, NEW body, NEW fin, NEW rcv,
         NEW sink, NEW read, NEW deaf, NEW lost,
         Flow(w, k, src, shut, left, snd, body, fin, rcv, sink, read, deaf, lost),
         rcv = "run", body # <<>>, deaf
  PROVE  Flow(w, k, src, shut, left, snd, Tail(body), fin, "done", sink, read, deaf, lost)
<1>p. Parts(w, k, src, snd, body, rcv, sink, read, lost)
  BY FlowParts, Zenon
<1>1. Tail(body) \in Seq(Chunk)
  BY <1>p, HeadTailProperties, Zenon DEF Parts
<1> QED
  BY <1>p, <1>1, Zenon DEF Parts, Flow

\* The receiving pump meets the end of the body, or a failure.
LEMMA FlowEnd ==
  ASSUME NEW w \in Ends, NEW k, NEW src, NEW shut, NEW left, NEW snd, NEW body, NEW fin, NEW rcv,
         NEW sink, NEW read, NEW deaf, NEW lost,
         Flow(w, k, src, shut, left, snd, body, fin, rcv, sink, read, deaf, lost),
         lost \/ (rcv = "run" /\ body = <<>> /\ fin)
  PROVE  Flow(w, k, src, shut, left, snd, body, fin, "done", sink, read, deaf, lost)
<1>p. Parts(w, k, src, snd, body, rcv, sink, read, lost)
  BY FlowParts, Zenon
<1> QED
  BY <1>p DEF Parts, Flow

\* The reader reads a chunk.
LEMMA FlowRead ==
  ASSUME NEW w \in Ends, NEW k, NEW src, NEW shut, NEW left, NEW snd, NEW body, NEW fin, NEW rcv,
         NEW sink, NEW read, NEW deaf, NEW lost,
         Flow(w, k, src, shut, left, snd, body, fin, rcv, sink, read, deaf, lost),
         sink # <<>>
  PROVE  Flow(w, k, src, shut, left, snd, body, fin, rcv, Tail(sink),
              Append(read, Head(sink)), deaf, lost)
<1>p. Parts(w, k, src, snd, body, rcv, sink, read, lost)
  BY FlowParts, Zenon
<1>1. /\ Tail(sink) \in Seq(Chunk) /\ Len(Tail(sink)) = Len(sink) - 1
      /\ Head(sink) = [from |-> w, n |-> Len(read) + 1] /\ Chain(w, Tail(sink), Len(read) + 1)
  BY <1>p, ChainTail DEF Parts
<1> DEFINE h == Head(sink)
           r == Append(read, h)
           s == Tail(sink)
<1>2. h = [from |-> w, n |-> 0 + Len(read) + 1]
  BY <1>p, <1>1 DEF Parts
<1> HIDE DEF h
<1>3. r \in Seq(Chunk) /\ Len(r) = Len(read) + 1 /\ Chain(w, r, 0)
  BY <1>p, <1>2, ChainAppend DEF Parts
<1>4. /\ r \in Seq(Chunk) /\ Len(r) = Len(read) + 1 /\ Chain(w, r, 0)
      /\ s \in Seq(Chunk) /\ Len(s) = Len(sink) - 1 /\ Chain(w, s, Len(r))
  BY <1>1, <1>3, Zenon
<1> HIDE DEF r, s
<1>5. Len(r) + Len(s) = Len(read) + Len(sink)
  BY <1>p, <1>4 DEF Parts
<1>6. Flow(w, k, src, shut, left, snd, body, fin, rcv, s, r, deaf, lost)
  BY <1>p, <1>4, <1>5, Zenon DEF Parts, Flow
<1> QED
  BY <1>6, Zenon DEF r, s, h

-----------------------------------------------------------------------------
(* The inductive invariant: both directions flow, unless the request asked *)
(* for something else and there is nothing but a decoy's answer.           *)

TypeOK ==
  /\ mode \in {"h1", "h3", "bidi"} /\ asks \in {"tunnel", "other"}
  /\ mode = "bidi" => asks = "tunnel"
  /\ pipe \in [{"cu", "cd", "su", "sd"} -> [buf : Seq(Chunk), shut : BOOLEAN]]
  /\ gone \in [Ends -> BOOLEAN] /\ eof \in [Ends -> BOOLEAN]
  /\ task \in [Pumps -> {"off", "wait", "run", "done"}]
  /\ net \in [status : {"none", "ok", "refused", "decoy"}, lost : BOOLEAN, req : Seq(Chunk),
              reqFin : BOOLEAN, resp : Seq(Chunk), respFin : BOOLEAN]
  /\ wrote \in [Ends -> Nat] /\ got \in [Ends -> Seq(Chunk)]

\* From the caller to the session, and back.
Up == Flow("c", wrote["c"], pipe["cu"].buf, pipe["cu"].shut, gone["c"], task["cUp"], net.req,
           net.reqFin, task["sUp"], pipe["su"].buf, got["s"], gone["s"], net.lost)
Down == Flow("s", wrote["s"], pipe["sd"].buf, pipe["sd"].shut, gone["s"], task["sDown"], net.resp,
             net.respFin, task["cDown"], pipe["cd"].buf, got["c"], gone["c"], net.lost)

FromDecoy(s) == \A i \in 1..Len(s) : s[i].from = "decoy"

\* An end that has read the end reads nothing more, and the pumps of the server run once it
\* has accepted the exchange.
EndInv ==
  /\ pipe["su"].shut \/ eof["s"] => task["sUp"] = "done"
  /\ pipe["cd"].shut \/ eof["c"] => task["cDown"] = "done"
  /\ eof["s"] => pipe["su"].buf = <<>>
  /\ eof["c"] => pipe["cd"].buf = <<>>
  /\ net.status = "none" => task["sUp"] = "off" /\ task["sDown"] = "off"

CarrierInv ==
  /\ TypeOK /\ EndInv
  /\ asks = "tunnel" => Up /\ Down /\ net.status \in {"none", "ok"}
  /\ asks = "other" => /\ task["sUp"] = "off" /\ task["sDown"] = "off" /\ got["s"] = <<>>
                       /\ FromDecoy(net.resp) /\ FromDecoy(pipe["cd"].buf) /\ FromDecoy(got["c"])

\* What is left of the decoy's chunks is the decoy's.
LEMMA DecoyTail ==
  ASSUME NEW s \in Seq(Chunk), s # <<>>, FromDecoy(s)
  PROVE  Head(s).from = "decoy" /\ FromDecoy(Tail(s)) /\ Tail(s) \in Seq(Chunk)
<1>1. /\ Len(s) \in Nat /\ Len(s) > 0 /\ Head(s) = s[1] /\ Tail(s) \in Seq(Chunk)
      /\ Len(Tail(s)) = Len(s) - 1 /\ \A i \in 1..Len(Tail(s)) : Tail(s)[i] = s[i + 1]
  BY EmptySeq, LenProperties, HeadTailProperties
<1> QED
  BY <1>1 DEF FromDecoy

\* One more chunk of the decoy among the decoy's.
LEMMA DecoyAppend ==
  ASSUME NEW s \in Seq(Chunk), FromDecoy(s), NEW c \in Chunk, c.from = "decoy"
  PROVE  FromDecoy(Append(s, c))
<1>1. /\ Len(Append(s, c)) = Len(s) + 1 /\ Len(s) \in Nat /\ Append(s, c)[Len(s) + 1] = c
      /\ \A i \in 1..Len(s) : Append(s, c)[i] = s[i]
  BY AppendProperties, LenProperties
<1> QED
  BY <1>1 DEF FromDecoy

\* A chunk of a sequence is one, and so is what is left.
LEMMA ChunkTail ==
  ASSUME NEW s \in Seq(Chunk), s # <<>>
  PROVE  Head(s) \in Chunk /\ Tail(s) \in Seq(Chunk)
BY HeadTailProperties, Zenon

\* A chunk appended to chunks.
LEMMA ChunkAppend ==
  ASSUME NEW s \in Seq(Chunk), NEW c \in Chunk
  PROVE  Append(s, c) \in Seq(Chunk)
BY AppendProperties, Zenon

\* A pipe's chunks are replaced.
LEMMA PipeBuf ==
  ASSUME NEW ps \in [{"cu", "cd", "su", "sd"} -> [buf : Seq(Chunk), shut : BOOLEAN]],
         NEW q \in {"cu", "cd", "su", "sd"}, NEW b \in Seq(Chunk)
  PROVE  [ps EXCEPT ![q].buf = b] \in
           [{"cu", "cd", "su", "sd"} -> [buf : Seq(Chunk), shut : BOOLEAN]]
BY Zenon

-----------------------------------------------------------------------------
(* It holds initially, and every step keeps it. *)

\* The invariant holds when the exchange begins.
LEMMA CarrierInit ==
  ASSUME Init
  PROVE  CarrierInv
<1>1. TypeOK
  BY DEF TypeOK, Init, DialStreamOne, DialH3, DialBidi, Ends, Pumps, Empty
<1>2. /\ task["cUp"] = "run" /\ task["sUp"] = "off" /\ task["sDown"] = "off"
      /\ task["cDown"] \in {"wait", "run"}
  BY DEF Init, DialStreamOne, DialH3, DialBidi
<1>3. /\ \A q \in {"cu", "cd", "su", "sd"} : pipe[q].buf = <<>> /\ pipe[q].shut = FALSE
      /\ \A e \in Ends : gone[e] = FALSE /\ eof[e] = FALSE /\ wrote[e] = 0 /\ got[e] = <<>>
      /\ net.status = "none" /\ net.lost = FALSE /\ net.req = <<>> /\ net.reqFin = FALSE
      /\ net.resp = <<>> /\ net.respFin = FALSE
  BY Zenon DEF Init, Empty, Ends
<1>4. EndInv
  BY <1>2, <1>3, Zenon DEF EndInv, Ends
<1>5. "c" \in Ends /\ "s" \in Ends
  BY Zenon DEF Ends
<1>6. Up /\ Down
  BY <1>2, <1>3, <1>5, FlowEmpty, Zenon DEF Up, Down
<1>7. FromDecoy(<<>>)
  BY DEF FromDecoy
<1> QED
  BY <1>1, <1>2, <1>3, <1>4, <1>6, <1>7, Zenon DEF CarrierInv, Ends

\* The application writes a chunk.
LEMMA WriteKeeps ==
  ASSUME CarrierInv, NEW e \in Ends, Write(e)
  PROVE  CarrierInv'
<1> DEFINE c == [from |-> e, n |-> wrote[e] + 1]
<1>1. /\ e \in {"c", "s"} /\ Out[e] \in {"cu", "sd"} /\ wrote[e] \in Nat /\ c \in Chunk
      /\ pipe[Out[e]].buf \in Seq(Chunk)
  BY DEF Ends, Out, CarrierInv, TypeOK, Chunk
<1>2. /\ UNCHANGED <<mode, asks, decoy, gone, task, net, got, eof>>
      /\ ~gone[e] /\ ~pipe[Out[e]].shut
      /\ wrote' = [wrote EXCEPT ![e] = wrote[e] + 1]
      /\ pipe' = [pipe EXCEPT ![Out[e]].buf = Append(pipe[Out[e]].buf, c)]
  BY <1>1, Zenon DEF Write, Present, Rigid, CarrierInv, TypeOK
<1>3. Append(pipe[Out[e]].buf, c) \in Seq(Chunk)
  BY <1>1, ChunkAppend, Zenon
<1> HIDE DEF c
<1>4. TypeOK'
  <2>1. pipe' \in [{"cu", "cd", "su", "sd"} -> [buf : Seq(Chunk), shut : BOOLEAN]]
    BY <1>1, <1>2, <1>3, PipeBuf, Zenon DEF CarrierInv, TypeOK
  <2>2. wrote' \in [Ends -> Nat]
    BY <1>1, <1>2, SMTT(30) DEF CarrierInv, TypeOK
  <2> QED
    BY <1>2, <2>1, <2>2, Zenon DEF CarrierInv, TypeOK
<1>5. UNCHANGED <<pipe["cd"], pipe["su"]>>
  <2>1. DOMAIN pipe = {"cu", "cd", "su", "sd"} /\ Out[e] \in {"cu", "sd"}
    BY <1>1, Zenon DEF CarrierInv, TypeOK
  <2> QED
    BY <1>2, <2>1, Zenon
<1>6. EndInv'
  BY <1>2, <1>5, Zenon DEF CarrierInv, EndInv
<1>7. ASSUME asks = "tunnel" PROVE Up' /\ Down'
  <2>1. CASE e = "c"
    <3>1. /\ pipe'["cu"].buf = Append(pipe["cu"].buf, [from |-> "c", n |-> wrote["c"] + 1])
          /\ wrote'["c"] = wrote["c"] + 1 /\ wrote'["s"] = wrote["s"]
          /\ pipe'["cu"].shut = pipe["cu"].shut /\ pipe'["sd"] = pipe["sd"]
          /\ ~pipe["cu"].shut /\ ~gone["c"]
      BY <1>1, <1>2, <2>1, SMTT(30) DEF CarrierInv, TypeOK, Out, Ends, c
    <3>2. Down'
      BY <1>2, <1>5, <1>7, <3>1, Zenon DEF CarrierInv, Down
    <3>3. Up'
      <4>1. Up
        BY <1>7, Zenon DEF CarrierInv
      <4>2. Flow("c", wrote["c"] + 1,
                 Append(pipe["cu"].buf, [from |-> "c", n |-> wrote["c"] + 1]), pipe["cu"].shut,
                 gone["c"], task["cUp"], net.req, net.reqFin, task["sUp"], pipe["su"].buf,
                 got["s"], gone["s"], net.lost)
        BY <1>2, <1>5, <3>1, <4>1, FlowWrite, Zenon DEF Up, Ends
      <4> QED
        BY <1>2, <1>5, <3>1, <4>2, Zenon DEF Up
    <3> QED
      BY <3>2, <3>3, Zenon
  <2>2. CASE e = "s"
    <3>1. /\ pipe'["sd"].buf = Append(pipe["sd"].buf, [from |-> "s", n |-> wrote["s"] + 1])
          /\ wrote'["s"] = wrote["s"] + 1 /\ wrote'["c"] = wrote["c"]
          /\ pipe'["sd"].shut = pipe["sd"].shut /\ pipe'["cu"] = pipe["cu"]
          /\ ~pipe["sd"].shut /\ ~gone["s"]
      BY <1>1, <1>2, <2>2, SMTT(30) DEF CarrierInv, TypeOK, Out, Ends, c
    <3>2. Up'
      BY <1>2, <1>5, <1>7, <3>1, Zenon DEF CarrierInv, Up
    <3>3. Down'
      <4>1. Down
        BY <1>7, Zenon DEF CarrierInv
      <4>2. Flow("s", wrote["s"] + 1,
                 Append(pipe["sd"].buf, [from |-> "s", n |-> wrote["s"] + 1]), pipe["sd"].shut,
                 gone["s"], task["sDown"], net.resp, net.respFin, task["cDown"], pipe["cd"].buf,
                 got["c"], gone["c"], net.lost)
        BY <1>2, <1>5, <3>1, <4>1, FlowWrite, Zenon DEF Down, Ends
      <4> QED
        BY <1>2, <1>5, <3>1, <4>2, Zenon DEF Down
    <3> QED
      BY <3>2, <3>3, Zenon
  <2> QED
    BY <1>1, <2>1, <2>2, Zenon
<1> QED
  BY <1>2, <1>4, <1>5, <1>6, <1>7, Zenon DEF CarrierInv

\* The application shuts its side down.
LEMMA ShutDownKeeps ==
  ASSUME CarrierInv, NEW e \in Ends, ShutDown(e)
  PROVE  CarrierInv'
<1>1. e \in {"c", "s"} /\ Out[e] \in {"cu", "sd"}
  BY DEF Ends, Out
<1>2. /\ UNCHANGED <<mode, asks, decoy, gone, task, net, wrote, got, eof>>
      /\ pipe' = [pipe EXCEPT ![Out[e]].shut = TRUE]
  BY Zenon DEF ShutDown, Rigid
<1>3. TypeOK'
  BY <1>1, <1>2, ZenonT(60) DEF CarrierInv, TypeOK
<1>4. /\ UNCHANGED <<pipe["cd"], pipe["su"], pipe["cu"].buf, pipe["sd"].buf>>
      /\ pipe["cu"].shut => pipe'["cu"].shut
      /\ pipe["sd"].shut => pipe'["sd"].shut
  BY <1>1, <1>2 DEF CarrierInv, TypeOK
<1>5. EndInv'
  BY <1>2, <1>4, Zenon DEF CarrierInv, EndInv
<1>6. ASSUME asks = "tunnel" PROVE Up' /\ Down'
  <2>1. Up'
    BY <1>2, <1>4, <1>6, ZenonT(60) DEF CarrierInv, Up, Flow
  <2>2. Down'
    BY <1>2, <1>4, <1>6, ZenonT(60) DEF CarrierInv, Down, Flow
  <2> QED
    BY <2>1, <2>2
<1> QED
  BY <1>2, <1>3, <1>4, <1>5, <1>6, Zenon DEF CarrierInv

\* The application drops its end.
LEMMA DropKeeps ==
  ASSUME CarrierInv, NEW e \in Ends, Drop(e)
  PROVE  CarrierInv'
<1>1. /\ UNCHANGED <<mode, asks, decoy, pipe, task, net, wrote, got, eof>>
      /\ gone' = [gone EXCEPT ![e] = TRUE]
  BY Zenon DEF Drop, Rigid
<1>2. TypeOK' /\ (gone["c"] => gone'["c"]) /\ (gone["s"] => gone'["s"])
  BY <1>1 DEF CarrierInv, TypeOK, Ends
<1>3. EndInv'
  BY <1>1, Zenon DEF CarrierInv, EndInv
<1>4. ASSUME asks = "tunnel" PROVE Up' /\ Down'
  <2>1. Up'
    BY <1>1, <1>2, <1>4, Zenon DEF CarrierInv, Up, Flow
  <2>2. Down'
    BY <1>1, <1>2, <1>4, Zenon DEF CarrierInv, Down, Flow
  <2> QED
    BY <2>1, <2>2
<1> QED
  BY <1>1, <1>2, <1>3, <1>4, Zenon DEF CarrierInv

\* The application reads the end of its stream.
LEMMA ReadEndKeeps ==
  ASSUME CarrierInv, NEW e \in Ends, pipe[In[e]].buf = <<>>, pipe[In[e]].shut \/ BridgeGone(e),
         eof' = [eof EXCEPT ![e] = TRUE],
         UNCHANGED <<mode, asks, decoy, pipe, gone, task, net, wrote, got>>
  PROVE  CarrierInv'
<1>1. e = "s" => pipe["su"].buf = <<>> /\ task["sUp"] = "done"
  BY DEF CarrierInv, EndInv, In, BridgeGone, Pumps, Owner
<1>2. e = "c" => pipe["cd"].buf = <<>> /\ task["cDown"] = "done"
  BY DEF CarrierInv, EndInv, In, BridgeGone, Pumps, Owner
<1>3. TypeOK' /\ \A f \in Ends : eof'[f] => eof[f] \/ f = e
  BY ZenonT(60) DEF CarrierInv, TypeOK
<1>4. EndInv'
  BY <1>1, <1>2, <1>3, Zenon DEF CarrierInv, EndInv, Ends
<1>5. (Up => Up') /\ (Down => Down')
  BY Zenon DEF Up, Down
<1> QED
  BY <1>3, <1>4, <1>5, Zenon DEF CarrierInv

\* The application reads a chunk.
LEMMA ReadChunkKeeps ==
  ASSUME CarrierInv, NEW e \in Ends, Present(e), ~eof[e], pipe[In[e]].buf # <<>>,
         got' = [got EXCEPT ![e] = Append(@, Head(pipe[In[e]].buf))],
         pipe' = [pipe EXCEPT ![In[e]].buf = Tail(@)],
         UNCHANGED <<mode, asks, decoy, gone, task, net, wrote, eof>>
  PROVE  CarrierInv'
<1> DEFINE q == In[e]
<1>1. /\ q \in {"cu", "cd", "su", "sd"} /\ pipe[q].buf \in Seq(Chunk) /\ got[e] \in Seq(Chunk)
      /\ e \in {"c", "s"}
  BY SMTT(30) DEF CarrierInv, TypeOK, In, Ends
<1>2. Head(pipe[q].buf) \in Chunk /\ Tail(pipe[q].buf) \in Seq(Chunk)
  BY <1>1, ChunkTail, Zenon
<1>3. Append(got[e], Head(pipe[q].buf)) \in Seq(Chunk)
  BY <1>1, <1>2, ChunkAppend, Zenon
<1>4. pipe' = [pipe EXCEPT ![q].buf = Tail(pipe[q].buf)]
  BY <1>1, Zenon DEF CarrierInv, TypeOK
<1>5. TypeOK'
  <2>1. pipe' \in [{"cu", "cd", "su", "sd"} -> [buf : Seq(Chunk), shut : BOOLEAN]]
    <3>1. pipe \in [{"cu", "cd", "su", "sd"} -> [buf : Seq(Chunk), shut : BOOLEAN]]
      BY Zenon DEF CarrierInv, TypeOK
    <3> DEFINE t == Tail(pipe[q].buf)
    <3>2. t \in Seq(Chunk) /\ pipe' = [pipe EXCEPT ![q].buf = t]
      BY <1>2, <1>4, Zenon
    <3> HIDE DEF q, t
    <3>3. [pipe EXCEPT ![q].buf = t] \in
            [{"cu", "cd", "su", "sd"} -> [buf : Seq(Chunk), shut : BOOLEAN]]
      BY <1>1, <3>1, <3>2, PipeBuf, Zenon
    <3> QED
      BY <3>2, <3>3, Zenon
  <2>2. got' \in [Ends -> Seq(Chunk)]
    BY <1>1, <1>3, Zenon DEF CarrierInv, TypeOK
  <2> QED
    BY <2>1, <2>2, Zenon DEF CarrierInv, TypeOK
<1>6. CASE e = "s"
  <2>1. /\ pipe'["su"].buf = Tail(pipe["su"].buf)
        /\ got'["s"] = Append(got["s"], Head(pipe["su"].buf))
        /\ pipe'["su"].shut = pipe["su"].shut /\ got'["c"] = got["c"] /\ pipe["su"].buf # <<>>
        /\ UNCHANGED <<pipe["cu"], pipe["cd"], pipe["sd"]>>
    BY <1>1, <1>6 DEF CarrierInv, TypeOK, In, Ends
  <2>2. EndInv'
    BY <1>6, <2>1, Zenon DEF CarrierInv, EndInv
  <2>3. asks = "tunnel"
    BY <1>6, Zenon DEF CarrierInv, TypeOK, Present
  <2>4. Down'
    BY <2>1, <2>3, Zenon DEF CarrierInv, Down
  <2>5. Up'
    <3>1. Up
      BY <2>3, Zenon DEF CarrierInv
    <3>2. Flow("c", wrote["c"], pipe["cu"].buf, pipe["cu"].shut, gone["c"], task["cUp"], net.req,
               net.reqFin, task["sUp"], Tail(pipe["su"].buf),
               Append(got["s"], Head(pipe["su"].buf)), gone["s"], net.lost)
      BY <2>1, <3>1, FlowRead, Zenon DEF Up, Ends
    <3> QED
      BY <2>1, <3>2, Zenon DEF Up
  <2> QED
    BY <1>5, <2>2, <2>3, <2>4, <2>5, Zenon DEF CarrierInv
<1>7. CASE e = "c"
  <2>1. /\ pipe'["cd"].buf = Tail(pipe["cd"].buf)
        /\ got'["c"] = Append(got["c"], Head(pipe["cd"].buf))
        /\ pipe'["cd"].shut = pipe["cd"].shut /\ got'["s"] = got["s"] /\ pipe["cd"].buf # <<>>
        /\ UNCHANGED <<pipe["cu"], pipe["su"], pipe["sd"]>>
    BY <1>1, <1>7 DEF CarrierInv, TypeOK, In, Ends
  <2>2. EndInv'
    BY <1>7, <2>1, Zenon DEF CarrierInv, EndInv
  <2>3. ASSUME asks = "tunnel" PROVE Up' /\ Down'
    <3>1. Up'
      BY <2>1, <2>3, Zenon DEF CarrierInv, Up
    <3>2. Down'
      <4>1. Down
        BY <2>3, Zenon DEF CarrierInv
      <4>2. Flow("s", wrote["s"], pipe["sd"].buf, pipe["sd"].shut, gone["s"], task["sDown"],
                 net.resp, net.respFin, task["cDown"], Tail(pipe["cd"].buf),
                 Append(got["c"], Head(pipe["cd"].buf)), gone["c"], net.lost)
        BY <2>1, <4>1, FlowRead, Zenon DEF Down, Ends
      <4> QED
        BY <2>1, <4>2, Zenon DEF Down
    <3> QED
      BY <3>1, <3>2, Zenon
  <2>4. ASSUME asks = "other" PROVE FromDecoy(pipe'["cd"].buf) /\ FromDecoy(got'["c"])
    <3>1. pipe["cd"].buf \in Seq(Chunk) /\ got["c"] \in Seq(Chunk) /\ Head(pipe["cd"].buf) \in Chunk
      BY <1>1, <1>2, <1>7, Zenon DEF In
    <3>2. Head(pipe["cd"].buf).from = "decoy" /\ FromDecoy(Tail(pipe["cd"].buf))
      BY <2>1, <2>4, <3>1, DecoyTail, Zenon DEF CarrierInv
    <3>3. FromDecoy(Append(got["c"], Head(pipe["cd"].buf)))
      BY <2>4, <3>1, <3>2, DecoyAppend, Zenon DEF CarrierInv
    <3> QED
      BY <2>1, <3>2, <3>3, Zenon
  <2> QED
    BY <1>5, <2>1, <2>2, <2>3, <2>4, Zenon DEF CarrierInv
<1> QED
  BY <1>1, <1>6, <1>7, Zenon

\* Reading, of either kind.
LEMMA ReadKeeps ==
  ASSUME CarrierInv, NEW e \in Ends, Read(e)
  PROVE  CarrierInv'
<1>1. CASE pipe[In[e]].buf # <<>>
  BY <1>1, ReadChunkKeeps, Zenon DEF Read, Rigid
<1>2. CASE pipe[In[e]].buf = <<>>
  BY <1>2, ReadEndKeeps, Zenon DEF Read, Rigid
<1> QED
  BY <1>1, <1>2, Zenon

\* The client's pump sends a chunk of the request body.
LEMMA CUpSendsKeeps ==
  ASSUME CarrierInv, PumpSends("cUp")
  PROVE  CarrierInv'
<1>1. /\ UNCHANGED <<mode, asks, decoy, gone, wrote, got, eof>> /\ task["cUp"] = "run"
      /\ pipe["cu"].buf # <<>> /\ pipe["cu"].buf \in Seq(Chunk) /\ net.req \in Seq(Chunk)
      /\ pipe' = [pipe EXCEPT !["cu"].buf = Tail(pipe["cu"].buf)]
  BY Zenon DEF CarrierInv, TypeOK, PumpSends, Source, Rigid
<1>2. Head(pipe["cu"].buf) \in Chunk /\ Tail(pipe["cu"].buf) \in Seq(Chunk)
  BY <1>1, ChunkTail, Zenon
<1>3. pipe' \in [{"cu", "cd", "su", "sd"} -> [buf : Seq(Chunk), shut : BOOLEAN]]
  BY <1>1, <1>2, PipeBuf, Zenon DEF CarrierInv, TypeOK
<1>4. /\ pipe'["cu"].buf = Tail(pipe["cu"].buf) /\ pipe'["cu"].shut = pipe["cu"].shut
      /\ \A q \in {"cu", "cd", "su", "sd"} \ {"cu"} : pipe'[q] = pipe[q]
  BY <1>1, Zenon DEF CarrierInv, TypeOK
<1>5. CASE SendFails("cUp") /\ Done("cUp") /\ UNCHANGED net
  <2>1. /\ task' \in [Pumps -> {"off", "wait", "run", "done"}] /\ task'["cUp"] = "done"
        /\ \A r \in Pumps \ {"cUp"} : task'[r] = task[r]
    BY <1>5, Zenon DEF CarrierInv, TypeOK, Done, Pumps
  <2>2. TypeOK'
    BY <1>1, <1>3, <1>5, <2>1, Zenon DEF CarrierInv, TypeOK
  <2>3. EndInv'
    BY <1>1, <1>4, <1>5, <2>1, ZenonT(60) DEF CarrierInv, EndInv, Pumps
  <2>4. ASSUME asks = "tunnel" PROVE Up' /\ Down'
    <3>1. Down'
      BY <1>1, <1>4, <1>5, <2>1, <2>4, Zenon DEF CarrierInv, Down, Pumps
    <3>2. Up'
      <4>1. Up
        BY <2>4, Zenon DEF CarrierInv
      <4>2. Flow("c", wrote["c"], Tail(pipe["cu"].buf), pipe["cu"].shut, gone["c"], "done",
                 net.req, net.reqFin, task["sUp"], pipe["su"].buf, got["s"], gone["s"], net.lost)
        BY <1>1, <1>4, <1>5, <2>1, <4>1, FlowSendFails, Zenon DEF Up, Ends
      <4> QED
        BY <1>1, <1>4, <1>5, <2>1, <4>2, Zenon DEF Up, Pumps
    <3> QED
      BY <3>1, <3>2, Zenon
  <2>5. asks = "other" => /\ task'["sUp"] = "off" /\ task'["sDown"] = "off"
                          /\ FromDecoy(pipe'["cd"].buf)
    BY <1>1, <1>4, <2>1, Zenon DEF CarrierInv, Pumps
  <2> QED
    BY <1>1, <1>5, <2>2, <2>3, <2>4, <2>5, Zenon DEF CarrierInv
<1>6. CASE /\ ~SendFails("cUp") /\ UNCHANGED task
           /\ net' = [net EXCEPT !.req = Append(net.req, Head(pipe["cu"].buf))]
  <2>1. Append(net.req, Head(pipe["cu"].buf)) \in Seq(Chunk)
    BY <1>1, <1>2, ChunkAppend, Zenon
  <2>2. TypeOK'
    BY <1>1, <1>3, <1>6, <2>1, Zenon DEF CarrierInv, TypeOK
  <2>3. /\ net'.req = Append(net.req, Head(pipe["cu"].buf)) /\ ~net.lost
        /\ UNCHANGED <<net.status, net.lost, net.resp, net.reqFin, net.respFin>>
    BY <1>6, Zenon DEF CarrierInv, TypeOK, SendFails
  <2>4. EndInv'
    BY <1>1, <1>4, <1>6, <2>3, ZenonT(60) DEF CarrierInv, EndInv
  <2>5. ASSUME asks = "tunnel" PROVE Up' /\ Down'
    <3>1. Down'
      BY <1>1, <1>4, <1>6, <2>3, <2>5, Zenon DEF CarrierInv, Down
    <3>2. Up'
      <4>1. Up
        BY <2>5 DEF CarrierInv
      <4>2. Flow("c", wrote["c"], Tail(pipe["cu"].buf), pipe["cu"].shut, gone["c"], task["cUp"],
                 Append(net.req, Head(pipe["cu"].buf)), net.reqFin, task["sUp"], pipe["su"].buf,
                 got["s"], gone["s"], net.lost)
        BY <1>1, <1>4, <1>6, <2>3, <4>1, FlowSend, Zenon DEF Up, Ends
      <4> QED
        BY <1>1, <1>4, <1>6, <2>3, <4>2, Zenon DEF Up
    <3> QED
      BY <3>1, <3>2
  <2>6. asks = "other" => FromDecoy(pipe'["cd"].buf) /\ FromDecoy(net'.resp)
    BY <1>4, <2>3, Zenon DEF CarrierInv
  <2> QED
    BY <1>1, <1>6, <2>2, <2>3, <2>4, <2>5, <2>6, Zenon DEF CarrierInv
<1> QED
  BY <1>5, <1>6, Zenon DEF PumpSends, Source, Body

\* The server's pump sends a chunk of the response body.
LEMMA SDownSendsKeeps ==
  ASSUME CarrierInv, PumpSends("sDown")
  PROVE  CarrierInv'
<1>1. /\ UNCHANGED <<mode, asks, decoy, gone, wrote, got, eof>> /\ task["sDown"] = "run"
      /\ pipe["sd"].buf # <<>> /\ pipe["sd"].buf \in Seq(Chunk) /\ net.resp \in Seq(Chunk)
      /\ pipe' = [pipe EXCEPT !["sd"].buf = Tail(pipe["sd"].buf)]
  BY Zenon DEF CarrierInv, TypeOK, PumpSends, Source, Rigid
<1>2. Head(pipe["sd"].buf) \in Chunk /\ Tail(pipe["sd"].buf) \in Seq(Chunk)
  BY <1>1, ChunkTail, Zenon
<1>3. pipe' \in [{"cu", "cd", "su", "sd"} -> [buf : Seq(Chunk), shut : BOOLEAN]]
  BY <1>1, <1>2, PipeBuf, Zenon DEF CarrierInv, TypeOK
<1>4. /\ pipe'["sd"].buf = Tail(pipe["sd"].buf) /\ pipe'["sd"].shut = pipe["sd"].shut
      /\ \A q \in {"cu", "cd", "su", "sd"} \ {"sd"} : pipe'[q] = pipe[q]
  BY <1>1, Zenon DEF CarrierInv, TypeOK
<1>5. CASE SendFails("sDown") /\ Done("sDown") /\ UNCHANGED net
  <2>1. /\ task' \in [Pumps -> {"off", "wait", "run", "done"}] /\ task'["sDown"] = "done"
        /\ \A r \in Pumps \ {"sDown"} : task'[r] = task[r]
    BY <1>5, Zenon DEF CarrierInv, TypeOK, Done, Pumps
  <2>2. TypeOK'
    BY <1>1, <1>3, <1>5, <2>1, Zenon DEF CarrierInv, TypeOK
  <2>3. EndInv'
    BY <1>1, <1>4, <1>5, <2>1, ZenonT(60) DEF CarrierInv, EndInv, Pumps
  <2>4. ASSUME asks = "tunnel" PROVE Up' /\ Down'
    <3>1. Up'
      BY <1>1, <1>4, <1>5, <2>1, <2>4, Zenon DEF CarrierInv, Up, Pumps
    <3>2. Down'
      <4>1. Down
        BY <2>4, Zenon DEF CarrierInv
      <4>2. Flow("s", wrote["s"], Tail(pipe["sd"].buf), pipe["sd"].shut, gone["s"], "done",
                 net.resp, net.respFin, task["cDown"], pipe["cd"].buf, got["c"], gone["c"],
                 net.lost)
        BY <1>1, <1>4, <1>5, <2>1, <4>1, FlowSendFails, Zenon DEF Down, Ends
      <4> QED
        BY <1>1, <1>4, <1>5, <2>1, <4>2, Zenon DEF Down, Pumps
    <3> QED
      BY <3>1, <3>2, Zenon
  <2>5. asks = "other" => /\ task'["sUp"] = "off" /\ task'["sDown"] = "off"
                          /\ FromDecoy(pipe'["cd"].buf)
    BY <1>1, <1>4, <2>1, Zenon DEF CarrierInv, Pumps
  <2> QED
    BY <1>1, <1>5, <2>2, <2>3, <2>4, <2>5, Zenon DEF CarrierInv
<1>6. CASE /\ ~SendFails("sDown") /\ UNCHANGED task
           /\ net' = [net EXCEPT !.resp = Append(net.resp, Head(pipe["sd"].buf))]
  <2>1. Append(net.resp, Head(pipe["sd"].buf)) \in Seq(Chunk)
    BY <1>1, <1>2, ChunkAppend, Zenon
  <2>2. TypeOK'
    BY <1>1, <1>3, <1>6, <2>1, Zenon DEF CarrierInv, TypeOK
  <2>3. /\ net'.resp = Append(net.resp, Head(pipe["sd"].buf)) /\ ~net.lost
        /\ UNCHANGED <<net.status, net.lost, net.req, net.reqFin, net.respFin>>
    BY <1>6, Zenon DEF CarrierInv, TypeOK, SendFails
  <2>4. EndInv'
    BY <1>1, <1>4, <1>6, <2>3, ZenonT(60) DEF CarrierInv, EndInv
  <2>5. ASSUME asks = "tunnel" PROVE Up' /\ Down'
    <3>1. Up'
      BY <1>1, <1>4, <1>6, <2>3, <2>5, Zenon DEF CarrierInv, Up
    <3>2. Down'
      <4>1. Down
        BY <2>5 DEF CarrierInv
      <4>2. Flow("s", wrote["s"], Tail(pipe["sd"].buf), pipe["sd"].shut, gone["s"],
                 task["sDown"], Append(net.resp, Head(pipe["sd"].buf)), net.respFin,
                 task["cDown"], pipe["cd"].buf, got["c"], gone["c"], net.lost)
        BY <1>1, <1>4, <1>6, <2>3, <4>1, FlowSend, Zenon DEF Down, Ends
      <4> QED
        BY <1>1, <1>4, <1>6, <2>3, <4>2, Zenon DEF Down
    <3> QED
      BY <3>1, <3>2
  <2>6. asks # "other"
    BY <1>1, Zenon DEF CarrierInv
  <2> QED
    BY <1>1, <1>6, <2>2, <2>3, <2>4, <2>5, <2>6, Zenon DEF CarrierInv
<1> QED
  BY <1>5, <1>6, Zenon DEF PumpSends, Source, Body

\* The client's pump ends the request body.
LEMMA CUpFinishesKeeps ==
  ASSUME CarrierInv, PumpFinishes("cUp")
  PROVE  CarrierInv'
<1>1. /\ UNCHANGED <<mode, asks, decoy, pipe, gone, wrote, got, eof>> /\ task["cUp"] = "run"
      /\ pipe["cu"].buf = <<>> /\ (pipe["cu"].shut \/ gone["c"])
  BY Zenon DEF PumpFinishes, Source, Owner, Rigid
<1>2. /\ task' \in [Pumps -> {"off", "wait", "run", "done"}] /\ task'["cUp"] = "done"
      /\ \A r \in Pumps \ {"cUp"} : task'[r] = task[r]
  BY Zenon DEF PumpFinishes, CarrierInv, TypeOK, Done, Pumps
<1>3. \/ net' = net
      \/ ~net.lost /\ net' = [net EXCEPT !.reqFin = TRUE]
  BY Zenon DEF PumpFinishes, SendFails, Fin
<1>4. TypeOK'
  BY <1>1, <1>2, <1>3, Zenon DEF CarrierInv, TypeOK
<1>5. /\ UNCHANGED <<net.status, net.lost, net.req, net.resp, net.respFin>>
      /\ net'.reqFin = net.reqFin \/ (~net.lost /\ net'.reqFin = TRUE)
  BY <1>3, Zenon DEF CarrierInv, TypeOK
<1>6. EndInv'
  BY <1>1, <1>2, <1>5, Zenon DEF CarrierInv, EndInv, Pumps
<1>7. ASSUME asks = "tunnel" PROVE Up' /\ Down'
  <2>1. Down'
    BY <1>1, <1>2, <1>5, <1>7, Zenon DEF CarrierInv, Down, Pumps
  <2>2. CASE net'.reqFin = net.reqFin
    <3>1. Up'
      <4>1. Up
        BY <1>7 DEF CarrierInv
      <4>2. Flow("c", wrote["c"], pipe["cu"].buf, pipe["cu"].shut, gone["c"], "done", net.req,
                 net.reqFin, task["sUp"], pipe["su"].buf, got["s"], gone["s"], net.lost)
        BY <1>1, <1>2, <1>5, <2>2, <4>1, FlowStop, Zenon DEF Up, Ends
      <4> QED
        BY <1>1, <1>2, <1>5, <2>2, <4>2, Zenon DEF Up, Pumps
    <3> QED
      BY <2>1, <3>1
  <2>3. CASE ~net.lost /\ net'.reqFin = TRUE
    <3>1. Up'
      <4>1. Up
        BY <1>7 DEF CarrierInv
      <4>2. Flow("c", wrote["c"], pipe["cu"].buf, pipe["cu"].shut, gone["c"], "done", net.req,
                 TRUE, task["sUp"], pipe["su"].buf, got["s"], gone["s"], net.lost)
        BY <1>1, <1>2, <1>5, <2>3, <4>1, FlowFinish, Zenon DEF Up, Ends
      <4> QED
        BY <1>1, <1>2, <1>5, <2>3, <4>2, Zenon DEF Up, Pumps
    <3> QED
      BY <2>1, <3>1
  <2> QED
    BY <1>5, <2>2, <2>3, Zenon
<1>8. asks = "other" => task'["sUp"] = "off" /\ task'["sDown"] = "off"
  BY <1>1, <1>2, Zenon DEF CarrierInv, Pumps
<1> QED
  BY <1>1, <1>4, <1>5, <1>6, <1>7, <1>8, Zenon DEF CarrierInv

\* The server's pump ends the response body.
LEMMA SDownFinishesKeeps ==
  ASSUME CarrierInv, PumpFinishes("sDown")
  PROVE  CarrierInv'
<1>1. /\ UNCHANGED <<mode, asks, decoy, pipe, gone, wrote, got, eof>> /\ task["sDown"] = "run"
      /\ pipe["sd"].buf = <<>> /\ (pipe["sd"].shut \/ gone["s"])
  BY Zenon DEF PumpFinishes, Source, Owner, Rigid
<1>2. /\ task' \in [Pumps -> {"off", "wait", "run", "done"}] /\ task'["sDown"] = "done"
      /\ \A r \in Pumps \ {"sDown"} : task'[r] = task[r]
  BY Zenon DEF PumpFinishes, CarrierInv, TypeOK, Done, Pumps
<1>3. \/ net' = net
      \/ ~net.lost /\ net' = [net EXCEPT !.respFin = TRUE]
  BY Zenon DEF PumpFinishes, SendFails, Fin
<1>4. TypeOK'
  BY <1>1, <1>2, <1>3, Zenon DEF CarrierInv, TypeOK
<1>5. /\ UNCHANGED <<net.status, net.lost, net.req, net.resp, net.reqFin>>
      /\ net'.respFin = net.respFin \/ (~net.lost /\ net'.respFin = TRUE)
  BY <1>3, Zenon DEF CarrierInv, TypeOK
<1>6. EndInv'
  BY <1>1, <1>2, <1>5, Zenon DEF CarrierInv, EndInv, Pumps
<1>7. ASSUME asks = "tunnel" PROVE Up' /\ Down'
  <2>1. Up'
    BY <1>1, <1>2, <1>5, <1>7, Zenon DEF CarrierInv, Up, Pumps
  <2>2. CASE net'.respFin = net.respFin
    <3>1. Down'
      <4>1. Down
        BY <1>7 DEF CarrierInv
      <4>2. Flow("s", wrote["s"], pipe["sd"].buf, pipe["sd"].shut, gone["s"], "done", net.resp,
                 net.respFin, task["cDown"], pipe["cd"].buf, got["c"], gone["c"], net.lost)
        BY <1>1, <1>2, <1>5, <2>2, <4>1, FlowStop, Zenon DEF Down, Ends
      <4> QED
        BY <1>1, <1>2, <1>5, <2>2, <4>2, Zenon DEF Down, Pumps
    <3> QED
      BY <2>1, <3>1
  <2>3. CASE ~net.lost /\ net'.respFin = TRUE
    <3>1. Down'
      <4>1. Down
        BY <1>7 DEF CarrierInv
      <4>2. Flow("s", wrote["s"], pipe["sd"].buf, pipe["sd"].shut, gone["s"], "done", net.resp,
                 TRUE, task["cDown"], pipe["cd"].buf, got["c"], gone["c"], net.lost)
        BY <1>1, <1>2, <1>5, <2>3, <4>1, FlowFinish, Zenon DEF Down, Ends
      <4> QED
        BY <1>1, <1>2, <1>5, <2>3, <4>2, Zenon DEF Down, Pumps
    <3> QED
      BY <2>1, <3>1
  <2> QED
    BY <1>5, <2>2, <2>3, Zenon
<1>8. asks = "other" => task'["sUp"] = "off" /\ task'["sDown"] = "off"
  BY <1>1, <1>2, Zenon DEF CarrierInv, Pumps
<1> QED
  BY <1>1, <1>4, <1>5, <1>6, <1>7, <1>8, Zenon DEF CarrierInv

\* A body is dropped before its end.
LEMMA BodyDroppedKeeps ==
  ASSUME CarrierInv, NEW p \in {"cUp", "sDown"}, BodyDropped(p)
  PROVE  CarrierInv'
<1>1. /\ UNCHANGED <<mode, asks, decoy, pipe, gone, wrote, got, eof>> /\ task[p] = "run"
  BY Zenon DEF BodyDropped, Rigid
<1>2. /\ task' \in [Pumps -> {"off", "wait", "run", "done"}] /\ task'[p] = "done"
      /\ \A r \in Pumps \ {p} : task'[r] = task[r]
  BY Zenon DEF BodyDropped, CarrierInv, TypeOK, Done, Pumps
<1>3. net' = [net EXCEPT !.lost = net.lost \/ task["cDown"] = "done"]
  BY Zenon DEF BodyDropped
<1>4. TypeOK'
  BY <1>1, <1>2, <1>3, Zenon DEF CarrierInv, TypeOK
<1>5. /\ UNCHANGED <<net.status, net.req, net.resp, net.reqFin, net.respFin>>
      /\ net.lost => net'.lost
  BY <1>3, Zenon DEF CarrierInv, TypeOK
<1>6. EndInv'
  BY <1>1, <1>2, <1>5, Zenon DEF CarrierInv, EndInv, Pumps
<1>7. ASSUME asks = "tunnel" PROVE Up' /\ Down'
  <2>1. /\ task'["sUp"] = task["sUp"] /\ task'["cDown"] = task["cDown"]
        /\ task'["cUp"] \in {task["cUp"], "done"} /\ task'["sDown"] \in {task["sDown"], "done"}
    BY <1>2, Zenon DEF Pumps
  <2>2. Up'
    BY <1>1, <1>5, <1>7, <2>1, ZenonT(60) DEF CarrierInv, Up, Flow
  <2>3. Down'
    BY <1>1, <1>5, <1>7, <2>1, ZenonT(60) DEF CarrierInv, Down, Flow
  <2> QED
    BY <2>2, <2>3, Zenon
<1>8. asks = "other" => task'["sUp"] = "off" /\ task'["sDown"] = "off"
  BY <1>1, <1>2, Zenon DEF CarrierInv, Pumps
<1> QED
  BY <1>1, <1>4, <1>5, <1>6, <1>7, <1>8, Zenon DEF CarrierInv

\* The head of the response arrives.
LEMMA ResponseHeadKeeps ==
  ASSUME CarrierInv, ResponseHead
  PROVE  CarrierInv'
<1>1. UNCHANGED <<mode, asks, decoy, pipe, gone, net, wrote, got, eof>> /\ task["cDown"] = "wait"
  BY Zenon DEF ResponseHead, Rigid
<1>2. /\ task' \in [Pumps -> {"off", "wait", "run", "done"}]
      /\ \A r \in Pumps \ {"cDown"} : task'[r] = task[r]
  BY DEF ResponseHead, CarrierInv, TypeOK, Done, Pumps
<1>3. \/ task'["cDown"] = "done" /\ (net.lost \/ net.status = "refused")
      \/ task'["cDown"] = "run"
  BY Zenon DEF ResponseHead, CarrierInv, TypeOK, Done, Pumps
<1>4. TypeOK'
  BY <1>1, <1>2, Zenon DEF CarrierInv, TypeOK
<1>5. EndInv'
  BY <1>1, <1>2, Zenon DEF CarrierInv, EndInv, Pumps
<1>6. ASSUME asks = "tunnel" PROVE Up' /\ Down'
  <2>1. Up'
    BY <1>1, <1>2, <1>6, Zenon DEF CarrierInv, Up, Pumps
  <2>2. (task'["cDown"] = "done" /\ net.lost) \/ task'["cDown"] = "run"
    BY <1>3, <1>6, Zenon DEF CarrierInv
  <2>3. task'["sDown"] = task["sDown"]
    BY <1>2, Zenon DEF Pumps
  <2>4. Down'
    BY <1>1, <1>6, <2>2, <2>3, Zenon DEF CarrierInv, Down, Flow
  <2> QED
    BY <2>1, <2>4, Zenon
<1>7. asks = "other" => task'["sUp"] = "off" /\ task'["sDown"] = "off"
  BY <1>2, Zenon DEF CarrierInv, Pumps
<1> QED
  BY <1>1, <1>4, <1>5, <1>6, <1>7, Zenon DEF CarrierInv

\* The server's pump delivers a chunk of the request.
LEMMA SUpDeliversKeeps ==
  ASSUME CarrierInv, PumpDelivers("sUp")
  PROVE  CarrierInv'
<1> DEFINE h == Head(net.req)
<1>1. /\ UNCHANGED <<mode, asks, decoy, gone, wrote, got, eof>> /\ task["sUp"] = "run"
      /\ net.req # <<>> /\ net.req \in Seq(Chunk) /\ pipe["su"].buf \in Seq(Chunk)
      /\ net' = [net EXCEPT !.req = Tail(net.req)]
  BY Zenon DEF CarrierInv, TypeOK, PumpDelivers, Incoming, Rigid
<1>2. h \in Chunk /\ Tail(net.req) \in Seq(Chunk)
  BY <1>1, ChunkTail, Zenon
<1>3. net' \in [status : {"none", "ok", "refused", "decoy"}, lost : BOOLEAN, req : Seq(Chunk),
              reqFin : BOOLEAN, resp : Seq(Chunk), respFin : BOOLEAN]
  BY <1>1, <1>2, Zenon DEF CarrierInv, TypeOK
<1>4. /\ net'.req = Tail(net.req)
      /\ UNCHANGED <<net.status, net.lost, net.resp, net.reqFin, net.respFin>>
  BY <1>1, Zenon DEF CarrierInv, TypeOK
<1>5. CASE gone["s"] /\ Done("sUp") /\ UNCHANGED pipe
  <2>1. /\ task' \in [Pumps -> {"off", "wait", "run", "done"}] /\ task'["sUp"] = "done"
        /\ \A r \in Pumps \ {"sUp"} : task'[r] = task[r]
    BY <1>5, Zenon DEF CarrierInv, TypeOK, Done, Pumps
  <2>2. TypeOK'
    BY <1>1, <1>3, <1>5, <2>1, Zenon DEF CarrierInv, TypeOK
  <2>3. EndInv'
    BY <1>1, <1>4, <1>5, <2>1, Zenon DEF CarrierInv, EndInv, Pumps
  <2>4. ASSUME asks = "tunnel" PROVE Up' /\ Down'
    <3>1. Down'
      BY <1>1, <1>4, <1>5, <2>1, <2>4, Zenon DEF CarrierInv, Down, Pumps
    <3>2. Up'
      <4>1. Up
        BY <2>4, Zenon DEF CarrierInv
      <4>2. Flow("c", wrote["c"], pipe["cu"].buf, pipe["cu"].shut, gone["c"], task["cUp"],
                 Tail(net.req), net.reqFin, "done", pipe["su"].buf, got["s"], gone["s"], net.lost)
        BY <1>1, <1>4, <1>5, <2>1, <4>1, FlowDeaf, Zenon DEF Up, Ends
      <4> QED
        BY <1>1, <1>4, <1>5, <2>1, <4>2, Zenon DEF Up, Pumps
    <3> QED
      BY <3>1, <3>2, Zenon
  <2>5. asks # "other"
    BY <1>1, Zenon DEF CarrierInv
  <2> QED
    BY <1>1, <1>4, <1>5, <2>2, <2>3, <2>4, <2>5, Zenon DEF CarrierInv
<1>6. CASE /\ UNCHANGED task
           /\ pipe' = [pipe EXCEPT !["su"].buf = Append(pipe["su"].buf, h)]
  <2>1. /\ pipe'["su"].buf = Append(pipe["su"].buf, h)
        /\ pipe'["su"].shut = pipe["su"].shut
        /\ \A q \in {"cu", "cd", "su", "sd"} \ {"su"} : pipe'[q] = pipe[q]
    BY <1>6, Zenon DEF CarrierInv, TypeOK
  <2>2. Append(pipe["su"].buf, h) \in Seq(Chunk)
    BY <1>1, <1>2, ChunkAppend, Zenon
  <2>3. TypeOK'
    <3>1. pipe' \in [{"cu", "cd", "su", "sd"} -> [buf : Seq(Chunk), shut : BOOLEAN]]
      BY <1>6, <2>2, PipeBuf, Zenon DEF CarrierInv, TypeOK
    <3> QED
      BY <1>1, <1>3, <1>6, <3>1, Zenon DEF CarrierInv, TypeOK
  <2>4. EndInv'
    BY <1>1, <1>4, <1>6, <2>1, Zenon DEF CarrierInv, EndInv
  <2>5. ASSUME asks = "tunnel" PROVE Up' /\ Down'
    <3>1. Down'
      BY <1>1, <1>4, <1>6, <2>1, <2>5, Zenon DEF CarrierInv, Down
    <3>2. Up'
      <4>1. Up
        BY <2>5 DEF CarrierInv
      <4>2. Flow("c", wrote["c"], pipe["cu"].buf, pipe["cu"].shut, gone["c"], task["cUp"],
                 Tail(net.req), net.reqFin, task["sUp"], Append(pipe["su"].buf, Head(net.req)),
                 got["s"], gone["s"], net.lost)
        BY <1>1, <1>4, <1>6, <2>1, <4>1, FlowDeliver, Zenon DEF Up, Ends
      <4> QED
        BY <1>1, <1>4, <1>6, <2>1, <4>2, Zenon DEF Up
    <3> QED
      BY <3>1, <3>2
  <2> HIDE DEF h
  <2>6. asks # "other"
    BY <1>1 DEF CarrierInv
  <2> QED
    BY <1>1, <1>4, <1>6, <2>1, <2>3, <2>4, <2>5, <2>6, Zenon DEF CarrierInv
<1> QED
  BY <1>5, <1>6, Zenon DEF PumpDelivers, Sink, Incoming, Owner

\* The server's pump shuts its pipe down.
LEMMA SUpShutsDownKeeps ==
  ASSUME CarrierInv, PumpShutsDown("sUp")
  PROVE  CarrierInv'
<1>1. /\ UNCHANGED <<mode, asks, decoy, gone, net, wrote, got, eof>> /\ task["sUp"] = "run"
      /\ net.req = <<>> /\ (net.reqFin \/ net.lost)
      /\ pipe' = [pipe EXCEPT !["su"].shut = TRUE]
  BY Zenon DEF PumpShutsDown, Incoming, Ended, Sink, Rigid
<1>2. /\ task' \in [Pumps -> {"off", "wait", "run", "done"}] /\ task'["sUp"] = "done"
      /\ \A r \in Pumps \ {"sUp"} : task'[r] = task[r]
  BY Zenon DEF PumpShutsDown, CarrierInv, TypeOK, Done, Pumps
<1>3. /\ pipe' \in [{"cu", "cd", "su", "sd"} -> [buf : Seq(Chunk), shut : BOOLEAN]]
      /\ pipe'["su"].buf = pipe["su"].buf
      /\ \A q \in {"cu", "cd", "su", "sd"} \ {"su"} : pipe'[q] = pipe[q]
  BY <1>1, ZenonT(60) DEF CarrierInv, TypeOK
<1>4. TypeOK'
  BY <1>1, <1>2, <1>3, Zenon DEF CarrierInv, TypeOK
<1>5. EndInv'
  BY <1>1, <1>2, <1>3, Zenon DEF CarrierInv, EndInv, Pumps
<1>6. ASSUME asks = "tunnel" PROVE Up' /\ Down'
  <2>1. Down'
    BY <1>1, <1>2, <1>3, <1>6, Zenon DEF CarrierInv, Down, Pumps
  <2>2. Up'
    <3>1. Up
      BY <1>6 DEF CarrierInv
    <3>2. Flow("c", wrote["c"], pipe["cu"].buf, pipe["cu"].shut, gone["c"], task["cUp"], net.req,
               net.reqFin, "done", pipe["su"].buf, got["s"], gone["s"], net.lost)
      BY <1>1, <1>2, <1>3, <3>1, FlowEnd DEF Up, Ends
    <3> QED
      BY <1>1, <1>2, <1>3, <3>2 DEF Up, Pumps
  <2> QED
    BY <2>1, <2>2
<1>7. asks = "other" => /\ task'["sUp"] = "off" /\ task'["sDown"] = "off"
                        /\ FromDecoy(pipe'["cd"].buf)
  BY <1>1, <1>2, <1>3, Zenon DEF CarrierInv, Pumps
<1> QED
  BY <1>1, <1>4, <1>5, <1>6, <1>7, Zenon DEF CarrierInv

\* The client's pump delivers a chunk of the response.
LEMMA CDownDeliversKeeps ==
  ASSUME CarrierInv, PumpDelivers("cDown")
  PROVE  CarrierInv'
<1> DEFINE h == Head(net.resp)
<1>1. /\ UNCHANGED <<mode, asks, decoy, gone, wrote, got, eof>> /\ task["cDown"] = "run"
      /\ net.resp # <<>> /\ net.resp \in Seq(Chunk) /\ pipe["cd"].buf \in Seq(Chunk)
      /\ net' = [net EXCEPT !.resp = Tail(net.resp)]
  BY Zenon DEF CarrierInv, TypeOK, PumpDelivers, Incoming, Rigid
<1>2. h \in Chunk /\ Tail(net.resp) \in Seq(Chunk)
  BY <1>1, ChunkTail, Zenon
<1>3. net' \in [status : {"none", "ok", "refused", "decoy"}, lost : BOOLEAN, req : Seq(Chunk),
              reqFin : BOOLEAN, resp : Seq(Chunk), respFin : BOOLEAN]
  BY <1>1, <1>2, Zenon DEF CarrierInv, TypeOK
<1>4. /\ net'.resp = Tail(net.resp)
      /\ UNCHANGED <<net.status, net.lost, net.req, net.reqFin, net.respFin>>
  BY <1>1, Zenon DEF CarrierInv, TypeOK
<1>5. CASE gone["c"] /\ Done("cDown") /\ UNCHANGED pipe
  <2>1. /\ task' \in [Pumps -> {"off", "wait", "run", "done"}] /\ task'["cDown"] = "done"
        /\ \A r \in Pumps \ {"cDown"} : task'[r] = task[r]
    BY <1>5, Zenon DEF CarrierInv, TypeOK, Done, Pumps
  <2>2. TypeOK'
    BY <1>1, <1>3, <1>5, <2>1, Zenon DEF CarrierInv, TypeOK
  <2>3. EndInv'
    BY <1>1, <1>4, <1>5, <2>1, Zenon DEF CarrierInv, EndInv, Pumps
  <2>4. ASSUME asks = "tunnel" PROVE Up' /\ Down'
    <3>1. Up'
      BY <1>1, <1>4, <1>5, <2>1, <2>4, Zenon DEF CarrierInv, Up, Pumps
    <3>2. Down'
      <4>1. Down
        BY <2>4, Zenon DEF CarrierInv
      <4>2. Flow("s", wrote["s"], pipe["sd"].buf, pipe["sd"].shut, gone["s"], task["sDown"],
                 Tail(net.resp), net.respFin, "done", pipe["cd"].buf, got["c"], gone["c"],
                 net.lost)
        BY <1>1, <1>4, <1>5, <2>1, <4>1, FlowDeaf, Zenon DEF Down, Ends
      <4> QED
        BY <1>1, <1>4, <1>5, <2>1, <4>2, Zenon DEF Down, Pumps
    <3> QED
      BY <3>1, <3>2, Zenon
  <2>5. ASSUME asks = "other"
        PROVE  FromDecoy(net'.resp) /\ task'["sUp"] = "off" /\ task'["sDown"] = "off"
    BY <1>1, <1>4, <2>1, <2>5, DecoyTail, ZenonT(60) DEF CarrierInv, Pumps
  <2> QED
    BY <1>1, <1>4, <1>5, <2>2, <2>3, <2>4, <2>5, Zenon DEF CarrierInv
<1>6. CASE /\ UNCHANGED task
           /\ pipe' = [pipe EXCEPT !["cd"].buf = Append(pipe["cd"].buf, h)]
  <2>1. /\ pipe'["cd"].buf = Append(pipe["cd"].buf, h)
        /\ pipe'["cd"].shut = pipe["cd"].shut
        /\ \A q \in {"cu", "cd", "su", "sd"} \ {"cd"} : pipe'[q] = pipe[q]
    BY <1>6, Zenon DEF CarrierInv, TypeOK
  <2>2. Append(pipe["cd"].buf, h) \in Seq(Chunk)
    BY <1>1, <1>2, ChunkAppend, Zenon
  <2>3. TypeOK'
    <3>1. pipe' \in [{"cu", "cd", "su", "sd"} -> [buf : Seq(Chunk), shut : BOOLEAN]]
      BY <1>6, <2>2, PipeBuf, Zenon DEF CarrierInv, TypeOK
    <3> QED
      BY <1>1, <1>3, <1>6, <3>1, Zenon DEF CarrierInv, TypeOK
  <2>4. EndInv'
    BY <1>1, <1>4, <1>6, <2>1, Zenon DEF CarrierInv, EndInv
  <2>5. ASSUME asks = "tunnel" PROVE Up' /\ Down'
    <3>1. Up'
      BY <1>1, <1>4, <1>6, <2>1, <2>5, Zenon DEF CarrierInv, Up
    <3>2. Down'
      <4>1. Down
        BY <2>5 DEF CarrierInv
      <4>2. Flow("s", wrote["s"], pipe["sd"].buf, pipe["sd"].shut, gone["s"], task["sDown"],
                 Tail(net.resp), net.respFin, task["cDown"],
                 Append(pipe["cd"].buf, Head(net.resp)), got["c"], gone["c"], net.lost)
        BY <1>1, <1>4, <1>6, <2>1, <4>1, FlowDeliver, Zenon DEF Down, Ends
      <4> QED
        BY <1>1, <1>4, <1>6, <2>1, <4>2, Zenon DEF Down
    <3> QED
      BY <3>1, <3>2
  <2> HIDE DEF h
  <2>6. ASSUME asks = "other" PROVE FromDecoy(pipe'["cd"].buf) /\ FromDecoy(net'.resp)
    <3>1. h.from = "decoy" /\ FromDecoy(Tail(net.resp))
      BY <1>1, <2>6, DecoyTail, Zenon DEF CarrierInv, h
    <3>2. FromDecoy(Append(pipe["cd"].buf, h))
      BY <1>1, <1>2, <2>6, <3>1, DecoyAppend, Zenon DEF CarrierInv
    <3> QED
      BY <1>4, <2>1, <3>1, <3>2, Zenon
  <2> QED
    BY <1>1, <1>4, <1>6, <2>1, <2>3, <2>4, <2>5, <2>6, Zenon DEF CarrierInv
<1> QED
  BY <1>5, <1>6, Zenon DEF PumpDelivers, Sink, Incoming, Owner

\* The client's pump shuts its pipe down.
LEMMA CDownShutsDownKeeps ==
  ASSUME CarrierInv, PumpShutsDown("cDown")
  PROVE  CarrierInv'
<1>1. /\ UNCHANGED <<mode, asks, decoy, gone, net, wrote, got, eof>> /\ task["cDown"] = "run"
      /\ net.resp = <<>> /\ (net.respFin \/ net.lost)
      /\ pipe' = [pipe EXCEPT !["cd"].shut = TRUE]
  BY Zenon DEF PumpShutsDown, Incoming, Ended, Sink, Rigid
<1>2. /\ task' \in [Pumps -> {"off", "wait", "run", "done"}] /\ task'["cDown"] = "done"
      /\ \A r \in Pumps \ {"cDown"} : task'[r] = task[r]
  BY Zenon DEF PumpShutsDown, CarrierInv, TypeOK, Done, Pumps
<1>3. /\ pipe' \in [{"cu", "cd", "su", "sd"} -> [buf : Seq(Chunk), shut : BOOLEAN]]
      /\ pipe'["cd"].buf = pipe["cd"].buf
      /\ \A q \in {"cu", "cd", "su", "sd"} \ {"cd"} : pipe'[q] = pipe[q]
  BY <1>1, ZenonT(60) DEF CarrierInv, TypeOK
<1>4. TypeOK'
  BY <1>1, <1>2, <1>3, Zenon DEF CarrierInv, TypeOK
<1>5. EndInv'
  BY <1>1, <1>2, <1>3, Zenon DEF CarrierInv, EndInv, Pumps
<1>6. ASSUME asks = "tunnel" PROVE Up' /\ Down'
  <2>1. Up'
    BY <1>1, <1>2, <1>3, <1>6, Zenon DEF CarrierInv, Up, Pumps
  <2>2. Down'
    <3>1. Down
      BY <1>6 DEF CarrierInv
    <3>2. Flow("s", wrote["s"], pipe["sd"].buf, pipe["sd"].shut, gone["s"], task["sDown"],
               net.resp, net.respFin, "done", pipe["cd"].buf, got["c"], gone["c"], net.lost)
      BY <1>1, <1>2, <1>3, <3>1, FlowEnd DEF Down, Ends
    <3> QED
      BY <1>1, <1>2, <1>3, <3>2 DEF Down, Pumps
  <2> QED
    BY <2>1, <2>2
<1>7. asks = "other" => /\ task'["sUp"] = "off" /\ task'["sDown"] = "off"
                        /\ FromDecoy(pipe'["cd"].buf)
  BY <1>1, <1>2, <1>3, Zenon DEF CarrierInv, Pumps
<1> QED
  BY <1>1, <1>4, <1>5, <1>6, <1>7, Zenon DEF CarrierInv

\* The server takes the request: a tunnel, or a visit to the decoy.
LEMMA AcceptKeeps ==
  ASSUME CarrierInv, AcceptStreamOne \/ AcceptH3 \/ AcceptBidi
  PROVE  CarrierInv'
<1>1. /\ UNCHANGED <<mode, asks, decoy, pipe, wrote, got, eof>> /\ net.status = "none"
      /\ asks = "tunnel" /\ task' = [task EXCEPT !["sUp"] = "run", !["sDown"] = "run"]
      /\ net' = [net EXCEPT !.status = "ok"]
  BY Zenon DEF AcceptStreamOne, AcceptH3, AcceptBidi, Asked, Spawn, Rigid, CarrierInv, TypeOK
<1>2. gone' = gone \/ gone' = [gone EXCEPT !["s"] = TRUE]
  BY Zenon DEF AcceptStreamOne, AcceptH3, AcceptBidi
<1>3. TypeOK' /\ (gone["c"] => gone'["c"]) /\ (gone["s"] => gone'["s"])
  BY <1>1, <1>2, ZenonT(60) DEF CarrierInv, TypeOK, Ends
<1>4. /\ task'["sUp"] = "run" /\ task'["sDown"] = "run"
      /\ task["sUp"] = "off" /\ task["sDown"] = "off"
      /\ UNCHANGED <<task["cUp"], task["cDown"]>>
  BY <1>1, Zenon DEF CarrierInv, TypeOK, EndInv, Pumps
<1>5. /\ net'.status = "ok"
      /\ UNCHANGED <<net.lost, net.req, net.resp, net.reqFin, net.respFin>>
  BY <1>1, Zenon DEF CarrierInv, TypeOK
<1>6. EndInv'
  BY <1>1, <1>4, <1>5, Zenon DEF CarrierInv, EndInv
<1>7. Up /\ Down /\ UNCHANGED <<pipe, wrote, got>>
  BY <1>1, Zenon DEF CarrierInv
<1>8. Up'
  BY <1>3, <1>4, <1>5, <1>7, ZenonT(60) DEF Up, Flow
<1>9. Down'
  BY <1>3, <1>4, <1>5, <1>7, ZenonT(60) DEF Down, Flow
<1> QED
  BY <1>1, <1>3, <1>5, <1>6, <1>8, <1>9, Zenon DEF CarrierInv

\* A request for something else: 404, or the decoy's answer.
LEMMA OtherKeeps ==
  ASSUME CarrierInv, RefuseRequest \/ AskDecoy \/ AskDecoyH3 \/ DecoyReads
  PROVE  CarrierInv'
<1>1. UNCHANGED <<mode, asks, decoy, pipe, gone, task, wrote, got, eof>> /\ asks = "other"
  BY Zenon DEF RefuseRequest, AskDecoy, AskDecoyH3, DecoyAnswers, DecoyReads, Rigid
<1> DEFINE page == <<[from |-> "decoy", n |-> 1]>>
<1>2. page \in Seq(Chunk) /\ FromDecoy(page)
  BY DEF Chunk, FromDecoy
<1> HIDE DEF page
<1>3. CASE RefuseRequest
  <2>1. net' = [net EXCEPT !.status = "refused", !.respFin = TRUE]
    BY <1>3, Zenon DEF RefuseRequest
  <2>2. TypeOK' /\ net'.resp = net.resp /\ net'.status = "refused"
    BY <1>1, <2>1, Zenon DEF CarrierInv, TypeOK
  <2> QED
    BY <1>1, <2>2, Zenon DEF CarrierInv, EndInv
<1>4. CASE AskDecoy \/ AskDecoyH3
  <2>1. net' = [net EXCEPT !.status = "decoy", !.req = <<>>, !.respFin = TRUE, !.resp = page]
    BY <1>4, Zenon DEF AskDecoy, AskDecoyH3, DecoyAnswers, page
  <2>2. <<>> \in Seq(Chunk)
    OBVIOUS
  <2>3. /\ net' \in [status : {"none", "ok", "refused", "decoy"}, lost : BOOLEAN, req : Seq(Chunk),
                     reqFin : BOOLEAN, resp : Seq(Chunk), respFin : BOOLEAN]
        /\ net'.resp = page /\ net'.status = "decoy"
    BY <1>2, <2>1, <2>2, Zenon DEF CarrierInv, TypeOK
  <2>4. TypeOK' /\ net'.resp = page /\ net'.status = "decoy"
    BY <1>1, <2>3, Zenon DEF CarrierInv, TypeOK
  <2> QED
    BY <1>1, <1>2, <2>4, Zenon DEF CarrierInv, EndInv
<1>5. CASE DecoyReads
  <2>1. net' = [net EXCEPT !.req = Tail(net.req)] /\ net.req # <<>> /\ net.req \in Seq(Chunk)
    BY <1>5, Zenon DEF DecoyReads, CarrierInv, TypeOK
  <2>2. Tail(net.req) \in Seq(Chunk)
    BY <2>1, ChunkTail, Zenon
  <2>3. TypeOK' /\ net'.resp = net.resp /\ net'.status = net.status
    BY <1>1, <2>1, <2>2, Zenon DEF CarrierInv, TypeOK
  <2> QED
    BY <1>1, <2>3, Zenon DEF CarrierInv, EndInv
<1> QED
  BY <1>3, <1>4, <1>5, Zenon

\* The connection is lost.
LEMMA LoseKeeps ==
  ASSUME CarrierInv, Lose
  PROVE  CarrierInv'
<1>1. UNCHANGED <<mode, asks, decoy, pipe, gone, task, wrote, got, eof>>
  BY Zenon DEF Lose, Rigid
<1>2. PICK req \in {net.req, <<>>}, resp \in {net.resp, <<>>} :
        net' = [net EXCEPT !.lost = TRUE, !.req = req, !.resp = resp]
  BY Zenon DEF Lose
<1>3. req \in Seq(Chunk) /\ resp \in Seq(Chunk)
  <2>1. <<>> \in Seq(Chunk) /\ net.req \in Seq(Chunk) /\ net.resp \in Seq(Chunk)
    BY DEF CarrierInv, TypeOK
  <2> QED
    BY <2>1, Zenon
<1>4. TypeOK'
  BY <1>1, <1>2, <1>3, Zenon DEF CarrierInv, TypeOK
<1>5. /\ net'.lost = TRUE /\ net'.req = req /\ net'.resp = resp
      /\ UNCHANGED <<net.status, net.reqFin, net.respFin>>
  BY <1>2, Zenon DEF CarrierInv, TypeOK
<1>6. EndInv'
  BY <1>1, <1>5, Zenon DEF CarrierInv, EndInv
<1>7. ASSUME asks = "tunnel" PROVE Up'
  <2>1. CASE req = net.req
    BY <1>1, <1>5, <1>7, <2>1, ZenonT(60) DEF CarrierInv, Up, Flow
  <2>2. CASE req = <<>>
    <3>1. Up
      BY <1>7, Zenon DEF CarrierInv
    <3>2. Flow("c", wrote["c"], pipe["cu"].buf, pipe["cu"].shut, gone["c"], task["cUp"], <<>>,
               net.reqFin, task["sUp"], pipe["su"].buf, got["s"], gone["s"], TRUE)
      BY <3>1, FlowLose, Zenon DEF Up, Ends
    <3> QED
      BY <1>1, <1>5, <2>2, <3>2, Zenon DEF Up
  <2> QED
    BY <2>1, <2>2, Zenon
<1>8. ASSUME asks = "tunnel" PROVE Down'
  <2>1. CASE resp = net.resp
    BY <1>1, <1>5, <1>8, <2>1, ZenonT(60) DEF CarrierInv, Down, Flow
  <2>2. CASE resp = <<>>
    <3>1. Down
      BY <1>8, Zenon DEF CarrierInv
    <3>2. Flow("s", wrote["s"], pipe["sd"].buf, pipe["sd"].shut, gone["s"], task["sDown"], <<>>,
               net.respFin, task["cDown"], pipe["cd"].buf, got["c"], gone["c"], TRUE)
      BY <3>1, FlowLose, Zenon DEF Down, Ends
    <3> QED
      BY <1>1, <1>5, <2>2, <3>2, Zenon DEF Down
  <2> QED
    BY <2>1, <2>2, Zenon
<1>9. asks = "other" => FromDecoy(net'.resp)
  BY <1>5 DEF CarrierInv, FromDecoy
<1> QED
  BY <1>1, <1>4, <1>5, <1>6, <1>7, <1>8, <1>9, Zenon DEF CarrierInv

\* Every step keeps the invariant.
LEMMA CarrierStep ==
  ASSUME CarrierInv, [Next]_vars
  PROVE  CarrierInv'
<1>1. CASE UNCHANGED vars
  BY <1>1 DEF vars, CarrierInv, TypeOK, EndInv, Up, Down
<1>2. CASE \E e \in Ends : Write(e) \/ ShutDown(e) \/ Drop(e) \/ Read(e)
  BY <1>2, WriteKeeps, ShutDownKeeps, DropKeeps, ReadKeeps, Zenon
<1>3. CASE \E p \in {"cUp", "sDown"} : Uplink(p)
  BY <1>3, CUpSendsKeeps, SDownSendsKeeps, CUpFinishesKeeps, SDownFinishesKeeps,
     BodyDroppedKeeps, Zenon DEF Uplink
<1>4. CASE \E p \in {"cDown", "sUp"} : Downlink(p)
  BY <1>4, SUpDeliversKeeps, CDownDeliversKeeps, SUpShutsDownKeeps, CDownShutsDownKeeps, Zenon
     DEF Downlink
<1>5. CASE ResponseHead \/ Handler \/ Lose
  BY <1>5, ResponseHeadKeeps, AcceptKeeps, OtherKeeps, LoseKeeps, Zenon DEF Handler
<1> QED
  BY <1>1, <1>2, <1>3, <1>4, <1>5, ZenonT(60) DEF Next

-----------------------------------------------------------------------------
(* The theorem *)

\* The end of a stream means what it says: each end reads a prefix of what the other one wrote, in
\* order and once, and all of it when it reads the end and nothing broke.  Whatever the capacity of
\* the pipes and the window of the bodies, and however much is written, in the modes with a single
\* request (the pumps of stream_one.rs, client.rs, server.rs and bidi.rs).
THEOREM StreamsEndComplete == Spec => []EndIsComplete
<1>1. CarrierInv => EndIsComplete
  <2> SUFFICES ASSUME CarrierInv, NEW e \in Ends
               PROVE  /\ \/ /\ Len(got[e]) <= wrote[Other[e]]
                            /\ \A i \in DOMAIN got[e] : got[e][i] = [from |-> Other[e], n |-> i]
                         \/ /\ e = "c" /\ asks = "other"
                            /\ \A i \in DOMAIN got.c : got.c[i].from = "decoy"
                      /\ eof[e] /\ ~net.lost /\ ~gone[e] /\ asks = "tunnel" =>
                           /\ pipe[Out[Other[e]]].shut \/ gone[Other[e]]
                           /\ Len(got[e]) = wrote[Other[e]] \/ gone[Other[e]]
    BY Zenon DEF EndIsComplete
  <2>1. /\ wrote["c"] \in Nat /\ wrote["s"] \in Nat
        /\ e \in {"c", "s"} /\ "c" \in Ends /\ "s" \in Ends
        /\ DOMAIN got["c"] = 1..Len(got["c"]) /\ DOMAIN got["s"] = 1..Len(got["s"])
        /\ Len(got["c"]) \in Nat /\ Len(got["s"]) \in Nat
    BY LenProperties, ZenonT(60) DEF CarrierInv, TypeOK, Ends
  <2>2. CASE asks = "other"
    <3>1. DOMAIN got["s"] = {} /\ Len(got["s"]) <= wrote["c"]
      BY <2>1, <2>2 DEF CarrierInv
    <3>2. \A i \in DOMAIN got.c : got.c[i].from = "decoy"
      BY <2>1, <2>2, Zenon DEF CarrierInv, FromDecoy
    <3> QED
      BY <2>1, <2>2, <3>1, <3>2 DEF Other
  <2>3. CASE asks = "tunnel" /\ e = "s"
    <3>1. Up
      BY <2>3, Zenon DEF CarrierInv
    <3>2. Chain("c", got["s"], 0) /\ Len(got["s"]) <= wrote["c"]
      BY <2>1, <3>1, FlowReader, Zenon DEF Up
    <3>3. ASSUME eof["s"], ~net.lost, ~gone["s"]
          PROVE  (pipe["cu"].shut \/ gone["c"]) /\ Len(got["s"]) = wrote["c"]
      <4>1. task["sUp"] = "done" /\ pipe["su"].buf = <<>>
        BY <3>3, Zenon DEF CarrierInv, EndInv
      <4>2. /\ pipe["cu"].shut \/ gone["c"]
            /\ Len(got["s"]) + Len(pipe["su"].buf) = wrote["c"]
        BY <3>1, <3>3, <4>1, Zenon DEF Up, Flow
      <4> QED
        BY <2>1, <4>1, <4>2
    <3>4. ASSUME NEW i \in DOMAIN got["s"] PROVE got["s"][i] = [from |-> "c", n |-> i]
      <4>1. i \in 1..Len(got["s"]) /\ 0 + i = i
        BY <2>1
      <4>2. got["s"][i] = [from |-> "c", n |-> 0 + i]
        BY <3>2, <4>1, Zenon DEF Chain
      <4> QED
        BY <4>1, <4>2, Zenon
    <3> QED
      BY <2>3, <3>2, <3>3, <3>4, Zenon DEF Other, Out
  <2>4. CASE asks = "tunnel" /\ e = "c"
    <3>1. Down
      BY <2>4, Zenon DEF CarrierInv
    <3>2. Chain("s", got["c"], 0) /\ Len(got["c"]) <= wrote["s"]
      BY <2>1, <3>1, FlowReader, Zenon DEF Down
    <3>3. ASSUME eof["c"], ~net.lost, ~gone["c"]
          PROVE  (pipe["sd"].shut \/ gone["s"]) /\ Len(got["c"]) = wrote["s"]
      <4>1. task["cDown"] = "done" /\ pipe["cd"].buf = <<>>
        BY <3>3, Zenon DEF CarrierInv, EndInv
      <4>2. /\ pipe["sd"].shut \/ gone["s"]
            /\ Len(got["c"]) + Len(pipe["cd"].buf) = wrote["s"]
        BY <3>1, <3>3, <4>1, Zenon DEF Down, Flow
      <4> QED
        BY <2>1, <4>1, <4>2
    <3>4. ASSUME NEW i \in DOMAIN got["c"] PROVE got["c"][i] = [from |-> "s", n |-> i]
      <4>1. i \in 1..Len(got["c"]) /\ 0 + i = i
        BY <2>1
      <4>2. got["c"][i] = [from |-> "s", n |-> 0 + i]
        BY <3>2, <4>1, Zenon DEF Chain
      <4> QED
        BY <4>1, <4>2, Zenon
    <3> QED
      BY <2>4, <3>2, <3>3, <3>4, Zenon DEF Other, Out
  <2> QED
    BY <2>1, <2>2, <2>3, <2>4, Zenon DEF CarrierInv, TypeOK
<1> QED
  BY CarrierInit, CarrierStep, <1>1, PTL DEF Spec
=============================================================================
