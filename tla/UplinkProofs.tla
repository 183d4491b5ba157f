--------------------------- MODULE UplinkProofs ---------------------------
(***************************************************************************)
(* Proofs about the two ways an uplink goes through HTTP requests.         *)
(* PacketUp, for every number of bodies, every body size, buffer and pipe: *)
(* the buffer is bounded, the session object is conserved, and the uplink  *)
(* is released in order while the POSTs of the session are handled one at  *)
(* a time.  StreamUp, for every number of requests: a parked request is    *)
(* the one in the table, and no two sessions share a GET.                  *)
(***************************************************************************)
EXTENDS PacketUp, StreamUp, FiniteSetTheorems, WellFoundedInduction, SequenceTheorems, TLAPS

-----------------------------------------------------------------------------
(* Lemmas about the operators *)

\* Every nonempty set of naturals has a least element.
LEMMA LeastNatural ==
  ASSUME NEW T \in SUBSET Nat, T # {}
  PROVE  \E m \in T : \A k \in T : m <= k
<1>1. PICK m \in T : \A k \in T : ~ (<<k, m>> \in OpToRel(<, Nat))
  BY NatLessThanWellFounded, WFMin, Zenon
<1>2. \A k \in T : ~ (k < m)
  BY <1>1, Zenon DEF OpToRel
<1> QED
  BY <1>2

\* A finite set of naturals leaves a gap among any Cardinality + 1 consecutive numbers, so Drained
\* is well defined: the first number from n on that is not in b.
LEMMA DrainedFirst ==
  ASSUME NEW b \in SUBSET Nat, IsFiniteSet(b), NEW n \in Nat
  PROVE  /\ Drained(b, n) \in Nat /\ Drained(b, n) >= n
         /\ Drained(b, n) \notin b
         /\ \A k \in n .. Drained(b, n) - 1 : k \in b
<1> DEFINE c == Cardinality(b)
           T == {m \in n .. n + c : m \notin b}
<1>1. c \in Nat
  BY FS_CardinalityType, Zenon
<1>2. T # {}
  <2> SUFFICES ASSUME n .. n + c \subseteq b PROVE FALSE
    BY Zenon
  <2>1. Cardinality(n .. n + c) <= c
    BY FS_Subset, Zenon
  <2>2. Cardinality(n .. n + c) = c + 1
    BY <1>1, FS_Interval
  <2> QED
    BY <1>1, <2>1, <2>2
<1>3. T \in SUBSET Nat
  BY <1>1
<1>4. PICK m \in T : \A k \in T : m <= k
  BY <1>2, <1>3, LeastNatural, Zenon
<1>5. m \in n .. n + c /\ m \notin b /\ \A k \in n .. m - 1 : k \in b
  BY <1>1, <1>4
<1> QED
  BY <1>1, <1>5 DEF Drained

\* A run of consecutive numbers is a sequence.
LEMMA RunIsSeq ==
  ASSUME NEW k \in Nat, NEW n \in Nat
  PROVE  LET r == [i \in 1 .. n |-> k + i - 1] IN r \in Seq(Nat) /\ Len(r) = n
<1> DEFINE r == [i \in 1 .. n |-> k + i - 1]
<1>1. r \in [1 .. n -> Nat]
  OBVIOUS
<1> HIDE DEF r
<1>2. r \in Seq(Nat) /\ Len(r) = n
  BY <1>1
<1> QED
  BY <1>2, Zenon DEF r

\* The units of consecutive bodies.
LEMMA UnitsRun ==
  ASSUME NEW a \in Nat, NEW b \in Nat, a <= b
  PROVE  /\ Units(a, b) \in Seq(Nat)
         /\ a * ChunkLen \in Nat /\ b * ChunkLen \in Nat
         /\ a * ChunkLen + Len(Units(a, b)) = b * ChunkLen
         /\ \A i \in 1 .. Len(Units(a, b)) : Units(a, b)[i] = a * ChunkLen + i - 1
<1> DEFINE n == (b - a) * ChunkLen
<1>1. ChunkLen \in Nat
  BY PacketUpAssumption, Zenon
<1>2. n \in Nat /\ a * ChunkLen \in Nat /\ b * ChunkLen \in Nat
  BY <1>1
<1>3. a * ChunkLen + n = b * ChunkLen
  BY <1>1
<1> DEFINE k == a * ChunkLen
<1>4. Units(a, b) = [i \in 1 .. n |-> k + i - 1]
  BY Zenon DEF Units
<1> HIDE DEF n, k
<1>5. Units(a, b) \in Seq(Nat) /\ Len(Units(a, b)) = n
  BY <1>2, <1>4, RunIsSeq DEF k
<1>6. \A i \in 1 .. n : Units(a, b)[i] = a * ChunkLen + i - 1
  BY <1>4, Zenon DEF k
<1> QED
  BY <1>2, <1>3, <1>5, <1>6, Zenon

-----------------------------------------------------------------------------
(* The inductive invariant *)

\* Where the session object is.  Before it is taken nothing was released or buffered.
SessionInv ==
    /\ carries = {} \/ \E h \in Posts \cup Gets : carries = {h}
    /\ (carries # {}) <=> (accepted /\ session = "entry")
    /\ exists /\ MaxBuffered > 0 => accepted
    /\ ~accepted => /\ session = "entry" /\ downlink
                    /\ next_seq = 0 /\ buffered = {}

\* The writer is in the entry or with one handler, and only POSTs that may overlap leave a handler
\* writing while another writer is in the entry.
WriterInv ==
    /\ \A p \in Posts : writer[p] = "real" => pc[p] = "write" /\ upload_wr = "dead"
    /\ \A p, q \in Posts : writer[p] = "real" /\ writer[q] = "real" => p = q

\* The units written so far.
Sent == Len(received) + Len(pipe)

\* POSTs are handled one at a time: the handler that writes has the only writer, and what was
\* read, what is in the pipe and what is still to be written follow each other without a gap, up
\* to the bodies that next_seq counts.
FlowInv ==
    "overlap" \notin env =>
        /\ \A p, q \in Posts :
              pc[p] \in {"write", "send"} /\ pc[q] \in {"write", "send"} => p = q
        /\ \A p \in Posts : pc[p] = "write" => upload_wr = "dead"
        /\ \A i \in 1 .. Len(received) : received[i] = i - 1
        /\ \A i \in 1 .. Len(pipe) : pipe[i] = Len(received) + i - 1
        /\ session # "gone" /\ upload_wr = "real" => Sent = next_seq * ChunkLen
        /\ \A p \in Posts : session # "gone" /\ writer[p] = "real" =>
              /\ Sent + Len(chunks[p]) = next_seq * ChunkLen
              /\ \A i \in 1 .. Len(chunks[p]) : chunks[p][i] = Sent + i - 1

PacketInv == TypeOK /\ BufferBounded /\ SessionInv /\ WriterInv /\ FlowInv

-----------------------------------------------------------------------------
(* The invariant holds initially and every step keeps it *)

\* A POST has a sequence number in range, and the buffer is a finite set of naturals.
LEMMA PostSeq ==
  /\ \A p \in Posts : p[1] \in Seqs
  /\ Seqs \in SUBSET Nat /\ IsFiniteSet(Seqs)
<1>1. Seqs \in SUBSET Nat
  BY PacketUpAssumption DEF Seqs
<1>2. IsFiniteSet(Seqs)
  BY PacketUpAssumption, FS_Interval DEF Seqs
<1>3. \A p \in Posts : p[1] \in Seqs
  BY PacketUpAssumption, Zenon DEF Posts, Seqs
<1> QED
  BY <1>1, <1>2, <1>3, Zenon

\* The invariant holds before any request.
LEMMA PacketInit == Init => PacketInv
<1> SUFFICES ASSUME Init PROVE PacketInv
  BY Zenon
<1>1. TypeOK
  <2>1. <<>> \in Seq(Nat) /\ buffered \subseteq Seqs /\ carries \subseteq Posts \cup Gets
    BY DEF Init
  <2>2. chunks \in [Posts -> Seq(Nat)]
    BY <2>1, Zenon DEF Init
  <2> QED
    BY <2>1, <2>2, Zenon DEF Init, TypeOK
<1>2. BufferBounded
  BY FS_EmptySet, PacketUpAssumption DEF Init, BufferBounded
<1>3. SessionInv
  BY Zenon DEF Init, SessionInv
<1>4. WriterInv
  BY Zenon DEF Init, WriterInv
<1>5. FlowInv
  BY PacketUpAssumption DEF Init, FlowInv, Sent
<1> QED
  BY <1>1, <1>2, <1>3, <1>4, <1>5, Zenon DEF PacketInv

\* Where Take leaves the entry: the first number that is neither released nor buffered.
LEMMA TakeDrains ==
  ASSUME TypeOK, BufferBounded, NEW p \in Posts, p[1] >= next_seq, ~Full(p[1]), Take(p)
  PROVE  /\ next_seq' \in Nat /\ next_seq' >= next_seq
         /\ chunks' = [chunks EXCEPT ![p] = Units(next_seq, next_seq')]
         /\ buffered' \subseteq Seqs
         /\ BufferBounded'
<1> DEFINE b == Insert(p[1])
           n == Drained(b, next_seq)
<1>1. p[1] \in Nat /\ p[1] \in Seqs /\ next_seq \in Nat /\ buffered \subseteq Seqs
  BY PostSeq, Zenon DEF TypeOK
<1>2. b \in SUBSET Nat /\ b \subseteq Seqs /\ IsFiniteSet(b)
  <2>1. b \in SUBSET Nat /\ b \subseteq Seqs
    BY <1>1, PostSeq, Zenon DEF Insert
  <2> HIDE DEF b
  <2> QED
    BY <2>1, PostSeq, FS_Subset, Zenon
<1>3. /\ n \in Nat /\ n >= next_seq /\ n \notin b
      /\ \A k \in next_seq .. n - 1 : k \in b
  <2> HIDE DEF b
  <2> QED
    BY <1>1, <1>2, DrainedFirst, Zenon
<1>4. /\ next_seq' = n /\ buffered' = {s \in b : s >= n}
      /\ chunks' = [chunks EXCEPT ![p] = Units(next_seq, n)]
  BY Zenon DEF Take
<1>5. IsFiniteSet(buffered)
  BY <1>1, PostSeq, FS_Subset, Zenon
<1>6. Cardinality(buffered) \in Nat /\ Cardinality(b) \in Nat
  BY <1>2, <1>5, FS_CardinalityType, Zenon
<1>7. Cardinality(buffered') <= MaxBuffered
  <2>1. CASE p[1] = next_seq
    <3>1. buffered' \subseteq buffered
      BY <1>1, <1>3, <1>4, <2>1 DEF Insert
    <3>2. Cardinality(buffered') \in Nat /\ Cardinality(buffered') <= Cardinality(buffered)
      BY <1>5, <3>1, FS_Subset, FS_CardinalityType, Zenon
    <3> QED
      BY <1>6, <3>2, PacketUpAssumption DEF BufferBounded
  <2>2. CASE p[1] > next_seq
    <3>1. Cardinality(buffered) < MaxBuffered
      BY <1>6, <2>2, PacketUpAssumption DEF Full
    <3>2. Cardinality(b) <= Cardinality(buffered) + 1
      BY <1>5, <1>6, FS_AddElement DEF Insert
    <3>3. buffered' \subseteq b
      BY <1>4, Zenon
    <3>4. Cardinality(buffered') \in Nat /\ Cardinality(buffered') <= Cardinality(b)
      BY <1>2, <3>3, FS_Subset, FS_CardinalityType, Zenon
    <3> QED
      BY <1>6, <3>1, <3>2, <3>4, PacketUpAssumption
  <2> QED
    BY <1>1, <2>1, <2>2
<1>8. \A s \in buffered' : s > next_seq'
  BY <1>2, <1>3, <1>4
<1> QED
  BY <1>1, <1>2, <1>3, <1>4, <1>7, <1>8, Zenon DEF BufferBounded

\* A POST is refused.
LEMMA RejectKeeps ==
  ASSUME PacketInv, NEW p \in Posts, NEW status \in {"200", "429"},
         pc[p] = "idle", Reject(p, status), UNCHANGED <<env, get, proxyVars>>,
         status = "200" => p[1] < next_seq, status = "429" => Full(p[1])
  PROVE  PacketInv'
<1> USE DEF PacketInv, proxyVars
<1>1. TypeOK'
  BY Zenon DEF TypeOK, Reject
<1>2. BufferBounded'
  BY Zenon DEF BufferBounded, Reject
<1>3. SessionInv'
  <2>1. MaxBuffered > 0 => accepted
    <3> SUFFICES ASSUME ~accepted, MaxBuffered > 0 PROVE FALSE
      BY Zenon DEF TypeOK
    <3>1. next_seq = 0 /\ Cardinality(buffered) = 0
      BY FS_EmptySet, Zenon DEF SessionInv
    <3>2. p[1] \in Nat
      BY PostSeq, Zenon
    <3> QED
      BY <3>1, <3>2, PacketUpAssumption DEF Full
  <2> QED
    BY <2>1, Zenon DEF SessionInv, Reject
<1>4. WriterInv'
  BY Zenon DEF WriterInv, TypeOK, Reject
<1>5. FlowInv'
  BY DEF FlowInv, TypeOK, Reject, Sent
<1> QED
  BY <1>1, <1>2, <1>3, <1>4, <1>5, Zenon

\* A POST is taken and what it completes is released.
LEMMA TakeKeeps ==
  ASSUME PacketInv, NEW p \in Posts, pc[p] = "idle",
         "overlap" \in env \/ \A q \in Posts : pc[q] \in {"idle", "done"},
         p[1] >= next_seq, ~Full(p[1]), Take(p), UNCHANGED <<env, get, proxyVars>>
  PROVE  PacketInv'
<1> USE DEF PacketInv, proxyVars
<1>1. /\ next_seq \in Nat /\ next_seq' \in Nat /\ next_seq' >= next_seq
      /\ chunks' = [chunks EXCEPT ![p] = Units(next_seq, next_seq')]
      /\ buffered' \subseteq Seqs
      /\ BufferBounded'
  BY TakeDrains, Zenon DEF TypeOK
<1> DEFINE U == Units(next_seq, next_seq')
<1>2. /\ U \in Seq(Nat) /\ Len(U) \in Nat
      /\ next_seq * ChunkLen \in Nat /\ next_seq' * ChunkLen \in Nat
      /\ next_seq * ChunkLen + Len(U) = next_seq' * ChunkLen
      /\ \A i \in 1 .. Len(U) : U[i] = next_seq * ChunkLen + i - 1
  <2>1. next_seq <= next_seq'
    BY <1>1
  <2>2. U \in Seq(Nat)
    BY <1>1, <2>1, UnitsRun, Zenon
  <2> QED
    BY <1>1, <2>1, <2>2, UnitsRun, LenProperties, Zenon
<1> HIDE DEF U
<1>3. /\ chunks' = [chunks EXCEPT ![p] = U]
      /\ writer' = [writer EXCEPT ![p] = upload_wr]
      /\ pc' = [pc EXCEPT ![p] = "write"]
      /\ upload_wr' = "dead" /\ exists' = TRUE
      /\ UNCHANGED <<downlink, reply, env, get, pipe, session, received>>
  BY <1>1, Zenon DEF Take, LeftInEntry, U
<1>4. \/ ~accepted /\ downlink /\ accepted' = TRUE /\ carries' = carries \cup {p}
      \/ ~(~accepted /\ downlink) /\ accepted' = accepted /\ carries' = carries
  BY Zenon DEF Take, TakesSession
<1>5. TypeOK'
  <2>1. accepted' \in BOOLEAN /\ carries' \subseteq Posts \cup Gets
    BY <1>4, Zenon DEF TypeOK
  <2>2. chunks' \in [Posts -> Seq(Nat)]
    BY <1>2, <1>3, Zenon DEF TypeOK
  <2> QED
    BY <1>1, <1>3, <2>1, <2>2 DEF TypeOK
<1>6. SessionInv'
  <2>1. CASE ~accepted
    <3>1. downlink /\ session = "entry" /\ carries = {}
      BY <2>1, Zenon DEF SessionInv
    <3>2. accepted' = TRUE /\ carries' = {p}
      BY <1>4, <2>1, <3>1, Zenon
    <3> QED
      BY <1>3, <3>1, <3>2, Zenon DEF SessionInv
  <2>2. CASE accepted
    BY <1>3, <1>4, <2>2, Zenon DEF SessionInv, TypeOK
  <2> QED
    BY <2>1, <2>2, Zenon
<1>7. WriterInv'
  BY <1>3 DEF WriterInv, TypeOK
<1>8. FlowInv'
  <2> SUFFICES ASSUME "overlap" \notin env PROVE FlowInv'
    BY <1>3, Zenon DEF FlowInv
  <2>1. \A q \in Posts : pc[q] \in {"idle", "done"} /\ writer[q] # "real"
    BY Zenon DEF WriterInv
  <2>2. \A q \in Posts : q # p => pc'[q] \in {"idle", "done"} /\ writer'[q] # "real"
    BY <1>3, <2>1, Zenon DEF TypeOK
  <2>3. Sent' = Sent /\ Sent \in Nat
    BY <1>3 DEF Sent, TypeOK
  <2>4. \A q \in Posts : session' # "gone" /\ writer'[q] = "real" =>
              /\ Sent' + Len(chunks'[q]) = next_seq' * ChunkLen
              /\ \A i \in 1 .. Len(chunks'[q]) : chunks'[q][i] = Sent' + i - 1
    <3> SUFFICES ASSUME session' # "gone", writer'[p] = "real"
                 PROVE  /\ Sent' + Len(chunks'[p]) = next_seq' * ChunkLen
                        /\ \A i \in 1 .. Len(chunks'[p]) : chunks'[p][i] = Sent' + i - 1
      BY <2>2, Zenon
    <3>1. upload_wr = "real" /\ session # "gone" /\ chunks'[p] = U
      BY <1>3, Zenon DEF TypeOK
    <3>2. Sent = next_seq * ChunkLen
      BY <3>1, Zenon DEF FlowInv
    <3> QED
      BY <1>2, <2>3, <3>1, <3>2, Zenon
  <2> QED
    BY <1>3, <2>2, <2>4, Zenon DEF FlowInv
<1> QED
  BY <1>1, <1>5, <1>6, <1>7, <1>8, Zenon

\* What the head and the tail of a run are.
LEMMA RunTail ==
  ASSUME NEW r \in Seq(Nat), r # <<>>
  PROVE  /\ Head(r) = r[1] /\ Head(r) \in Nat /\ Tail(r) \in Seq(Nat)
         /\ Len(r) \in Nat /\ Len(Tail(r)) = Len(r) - 1 /\ Len(r) >= 1
         /\ \A i \in 1 .. Len(Tail(r)) : Tail(r)[i] = r[i + 1]
<1>1. Len(r) \in Nat /\ Len(r) >= 1 /\ Head(r) = r[1]
  BY EmptySeq, LenProperties
<1>2. Tail(r) \in Seq(Nat) /\ Len(Tail(r)) = Len(r) - 1
  BY HeadTailProperties, Zenon
<1>3. \A i \in 1 .. Len(Tail(r)) : Tail(r)[i] = r[i + 1]
  BY HeadTailProperties, Zenon
<1>4. Head(r) \in Nat
  BY HeadTailProperties, Zenon
<1> QED
  BY <1>1, <1>2, <1>3, <1>4, Zenon

\* A unit is written to the pipe.
LEMMA WriteUnitKeeps ==
  ASSUME PacketInv, NEW p \in Posts, WriteUnit(p)
  PROVE  PacketInv'
<1> USE DEF PacketInv
<1> DEFINE c == chunks[p]
<1>1. c \in Seq(Nat) /\ c # <<>> /\ pipe \in Seq(Nat) /\ received \in Seq(Nat)
  BY Zenon DEF TypeOK, WriteUnit
<1>2. /\ pc[p] = "write" /\ writer[p] = "real" /\ session # "gone"
      /\ pipe' = Append(pipe, Head(c))
      /\ chunks' = [chunks EXCEPT ![p] = Tail(c)]
      /\ UNCHANGED <<env, exists, next_seq, buffered, upload_wr, downlink, accepted,
                     pc, writer, reply, carries, get, session, received>>
  BY Zenon DEF WriteUnit, entryVars
<1>3. /\ Head(c) = c[1] /\ Head(c) \in Nat /\ Tail(c) \in Seq(Nat)
      /\ Len(c) \in Nat /\ Len(Tail(c)) = Len(c) - 1 /\ Len(c) >= 1
      /\ \A i \in 1 .. Len(Tail(c)) : Tail(c)[i] = c[i + 1]
  BY <1>1, RunTail, Zenon
<1>4. /\ pipe' \in Seq(Nat) /\ Len(pipe') = Len(pipe) + 1 /\ Len(pipe) \in Nat
      /\ \A i \in 1 .. Len(pipe) : pipe'[i] = pipe[i]
      /\ pipe'[Len(pipe) + 1] = Head(c)
  BY <1>1, <1>2, <1>3, AppendProperties, SMTT(30)
<1>5. chunks'[p] = Tail(c) /\ \A q \in Posts : q # p => chunks'[q] = chunks[q]
  BY <1>2, Zenon DEF TypeOK
<1>6. chunks' \in [Posts -> Seq(Nat)]
  BY <1>2, <1>3, Zenon DEF TypeOK
<1> HIDE DEF c
<1>7. TypeOK'
  BY <1>2, <1>4, <1>6, Zenon DEF TypeOK
<1>8. BufferBounded' /\ SessionInv' /\ WriterInv'
  BY <1>2, Zenon DEF BufferBounded, SessionInv, WriterInv
<1>9. FlowInv'
  <2> SUFFICES ASSUME "overlap" \notin env PROVE FlowInv'
    BY <1>2, Zenon DEF FlowInv
  <2>1. Len(received) \in Nat /\ Sent \in Nat /\ Sent' = Sent + 1
    BY <1>1, <1>2, <1>4 DEF Sent
  <2>2. /\ Sent + Len(c) = next_seq * ChunkLen
        /\ \A i \in 1 .. Len(c) : c[i] = Sent + i - 1
    BY <1>2, Zenon DEF FlowInv, c
  <2>3. \A i \in 1 .. Len(pipe') : pipe'[i] = Len(received') + i - 1
    <3>1. \A i \in 1 .. Len(pipe) : pipe[i] = Len(received) + i - 1
      BY Zenon DEF FlowInv
    <3>2. pipe'[Len(pipe) + 1] = Len(received) + Len(pipe)
      BY <1>3, <1>4, <2>1, <2>2 DEF Sent
    <3> SUFFICES ASSUME NEW i \in 1 .. Len(pipe) + 1 PROVE pipe'[i] = Len(received) + i - 1
      BY <1>2, <1>4, Zenon
    <3>3. CASE i \in 1 .. Len(pipe)
      BY <1>4, <3>1, <3>3, Zenon
    <3>4. CASE i = Len(pipe) + 1
      BY <1>4, <2>1, <3>2, <3>4
    <3> QED
      BY <1>4, <3>3, <3>4
  <2>4. /\ Sent' + Len(chunks'[p]) = next_seq' * ChunkLen
        /\ \A i \in 1 .. Len(chunks'[p]) : chunks'[p][i] = Sent' + i - 1
    <3>1. chunks'[p] = Tail(c) /\ next_seq' = next_seq
      BY <1>2, <1>5, Zenon
    <3>2. Sent' + Len(Tail(c)) = next_seq * ChunkLen
      BY <1>3, <2>1, <2>2
    <3>3. \A i \in 1 .. Len(Tail(c)) : i + 1 \in 1 .. Len(c)
      BY <1>3
    <3>4. \A i \in 1 .. Len(Tail(c)) : Tail(c)[i] = Sent' + i - 1
      BY <1>3, <2>1, <2>2, <3>3
    <3> QED
      BY <3>1, <3>2, <3>4, Zenon
  <2>5. upload_wr' = "dead" /\ \A q \in Posts : writer'[q] = "real" => q = p
    BY <1>2, Zenon DEF WriterInv
  <2> QED
    BY <1>2, <2>3, <2>4, <2>5, ZenonT(60) DEF FlowInv
<1> QED
  BY <1>7, <1>8, <1>9, Zenon

\* A write to a pipe that is gone.
LEMMA WriteFailsKeeps ==
  ASSUME PacketInv, NEW p \in Posts, WriteFails(p)
  PROVE  PacketInv'
<1> USE DEF PacketInv
<1>1. /\ writer[p] = "dead" \/ session = "gone"
      /\ chunks' = [chunks EXCEPT ![p] = <<>>]
      /\ UNCHANGED <<env, exists, next_seq, buffered, upload_wr, downlink, accepted, pc,
                     writer, reply, carries, get, pipe, session, received>>
  BY Zenon DEF WriteFails, entryVars, proxyVars
<1>2. TypeOK'
  <2>1. <<>> \in Seq(Nat)
    OBVIOUS
  <2>2. chunks' \in [Posts -> Seq(Nat)]
    BY <1>1, <2>1, Zenon DEF TypeOK
  <2> QED
    BY <1>1, <2>2, Zenon DEF TypeOK
<1>3. BufferBounded' /\ SessionInv' /\ WriterInv'
  BY <1>1, Zenon DEF BufferBounded, SessionInv, WriterInv
<1>4. FlowInv'
  <2>1. Sent' = Sent
    BY <1>1, Zenon DEF Sent
  <2>2. \A q \in Posts : session' # "gone" /\ writer'[q] = "real" => chunks'[q] = chunks[q]
    BY <1>1, Zenon DEF TypeOK
  <2> QED
    BY <1>1, <2>1, <2>2 DEF FlowInv
<1> QED
  BY <1>2, <1>3, <1>4

\* The GET attaches.
LEMMA AttachKeeps ==
  ASSUME PacketInv, NEW p \in Posts, Attach(p)
  PROVE  PacketInv'
<1> USE DEF PacketInv
<1>1. /\ pc[p] = "write" /\ chunks[p] = <<>> /\ upload_wr' = writer[p]
      /\ writer' = [writer EXCEPT ![p] = "dead"] /\ pc' = [pc EXCEPT ![p] = "send"]
      /\ UNCHANGED <<env, exists, next_seq, buffered, downlink, accepted,
                     chunks, reply, carries, get, pipe, session, received>>
  BY Zenon DEF Attach, proxyVars
<1>2. TypeOK'
  BY <1>1, Zenon DEF TypeOK
<1>3. BufferBounded' /\ SessionInv'
  BY <1>1, Zenon DEF BufferBounded, SessionInv
<1>4. WriterInv'
  BY <1>1 DEF WriterInv, TypeOK
<1>5. FlowInv'
  <2> SUFFICES ASSUME "overlap" \notin env PROVE FlowInv'
    BY <1>1, Zenon DEF FlowInv
  <2>1. Sent' = Sent /\ Sent \in Nat
    BY <1>1 DEF Sent, TypeOK
  <2>2. \A q \in Posts : q # p => pc[q] \notin {"write", "send"} /\ writer[q] # "real"
    BY <1>1, Zenon DEF FlowInv, WriterInv
  <2>3. \A q \in Posts : writer'[q] # "real" /\ pc'[q] # "write"
    BY <1>1, <2>2, Zenon DEF TypeOK
  <2>4. \A q, r \in Posts :
           pc'[q] \in {"write", "send"} /\ pc'[r] \in {"write", "send"} => q = r
    BY <1>1, <2>2, Zenon DEF TypeOK
  <2>5. session' # "gone" /\ upload_wr' = "real" => Sent' = next_seq' * ChunkLen
    <3> SUFFICES ASSUME session # "gone", writer[p] = "real" PROVE Sent = next_seq * ChunkLen
      BY <1>1, <2>1, Zenon
    <3>1. Sent + Len(chunks[p]) = next_seq * ChunkLen
      BY Zenon DEF FlowInv
    <3>2. Len(chunks[p]) = 0
      BY <1>1
    <3> QED
      BY <2>1, <3>1, <3>2
  <2> QED
    BY <1>1, <2>3, <2>4, <2>5, Zenon DEF FlowInv
<1> QED
  BY <1>2, <1>3, <1>4, <1>5, Zenon

\* A POST is answered.
LEMMA RespondKeeps ==
  ASSUME PacketInv, NEW p \in Posts, Respond(p)
  PROVE  PacketInv'
<1> USE DEF PacketInv
<1>1. /\ pc[p] = "send" /\ pc' = [pc EXCEPT ![p] = "done"]
      /\ reply' = [reply EXCEPT ![p] = "200"]
      /\ session' = (IF p \in carries THEN "queue" ELSE session) /\ carries' = carries \ {p}
      /\ UNCHANGED <<env, exists, next_seq, buffered, upload_wr, downlink, accepted,
                     writer, chunks, get, pipe, received>>
  BY Zenon DEF Respond, Emit, entryVars
<1>2. TypeOK'
  BY <1>1, Zenon DEF TypeOK
<1>3. BufferBounded' /\ SessionInv'
  BY <1>1, Zenon DEF BufferBounded, SessionInv, TypeOK
<1>4. WriterInv'
  BY <1>1, Zenon DEF WriterInv, TypeOK
<1>5. FlowInv'
  <2>1. session' # "gone" => session # "gone"
    BY <1>1, Zenon DEF SessionInv
  <2>2. Sent' = Sent
    BY <1>1, Zenon DEF Sent
  <2>3. \A q \in Posts :
           /\ pc'[q] \in {"write", "send"} => pc[q] \in {"write", "send"}
           /\ pc'[q] = "write" => pc[q] = "write"
    BY <1>1, Zenon DEF TypeOK
  <2> QED
    BY <1>1, <2>1, <2>2, <2>3, ZenonT(40) DEF FlowInv
<1> QED
  BY <1>2, <1>3, <1>4, <1>5

\* A POST is cancelled.
LEMMA CancelKeeps ==
  ASSUME PacketInv, NEW p \in Posts, Cancel(p)
  PROVE  PacketInv'
<1> USE DEF PacketInv
<1>1. /\ pc' = [pc EXCEPT ![p] = "done"] /\ writer' = [writer EXCEPT ![p] = "dead"]
      /\ chunks' = [chunks EXCEPT ![p] = <<>>]
      /\ session' = (IF p \in carries THEN "gone" ELSE session) /\ carries' = carries \ {p}
      /\ UNCHANGED <<env, exists, next_seq, buffered, upload_wr, downlink, accepted,
                     reply, get, pipe, received>>
  BY Zenon DEF Cancel, entryVars
<1>2. TypeOK'
  <2>1. <<>> \in Seq(Nat)
    OBVIOUS
  <2>2. chunks' \in [Posts -> Seq(Nat)]
    BY <1>1, <2>1, Zenon DEF TypeOK
  <2> QED
    BY <1>1, <2>2, Zenon DEF TypeOK
<1>3. BufferBounded' /\ SessionInv'
  BY <1>1, ZenonT(40) DEF BufferBounded, SessionInv, TypeOK
<1>4. WriterInv'
  BY <1>1 DEF WriterInv, TypeOK
<1>5. FlowInv'
  <2>1. session' # "gone" => session # "gone"
    BY <1>1, Zenon
  <2>2. Sent' = Sent
    BY <1>1, Zenon DEF Sent
  <2>3. \A q \in Posts :
           /\ pc'[q] \in {"write", "send"} => pc[q] \in {"write", "send"}
           /\ pc'[q] = "write" => pc[q] = "write"
    BY <1>1, Zenon DEF TypeOK
  <2> SUFFICES ASSUME "overlap" \notin env PROVE FlowInv'
    BY <1>1, Zenon DEF FlowInv
  <2>4. /\ \A q, r \in Posts :
              pc'[q] \in {"write", "send"} /\ pc'[r] \in {"write", "send"} => q = r
        /\ \A q \in Posts : pc'[q] = "write" => upload_wr' = "dead"
    BY <1>1, <2>3, Zenon DEF FlowInv
  <2>5. session' # "gone" /\ upload_wr' = "real" => Sent' = next_seq' * ChunkLen
    BY <1>1, <2>1, <2>2, Zenon DEF FlowInv
  <2>6. \A q \in Posts : session' # "gone" /\ writer'[q] = "real" =>
              /\ Sent' + Len(chunks'[q]) = next_seq' * ChunkLen
              /\ \A i \in 1 .. Len(chunks'[q]) : chunks'[q][i] = Sent' + i - 1
    <3> SUFFICES ASSUME NEW q \in Posts, session' # "gone", writer'[q] = "real"
                 PROVE  /\ Sent' + Len(chunks'[q]) = next_seq' * ChunkLen
                        /\ \A i \in 1 .. Len(chunks'[q]) : chunks'[q][i] = Sent' + i - 1
      BY Zenon
    <3>1. session # "gone" /\ writer[q] = "real" /\ chunks'[q] = chunks[q]
      <4>1. session # "gone"
        BY <2>1, Zenon
      <4>2. q # p
        BY <1>1, Zenon DEF TypeOK
      <4>3. writer[q] = "real" /\ chunks'[q] = chunks[q]
        BY <1>1, <4>2, Zenon DEF TypeOK
      <4> QED
        BY <4>1, <4>3, Zenon
    <3>2. /\ Sent + Len(chunks[q]) = next_seq * ChunkLen
          /\ \A i \in 1 .. Len(chunks[q]) : chunks[q][i] = Sent + i - 1
      BY <3>1, Zenon DEF FlowInv
    <3> QED
      BY <1>1, <2>2, <3>1, <3>2, Zenon
  <2> QED
    BY <1>1, <2>4, <2>5, <2>6, Zenon DEF FlowInv
<1> QED
  BY <1>2, <1>3, <1>4, <1>5

\* The GET is served.
LEMMA GetsKeep ==
  ASSUME PacketInv, NEW g \in Gets, Downlink(g) \/ Stream(g)
  PROVE  PacketInv'
<1> USE DEF PacketInv
<1>1. UNCHANGED <<env, next_seq, buffered, upload_wr, pc, writer, chunks, reply, pipe, received>>
  BY Zenon DEF Downlink, Stream, entryVars, postVars
<1>2. TypeOK' /\ SessionInv'
  <2>1. CASE Downlink(g)
    <3>1. TypeOK'
      BY <1>1, <2>1, ZenonT(40) DEF TypeOK, Downlink
    <3>2. session' = session /\ accepted' = TRUE
      BY <2>1, Zenon DEF Downlink, SessionInv
    <3>3. ASSUME accepted PROVE SessionInv'
      BY <2>1, <3>2, <3>3, Zenon DEF SessionInv, Downlink
    <3>4. ASSUME ~accepted PROVE SessionInv'
      <4>1. carries' = {g} /\ session = "entry"
        BY <2>1, <3>4, Zenon DEF SessionInv, Downlink
      <4> QED
        BY <3>2, <4>1, Zenon DEF SessionInv
    <3> QED
      BY <3>1, <3>3, <3>4, Zenon
  <2>2. CASE Stream(g)
    BY <2>2, ZenonT(40) DEF Stream, Emit, TypeOK, SessionInv, entryVars, postVars
  <2> QED
    BY <2>1, <2>2, Zenon
<1>3. BufferBounded' /\ WriterInv'
  BY <1>1, Zenon DEF BufferBounded, WriterInv
<1>4. FlowInv'
  <2>1. session' # "gone" => session # "gone"
    BY Zenon DEF Downlink, Stream, Emit, SessionInv
  <2>2. Sent' = Sent
    BY <1>1, Zenon DEF Sent
  <2> QED
    BY <1>1, <2>1, <2>2, Zenon DEF FlowInv
<1> QED
  BY <1>2, <1>3, <1>4, Zenon

\* The proxied session reads and ends.
LEMMA ProxyKeeps ==
  ASSUME PacketInv, Accept \/ Read \/ Hangup
  PROVE  PacketInv'
<1> USE DEF PacketInv
<1>1. UNCHANGED <<env, exists, next_seq, buffered, upload_wr, downlink, accepted,
                  pc, writer, chunks, reply, carries, get>>
  BY Zenon DEF Accept, Read, Hangup, entryVars, postVars
<1>2. session \in {"queue", "proxy"} /\ session' \in {"proxy", "gone"}
  BY Zenon DEF Accept, Read, Hangup
<1>3. BufferBounded' /\ WriterInv'
  BY <1>1, Zenon DEF BufferBounded, WriterInv
<1>4. SessionInv'
  BY <1>1, <1>2, Zenon DEF SessionInv
<1>5. TypeOK' /\ FlowInv'
  <2>1. CASE Accept
    <3>1. UNCHANGED <<pipe, received>>
      BY <2>1, Zenon DEF Accept
    <3>2. Sent' = Sent
      BY <3>1, Zenon DEF Sent
    <3> QED
      BY <1>1, <1>2, <3>1, <3>2, ZenonT(60) DEF TypeOK, FlowInv
  <2>2. CASE Read
    <3>1. /\ pipe \in Seq(Nat) /\ pipe # <<>> /\ received \in Seq(Nat)
          /\ received' = Append(received, Head(pipe)) /\ pipe' = Tail(pipe)
          /\ session' = session
      BY <2>2, Zenon DEF Read, TypeOK
    <3>2. /\ Head(pipe) = pipe[1] /\ Head(pipe) \in Nat /\ pipe' \in Seq(Nat)
          /\ Len(pipe) \in Nat /\ Len(pipe') = Len(pipe) - 1 /\ Len(pipe) >= 1
          /\ \A i \in 1 .. Len(pipe') : pipe'[i] = pipe[i + 1]
      BY <3>1, RunTail, Zenon
    <3>3. /\ received' \in Seq(Nat) /\ Len(received') = Len(received) + 1
          /\ Len(received) \in Nat
          /\ \A i \in 1 .. Len(received) : received'[i] = received[i]
          /\ received'[Len(received) + 1] = Head(pipe)
      BY <3>1, <3>2, AppendProperties
    <3>4. TypeOK'
      BY <1>1, <3>1, <3>2, <3>3, ZenonT(60) DEF TypeOK
    <3>5. Sent' = Sent
      BY <3>2, <3>3 DEF Sent
    <3>6. FlowInv'
      <4> SUFFICES ASSUME "overlap" \notin env PROVE FlowInv'
        BY <1>1, Zenon DEF FlowInv
      <4>1. /\ \A i \in 1 .. Len(received) : received[i] = i - 1
            /\ \A i \in 1 .. Len(pipe) : pipe[i] = Len(received) + i - 1
        BY Zenon DEF FlowInv
      <4>2. \A i \in 1 .. Len(received') : received'[i] = i - 1
        <5>1. received'[Len(received) + 1] = Len(received)
          BY <3>2, <3>3, <4>1
        <5>2. \A i \in 1 .. Len(received') :
                 i \in 1 .. Len(received) \/ i = Len(received) + 1
          BY <3>3
        <5> QED
          BY <3>3, <4>1, <5>1, <5>2
      <4>3. \A i \in 1 .. Len(pipe') : pipe'[i] = Len(received') + i - 1
        <5>1. \A i \in 1 .. Len(pipe') : i + 1 \in 1 .. Len(pipe)
          BY <3>2
        <5> QED
          BY <3>2, <3>3, <4>1, <5>1
      <4> QED
        BY <1>1, <3>1, <3>5, <4>2, <4>3, ZenonT(60) DEF FlowInv
    <3> QED
      BY <3>4, <3>6, Zenon
  <2>3. CASE Hangup
    <3>1. pipe' = <<>> /\ received' = received /\ session' = "gone"
      BY <2>3, Zenon DEF Hangup
    <3>2. TypeOK'
      BY <1>1, <3>1 DEF TypeOK
    <3> QED
      BY <1>1, <3>1, <3>2 DEF FlowInv
  <2> QED
    BY <2>1, <2>2, <2>3, Zenon
<1> QED
  BY <1>3, <1>4, <1>5, Zenon

\* Every step keeps the invariant.
LEMMA PacketStep == PacketInv /\ [Next]_vars => PacketInv'
<1> SUFFICES ASSUME PacketInv, [Next]_vars PROVE PacketInv'
  BY Zenon
<1>1. ASSUME NEW p \in Posts, Uplink(p) PROVE PacketInv'
  <2>1. /\ pc[p] = "idle" /\ UNCHANGED <<env, get, proxyVars>>
        /\ "overlap" \in env \/ \A q \in Posts : pc[q] \in {"idle", "done"}
    BY <1>1, Zenon DEF Uplink
  <2>2. CASE p[1] < next_seq /\ Reject(p, "200")
    BY <2>1, <2>2, RejectKeeps, Zenon
  <2>3. CASE Full(p[1]) /\ Reject(p, "429")
    BY <2>1, <2>3, RejectKeeps, Zenon
  <2>4. CASE p[1] >= next_seq /\ ~Full(p[1]) /\ Take(p)
    BY <2>1, <2>4, TakeKeeps, Zenon
  <2> QED
    BY <1>1, <2>2, <2>3, <2>4, Zenon DEF Uplink
<1>2. ASSUME NEW p \in Posts, Handler(p) PROVE PacketInv'
  BY <1>2, WriteUnitKeeps, WriteFailsKeeps, AttachKeeps, RespondKeeps, Zenon DEF Handler
<1>3. ASSUME NEW p \in Posts, Cancel(p) PROVE PacketInv'
  BY <1>3, CancelKeeps, Zenon
<1>4. ASSUME NEW g \in Gets, Downlink(g) \/ Stream(g) PROVE PacketInv'
  BY <1>4, GetsKeep, Zenon
<1>5. CASE Accept \/ Read \/ Hangup
  BY <1>5, ProxyKeeps, ZenonT(60)
<1>6. CASE UNCHANGED vars
  BY <1>6 DEF PacketInv, TypeOK, BufferBounded, SessionInv, WriterInv, FlowInv, Sent,
              vars, entryVars, postVars, proxyVars
<1> QED
  BY <1>1, <1>2, <1>3, <1>4, <1>5, <1>6, ZenonT(60) DEF Next

-----------------------------------------------------------------------------
(* The theorems *)

\* The inductive invariant holds in every reachable state of the dispatcher.
THEOREM PacketInvHolds == Spec => []PacketInv
BY PacketInit, PacketStep, PTL DEF Spec

\* handle_uplink never buffers more than max_buffered_posts bodies, and never one that it could
\* release, for every order and repetition of POSTs.
THEOREM BufferStaysBounded == Spec => []BufferBounded
<1>1. PacketInv => BufferBounded
  BY Zenon DEF PacketInv
<1> QED
  BY <1>1, PacketInvHolds, PTL

\* The session object has one holder at a time, whichever requests race to hand it on and
\* whichever of them are cut off.
THEOREM SessionIsConserved == Spec => []SessionConserved
<1>1. PacketInv => SessionConserved
  <2> SUFFICES ASSUME PacketInv PROVE SessionConserved
    BY Zenon
  <2>1. Cardinality(carries) <= 1
    <3>1. CASE carries = {}
      BY <3>1, FS_EmptySet
    <3>2. ASSUME NEW h, carries = {h} PROVE Cardinality(carries) <= 1
      <4>1. Cardinality({h}) = 1
        BY FS_Singleton, Zenon
      <4> QED
        BY <3>2, <4>1
    <3> QED
      BY <3>1, <3>2, Zenon DEF PacketInv, SessionInv
  <2> QED
    BY <2>1, Zenon DEF PacketInv, SessionInv, SessionConserved
<1> QED
  BY <1>1, PacketInvHolds, PTL

\* While the POSTs of a session are handled one at a time, what the proxy reads is the uplink from
\* its beginning without a gap, for bodies in any order, repeated or cut off.
THEOREM UplinkInOrder == Spec => []InOrder
<1>1. PacketInv => InOrder
  BY Zenon DEF PacketInv, FlowInv, InOrder, ReleasedInOrder
<1> QED
  BY <1>1, PacketInvHolds, PTL

-----------------------------------------------------------------------------
(* StreamUp *)

\* What the two properties need to be inductive: a request that is waiting, refused or not there
\* yet belongs to no pair, and a POST that has not come has no session.
Unpaired == {"idle", "parked", "conflict"}
PairingInv ==
    /\ PairTypeOK /\ ParkedIsInTable /\ PairingExclusive
    /\ \A p \in UplinkPosts : st[p] \in Unpaired => peer[p] = None
    /\ \A p \in UplinkPosts : st[p] = "idle" => proxyEnd[p] = "none"
    /\ \A p \in UplinkPosts : peer[p] # None => st[peer[p]] \notin Unpaired

\* Nothing has arrived: no request is parked and there is no pair.
LEMMA PairingInit == PairInit => PairingInv
  BY StreamUpAssumption
  DEF PairInit, PairingInv, PairTypeOK, ParkedIsInTable, PairingExclusive, Requests, EndPlaces,
      Unpaired

\* The arrival of a POST: it is paired with the GET that waits, parked, or refused.
LEMMA HandleUplinkKeeps ==
  ASSUME PairingInv, NEW p \in UplinkPosts, HandleUplink(p)
  PROVE  PairingInv'
<1> USE StreamUpAssumption DEF PairingInv, PairTypeOK, ParkedIsInTable, PairingExclusive,
    Requests, EndPlaces, Unpaired
<1>1. CASE table \in DownlinkGets /\ Pair(p, table, p)
  <2> DEFINE g == table
  <2>1. st[g] = "parked" /\ st[p] = "idle" /\ p # g
    BY <1>1, Zenon DEF HandleUplink
  <2>2. \A q \in UplinkPosts : peer[q] # g
    BY <2>1, <1>1
  <2> QED
    BY <1>1, <2>1, <2>2 DEF HandleUplink, Pair
<1>2. CASE table = None /\ Park(p)
  BY <1>2 DEF HandleUplink, Park
<1>3. CASE table \in UplinkPosts /\ Conflict(p)
  BY <1>3 DEF HandleUplink, Conflict
<1> QED
  BY <1>1, <1>2, <1>3, ZenonT(60) DEF HandleUplink

\* The arrival of a GET: it is paired with the POST that waits, parked, or refused.
LEMMA HandleDownlinkKeeps ==
  ASSUME PairingInv, NEW g \in DownlinkGets, HandleDownlink(g)
  PROVE  PairingInv'
<1> USE StreamUpAssumption DEF PairingInv, PairTypeOK, ParkedIsInTable, PairingExclusive,
    Requests, EndPlaces, Unpaired
<1>1. CASE table \in UplinkPosts /\ Pair(table, g, g)
  <2>1. st[table] = "parked" /\ st[g] = "idle" /\ table # g /\ peer[table] = None
    BY <1>1, Zenon DEF HandleDownlink
  <2>2. \A q \in UplinkPosts : peer[q] # g
    BY <2>1, <1>1, SMTT(30)
  <2> QED
    BY <1>1, <2>1, <2>2 DEF HandleDownlink, Pair
<1>2. CASE table = None /\ Park(g)
  BY <1>2 DEF HandleDownlink, Park
<1>3. CASE table \in DownlinkGets /\ Conflict(g)
  BY <1>3 DEF HandleDownlink, Conflict
<1> QED
  BY <1>1, <1>2, <1>3, ZenonT(60) DEF HandleDownlink

\* Every step keeps the invariant.
LEMMA PairingStep == PairingInv /\ [PairNext]_pairVars => PairingInv'
<1> SUFFICES ASSUME PairingInv, [PairNext]_pairVars PROVE PairingInv'
  BY SMTT(30)
<1> USE StreamUpAssumption DEF PairingInv, PairTypeOK, ParkedIsInTable, PairingExclusive,
    Requests, EndPlaces, Unpaired
<1>1. ASSUME NEW p \in UplinkPosts, SendSession(p) PROVE PairingInv'
  BY <1>1 DEF SendSession
<1>2. ASSUME NEW p \in UplinkPosts, HandlerDropped(p) PROVE PairingInv'
  BY <1>2 DEF HandlerDropped
<1>3. ASSUME NEW p \in UplinkPosts, ProxyAccepts(p) PROVE PairingInv'
  BY <1>3 DEF ProxyAccepts
<1>4. ASSUME NEW p \in UplinkPosts, ProxyCloses(p) PROVE PairingInv'
  BY <1>4 DEF ProxyCloses
<1>5. ASSUME NEW p \in UplinkPosts, UplinkEnds(p) PROVE PairingInv'
  BY <1>5 DEF UplinkEnds
<1>6. ASSUME NEW p \in UplinkPosts, DownlinkEnds(p) PROVE PairingInv'
  BY <1>6, ZenonT(60) DEF DownlinkEnds
<1>7. ASSUME NEW g \in DownlinkGets, ClientLeaves(g) PROVE PairingInv'
  BY <1>7 DEF ClientLeaves
<1>8. CASE UNCHANGED pairVars
  BY <1>8 DEF pairVars
<1> QED
  BY <1>1, <1>2, <1>3, <1>4, <1>5, <1>6, <1>7, <1>8, HandleUplinkKeeps, HandleDownlinkKeeps,
     ZenonT(60) DEF PairNext

\* The invariant holds for every set of requests and every capacity of the accept channel.
THEOREM PairingHolds == PairSpec => []PairingInv
  BY PairingInit, PairingStep, PTL DEF PairSpec

\* handle_uplink and handle_downlink: a request waits exactly when the table holds it.
THEOREM WaitingIsParked == PairSpec => []ParkedIsInTable
<1>1. PairingInv => ParkedIsInTable
  BY Zenon DEF PairingInv
<1> QED
  BY <1>1, PairingHolds, PTL

\* Action::Pair and DAction::Pair: no two POSTs share a GET, and every session that was sent has one.
THEOREM PairsExclusive == PairSpec => []PairingExclusive
<1>1. PairingInv => PairingExclusive
  BY Zenon DEF PairingInv
<1> QED
  BY <1>1, PairingHolds, PTL

=============================================================================
