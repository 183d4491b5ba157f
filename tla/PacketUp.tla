------------------------------ MODULE PacketUp ------------------------------
(***************************************************************************)
(* The packet-up dispatcher of the carrier server (crates/donut-carrier/   *)
(* src/server/packet_up.rs), for one session id: sequenced POSTs carry the *)
(* uplink, one GET carries the downlink, and the session is handed to the  *)
(* proxy over the accept channel.                                          *)
(*                                                                         *)
(* A handler runs under the table's lock only while it updates the session *)
(* (actions Uplink and Downlink); the writes to the session's pipe, the    *)
(* re-attachment of the writer and the send on the accept channel are      *)
(* separate steps, between which other handlers run.                       *)
(***************************************************************************)
EXTENDS Naturals, Sequences, FiniteSets

CONSTANTS
    NumSeq,        \* sequence numbers 0 .. NumSeq - 1 are used
    Resent,        \* those that may be posted a second time
    Gets,          \* the downlink requests
    MaxBuffered,   \* ServerConfig::max_buffered_posts
    ChunkLen,      \* size of a POST body, in units
    PipeCap,       \* PIPE_CAPACITY, in units
    Envs           \* what the client's side may do: sets of "overlap", "cancel"

ASSUME PacketUpAssumption ==
    /\ NumSeq \in Nat \ {0} /\ ChunkLen \in Nat \ {0} /\ PipeCap \in Nat \ {0}
    /\ MaxBuffered \in Nat /\ Resent \subseteq 0 .. NumSeq - 1
    /\ Envs \subseteq SUBSET {"overlap", "cancel"}

Seqs == 0 .. NumSeq - 1
Posts == (Seqs \X {1}) \cup (Resent \X {2})

VARIABLES
    env,        \* "overlap": two POSTs of the session may be handled at once;
                \* "cancel": a connection may go away under a handler; never changes
    exists,     \* the session has an entry in the table
    next_seq,   \* SessionState::next_seq
    buffered,   \* the sequence numbers whose bodies are buffered
    upload_wr,  \* the writer in the entry: "real", or "dead" (a placeholder)
    downlink,   \* downlink_rd is still in the entry
    accepted,   \* SessionState::accepted
    pc,         \* the step each POST handler is at
    writer,     \* the writer a POST handler holds
    chunks,     \* the units it has still to write
    carries,    \* the POST and GET handlers that hold the session to emit
    reply,      \* the status each POST was answered with
    get,        \* the step each GET handler is at
    pipe,       \* units written and not yet read
    session,    \* where the proxy's end is: "entry", "queue", "proxy", "gone"
    received    \* units the proxy has read

entryVars == <<env, exists, next_seq, buffered, upload_wr, downlink, accepted>>
postVars == <<pc, writer, chunks, reply>>
proxyVars == <<pipe, session, received>>
vars == <<entryVars, postVars, carries, get, proxyVars>>

\* Faulty variant: the bodies are taken from the back of the buffer.
UnitsNewestFirst(a, b) == [i \in 1 .. (b - a) * ChunkLen |-> b * ChunkLen - i]

\* The uplink stream is the units 0, 1, 2, ...; the body with sequence number
\* s holds ChunkLen of them.  Units(a, b) are those of the bodies a .. b - 1.
Units(a, b) == [i \in 1 .. (b - a) * ChunkLen |-> a * ChunkLen + i - 1]

\* fresh_state, made by whichever request comes first.
Init ==
    /\ env \in Envs
    /\ exists = FALSE /\ next_seq = 0 /\ buffered = {}
    /\ upload_wr = "real" /\ downlink = TRUE /\ accepted = FALSE
    /\ pc = [p \in Posts |-> "idle"]
    /\ writer = [p \in Posts |-> "dead"]
    /\ chunks = [p \in Posts |-> <<>>]
    /\ carries = {}
    /\ reply = [p \in Posts |-> "none"]
    /\ get = [g \in Gets |-> "idle"]
    /\ pipe = <<>> /\ session = "entry" /\ received = <<>>

-----------------------------------------------------------------------------

\* A body that would have to wait finds the buffer full.
Full(s) == s > next_seq /\ Cardinality(buffered) >= MaxBuffered

Insert(s) == buffered \cup {s}

\* The first sequence number that is not in b, counting from n.
Drained(b, n) ==
    CHOOSE m \in n .. n + Cardinality(b) : m \notin b /\ \A k \in n .. m - 1 : k \in b

Reject(p, status) ==
    /\ exists' = TRUE
    /\ pc' = [pc EXCEPT ![p] = "done"]
    /\ reply' = [reply EXCEPT ![p] = status]
    /\ UNCHANGED <<next_seq, buffered, upload_wr, downlink, accepted,
                   writer, chunks, carries>>

\* Faulty variant: the session is taken whether or not it was before.
TakesSessionAgain == downlink
TakesSession == ~accepted /\ downlink

\* mem::replace leaves a placeholder whose peer is closed.
LeftInEntry == "dead"

\* A new body is buffered, the ordered prefix taken out, the writer taken and
\* a placeholder left in its place, and the session taken if it was not yet.
Take(p) ==
    LET b == Insert(p[1])
        n == Drained(b, next_seq)
    IN  /\ exists' = TRUE
        /\ next_seq' = n
        /\ buffered' = {s \in b : s >= n}
        /\ chunks' = [chunks EXCEPT ![p] = Units(next_seq, n)]
        /\ writer' = [writer EXCEPT ![p] = upload_wr]
        /\ upload_wr' = LeftInEntry
        /\ IF TakesSession
           THEN accepted' = TRUE /\ carries' = carries \cup {p}
           ELSE UNCHANGED <<accepted, carries>>
        /\ pc' = [pc EXCEPT ![p] = "write"]
        /\ UNCHANGED <<downlink, reply>>

Uplink(p) ==
    /\ pc[p] = "idle"
    /\ "overlap" \in env \/ \A q \in Posts : pc[q] \in {"idle", "done"}
    /\ \/ p[1] < next_seq /\ Reject(p, "200")
       \/ p[1] >= next_seq /\ Full(p[1]) /\ Reject(p, "429")
       \/ p[1] >= next_seq /\ ~Full(p[1]) /\ Take(p)
    /\ UNCHANGED <<env, get, proxyVars>>

\* write_all makes progress, or stops at the first error.
WriteUnit(p) ==
    /\ pc[p] = "write" /\ chunks[p] # <<>>
    /\ writer[p] = "real" /\ session # "gone" /\ Len(pipe) < PipeCap
    /\ pipe' = Append(pipe, Head(chunks[p]))
    /\ chunks' = [chunks EXCEPT ![p] = Tail(@)]
    /\ UNCHANGED <<entryVars, pc, writer, reply, carries, get, session, received>>

WriteFails(p) ==
    /\ pc[p] = "write" /\ chunks[p] # <<>>
    /\ writer[p] = "dead" \/ session = "gone"
    /\ chunks' = [chunks EXCEPT ![p] = <<>>]
    /\ UNCHANGED <<entryVars, pc, writer, reply, carries, get, proxyVars>>

\* Faulty variant: the writer is not put back.
AttachForgotten(p) ==
    /\ pc[p] = "write" /\ chunks[p] = <<>>
    /\ writer' = [writer EXCEPT ![p] = "dead"]
    /\ pc' = [pc EXCEPT ![p] = "send"]
    /\ UNCHANGED <<entryVars, chunks, reply, carries, get, proxyVars>>

Attach(p) ==
    /\ pc[p] = "write" /\ chunks[p] = <<>>
    /\ upload_wr' = writer[p]
    /\ writer' = [writer EXCEPT ![p] = "dead"]
    /\ pc' = [pc EXCEPT ![p] = "send"]
    /\ UNCHANGED <<env, exists, next_seq, buffered, downlink, accepted,
                   chunks, reply, carries, get, proxyVars>>

\* The session a handler holds, if it holds one, goes to the accept channel.
Emit(h) ==
    /\ session' = IF h \in carries THEN "queue" ELSE session
    /\ carries' = carries \ {h}

Respond(p) ==
    /\ pc[p] = "send"
    /\ Emit(p)
    /\ pc' = [pc EXCEPT ![p] = "done"]
    /\ reply' = [reply EXCEPT ![p] = "200"]
    /\ UNCHANGED <<entryVars, writer, chunks, get, pipe, received>>

\* The connection goes away while the handler waits: its locals are dropped.
Cancel(p) ==
    /\ "cancel" \in env /\ pc[p] \in {"write", "send"}
    /\ pc' = [pc EXCEPT ![p] = "done"]
    /\ writer' = [writer EXCEPT ![p] = "dead"]
    /\ chunks' = [chunks EXCEPT ![p] = <<>>]
    /\ session' = IF p \in carries THEN "gone" ELSE session
    /\ carries' = carries \ {p}
    /\ UNCHANGED <<entryVars, reply, get, pipe, received>>

Downlink(g) ==
    /\ get[g] = "idle"
    /\ exists' = TRUE
    /\ downlink' = FALSE
    /\ accepted' = TRUE
    /\ carries' = IF accepted \/ ~downlink THEN carries ELSE carries \cup {g}
    /\ get' = [get EXCEPT ![g] = IF downlink THEN "send" ELSE "conflict"]
    /\ session' = IF ~accepted /\ ~downlink THEN "gone" ELSE session
    /\ UNCHANGED <<env, next_seq, buffered, upload_wr, postVars, pipe, received>>

Stream(g) ==
    /\ get[g] = "send"
    /\ Emit(g)
    /\ get' = [get EXCEPT ![g] = "open"]
    /\ UNCHANGED <<entryVars, postVars, pipe, received>>

-----------------------------------------------------------------------------
(***************************************************************************)
(* The proxy: takes sessions off the accept channel, reads their uplink,   *)
(* and drops its end when the relay is over.                               *)
(***************************************************************************)
Accept ==
    /\ session = "queue" /\ session' = "proxy"
    /\ UNCHANGED <<entryVars, postVars, carries, get, pipe, received>>

Read ==
    /\ session = "proxy" /\ pipe # <<>>
    /\ received' = Append(received, Head(pipe))
    /\ pipe' = Tail(pipe)
    /\ UNCHANGED <<entryVars, postVars, carries, get, session>>

Hangup ==
    /\ session = "proxy" /\ session' = "gone"
    /\ pipe' = <<>>
    /\ UNCHANGED <<entryVars, postVars, carries, get, received>>

Handler(p) == WriteUnit(p) \/ WriteFails(p) \/ Attach(p) \/ Respond(p)

Next ==
    \/ \E p \in Posts : Uplink(p) \/ Handler(p) \/ Cancel(p)
    \/ \E g \in Gets : Downlink(g) \/ Stream(g)
    \/ Accept \/ Read \/ Hangup

Spec == Init /\ [][Next]_vars

\* The runtime polls every handler that can go on, the proxy accepts and reads.
Fairness ==
    /\ \A p \in Posts : WF_vars(Handler(p))
    /\ \A g \in Gets : WF_vars(Stream(g))
    /\ WF_vars(Accept) /\ WF_vars(Read)
FairSpec == Spec /\ Fairness

-----------------------------------------------------------------------------
TypeOK ==
    /\ env \in Envs
    /\ exists \in BOOLEAN /\ next_seq \in Nat /\ buffered \subseteq Seqs
    /\ upload_wr \in {"real", "dead"} /\ downlink \in BOOLEAN /\ accepted \in BOOLEAN
    /\ pc \in [Posts -> {"idle", "write", "send", "done"}]
    /\ writer \in [Posts -> {"real", "dead"}]
    /\ chunks \in [Posts -> Seq(Nat)]
    /\ carries \subseteq Posts \cup Gets
    /\ reply \in [Posts -> {"none", "200", "429"}]
    /\ get \in [Gets -> {"idle", "send", "open", "conflict"}]
    /\ pipe \in Seq(Nat) /\ received \in Seq(Nat)
    /\ session \in {"entry", "queue", "proxy", "gone"}

(***************************************************************************)
(* The proxy reads the uplink from its beginning and without a gap: "The   *)
(* dispatcher [...] releases their bodies in `seq` order", whatever order  *)
(* they arrive in (handle_uplink).                                         *)
(***************************************************************************)
ReleasedInOrder == \A i \in 1 .. Len(received) : received[i] = i - 1

(***************************************************************************)
(* While the POSTs of the session are handled one at a time, the uplink is *)
(* read in order and without a gap, also when bodies come out of order,    *)
(* twice, or break off under a handler (handle_uplink).                    *)
(***************************************************************************)
InOrder == "overlap" \notin env => ReleasedInOrder

(***************************************************************************)
(* Out-of-order bodies are bounded by max_buffered_posts and never include *)
(* one that could be released (handle_uplink, the 429 and the drain).      *)
(***************************************************************************)
BufferBounded ==
    /\ Cardinality(buffered) <= MaxBuffered
    /\ \A s \in buffered : s > next_seq

(***************************************************************************)
(* The session object is never lost nor duplicated: it is in the entry     *)
(* until a handler takes it, which the first request does unless nothing   *)
(* may be buffered; then one handler holds it until the channel, the proxy *)
(* or nobody has it (the accept decisions of handle_uplink and             *)
(* handle_downlink).                                                       *)
(***************************************************************************)
SessionConserved ==
    /\ Cardinality(carries) <= 1
    /\ (carries # {}) <=> (accepted /\ session = "entry")
    /\ exists /\ MaxBuffered > 0 => accepted

(***************************************************************************)
(* A session that has begun is served: the proxy gets it from the accept   *)
(* channel, whatever overlaps and breaks off, as long as a body fits in    *)
(* the pipe.  And a body that was answered 200, as were all before it,     *)
(* reaches the proxy unless the relay has ended: while POSTs are handled   *)
(* one at a time and none is cut off, the proxy never stays behind         *)
(* (handle_uplink, handle_downlink).                                       *)
(***************************************************************************)
Confirmed(s) == \A r \in 0 .. s : \E p \in Posts : p[1] = r /\ reply[p] = "200"
Behind ==
    /\ env = {} /\ session # "gone"
    /\ \E s \in Seqs : Confirmed(s) /\ Len(received) < (s + 1) * ChunkLen
Delivered ==
    /\ exists ~> session \in {"proxy", "gone"}
    /\ Behind ~> ~Behind

=============================================================================
