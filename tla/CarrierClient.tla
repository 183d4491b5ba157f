---------------------------- MODULE CarrierClient ----------------------------
(***************************************************************************)
(* The clients of the carrier that use several requests per session:       *)
(* client/packet_up.rs and client/stream_up.rs.  They name the session and *)
(* the upload's place in it inside the request, and session_extract.rs of  *)
(* the server reads them back: both are here, with the uplink's task, the  *)
(* connections that fail under it and the downlink that ends the dial.     *)
(*                                                                         *)
(* A path is a sequence of slashes and segments; the query, the headers    *)
(* and the cookies are functions from names to values.                     *)
(***************************************************************************)
EXTENDS Integers, Sequences, SequencesExt, FiniteSets, TLC

CONSTANTS
  Modes, PathPrefixes, Placements, SeqPlacements,  \* configurations, the same on both sides
  Pins,      \* the hosts a server may insist on, or None
  Host,      \* the host the client names: a name, and a port or None
  Sid,       \* the session id in hex
  Chunks,    \* what the user writes, in reads of the uplink task
  Pipe,      \* PIPE_CAPACITY
  None

VARIABLES
  cfg,      \* mode, path prefix, placements, the pinned host
  unsent,   \* what the user has not written yet
  pipe,     \* written and not read by the uplink task
  closed,   \* the user has shut down, or let go of the stream
  task,     \* the uplink task: "reading", "posting" or "ended"
  seq,      \* of the next POST
  post,     \* the POST in flight
  taken,    \* the server's chunks by sequence number
  seen,     \* what the server made of the requests it got
  lost,     \* whether a connection broke
  dial      \* the downlink's GET: "pending", "ok", "refused", and "over" when its body has ended

vars == <<cfg, unsent, pipe, closed, task, seq, post, taken, seen, lost, dial>>

-----------------------------------------------------------------------------
(* Composing a request *)

Slashed(prefix) == IF prefix # <<>> /\ prefix[Len(prefix)] = "/" THEN prefix ELSE Append(prefix, "/")

\* compose_path, the part before the question mark
PathOf == CASE cfg.sid = "path" -> Append(Slashed(cfg.prefix), Sid)
            [] cfg.sid = "query" -> Slashed(cfg.prefix)
            [] OTHER -> cfg.prefix

\* and the part behind it
QueryOf == IF cfg.sid = "query" THEN "x_session" :> Sid ELSE <<>>

\* build_request: a POST of packet-up carries a sequence number, unless that is to be in the URI
Cookies(n) ==
  (IF cfg.sid = "cookie" THEN "x_session" :> Sid ELSE <<>>)
    @@ (IF cfg.seq = "cookie" /\ n # None THEN "x_seq" :> n ELSE <<>>)
Headers(n) ==
  (IF cfg.sid = "header" THEN "X-Session" :> Sid ELSE <<>>)
    @@ (IF cfg.seq = "header" /\ n # None THEN "X-Seq" :> n ELSE <<>>)

BuildRequest(method, n, body) ==
  [method |-> method, host |-> Host, path |-> PathOf, query |-> QueryOf, headers |-> Headers(n),
   cookies |-> Cookies(n), body |-> body]

-----------------------------------------------------------------------------
(* Reading it back *)

Value(f, key) == IF key \in DOMAIN f THEN f[key] ELSE None

\* SessionId::from_str
ParseSid(v) == IF v = Sid THEN v ELSE None

\* the path after the prefix, without the slash a client puts between
Rest(after) == IF after # <<>> /\ after[1] = "/" THEN Tail(after) ELSE after

\* host_matches: the ports do not count
HostMatches(r) == r.host.name = cfg.pin.name

\* session_id
SessionId(r) ==
  LET after == SubSeq(r.path, Len(cfg.prefix) + 1, Len(r.path)) IN
  IF cfg.pin # None /\ ~HostMatches(r) THEN None
  ELSE IF ~IsPrefix(cfg.prefix, r.path) THEN None
  ELSE CASE cfg.sid = "path" -> IF Rest(after) = <<>> THEN None ELSE ParseSid(Rest(after)[1])
         [] cfg.sid = "query" -> ParseSid(Value(r.query, "x_session"))
         [] cfg.sid = "header" -> ParseSid(Value(r.headers, "X-Session"))
         [] cfg.sid = "cookie" -> ParseSid(Value(r.cookies, "x_session"))

\* sequence: a value that is not a number is an error, like one that is missing
Number(v) == IF v \in 0..Len(Chunks) THEN v ELSE None
Sequence(r) ==
  CASE cfg.seq = "header" -> Number(Value(r.headers, "X-Seq"))
    [] cfg.seq = "query" -> Number(Value(r.query, "x_seq"))
    [] cfg.seq = "cookie" -> Number(Value(r.cookies, "x_seq"))
    [] cfg.seq = "path" -> LET segs == SelectSeq(r.path, LAMBDA x : x # "/")
                           IN  IF segs = <<>> THEN None ELSE Number(segs[Len(segs)])

-----------------------------------------------------------------------------
(* The user's end of the stream *)

UserWrites ==
  /\ unsent # <<>> /\ ~closed /\ dial = "ok" /\ Len(pipe) < Pipe
  /\ pipe' = Append(pipe, Head(unsent)) /\ unsent' = Tail(unsent)
  /\ UNCHANGED <<cfg, closed, task, seq, post, taken, seen, lost, dial>>

\* it shuts down, or lets go of the stream; of a refused dial it never gets one
UserCloses ==
  /\ ~closed /\ dial # "pending" /\ closed' = TRUE
  /\ UNCHANGED <<cfg, unsent, pipe, task, seq, post, taken, seen, lost, dial>>

-----------------------------------------------------------------------------
(* The uplink.  packet-up: one chunk, one POST, one connection at a time;  *)
(* stream-up: the body of one POST that is open from the start.            *)

Posts == cfg.mode = "packet-up"

UplinkReads ==
  /\ task = "reading" /\ pipe # <<>>
  /\ IF Posts THEN task' = "posting" /\ post' = BuildRequest("POST", seq, Head(pipe))
     ELSE task' = task /\ post' = [post EXCEPT !.body = Append(@, Head(pipe))]
  /\ pipe' = Tail(pipe)
  /\ UNCHANGED <<cfg, unsent, closed, seq, taken, seen, lost, dial>>

\* read returns 0: the user has closed and everything was read
UplinkEof ==
  /\ task = "reading" /\ pipe = <<>> /\ closed
  /\ task' = "ended"
  /\ UNCHANGED <<cfg, unsent, pipe, closed, seq, post, taken, seen, lost, dial>>

\* the server answers a POST, and post_chunk does not look at the status
ServerTakesPost ==
  /\ task = "posting"
  /\ LET n == Sequence(post) IN
     /\ taken' = IF SessionId(post) = Sid /\ n # None /\ n \notin DOMAIN taken
                 THEN taken @@ (n :> post.body) ELSE taken
     /\ seen' = seen \cup {<<"POST", SessionId(post), n>>}
  /\ task' = "reading" /\ seq' = seq + 1 /\ post' = None
  /\ UNCHANGED <<cfg, unsent, pipe, closed, lost, dial>>

\* the body of stream-up arrives piece by piece
ServerTakesBody ==
  /\ ~Posts /\ post # None /\ post.body # <<>>
  /\ taken' = taken @@ (Cardinality(DOMAIN taken) :> Head(post.body))
  /\ seen' = seen \cup {<<"body", SessionId(post), None>>}
  /\ post' = [post EXCEPT !.body = Tail(@)]
  /\ UNCHANGED <<cfg, unsent, pipe, closed, task, seq, lost, dial>>

\* Faulty variant: a POST that failed is skipped
PostFailsOn ==
  /\ task = "posting" /\ ~lost /\ lost' = TRUE
  /\ \/ taken' = taken
     \/ /\ SessionId(post) = Sid /\ Sequence(post) # None
        /\ taken' = taken @@ (Sequence(post) :> post.body)
  /\ task' = "reading" /\ post' = None
  /\ UNCHANGED <<cfg, unsent, pipe, closed, seq, seen, dial>>

\* a connection breaks before or after the server took the POST: the task gives up
PostFails ==
  /\ task = "posting" /\ ~lost /\ lost' = TRUE
  /\ \/ taken' = taken
     \/ /\ SessionId(post) = Sid /\ Sequence(post) # None
        /\ taken' = taken @@ (Sequence(post) :> post.body)
  /\ task' = "ended" /\ post' = None
  /\ UNCHANGED <<cfg, unsent, pipe, closed, seq, seen, dial>>

\* the connection of stream-up's POST breaks: its body is dropped, and with it what it had read
StreamFails ==
  /\ ~Posts /\ task = "reading" /\ ~lost /\ lost' = TRUE
  /\ task' = "ended" /\ post' = [post EXCEPT !.body = <<>>]
  /\ UNCHANGED <<cfg, unsent, pipe, closed, seq, taken, seen, dial>>

-----------------------------------------------------------------------------
(* The downlink: its answer ends the dial *)

DownlinkAnswered ==
  /\ dial = "pending"
  /\ LET r == BuildRequest("GET", None, <<>>) IN
     /\ seen' = seen \cup {<<"GET", SessionId(r), None>>}
     /\ dial' \in {"ok", "refused"}
  /\ UNCHANGED <<cfg, unsent, pipe, closed, task, seq, post, taken, lost>>

\* the response body ends: the pipe towards the user is shut down, and with the uplink's task gone
\* too the user's end is broken
DownlinkEnds ==
  /\ dial = "ok" /\ dial' = "over"
  /\ UNCHANGED <<cfg, unsent, pipe, closed, task, seq, post, taken, seen, lost>>

AllDone == dial \in {"refused", "over"} /\ task = "ended" /\ (post # None => post.body = <<>>)
Done == AllDone /\ UNCHANGED vars

Init ==
  /\ cfg \in [mode : Modes, prefix : PathPrefixes, sid : Placements, seq : SeqPlacements, pin : Pins]
  /\ cfg.mode = "stream-up" => cfg.seq = "header"
  /\ unsent = Chunks /\ pipe = <<>> /\ closed = FALSE /\ task = "reading" /\ seq = 0
  /\ post = IF cfg.mode = "stream-up" THEN BuildRequest("POST", None, <<>>) ELSE None
  /\ taken = <<>> /\ seen = {} /\ lost = FALSE /\ dial = "pending"

Next ==
  \/ UserWrites \/ UserCloses
  \/ UplinkReads \/ UplinkEof
  \/ ServerTakesPost \/ ServerTakesBody \/ PostFails \/ StreamFails
  \/ DownlinkAnswered \/ DownlinkEnds
  \/ Done

Spec == Init /\ [][Next]_vars

-----------------------------------------------------------------------------
\* What the server has of a session is what the user wrote: every request names the session where
\* the server looks for it, whatever the placement, whether or not the prefix ends in a slash, and
\* also where the server insists on the host the client names, with its port or without;
\* in sequence order there is no gap and no chunk twice, also where a connection broke under a
\* request that may or may not have been taken; and when the session is over and nothing broke it
\* is all there, for the placements in which the client writes a sequence number at all
\* (spawn_uplink and its requests against session_extract).
UploadComplete ==
  /\ \A x \in seen : x[2] = Sid
  /\ \A n \in DOMAIN taken :
       n < Len(Chunks) /\ taken[n] = Chunks[n + 1] /\ \A m \in 0..n : m \in DOMAIN taken
  /\ AllDone /\ ~lost /\ dial = "over" /\ cfg.seq \in {"header", "cookie"}
       => Cardinality(DOMAIN taken) = Len(Chunks) - Len(unsent)
=============================================================================
