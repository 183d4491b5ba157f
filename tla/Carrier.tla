------------------------------- MODULE Carrier -------------------------------
(***************************************************************************)
(* One bidirectional exchange of a carrier, from the caller's stream at    *)
(* the client to the session the server accepts: stream-one over HTTP/1    *)
(* ("h1"), the same over HTTP/3 ("h3"), and a bare QUIC stream ("bidi").   *)
(*                                                                         *)
(* On both sides a duplex pipe is split into two halves that belong to two *)
(* tasks: "cUp" and "cDown" at the client, "sUp" and "sDown" at the        *)
(* server.  The far end of the pipe notices the bridge only through what   *)
(* the tasks write or shut down, or once both halves are gone.             *)
(*                                                                         *)
(*   caller --cu--> cUp --req--> sUp --su--> session                       *)
(*   caller <--cd-- cDown <--resp-- sDown <--sd-- session                  *)
(***************************************************************************)
EXTENDS Integers, Sequences

CONSTANTS
  Modes,     \* the carriers considered
  Capacity,  \* PIPE_CAPACITY, in chunks
  Window,    \* how much of a body is in flight, in chunks
  MaxWrites  \* bound: chunks the caller and the session write

VARIABLES
  mode,     \* the carrier
  asks,     \* what the request's path names: "tunnel", or "other" without it
  decoy,    \* whether the server has a decoy for other paths
  pipe,     \* the four pipes: chunks, and whether their writer shut them down
  gone,     \* whether the caller, the session dropped its end
  task,     \* the four pumps: "off", "wait"ing for the response head, "run" or "done"
  net,      \* the exchange between them
  wrote,    \* how many chunks the caller and the session wrote
  got,      \* what they read
  eof       \* whether they read the end

vars == <<mode, asks, decoy, pipe, gone, task, net, wrote, got, eof>>

Ends == {"c", "s"}
Pumps == {"cUp", "cDown", "sUp", "sDown"}
Out == [c |-> "cu", s |-> "sd"]   \* the pipe an end writes
In == [c |-> "cd", s |-> "su"]    \* and the one it reads
Source == [cUp |-> "cu", sDown |-> "sd"]  \* the pipe a pump drains
Sink == [cDown |-> "cd", sUp |-> "su"]    \* the pipe a pump fills
Owner == [cUp |-> "c", cDown |-> "c", sUp |-> "s", sDown |-> "s"]

Empty == [buf |-> <<>>, shut |-> FALSE]

\* dial_over_io, dial_stream_one, dial: the request is under way, the two pumps are spawned
\* and the caller has its stream.  Nobody has waited for the answer; a bare stream has none.
DialStreamOne == mode = "h1" /\ task = [cUp |-> "run", cDown |-> "wait", sUp |-> "off", sDown |-> "off"]
DialH3 == mode = "h3" /\ task = [cUp |-> "run", cDown |-> "wait", sUp |-> "off", sDown |-> "off"]
DialBidi == mode = "bidi" /\ asks = "tunnel" /\ ~decoy
            /\ task = [cUp |-> "run", cDown |-> "run", sUp |-> "off", sDown |-> "off"]

Init ==
  /\ mode \in Modes /\ asks \in {"tunnel", "other"} /\ decoy \in BOOLEAN
  /\ DialStreamOne \/ DialH3 \/ DialBidi
  /\ pipe = [p \in {"cu", "cd", "su", "sd"} |-> Empty]
  /\ gone = [e \in Ends |-> FALSE] /\ eof = [e \in Ends |-> FALSE]
  /\ net = [status |-> "none", lost |-> FALSE, req |-> <<>>, reqFin |-> FALSE,
            resp |-> <<>>, respFin |-> FALSE]
  /\ wrote = [e \in Ends |-> 0] /\ got = [e \in Ends |-> <<>>]

-----------------------------------------------------------------------------
(* The ends: tokio::io::duplex, with the bridge behind it.                 *)

Rigid == UNCHANGED <<mode, asks, decoy>>

\* both halves of the bridge are dropped
BridgeGone(e) == \A p \in Pumps : Owner[p] = e => task[p] = "done"

\* the session exists once the server has accepted the exchange
Present(e) == ~gone[e] /\ (e = "s" => task.sUp # "off")

Write(e) ==
  /\ Present(e) /\ ~pipe[Out[e]].shut /\ wrote[e] < MaxWrites[e]
  /\ ~BridgeGone(e) /\ Len(pipe[Out[e]].buf) < Capacity
  /\ wrote' = [wrote EXCEPT ![e] = @ + 1]
  /\ pipe' = [pipe EXCEPT ![Out[e]].buf = Append(@, [from |-> e, n |-> wrote'[e]])]
  /\ Rigid /\ UNCHANGED <<gone, task, net, got, eof>>

ShutDown(e) ==
  /\ Present(e) /\ ~pipe[Out[e]].shut
  /\ pipe' = [pipe EXCEPT ![Out[e]].shut = TRUE]
  /\ Rigid /\ UNCHANGED <<gone, task, net, wrote, got, eof>>

Drop(e) ==
  /\ Present(e) /\ gone' = [gone EXCEPT ![e] = TRUE]
  /\ Rigid /\ UNCHANGED <<pipe, task, net, wrote, got, eof>>

Read(e) ==
  /\ Present(e) /\ ~eof[e]
  /\ \/ /\ pipe[In[e]].buf # <<>>
        /\ got' = [got EXCEPT ![e] = Append(@, Head(pipe[In[e]].buf))]
        /\ pipe' = [pipe EXCEPT ![In[e]].buf = Tail(@)] /\ UNCHANGED eof
     \/ /\ pipe[In[e]].buf = <<>> /\ (pipe[In[e]].shut \/ BridgeGone(e))
        /\ eof' = [eof EXCEPT ![e] = TRUE] /\ UNCHANGED <<got, pipe>>
  /\ Rigid /\ UNCHANGED <<gone, task, net, wrote>>

-----------------------------------------------------------------------------
(* The server's handler.                                                   *)

Asked == net.status = "none" /\ ~net.lost

Spawn == /\ task' = [task EXCEPT !.sUp = "run", !.sDown = "run"]
         /\ net' = [net EXCEPT !.status = "ok"]
         /\ Rigid /\ UNCHANGED <<pipe, wrote, got, eof>>

\* stream_one::handle and spawn_session: the answer is 200 whether or not the session, sent
\* with try_send, found room in the accept channel
AcceptStreamOne ==
  /\ mode = "h1" /\ asks = "tunnel" /\ Asked /\ Spawn
  /\ UNCHANGED gone \/ gone' = [gone EXCEPT !.s = TRUE]

\* handle_request of the HTTP/3 server waits for room instead
AcceptH3 == mode = "h3" /\ asks = "tunnel" /\ Asked /\ Spawn /\ UNCHANGED gone

\* handle_connection: a bare stream is announced by its first data or its end
AcceptBidi == /\ mode = "bidi" /\ Asked /\ (net.req # <<>> \/ net.reqFin)
              /\ Spawn /\ UNCHANGED gone

\* a path that is not the tunnel's: 404
RefuseRequest ==
  /\ Asked /\ asks = "other" /\ ~decoy
  /\ net' = [net EXCEPT !.status = "refused", !.respFin = TRUE]
  /\ Rigid /\ UNCHANGED <<pipe, gone, task, wrote, got, eof>>

DecoyAnswers ==
  /\ Asked /\ asks = "other" /\ decoy
  /\ net' = [net EXCEPT !.status = "decoy", !.req = <<>>, !.respFin = TRUE,
                        !.resp = <<[from |-> "decoy", n |-> 1]>>]
  /\ Rigid /\ UNCHANGED <<pipe, gone, task, wrote, got, eof>>

\* proxy_to_decoy over HTTP/1 streams the request to the decoy; over HTTP/3 it collects the
\* whole body first
AskDecoy == mode = "h1" /\ DecoyAnswers
AskDecoyH3 == mode = "h3" /\ net.reqFin /\ DecoyAnswers

\* and meanwhile it takes the body
DecoyReads ==
  /\ asks = "other" /\ decoy /\ ~net.lost /\ net.req # <<>>
  /\ (mode = "h3" /\ net.status = "none") \/ (mode = "h1" /\ net.status = "decoy")
  /\ net' = [net EXCEPT !.req = Tail(@)]
  /\ Rigid /\ UNCHANGED <<pipe, gone, task, wrote, got, eof>>

\* the connection breaks: what was sent may be there already or not
Lose ==
  /\ ~net.lost
  /\ \E req \in {net.req, <<>>}, resp \in {net.resp, <<>>} :
       net' = [net EXCEPT !.lost = TRUE, !.req = req, !.resp = resp]
  /\ Rigid /\ UNCHANGED <<pipe, gone, task, wrote, got, eof>>

-----------------------------------------------------------------------------
(* The pumps. *)

Done(p) == task' = [task EXCEPT ![p] = "done"]

\* sending: the body a pump writes, and whether writing it fails.  A QUIC stream fails once
\* the other side has dropped its receiving half; an HTTP/1 body only fails with its connection
Body == [cUp |-> "req", sDown |-> "resp"]
Fin == [cUp |-> "reqFin", sDown |-> "respFin"]
SendFails(p) ==
  \/ net.lost
  \/ mode # "h1" /\ task[IF p = "cUp" THEN "sUp" ELSE "cDown"] = "done"
  \/ mode = "h3" /\ p = "cUp" /\ net.status \in {"refused", "decoy"}

\* one turn of the uplink's or downlink's loop: a chunk is read and written; the one a pump
\* holds while it waits to write counts as still in the pipe
PumpSends(p) ==
  /\ task[p] = "run" /\ pipe[Source[p]].buf # <<>>
  /\ \/ /\ SendFails(p) /\ Done(p) /\ UNCHANGED net
     \/ /\ ~SendFails(p) /\ Len(net[Body[p]]) < Window
        /\ net' = [net EXCEPT ![Body[p]] = Append(@, Head(pipe[Source[p]].buf))]
        /\ UNCHANGED task
  /\ pipe' = [pipe EXCEPT ![Source[p]].buf = Tail(@)]
  /\ Rigid /\ UNCHANGED <<gone, wrote, got, eof>>

\* Faulty variant: the stream is finished as soon as the pipe is shut down, before it is empty
PumpFinishesEarly(p) ==
  /\ task[p] = "run" /\ (pipe[Source[p]].shut \/ gone[Owner[p]])
  /\ Done(p)
  /\ net' = IF SendFails(p) THEN net ELSE [net EXCEPT ![Fin[p]] = TRUE]
  /\ Rigid /\ UNCHANGED <<pipe, gone, wrote, got, eof>>

\* the pipe's end: the stream is finished
PumpFinishes(p) ==
  /\ task[p] = "run" /\ pipe[Source[p]].buf = <<>>
  /\ pipe[Source[p]].shut \/ gone[Owner[p]]
  /\ Done(p)
  /\ net' = IF SendFails(p) THEN net ELSE [net EXCEPT ![Fin[p]] = TRUE]
  /\ Rigid /\ UNCHANGED <<pipe, gone, wrote, got, eof>>

\* HTTP/1: hyper's connection owns both bodies and drops them when it ends: it broke, the
\* server closed it after an answer that left the request unread, or the response was dropped
ConnectionOver ==
  \/ net.lost \/ net.status \in {"refused", "decoy"}
  \/ net.respFin /\ task.sUp = "done"
  \/ task.cDown = "done" /\ (~net.respFin \/ net.resp # <<>>)
BodyDropped(p) ==
  /\ mode = "h1" /\ task[p] = "run" /\ ConnectionOver
  /\ Done(p)
  /\ net' = [net EXCEPT !.lost = @ \/ task.cDown = "done"]
  /\ Rigid /\ UNCHANGED <<pipe, gone, wrote, got, eof>>

\* the client's downlink task gets the response head, or gives up
ResponseHead ==
  /\ task.cDown = "wait"
  /\ \/ net.lost /\ Done("cDown")
     \/ ~net.lost /\ net.status = "refused" /\ Done("cDown")
     \/ ~net.lost /\ net.status \in {"ok", "decoy"} /\ task' = [task EXCEPT !.cDown = "run"]
  /\ Rigid /\ UNCHANGED <<pipe, gone, net, wrote, got, eof>>

\* receiving
Incoming == [sUp |-> "req", cDown |-> "resp"]
Ended == [sUp |-> "reqFin", cDown |-> "respFin"]

\* one turn of the loop: a chunk is received and written; an end that is gone ends the pump
PumpDelivers(p) ==
  /\ task[p] = "run" /\ net[Incoming[p]] # <<>>
  /\ \/ /\ gone[Owner[p]] /\ Done(p) /\ UNCHANGED pipe
     \/ /\ ~gone[Owner[p]] /\ Len(pipe[Sink[p]].buf) < Capacity
        /\ pipe' = [pipe EXCEPT ![Sink[p]].buf = Append(@, Head(net[Incoming[p]]))]
        /\ UNCHANGED task
  /\ net' = [net EXCEPT ![Incoming[p]] = Tail(@)]
  /\ Rigid /\ UNCHANGED <<gone, wrote, got, eof>>

\* Faulty variant: the pump returns at the end of the body without shutting the pipe down
PumpShutsDownNot(p) ==
  /\ task[p] = "run" /\ net[Incoming[p]] = <<>> /\ (net[Ended[p]] \/ net.lost)
  /\ Done(p) /\ UNCHANGED pipe
  /\ Rigid /\ UNCHANGED <<gone, net, wrote, got, eof>>

\* the end of the body, and just as well an error reading it, is the end of the pipe
PumpShutsDown(p) ==
  /\ task[p] = "run" /\ net[Incoming[p]] = <<>> /\ (net[Ended[p]] \/ net.lost)
  /\ Done(p) /\ pipe' = [pipe EXCEPT ![Sink[p]].shut = TRUE]
  /\ Rigid /\ UNCHANGED <<gone, net, wrote, got, eof>>

Uplink(p) == PumpSends(p) \/ PumpFinishes(p) \/ BodyDropped(p)
Downlink(p) == PumpDelivers(p) \/ PumpShutsDown(p)
Handler == \/ AcceptStreamOne \/ AcceptH3 \/ AcceptBidi
           \/ RefuseRequest \/ AskDecoy \/ AskDecoyH3 \/ DecoyReads

Next ==
  \/ \E e \in Ends : Write(e) \/ ShutDown(e) \/ Drop(e) \/ Read(e)
  \/ \E p \in {"cUp", "sDown"} : Uplink(p)
  \/ \E p \in {"cDown", "sUp"} : Downlink(p)
  \/ ResponseHead \/ Handler \/ Lose

\* tasks are scheduled, the handler runs, and both ends keep reading; nobody has to write,
\* shut down or drop anything
Fairness ==
  /\ \A p \in {"cUp", "sDown"} : WF_vars(Uplink(p))
  /\ \A p \in {"cDown", "sUp"} : WF_vars(Downlink(p))
  /\ WF_vars(ResponseHead) /\ WF_vars(Handler)
  /\ \A e \in Ends : WF_vars(Read(e))

Spec == Init /\ [][Next]_vars /\ Fairness

-----------------------------------------------------------------------------
(* Properties *)

Other == [c |-> "s", s |-> "c"]

\* The end of a stream means what it says.  Each end reads a prefix of what the other one wrote,
\* in order and once, whatever the two pipes, four pumps and the body between them did to it
\* (a caller that asked for another path reads the decoy's page and nothing of a session); and
\* as long as nothing broke, an end that reads the end has everything the other one wrote, and
\* the other one has shut its direction down or is gone: the shutdown of one direction never
\* ends or cuts the other (the pumps of stream_one.rs, client.rs, server.rs and bidi.rs).
EndIsComplete ==
  \A e \in Ends :
    /\ \/ /\ Len(got[e]) <= wrote[Other[e]]
          /\ \A i \in DOMAIN got[e] : got[e][i] = [from |-> Other[e], n |-> i]
       \/ e = "c" /\ asks = "other" /\ \A i \in DOMAIN got.c : got.c[i].from = "decoy"
    /\ eof[e] /\ ~net.lost /\ ~gone[e] /\ asks = "tunnel" =>
         /\ pipe[Out[Other[e]]].shut \/ gone[Other[e]]
         /\ Len(got[e]) = wrote[Other[e]] \/ gone[Other[e]]

\* Nobody is left behind an exchange that has failed.  A caller learns of it by reading: once the
\* connection broke, the request was refused or the session was dropped, its reads come to an end,
\* over HTTP/3 from the moment the response head has arrived.  And once both ends are gone no
\* pump is left, at the client or the server (the early returns of the pumps).
Failed == net.lost \/ net.status = "refused" \/ (gone.s /\ task.sUp # "off")
FailureReachesAll ==
  /\ (Failed /\ (mode = "h3" => task.cDown = "run")) ~> (eof.c \/ gone.c)
  /\ (gone.c /\ gone.s) ~> \A p \in Pumps : task[p] \in {"done", "off"}
=============================================================================
