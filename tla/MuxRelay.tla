------------------------------ MODULE MuxRelay ------------------------------
(***************************************************************************)
(* The Mux.Cool / XUDP relay of the server (crates/donut-server/src/       *)
(* mux.rs) together with the exits of its cascade links (vision_udp_relay  *)
(* of crates/donut-server/src/vision_xray_splice.rs).  One loop takes the  *)
(* client's frames and writes the replies; every egress, a local socket or *)
(* a cascade session, has a task that moves what it receives into one      *)
(* bounded channel.  A datagram is a record of the sub-session and of the  *)
(* address its target resolved to; payloads and the bytes of a frame are   *)
(* left out.  A name may resolve to any address, and to another one the    *)
(* next time, so that one chained name stands for several.                 *)
(***************************************************************************)
EXTENDS Naturals, Sequences, FiniteSets

CONSTANTS
    Sids,            \* sub-session ids
    Targets,         \* the targets the client names
    Chained,         \* those the routing table sends up the cascade
    Addrs,           \* the addresses they resolve to
    Links,           \* sockets and cascade sessions that may be opened
    None,            \* no owner, no link, no target
    Local,           \* stands for the address of a local socket
    Vision,          \* the Mux stream rides inside Vision
    RespCap,         \* capacity of the response channel (512 in the code)
    TunCap,          \* frames the tunnel holds on their way from the client
    PipeCap,         \* datagrams a cascade session holds in each direction
    MaxFrames,       \* bound on the frames the client sends
    MaxReplies       \* bound on the datagrams the targets send

\* Who a link belongs to: the sub-session, which life of that id, and the address behind the
\* cascade that it is filed under.
Owners == [sid : Sids, life : Nat, addr : Addrs \cup {Local}]

ASSUME MuxAssumption ==
    /\ Chained \subseteq Targets /\ Vision \in BOOLEAN
    /\ None \notin Sids \cup Targets \cup Addrs \cup Links /\ Local \notin Addrs \cup {None}
    /\ None \notin Owners
    /\ {RespCap, TunCap, PipeCap} \subseteq Nat \ {0} /\ {MaxFrames, MaxReplies} \subseteq Nat

VARIABLES
    sent, open, tun,  \* frames sent so far; the client's end; frames on the way
    replies,          \* datagrams the targets have sent so far
    owner,            \* [sid, life, addr] of each link, None before it is opened
    held,             \* the links in the sessions map
    life,             \* how often each id has been ended
    pc, cur,          \* the loop: "loop", "ended", or what it waits for, with what it holds
    task,             \* each link's receive task: "none", "read", "send", "gone"
    resp,             \* the response channel: [sid, src, via]
    up, down,         \* each cascade session's two directions
    exit,             \* its relay at the exit: "none", "run", "write", "done"
    pad,              \* downlink_pad: the next reply is the first
    answers,          \* the replies written to the client, in order
    asked             \* <<sid, life, address>>: what was sent up the cascade

client == <<sent, open>>
loop == <<pc, cur, pad, answers, asked>>
link == <<owner, held, life>>
exits == <<exit, replies>>
vars == <<client, tun, loop, link, task, resp, up, down, exits>>

Frames == [status : {"data"}, sid : Sids, tgt : Targets \cup {None}]
            \cup [status : {"end"}, sid : Sids]

Init ==
    /\ sent = 0 /\ open = TRUE /\ tun = <<>> /\ replies = 0
    /\ owner = [l \in Links |-> None] /\ held = {} /\ life = [s \in Sids |-> 0]
    /\ pc = "loop" /\ cur = None
    /\ task = [l \in Links |-> "none"]
    /\ resp = <<>>
    /\ up = [l \in Links |-> <<>>] /\ down = [l \in Links |-> 0]
    /\ exit = [l \in Links |-> "none"]
    /\ pad = Vision /\ answers = <<>> /\ asked = {}

Chain(l) == owner[l] # None /\ owner[l].addr # Local
\* Both halves of a link's stream are gone: its map entry and its task.
Dropped(l) == l \notin held /\ task[l] = "gone"

-----------------------------------------------------------------------------
\* The client.  What it does once the relay has returned reaches nobody; ids
\* are names, and which one it uses first makes no difference.
ClientSends(f) ==
    /\ open /\ pc # "ended" /\ sent < MaxFrames /\ Len(tun) < TunCap
    /\ sent = 0 => f.sid = CHOOSE s \in Sids : TRUE
    /\ sent' = sent + 1
    /\ tun' = Append(tun, f)
    /\ UNCHANGED <<open, loop, link, task, resp, up, down, exits>>

ClientCloses ==
    /\ open /\ pc # "ended"
    /\ open' = FALSE
    /\ UNCHANGED <<sent, tun, loop, link, task, resp, up, down, exits>>

-----------------------------------------------------------------------------
\* The loop: one frame.
Took == pc = "loop" /\ tun # <<>> /\ tun' = Tail(tun)

HeldLinks(sid, addr) == {l \in held : owner[l].sid = sid /\ owner[l].addr = addr}

\* Start writing a datagram into a cascade session.
Write(l, sid, addr) ==
    /\ pc' = "write"
    /\ cur' = [link |-> l, dg |-> [sid |-> sid, life |-> life[sid], addr |-> addr]]

\* The datagram is sent or given up without a word.
Finish == pc' = "loop" /\ cur' = None

\* The id the receive task puts on what it receives.
Label(sid) == sid

\* Links are names; which unused one a new link gets makes no difference.
Unused == CHOOSE l \in Links : owner[l] = None

\* dial_chain and open_direct: the link, its receive task and, for a cascade
\* session, the relay at the exit.
Open(l, sid, addr) ==
    /\ owner[l] = None /\ l = Unused
    /\ owner' = [owner EXCEPT ![l] = [sid |-> sid, life |-> life[sid], addr |-> addr]]
    /\ held' = held \cup {l}
    /\ task' = [task EXCEPT ![l] = "read"]
    /\ exit' = IF addr = Local THEN exit ELSE [exit EXCEPT ![l] = "run"]
    /\ UNCHANGED life

\* The target resolved to addr; a cascade session is filed under that address,
\* whatever the name it was dialled for.
SendChained(f, addr) ==
    /\ f.tgt \in Chained
    /\ \/ \E l \in HeldLinks(f.sid, addr) :
             Write(l, f.sid, addr) /\ UNCHANGED <<link, task, exit>>
       \/ /\ HeldLinks(f.sid, addr) = {}
          /\ \E l \in Links : Open(l, f.sid, addr) /\ Write(l, f.sid, addr)

\* Once a local socket is there send_to does not wait.
SendLocal(f) ==
    /\ f.tgt \in Targets \ Chained
    /\ \/ HeldLinks(f.sid, Local) # {} /\ UNCHANGED <<link, task, exit>>
       \/ HeldLinks(f.sid, Local) = {} /\ \E l \in Links : Open(l, f.sid, Local)
    /\ Finish

\* resolve and the dial it may lead to have come to an end: neither has a
\* deadline here, and the loop reads nothing while it waits for them.  Which
\* address comes first makes no difference.
Dialed ==
    /\ pc = "dial"
    /\ \/ \E addr \in Addrs :
             /\ asked = {} => addr = CHOOSE a \in Addrs : TRUE
             /\ SendChained(cur, addr)
             /\ asked' = asked \cup {<<cur.sid, life[cur.sid], addr>>}
       \/ SendLocal(cur) /\ UNCHANGED asked
       \/ Finish /\ UNCHANGED <<asked, link, task, exit>>     \* resolve, dial or bind failed
    /\ UNCHANGED <<client, tun, pad, answers, resp, up, down, replies>>

\* The frame names no target: the only cascade session of the sub-session, or
\* else its local socket.  The socket is not connected, so its send fails.
SendUntargeted(f) ==
    LET chain == {l \in held : owner[l].sid = f.sid /\ Chain(l)}
    IN  \/ Cardinality(chain) = 1 /\ \E l \in chain : Write(l, f.sid, None)
        \/ Cardinality(chain) # 1 /\ UNCHANGED <<pc, cur>>

DataFrame ==
    /\ Took /\ Head(tun).status = "data"
    /\ \/ Head(tun).tgt # None /\ pc' = "dial" /\ cur' = Head(tun)
       \/ Head(tun).tgt = None /\ SendUntargeted(Head(tun))
    /\ UNCHANGED <<client, pad, answers, asked, link, task, resp, up, down, exits>>

\* Faulty variant: ending a sub-session drops its socket and keeps its cascade sessions.
EndedLocal(sid) == {l \in held : owner[l].sid = sid /\ ~Chain(l)}

\* The links that go with a sub-session.
Ended(sid) == {l \in held : owner[l].sid = sid}

\* Dropping the sub-session aborts its receive tasks; what they have put into
\* the channel stays there, and the client may use the id again.
EndFrame ==
    /\ Took /\ Head(tun).status = "end"
    /\ held' = held \ Ended(Head(tun).sid)
    /\ life' = [life EXCEPT ![Head(tun).sid] = @ + 1]
    /\ UNCHANGED <<client, loop, owner, task, resp, up, down, exits>>

\* The relay returns: the tunnel, the map with every link in it, and the channel go.
Return ==
    /\ pc' = "ended" /\ cur' = None /\ tun' = <<>> /\ held' = {} /\ resp' = <<>>
    /\ UNCHANGED <<client, pad, answers, asked, owner, life, task, up, down, exits>>

-----------------------------------------------------------------------------
\* The loop: a blocked write, and the select under the idle timeout.

\* write_datagram; a dead session's error is ignored.
WriteUp ==
    /\ pc = "write"
    /\ \/ /\ exit[cur.link] # "done" /\ Len(up[cur.link]) < PipeCap
          /\ up' = [up EXCEPT ![cur.link] = Append(@, cur.dg)]
       \/ exit[cur.link] = "done" /\ UNCHANGED up
    /\ Finish
    /\ UNCHANGED <<client, tun, pad, answers, asked, link, task, resp, down, exits>>

\* downlink_pad.take(): padded once, raw after.
Padding == IF pad THEN "padded" ELSE "raw"

TakeReply ==
    /\ pc = "loop" /\ resp # <<>>
    /\ pc' = "reply"
    /\ cur' = [reply |-> Head(resp), form |-> Padding, life |-> life[Head(resp).sid],
               late |-> Head(resp).via \notin held]
    /\ pad' = FALSE
    /\ resp' = Tail(resp)
    /\ UNCHANGED <<client, tun, answers, asked, link, task, up, down, exits>>

\* write_chunk: it waits for as long as the client does not read; an error ends the relay.
ReplyWritten ==
    /\ pc = "reply"
    /\ answers' = Append(answers, cur)
    /\ Finish
    /\ UNCHANGED <<client, tun, pad, asked, link, task, resp, up, down, exits>>

\* The read or the write failed, or the frames cannot be parsed.
TunnelFails == pc \in {"loop", "reply"} /\ Return

\* The loop is left; the links live on until the tunnel is closed.
Break ==
    /\ pc' = "close"
    /\ UNCHANGED <<client, tun, cur, pad, answers, asked, link, task, resp, up, down, exits>>

\* The client closed the tunnel: the whole relay is over.
TunnelEof == pc = "loop" /\ ~open /\ tun = <<>> /\ Break

IdleTimeout == pc = "loop" /\ tun = <<>> /\ resp = <<>> /\ Break

\* tunnel.close, which may wait for the client too; its error is ignored.
Closed == pc = "close" /\ Return

-----------------------------------------------------------------------------
\* The receive task of a link.  Behind the cascade the source it reports is the
\* address the link is filed under; anyone may answer a socket, and Local
\* stands for whoever did.
Recv(l) ==
    /\ task[l] = "read"
    /\ \/ Chain(l) /\ down[l] > 0 /\ down' = [down EXCEPT ![l] = @ - 1] /\ UNCHANGED replies
       \/ ~Chain(l) /\ replies < MaxReplies /\ replies' = replies + 1 /\ UNCHANGED down
    /\ task' = [task EXCEPT ![l] = "send"]
    /\ UNCHANGED <<client, tun, loop, link, resp, up, exit>>

Room == Len(resp) < RespCap

\* Waits for room; the channel of a relay that has ended refuses.
Push(l) ==
    /\ task[l] = "send"
    /\ \/ /\ pc # "ended" /\ Room
          /\ resp' = Append(resp, [sid |-> Label(owner[l].sid), src |-> owner[l].addr, via |-> l])
          /\ task' = [task EXCEPT ![l] = "read"]
       \/ /\ pc = "ended"
          /\ task' = [task EXCEPT ![l] = "gone"]
          /\ UNCHANGED resp
    /\ UNCHANGED <<client, tun, loop, link, up, down, exits>>

\* The exit closed the session and everything it sent has been read.
RecvEof(l) ==
    /\ task[l] = "read" /\ exit[l] = "done" /\ down[l] = 0
    /\ task' = [task EXCEPT ![l] = "gone"]
    /\ UNCHANGED <<client, tun, loop, link, resp, up, down, exits>>

\* Faulty variant: the handle is dropped without an abort.
AbortedNever(l) == FALSE

\* Drop of DirectLink and ChainLink: the abort takes effect some time after
\* the link left the map.
Aborted(l) == owner[l] # None /\ l \notin held /\ task[l] \in {"read", "send"}

TaskAborted(l) ==
    /\ Aborted(l)
    /\ task' = [task EXCEPT ![l] = "gone"]
    /\ UNCHANGED <<client, tun, loop, link, resp, up, down, exits>>

-----------------------------------------------------------------------------
\* The relay at the exit of a cascade session: one datagram at a time, either
\* way; while it writes it does not read.
ExitTake(l) ==
    /\ exit[l] = "run" /\ up[l] # <<>>
    /\ up' = [up EXCEPT ![l] = Tail(@)]
    /\ UNCHANGED <<client, tun, loop, link, task, resp, down, exits>>

ExitRecv(l) ==
    /\ exit[l] = "run" /\ replies < MaxReplies
    /\ exit' = [exit EXCEPT ![l] = "write"]
    /\ replies' = replies + 1
    /\ UNCHANGED <<client, tun, loop, link, task, resp, up, down>>

ExitWrite(l) ==
    /\ exit[l] = "write" /\ down[l] < PipeCap
    /\ down' = [down EXCEPT ![l] = @ + 1]
    /\ exit' = [exit EXCEPT ![l] = "run"]
    /\ UNCHANGED <<client, tun, loop, link, task, resp, up, replies>>

\* The exit's relay ends by itself: its idle timeout, or an error of its socket.
ExitEnds(l) ==
    /\ exit[l] = "run"
    /\ exit' = [exit EXCEPT ![l] = "done"]
    /\ UNCHANGED <<client, tun, loop, link, task, resp, up, down, replies>>

\* The entry dropped the stream: EOF on a read, an error on a write.
ExitEof(l) ==
    /\ exit[l] \in {"run", "write"} /\ Dropped(l)
    /\ exit' = [exit EXCEPT ![l] = "done"]
    /\ UNCHANGED <<client, tun, loop, link, task, resp, up, down, replies>>

Next ==
    \/ ClientCloses \/ (\E f \in Frames : ClientSends(f))
    \/ DataFrame \/ Dialed \/ EndFrame \/ WriteUp
    \/ TakeReply \/ ReplyWritten \/ TunnelFails \/ TunnelEof \/ IdleTimeout \/ Closed
    \/ \E l \in Links : \/ Recv(l) \/ Push(l) \/ RecvEof(l) \/ TaskAborted(l)
                        \/ ExitTake(l) \/ ExitRecv(l) \/ ExitWrite(l) \/ ExitEnds(l) \/ ExitEof(l)

Spec == Init /\ [][Next]_vars

\* The runtime polls whatever can go on, and timers fire.  Nothing is assumed
\* of the client, the targets, the exit's timer, or of how long a dial takes.
Fairness ==
    /\ WF_vars(DataFrame) /\ WF_vars(EndFrame)
    /\ WF_vars(WriteUp) /\ WF_vars(TakeReply) /\ WF_vars(TunnelEof) /\ WF_vars(IdleTimeout)
    /\ \A l \in Links : /\ WF_vars(Chain(l) /\ Recv(l)) /\ WF_vars(Push(l)) /\ WF_vars(RecvEof(l))
                        /\ WF_vars(TaskAborted(l)) /\ WF_vars(ExitTake(l))
                        /\ WF_vars(ExitWrite(l)) /\ WF_vars(ExitEof(l))
FairSpec == Spec /\ Fairness

-----------------------------------------------------------------------------
Datagrams == [sid : Sids, life : Nat, addr : Addrs \cup {None}]
Replies == [sid : Sids, src : Addrs \cup {Local}, via : Links]
Answers == [reply : Replies, form : {"padded", "raw"}, life : Nat, late : BOOLEAN]
\* What the loop holds in each of its states.
Holding ==
    /\ pc = "dial" => cur \in [status : {"data"}, sid : Sids, tgt : Targets]
    /\ pc = "write" => cur \in [link : Links, dg : Datagrams]
    /\ pc = "reply" => cur \in Answers
    /\ pc \in {"loop", "close", "ended"} => cur = None
TypeOK ==
    /\ sent \in 0..MaxFrames /\ open \in BOOLEAN /\ tun \in Seq(Frames)
    /\ replies \in 0..MaxReplies
    /\ owner \in [Links -> Owners \cup {None}]
    /\ held \subseteq {l \in Links : owner[l] # None} /\ life \in [Sids -> Nat]
    /\ pc \in {"loop", "dial", "write", "reply", "close", "ended"} /\ Holding
    /\ task \in [Links -> {"none", "read", "send", "gone"}]
    /\ resp \in Seq(Replies) /\ Len(resp) <= RespCap
    /\ up \in [Links -> Seq(Datagrams)]
    /\ down \in [Links -> 0..PipeCap]
    /\ exit \in [Links -> {"none", "run", "write", "done"}]
    /\ pad \in BOOLEAN
    /\ answers \in Seq(Answers)
    /\ asked \subseteq Sids \X Nat \X Addrs

(***************************************************************************)
(* A cascade session carries the datagrams of one life of one sub-session, *)
(* all of them sent to a target that resolved to the address the session   *)
(* is filed under, or to none; the names they were sent to may differ      *)
(* (send_datagram).                                                        *)
(***************************************************************************)
CarriesItsOwn ==
    \A l \in Links : \A i \in 1..Len(up[l]) : LET d == up[l][i] IN
        /\ d.sid = owner[l].sid /\ d.life = owner[l].life
        /\ d.addr \in {owner[l].addr, None}

(***************************************************************************)
(* A sub-session holds at most one link per address, and at most one local *)
(* socket, whatever was dialled and ended in between, and all of them were *)
(* opened in the present life of its id (UdpSession, mux_relay).           *)
(***************************************************************************)
OneLinkPerAddress ==
    /\ \A l, m \in held :
          owner[l].sid = owner[m].sid /\ owner[l].addr = owner[m].addr => l = m
    /\ \A l \in held : owner[l].life = life[owner[l].sid]

(***************************************************************************)
(* A reply goes out under the id its link was opened for, and one from     *)
(* behind the cascade bears an address to which that sub-session sent in   *)
(* the life in which the link was opened.  A client that uses an id again  *)
(* may still get a reply to the id's earlier life, but only by a link that *)
(* the end of that life had dropped before the loop took the reply.        *)
(* Inside Vision exactly the first frame the client gets is padded         *)
(* (dial_chain, keep_frame, downlink_pad, the END of mux_relay).           *)
(***************************************************************************)
AnsweredToAsker ==
    \A i \in 1..Len(answers) : LET r == answers[i].reply
                                   o == owner[r.via] IN
        /\ r.sid = o.sid
        /\ Chain(r.via) => <<o.sid, o.life, r.src>> \in asked
        /\ answers[i].life # o.life => answers[i].late
        /\ (answers[i].form = "padded") <=> (Vision /\ i = 1)

(***************************************************************************)
(* When the client has closed, the relay ends, and with it every receive   *)
(* task and every relay at an exit, unless the loop is held up for good by *)
(* a dial that is never answered or by a client that does not read: it     *)
(* waits for these without a deadline (mux_relay, send_datagram, Drop of   *)
(* the links).                                                             *)
(***************************************************************************)
AllGone ==
    /\ pc = "ended"
    /\ \A l \in Links : task[l] \in {"none", "gone"} /\ exit[l] \in {"none", "done"}
Reaped == []<>(pc \notin {"dial", "reply", "close"}) => (~open ~> AllGone)

=============================================================================
