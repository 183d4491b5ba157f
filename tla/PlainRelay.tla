------------------------------ MODULE PlainRelay ------------------------------
(***************************************************************************)
(* The relay of a session that is never spliced (tls_plain_relay of        *)
(* crates/donut-server/src/vision_xray_splice.rs): one loop that waits for *)
(* a record of the client or for bytes of the target, and writes what it   *)
(* got to the other side before it waits again.  The target is either a    *)
(* peer that reads and writes independently, or one that answers each      *)
(* unit before it reads the next.  Units are counted, not told apart.      *)
(***************************************************************************)
EXTENDS Naturals, Sequences

CONSTANTS
    MaxUp, MaxDown,  \* units the client and an independent target send
    MaxEmpty,        \* records without plaintext (key updates)
    Cap              \* units a socket buffer to or from the target holds

VARIABLES
    echo,                          \* the target answers each unit before it reads the next
    wrapped,                       \* the target's stream is wrapped in an IdleTimeout
    wire, csent, empties, cfin,    \* records under way, each with the number of units sent up to
                                   \* it, units and empty records sent, closed
    pc, tunnelDone, targetDone,    \* the loop: "select", in a write of a unit to the target ("write")
                                   \* or to the client ("reply"), returned ("ended"), with an error
                                   \* ("failed")
    tin, tinFin,                   \* units to the target, and their end
    got, owing, tsent, tfin, tout, \* the target: received, answer due, sent, closed, units from it
    back, backFin                  \* what the client received, and its end

client == <<echo, wrapped, wire, csent, empties, cfin>>
target == <<got, owing, tsent, tfin>>
done == <<tunnelDone, targetDone>>
vars == <<client, pc, done, tin, tinFin, target, tout, back, backFin>>

\* The caller may already have read the start of the client's stream.
Init ==
    /\ echo \in BOOLEAN /\ wrapped \in BOOLEAN    \* and neither ever changes
    /\ wire = <<>> /\ empties = 0 /\ cfin = FALSE
    /\ \/ pc = "select" /\ csent = 0
       \/ pc = "write" /\ csent = 1 /\ MaxUp > 0
    /\ tunnelDone = FALSE /\ targetDone = FALSE
    /\ tin = 0 /\ tinFin = FALSE /\ tout = 0
    /\ got = 0 /\ owing = FALSE /\ tsent = 0 /\ tfin = FALSE
    /\ back = 0 /\ backFin = FALSE

-----------------------------------------------------------------------------
ClientSends ==
    /\ ~cfin
    /\ \/ csent < MaxUp /\ csent' = csent + 1 /\ wire' = Append(wire, [k |-> "data", n |-> csent + 1]) /\ UNCHANGED empties
       \/ empties < MaxEmpty /\ empties' = empties + 1 /\ wire' = Append(wire, [k |-> "empty", n |-> csent]) /\ UNCHANGED csent
    /\ UNCHANGED <<echo, wrapped, cfin, pc, done, tin, tinFin, target, tout, back, backFin>>

ClientCloses ==
    /\ ~cfin /\ cfin' = TRUE
    /\ UNCHANGED <<echo, wrapped, wire, csent, empties, pc, done, tin, tinFin, target, tout, back, backFin>>

TargetReads ==
    /\ tin > 0 /\ ~owing
    /\ tin' = tin - 1 /\ got' = got + 1 /\ owing' = echo
    /\ UNCHANGED <<client, pc, done, tinFin, tsent, tfin, tout, back, backFin>>

TargetWrites ==
    /\ ~tfin /\ tout < Cap
    /\ IF echo THEN owing ELSE tsent < MaxDown
    /\ owing' = FALSE /\ tsent' = tsent + 1 /\ tout' = tout + 1
    /\ UNCHANGED <<client, pc, done, tin, tinFin, got, tfin, back, backFin>>

\* An answering target closes once it has answered everything.
TargetCloses ==
    /\ ~tfin /\ tfin' = TRUE
    /\ echo => tinFin /\ tin = 0 /\ ~owing
    /\ UNCHANGED <<client, pc, done, tin, tinFin, got, owing, tsent, tout, back, backFin>>

-----------------------------------------------------------------------------
IsEof == wire = <<>> /\ cfin

UplinkRecord ==
    /\ pc = "select" /\ ~tunnelDone /\ wire # <<>>
    /\ wire' = Tail(wire)
    /\ pc' = IF Head(wire).k = "data" THEN "write" ELSE "select"
    /\ UNCHANGED <<echo, wrapped, csent, empties, cfin, done, tin, tinFin, target, tout, back, backFin>>

\* target.write_all waits for room; nothing else is polled meanwhile.
WriteTarget ==
    /\ pc = "write" /\ tin < Cap
    /\ tin' = tin + 1 /\ pc' = "select"
    /\ UNCHANGED <<client, done, tinFin, target, tout, back, backFin>>

UplinkEof ==
    /\ pc = "select" /\ ~tunnelDone /\ IsEof
    /\ tunnelDone' = TRUE /\ tinFin' = TRUE
    /\ UNCHANGED <<client, pc, targetDone, tin, target, tout, back, backFin>>

\* Faulty variant: the target is not read any more once the client has closed.
DownlinkHalf ==
    /\ pc = "select" /\ ~targetDone /\ ~tunnelDone /\ tout > 0
    /\ tout' = tout - 1 /\ pc' = "reply"
    /\ UNCHANGED <<client, done, tin, tinFin, target, back, backFin>>

Downlink ==
    /\ pc = "select" /\ ~targetDone /\ tout > 0
    /\ tout' = tout - 1 /\ pc' = "reply"
    /\ UNCHANGED <<client, done, tin, tinFin, target, back, backFin>>

\* tunnel.write_plaintext waits for the client, without a deadline.
ClientTakes ==
    /\ pc = "reply"
    /\ back' = back + 1 /\ pc' = "select"
    /\ UNCHANGED <<client, done, tin, tinFin, target, tout, backFin>>

DownlinkEof ==
    /\ pc = "select" /\ ~targetDone /\ tout = 0 /\ tfin
    /\ targetDone' = TRUE /\ backFin' = TRUE
    /\ UNCHANGED <<client, pc, tunnelDone, tin, tinFin, target, tout, back>>

Finished == tunnelDone /\ targetDone

Ends ==
    /\ pc = "select" /\ Finished /\ pc' = "ended"
    /\ UNCHANGED <<client, done, tin, tinFin, target, tout, back, backFin>>

\* Faulty variant: a blocked write does not look at the deadline.
DeadlineReadOnly == pc = "select" /\ ~targetDone /\ tout = 0 /\ ~tfin

\* The wrapper looks at its deadline when a read or a write of the target's
\* stream has to wait, and fails it.
Deadline ==
    \/ pc = "select" /\ ~targetDone /\ tout = 0 /\ ~tfin
    \/ pc = "write" /\ tin = Cap

Idle ==
    /\ wrapped /\ Deadline /\ pc' = "failed"
    /\ UNCHANGED <<client, done, tin, tinFin, target, tout, back, backFin>>

\* A read or a write of either side fails, and the relay returns the error.
Running == pc \notin {"ended", "failed"}
Fails ==
    /\ Running /\ ~Finished /\ pc' = "failed"
    /\ UNCHANGED <<client, done, tin, tinFin, target, tout, back, backFin>>

Relay == UplinkRecord \/ WriteTarget \/ UplinkEof \/ Downlink \/ DownlinkEof \/ Ends \/ Idle

Next ==
    \/ ClientSends \/ ClientCloses
    \/ TargetReads \/ TargetWrites \/ TargetCloses
    \/ Relay \/ ClientTakes \/ Fails

Spec == Init /\ [][Next]_vars

\* The loop is polled, select gives each ready branch its turn, and a target
\* that can go on does; nobody has to send or close, and the client need not
\* take what it is sent.
Fairness ==
    /\ SF_vars(UplinkRecord \/ UplinkEof) /\ SF_vars(Downlink \/ DownlinkEof)
    /\ WF_vars(WriteTarget) /\ WF_vars(Ends) /\ WF_vars(Idle)
    /\ WF_vars(TargetReads) /\ WF_vars(echo /\ TargetWrites)
FairSpec == Spec /\ Fairness

-----------------------------------------------------------------------------
(***************************************************************************)
(* A bidirectional relay: what the client sends reaches the target and     *)
(* what the target sends reaches the client while the relay runs, as long  *)
(* as the client takes what it is sent (the two branches of                *)
(* tls_plain_relay).  The one state in which it does not is Stuck: without *)
(* a deadline, the relay waits in a write to a target that waits in a      *)
(* write to the relay.  And it closes by halves: an end is passed on only  *)
(* behind everything that was sent before it, and the relay returns        *)
(* without an error only after both ends (tunnel_done, target_done).       *)
(***************************************************************************)
HalfClose ==
    /\ tinFin => got + tin = csent
    /\ backFin => back = tsent
    /\ pc = "ended" => tinFin /\ backFin
Stuck == ~wrapped /\ pc = "write" /\ tin = Cap /\ owing /\ tout = Cap
Unread == pc = "reply"
UpBehind == Running /\ ~Stuck /\ got < csent
DownBehind == Running /\ ~Stuck /\ back < tsent
Relayed == []HalfClose /\ ([]<>~Unread => (UpBehind ~> ~UpBehind) /\ (DownBehind ~> ~DownBehind))

(***************************************************************************)
(* With the wrapper a relay whose target keeps its side open ends when     *)
(* nothing moves, []Reapable /\ []<>~Unread => <>Over, also when relay and *)
(* target wait in a write to each other (IdleTimeout::poll_read,           *)
(* poll_write).  Unread is the exception: the write to the client.         *)
(***************************************************************************)
Reapable == wrapped /\ ~tfin
Over == ~Running

=============================================================================
