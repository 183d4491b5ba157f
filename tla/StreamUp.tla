------------------------------ MODULE StreamUp ------------------------------
(***************************************************************************)
(* The stream-up dispatcher of the carrier server (crates/donut-carrier/   *)
(* src/server/stream_up.rs), for one session id: an uplink POST and a      *)
(* downlink GET are paired through a table and become one session.  The    *)
(* pumps between the HTTP bodies and the session's pipe are modelled by    *)
(* what ends them; the bytes they copy are not.                            *)
(***************************************************************************)
EXTENDS Naturals, FiniteSets

CONSTANTS
    UplinkPosts, DownlinkGets,  \* the requests that carry the session id
    None,                       \* no entry in the table, no peer
    ChanCap                     \* capacity of the accept channel

ASSUME StreamUpAssumption ==
    /\ UplinkPosts \cap DownlinkGets = {} /\ None \notin UplinkPosts \cup DownlinkGets
    /\ ChanCap \in Nat \ {0}

Requests == UplinkPosts \cup DownlinkGets

VARIABLES
    st,        \* each request: "idle", "parked", "pairing", "answered", "conflict"
    table,     \* the half parked under the session id, or None
    peer,      \* the GET each POST is paired with, or None
    proxyEnd,  \* the proxy's end of each POST's pipe
    upPump,    \* the pump of each POST's body: "off", "running", "ended"
    downPump,  \* the pump into each paired GET's pipe
    body       \* each GET's response body: "none", "open", "ended"

pairVars == <<st, table, peer, proxyEnd, upPump, downPump, body>>

\* "held" in the table or by a handler, "queue" on the accept channel
EndPlaces == {"none", "held", "queue", "proxy", "gone"}

PairInit ==
    /\ st = [r \in Requests |-> "idle"]
    /\ table = None
    /\ peer = [p \in UplinkPosts |-> None]
    /\ proxyEnd = [p \in UplinkPosts |-> "none"]
    /\ upPump = [p \in UplinkPosts |-> "off"]
    /\ downPump = [p \in UplinkPosts |-> "off"]
    /\ body = [g \in DownlinkGets |-> "none"]

-----------------------------------------------------------------------------
\* Faulty variant: the half stays in the table.
PairKeeps(p, g, r) ==
    /\ table' = table
    /\ peer' = [peer EXCEPT ![p] = g]
    /\ downPump' = [downPump EXCEPT ![p] = "running"]
    /\ st' = [st EXCEPT ![r] = "pairing"]

\* Pair p with g, whichever of the two (r) is the request being handled: the
\* downlink pump starts before the session is sent.
Pair(p, g, r) ==
    /\ table' = None
    /\ peer' = [peer EXCEPT ![p] = g]
    /\ downPump' = [downPump EXCEPT ![p] = "running"]
    /\ st' = [x \in Requests |-> IF x = r THEN "pairing"
                                 ELSE IF x \in {p, g} THEN "answered" ELSE st[x]]

Park(r) ==
    /\ table' = r
    /\ st' = [st EXCEPT ![r] = "parked"]
    /\ UNCHANGED <<peer, downPump>>

\* The half that was there is put back, the new one is dropped.
Conflict(r) ==
    /\ st' = [st EXCEPT ![r] = "conflict"]
    /\ UNCHANGED <<table, peer, downPump>>

HandleUplink(p) ==
    /\ st[p] = "idle"
    /\ upPump' = [upPump EXCEPT ![p] = "running"]
    /\ \/ table \in DownlinkGets /\ Pair(p, table, p)
       \/ table = None /\ Park(p)
       \/ table \in UplinkPosts /\ Conflict(p)
    /\ proxyEnd' = [proxyEnd EXCEPT ![p] = IF table \in UplinkPosts THEN "gone" ELSE "held"]
    /\ UNCHANGED body

\* Faulty variant: a GET is parked over whatever is there.
HandleDownlinkParks(g) ==
    /\ st[g] = "idle"
    /\ Park(g)
    /\ body' = [body EXCEPT ![g] = "open"]
    /\ UNCHANGED <<proxyEnd, upPump>>

HandleDownlink(g) ==
    /\ st[g] = "idle"
    /\ \/ table \in UplinkPosts /\ Pair(table, g, g)
       \/ table = None /\ Park(g)
       \/ table \in DownlinkGets /\ Conflict(g)
    /\ body' = [body EXCEPT ![g] = IF table \in DownlinkGets THEN "ended" ELSE "open"]
    /\ UNCHANGED <<proxyEnd, upPump>>

Queued == {p \in UplinkPosts : proxyEnd[p] = "queue"}

\* The handler that paired the halves sends the session, when there is room.
SendSession(p) ==
    /\ proxyEnd[p] = "held" /\ peer[p] # None
    /\ Cardinality(Queued) < ChanCap
    /\ proxyEnd' = [proxyEnd EXCEPT ![p] = "queue"]
    /\ st' = [r \in Requests |-> IF r \in {p, peer[p]} THEN "answered" ELSE st[r]]
    /\ UNCHANGED <<table, peer, upPump, downPump, body>>

\* The handler's connection goes away while it waits for room: the session it
\* holds is dropped, and so is the response body if it is the GET's.
HandlerDropped(p) ==
    /\ proxyEnd[p] = "held" /\ peer[p] # None
    /\ proxyEnd' = [proxyEnd EXCEPT ![p] = "gone"]
    /\ body' = IF st[peer[p]] = "pairing" THEN [body EXCEPT ![peer[p]] = "ended"] ELSE body
    /\ st' = [r \in Requests |-> IF r \in {p, peer[p]} THEN "answered" ELSE st[r]]
    /\ UNCHANGED <<table, peer, upPump, downPump>>

-----------------------------------------------------------------------------
\* The proxy takes the session, and drops its end when the relay is over.
ProxyAccepts(p) ==
    /\ proxyEnd[p] = "queue"
    /\ proxyEnd' = [proxyEnd EXCEPT ![p] = "proxy"]
    /\ UNCHANGED <<st, table, peer, upPump, downPump, body>>

ProxyCloses(p) ==
    /\ proxyEnd[p] = "proxy"
    /\ proxyEnd' = [proxyEnd EXCEPT ![p] = "gone"]
    /\ UNCHANGED <<st, table, peer, upPump, downPump, body>>

\* The POST's body ends, or a write finds the proxy's end gone.
UplinkEnds(p) ==
    /\ upPump[p] = "running"
    /\ upPump' = [upPump EXCEPT ![p] = "ended"]
    /\ UNCHANGED <<st, table, peer, proxyEnd, downPump, body>>

\* The downlink copy ends because the proxy's end is gone, or because the
\* GET's response body was dropped; then the GET's pipe is shut down.
DownlinkEnds(p) ==
    /\ downPump[p] = "running"
    /\ proxyEnd[p] = "gone" \/ body[peer[p]] = "ended"
    /\ downPump' = [downPump EXCEPT ![p] = "ended"]
    /\ body' = [body EXCEPT ![peer[p]] = "ended"]
    /\ UNCHANGED <<st, table, peer, proxyEnd, upPump>>

\* The connection of an answered or parked GET goes away.
ClientLeaves(g) ==
    /\ body[g] = "open" /\ st[g] \in {"parked", "answered"}
    /\ body' = [body EXCEPT ![g] = "ended"]
    /\ UNCHANGED <<st, table, peer, proxyEnd, upPump, downPump>>

PairNext ==
    \/ \E p \in UplinkPosts :
          \/ HandleUplink(p) \/ SendSession(p) \/ ProxyAccepts(p) \/ HandlerDropped(p)
          \/ ProxyCloses(p) \/ UplinkEnds(p) \/ DownlinkEnds(p)
    \/ \E g \in DownlinkGets : HandleDownlink(g) \/ ClientLeaves(g)

PairSpec == PairInit /\ [][PairNext]_pairVars

\* Handlers and pumps that can go on are polled; the proxy keeps accepting.
PairFairness ==
    \A p \in UplinkPosts :
       WF_pairVars(SendSession(p)) /\ WF_pairVars(ProxyAccepts(p)) /\ WF_pairVars(DownlinkEnds(p))
PairFairSpec == PairSpec /\ PairFairness

-----------------------------------------------------------------------------
PairTypeOK ==
    /\ st \in [Requests -> {"idle", "parked", "pairing", "answered", "conflict"}]
    /\ table \in Requests \cup {None}
    /\ peer \in [UplinkPosts -> DownlinkGets \cup {None}]
    /\ proxyEnd \in [UplinkPosts -> EndPlaces]
    /\ upPump \in [UplinkPosts -> {"off", "running", "ended"}]
    /\ downPump \in [UplinkPosts -> {"off", "running", "ended"}]
    /\ body \in [DownlinkGets -> {"none", "open", "ended"}]

(***************************************************************************)
(* A request waits exactly when the table holds it: none is forgotten when *)
(* a duplicate arrives, none is parked while its counterpart waits, and a  *)
(* refused one is not in any session (handle_uplink, handle_downlink).     *)
(***************************************************************************)
ParkedIsInTable == \A r \in Requests : st[r] = "parked" <=> table = r

(***************************************************************************)
(* Sessions do not share a downlink: no two POSTs are paired with the same *)
(* GET, and a session leaves the table only with a GET of its own that was *)
(* not refused (Action::Pair, DAction::Pair).                              *)
(***************************************************************************)
PairingExclusive ==
    /\ \A p, q \in UplinkPosts : peer[p] = peer[q] /\ peer[p] # None => p = q
    /\ \A p \in UplinkPosts : proxyEnd[p] \in {"queue", "proxy"} =>
          /\ peer[p] # None
          /\ st[peer[p]] = "answered" /\ st[p] = "answered"

(***************************************************************************)
(* Once a POST and a GET have arrived a session reaches the proxy (the     *)
(* module comment's "as soon as both sides arrive"), and when the proxy is *)
(* done with it the response body of its GET ends, so the client is not    *)
(* left waiting (spawn_downlink_pump).                                     *)
(***************************************************************************)
Arrived(R) == \E r \in R : st[r] # "idle"
PairServed ==
    /\ (Arrived(UplinkPosts) /\ Arrived(DownlinkGets)) ~>
          (\E p \in UplinkPosts : proxyEnd[p] \in {"proxy", "gone"} /\ peer[p] # None)
    /\ \A p \in UplinkPosts, g \in DownlinkGets :
          (proxyEnd[p] = "gone" /\ peer[p] = g) ~> (body[g] = "ended")

=============================================================================
