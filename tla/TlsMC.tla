-------------------------------- MODULE TlsMC --------------------------------
(***************************************************************************)
(* Two runs of the handshake over the configurations below, and beside     *)
(* them the session caches it uses, under more tickets and delays than the *)
(* two handshakes have: "part" says which of them runs.                    *)
(*                                                                         *)
(* The configurations are a base pair, every deviation of one setting of   *)
(* the client combined with every deviation of one setting of the server,  *)
(* and for the second connection a change of at most one setting or        *)
(* circumstance.                                                           *)
(***************************************************************************)
EXTENDS Tls

CONSTANTS
  Servers, ClientSize, ServerSize, PerServer, Tickets, MaxLifetime, Skew, Ms, U32, Configs,
  MaxClock,        \* of SessionStore
  sa, sb, v1, v2   \* servers, and configurations of the client

VARIABLES part, clock, issued, cache, sessions, post, hellos, fresh, arrived, taken

St == INSTANCE SessionStore

CBase ==
  [vers |-> {12, 13}, groups |-> <<"g1", "g2">>, suites |-> <<"A", "B", "E">>,
   alpn |-> <<"h1", "h2">>, early |-> TRUE, cert |-> FALSE, decomp |-> FALSE, comp |-> FALSE,
   trusts |-> {"srv", "reality"}, ech |-> None, mut |-> FALSE, store |-> TRUE,
   t12 |-> "SessionIdOrTickets", requireEms |-> FALSE]

SBase ==
  [vers |-> {12, 13}, groups |-> <<"g1", "g2">>, suites |-> <<"A", "B", "X", "E">>,
   alpn |-> <<"h2", "h1">>, auth |-> None, ticketer |-> FALSE, storage |-> TRUE, tickets |-> 2,
   early |-> 2, half |-> FALSE, comp |-> FALSE, decomp |-> FALSE, hook |-> None,
   trusts |-> {"cli"}, ownOrder |-> FALSE, requireEms |-> FALSE, ocsp |-> FALSE]

EBase == [creds |-> TRUE, age |-> "fresh", alter |-> None, write |-> FALSE, early |-> 1]

CDev == {CBase, [CBase EXCEPT !.vers = {12}], [CBase EXCEPT !.vers = {13}],
         [CBase EXCEPT !.groups = <<"g2", "g1">>], [CBase EXCEPT !.groups = <<"hy", "g1">>],
         [CBase EXCEPT !.groups = <<"g2">>], [CBase EXCEPT !.suites = <<"X", "A", "E">>],
         [CBase EXCEPT !.alpn = <<>>], [CBase EXCEPT !.alpn = <<"h1">>],
         [CBase EXCEPT !.early = FALSE], [CBase EXCEPT !.cert = TRUE],
         [CBase EXCEPT !.cert = TRUE, !.comp = TRUE],
         [CBase EXCEPT !.decomp = TRUE], [CBase EXCEPT !.trusts = {}],
         [CBase EXCEPT !.ech = "grease"], [CBase EXCEPT !.ech = "on"],
         [CBase EXCEPT !.mut = TRUE, !.store = FALSE], [CBase EXCEPT !.store = FALSE],
         [CBase EXCEPT !.t12 = "Disabled"], [CBase EXCEPT !.requireEms = TRUE]}

SDev == {SBase, [SBase EXCEPT !.vers = {12}], [SBase EXCEPT !.vers = {13}],
         [SBase EXCEPT !.groups = <<"g2">>], [SBase EXCEPT !.groups = <<"g1">>],
         [SBase EXCEPT !.suites = <<"X", "B", "A", "E">>, !.ownOrder = TRUE],
         [SBase EXCEPT !.alpn = <<"h2">>], [SBase EXCEPT !.auth = "opt"],
         [SBase EXCEPT !.auth = "man"], [SBase EXCEPT !.auth = "man", !.trusts = {}],
         [SBase EXCEPT !.auth = "opt", !.decomp = TRUE],
         [SBase EXCEPT !.ticketer = TRUE], [SBase EXCEPT !.storage = FALSE],
         [SBase EXCEPT !.early = 0], [SBase EXCEPT !.half = TRUE], [SBase EXCEPT !.comp = TRUE],
         [SBase EXCEPT !.hook = "reality"], [SBase EXCEPT !.hook = "tunnel"],
         [SBase EXCEPT !.vers = {12}, !.ocsp = TRUE], [SBase EXCEPT !.vers = {12}, !.ticketer = TRUE],
         [SBase EXCEPT !.requireEms = TRUE]}

EDev == {EBase, [EBase EXCEPT !.creds = FALSE], [EBase EXCEPT !.age = "skew"],
         [EBase EXCEPT !.age = "expired"], [EBase EXCEPT !.write = TRUE],
         [EBase EXCEPT !.early = 2], [EBase EXCEPT !.early = 2, !.age = "skew"]}
         \cup {[EBase EXCEPT !.alter = a] : a \in {"strip13", "alpn", "suites", "shares", "sid", "sni", "ems"}}

P(cf, sf, e) == [c |-> cf, s |-> sf, e |-> e]

\* a client whose verifier or credentials changed does not find its old sessions, and servers
\* that differ in client authentication do not share a session store
Changed(cf) == [EBase EXCEPT !.creds = cf.trusts = CBase.trusts /\ cf.cert = CBase.cert]

MCPlans == {<<P(cf, sf, EBase), P(cf, sf, EBase)>> : cf \in CDev, sf \in SDev}
           \cup {<<P(cf, SBase, EBase), P(cf, SBase, e)>> : cf \in CDev, e \in EDev}
           \cup {<<P(CBase, sf, EBase), P(CBase, sf, e)>> : sf \in SDev, e \in EDev}
           \cup {<<P(CBase, SBase, EBase), P(cf, sf, Changed(cf))>> :
                    cf \in CDev, sf \in {x \in SDev : x.auth = None}}
           \cup {<<P(cf, sf, EBase), P(cf, sf, EBase)>> :
                    cf \in {[CBase EXCEPT !.cert = TRUE]},
                    sf \in {[SBase EXCEPT !.vers = {12}, !.auth = "man"]}}
           \cup {<<P(cf, sf, e), P(cf, sf, e)>> : cf \in {[CBase EXCEPT !.store = FALSE]},
                    sf \in {[SBase EXCEPT !.groups = <<"g2">>]}, e \in EDev}

-----------------------------------------------------------------------------
(* Three tickets for one server, of which one expires early and one at     *)
(* once, one was made under another configuration, and two have ages that  *)
(* wrap.                                                                   *)

MCTickets == <<[name |-> sa, lifetime |-> 3, ageAdd |-> 11, config |-> v1],
               [name |-> sa, lifetime |-> 1, ageAdd |-> 3, config |-> v2],
               [name |-> sa, lifetime |-> 0, ageAdd |-> 10, config |-> v1]>>

storeVars == <<clock, issued, cache, sessions, post, hellos, fresh, arrived, taken>>

PartsInit ==
  /\ part \in {"handshake", "store"}
  /\ IF part = "handshake" THEN plan \in Plans
     ELSE plan = <<P(CBase, SBase, EBase), P(CBase, SBase, EBase)>>
  /\ Fresh /\ St!Init

PartsNext ==
  \/ part = "handshake" /\ Next /\ UNCHANGED <<part, storeVars>>
  \/ part = "store" /\ St!Next /\ UNCHANGED <<part, vars>>
  \* the clock is bounded, so the caches may stop
  \/ part = "store" /\ UNCHANGED <<part, vars, storeVars>>

PartsSpec == PartsInit /\ [][PartsNext]_<<part, vars, storeVars>>

-----------------------------------------------------------------------------
(* The properties of the caches, stated and explained in SessionStore *)

\* Early data is accepted once per ticket, and promptly.
ReplayRefused == part = "store" => St!ReplayRefused
\* The client's tickets are single use, valid and the newest.
TicketsWorthOffering == part = "store" => St!TicketsWorthOffering
=============================================================================
