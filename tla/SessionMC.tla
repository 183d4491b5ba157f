------------------------------ MODULE SessionMC ------------------------------
(***************************************************************************)
(* A session from its beginning to its two ends, one at a time: the        *)
(* requests of stream-up mode that are paired to one, a connection to the  *)
(* server with every kind of peer, and one through the local client with   *)
(* every kind of server.  "part" says which of them runs.                  *)
(***************************************************************************)
EXTENDS StreamUp, Session, LocalClient

VARIABLE part

\* the five doors; what only some of them look at is fixed for the others
AllScripts ==
  [door : {"raw", "xray", "reality", "veil", "carrier"},
   hello : {"silence", "partial", "stranger", "peer", "stall"}, vless : BOOLEAN,
   user : {"u", "x"}, cmd : {"Tcp", "Udp", "Mux"}, flow : {"None", "Extended"}, tag : {"direct", "chain", "block"},
   chains : BOOLEAN, frag : BOOLEAN, decoy : BOOLEAN, first : {"hello", "other", "server"}]

MCScripts ==
  {x \in AllScripts :
     /\ x.vless \/ (x.user = "u" /\ x.cmd = "Tcp" /\ x.tag = "direct")
     /\ x.hello \notin {"peer", "stranger"} => x.vless /\ x.user = "x" /\ x.cmd = "Tcp"
     /\ x.user = "x" => x.cmd = "Tcp" /\ x.tag = "direct"
     /\ x.cmd # "Tcp" => x.flow = "None" /\ x.first = "hello"
     /\ x.flow = "Extended" => x.tag = "direct" /\ x.first = "hello"
     /\ x.tag # "chain" => ~x.chains
     /\ x.tag = "block" \/ ~x.vless \/ x.user = "x" => x.first = "hello"
     /\ x.frag => x.tag # "block" /\ x.cmd = "Tcp"
     /\ x.door \notin {"reality", "veil"} => ~x.chains /\ ~x.frag
     /\ x.door \notin {"raw", "xray"} => ~x.decoy}

\* a silent peer, while the client runs
Idle == [door |-> "veil", hello |-> "silence", vless |-> TRUE, user |-> "x", cmd |-> "Tcp", flow |-> "None",
         tag |-> "direct", chains |-> FALSE, frag |-> FALSE, decoy |-> FALSE, first |-> "hello"]

\* what an application may say, the server answer and the two send
Hello(v, n, v2, c, a, u) == [ver |-> v, noAuth |-> n, ver2 |-> v2, cmd |-> c, atyp |-> a, utf8 |-> u]
MCHellos == {Hello(5, TRUE, 5, "connect", "v4", TRUE), Hello(5, TRUE, 5, "connect", "name", TRUE),
             Hello(4, TRUE, 5, "connect", "v4", TRUE), Hello(5, FALSE, 5, "connect", "v4", TRUE),
             Hello(5, TRUE, 4, "connect", "v4", TRUE), Hello(5, TRUE, 5, "bind", "v4", TRUE),
             Hello(5, TRUE, 5, "connect", "name", FALSE), Hello(5, TRUE, 5, "connect", "else", TRUE)}
MCResponses == {<<0, 0>>, <<0, 1, 9>>, <<7, 0>>}
MCAppPayload == <<0, 5>>
MCAppData == <<3>>

-----------------------------------------------------------------------------
PartsInit ==
  /\ part \in {"pairing", "server", "client"}
  /\ PairInit
  /\ IF part = "server" THEN ServerInit ELSE script = Idle /\ Accepted
  /\ kind \in (IF part = "client" THEN ClientKinds ELSE {"plain"})
  /\ hello \in (IF part = "client" THEN Hellos ELSE {Hello(5, TRUE, 5, "connect", "v4", TRUE)})
  /\ ClientInit
  /\ tag = "unknown" => kind = "veil"              \* the same as "proxy" from then on
  /\ hello.atyp = "name" => tag = "direct" \/ ~hello.utf8  \* and only a direct dial resolves it

PartsNext ==
  \/ part = "pairing" /\ PairNext /\ UNCHANGED <<part, serverVars, clientVars>>
  \/ part = "server" /\ ServerNext /\ UNCHANGED <<part, pairVars, clientVars>>
  \/ part = "client" /\ ClientNext /\ UNCHANGED <<part, pairVars, serverVars>>

\* The fairness of each part, while it runs.
PartsSpec ==
  /\ PartsInit /\ [][PartsNext]_<<part, pairVars, serverVars, clientVars>>
  /\ \A p \in UplinkPosts : /\ WF_pairVars(part = "pairing" /\ SendSession(p))
                            /\ WF_pairVars(part = "pairing" /\ ProxyAccepts(p))
                            /\ WF_pairVars(part = "pairing" /\ DownlinkEnds(p))
  /\ WF_serverVars(part = "server" /\ Task)
  /\ WF_clientVars(part = "client" /\ Client)
=============================================================================
