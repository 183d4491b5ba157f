------------------------------ MODULE Provision ------------------------------
(***************************************************************************)
(* From the operator's tool to a tunnel: donut-tools writes the two sides  *)
(* of a deployment (config-gen, device-add, a share link that the client   *)
(* imports, or what the subscription endpoint serves), the two daemons     *)
(* materialise their configuration, and what they then do has to fit.      *)
(* None is a failure to start.                                             *)
(***************************************************************************)
EXTENDS Links

CONSTANT SidLen  \* 16: the digits of a short id

\* UserId::from_str, in any of the forms of a UUID
ParseUser(t) == CASE t \in {T("uuid1"), T("UUID1")} -> "u1" [] t = T("uuid2") -> "u2" [] OTHER -> None

\* SocketAddr::from_str: an address, not a name
ParsesAddr(a) == a = "ip"

\* ShortId::from_str: padded with zeros on the right
ParseShortId(s) ==
  IF Len(s) > SidLen \/ \E i \in DOMAIN s : s[i] \notin 0..15 THEN None
  ELSE [i \in 1..SidLen |-> IF i <= Len(s) THEN s[i] ELSE 0]

\* parse_x25519: hex, then the four base64 alphabets, where 32 bytes come out
KeyForms == {"hex", "url", "url padded", "standard", "standard padded"}
ParseX25519(k) == IF k.form \in KeyForms /\ k.len = 32 THEN k.key ELSE None

ModeParse(m) == IF m \in {"stream-one", "stream-up", "packet-up"} THEN m ELSE None

\* from_path: by the extension, and without one JSON and then TOML
Loads(file) == \/ file.ext = file.content /\ file.ext \in {"json", "toml"}
               \/ file.ext \notin {"json", "toml"} /\ file.content \in {"json", "toml"}

\* a start that every check lets through
Started(checks, result) == IF \A i \in DOMAIN checks : checks[i] THEN result ELSE None

-----------------------------------------------------------------------------
(* donut-server: main.  A front door is what the inbound listens for.      *)

FrontDoor == [door |-> "", path |-> <<>>, mode |-> "stream-one", host |-> None, vision |-> "donut",
              key |-> None, sids |-> {}]

\* cert_chain and private_key_pem
Certified(r) == r.cert = "pem" /\ r.key = "pem"
DecoyParses(dest) == dest = None \/ ParsesAddr(dest)

ServeCarrier(r) == Started(<<ModeParse(r.mode) # None>>,
                           [FrontDoor EXCEPT !.door = "carrier", !.path = r.path, !.mode = r.mode])
ServeQuic(r) == Started(<<Certified(r), DecoyParses(r.dest)>>,
                        [FrontDoor EXCEPT !.door = "quic", !.path = r.path])
ServeTls(r) == Started(<<Certified(r), ModeParse(r.mode) # None, DecoyParses(r.dest)>>,
                       [FrontDoor EXCEPT !.door = "tls", !.path = r.path, !.mode = r.mode])

\* stream-one stands for "not set", and means stream-up
XhttpMode(m) == IF m = "stream-one" THEN "stream-up" ELSE ModeParse(m)
ServeXhttp(r) == Started(<<Certified(r), XhttpMode(r.mode) # None, DecoyParses(r.dest)>>,
                         [FrontDoor EXCEPT !.door = "xhttp", !.path = r.path,
                                           !.mode = XhttpMode(r.mode), !.host = r.host])

VisionParse(v) == CASE v \in {"donut", ""} -> "donut" [] v = "xray" -> "xray" [] OTHER -> None
ServeRaw(r) == Started(<<Certified(r), VisionParse(r.vision) # None, DecoyParses(r.dest)>>,
                       [FrontDoor EXCEPT !.door = "raw", !.vision = VisionParse(r.vision)])

\* RealityServer and VeilServerConfig::new
RealityChecks(r) ==
  <<ParsesAddr(r.dest), ParseX25519(r.priv) # None,
    \A i \in DOMAIN r.sids : ParseShortId(r.sids[i]) # None, r.sids # <<>> >>
RealityDoor(r, door) == [FrontDoor EXCEPT !.door = door, !.key = ParseX25519(r.priv),
                                          !.sids = {ParseShortId(r.sids[i]) : i \in DOMAIN r.sids}]
ServeVeil(r) == IF r.reality = None THEN None
                ELSE Started(RealityChecks(r.reality) \o <<Certified(r.reality)>>,
                             RealityDoor(r.reality, "veil"))
ServeReality(r) == IF r.reality = None THEN None
                   ELSE Started(RealityChecks(r.reality), RealityDoor(r.reality, "reality"))

Serve(r) == CASE r.transport = "carrier" -> ServeCarrier(r)
              [] r.transport = "quic" -> ServeQuic(r)
              [] r.transport = "tls" -> ServeTls(r)
              [] r.transport = "xhttp" -> ServeXhttp(r)
              [] r.transport = "raw" -> ServeRaw(r)
              [] r.transport = "veil" -> ServeVeil(r)
              [] r.transport = "reality" -> ServeReality(r)
              [] OTHER -> None

\* UserStore::load_or_seed: the file beside the configuration wins
StoredUsers(r, stored) == IF stored = None THEN {ParseUser(r.users[i]) : i \in DOMAIN r.users}
                          ELSE stored

Or(option, default) == IF option = None THEN default ELSE option

\* Faulty variant: the subscription repeats the mode of the file
SubServeConfigVerbatim(r, sub) ==
  [addr |-> sub.addr, sni |-> sub.sni, host |-> Or(sub.host, Or(r.host, sub.sni)),
   path |-> Or(sub.path, r.path), mode |-> Or(sub.mode, r.mode)]

\* what the subscription endpoint is given: its own settings, and else the inbound's
SubServeConfig(r, sub) ==
  [addr |-> sub.addr, sni |-> sub.sni, host |-> Or(sub.host, Or(r.host, sub.sni)),
   path |-> Or(sub.path, r.path),
   mode |-> Or(sub.mode, IF r.mode = "stream-one" THEN "stream-up" ELSE r.mode)]

\* main, up to the point where it waits for the signal to stop
StartServer(r, sub, stored) ==
  Started(<<ParsesAddr(r.listen), \A i \in DOMAIN r.users : ParseUser(r.users[i]) # None,
            sub # None => sub.addr # None /\ sub.sni # None /\ ParsesAddr(sub.listen),
            Serve(r) # None>>,
          [door |-> Serve(r), users |-> StoredUsers(r, stored),
           sub |-> IF sub = None THEN None ELSE SubServeConfig(r, sub)])

-----------------------------------------------------------------------------
(* donut-client: main *)

\* an IP literal in a host: it has a colon or is the test address
IsIp(t) == t # <<>> /\ \A i \in DOMAIN t : t[i] \in {58} \cup (48..57)
IsServerName(t) == IsIp(t) \/ (t # <<>> /\ \A i \in DOMAIN t : t[i] >= 256 \/ t[i] = 46)

\* FlowKind::from_wire
ParsesFlow(t) == t \in {<<>>, T("none"), T("xtls-rprx-vision")}

\* cert_server_name
CertServerName(o) == IF o.server_name # <<>> THEN o.server_name ELSE HostOf(o.server)

\* Fingerprint::from_str
Fingerprints == {"", "native", "unspecified", "none", "random", "rand", "randomized",
                 "randomizedalpn", "randomizednoalpn"}

Dialling == [dial |-> "", addr |-> <<>>, user |-> None, name |-> <<>>, path |-> <<>>,
             mode |-> "stream-one", host |-> <<>>, flow |-> <<>>, key |-> None, sid |-> None]

DialVeil(o) ==
  IF o.reality = None THEN None
  ELSE Started(<<ParseX25519(o.reality.pub) # None, ParseShortId(o.reality.sid) # None,
                 o.reality.fp \in Fingerprints, IsServerName(o.reality.server_name)>>,
               [Dialling EXCEPT !.dial = "veil", !.name = o.reality.server_name,
                                !.key = ParseX25519(o.reality.pub),
                                !.sid = ParseShortId(o.reality.sid)])
\* XhttpClient::new: what the request says to be the host
XhttpHost(name) == IF IsIp(name) THEN T("localhost") ELSE name
DialXhttp(o) ==
  Started(<<IsServerName(CertServerName(o)), ModeParse(o.mode) # None>>,
          [Dialling EXCEPT !.dial = "xhttp", !.name = CertServerName(o), !.path = o.path,
                           !.mode = o.mode, !.host = XhttpHost(CertServerName(o))])
DialH3(o) == Started(<<CertServerName(o) # <<>> >>,
                     [Dialling EXCEPT !.dial = "h3", !.name = CertServerName(o), !.path = o.path])
DialRaw(o) == Started(<<IsServerName(CertServerName(o)), ParsesFlow(o.flow)>>,
                      [Dialling EXCEPT !.dial = "raw", !.name = CertServerName(o), !.flow = o.flow])

Dial(o) == CASE o.transport = "veil" -> DialVeil(o)
             [] o.transport = "xhttp" -> DialXhttp(o)
             [] o.transport = "h3" -> DialH3(o)
             [] o.transport = "raw" -> DialRaw(o)
             [] OTHER -> None

\* lookup_host: a host and a port
Resolves(server) == RSplitOnce(server, 58) # None /\ ParsePort(RSplitOnce(server, 58)[2]) # None

\* run, with the configuration file c and the geo databases fetched or not
StartClient(c, fetched) ==
  LET o == c.outbound user == ParseUser(Trim(o.uuid)) d == Dial(o) IN
  Started(<<Loads(c.file), ParsesAddr(c.socks), Resolves(o.server), c.geo => fetched, user # None,
            d # None>>,
          IF d = None THEN None ELSE [d EXCEPT !.addr = o.server, !.user = user])

-----------------------------------------------------------------------------
(* donut-tools *)

Minted == [uuid |-> T("uuid1"), priv |-> [form |-> "url", len |-> 32, key |-> "k1"],
           sid |-> [i \in 1..SidLen |-> i % 16], path |-> <<47>> \o T("secret")]

Inbound(a, transport) ==
  [listen |-> a.listen, transport |-> transport, users |-> <<Minted.uuid>>, reality |-> None,
   path |-> <<47>>, cert |-> a.cert, key |-> a.key, dest |-> a.dest, mode |-> "stream-one",
   vision |-> "donut", host |-> None]

OutboundTo(server, uuid, transport) ==
  [server |-> server, uuid |-> uuid, transport |-> transport, reality |-> None,
   server_name |-> <<>>, path |-> <<47>>, mode |-> "stream-one", flow |-> T("none")]

\* client_config, printed as JSON and saved by the operator
ClientFile(o, socks, ext) ==
  [outbound |-> o, socks |-> socks, geo |-> FALSE, file |-> [ext |-> ext, content |-> "json"]]

RawServer(a) == [Inbound(a, "raw") EXCEPT !.vision = "xray"]

ToolMode(m) == IF m = "stream-one" THEN "stream-up" ELSE m
XhttpServer(a) == [Inbound(a, "xhttp") EXCEPT !.path = Or(a.path, Minted.path), !.mode = ToolMode(a.mode),
                                              !.host = Or(a.host, a.server_name)]

VeilServer(a) ==
  [Inbound(a, "veil") EXCEPT !.cert = None, !.key = None, !.dest = None,
     !.reality = [priv |-> Minted.priv, sids |-> <<Minted.sid>>, dest |-> a.dest, cert |-> a.cert,
                  key |-> a.key]]
VeilClient(a) ==
  [OutboundTo(a.server_addr, Minted.uuid, "veil") EXCEPT
     !.reality = [pub |-> Minted.priv, sid |-> Minted.sid, server_name |-> a.server_name,
                  fp |-> "randomized"]]

\* cert_pair: the two sides share the path and the mode
CertServer(a, transport, mode) ==
  [Inbound(a, transport) EXCEPT !.path = Or(a.path, Minted.path), !.mode = mode]
CertClient(a, transport, mode) ==
  [OutboundTo(a.server_addr, Minted.uuid, transport) EXCEPT !.server_name = a.server_name,
     !.path = Or(a.path, Minted.path), !.mode = mode]

\* generate_pair, and the servers that come with a link
ServerOf(a) == CASE a.transport = "veil" -> VeilServer(a)
                 [] a.transport = "tls" -> CertServer(a, "tls", a.mode)
                 [] a.transport = "quic" -> CertServer(a, "quic", "stream-one")
                 [] a.transport = "raw" -> RawServer(a)
                 [] a.transport = "xhttp" -> XhttpServer(a)
ClientOf(a) == CASE a.transport = "veil" -> VeilClient(a)
                 [] a.transport = "tls" -> CertClient(a, "xhttp", a.mode)
                 [] a.transport = "quic" -> CertClient(a, "h3", "stream-one")

\* device_add: another device for a veil server, from what the operator says of the server
DeviceClient(a, d) ==
  [OutboundTo(a.server_addr, d.uuid, "veil") EXCEPT
     !.reality = [pub |-> d.pub, sid |-> d.sid, server_name |-> a.server_name, fp |-> d.fp]]

\* config_gen of raw and xhttp: the link that goes with the server
GenLink(a) ==
  LET who == [uuid |-> Minted.uuid, addr |-> a.server_addr, sni |-> a.server_name,
              label |-> T("donut-") \o HostOf(a.server_addr)]
  IN  IF a.transport = "raw"
      THEN VlessLink([fp |-> T("chrome"), flow |-> T("xtls-rprx-vision")] @@ who)
      ELSE VlessXhttpLink([fp |-> T("chrome"), host |-> XhttpServer(a).host, path |-> XhttpServer(a).path,
                           mode |-> T(XhttpServer(a).mode)] @@ who)

\* cmd_import: a client without Vision, and unless they are declined the Russia-direct rules,
\* which need the geo databases
Import(l, im) ==
  [outbound |-> [OutboundTo(l.host \o <<58>> \o l.port, l.uuid, "raw") EXCEPT
                   !.server_name = LinkServerName(l),
                   !.flow = IF l.flow = T("xtls-rprx-vision") THEN T("none") ELSE l.flow],
   socks |-> im.socks, geo |-> ~im.noRu, file |-> [ext |-> im.ext, content |-> "toml"]]

\* the client's configuration, by the way it came to the device
DeviceConfig(i) ==
  CASE i.how = "pair" -> ClientFile(ClientOf(i.args), i.im.socks, i.im.ext)
    [] i.how = "device" -> ClientFile(DeviceClient(i.args, i.dev), i.im.socks, i.im.ext)
    [] i.how = "import" -> Import(ParseLink(GenLink(i.args)), i.im)

Deploy ==
  /\ pending("deploy") /\ UNCHANGED input
  /\ output' = [server |-> StartServer(ServerOf(input.args), None, input.stored),
                client |-> StartClient(DeviceConfig(input), input.im.fetched)]

-----------------------------------------------------------------------------
(* The subscription endpoint, and what subgen writes for each format.  A   *)
(* connection is what a client reads in the document: where it connects,   *)
(* as whom, and how.                                                       *)

\* XhttpParams
ParamsOf(cfg, uuid) ==
  [uuid |-> uuid, addr |-> cfg.addr, sni |-> cfg.sni, host |-> cfg.host, path |-> cfg.path,
   mode |-> T(cfg.mode), fp |-> T("chrome"), label |-> T("donut-") \o HostOf(cfg.addr)]

Connection(p, host, port) ==
  [uuid |-> p.uuid, at |-> host, port |-> port, sni |-> p.sni, host |-> p.host, path |-> p.path,
   mode |-> p.mode]

\* xray_proxy_outbound, and the same of the Clash profile
Outbound(p) == LET hp == HostPortOr(p.addr, T("443")) IN Connection(p, hp[1], hp[2])

\* a link as the reader of a subscription takes it: link::parse and the parameters of xHTTP
LinkConnection(text) ==
  LET l == ParseLink(text) q == QueryOfLink(text) IN
  IF l = None THEN None
  ELSE [uuid |-> l.uuid, at |-> l.host, port |-> l.port, sni |-> l.sni,
        host |-> Param(q, "host", <<>>), path |-> Param(q, "path", <<>>),
        mode |-> Param(q, "mode", <<>>)]

\* by the format: a link, or a document of Clash or Xray; the routing rules some of them carry,
\* which the profile selects and the client applies, are left out
SubBody(format, p) ==
  IF format \in {"links", "link", "sub", "happ"} THEN LinkConnection(VlessXhttpLink(p)) ELSE Outbound(p)

NotFound == [code |-> 404, body |-> None]

\* handle: the first value of a key in the query counts
HandleSub(req, cfg, users) ==
  IF ~req.sub \/ req.uuid = <<>> THEN NotFound
  ELSE IF ParseUser(req.uuid) \notin users THEN NotFound
  ELSE [code |-> 200, body |-> SubBody(Or(req.format, "xray"), ParamsOf(cfg, req.uuid))]

Subscribe ==
  /\ pending("subscribe") /\ UNCHANGED input
  /\ LET server == StartServer(input.inbound, input.sub, input.stored) IN
     output' = [server |-> server,
                answer |-> IF server = None THEN None
                           ELSE HandleSub(input.req, server.sub, server.users)]

-----------------------------------------------------------------------------
(* What has to fit for a client to be served *)

\* host_matches: the name without its port; the deployments here use no capitals
HostOnly(t) == IF RSplitOnce(t, 58) # None /\ ParsePort(RSplitOnce(t, 58)[2]) # None
               THEN RSplitOnce(t, 58)[1] ELSE t
HostAdmitted(pin, host) == pin = None \/ HostOnly(pin) = HostOnly(host)

Meet(server, client) ==
  LET d == server.door IN
  /\ client.user \in server.users
  /\ CASE client.dial = "veil" -> d.door = "veil" /\ client.key = d.key /\ client.sid \in d.sids
       [] client.dial = "xhttp" -> /\ d.door \in {"tls", "xhttp"} /\ client.path = d.path
                                   /\ client.mode = d.mode /\ HostAdmitted(d.host, client.host)
       [] client.dial = "h3" -> d.door = "quic" /\ client.path = d.path
       [] client.dial = "raw" -> /\ d.door = "raw"
                                 /\ d.vision = "donut" \/ client.flow \in {<<>>, T("none")}

\* the operator did their part: addresses are addresses, the certificate is there, the device is in
\* the store, its file is named for what is in it, the databases its rules name are fetched, and
\* what they typed of the veil server is what it has
OperatorReady(i) ==
  /\ {i.args.listen, i.args.dest, i.im.socks} = {"ip"} /\ i.args.cert = "pem" /\ i.args.key = "pem"
  /\ i.stored # None => "u1" \in i.stored /\ "u2" \in i.stored
  /\ i.how = "device" => /\ i.stored # None /\ i.dev.pub.form \in KeyForms /\ i.dev.pub.len = 32
                         /\ i.dev.sid = Minted.sid /\ i.dev.fp = "randomized"
  /\ i.im.ext = (IF i.how = "import" THEN "toml" ELSE "json")
  /\ i.im.fetched \/ i.im.noRu \/ i.how # "import"

Served(out) == out.server # None /\ out.client # None /\ Meet(out.server, out.client)

\* What the tool generates works as it is: both daemons start, and the client is served, over every
\* transport the tool has a client for, with the device of the pair, one added to it, and one that
\* imported the link (generate_pair, device_add, cmd_import against the two mains).
PairServes ==
  Has("deploy") /\ OperatorReady(input) /\ input.args.transport # "xhttp" =>
    /\ Served(output)
    /\ HostOf(output.client.addr) \in {HostOf(input.args.server_addr), <<58, 58, 49>>}
    /\ output.client.name = input.args.server_name

\* A subscription names the inbound it is served beside: unless its own settings say otherwise, an
\* authorised user gets, in every format, a connection with the path, the mode and a host the
\* inbound answers to, under their own identity; and nobody else learns more than that the page is
\* not there (main, SubServeConfig, subscription::handle, subgen).
SubscriptionFits ==
  Has("subscribe") /\ output.server # None =>
    LET a == output.answer d == output.server.door u == ParseUser(input.req.uuid) IN
    /\ (a = NotFound) = ~(input.req.sub /\ u \in output.server.users)
    /\ a # NotFound /\ d.door = "xhttp" /\ input.sub.path = None /\ input.sub.mode = None
         /\ input.sub.host = None =>
         LET c == a.body IN
         /\ c # None
         /\ ParseUser(c.uuid) = u /\ c.path = d.path /\ c.mode = T(d.mode)
         /\ HostAdmitted(d.host, c.host) /\ c.sni = input.sub.sni
         /\ c.port = HostPortOr(input.sub.addr, T("443"))[2]

\* Whatever the operator hands to a user works: the generated files, the links and every form of the
\* subscription.
DeploymentServes == PairServes /\ LinkReadsBack /\ SubscriptionFits
=============================================================================
