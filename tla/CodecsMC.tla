------------------------------ MODULE CodecsMC ------------------------------
(***************************************************************************)
(* The pure functions of the system, each over its own inputs: TLS         *)
(* messages, the VLESS and Mux formats, routing, share links, and the      *)
(* configurations that put a server and a client together.                 *)
(***************************************************************************)
EXTENDS TlsMessages, Wire, Routing, Links, Provision

(* The messages the TLS readers are given: one of each kind the writers    *)
(* produce, hellos of other stacks, and the same with one byte changed.    *)

Seed1 == <<51, 43, 0, 45, 13, 10, 16, 5, 11, 23, 27, 35, 42, 44, 47, 19, 20, 57, 65281, 65445>>
Seed2 == Reverse(Seed1)

Psk == << << <<<<7, 7>>, <<0, 0, 1, 2>>>> >>, << <<5, 5, 5>> >> >>
Sni == [kind |-> "name", name |-> <<97, 46, 98>>]
Groups == <<29, 23>>
Shares == << <<29, <<1, 2>>>> >>
Hello(m, seed) == <<771, <<1, 2>>, <<9>>, <<4865, 255>>, <<0>>, [m |-> m, seed |-> seed, contiguous |-> <<>>]>>
HelloM == (ServerName :> Sni) @@ (EllipticCurves :> Groups) @@ (KeyShare :> Shares)
  @@ (SupportedVersions :> {772, 771}) @@ (ALProtocolNegotiation :> << <<104, 50>> >>)
OddM == (StatusRequest :> [tag |-> 1, v |-> << <<>>, <<>> >>]) @@ (ECPointFormats :> {0})
  @@ (ClientCertificateType :> <<2>>) @@ (ServerCertificateType :> <<0>>)
  @@ (ExtendedMasterSecret :> <<>>) @@ (SessionTicket :> <<3>>)
  @@ (EncryptedClientHello :> [tag |-> 0, v |-> << <<1, 1>>, 7, <<>>, <<4>> >>])
PskM == (PSKKeyExchangeModes :> {1}) @@ (EarlyData :> <<>>) @@ (PreSharedKey :> Psk)

Own(ver, type, v) == [ver |-> ver, type |-> type, v |-> v, foreign |-> FALSE]
Raw(m) == [e \in DOMAIN m |-> Write(FormatOf(ClientExtensions.table, e), m[e])]
Foreign(m, order) == [ver |-> 13, type |-> 1, foreign |-> TRUE,
  v |-> <<771, <<1, 2>>, <<>>, <<4865>>, <<0>>, [m |-> m, order |-> order]>>]

Retry(m, order) == <<771, [tag |-> HrrRandom, v |-> << <<9>>, 4865, 0, [m |-> m, order |-> order]>>]>>
RetryM == (KeyShare :> 23) @@ (SupportedVersions :> 772) @@ (EncryptedClientHello :> <<1, 2, 3>>)

MCSamples == <<
  Own(13, 1, Hello(HelloM, Seed1)),
  Own(13, 1, Hello(HelloM @@ PskM, Seed2)),
  Own(12, 1, Hello(OddM, Seed1)),
  Own(12, 1, Hello(<<>>, Seed1)),
  Own(13, 1, Hello(HelloM @@ PskM @@ Only(OddM, {EncryptedClientHello}), Seed1)),
  Foreign(Raw(PskM @@ (KeyShare :> Shares)), <<51, 41, 45, 42>>),
  Foreign(Raw(PskM) @@ (2570 :> <<1>>), <<2570, 45, 42, 41>>),
  Foreign(Raw(HelloM) @@ (2570 :> <<1>>), <<2570, 0, 51, 2570>>),
  Foreign(Raw(HelloM), <<0, 51, 0>>),
  Foreign(ServerName :> <<0, 8, 0, 0, 1, 33, 0, 0, 1, 97>>, <<0>>),
  Foreign(ServerName :> <<0, 6, 0, 0, 1, 97, 1, 9>>, <<0>>),
  Own(13, 2, Retry(RetryM, <<43, 65037, 51>>)),
  Own(13, 2, Retry(Only(RetryM, {43, 51}), <<51, 43>>)),
  Own(13, 2, <<771, [tag |-> 258, v |-> << <<9>>, 4865, 0,
      [m |-> (KeyShare :> <<29, <<1>>>>) @@ (SupportedVersions :> 772) @@ (PreSharedKey :> 0), unknown |-> {}]>>]>>),
  Own(13, 8, [m |-> (ALProtocolNegotiation :> <<104>>) @@ (ClientCertificateType :> 2) @@ (ServerCertificateType :> 0)
              @@ (EncryptedClientHello :> <<[tag |-> 65037, v |-> << <<3, 32, <<8>>, << <<1, 1>> >> >>, 0, <<97>>, << >> >>],
                                           [tag |-> 1, v |-> <<6>>]>>),
              unknown |-> {}]),
  Own(13, 11, << <<>>, << << <<1>>, [m |-> StatusRequest :> [tag |-> 1, v |-> <<2>>]]>>, << <<3>>, [m |-> <<>>]>> >> >>),
  Own(12, 11, << <<1>>, <<2, 3>> >>),
  Own(13, 13, << <<1>>, [m |-> (SignatureAlgorithms :> <<1027>>) @@ (CertificateAuthorities :> << <<48>> >>)]>>),
  Own(12, 13, << <<1>>, <<1027>>, <<>> >>),
  Own(13, 4, << <<0, 0, 0, 9>>, <<1, 2, 3, 4>>, <<1>>, <<5, 6>>, [m |-> EarlyData :> <<0, 0, 1, 0>>]>>),
  Own(12, 4, << <<0, 0, 0, 9>>, <<>> >>),
  Own(13, 15, <<1027, <<1>>>>), Own(13, 22, [tag |-> 1, v |-> <<4>>]), Own(13, 24, 1),
  Own(13, 25, <<1, 300, <<7>>>>), Own(13, 5, <<>>), Own(12, 14, <<>>), Own(13, 20, <<1, 2>>) >>

EchOuter == {Hello(HelloM @@ (ECPointFormats :> {0}), Seed1), Hello(HelloM @@ PskM, Seed2),
             Hello(HelloM @@ (CompressCertificate :> <<2>>), Seed2)}
MCEchInputs == [kind : {"ech"}, outer : EchOuter, random : {<<8, 8>>},
                name : {<<97>>, <<97, 46, 98, 99>>, <<49, 46, 50>>}, max : {0, 3, 40}]

MCKxInputs ==
  [kind : {"kx"}, from : {"client"}, kxa : {"ECDHE", "DHE"}, v : {<<1>>, <<1, 2, 3>>}, cut : {0, 1}]
  \cup {[kind |-> "kx", from |-> "server", kxa |-> "ECDHE", v |-> << << <<3, 29>>, <<1, 2>> >>, <<1027, <<5>>>> >>, cut |-> n] : n \in {0, 1}}
  \cup {[kind |-> "kx", from |-> "server", kxa |-> "DHE", v |-> << << <<7>>, <<2>>, <<1, 2>> >>, <<1027, <<5>>>> >>, cut |-> n] : n \in {0, 1, 2}}

-----------------------------------------------------------------------------
(* What the readers of the VLESS and Mux formats are given: every request, *)
(* response and frame the writers produce, cut anywhere, and the same with *)
(* one byte changed.                                                       *)

MCFlow == <<120, 118>>
MCNone == <<110>>
Alter == {0, 1, 2, 3, 10, 18, 127, 128, 255}
Target(type, v) == [port |-> 443, addr |-> [type |-> type, v |-> v]]
Targets == {Target(1, <<1, 2>>), Target(3, <<1, 2, 3>>), Target(2, <<97>>), Target(2, <<97, 98>>)}
Req(flow, command, target, seed) == [user |-> <<7, 0>>, flow |-> flow, command |-> command, target |-> target, seed |-> seed]
Requests == {Req(f, c, t, <<>>) : f \in {"none", "extended"}, c \in {1, 2}, t \in Targets}
              \cup {Req("extended", 3, None, s) : s \in {<<>>, <<10>>}}
              \cup {Req("none", 1, Target(2, <<97>>), [i \in 1..130 |-> 5])}
Responses == {Addons(<<>>, <<>>), Addons(FlowName, <<>>), Addons(<<>>, <<18, 10>>), Addons(<<97>>, <<1>>)}
Enc(kind, of) == IF kind = "request" THEN RequestEncode(of) ELSE ResponseEncode(of)
Clean(kind, S) ==
  UNION {LET b == Enc(kind, of) IN
         [kind : {kind}, bytes : {b \o <<0, 255>>}, cut : 0..(Len(b) + 2), of : {of}, edit : {"none"}, payload : {<<0, 255>>}]
           \cup UNION {[kind : {kind}, bytes : {Take(b, n)}, cut : 0..n, of : {of}, edit : {"cut"}, payload : {<<>>}] :
                        n \in {k \in 0..(Len(b) - 1) : k < 20}} : of \in S}
Edited2(b) == {[b EXCEPT ![i] = x] : i \in DOMAIN b, x \in Alter}
EditedOnce(kind, S) == UNION {UNION {[kind : {kind}, bytes : {e}, cut : 0..Len(e), of : {None}, edit : {"set"}, payload : {<<>>}] :
                   e \in Edited2(Enc(kind, of))} : of \in S}
ExtendedRequests == {r \in Requests : r.seed = <<>> /\ r.flow = "extended" /\ r.command # 2}
Src(type, v) == [port |-> 258, type |-> type, v |-> v]
Answer(sid, src, data) == [sid |-> sid, src |-> src, data |-> data]
Answers == {<<Answer(1, Src(1, <<9, 8>>), <<>>), Answer(513, Src(3, <<1, 2, 3>>), <<4>>)>>,
            <<Answer(2, Src(1, <<9, 8>>), [i \in 1..300 |-> 6])>>}
Frames(q) == FlattenSeq([i \in DOMAIN q |-> KeepFrame(q[i].sid, q[i].src, q[i].data)])
NewFrame == <<0, 10, 0, 1, 1, 1, 2, 0, 53, 2, 1, 97, 0, 2, 5, 6>>
EndFrame == <<0, 4, 0, 1, 3, 0>>
MuxStreams == {NewFrame \o EndFrame, EndFrame \o NewFrame, NewFrame \o <<0, 4, 0, 1, 2, 1, 0, 1, 9>>}
MuxInputs == UNION {[kind : {"mux"}, bytes : {Frames(q)}, cut : {k \in 0..Len(Frames(q)) : k < 40}, of : {q}] : q \in Answers}
MuxEdits == UNION {UNION {[kind : {"mux"}, bytes : {e}, cut : 0..Len(e), of : {None}] : e \in Edited2(b) \cup {b}} : b \in MuxStreams}
Ids == [1..2 -> {0, 1, 3, 128, 255}]
AuthInputs == [kind : {"auth"}, users : {<<>>} \cup {<<a>> : a \in Ids} \cup {<<a, <<1, 0>>>> : a \in Ids}, cand : Ids]

-----------------------------------------------------------------------------
(* What the router is asked: host names over three letters and a dot,      *)
(* small address families, databases that fold case, orders of three       *)
(* rules.                                                                  *)

Chars == {"a", "A", "b", "."}
Words(n) == UNION {[1..k -> Chars] : k \in 1..n}
NoRule == [domain |-> <<>>, ip |-> <<>>, port |-> <<>>, geoip |-> <<>>, geosite |-> <<>>, outbound |-> "x"]
NoDb == [ip |-> None, site |-> None]
Cfg(rules) == [rules |-> rules, default |-> "d"]
Host(h) == [host |-> h, ip |-> None, port |-> 2]
Ip(ip) == [host |-> None, ip |-> ip, port |-> 2]
Question(cfg, db, t) == [kind |-> "route", cfg |-> cfg, db |-> db, target |-> t]
DomainInputs == {Question(Cfg(<<[NoRule EXCEPT !.domain = <<[t |-> k, v |-> v]>>]>>), NoDb, Host(h)) :
                   k \in {"full", "suffix", "keyword"}, v \in Words(2), h \in Words(3)}
SiteInputs == {Question(Cfg(<<[NoRule EXCEPT !.geosite = <<c>>]>>),
                        [NoDb EXCEPT !.site = <<[code |-> <<"a">>, domain |-> <<[type |-> k, v |-> v]>>]>>], Host(h)) :
                 c \in {<<"A">>, <<"b">>}, k \in 0..4, v \in {<<"a">>, <<"A", ".", "b">>}, h \in Words(3)}
Nets == {[fam |-> 4, net |-> n, prefix |-> p] : n \in 0..7, p \in 0..3}
          \cup {[fam |-> 6, net |-> n, prefix |-> p] : n \in {0, 5, 21, 31}, p \in 0..5}
Ips == {[fam |-> 4, n |-> n] : n \in 0..7} \cup {[fam |-> 6, n |-> n] : n \in 0..31}
IpInputs == {Question(Cfg(<<[NoRule EXCEPT !.ip = <<c>>]>>), NoDb, Ip(ip)) :
               c \in Nets \cup {[fam |-> 4, net |-> 0, prefix |-> 4]}, ip \in Ips}
GeoIpInputs == {Question(Cfg(<<[NoRule EXCEPT !.geoip = <<c>>]>>),
                         [NoDb EXCEPT !.ip = <<[code |-> <<"a">>, cidr |-> <<n>>], [code |-> <<"A">>, cidr |-> <<m>>]>>], Ip(ip)) :
                  c \in {<<"A">>, <<"b">>}, n \in {x \in Nets : x.net = 5}, m \in {x \in Nets : x.net = 0 /\ x.prefix = 2}, ip \in Ips}
Rules == {[NoRule EXCEPT !.port = <<[lo |-> 1, hi |-> 3]>>], [NoRule EXCEPT !.port = <<[lo |-> 3, hi |-> 1]>>],
          [NoRule EXCEPT !.port = <<[lo |-> 2, hi |-> 2]>>, !.outbound = "y"],
          [NoRule EXCEPT !.geoip = << <<"a">> >>], [NoRule EXCEPT !.geosite = << <<"a">> >>],
          [NoRule EXCEPT !.domain = <<[t |-> "keyword", v |-> <<"a">>]>>, !.outbound = "z"]}
OrderInputs == {Question(Cfg(<<r1, r2, r3>>), NoDb, t) : r1, r2, r3 \in Rules,
                  t \in {Host(<<"a">>), Host(<<"b">>), Ip([fam |-> 4, n |-> 1])}}
MCBits == [f \in {4, 6} |-> IF f = 4 THEN 3 ELSE 5]

-----------------------------------------------------------------------------
(* Links whose names, labels and paths contain the delimiters of a link.   *)

Odd == {97, 37, 43, 38, 35, 61, 63, 64, 58, 47, 50, 70, 32, 208}
Texts(n) == UNION {[1..k -> Odd] : k \in 0..n}
Addrs == {T("edge") \o <<58>> \o T("443"), <<91, 58, 58, 49, 93, 58>> \o T("8443")}
LinkArgs(addr, sni, label, flow) ==
  [uuid |-> T("uuid1"), addr |-> addr, sni |-> sni, fp |-> T("chrome"), flow |-> flow, label |-> label,
   pbk |-> label, sid |-> T("key"), host |-> label, path |-> sni, mode |-> T("stream-up")]
LinkQuestion(f, ad, s, l, fl) == [kind |-> "link", form |-> f, args |-> LinkArgs(ad, s, l, fl)]
LinkInputs ==
  {q \in {LinkQuestion(f, ad, s, l, T("xtls-rprx-vision")) : f \in {"tls", "reality", "xhttp"}, ad \in Addrs,
            s \in Texts(2) \cup {<<37, 50, 70>>}, l \in {<<>>, <<35>>, <<37>>}} :
     q.form = "xhttp" => q.args.label # <<>>}
    \cup {LinkQuestion("tls", ad, s, l, fl) : ad \in Addrs, s \in Texts(1), l \in Texts(1), fl \in {<<>>, T("none")}}

-----------------------------------------------------------------------------
(* The deployments: every transport and mode of config-gen, with the       *)
(* operator's part done or left undone, and the subscription requests.     *)

EdgeAt == T("edge") \o <<58>> \o T("443")
GenArgs(t, m, path, host, addr, dest, cert) ==
  [transport |-> t, mode |-> m, path |-> path, host |-> host, server_addr |-> addr, server_name |-> T("cover"),
   listen |-> "ip", dest |-> dest, cert |-> cert, key |-> "pem"]
DeviceKey(form, len) == [form |-> form, len |-> len, key |-> "k1"]
Device(pub, sid, fp) == [uuid |-> T("uuid2"), pub |-> pub, sid |-> sid, fp |-> fp]
Devices == {Device(DeviceKey(f, n), s, fp) : f \in {"hex", "standard padded", "junk"}, n \in {32, 48},
              s \in {Minted.sid, <<1>>, <<16>>, <<>>}, fp \in {"randomized", "chrome"}}
Importing(ext, noRu, fetched) == [socks |-> "ip", ext |-> ext, noRu |-> noRu, fetched |-> fetched]
Importings == {Importing(e, n, f) : e \in {"json", "toml", "conf"}, n, f \in BOOLEAN}
DeployQuestion(how, args, im, dev, stored) ==
  [kind |-> "deploy", how |-> how, args |-> args, im |-> im, dev |-> dev, stored |-> stored]
GenArgsOf(ts) == {GenArgs(t, m, p, h, a, d, c) : t \in ts, m \in {"stream-one", "stream-up", "packet-up"},
                    p \in {None, <<47, 120>>}, h \in {None, T("edge")}, a \in {EdgeAt, <<91, 58, 58, 49, 93, 58>> \o T("8443")},
                    d \in {"ip", "name"}, c \in {"pem", None}}
ADevice == Device(DeviceKey("url", 32), Minted.sid, "randomized")
DeployInputs ==
  {DeployQuestion("pair", a, im, ADevice, st) : a \in GenArgsOf({"veil", "tls", "quic"}), im \in Importings, st \in {None, {"u1", "u2"}}}
    \cup {DeployQuestion("import", a, im, ADevice, None) : a \in GenArgsOf({"raw", "xhttp"}), im \in Importings}
    \cup {DeployQuestion("device", a, Importing("json", TRUE, TRUE), d, st) : a \in GenArgsOf({"veil"}), d \in Devices, st \in {{"u1"}, {"u1", "u2"}}}
AnInbound(t, m, h) == [Inbound(GenArgs("xhttp", m, None, None, EdgeAt, "ip", "pem"), t) EXCEPT
                         !.mode = m, !.host = h, !.path = <<47, 120>>]
Subscription(a, h, p, m) == [listen |-> "ip", addr |-> a, sni |-> T("cover"), host |-> h, path |-> p, mode |-> m]
SubRequest(sub, u, f) == [sub |-> sub, uuid |-> u, format |-> f]
SubInputs == {[kind |-> "subscribe", inbound |-> AnInbound(t, m, h), sub |-> Subscription(a, sh, sp, sm), stored |-> {"u1"},
               req |-> SubRequest(k, u, f)] : t \in {"xhttp", "tls", "reality"}, m \in {"stream-one", "stream-up", "packet-up"},
                 h \in {None, T("edge")}, a \in {None, EdgeAt}, sh \in {None, T("cover")}, sp \in {None, <<47>>},
                 sm \in {None, "packet-up"}, k \in BOOLEAN, u \in {T("uuid1"), T("UUID1"), T("uuid2"), T("key"), <<>>},
                 f \in {None, "clash", "links", "happ", "json"}}

-----------------------------------------------------------------------------
Init ==
  /\ output = None
  /\ \/ input \in MCKxInputs \/ input \in TlsInputs \/ input \in MCEchInputs
     \/ input \in Clean("request", Requests) \/ input \in Clean("response", Responses)
     \/ input \in EditedOnce("request", ExtendedRequests) \/ input \in EditedOnce("response", Responses)
     \/ input \in MuxInputs \/ input \in MuxEdits \/ input \in AuthInputs
     \/ input \in DomainInputs \/ input \in SiteInputs \/ input \in IpInputs
     \/ input \in GeoIpInputs \/ input \in OrderInputs
     \/ input \in LinkInputs \/ input \in DeployInputs \/ input \in SubInputs

Next == \/ ReadMessage \/ ReadKeyExchange \/ MakeInner
        \/ ReadHeader \/ ReadMux \/ CheckUser
        \/ Decide \/ ShareLink \/ Deploy \/ Subscribe

Spec == Init /\ [][Next]_<<input, output>>
=============================================================================
