-------------------------------- MODULE Links --------------------------------
(***************************************************************************)
(* Share links: written by donut-tools and donut-config::subgen, read by   *)
(* donut-client::link.  A text is a sequence of symbols.  A number below   *)
(* 256 is a byte; from 256 on it is a word of WordList, which no split     *)
(* looks inside (the scheme and literals without reserved characters).     *)
(***************************************************************************)
EXTENDS Codec

WordList == <<"vless://", "type", "security", "encryption", "sni", "fp", "alpn", "flow", "host",
              "path", "mode", "pbk", "sid", "tcp", "xhttp", "tls", "reality", "none", "h2", "http",
              "1.1", "xtls-rprx-vision", "chrome", "stream-one", "stream-up", "packet-up",
              "443", "8443", "uuid1", "UUID1", "uuid2", "edge", "cover", "key", "donut-", "secret", "localhost">>
T(w) == <<255 + CHOOSE i \in DOMAIN WordList : WordList[i] = w>>

-----------------------------------------------------------------------------
(* Percent encoding *)

Unreserved(b) == b >= 256 \/ b \in (65..90) \cup (97..122) \cup (48..57) \cup {45, 46, 95, 126}
HexDigit(n) == IF n < 10 THEN 48 + n ELSE 55 + n
HexValue(b) == CASE b \in 48..57 -> b - 48 [] b \in 65..70 -> b - 55 [] b \in 97..102 -> b - 87 [] OTHER -> -1

Pct(s) == FlattenSeq([i \in DOMAIN s |-> IF Unreserved(s[i]) THEN <<s[i]>>
                                         ELSE <<37, HexDigit(s[i] \div 16), HexDigit(s[i] % 16)>>])

\* from_str_radix of two characters: two digits, or a sign and one
HexByte(a, b) == IF HexValue(b) < 0 THEN -1
                 ELSE IF a = 43 THEN HexValue(b)
                 ELSE IF HexValue(a) < 0 THEN -1 ELSE 16 * HexValue(a) + HexValue(b)

\* pct_decode: an escape that is cut or has no number stays as it is.  (One that is cut inside a
\* character, where the slice panics, is not among the texts: Pct leaves no such character.)
PctDecode(s) ==
  LET byte(i) == IF s[i] = 37 /\ i + 2 <= Len(s) THEN HexByte(s[i + 1], s[i + 2]) ELSE -1
      from[i \in 1..(Len(s) + 3)] ==
        IF i > Len(s) THEN <<>>
        ELSE IF byte(i) >= 0 THEN <<byte(i)>> \o from[i + 3]
        ELSE <<s[i]>> \o from[i + 1]
  IN  from[1]

-----------------------------------------------------------------------------
(* Splitting: <<left, right>> at the first or the last of a symbol, or None *)

SplitOnce(s, c) == LET at == {i \in DOMAIN s : s[i] = c} IN
  IF at = {} THEN None ELSE <<SubSeq(s, 1, Min(at) - 1), SubSeq(s, Min(at) + 1, Len(s))>>
RSplitOnce(s, c) == LET at == {i \in DOMAIN s : s[i] = c} IN
  IF at = {} THEN None ELSE <<SubSeq(s, 1, Max(at) - 1), SubSeq(s, Max(at) + 1, Len(s))>>
\* the parts, the whole going to the left when there is no such symbol
Split(s, c) == IF SplitOnce(s, c) = None THEN <<s, <<>>>> ELSE SplitOnce(s, c)

\* parse::<u16>
ParsePort(t) == IF t \in {T("443"), T("8443")} THEN t ELSE None

\* link::split_host_port: brackets of an IPv6 literal come off
HostPort(s) ==
  LET parts == IF s # <<>> /\ Head(s) = 91
               THEN LET h == SplitOnce(Tail(s), 93) IN
                    IF h = None \/ h[2] = <<>> \/ Head(h[2]) # 58 THEN None
                    ELSE <<h[1], Tail(h[2])>>
               ELSE RSplitOnce(s, 58)
  IN  IF parts = None THEN None ELSE IF ParsePort(parts[2]) = None THEN None ELSE parts

\* subgen::split_host_port: they stay, and a port that is none is the default
HostPortOr(s, default) ==
  LET parts == RSplitOnce(s, 58) IN
  IF parts = None THEN <<s, default>>
  ELSE <<parts[1], IF ParsePort(parts[2]) = None THEN default ELSE parts[2]>>

HostOf(s) == IF RSplitOnce(s, 58) = None THEN s ELSE RSplitOnce(s, 58)[1]

-----------------------------------------------------------------------------
(* Writing a link *)

\* the parameters, joined, and the label
LinkText(uuid, addr, params, label) ==
  LET pair(i) == (IF i = 1 THEN <<>> ELSE <<38>>) \o T(params[i][1]) \o <<61>> \o Pct(params[i][2])
  IN  T("vless://") \o uuid \o <<64>> \o addr \o <<63>>
        \o FlattenSeq([i \in DOMAIN params |-> pair(i)]) \o <<35>> \o Pct(label)

VlessLink(a) ==
  LinkText(a.uuid, a.addr,
           << <<"type", T("tcp")>>, <<"security", T("tls")>>, <<"sni", a.sni>>, <<"fp", a.fp>>,
              <<"alpn", T("http") \o <<47>> \o T("1.1")>> >>
             \o IF a.flow \in {<<>>, T("none")} THEN <<>> ELSE << <<"flow", a.flow>> >>,
           a.label)

VlessRealityLink(a) ==
  LinkText(a.uuid, a.addr,
           << <<"type", T("tcp")>>, <<"security", T("reality")>>, <<"encryption", T("none")>>,
              <<"pbk", a.pbk>>, <<"sid", a.sid>>, <<"sni", a.sni>>, <<"fp", a.fp>>,
              <<"flow", T("xtls-rprx-vision")>> >>, a.label)

VlessXhttpLink(a) ==
  LinkText(a.uuid, a.addr,
           << <<"type", T("xhttp")>>, <<"security", T("tls")>>, <<"encryption", T("none")>>,
              <<"sni", a.sni>>, <<"fp", a.fp>>, <<"alpn", T("h2")>>, <<"host", a.host>>,
              <<"path", a.path>>, <<"mode", a.mode>> >>, a.label)

-----------------------------------------------------------------------------
(* Reading one *)

\* where the non-empty pairs of a query begin, and the pair that begins there: its key and value
Starts(q) == {i \in DOMAIN q : q[i] # 38 /\ (i = 1 \/ q[i - 1] = 38)}
PairAt(q, i) ==
  Split(SubSeq(q, i, Min({j \in i..Len(q) : j = Len(q) \/ q[j + 1] = 38})), 61)

\* the value of a parameter: the last one counts
Param(q, key, default) ==
  LET named == {i \in Starts(q) : PairAt(q, i)[1] = T(key)} IN
  IF named = {} THEN default ELSE PctDecode(PairAt(q, Max(named))[2])

Blank(b) == b \in {9, 10, 13, 32}
Trim(s) == LET text == {i \in DOMAIN s : ~Blank(s[i])}
           IN  IF text = {} THEN <<>> ELSE SubSeq(s, Min(text), Max(text))

\* link::parse, or None
ParseLink(text) ==
  LET s == Trim(text)
      body == Split(Tail(s), 35)
      rest == Split(body[1], 63)
      who == SplitOnce(rest[1], 64)
      q == rest[2]
  IN  IF s = <<>> \/ <<Head(s)>> # T("vless://") THEN None
      ELSE IF who = None THEN None
      ELSE IF who[1] = <<>> \/ HostPort(who[2]) = None THEN None
      ELSE [uuid |-> who[1], host |-> HostPort(who[2])[1], port |-> HostPort(who[2])[2],
            security |-> Param(q, "security", <<>>), sni |-> Param(q, "sni", <<>>),
            fp |-> Param(q, "fp", <<>>), flow |-> Param(q, "flow", <<>>),
            network |-> Param(q, "type", T("tcp")), label |-> PctDecode(body[2])]

\* VlessLink::server_name
LinkServerName(l) == IF l.sni = <<>> THEN l.host ELSE l.sni

\* the commands link and reality-link: without a label it is the host
Labelled(a) == [a EXCEPT !.label = IF @ = <<>> THEN HostOf(a.addr) ELSE @]

\* which of the link writers is asked; that of xHTTP is only called with a label
Written(i) == CASE i.form = "tls" -> VlessLink(Labelled(i.args))
                [] i.form = "reality" -> VlessRealityLink(Labelled(i.args))
                [] i.form = "xhttp" -> VlessXhttpLink(i.args)

\* an operator's tool writes a link, and the client reads it
ShareLink ==
  /\ pending("link") /\ UNCHANGED input
  /\ output' = [text |-> Written(input), link |-> ParseLink(Written(input))]

-----------------------------------------------------------------------------
\* the query of a link, for a reader that knows the parameters of xHTTP
QueryOfLink(text) == Split(Split(text, 35)[1], 63)[2]

\* A link says to its reader what it was made to say, whatever characters its names, path and label
\* hold: the user, the address with the brackets of an IPv6 literal taken off, the name to present,
\* the flow and the label, and for xHTTP the host, the path and the mode
\* (vless_link, vless_reality_link, vless_xhttp_link against link::parse).
LinkReadsBack ==
  Has("link") =>
    LET a == input.args l == output.link q == QueryOfLink(output.text) IN
    /\ l # None
    /\ l.uuid = a.uuid /\ l.sni = a.sni /\ l.fp = a.fp /\ l.label = Labelled(a).label
    /\ a.addr \in {l.host \o <<58>> \o l.port, <<91>> \o l.host \o <<93, 58>> \o l.port}
    /\ l.flow = CASE input.form = "tls" -> (IF a.flow = T("none") THEN <<>> ELSE a.flow)
                  [] input.form = "reality" -> T("xtls-rprx-vision")
                  [] OTHER -> <<>>
    /\ input.form = "xhttp" => /\ Param(q, "host", <<>>) = a.host /\ Param(q, "path", <<>>) = a.path
                               /\ Param(q, "mode", <<>>) = a.mode /\ l.network = T("xhttp")
    /\ input.form = "reality" => Param(q, "pbk", <<>>) = a.pbk /\ Param(q, "sid", <<>>) = a.sid
=============================================================================
