------------------------------- MODULE Routing -------------------------------
(***************************************************************************)
(* The routing engine, donut-routing with the lookups of donut-geo: a      *)
(* configuration is built into a router, and the router names the outbound *)
(* of a target.  A host name is a sequence of letters and dots, an address *)
(* a number of its family's width.                                         *)
(***************************************************************************)
EXTENDS Codec
B == INSTANCE Bitwise

CONSTANTS
  Wide,   \* 128
  Bits,   \* the width of a family: 32 and 128
  ByteMod \* 256

-----------------------------------------------------------------------------
(* Names *)

Lower(s) == [i \in DOMAIN s |-> IF s[i] = "A" THEN "a" ELSE s[i]]
HasInfix(s, t) == \E i \in 0..(Len(s) - Len(t)) : SubSeq(s, i + 1, i + Len(t)) = t
EndsWith(s, t) == Len(t) <= Len(s) /\ SubSeq(s, Len(s) - Len(t) + 1, Len(s)) = t

\* trim_start_matches('.')
TrimDots(s) == LET k == Min({i \in 1..(Len(s) + 1) : i = Len(s) + 1 \/ s[i] # "."})
               IN  SubSeq(s, k, Len(s))

Suffix(d, h) == h = d \/ EndsWith(h, <<".">> \o d)

\* DomainMatch::matches
DomainMatches(m, host) ==
  LET h == Lower(host) IN
  CASE m.t = "full" -> h = Lower(m.v)
    [] m.t = "suffix" -> Suffix(Lower(TrimDots(m.v)), h)
    [] m.t = "keyword" -> HasInfix(h, Lower(m.v))

\* DomainRule::from_proto: a type it does not know is a keyword; and DomainRule::matches, where an
\* expression never matches
GeoDomainMatches(d, host) ==
  LET h == Lower(host) v == Lower(d.v) IN
  CASE d.type = 3 -> h = v
    [] d.type = 2 -> Suffix(v, h)
    [] d.type = 1 -> FALSE
    [] OTHER -> HasInfix(h, v)

-----------------------------------------------------------------------------
(* Addresses *)

\* Faulty variant: the mask of a narrow family is not shifted down
MaskHigh(prefix, bits) == ((2^Wide - 1) * 2^(Wide - prefix)) % 2^Wide

\* the mask of masked_eq: shifted up in the wide type, then down to the family's bits
Mask(prefix, bits) == (((2^Wide - 1) * 2^(Wide - prefix)) % 2^Wide) \div 2^(Wide - bits)

MaskedEq(net, ip, prefix, bits) ==
  \/ prefix = 0
  \/ prefix <= bits /\ B!&(net, Mask(prefix, bits)) = B!&(ip, Mask(prefix, bits))

\* Cidr::contains and GeoCidr::contains
CidrContains(c, ip) == c.fam = ip.fam /\ MaskedEq(c.net, ip.n, c.prefix, Bits[c.fam])

\* Cidr::from_str, and GeoCidr::from_proto, which keeps the low byte of the prefix
ParsesCidr(c) == c.prefix <= Bits[c.fam]
GeoCidr(c) == [c EXCEPT !.prefix = @ % ByteMod]

\* GeoIpDb::parse and contains, GeoSiteDb likewise: entries of one code are put together, and the
\* case of a code does not matter
GeoIpContains(db, code, ip) ==
  \E e \in ToSet(db) : Lower(e.code) = Lower(code) /\ \E c \in ToSet(e.cidr) : CidrContains(GeoCidr(c), ip)
GeoSiteMatches(db, code, host) ==
  \E e \in ToSet(db) : Lower(e.code) = Lower(code) /\ \E d \in ToSet(e.domain) : GeoDomainMatches(d, host)

-----------------------------------------------------------------------------
(* Rules *)

\* Rule::matches over Condition::matches: any condition will do, and one on names does not hold of
\* an address, nor the other way round
RuleMatches(r, db, target) ==
  \/ \E p \in ToSet(r.port) : target.port >= p.lo /\ target.port <= p.hi
  \/ /\ target.host # None
     /\ \/ \E m \in ToSet(r.domain) : DomainMatches(m, target.host)
        \/ \E code \in ToSet(r.geosite) : GeoSiteMatches(db.site, code, target.host)
  \/ /\ target.ip # None
     /\ \/ \E c \in ToSet(r.ip) : CidrContains(c, target.ip)
        \/ \E code \in ToSet(r.geoip) : GeoIpContains(db.ip, code, target.ip)

\* parse_port_spec
ParsesPorts(p) == p.lo <= p.hi

\* what build_with_geo asks of a rule
Builds(r, db) ==
  /\ \A c \in ToSet(r.ip) : ParsesCidr(c)
  /\ \A p \in ToSet(r.port) : ParsesPorts(p)
  /\ r.geoip # <<>> => db.ip # None
  /\ r.geosite # <<>> => db.site # None

\* Router::route
Route(cfg, db, target) ==
  LET at == {i \in DOMAIN cfg.rules : RuleMatches(cfg.rules[i], db, target)}
  IN  IF at = {} THEN cfg.default ELSE cfg.rules[Min(at)].outbound

\* build_with_geo fails as a whole, or the router answers for the target
Decide ==
  /\ pending("route") /\ UNCHANGED input
  /\ output' = IF \A r \in ToSet(input.cfg.rules) : Builds(r, input.db)
               THEN Route(input.cfg, input.db, input.target) ELSE "error"

-----------------------------------------------------------------------------
(* The same, said without the code: labels of a name, bits of an address. *)

\* the labels of a name
RECURSIVE Labels(_)
Labels(h) == LET dots == {i \in DOMAIN h : h[i] = "."} IN
             IF dots = {} THEN <<h>>
             ELSE <<SubSeq(h, 1, Min(dots) - 1)>> \o Labels(SubSeq(h, Min(dots) + 1, Len(h)))

SameNet(c, ip) ==
  /\ c.fam = ip.fam
  /\ \A k \in 1..c.prefix : LET w == 2^(Bits[c.fam] - k) IN (c.net \div w) % 2 = (ip.n \div w) % 2

Named(type, v, h) ==
  CASE type = "full" -> h = v
    [] type = "suffix" -> IsSuffix(Labels(v), Labels(h))
    [] type = "keyword" -> \E a, b \in 1..(Len(h) + 1) : a <= b /\ SubSeq(h, a, b - 1) = v
    [] OTHER -> FALSE
GeoTypes == <<"regex", "suffix", "full">>
Bare(m) == IF m.t = "suffix" THEN TrimDots(m.v) ELSE m.v

Lists(r, db, t) ==
  \/ \E p \in ToSet(r.port) : t.port \in p.lo..p.hi
  \/ t.host # None /\ \E m \in ToSet(r.domain) : Named(m.t, Lower(Bare(m)), Lower(t.host))
  \/ t.ip # None /\ \E c \in ToSet(r.ip) : SameNet(c, t.ip)
  \/ r.geoip # <<>> /\ t.ip # None /\ \E g \in ToSet(r.geoip), e \in ToSet(db.ip) :
       Lower(g) = Lower(e.code) /\ \E c \in ToSet(e.cidr) : SameNet(c, t.ip)
  \/ r.geosite # <<>> /\ t.host # None /\ \E g \in ToSet(r.geosite), e \in ToSet(db.site) :
       /\ Lower(g) = Lower(e.code)
       /\ \E d \in ToSet(e.domain) :
            Named(IF d.type \in DOMAIN GeoTypes THEN GeoTypes[d.type] ELSE "keyword", Lower(d.v), Lower(t.host))

\* A target goes to the outbound of the first rule that lists it, and to the default when none does:
\* a suffix lists a domain and its subdomains, label by label, and a prefix the addresses whose
\* leading bits are its own (Router::route, DomainMatch::matches, masked_eq).
FirstListedWins ==
  Has("route") /\ output # "error" =>
    LET rules == input.cfg.rules
        lists(i) == Lists(rules[i], input.db, input.target)
    IN  \/ \E i \in DOMAIN rules : /\ lists(i) /\ output = rules[i].outbound
                                   /\ \A j \in 1..(i - 1) : ~lists(j)
        \/ output = input.cfg.default /\ \A i \in DOMAIN rules : ~lists(i)

\* No rule is ever dropped: a router that was built evaluates every condition of its configuration,
\* so none names a database that is not there, a range without ports or a prefix beyond its family
\* (build_with_geo).
NoRuleDropped ==
  Has("route") /\ output # "error" =>
    \A r \in ToSet(input.cfg.rules) :
      /\ \A c \in ToSet(r.ip) : c.prefix \in 0..Bits[c.fam]
      /\ \A p \in ToSet(r.port) : p.lo..p.hi # {}
      /\ (r.geoip # <<>> => input.db.ip # None) /\ (r.geosite # <<>> => input.db.site # None)

\* A router that was built does what its configuration says, all of it.
RoutesAsConfigured == FirstListedWins /\ NoRuleDropped
=============================================================================
