------------------------------ MODULE TlsCodec ------------------------------
(***************************************************************************)
(* How donut-tls reads and writes a message: the Codec trait with its      *)
(* Reader, the integers, length-prefixed payloads, lists and extension     *)
(* blocks of msgs/codec.rs, msgs/base.rs and msgs/macros.rs.  The code of  *)
(* a type is a format, a record that says which of these it is made of;    *)
(* Read and Write are what its `read` and `encode` do.                     *)
(*                                                                         *)
(* A value of an integer or an enum is a number, of a payload a sequence   *)
(* of bytes, of a list or struct the sequence of its parts, of an          *)
(* extension block the function from extension types to values.            *)
(***************************************************************************)
EXTENDS Codec

RECURSIVE Read(_, _), ReadItems(_, _, _), ReadFields(_, _, _), ReadExts(_, _, _), ReadSni(_, _),
          Write(_, _)

Good(v, rest) == [ok |-> TRUE, v |-> v, rest |-> rest]
Bad(why) == [ok |-> FALSE, v |-> why, rest |-> <<>>]

\* Reader::take and what is left after it
Take(b, n) == SubSeq(b, 1, n)
After(b, n) == SubSeq(b, n + 1, Len(b))

-----------------------------------------------------------------------------
(* Formats *)

\* u8, u16, u24: n bytes, the first one the highest; an enum is its number, known or not
Uint(n) == [t |-> "uint", n |-> n]
\* n bytes kept as they are; a u32 is kept as its four bytes
Fixed(n) == [t |-> "fixed", n |-> n]
\* Payload: whatever is left;  ( ): nothing may be left
Rest == [t |-> "rest"]
Empty == [t |-> "empty"]
\* PayloadU8, PayloadU16, PayloadU24 and SessionId: n bytes of length, with bounds on it
Opaque(n, min, max) == [t |-> "opaque", n |-> n, min |-> min, max |-> max]
\* Vec<T> with T::SIZE_LEN
Vec(n, nonzero, max, f) == [t |-> "vec", n |-> n, nonzero |-> nonzero, max |-> max, f |-> f]
\* the fields of a struct, one after the other
Struct(fs) == [t |-> "struct", fs |-> fs]
\* a number that has to be this one
Const(n, v, err) == [t |-> "const", n |-> n, v |-> v, err |-> err]
\* a tag of n bytes chooses the format, of the cases or the other one.  With len > 0 the chosen part
\* is length-prefixed, and what it leaves of its part is skipped
Case(n, len, cases, other) == [t |-> "case", n |-> n, len |-> len, cases |-> cases, other |-> other]
Refuse(err) == [t |-> "refuse", err |-> err]
\* expect_empty after the format: it has to use up all of its part
Strict(f) == [t |-> "strict", f |-> f]
\* a length and a part that has to be used up
Sub(n, f) == [t |-> "sub", n |-> n, f |-> f]
\* a list of numbers of which the known ones are kept as a set, and written in this order
Flags(n, w, known) == [t |-> "flags", n |-> n, w |-> w, known |-> known]
\* a trailing part that may be missing, and is always written
Optional(f, default) == [t |-> "optional", f |-> f, default |-> default]
\* extension_struct!: its types with their formats, what becomes of an unknown type ("check" or an
\* error), and what the struct holds besides the values: nothing, the "unknown" types, the "order" of
\* the block, or the "seed" of the order it is written in
Exts(table, unknown, keep) == [t |-> "exts", table |-> table, unknown |-> unknown, keep |-> keep]
\* ServerNamePayload and the DnsName in an ECH configuration
SniList == [t |-> "sni"]
Dns == [t |-> "dns"]

-----------------------------------------------------------------------------
(* Reading *)

RECURSIVE Num(_)
Num(b) == IF b = <<>> THEN 0 ELSE 256 * Num(Front(b)) + Last(b)

ReadUint(n, b) ==
  IF Len(b) < n THEN Bad("MissingData") ELSE Good(Num(Take(b, n)), After(b, n))

\* Reader::sub after a length of n bytes: v is the part, rest what follows it
ReadSub(n, b) ==
  LET len == ReadUint(n, b) IN
  IF ~len.ok THEN len
  ELSE IF Len(len.rest) < len.v THEN Bad("MessageTooShort")
  ELSE Good(Take(len.rest, len.v), After(len.rest, len.v))

\* read_once
ReadOnce(f, typ, m, b) == IF typ \in DOMAIN m THEN Bad("DuplicateExtension") ELSE Read(f, b)

TypesOf(table) == [i \in DOMAIN table |-> table[i][1]]
FormatOf(table, typ) == LET i == CHOOSE j \in DOMAIN table : table[j][1] = typ IN table[i][2]

\* expect_empty
Whole(r) == IF r.ok /\ r.rest # <<>> THEN Bad("TrailingData") ELSE r

\* TlsListIter
ReadItems(f, b, acc) ==
  IF b = <<>> THEN Good(acc, b)
  ELSE LET r == Read(f, b) IN IF r.ok THEN ReadItems(f, r.rest, Append(acc, r.v)) ELSE r

ReadFields(fs, b, acc) ==
  IF fs = <<>> THEN Good(acc, b)
  ELSE LET r == Read(Head(fs), b) IN IF r.ok THEN ReadFields(Tail(fs), r.rest, Append(acc, r.v)) ELSE r

\* DuplicateExtensionChecker::check
SeenBefore(typ, unknown) == typ \in unknown

PreSharedKey == 41

\* the check ClientExtensions::read adds
Misplaced(f, typ, rest) == f.keep = "seed" /\ typ = PreSharedKey /\ rest # <<>>

\* read_one, in the loop over the block: acc holds the values, the unknown types and the order
ReadExts(f, b, acc) ==
  IF b = <<>> THEN Good(acc, b)
  ELSE
  LET typ == ReadUint(2, b)
      body == ReadSub(2, typ.rest)
      known == typ.v \in Range(TypesOf(f.table))
      r == Whole(ReadOnce(FormatOf(f.table, typ.v), typ.v, acc.m, body.v))
      next == [m |-> IF known THEN acc.m @@ (typ.v :> r.v) ELSE acc.m,
               unknown |-> IF known THEN acc.unknown ELSE acc.unknown \cup {typ.v},
               order |-> Append(acc.order, typ.v)]
  IN  IF ~typ.ok THEN typ
      ELSE IF ~body.ok THEN body
      ELSE IF known /\ ~r.ok THEN r
      ELSE IF ~known /\ f.unknown # "check" THEN Bad(f.unknown)
      ELSE IF ~known /\ SeenBefore(typ.v, acc.unknown) THEN Bad("DuplicateExtension")
      ELSE IF Misplaced(f, typ.v, body.rest) THEN Bad("PreSharedKeyIsNotFinalExtension")
      ELSE ReadExts(f, body.rest, next)

OrderKept(acc) == acc.order

Kept(keep, acc) == CASE keep = "none" -> [m |-> acc.m]
                     [] keep = "seed" -> [m |-> acc.m, seed |-> <<>>, contiguous |-> <<>>]
                     [] keep = "unknown" -> [m |-> acc.m, unknown |-> acc.unknown]
                     [] keep = "order" -> [m |-> acc.m, order |-> OrderKept(acc)]
NoExts(keep) == Kept(keep, [m |-> <<>>, unknown |-> {}, order |-> <<>>])

\* what the library for names says of a host: letters and dots, digits and dots, or neither
HostKind(h) == IF Range(h) \subseteq (97..122) \cup {46} THEN "name"
               ELSE IF Range(h) \subseteq (48..57) \cup {46} THEN "ip" ELSE "invalid"

\* ServerNamePayload::read: a second host name is an error, another type of name ends the list
ReadSni(b, found) ==
  IF b = <<>> \/ Head(b) # 0 THEN Good(found, <<>>)
  ELSE LET host == Read(Opaque(2, 1, 65535), Tail(b)) IN
       IF ~host.ok THEN host
       ELSE IF found # <<>> THEN Bad("InvalidServerName") ELSE ReadSni(host.rest, <<host.v>>)

\* what is kept of the host name found, if one is
SniValue(found) ==
  IF found = <<>> THEN [kind |-> "invalid", name |-> <<>>]
  ELSE LET kind == HostKind(found[1])
       IN  [kind |-> kind, name |-> IF kind = "name" THEN found[1] ELSE <<>>]

Read(f, b) ==
  CASE f.t = "uint" -> ReadUint(f.n, b)
    [] f.t = "fixed" -> IF Len(b) < f.n THEN Bad("MissingData") ELSE Good(Take(b, f.n), After(b, f.n))
    [] f.t = "rest" -> Good(b, <<>>)
    [] f.t = "empty" -> Whole(Good(<<>>, b))
    [] f.t = "opaque" ->
         LET len == ReadUint(f.n, b) IN
         IF len.ok /\ len.v < f.min THEN Bad("IllegalEmptyValue")
         ELSE IF len.ok /\ len.v > f.max THEN Bad("TrailingData") ELSE ReadSub(f.n, b)
    [] f.t = "vec" ->
         LET len == ReadUint(f.n, b)
             part == ReadSub(f.n, b)
             r == ReadItems(f.f, part.v, <<>>)
         IN  IF len.ok /\ len.v = 0 /\ f.nonzero THEN Bad("IllegalEmptyList")
             ELSE IF len.ok /\ len.v > f.max THEN Bad("CertificatePayloadTooLarge")
             ELSE IF part.ok /\ r.ok THEN Good(r.v, part.rest) ELSE IF part.ok THEN r ELSE part
    [] f.t = "struct" -> ReadFields(f.fs, b, <<>>)
    [] f.t = "const" -> LET r == ReadUint(f.n, b) IN IF r.ok /\ r.v # f.v THEN Bad(f.err) ELSE r
    [] f.t = "case" ->
         LET tag == ReadUint(f.n, b)
             part == IF f.len > 0 THEN ReadSub(f.len, tag.rest) ELSE Good(tag.rest, <<>>)
             r == IF tag.v \in Range(TypesOf(f.cases)) THEN Read(FormatOf(f.cases, tag.v), part.v)
                  ELSE Read(f.other, part.v)
         IN  IF ~tag.ok THEN tag ELSE IF ~part.ok THEN part ELSE IF ~r.ok THEN r
             ELSE Good([tag |-> tag.v, v |-> r.v], IF f.len > 0 THEN part.rest ELSE r.rest)
    [] f.t = "sub" ->
         LET part == ReadSub(f.n, b)
             r == Whole(Read(f.f, part.v))
         IN  IF ~part.ok THEN part ELSE IF part.v = <<>> THEN Bad("IllegalEmptyList")
             ELSE IF r.ok THEN Good(r.v, part.rest) ELSE r
    [] f.t = "refuse" -> Bad(f.err)
    [] f.t = "strict" -> Whole(Read(f.f, b))
    [] f.t = "flags" ->
         LET r == Read(Vec(f.n, TRUE, 255, Uint(f.w)), b)
         IN  IF r.ok THEN Good(Range(r.v) \cap Range(f.known), r.rest) ELSE r
    [] f.t = "optional" -> IF b = <<>> THEN Good(f.default, b) ELSE Read(f.f, b)
    [] f.t = "exts" ->
         LET part == ReadSub(2, b)
             r == ReadExts(f, part.v, [m |-> <<>>, unknown |-> {}, order |-> <<>>])
         IN  IF f.keep = "seed" /\ b = <<>> THEN Good(NoExts("seed"), b)
             ELSE IF ~part.ok THEN part ELSE IF ~r.ok THEN r ELSE Good(Kept(f.keep, r.v), part.rest)
    [] f.t = "sni" ->
         LET part == ReadSub(2, b)
             r == ReadSni(part.v, <<>>)
         IN  IF ~part.ok THEN part ELSE IF part.v = <<>> THEN Bad("IllegalEmptyList")
             ELSE IF r.ok THEN Good(SniValue(r.v), part.rest) ELSE r
    [] f.t = "dns" ->
         LET r == ReadSub(1, b)
         IN  IF r.ok /\ (r.v = <<>> \/ HostKind(r.v) # "name") THEN Bad("InvalidServerName") ELSE r

-----------------------------------------------------------------------------
(* Writing *)

Be(n, v) == [i \in 1..n |-> (v \div 256^(n - i)) % 256]

\* LengthPrefixedBuffer: the length goes before what was written, cut to n bytes
Prefixed(n, b) == Be(n, Len(b)) \o b

Joined(parts) == FlattenSeq(parts)

\* the extensions of a ClientHello whose place the seed chooses
Placed == {PreSharedKey, 65037, 64768}
RandomOrder(v) ==
  SelectSeq(v.seed, LAMBDA e : e \in DOMAIN v.m \ (Placed \cup Range(v.contiguous)))

Present(v, e) == IF e \in DOMAIN v.m THEN <<e>> ELSE <<>>

\* used_extensions_in_encoding_order
UsedInOrder(v) ==
  RandomOrder(v) \o v.contiguous \o Present(v, 64768) \o Present(v, 65037) \o Present(v, PreSharedKey)

\* encode: in the order of a ClientHello, the order the block has kept, or the order of the declaration
OrderOf(f, v) == IF f.keep = "seed" THEN UsedInOrder(v)
                 ELSE IF f.keep = "order" THEN v.order ELSE TypesOf(f.table)

\* encode_one
WriteOne(f, v, e) ==
  IF e \in DOMAIN v.m THEN Be(2, e) \o Prefixed(2, Write(FormatOf(f.table, e), v.m[e])) ELSE <<>>

Write(f, v) ==
  CASE f.t = "uint" -> Be(f.n, v)
    [] f.t \in {"fixed", "rest", "empty"} -> v
    [] f.t = "opaque" -> Prefixed(f.n, v)
    [] f.t = "vec" -> Prefixed(f.n, Joined([i \in DOMAIN v |-> Write(f.f, v[i])]))
    [] f.t = "struct" -> Joined([i \in DOMAIN f.fs |-> Write(f.fs[i], v[i])])
    [] f.t = "const" -> Be(f.n, f.v)
    [] f.t = "case" ->
         LET body == IF v.tag \in Range(TypesOf(f.cases)) THEN Write(FormatOf(f.cases, v.tag), v.v)
                     ELSE Write(f.other, v.v)
         IN  Be(f.n, v.tag) \o IF f.len > 0 THEN Prefixed(f.len, body) ELSE body
    [] f.t = "flags" -> Prefixed(f.n, Joined([i \in DOMAIN f.known |->
                          IF f.known[i] \in v THEN Be(f.w, f.known[i]) ELSE <<>>]))
    [] f.t \in {"strict", "optional"} -> Write(f.f, v)
    [] f.t = "sub" -> Prefixed(f.n, Write(f.f, v))
    [] f.t = "exts" -> LET order == OrderOf(f, v)
                       IN  IF f.keep = "seed" /\ order = <<>> THEN <<>>
                           ELSE Prefixed(2, Joined([i \in DOMAIN order |-> WriteOne(f, v, order[i])]))
    [] f.t = "sni" -> Prefixed(2, IF v.kind = "name" THEN <<0>> \o Prefixed(2, v.name) ELSE <<>>)
    [] f.t = "dns" -> Prefixed(1, v)
=============================================================================
