----------------------------- MODULE TlsMessages -----------------------------
(***************************************************************************)
(* The messages of TLS as donut-tls reads and writes them: the formats of  *)
(* msgs/handshake.rs, msgs/message, msgs/alert.rs and msgs/ccs.rs.  A      *)
(* message is built from a value, its bytes may be altered on the way, and *)
(* it is read again; the invariants say what the rest of the stack relies  *)
(* on when it takes what was read for what was sent, or computes binders   *)
(* and confirmations over it.                                              *)
(***************************************************************************)
EXTENDS TlsCodec

CONSTANTS
  RandomLen,   \* bytes of a Random (32 in the code)
  HrrRandom,   \* HELLO_RETRY_REQUEST_RANDOM, as a number of that many bytes
  SessionMax,  \* bytes of the longest SessionId (32)
  Samples,     \* the messages: [name, ver, type, v] or [name, ver, type, inner, outer]
  Altered      \* the values a byte is altered to

-----------------------------------------------------------------------------
(* Parts *)

ServerName == 0
StatusRequest == 5
EllipticCurves == 10
ECPointFormats == 11
SignatureAlgorithms == 13
ALProtocolNegotiation == 16
ClientCertificateType == 19
ServerCertificateType == 20
ExtendedMasterSecret == 23
CompressCertificate == 27
SessionTicket == 35
EarlyData == 42
SupportedVersions == 43
Cookie == 44
PSKKeyExchangeModes == 45
CertificateAuthorities == 47
SignatureAlgorithmsCert == 50
KeyShare == 51
TransportParameters == 57
RenegotiationInfo == 65281
TransportParametersDraft == 65445
EncryptedClientHello == 65037
OuterExtensions == 64768

U8 == Uint(1)
U16 == Uint(2)
U24 == Uint(3)
U32 == Fixed(4)
PayloadU8 == Opaque(1, 0, 255)
PayloadU16 == Opaque(2, 0, 65535)
PayloadU24 == Opaque(3, 0, 16777215)
NonEmptyU8 == Opaque(1, 1, 255)
NonEmptyU16 == Opaque(2, 1, 65535)

VecU8(f) == Vec(1, TRUE, 255, f)
VecU16(f) == Vec(2, TRUE, 65535, f)
AnyU16(f) == Vec(2, FALSE, 65535, f)
\* CERTIFICATE_MAX_SIZE_LIMIT
CertList(f) == Vec(3, FALSE, 65536, f)

SessionId == Opaque(1, 0, SessionMax)
NamedGroups == VecU16(U16)
SignatureSchemes == VecU16(U16)
PointFormats == Flags(1, 1, <<0>>)
ProtocolName == NonEmptyU8
SingleProtocolName == Sub(2, ProtocolName)
KeyShareEntry == Struct(<<U16, NonEmptyU16>>)
PresharedKeyIdentity == Struct(<<NonEmptyU16, U32>>)
PresharedKeyBinders == VecU16(NonEmptyU8)
PresharedKeyOffer == Struct(<<VecU16(PresharedKeyIdentity), PresharedKeyBinders>>)
OcspCertificateStatusRequest == Struct(<<AnyU16(PayloadU16), PayloadU16>>)
CertificateStatusRequest == Case(1, 0, << <<1, OcspCertificateStatusRequest>> >>, Rest)
PskKeyExchangeModes == Flags(1, 1, <<1, 0>>)
SupportedProtocolVersions == Flags(1, 2, <<772, 771>>)
CertificateTypes == VecU8(U8)
CompressionAlgorithms == VecU8(U16)
DistinguishedNames == AnyU16(NonEmptyU16)

HpkeSymmetricCipherSuite == Struct(<<U16, U16>>)
HpkeKeyConfig == Struct(<<U8, U16, NonEmptyU16, VecU16(HpkeSymmetricCipherSuite)>>)
EchConfigExtension == Struct(<<U16, PayloadU16>>)
EchConfigContents == Struct(<<HpkeKeyConfig, U8, Dns, AnyU16(EchConfigExtension)>>)
EchConfigPayload == Case(2, 2, << <<65037, EchConfigContents>> >>, Rest)
EncryptedClientHelloOuter == Struct(<<HpkeSymmetricCipherSuite, U8, PayloadU16, NonEmptyU16>>)
EncryptedHello ==
  Case(1, 0, << <<0, EncryptedClientHelloOuter>>, <<1, Struct(<<>>)>> >>, Refuse("InvalidContentType"))

-----------------------------------------------------------------------------
(* Extension blocks *)

ClientExtensions == Exts(<<
  <<ServerName, SniList>>, <<StatusRequest, CertificateStatusRequest>>, <<EllipticCurves, NamedGroups>>,
  <<ECPointFormats, PointFormats>>, <<SignatureAlgorithms, SignatureSchemes>>,
  <<ALProtocolNegotiation, VecU16(ProtocolName)>>, <<ClientCertificateType, CertificateTypes>>,
  <<ServerCertificateType, CertificateTypes>>, <<ExtendedMasterSecret, Empty>>,
  <<CompressCertificate, CompressionAlgorithms>>, <<SessionTicket, Rest>>,
  <<PreSharedKey, PresharedKeyOffer>>, <<EarlyData, Empty>>,
  <<SupportedVersions, SupportedProtocolVersions>>, <<Cookie, NonEmptyU16>>,
  <<PSKKeyExchangeModes, PskKeyExchangeModes>>, <<CertificateAuthorities, DistinguishedNames>>,
  <<KeyShare, AnyU16(KeyShareEntry)>>, <<TransportParameters, Rest>>, <<RenegotiationInfo, PayloadU8>>,
  <<TransportParametersDraft, Rest>>, <<EncryptedClientHello, EncryptedHello>>,
  <<OuterExtensions, VecU8(U16)>> >>, "check", "seed")

ServerExtensions == Exts(<<
  <<ECPointFormats, PointFormats>>, <<ServerName, Empty>>, <<SessionTicket, Empty>>,
  <<RenegotiationInfo, PayloadU8>>, <<ALProtocolNegotiation, SingleProtocolName>>,
  <<KeyShare, KeyShareEntry>>, <<PreSharedKey, U16>>, <<ClientCertificateType, U8>>,
  <<ServerCertificateType, U8>>, <<ExtendedMasterSecret, Empty>>, <<StatusRequest, Empty>>,
  <<SupportedVersions, U16>>, <<TransportParameters, Rest>>, <<TransportParametersDraft, Rest>>,
  <<EarlyData, Empty>>, <<EncryptedClientHello, AnyU16(EchConfigPayload)>> >>, "check", "unknown")

HelloRetryRequestExtensions == Exts(<<
  <<KeyShare, U16>>, <<Cookie, NonEmptyU16>>, <<SupportedVersions, U16>>,
  <<EncryptedClientHello, Rest>> >>, "UnknownHelloRetryRequestExtension", "order")

CertificateStatus == Case(1, 0, << <<1, PayloadU24>> >>, Refuse("InvalidCertificateStatusType"))
CertificateExtensions ==
  Exts(<< <<StatusRequest, CertificateStatus>> >>, "UnknownCertificateExtension", "none")
CertificateRequestExtensions == Exts(<<
  <<SignatureAlgorithms, SignatureSchemes>>, <<CertificateAuthorities, DistinguishedNames>>,
  <<CompressCertificate, CompressionAlgorithms>> >>, "check", "none")
NewSessionTicketExtensions == Exts(<< <<EarlyData, U32>> >>, "check", "none")

-----------------------------------------------------------------------------
(* Handshake messages *)

HelloFields == <<U16, Fixed(RandomLen), SessionId, VecU16(U16), VecU8(U8)>>
ClientHelloPayload == Struct(Append(HelloFields, ClientExtensions))
HelloRetryRequest ==
  Struct(<<SessionId, U16, Const(1, 0, "UnsupportedCompression"), HelloRetryRequestExtensions>>)
ServerHelloPayload == Struct(<<SessionId, U16, U8, Optional(ServerExtensions, NoExts("unknown"))>>)
\* the random tells a ServerHello from a HelloRetryRequest
ServerHello == Struct(<<U16, Case(RandomLen, 0, << <<HrrRandom, HelloRetryRequest>> >>, ServerHelloPayload)>>)
CertificateChain == CertList(PayloadU24)
CertificateEntry == Struct(<<PayloadU24, CertificateExtensions>>)
CertificatePayloadTls13 == Struct(<<PayloadU8, CertList(CertificateEntry)>>)
CompressedCertificatePayload == Struct(<<U16, U24, PayloadU24>>)
DigitallySignedStruct == Struct(<<U16, PayloadU16>>)
CertificateRequestPayload == Struct(<<VecU8(U8), SignatureSchemes, DistinguishedNames>>)
CertificateRequestPayloadTls13 == Struct(<<PayloadU8, CertificateRequestExtensions>>)
NewSessionTicketPayload == Struct(<<U32, PayloadU16>>)
NewSessionTicketPayloadTls13 == Struct(<<U32, U32, PayloadU8, NonEmptyU16, NewSessionTicketExtensions>>)

EcParameters == Struct(<<Const(1, 3, "UnsupportedCurveType"), U16>>)
ServerEcdhParams == Struct(<<EcParameters, NonEmptyU8>>)
ServerDhParams == Struct(<<NonEmptyU16, NonEmptyU16, NonEmptyU16>>)
\* unwrap_given_kxa: the payload of a ServerKeyExchange, once the suite says how to read it
ServerKeyExchange(kxa) ==
  Struct(<<IF kxa = "ECDHE" THEN ServerEcdhParams ELSE ServerDhParams, DigitallySignedStruct>>)
ClientKeyExchangeParams(kxa) == IF kxa = "ECDHE" THEN NonEmptyU8 ELSE NonEmptyU16

\* HandshakeMessagePayload::read_version: the type chooses, with the version for some of them
HandshakeMessagePayload(ver) ==
  Case(1, 3, <<
    <<1, Strict(ClientHelloPayload)>>, <<2, Strict(ServerHello)>>,
    <<4, Strict(IF ver = 13 THEN NewSessionTicketPayloadTls13 ELSE NewSessionTicketPayload)>>,
    <<5, Empty>>, <<6, Refuse("UnexpectedMessage")>>, <<8, Strict(ServerExtensions)>>,
    <<11, Strict(IF ver = 13 THEN CertificatePayloadTls13 ELSE CertificateChain)>>,
    <<13, Strict(IF ver = 13 THEN CertificateRequestPayloadTls13 ELSE CertificateRequestPayload)>>,
    <<14, Empty>>, <<15, Strict(DigitallySignedStruct)>>, <<22, Strict(CertificateStatus)>>,
    <<24, Strict(U8)>>, <<25, Strict(CompressedCertificatePayload)>>,
    <<254, Refuse("UnexpectedMessage")>> >>, Rest)

\* MessagePayload::new, by content type
MessagePayload(typ, ver) ==
  CASE typ = 20 -> Strict(Const(1, 1, "InvalidCcs"))
    [] typ = 21 -> Strict(Struct(<<U8, U8>>))
    [] typ = 22 -> HandshakeMessagePayload(ver)
    [] typ = 23 -> Rest
    [] OTHER -> Refuse("InvalidContentType")

-----------------------------------------------------------------------------
(* Binders *)

HelloOf(v) == v.v[6]
HasPsk(v) == v.tag = 1 /\ PreSharedKey \in DOMAIN HelloOf(v).m

\* Faulty variant: the length of the binders without the length of their list
TotalBinderLengthBare(v) ==
  IF HasPsk(v) THEN Len(Write(PresharedKeyBinders, HelloOf(v).m[PreSharedKey][2])) - 2 ELSE 0

\* total_binder_length: the binders are written again to see how long they are
TotalBinderLength(v) ==
  IF HasPsk(v) THEN Len(Write(PresharedKeyBinders, HelloOf(v).m[PreSharedKey][2])) ELSE 0

-----------------------------------------------------------------------------
(* The inner hello of ECH: EchState::encode_inner_hello *)

\* ExtensionType::ech_compress
EchCompress == {StatusRequest, EllipticCurves, SignatureAlgorithms, SignatureAlgorithmsCert,
                ALProtocolNegotiation, SupportedVersions, Cookie, KeyShare, PSKKeyExchangeModes}

NotInner == {ExtendedMasterSecret, SessionTicket, ECPointFormats}

Only(m, S) == [e \in S |-> m[e]]

\* compressed_exts, in the order the outer hello has them
Compressed(outer) == SelectSeq(UsedInOrder(outer[6]), LAMBDA e : e \in EchCompress \cap DOMAIN outer[6].m)

\* the inner hello: what the outer one says, but for the name, the random and the extensions ECH drops
InnerOf(outer, random, name) ==
  LET m == outer[6].m
      kept == Only(m, DOMAIN m \ (NotInner \cup {ServerName, EncryptedClientHello}))
      sni == IF name # <<>> /\ ServerName \in DOMAIN m
             THEN ServerName :> [kind |-> "name", name |-> name] ELSE <<>>
      Scsv == 255
  IN  [outer EXCEPT ![2] = random, ![4] = SelectSeq(@, LAMBDA cs : cs # Scsv),
                    ![6] = [m |-> kept @@ sni @@ (EncryptedClientHello :> [tag |-> 1, v |-> <<>>]),
                            seed |-> @.seed, contiguous |-> Compressed(outer)]]

\* ech_inner_encoding: no session id, and one extension that names the compressed ones
EchInnerEncoding(inner) ==
  LET list == inner[6].contiguous
      m == inner[6].m
      short == Only(m, DOMAIN m \ Range(list)) @@ (OuterExtensions :> list)
  IN  Write(ClientHelloPayload,
            [inner EXCEPT ![3] = <<>>, ![6].m = IF list = <<>> THEN m ELSE short])

\* the padding for the name, and the padding to a block computed from it
NamePadding(name, max) ==
  LET L == IF max > 0 THEN max ELSE 255
  IN  IF HostKind(name) = "name" THEN (IF L > Len(name) THEN L - Len(name) ELSE 0) ELSE L + 9
BlockPadding(len, name, max) == 31 - ((len + NamePadding(name, max) - 1) % 32)

Zeros(n) == [i \in 1..n |-> 0]

EncodeInnerHello(x) ==
  LET inner == InnerOf(x.outer, x.random, IF HostKind(x.name) = "name" THEN x.name ELSE <<>>)
      encoded == EchInnerEncoding(inner)
  IN  [inner |-> inner, encoded |-> encoded \o Zeros(BlockPadding(Len(encoded), x.name, x.max))]

-----------------------------------------------------------------------------
(* The two questions: a message that may be altered on the way, and an inner hello *)

\* a hello of another implementation has extensions of its own making, in an order of its own
ForeignExts == Exts(Append([i \in DOMAIN ClientExtensions.table |-> <<ClientExtensions.table[i][1], Rest>>],
                           <<2570, Rest>>), "check", "order")
ForeignHello == Struct(Append(HelloFields, ForeignExts))

Sent(x) ==
  IF x.foreign THEN <<x.type>> \o Prefixed(3, Write(ForeignHello, x.v))
  ELSE Write(HandshakeMessagePayload(x.ver), [tag |-> x.type, v |-> x.v])

Edited(b, e) ==
  CASE e.op = "none" -> b
    [] e.op = "cut" -> Take(b, e.at)
    [] e.op = "set" -> [b EXCEPT ![e.at] = e.to]
    [] e.op = "drop" -> RemoveAt(b, e.at)
    [] e.op = "twice" -> InsertAt(b, e.at, b[e.at])

Edits(b) ==
  {[op |-> "none", at |-> 0, to |-> 0]}
    \cup [op : {"cut"}, at : 0..Len(b) - 1, to : {0}] \cup [op : {"set"}, at : DOMAIN b, to : Altered]
    \cup [op : {"drop", "twice"}, at : DOMAIN b, to : {0}]

Arriving(i, b) == {[kind |-> "tls", sample |-> i, edit |-> e.op, bytes |-> Edited(b, e)] : e \in Edits(b)}
TlsInputs == UNION {Arriving(i, Sent(Samples[i])) : i \in DOMAIN Samples}

ReadMessage ==
  /\ pending("tls")
  /\ output' = Read(MessagePayload(22, Samples[input.sample].ver), input.bytes)
  /\ UNCHANGED input

\* the two messages that can only be read once the cipher suite is known
KxFormat(x) == IF x.from = "server" THEN ServerKeyExchange(x.kxa) ELSE ClientKeyExchangeParams(x.kxa)

ReadKeyExchange ==
  /\ pending("kx")
  /\ LET b == Write(KxFormat(input), input.v)
     IN  output' = Read(Strict(KxFormat(input)), Take(b, Len(b) - input.cut))
  /\ UNCHANGED input

MakeInner ==
  /\ pending("ech")
  /\ output' = EncodeInnerHello(input)
  /\ UNCHANGED input

-----------------------------------------------------------------------------
(* Properties *)

sample == Samples[input.sample]
Accepted == Has("tls") /\ output.ok
\* the bytes that were taken for the message
Taken == Take(input.bytes, Len(input.bytes) - Len(output.rest))

\* what a value says, without the order its extensions are written in
Meaning(x, v) == IF x.type = 1 THEN [v EXCEPT ![6] = [m |-> @.m]]
                 ELSE IF x.type = 2 THEN [v EXCEPT ![2].v[4] = [m |-> @.m]] ELSE v

\* an extension block as the bytes have it: types and bodies in order
RECURSIVE RawBlock(_)
RawBlock(b) ==
  IF b = <<>> THEN <<>>
  ELSE LET n == 256 * b[3] + b[4] IN << <<256 * b[1] + b[2], SubSeq(b, 5, 4 + n)>> >> \o RawBlock(After(b, 4 + n))

\* a hello in two: its five other fields, and its extensions as the bytes have them
InTwo(r) == [head |-> r.v, block |-> IF r.rest = <<>> THEN <<>> ELSE RawBlock(ReadSub(2, r.rest).v)]
Divided(hello) == InTwo(Read(Struct(HelloFields), hello))

\* A message donut-tls wrote is read back by donut-tls as what was written, whatever extensions it
\* has and in whatever order the seed puts them, and nothing that was cut off short of its end is
\* taken for a message (HandshakeMessagePayload::payload_encode against read_version).
ReadsBack ==
  /\ Has("tls") =>
       /\ input.edit = "none" /\ ~sample.foreign =>
            output.ok /\ output.rest = <<>> /\ Meaning(sample, output.v.v) = Meaning(sample, sample.v)
       /\ input.edit = "cut" => ~output.ok
  /\ Has("kx") => IF input.cut = 0 THEN output.ok /\ output.v = input.v ELSE ~output.ok

\* A HelloRetryRequest the client accepts is written again byte for byte as it came: the ECH
\* confirmation is computed over the second encoding and the server's over the first
\* (EchState::hello_retry_request_conf; `order` of HelloRetryRequestExtensions).
RetryReencodes ==
  Accepted /\ output.v.tag = 2 /\ output.v.v[2].tag = HrrRandom =>
    Write(HandshakeMessagePayload(sample.ver), output.v) = Taken

\* Cutting total_binder_length bytes off an accepted ClientHello leaves exactly what the client
\* signed: the bytes cut off are the list of the binders, whoever wrote the hello
\* (check_binder and fill_in_psk_binder).
BinderCut ==
  Accepted /\ HasPsk(output.v) =>
    LET cut == After(Taken, Len(Taken) - TotalBinderLength(output.v))
        r == Read(Strict(PresharedKeyBinders), cut)
    IN  r.ok /\ r.v = HelloOf(output.v).m[PreSharedKey][2]

\* The server of ECH: the compressed extensions come from the outer hello, in the order it has them,
\* and the session id too
Listed(x) == Range(Read(VecU8(U16), x[2]).v)
Expand(encoded, outer) ==
  LET put(x) == IF x[1] = OuterExtensions THEN SelectSeq(outer.block, LAMBDA y : y[1] \in Listed(x)) ELSE <<x>>
      full == FlattenSeq([i \in DOMAIN encoded.block |-> put(encoded.block[i])])
      bytes(x) == Be(2, x[1]) \o Prefixed(2, x[2])
  IN  Write(Struct(HelloFields), [encoded.head EXCEPT ![3] = outer.head[3]])
        \o Prefixed(2, FlattenSeq([i \in DOMAIN full |-> bytes(full[i])]))

ZerosFollow(r) == r.ok /\ Range(r.rest) \subseteq {0}

\* What the server puts together from the encrypted inner hello and the outer one is the inner
\* hello the client has in its transcript, and all that follows the inner hello are zeros
\* (encode_inner_hello, ech_inner_encoding and contiguous_extensions).
InnerExpands ==
  Has("ech") =>
    /\ ZerosFollow(Read(ClientHelloPayload, output.encoded))
    /\ Expand(Divided(output.encoded), Divided(Write(ClientHelloPayload, input.outer)))
         = Write(ClientHelloPayload, output.inner)

\* Both sides mean the same bytes: whatever was written is read back and nothing cut is, and each
\* encoding that is hashed, signed or sealed on one side is the one the other side computes from what
\* it read: the retry request, the hello without its binders, and the inner hello of ECH.
EncodingsAgree == ReadsBack /\ RetryReencodes /\ BinderCut /\ InnerExpands
=============================================================================
