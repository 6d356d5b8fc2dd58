----------------------------- MODULE ClientHello ------------------------------
(***************************************************************************)
(* The ClientHello that opens a connection, as pure operators: how the     *)
(* client builds it around its token, how the relay parses it and how it   *)
(* looks for the token (transport/obfuscation.rs).  Numbers above a byte   *)
(* of the scaled format keep their last byte.                              *)
(***************************************************************************)
EXTENDS KeyText

CONSTANTS
  RandomLen,       \* bytes of ClientHello.random (32)
  MaxClientHello,  \* MAX_CLIENT_HELLO_SIZE (4096)
  Upper, Lower,    \* a letter in both cases
  Dot, Filler      \* the dot of a host name; 0x5a

HandshakeRecord == 22
ClientHelloType == 1
Tls10 == 1
Tls12 == 3
Tls13 == 4
ServerName == 0
SupportedGroups == 10
SignatureAlgorithms == 13
SupportedVersions == 43
KeyShare == 51
CipherSuites == <<1, 2, 3>>
DefaultToken == <<>>

ASSUME HelloAssumption == RandomLen \in Nat \ {0} /\ Upper # Lower

RecordHeader == 1 + 2 * U16

ToLower(s) == [i \in DOMAIN s |-> IF s[i] = Upper THEN Lower ELSE s[i]]

-----------------------------------------------------------------------------
(* PseudoTlsBuilder::build *)

\* A length of w bytes, and what it announces.
Vec(w, s) == Put(Len(s), w) \o s

U16s(ns) == FoldLeft(LAMBDA t, n : t \o Put(n, U16), <<>>, ns)

Extension(type, data) == Put(type, U16) \o Vec(U16, data)

\* The client's options: its token, the host it names, and where the token goes.
Random(o) ==
  LET token == IF o.token = <<>> THEN DefaultToken ELSE o.token
  IN  [i \in 1 .. RandomLen |-> IF ~ o.inSni /\ i <= Len(token) THEN token[i] ELSE Filler]

SniOf(o) == IF o.inSni THEN HexEncode(o.token) \o <<Dot>> \o o.host ELSE o.host

Extensions(o) ==
  Extension(ServerName, Vec(U16, <<0>> \o Vec(U16, SniOf(o))))
    \o Extension(SupportedVersions, Vec(1, U16s(<<Tls13, Tls12>>)))
    \o Extension(SupportedGroups, Vec(U16, U16s(<<29, 23>>)))
    \o Extension(SignatureAlgorithms, Vec(U16, U16s(<<3, 4, 7>>)))
    \o Extension(KeyShare, Vec(U16, Put(29, U16) \o Vec(U16, <<Filler>>)))

HandshakeBody(o) ==
  Put(Tls12, U16) \o Random(o) \o Vec(1, <<Filler>>) \o Vec(U16, U16s(CipherSuites))
    \o Vec(1, <<0>>) \o Vec(U16, Extensions(o))

Build(o) ==
  <<HandshakeRecord>> \o Put(Tls10, U16)
    \o Vec(U16, <<ClientHelloType>> \o Vec(3, HandshakeBody(o)))

-----------------------------------------------------------------------------
(* parse_client_hello *)

\* A cursor: what was read last and what follows; a read past the end fails, and
\* all behind it.
Take(c, n) ==
  IF c.ok /\ Len(c.rest) >= n
  THEN [ok |-> TRUE, got |-> First(c.rest, n), rest |-> After(c.rest, n)]
  ELSE [ok |-> FALSE, got |-> <<>>, rest |-> <<>>]

TakeVec(c, w) == LET len == Take(c, w) IN Take(len, Get(len.got))

\* The host name in a server_name extension; one that cannot be read leaves what an
\* earlier extension gave.
HostName(data, found) ==
  LET name == TakeVec([ok |-> TRUE, got |-> <<>>, rest |-> After(data, U16 + 1)], U16)
      isUtf8 == \A i \in DOMAIN name.got : name.got[i] # InvalidByte
  IN  IF Len(data) >= 2 * U16 + 1 /\ data[U16 + 1] = 0 /\ name.ok /\ isUtf8
      THEN {ToLower(name.got)} ELSE found

OffersTls13(data) ==
  LET list == TakeVec([ok |-> TRUE, got |-> <<>>, rest |-> data], 1)
  IN  \E k \in 1 .. Len(list.got) \div U16 :
        Get(SubSeq(list.got, (k - 1) * U16 + 1, k * U16)) = Tls13

\* One turn of the loop over the extensions; fewer bytes than a header end it.
ReadExtension(e, turn) ==
  IF ~ e.ok \/ Len(e.rest) < 2 * U16 THEN e
  ELSE LET type == Get(First(e.rest, U16))
           data == TakeVec([ok |-> TRUE, got |-> <<>>, rest |-> After(e.rest, U16)], U16)
       IN  [ok |-> data.ok, rest |-> data.rest,
            sni |-> IF data.ok /\ type = ServerName THEN HostName(data.got, e.sni) ELSE e.sni,
            tls13 |-> e.tls13 \/ (type = SupportedVersions /\ OffersTls13(data.got))]

ReadExtensions(s) ==
  FoldLeft(ReadExtension, [ok |-> TRUE, rest |-> s, sni |-> {}, tls13 |-> FALSE],
           [turn \in 1 .. Len(s) \div (2 * U16) |-> turn])

\* The body of the record, behind the message type.
ParseHandshake(s) ==
  LET hs == TakeVec([ok |-> TRUE, got |-> <<>>, rest |-> s], 3)
      version == Take([hs EXCEPT !.rest = hs.got], U16)
      random == Take(version, RandomLen)
      session == TakeVec(random, 1)
      suites == TakeVec(session, U16)
      methods == TakeVec(suites, 1)
      exts == IF Len(methods.rest) >= U16 THEN TakeVec(methods, U16)
                                          ELSE [methods EXCEPT !.got = <<>>]
      found == ReadExtensions(exts.got)
  IN  IF exts.ok /\ found.ok /\ Len(suites.got) % U16 = 0
      THEN {[version |-> Get(version.got), random |-> random.got, session |-> session.got,
             suites |-> suites.got, sni |-> found.sni, tls13 |-> found.tls13]}
      ELSE {}

\* Mutant: the announced length is taken for that of the whole record.
TotalLenBare(s) == Get(SubSeq(s, RecordHeader - U16 + 1, RecordHeader))

TotalLen(s) == RecordHeader + Get(SubSeq(s, RecordHeader - U16 + 1, RecordHeader))

Status(status, expected, hello) == [status |-> status, expected |-> expected, hello |-> hello]

Parse(s) ==
  IF Len(s) < RecordHeader THEN Status("more", RecordHeader, {})
  ELSE IF s[1] # HandshakeRecord \/ TotalLen(s) > MaxClientHello THEN Status("invalid", 0, {})
  ELSE IF Len(s) < TotalLen(s) THEN Status("more", TotalLen(s), {})
  ELSE LET body == SubSeq(s, RecordHeader + 1, TotalLen(s))
           hello == IF body # <<>> /\ body[1] = ClientHelloType THEN ParseHandshake(After(body, 1))
                    ELSE {}
       IN  IF hello = {} THEN Status("invalid", 0, {}) ELSE Status("complete", 0, hello)

-----------------------------------------------------------------------------
(* TokenValidator::validate *)

\* Mutant: a secret that is longer than the random does not match.
MatchesWhole(secret, random) == IsPrefix(secret, random)

\* Up to RandomLen bytes of the secret begin the random.
MatchesRandom(secret, random) == IsPrefix(First(secret, Min({Len(secret), RandomLen})), random)

Validate(v, hello) ==
  \/ v.insecure
  \/ /\ v.secret # <<>>
     /\ \/ MatchesRandom(v.secret, hello.random)
        \/ \E name \in hello.sni :
             \/ name = v.secret
             \/ IsPrefix(Append(v.secret, Dot), name)
             \/ name \in v.expected
=============================================================================
