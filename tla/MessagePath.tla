----------------------------- MODULE MessagePath ------------------------------
(***************************************************************************)
(* What the peers encode for each other, on its way through the codecs.    *)
(* A message: EnvelopeCodec at the sender, a frame, EnvelopeCodec at the   *)
(* receiver (protocol/codec/mod.rs); it starts either as a typed message,  *)
(* or as a payload some other sender put in a frame: any header and any    *)
(* body of bounded length.  A ClientHello: built from the client's         *)
(* options, or arriving with one byte changed.  A private key: in a file,  *)
(* in each of its formats.                                                 *)
(***************************************************************************)
EXTENDS ClientHello

CONSTANTS
  MaxLen,       \* bound: length of a token, a text or the data of a message
  RawBytes,     \* bytes a foreign body is made of
  MaxBody,      \* bound: length of a foreign body
  RawCodes,     \* type bytes a foreign header may have
  Tokens,       \* the clients' tokens
  Hosts,        \* the host names a client may disguise as
  KeyBytes      \* bytes a private key is made of

VARIABLES
  stage,        \* "message", "payload", "frame", "received", "done" or an error stage;
                \* "options", "hello"; "key", "key_file"
  sent,         \* {the typed message, options or key}, or {} when the bytes are foreign
  known,        \* the messages the receiver decodes: ClientMessages at the server
  bytes,        \* what is on the wire at this stage
  got           \* what the receiver decoded, {} for an error

vars == <<stage, sent, known, bytes, got>>

Uniform(bs, n) == UNION {{[i \in 1 .. k |-> b] : b \in bs} : k \in 0 .. n}
Values(kind) ==
  CASE kind = "u32" -> {0, Base ^ U32 - 1} [] kind = "u64" -> {0, Base ^ U64 - 1}
    [] kind = "u8" -> {0, Base - 1} [] kind = "bool" -> BOOLEAN
    [] kind = "delivery" -> DOMAIN DeliveryCode [] kind = "peer" -> DOMAIN PeerCode
    [] kind = "id" -> [1 .. IdSize -> RawBytes] [] kind = "sid" -> [1 .. SidSize -> RawBytes]
    [] kind \in {"token", "rest"} -> Uniform(RawBytes, MaxLen)
    [] kind = "text" -> Uniform(RawBytes \ {InvalidByte}, MaxLen)

Typed(t) ==
  LET fs == Messages[t].fields
  IN  {[type |-> t, args |-> a] :
         a \in IF Len(fs) = 1 THEN {<<v>> : v \in Values(fs[1])}
               ELSE {<<v, w>> : v \in Values(fs[1]), w \in Values(fs[2])}}

Foreign ==
  {EnvelopeHeader(v, c, <<0, 1, 0>>, n) \o body :
     v \in {1, 2}, c \in RawCodes, n \in 0 .. MaxBody + 1,
     body \in UNION {[1 .. k -> RawBytes] : k \in 0 .. MaxBody} \cup Uniform(RawBytes, MaxLen)}
  \cup {First(EnvelopeHeader(1, 1, <<0, 0, 0>>, 0), k) : k \in 0 .. EnvelopeHeaderSize - 1}

Ids == <<0, 1, Base ^ U64 - 1>>
Session == [i \in 1 .. SidSize |-> 1]
Nonce == [i \in 1 .. U64 |-> 2]

\* A ClientHello with one byte changed.
Damaged ==
  LET hello == Build([token |-> <<1>>, host |-> <<Upper>>, inSni |-> FALSE])
  IN  {[hello EXCEPT ![i] = b] : i \in DOMAIN hello, b \in {0, 1, InvalidByte, Base - 1}}

Init ==
  /\ got = {}
  /\ \/ /\ stage = "message" /\ bytes = <<>>
        /\ \E t \in MessageType :
             /\ sent \in {{m} : m \in Typed(t)}
             /\ known = IF t \in DOMAIN ClientMessages THEN ClientMessages ELSE ServerMessages
     \/ /\ stage = "payload" /\ sent = {}
        /\ bytes \in Foreign /\ known \in {ClientMessages, ServerMessages}
     \/ /\ stage = "options" /\ bytes = <<>> /\ known = ClientMessages
        /\ sent \in {{o} : o \in [token : Tokens, host : Hosts, inSni : BOOLEAN]}
     \/ /\ stage = "hello" /\ sent = {} /\ known = ClientMessages
        /\ bytes \in Damaged
     \/ /\ stage = "key" /\ bytes = <<>> /\ known = ClientMessages
        /\ sent \in {{key} : key \in [1 .. KeyLen -> KeyBytes]}

\* EnvelopeCodec::encode_client_message, encode_server_message
EncodeStep ==
  /\ stage = "message"
  /\ \E m \in sent :
       IF EncodeEnvelope(m, Ids) = {} THEN stage' = "too_large" /\ bytes' = <<>>
       ELSE stage' = "payload" /\ bytes' \in EncodeEnvelope(m, Ids)
  /\ UNCHANGED <<sent, known, got>>

FrameStep ==
  /\ stage = "payload"
  /\ IF NewFrame(Session, Nonce, bytes) = {} THEN stage' = "refused" /\ bytes' = <<>>
     ELSE stage' = "frame" /\ bytes' \in {EncodeFrame(f) : f \in NewFrame(Session, Nonce, bytes)}
  /\ UNCHANGED <<sent, known, got>>

ParseStep ==
  /\ stage = "frame" /\ stage' = "received"
  /\ \E f \in FromSlice(bytes) : bytes' = f.payload
  /\ UNCHANGED <<sent, known, got>>

DecodeStep ==
  /\ stage = "received" /\ stage' = "done"
  /\ got' = DecodeMessage(known, bytes)
  /\ UNCHANGED <<sent, known, bytes>>

\* The client opens its connection.
BuildStep ==
  /\ stage = "options" /\ stage' = "hello"
  /\ \E o \in sent : bytes' = Build(o)
  /\ UNCHANGED <<sent, known, got>>

\* write_private_key_file saves the key raw; an operator may provide one as text, with
\* white space around it and, in Base64, with the line broken.
KeyFiles(key) ==
  LET code == Base64Encode(key)
      texts == {HexEncode(key), code, First(code, 4) \o <<Space>> \o After(code, 4)}
  IN  {key} \cup texts \cup {Append(t, Space) : t \in texts} \cup {<<Space>> \o t : t \in texts}

SaveStep ==
  /\ stage = "key" /\ stage' = "key_file"
  /\ \E key \in sent : bytes' \in KeyFiles(key)
  /\ UNCHANGED <<sent, known, got>>

Ended == stage \in {"done", "too_large", "refused", "hello", "key_file"} /\ UNCHANGED vars

Next == EncodeStep \/ FrameStep \/ ParseStep \/ DecodeStep \/ BuildStep \/ SaveStep \/ Ended

Spec == Init /\ [][Next]_vars

-----------------------------------------------------------------------------
(* The relay's use of a SendMessage it decoded *)

Source == [i \in 1 .. IdSize |-> 0]

ForwardWrapped(source, m) ==
  [type |-> "IncomingMessageEvent", args |-> <<source, Encode(m)>>]

Forward(source, m) ==
  [type |-> "IncomingMessageEvent", args |-> <<source, m.args[2]>>]

-----------------------------------------------------------------------------
(* Properties *)

\* A message arrives as it was sent, ids included, and one is refused only when its body
\* does not fit: encode_client_message/encode_server_message, Frame::new, from_slice and
\* the decoders agree on every field, for lengths on both sides of the limit.  A key is
\* read back from its file whichever of the three formats it is in, and never mistaken
\* for another one in another format (parse_private_key_bytes tries them in turn).
RoundTrip ==
  /\ stage = "done" => \A m \in sent : {[msg |-> g.msg, ids |-> g.env.ids] : g \in got}
                                        = {[msg |-> m, ids |-> Ids]}
  /\ stage = "too_large" => \A m \in sent : Len(Encode(m)) > MaxEnvelopePayloadSize
  /\ stage = "refused" => sent = {}
  /\ stage = "key_file" => ParsePrivateKey(bytes) = sent

\* No received payload makes a decoder read past the end of its slice: the length each
\* decoder asks for first covers every read that is not checked on its own.
NoPanic == \A g \in got : g.msg # Panic

\* Whatever SendMessage the relay decodes, the IncomingMessageEvent it makes of it fits
\* an envelope and a frame and gives the recipient the same data: the relay has already
\* answered `accepted: true`, and drops an event that does not fit without a word
\* (routed_listener.rs:389-405).
ForwardFits ==
  \A g \in got :
    g.msg # Panic /\ g.msg.type = "SendMessage"
    => \E p \in EncodeEnvelope(Forward(Source, g.msg), Ids) :
         /\ NewFrame(Session, Nonce, p) # {}
         /\ {x.msg.args[2] : x \in DecodeMessage(ServerMessages, p)} = {g.msg.args[2]}

\* A validator of secret w, as the relay builds it.
Secret(w) == [secret |-> w, expected |-> {}, insecure |-> FALSE]

\* A client is let in exactly when it should be.  The relay parses what the client's
\* builder put together (token, name, version) whenever the record fits
\* MAX_CLIENT_HELLO_SIZE, and refuses every longer one, those whose u16 lengths have
\* wrapped around included.  A validator with the client's own token (its hexadecimal
\* form when the token is in the server name) admits it, an empty token is never
\* admitted, and another token of the same length is not, unless it begins alike or
\* stands in the name: PseudoTlsBuilder::build, parse_client_hello and
\* TokenValidator::validate agree, for tokens shorter and longer than the random.
HelloAdmitted ==
  stage = "hello" =>
    \A o \in sent :
      IF Len(bytes) > MaxClientHello THEN Parse(bytes).status = "invalid"
      ELSE /\ Parse(bytes).status = "complete"
           /\ \A hello \in Parse(bytes).hello :
                LET own == IF o.inSni THEN HexEncode(o.token) ELSE o.token
                    name == ToLower(SniOf(o))
                IN  /\ hello.sni = {name} /\ hello.tls13 /\ hello.version = Tls12
                    /\ Validate(Secret(own), hello) <=> own # <<>>
                    /\ \A w \in Tokens :
                         (Len(w) = Len(o.token) /\ Validate(Secret(w), hello))
                         => \/ IsPrefix(w, name)
                            \/ /\ ~ o.inSni
                               /\ \A i \in 1 .. Min({Len(w), RandomLen}) : w[i] = o.token[i]

\* The client stream that the record in `bytes` is to ConnectionIntake.
Intake == INSTANCE ConnectionIntake WITH
  Clients <- {}, HeaderLen <- RecordHeader, FirstRead <- 1, MaxHello <- MaxClientHello,
  NoiseLen <- 0, arrived <- 0, taken <- 0, phase <- "parse", initial <- bytes, extra <- 0,
  prefix <- <<>>, sink <- <<>>,
  client <- [tls |-> TRUE, recordLen |-> Get(SubSeq(bytes, RecordHeader - U16 + 1, RecordHeader)),
             hello |-> IF Parse(bytes).status = "complete" THEN "noToken" ELSE "malformed"]

\* However TCP cuts the stream, parse_client_hello asks for bytes until the record it
\* announced is complete, for exactly as many as it needs, and its verdict then no
\* longer depends on how much of what follows has been read: on every prefix of every
\* ClientHello, damaged ones included, it is the parser that ConnectionIntake assumes.
HelloFraming ==
  stage = "hello" /\ bytes[1] = HandshakeRecord =>
    \A n \in 0 .. Len(bytes) :
      LET p == Parse(First(bytes, n))
      IN  [status |-> p.status, expected |-> p.expected] = Intake!ParseClientHello(n)
=============================================================================
