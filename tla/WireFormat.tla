------------------------------ MODULE WireFormat ------------------------------
(***************************************************************************)
(* The wire format as pure operators: message bodies, the envelope around  *)
(* a body and the fixed-size frame around an envelope (protocol/).  Field  *)
(* widths are constants, so that the boundaries of the real sizes (u16     *)
(* lengths, 1364-byte bodies, 1394-byte payloads) fall within reach.  A    *)
(* byte is a number; a number is written most significant byte first, cut  *)
(* to its width.  An operation that may fail returns a set: the value in a *)
(* singleton, or nothing for an error.  A read past the end of a slice,    *)
(* which panics, is the value Panic.                                       *)
(***************************************************************************)
EXTENDS Integers, Sequences, SequencesExt

CONSTANTS
  Base,           \* values of a byte
  U16, U32, U64,  \* widths, in bytes, of the integers
  IdSize,         \* width of a peer id (32)
  SidSize,        \* width of a session id (16)
  MaxPayloadSize, \* MAX_PAYLOAD_SIZE (1394)
  InvalidByte,    \* a byte that is not UTF-8
  Panic           \* a model value

EnvelopeHeaderSize == 2 + U16 + 3 * U64 + U16
MaxEnvelopePayloadSize == MaxPayloadSize - EnvelopeHeaderSize
FrameHeaderSize == SidSize + U64 + U16
FrameSize == FrameHeaderSize + MaxPayloadSize

ASSUME WireAssumption ==
  /\ Base \in Nat \ {0, 1} /\ InvalidByte \in 1 .. Base - 1
  /\ MaxEnvelopePayloadSize \in Nat /\ MaxPayloadSize < Base ^ U16

-----------------------------------------------------------------------------
(* Bytes *)

\* put_u16, put_u32, put_u64 (`as u16` drops the high bytes) and their inverses.
Put(n, w) == [i \in 1 .. w |-> (n \div Base ^ (w - i)) % Base]
Get(s) == FoldLeft(LAMBDA n, b : Base * n + b, 0, s)

First(s, n) == SubSeq(s, 1, n)
After(s, n) == SubSeq(s, n + 1, Len(s))

\* String::from_utf8_lossy: an invalid byte becomes the three of U+FFFD.
FromUtf8Lossy(s) ==
  FoldLeft(LAMBDA t, b : t \o IF b = InvalidByte THEN <<0, 0, 0>> ELSE <<b>>, <<>>, s)

-----------------------------------------------------------------------------
(* Message types: their codes, their fields in order, and the length their *)
(* decoder asks for before it reads the first field.                       *)

M(code, fields, min) == [code |-> code, fields |-> fields, min |-> min]

ClientMessages ==
  [AuthRequest       |-> M(1,  <<"token", "u32">>, U16),
   ConnectRequest    |-> M(2,  <<"id">>, IdSize),
   DisconnectRequest |-> M(3,  <<"u32">>, U32),
   SendMessage       |-> M(4,  <<"id", "rest">>, IdSize),
   Ack               |-> M(5,  <<"u64">>, U64),
   Heartbeat         |-> M(6,  <<"u64">>, U64),
   KeyExchange       |-> M(7,  <<"id">>, IdSize),
   RelayRequest      |-> M(8,  <<"id">>, IdSize),
   RawEcho           |-> M(15, <<"rest">>, 0)]

ServerMessages ==
  [AuthResponse         |-> M(129, <<"bool", "sid">>, 1 + SidSize),
   ConnectionAccepted   |-> M(130, <<"sid", "id">>, SidSize + IdSize),
   ConnectionRejected   |-> M(131, <<"u32", "text">>, U32 + U16),
   HeartbeatResponse    |-> M(132, <<"u64">>, U64),
   ErrorResponse        |-> M(133, <<"u32", "text">>, U32 + U16),
   SendMessageResponse  |-> M(134, <<"u64", "bool">>, U64 + 1),
   RawEchoResponse      |-> M(143, <<"rest">>, 0),
   IncomingMessageEvent |-> M(144, <<"id", "rest">>, IdSize),
   DeliveryStatusEvent  |-> M(145, <<"u64", "delivery">>, U64 + 1),
   PeerEvent            |-> M(146, <<"id", "peer">>, IdSize + 1),
   RelayEvent           |-> M(147, <<"sid", "u8">>, SidSize + 1)]

Messages == ClientMessages @@ ServerMessages
MessageType == DOMAIN Messages

\* MessageType::from_u8
FromU8(code) == {t \in MessageType : Messages[t].code = code}

DeliveryCode == [Delivered |-> 1, Dropped |-> 2, Queued |-> 3, Failed |-> 4]
PeerCode == [Online |-> 1, Offline |-> 2, RelayActive |-> 3]

DeliveryFromU8(b) ==
  CASE b = 1 -> "Delivered" [] b = 2 -> "Dropped" [] b = 3 -> "Queued" [] OTHER -> "Failed"
PeerFromU8(b) == CASE b = 1 -> "Online" [] b = 3 -> "RelayActive" [] OTHER -> "Offline"

-----------------------------------------------------------------------------
(* Bodies.  A message is [type, args], one argument per field. *)

EncodeField(kind, v) ==
  CASE kind = "u32" -> Put(v, U32)
    [] kind = "u64" -> Put(v, U64)
    [] kind = "u8" -> <<v>>
    [] kind = "bool" -> <<IF v THEN 1 ELSE 0>>
    [] kind = "delivery" -> <<DeliveryCode[v]>>
    [] kind = "peer" -> <<PeerCode[v]>>
    [] kind \in {"token", "text"} -> Put(Len(v), U16) \o v
    [] kind \in {"id", "sid", "rest"} -> v

Encode(m) ==
  FoldLeftDomain(LAMBDA s, i : s \o EncodeField(Messages[m.type].fields[i], m.args[i]),
                 <<>>, m.args)

\* The bytes a field takes from slice s, its length prefix included.
FieldSize(kind, s) ==
  CASE kind = "u32" -> U32 [] kind = "u64" -> U64
    [] kind \in {"u8", "bool", "delivery", "peer"} -> 1
    [] kind = "id" -> IdSize [] kind = "sid" -> SidSize
    [] kind \in {"token", "text"} -> U16 + Get(First(s, U16))
    [] kind = "rest" -> Len(s)

DecodeField(kind, b) ==
  CASE kind \in {"u32", "u64", "u8"} -> Get(b)
    [] kind = "bool" -> b[1] # 0
    [] kind = "delivery" -> DeliveryFromU8(b[1])
    [] kind = "peer" -> PeerFromU8(b[1])
    [] kind = "token" -> After(b, U16)
    [] kind = "text" -> FromUtf8Lossy(After(b, U16))
    [] kind \in {"id", "sid", "rest"} -> b

Prefixed == {"token", "text"}

\* One field read off the slice.  Running out of bytes is an error where the decoder
\* compares a length prefix with what remains (an AuthRequest also asks for the version
\* behind its token) and a panic elsewhere.
ReadField(r, kind) ==
  LET short == kind \in Prefixed /\ Len(r.rest) >= U16
               /\ Len(r.rest) < FieldSize(kind, r.rest) + (IF kind = "token" THEN U32 ELSE 0)
      overrun == IF kind \in Prefixed THEN Len(r.rest) < U16
                                      ELSE Len(r.rest) < FieldSize(kind, r.rest)
  IN  CASE r.err # "" -> r
        [] r.err = "" /\ overrun -> [r EXCEPT !.err = "panic"]
        [] r.err = "" /\ short -> [r EXCEPT !.err = "short"]
        [] OTHER -> LET n == FieldSize(kind, r.rest)
                    IN  [args |-> Append(r.args, DecodeField(kind, First(r.rest, n))),
                         rest |-> After(r.rest, n), err |-> ""]

DecodeFields(t, body) ==
  LET r == FoldLeft(ReadField, [args |-> <<>>, rest |-> body, err |-> ""], Messages[t].fields)
  IN  CASE r.err = "short" -> {}
        [] r.err = "panic" -> {Panic}
        [] OTHER -> {[type |-> t, args |-> r.args]}

DecodeUnchecked(known, t, body) ==
  IF t \notin DOMAIN known THEN {} ELSE DecodeFields(t, body)

\* ClientToServerMessage::decode and ServerToClientMessage::decode; a type of the other
\* direction is an error.  Bytes behind the last field are ignored.
Decode(known, t, body) ==
  IF t \notin DOMAIN known \/ Len(body) < known[t].min THEN {} ELSE DecodeFields(t, body)

-----------------------------------------------------------------------------
(* Envelopes: version, type, flags, message id, correlation id, timestamp, *)
(* length, body.  MessageEnvelope::new sets version 1 and no flags.        *)

EnvelopeHeader(version, code, ids, len) ==
  <<version, code>> \o Put(0, U16) \o Put(ids[1], U64) \o Put(ids[2], U64) \o Put(ids[3], U64)
    \o Put(len, U16)

EncodeEnvelopeIntoFrame(m, ids) ==
  IF Len(Encode(m)) > MaxPayloadSize THEN {}
  ELSE {EnvelopeHeader(1, Messages[m.type].code, ids, Len(Encode(m))) \o Encode(m)}

EncodeEnvelope(m, ids) ==
  IF Len(Encode(m)) > MaxEnvelopePayloadSize THEN {}
  ELSE {EnvelopeHeader(1, Messages[m.type].code, ids, Len(Encode(m))) \o Encode(m)}

\* Bytes behind the announced length are ignored.
DecodeEnvelope(s) ==
  IF Len(s) < EnvelopeHeaderSize \/ s[1] # 1 \/ FromU8(s[2]) = {} THEN {}
  ELSE LET u64 == [k \in 1 .. 3 |-> Get(SubSeq(s, 2 + U16 + (k - 1) * U64 + 1, 2 + U16 + k * U64))]
           len == Get(SubSeq(s, EnvelopeHeaderSize - U16 + 1, EnvelopeHeaderSize))
           rest == After(s, EnvelopeHeaderSize)
       IN  IF len > MaxEnvelopePayloadSize \/ Len(rest) < len THEN {}
           ELSE {[type |-> CHOOSE t \in FromU8(s[2]) : TRUE, ids |-> u64,
                  payload |-> First(rest, len)]}

\* EnvelopeCodec::decode_client_message and decode_server_message.
DecodeMessage(known, s) ==
  UNION {{[env |-> e, msg |-> m] : m \in Decode(known, e.type, e.payload)} : e \in DecodeEnvelope(s)}

-----------------------------------------------------------------------------
(* Frames: session id, nonce, payload length, payload, zeros *)

NewFrame(sid, nonce, payload) ==
  IF Len(payload) > MaxPayloadSize THEN {}
  ELSE {[session |-> sid, nonce |-> nonce, payload |-> payload]}

EncodeFrame(f) ==
  f.session \o f.nonce \o Put(Len(f.payload), U16) \o f.payload
    \o [i \in 1 .. MaxPayloadSize - Len(f.payload) |-> 0]

FromSlice(s) ==
  IF Len(s) < FrameSize THEN {}
  ELSE LET len == Get(SubSeq(s, SidSize + U64 + 1, FrameHeaderSize))
       IN  IF len > MaxPayloadSize THEN {}
           ELSE {[session |-> First(s, SidSize),
                  nonce |-> SubSeq(s, SidSize + 1, SidSize + U64),
                  payload |-> SubSeq(s, FrameHeaderSize + 1, FrameHeaderSize + len)]}
=============================================================================
