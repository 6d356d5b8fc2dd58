-------------------------- MODULE ConnectionIntake --------------------------
(***************************************************************************)
(* What the relay does with one accepted connection before its session:    *)
(* handle_connection, PrefixedStream, fall_through_proxy                   *)
(* (src/server/routed_listener.rs; the older src/server/listener.rs where  *)
(* Legacy holds), the record framing of parse_client_hello               *)
(* (src/transport/obfuscation.rs) and server_noise_handshake               *)
(* (src/transport/noise.rs).                                               *)
(*                                                                         *)
(* The client's byte stream is the positions 1, 2, 3, ...: what matters is *)
(* how TCP cuts it, and which consumer, Noise or the fallback site, gets   *)
(* which bytes of it.  What the bytes say is the record `client`.          *)
(***************************************************************************)
EXTENDS Naturals, Sequences, FiniteSetsExt

CONSTANTS
  Clients,     \* the client streams considered
  HeaderLen,   \* bytes of a TLS record header (5)
  FirstRead,   \* size of the buffer of the first read (1024)
  MaxHello,    \* MAX_CLIENT_HELLO_SIZE (4096)
  NoiseLen     \* length prefix and Noise message 1 (2 + 48)

\* tls: the first byte is 0x16; recordLen: the record header's length field;
\* hello: what the record's body is; direct: the first two bytes are a length
\* in 32..=128; total: how many bytes the client sends before it closes.
\* relay: which listener it has reached, and whether that one has token
\* validation switched off.
ClientStream == [tls : BOOLEAN, recordLen : Nat,
                 hello : {"token", "noToken", "malformed"},
                 direct : BOOLEAN, total : Nat,
                 relay : [legacy : BOOLEAN, insecure : BOOLEAN]]

ASSUME IntakeAssumption ==
  /\ Clients \subseteq ClientStream
  /\ HeaderLen \in Nat \ {0} /\ FirstRead \in Nat \ {0}
  /\ MaxHello \in Nat /\ NoiseLen \in Nat
  /\ HeaderLen <= MaxHello

VARIABLES
  client,     \* the client's stream
  arrived,    \* bytes that have arrived at the relay's socket
  taken,      \* bytes read from the socket
  phase,      \* where the handler stands
  initial,    \* the bytes read so far, as positions
  extra,      \* reads after the first one
  prefix,     \* the unread bytes of PrefixedStream's prefix
  sink        \* the bytes the consumer has got (history)

vars == <<client, arrived, taken, phase, initial, extra, prefix, sink>>

Init ==
  /\ client \in Clients
  /\ arrived = 0
  /\ taken = 0
  /\ phase = "first"
  /\ initial = <<>>
  /\ extra = 0
  /\ prefix = <<>>
  /\ sink = <<>>

Legacy == client.relay.legacy
Insecure == client.relay.insecure

\* The next n bytes of the socket.
FromSocket(n) == [i \in 1 .. n |-> taken + i]

Available == arrived - taken

\* The client sends a segment.
Arrive ==
  /\ arrived < client.total
  /\ \E n \in 1 .. client.total - arrived : arrived' = arrived + n
  /\ UNCHANGED <<client, taken, phase, initial, extra, prefix, sink>>

\* End of stream, an I/O error or a timeout: the handler returns.
Close ==
  /\ phase' = "closed"
  /\ UNCHANGED <<client, arrived, taken, initial, extra, prefix, sink>>

-----------------------------------------------------------------------------
(* The first read, and the ClientHello.                                     *)

\* The direct Noise path, for a first read that is no TLS record.
IsDirectNoise(n) == client.direct /\ n >= 2 /\ (Insecure \/ Legacy)

ReadFirst ==
  /\ phase = "first"
  /\ Available > 0
  /\ LET n == Min({Available, FirstRead}) IN
     /\ initial' = FromSocket(n)
     /\ taken' = n
     /\ \/ client.tls /\ phase' = "parse" /\ UNCHANGED prefix
        \/ /\ ~ client.tls
           /\ IsDirectNoise(n)
           /\ phase' = "noise"
           /\ prefix' = FromSocket(n)
        \/ /\ ~ client.tls
           /\ ~ IsDirectNoise(n)
           /\ phase' = "connect"
           /\ UNCHANGED prefix
  /\ UNCHANGED <<client, arrived, extra, sink>>

\* Mutant: the first read has no timeout.
FirstFailsAtEof == phase = "first" /\ client.total = 0 /\ Close

FirstFails == phase = "first" /\ Close

RecordEnd == HeaderLen + client.recordLen

\* Mutant: the record is taken to end with its header.
ParseHeaderOnly(n) ==
  IF n < HeaderLen THEN [status |-> "more", expected |-> HeaderLen]
  ELSE IF client.hello = "malformed" THEN [status |-> "invalid", expected |-> 0]
  ELSE [status |-> "complete", expected |-> 0]

\* parse_client_hello on the first n bytes: its framing, and the verdict on the
\* body once the whole record is there.
ParseClientHello(n) ==
  IF n < HeaderLen THEN [status |-> "more", expected |-> HeaderLen]
  ELSE IF RecordEnd > MaxHello THEN [status |-> "invalid", expected |-> 0]
  ELSE IF n < RecordEnd THEN [status |-> "more", expected |-> RecordEnd]
  ELSE IF client.hello = "malformed" THEN [status |-> "invalid", expected |-> 0]
  ELSE [status |-> "complete", expected |-> 0]

Parsed == ParseClientHello(Len(initial))

\* TokenValidator::validate, and the switch that bypasses it.
Validate == Insecure \/ client.hello = "token"

\* The bytes of `initial` after the record.
Leftover == SubSeq(initial, RecordEnd + 1, Len(initial))

Authenticated ==
  /\ phase = "parse"
  /\ Parsed.status = "complete"
  /\ Validate
  /\ phase' = "noise"
  /\ prefix' = Leftover
  /\ UNCHANGED <<client, arrived, taken, initial, extra, sink>>

\* Mutant: one read after the first must do.
WantsMoreOnce ==
  /\ Parsed.status = "more"
  /\ Parsed.expected <= MaxHello
  /\ Parsed.expected > Len(initial)
  /\ extra = 0

\* The legacy listener parses a second time only once.
WantsMore ==
  /\ Parsed.status = "more"
  /\ Parsed.expected <= MaxHello
  /\ Parsed.expected > Len(initial)
  /\ Legacy => extra = 0

NotAuthenticated ==
  /\ phase = "parse"
  /\ Parsed.status = "complete" => ~ Validate
  /\ ~ WantsMore
  /\ phase' = "connect"
  /\ UNCHANGED <<client, arrived, taken, initial, extra, prefix, sink>>

AskMore ==
  /\ phase = "parse"
  /\ WantsMore
  /\ phase' = "rest"
  /\ UNCHANGED <<client, arrived, taken, initial, extra, prefix, sink>>

\* Mutant: the buffer for the rest has the size of the whole record.
ReadRestWhole ==
  /\ phase = "rest"
  /\ Available >= Parsed.expected - Len(initial)
  /\ LET n == Min({Parsed.expected, Available}) IN
     /\ initial' = initial \o FromSocket(n)
     /\ taken' = taken + n
  /\ extra' = extra + 1
  /\ phase' = "parse"
  /\ UNCHANGED <<client, arrived, prefix, sink>>

\* read_exact fills `rest`.
ReadRest ==
  /\ phase = "rest"
  /\ LET n == Parsed.expected - Len(initial) IN
     /\ Available >= n
     /\ initial' = initial \o FromSocket(n)
     /\ taken' = taken + n
  /\ extra' = extra + 1
  /\ phase' = "parse"
  /\ UNCHANGED <<client, arrived, prefix, sink>>

\* read_exact fails or times out.  The legacy listener goes on to the fallback;
\* what read_exact had read by then is gone.
RestFails ==
  /\ phase = "rest"
  /\ \/ ~ Legacy /\ Close
     \/ /\ Legacy
        /\ Available < Parsed.expected - Len(initial)
        /\ taken' = arrived
        /\ phase' = "connect"
        /\ UNCHANGED <<client, arrived, initial, extra, prefix, sink>>

-----------------------------------------------------------------------------
(* The consumers: Noise through PrefixedStream, or the fallback site.       *)

\* Mutant: the socket is read before the prefix is used up.
PollReadSocketFirst(n) ==
  \/ /\ Available > 0
     /\ LET k == Min({n, Available}) IN
        /\ sink' = sink \o FromSocket(k)
        /\ taken' = taken + k
     /\ UNCHANGED prefix
  \/ /\ Available = 0
     /\ prefix # <<>>
     /\ LET k == Min({n, Len(prefix)}) IN
        /\ sink' = sink \o SubSeq(prefix, 1, k)
        /\ prefix' = SubSeq(prefix, k + 1, Len(prefix))
     /\ UNCHANGED taken

\* PrefixedStream::poll_read into a buffer of n bytes.
PollRead(n) ==
  \/ /\ prefix # <<>>
     /\ LET k == Min({n, Len(prefix)}) IN
        /\ sink' = sink \o SubSeq(prefix, 1, k)
        /\ prefix' = SubSeq(prefix, k + 1, Len(prefix))
     /\ UNCHANGED taken
  \/ /\ prefix = <<>>
     /\ Available > 0
     /\ LET k == Min({n, Available}) IN
        /\ sink' = sink \o FromSocket(k)
        /\ taken' = taken + k
     /\ UNCHANGED prefix

\* The handshake and the session read with buffers of the size they still need.
NoiseRead ==
  /\ phase = "noise"
  /\ Len(sink) < NoiseLen
  /\ PollRead(NoiseLen - Len(sink))
  /\ UNCHANGED <<client, arrived, phase, initial, extra>>

\* Message 1 is accepted and message 2 written.
NoiseDone ==
  /\ phase = "noise"
  /\ Len(sink) = NoiseLen
  /\ phase' = "session"
  /\ UNCHANGED <<client, arrived, taken, initial, extra, prefix, sink>>

NoiseFails == phase = "noise" /\ Close

SessionRead ==
  /\ phase = "session"
  /\ \E n \in {1, client.total} : PollRead(n)
  /\ UNCHANGED <<client, arrived, phase, initial, extra>>

\* Mutant: the fallback site does not get what was read before.
ProxyConnectedBare ==
  /\ phase = "connect"
  /\ phase' = "proxy"
  /\ UNCHANGED <<client, arrived, taken, initial, extra, prefix, sink>>

\* The fallback site is connected and gets what has been read so far.
ProxyConnected ==
  /\ phase = "connect"
  /\ phase' = "proxy"
  /\ sink' = initial
  /\ UNCHANGED <<client, arrived, taken, initial, extra, prefix>>

\* No target, no connection within 3 s, or a failed write.
ProxyFails == phase = "connect" /\ Close

\* copy_bidirectional.
ProxyCopy ==
  /\ phase = "proxy"
  /\ Available > 0
  /\ sink' = sink \o FromSocket(Available)
  /\ taken' = arrived
  /\ UNCHANGED <<client, arrived, phase, initial, extra, prefix>>

ProxyEnds == phase = "proxy" /\ Close

SessionEnds == phase = "session" /\ Close

Closed == phase = "closed" /\ UNCHANGED vars

Next ==
  \/ Arrive
  \/ ReadFirst \/ FirstFails
  \/ Authenticated \/ NotAuthenticated \/ AskMore \/ ReadRest \/ RestFails
  \/ NoiseRead \/ NoiseDone \/ NoiseFails \/ SessionRead \/ SessionEnds
  \/ ProxyConnected \/ ProxyFails \/ ProxyCopy \/ ProxyEnds
  \/ Closed

\* Parsing does not wait.  The reads of the first bytes, of the rest and of
\* message 1, the connection to the fallback site and the copy have timeouts.
\* The writes of message 2 and of the buffered bytes have none: that these few
\* bytes are written or refused is an assumption.
Fairness ==
  /\ WF_vars(Authenticated \/ NotAuthenticated \/ AskMore)
  /\ WF_vars(FirstFails) /\ WF_vars(RestFails \/ ReadRest)
  /\ WF_vars(NoiseFails \/ NoiseDone)
  /\ WF_vars(ProxyConnected \/ ProxyFails) /\ WF_vars(ProxyEnds)

Spec == Init /\ [][Next]_vars /\ Fairness

-----------------------------------------------------------------------------
(* Properties.                                                              *)

\* The handler buffers no more than the larger of its two limits before it decides
\* about a connection, whatever length the record announces, and reads at most twice
\* after the first read: each further read is for the length the parser asked for
\* (`vec![0; expected - initial.len()]` is sized by a field of the client's).
BufferBounded ==
  /\ Len(initial) <= Max({FirstRead, MaxHello})
  /\ extra <= 2

\* s is a piece of the client's stream without gap or repetition.
IsRun(s, start) == \A i \in DOMAIN s : s[i] = start + i

\* Noise gets exactly the client's bytes after the ClientHello record (all of
\* them on the direct path), in order, none lost and none twice, however the
\* stream was cut into segments.
NoiseGetsTheRest ==
  phase \in {"noise", "session"} =>
    IsRun(sink \o prefix, IF client.tls THEN RecordEnd ELSE 0)

\* The legacy listener reads once more after the first read and then gives up on
\* a ClientHello that is still incomplete, with the bytes a failed read took.
GaveUp == Legacy /\ Parsed.status = "more"

\* The fallback site gets the client's whole stream from its first byte, unless
\* the legacy listener gave up on its ClientHello ("transparently bridging
\* streams", src/server/listener.rs:462).
FallbackGetsAll == phase = "proxy" /\ ~ GaveUp => IsRun(sink, 0)

\* Noise starts only for a client whose complete ClientHello was validated, or
\* on the direct path where it is allowed.
OnlyAdmitted ==
  phase \in {"noise", "session"} =>
    \/ client.tls /\ (client.hello = "token" \/ Insecure) /\ Len(initial) >= RecordEnd
    \/ ~ client.tls /\ client.direct /\ (Insecure \/ Legacy)

\* A client that sends the whole of a ClientHello with a valid token, in a record
\* within the limit, is never handed to the fallback site, however its bytes were
\* cut into segments, unless the legacy listener gave up on it.
SegmentationIrrelevant ==
  phase \in {"connect", "proxy"} /\ ~ GaveUp =>
    ~ (/\ client.tls /\ client.hello = "token"
       /\ RecordEnd <= MaxHello /\ RecordEnd <= client.total)

\* The handshake is over in bounded time, in a session or closed: the permit of
\* a client that dawdles comes back.
IntakeEnds == (phase \notin {"session", "closed"}) ~> (phase \in {"session", "closed"})

=============================================================================
