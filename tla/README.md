# A TLA+ model of the EchoMesh relay

This directory models the EchoMesh relay (`src/`) in TLA+: the sessions and the
routing table of the production listener, its accept loop, what happens to a
connection before its session, the client's request/response correlation, the
older listener's sessions, the credential files, the transports and the wire format.
An abstract relay says what the sessions promise, and the sessions are shown to
implement it. TLC checks small instances of every module; TLAPS proves the safety
properties of all of them but the encoders and decoders, for every number of connections,
peers, bytes, frames, calls and invocations.
`PROJECT.json` lists the runs, the lines each definition models, the hazards and the
findings.

Paths below are relative to the crate (`src/server/routed_listener.rs` is
`src/src/server/routed_listener.rs` in the repository).

## The system and its parts

The relay accepts TCP connections, tells its own clients from others by a token in
a TLS ClientHello, runs a Noise NK handshake with its own and proxies the others to
a fallback site. A client registers a 32-byte peer id; frames for a peer are
forwarded to the bounded queue of the connection registered under it. All state but
the credentials is in memory.

| Part | Source | Module | Modelled |
|---|---|---|---|
| Routing table | `server/routed_listener.rs` 24-83 | `RouteRegistry` | yes |
| Routed session: reader, writer, table lock | `server/routed_listener.rs` 209-541 | `RoutedSession` | yes |
| What the sessions promise | | `MessageRelay`, `RoutedRefinement` | abstract specification and refinement mapping |
| Accept loops, permits, shutdown | `server/routed_listener.rs` 121-152, `server/listener.rs` 200-269, `main.rs` 68-135 | `RelayListener` | yes |
| Admission, handshake, proxy | `server/routed_listener.rs` 88-207, `server/listener.rs` 30-501, `transport/noise.rs` | `ConnectionIntake` | control yes; Noise as outcomes |
| ClientHello: builder, parser, token check | `transport/obfuscation.rs` | `ClientHello`, `MessagePath` | yes, with scaled widths |
| Client API, actor, correlation | `client/` | `ClientCorrelation` | all but `connect`'s handshake |
| The client on the relay | `client/session.rs`, `server/routed_listener.rs` | `ClientOnRelay` | yes |
| Legacy session, managers, pipeline, handlers | `server/listener.rs` 503-579, `server/{connections,sessions,networking,routing,handlers}` | `LegacySession` | yes, without last-activity times |
| Credential files | `crypto/keys.rs`, `server/config.rs`, `main.rs` 14-66 | `KeyStore`, `KeyText` | yes, without path resolution |
| Messages, envelopes, frames | `protocol/` | `WireFormat`, `MessagePath` | yes, with scaled widths |
| Noise framing, `SecureTransport`, `TcpTransport`, `MemoryTransport`, `FrameCodec` | `transport/`, `protocol/frame.rs` | `FrameStream` | yes, one direction at a time |
| Client handshake, argument parsing, config builders, envelope validation, error types, unused `networking/writer.rs` | | - | no, see "Not modelled" |

`RelayListener` knows of a handler only how it ends; `ConnectionIntake` is the
handler up to the session and `RoutedSession` the session itself. The three meet at
named points (`session`, `closed`, `done`, `failed`). `ClientOnRelay` composes the client
and a session, `MessagePath` compares the parser of `ConnectionIntake` with the real
one.

## Modules

**RouteRegistry, RoutedSession.** `routes` is `RouteRegistryInner` with its two maps.
Each connection has a reader (`pc`, `cur`, `registered`, `target`) and a writer
(`writer`, `inflight`) with a bounded `queue`. An `await` is a step boundary: the
reader reads a frame (`ReadRegistration`, `ReadRouted`, `ReadAnswered`,
`ReadDropped`, `ReadEof`, `ReadError`), gets the lock (`Register`, `LookupHit`,
`LookupMiss`, `Evict`, `Unregister`), or waits for a slot (`Respond`, `ForwardOk`,
`AckForward`). The tokio `RwLock` is fair: `lockQueue` is the order of arrival.
Guards last one step, but for the Ack branch, whose read guard is a temporary of the
`if let` and lives until the event is queued (`lockReaders`). The writer ends when
no `Sender` is left: the reader's, those in the table, and those a reader has
cloned out of it (`HasSender`). A client takes what its writer writes or stops doing so:
a write may never end. `owned`, `delivered`, `lost` are history variables.

**MessageRelay, RoutedRefinement.** The relay as its clients see it: one directory from
peers to connections and one unbounded mailbox per connection, without tasks, locks or
queue limits. A message is bound for the connection the directory names when it is asked;
then it goes into that mailbox behind all that is there, or is lost because the mailbox
is shut. The reply is queued before the message and says what the directory said.
`RoutedRefinement` maps the sessions to it: the directory is `by_peer_id`, a mailbox is
the queue with the frame the writer holds in front of it, the message in hand is what the
reader holds while it waits for the lock or a slot.

**RelayListener.** `loop` is the place in `run_with_shutdown`: `accept`, then
`permit` with the accepted stream in `inHand`. Both are a `select!` with the shutdown
channel (`signal`, `unseen`, `senderAlive`). A handler's stage is `intake`, `session`,
then closed, or `orphan` when the session failed and its writer keeps the socket. In the
legacy listener (`legacy`) a connection that finds a permit free is handled at once.

**ConnectionIntake.** A client's stream is a run of byte positions cut anywhere; the
record `client` says what the bytes mean. `initial` is the handler's buffer, `prefix`
the prefix of `PrefixedStream`, `sink` what the consumer (Noise or the fallback site)
has got. The record also says which relay the client meets: `Legacy` for the older
listener, `Insecure` for the mode without a token.

**ClientCorrelation.** Calls take an id, queue a frame, register as pending and wait;
the actor task moves frames. It leaves its `select!` to write one (`SendOutbound`) and
comes back when the socket has taken it (`FrameSent`), which may never be; until then it
polls nothing else. `partial` and `inSync` model that `select!` drops a
half-done `recv_frame` with the bytes it had read. The server may send events with any
correlation id of `EventIds`, as the relay does when it reports a delivery. The client may
be dropped when no call runs (`DropClient`); the actor goes on, with `changed()` failing.

**ClientOnRelay.** Both machines as instances, joined by the frames: what the actor writes
the session reads, and what its writer writes the client reads.

**LegacySession.** One task per connection, which both answers into its queue and
drains it; both managers as far as the sessions use them. All connections have one
session id, as in the code. The history variable `ahead` is how many requests were
unanswered when the client sent a further frame.

**KeyStore.** An invocation of the binary loads or creates `relay.key`, `relay.pub`,
`relay.token` and `relay.json`. A write is a truncating open and a write, with a kill
or an I/O error possible before each; an error of the stat behind `exists()` makes the key
look missing (`StatError`). Three history variables tell the behaviours apart: `overlap`,
two invocations ran at once; `race`, one started while another was making the first key;
`blind`, one took a key that was there for missing.

**WireFormat, KeyText, ClientHello, MessagePath.** Encoders and decoders as operators on
sequences of digits; the set of results is empty where the code returns an error.
`KeyText` has hexadecimal, Base64 and the guess at a key file's format, `ClientHello` the
builder, the parser as a cursor that fails once and for all, and the validator.
`MessagePath` takes a message, a foreign payload, a ClientHello (built, or with one byte
changed) or a key through them.

**FrameStream.** One direction of a stream of frames over one of four media:
`NoiseFramedStream`, `SecureTransport` over `TcpTransport` and over `MemoryTransport`, and
`FrameCodec`. A byte is its frame's number and its place in it, so that what is decrypted
shows whether the stream is in step. Either side may drop a call half way, the sender may
close or go, and the connection may lose what is on its way (`lost`).

## Runs

Passing runs:

| Run | Shows |
|---|---|
| `SessionExchange` | a peer sends all kinds of frames while another reconnects and a third shares that one's 16-byte prefix: both maps agree, a clean end leaves no route, no route to a live session is removed, by an older session or late, except from a slot of `by_prefix` that two peers share; nothing goes to a connection that did not register the address or back to the sender; per pair in order and at most once |
| `SessionContention` | queues of one slot, the lock held across a full queue: the sessions implement `MessageRelay` (so that `accepted` stands for a message that is delivered or lost with the recipient's writer), and a frame that is not handled or a disconnect that does not complete waits for a client that has stopped reading |
| `Listener` | both accept loops: permits and handlers add up on every path; only a shutdown refuses an accepted connection; shutdown stops the loop also when all permits are taken; clients wait only behind established sessions |
| `Intake` | both listeners, with and without tokens: the consumer gets exactly the client's bytes from the right place on; only admitted clients reach Noise; segmentation does not matter, the buffer is bounded, the intake ends |
| `ClientCalls` | a call gets its own answer; the pending map is accounted for; no event is skipped; calls return, disconnect stops the actor, and an echo is written although the client is dropped, unless a write never ends |
| `Legacy` | answers are exactly those due, in order; the session map never names a dead connection; frames are dispatched and sessions close, within the limits below |
| `KeyRestart` | invocations in sequence or two at once, with up to two kills or I/O errors anywhere, a failing stat included: when key and token are kept, and that the next start repairs the files |
| `WireMessages` | messages around the size limits arrive as sent or are refused for their size; no payload makes a decoder read past its slice; an accepted message fits its event; a client's ClientHello is parsed to what was built and admitted for its own token alone, up to the size limit; on every prefix of every ClientHello, damaged ones included, the parser is the one `ConnectionIntake` assumes; a key file in any format gives the key |
| `WireStream` | whatever is dropped or lost, frames are returned in order from the first on, never behind a gap; if nothing was, all that were sent are; the end of the sender is seen |

Runs that find a violation, each of a sentence of the code or its documents
(`PROJECT.json`, findings):

| Run | The code |
|---|---|
| `SessionErrorExit` | a session that fails leaves its route, and with it the writer and the socket |
| `ClientRace` | a response that comes before `register_pending` is dropped |
| `ClientOnRelay` | the client sends its requests on the echo route and never registers; the routed listener drops them without an answer |

### Limits stated in the passing properties

Some properties hold up to a limit that lies in the code. The limit is part of the
property, and the run goes beyond it:

- `LiveRouteKept`: a slot of `by_prefix` is cleared for all peers that share the prefix,
  because `remove_connection` does not ask whose entry is there (`routed_listener.rs` 66).
  A live peer then gets no raw frames until it registers again.
- `FrameHandled`, `DisconnectCompletes`: unless a client has stopped reading while its
  connection stays up. The write at `routed_listener.rs` 234 has no timeout, so its queue
  fills, and whoever waits for a slot waits on; an Ack that does so keeps the table's read
  lock (435-449), and with it every registration, removal and later lookup (`AwaitsClient`).
- `CallReturns`: unless the call finds the outbound queue full and the actor is held in a
  write. The timeout starts after the frame is queued (`client/api.rs` 143-146,
  `outbound_router.rs` 59).
- `DisconnectStops`, `EchoWritten`: unless the actor is held in a write, during which it
  polls no shutdown and takes no further frame (`client/api.rs` 103-108).
- `DisconnectCompletes`: of a session that registered one peer id. With two, only the last
  is unregistered, the table keeps a sender of the session's own queue under the first, and
  `writer_task.await` never returns (`routed_listener.rs` 530-540).
- `NothingLost`: of streams that lose no byte. An end after one byte of a length is reported
  as a clean one (`tcp.rs` 66, `noise.rs` 291).
- `EndSeen`: a `MemoryTransport` ends when it is dropped. Its `close` sets a flag of its own
  side only, and the peer waits on (`memory.rs` 65), unlike `traits.rs` 14 says.
- `HelloAdmitted`: with the token in the server name the validator must hold its
  hexadecimal form, as in the test at `obfuscation.rs` 579; a relay holds the token itself.
- `FramesDispatched`: of a legacy client that waits for each answer. With a request under
  way its answer can make `select!` drop a half-read frame (`server/listener.rs` 550).
- `SessionCloses`: while fewer than `QueueCapacity` requests were unanswered. Beyond that
  the task waits for the queue that only it drains (`networking/pipeline.rs` 78).
- `FallbackGetsAll`, `SegmentationIrrelevant`: unless the legacy listener gave up on an
  incomplete ClientHello (`GaveUp`). It reads on only once, so that a first segment that
  ends within the record header makes it reject a good client, and what a failing
  `read_exact` had taken never reaches the fallback site (`server/listener.rs` 364-399).
- `KeyStable`, `PublishedInSync`: unless two invocations made the first key at
  the same time (`race`). `KeyStable` also excepts a failing stat of an existing key, which
  is then replaced (`blind`, `crypto/keys.rs` 314), and `PublishedInSync` is about runs
  without a fault. A kill between creating and writing `relay.key` leaves an empty
  file that later starts refuse (`crypto/keys.rs` 267-273, 319): none of them completes.
- `TokenKept`: up to one fault; two interrupted starts in a row can empty both token files
  (`server/config.rs` 205-211). `TokenKept` and `RestartHeals` are about invocations that do
  not overlap.

Some statements of the documents are not claimed because the code does not keep them:
that events have correlation id 0 (`docs/architecture/networking.md` 300; the relay puts
the acknowledged id there, `routed_listener.rs` 440-443), and that `max_connections`
bounds the open sockets (`INSTALL_RU.md` 154; the socket of a failed session stays open
with its permit returned, stage `orphan` of `RelayListener`). Nor is it claimed that
`SessionManager` knows every live session: the end of one connection removes the session
all of them share (`server/listener.rs` 576).

### Bounds

Queues hold one or two frames instead of 256 (routed session) or 64 (legacy session and
client): full and empty are what the code distinguishes. Three connections suffice for a
reconnect racing a sender, and three frames of the sender (`MaxFrames`) for registration
and two messages; in `SessionContention` it has four, so that one is in the writer's
hands, one fills the queue and one waits for the slot. Each run's `Offer`
(`MCRoutedSession`, `MCLegacySession`) says which frames a client may send, so that the
runs stay small and each one reaches its case. The listener has four connections for two
permits: two handled, one in hand, one in the backlog. The intake has a two-byte header,
a four-byte first read and a limit of six, with streams of up to nine bytes: records
shorter than the first read, between it and the limit, at the limit and beyond. The
client has three calls and a queue of one slot, so that one frame is being written, one is
queued and one call waits for the slot; calls and events together are at most three
(`MaxMessages`), and an event's correlation id is that of a call. Calls are numbered in the
order of their ids, which leaves out only renamings. A legacy client sends three frames to a queue of two. `KeyRestart`
has three invocations, two at a time, and two faults: one that completes or is
interrupted, one that repairs, one that reads; the symmetry is over invocations, which
are alike. The wire format has digits in base 16, two-digit lengths and payload limits of
15 and 6, so that bodies on both sides of the limits and length fields beyond the buffer
all occur; the ClientHello has a random of three bytes with tokens of up to four, and a
limit of 90 bytes with names that keep below it, reach it, exceed it and wrap the length
around. Bytes of four bits and characters of three keep the groups of Base64. `FrameStream`
has three frames of three bytes, a memory channel of two, and TCP limits one below, at and
one above the packet size. `ClientOnRelay` has two calls, one session and two frames.

### Deadlock

Terminal states loop explicitly, so TLC's deadlock check is on, except where the code
really can stop with work left: `SessionErrorExit` (a failed session leaves its writer
waiting), `ClientOnRelay` (the client stays idle on an open connection), `Legacy` (the task
waits for its own queue), and `SessionContention`, where a client that stops sending leaves an idle reader
and the liveness properties say what must go on.

### Fairness

- `RoutedSession`: strong fairness of each reader's steps, because tokio's lock and its
  bounded channel serve those who wait in order, and weak fairness of the writer's steps
  other than the write itself. No write has to end, and nothing is assumed of clients'
  sending: what a client that stops reading can hold up is part of the properties.
- `RelayListener`: the loop, and the end of each intake. The code bounds the reads by
  `handshake_timeout`, the first Noise message by 5 s, the proxy's connect by 3 s and its
  copy by 30 s. The writes of Noise message 2 and of the buffered bytes to the fallback
  site have no timeout; that these few bytes are written or refused is assumed. Sessions
  may last for ever.
- `ConnectionIntake`: the same timeouts, one by one.
- `ClientCorrelation`: timers fire, the actor is polled, waiting senders are served, and
  `select!` takes a branch that stays ready. With finitely many calls weak fairness is
  enough. No write has to end, and the server may never answer.
- `LegacySession`: the task is polled, a write ends or fails, and the end of a client's
  stream is seen. A legacy client that stays connected and does not read is left out.
- `FrameStream`: the receiver's caller asks for frames until it gets the end. Nothing is
  assumed of the sender.
- `KeyStore`, `MessagePath` and `ClientOnRelay` have safety properties only.

## Proofs

TLAPS proves, for every value of the constants that satisfies the named assumptions:

| Module | Theorem | Establishes |
|---|---|---|
| `RoutedSessionProofs` | `TypeCorrect` | `Spec => []TypeOK`, with the capacity bound of every queue |
| | `TableConsistent` | `Spec => []IndicesAgree` |
| | `CleanExit` | `Spec => []CleanExitUnregisters` |
| | `LiveRoutesKept` | `Spec => LiveRouteKept`, an action property of both maps |
| | `DeliveredWhereAddressed` | `Spec => []NoMisdelivery` |
| | `DeliveredInOrder` | `Spec => []InOrderOnce` |
| `RefinementProofs` | `PromiseKept` | `Spec => KeepsPromise`: the sessions implement `MessageRelay` |
| `ListenerProofs` | `PermitsHold` | `Spec => []PermitsAccounted`, of both accept loops |
| | `NeverRefusedForLoad` | `Spec => []RefusedOnlyAtShutdown` |
| `ClientProofs` | `OwnAnswers` | `Spec => []OwnAnswer` |
| | `PendingHolds` | `Spec => []PendingAccounted` |
| | `EventsHeard` | `Spec => []NoEventSkipped` |
| `IntakeProofs` | `NoiseGetsItsBytes` | `Spec => []NoiseGetsTheRest` |
| | `FallbackGetsItsBytes` | `Spec => []FallbackGetsAll` |
| | `AdmissionChecked` | `Spec => []OnlyAdmitted` |
| | `CutsDoNotMatter` | `Spec => []SegmentationIrrelevant` |
| | `BufferStaysBounded` | `Spec => []BufferBounded` |
| `LegacyProofs` | `MappingStaysLive` | `Spec => []MappingLive` |
| | `AnswersAreExact` | `Spec => []AnswersExact` |
| `KeyStoreProofs` | `OneKeyForAll` | `Spec => []KeyStable` |
| | `PublicKeyInSync` | `Spec => []PublishedInSync` |
| | `CompletedStartHeals` | `Spec => RestartHeals`, an action property |
| | `SavedTokenFound` | `Spec => TokenKept`, an action property |
| `StreamProofs` | `FramesReturnedInOrder` | `Spec => []FramesInOrder` |
| | `EveryFrameReturned` | `Spec => []NothingLost` |

**Assumptions.** Each is in the module that declares the constants, and TLC evaluates it
on the runs of that module: `RegistryAssumption` (`None` is no connection, peer or route,
prefixes are route ids), `SessionAssumption` (the offered frames are client frames),
`BoundAssumption` and `FrameAssumption` (`None` is no frame), `SlipAssumption` (`None` is
no message in hand), `ListenerAssumption` (finitely many connections, at least one permit),
`ClientAssumption` (a queue of at least one slot, calls and events with numbers), `IntakeAssumption` (a header of at least
one byte that fits in a ClientHello of the largest size), `LegacyAssumption` (`None` is no
connection, a queue of at least one slot, each client offers a sequence of frames),
`KeyStoreAssumption` and `SavedAssumption` (an absent or an empty file is neither a key, nor
a token, nor a saved configuration), `StreamAssumption` (a ciphertext and a memory channel
of at least one byte and one packet).

**Sessions.** `TypeOK` is not inductive: whether a step keeps it depends on what the
reader holds at that point. `Inv` adds `ReaderContext`: which of the reader's variables
are set at which `pc`, and that a reader about to evict an entry found that entry's writer
stopped (a writer never starts again). `InvStep` has one step per action, the reads of a
frame sharing the lemma `ReadInv`. Only `Register`, `Unregister` and `Evict` change the
table (`TableStep`), so the three other theorems reduce to `Insert` and
`RemoveConnection`: both keep the maps in agreement (`InsertAgrees`, `RemoveAgrees`),
removal takes only the entry of the given connection (the `connection_id` guard) and the
slot of its prefix (`RemovalStep` says who may remove), and
what is no longer current can become so again only by a registration of the same
connection, which a session past its read loop cannot do.

**Delivery.** A reader looks a route up in one step and uses it in a later one, when the
table may say something else. `DeliveryInv` therefore does not speak of the table: `Owns`
says that what a session or a route is filed under was registered by its connection, which
nothing takes back; `Bound` that a route in a reader's hands fits the frame it was looked
up for; `Kept` that what is queued, in a writer's hands or written fits its connection.
`BoundSource` shows that only `LookupHit` puts a route in a reader's hands, `FoundFits`
that it fits there; that a raw frame finds no route of its sender's own peer id uses
`IndicesAgree`.

**Order.** `OrderInv` relates every frame in a stream, and every lost one, to the progress
of the reader that caused it: `Due` says that a reply (a routed form) of a reader's current
frame exists only when the reader is past its reply (its send). A new frame is then the
latest of its flow and the only one with its key. When a writer fails, what it drops is
kept apart from what it has written by the order of its own stream (`OrderedCut`).

**Refinement.** Each action of `RoutedSession` has a lemma `...Maps` that it is, under the
mapping, one step of `MessageRelay` or none; `StepMaps` joins them. `RefInv` adds to `Inv`
and `IndicesAgree` two facts: `FrameContext`, what kind of frame a reader holds while it
waits, and `GapMeansAway`, that an unused prefix has a peer that is away. The second is
needed because the abstract relay has no `by_prefix`: a lookup by prefix that finds
nothing must be explained by the one directory it has.

**Listener.** Permits and handlers are counted, so the proof is about cardinalities:
starting a handler adds one to the set of busy connections, its end takes one
(`BusyGrows` and its counterparts). `ListenerInv` adds to the count that a
connection waits at one place only (`Waiting`); without it the same connection could be
handled twice and be counted once.

**Client.** That an answer belongs to the call rests on where its id can be. `ClientInv`
says that ids are issued once (`Ids`), that a request is in the queue, being written, with
the server or answered, and at one of these only (`Flow`), and that a call returns the id it asked with
(`Results`). Events need a second invariant, `EventInv`: there is a number up to which they
were read, the unread ones are exactly those above it, in order, and a handler that has
heard any has heard the last one read.

**Intake.** `IntakeInv` adds to the properties where every byte is (`Held`: what was read
is in `initial`, or in `sink` and then `prefix`, at its place) and how far each further
read gets (`Bounds`: the first makes up the header, the second the record). Bytes are their
positions in the client's stream, so that a run of positions stands for a piece of it.

**Legacy sessions.** `LegacyInv` says that a connection is in the manager's map exactly
while its task is between its two calls, and that the session is bound to a connection only
then. For the answers `AnswerInv` adds the types and that a task about to answer has a frame
that deserves an answer; `ExactSend`, `ExactSkip` and `ExactAnswer` say what a frame sent, a
frame skipped and an answer do to a list of exact answers.

**Credential files.** `KeyInv` is a ladder, each rung under the condition it needs. Always:
what a process holds where it stands (`Context`). Without a race for the first key and
without a key overlooked: only one process runs until there is a key, it alone makes it, and whoever is past that point holds
the key on disk, to which everything published belongs (`OneKey`, `Published`). Without
faults too: an empty file is under the hands of a process (`InHand`). Without overlap: what
the one running process has written is in the files (`Alone`), and after a completed start
one fault leaves one of the two token files readable whenever a process looks there
(`Kept`). The ladder is needed because each property gives up a different condition.

**Streams.** `StreamInv` has one part for what was returned and one for what is on its way.
Decryption orders the first by itself: a frame is returned only when the nonce is its
number (`Decrypted`), so order survives any loss. `FrameCodec` has no such guard, and order
rests on the receiver being at a packet boundary (`Aligned`): byte by byte, the buffer and the
wire are packets from the next frame on. `Complete` adds the count: with nothing lost, bytes
held and on the wire are just the packets accepted and not returned, so an empty stream at
its end means that all were. Whole packets make this arithmetic a product, and the lemmas on
`Run` (a packet more, a packet less, a prefix taken) keep the products out of the steps.

`TypeOK` of the session, listener, client, intake, credential and stream modules is proved
and in no run, where the other properties say more.

**Only model-checked.** All liveness properties: the prover has no fairness reasoning or
ENABLED. The composed client and relay, whose run refutes what it checks. `RoundTrip`,
`NoPanic`, `ForwardFits`, `HelloAdmitted` and `HelloFraming`: what the encoders and decoders
compute is folded over sequences, and without induction over data it is out of the prover's
reach.

## Not modelled

- Cryptography: a frame decrypts if it is the one whose turn it is, and else the read
  fails. The client's half of the Noise handshake (`noise.rs` 225) is a straight
  line without a timeout: a server that does not answer blocks `connect`.
- Path resolution, argument parsing and the builders of the configurations: they compute
  values and change no state that another part shares.
- The two checks of `protocol/validation`, which no path of the program calls, and
  `networking/writer.rs`, which nothing uses.
- Message contents beyond what routing looks at, timestamps, logging, error texts.
- Power loss without fsync (a write that returned is on disk), wrap-around of 64-bit
  counters.
- Busy loops: the accept loop after the shutdown sender is dropped without a signal, and
  the actor after its client is dropped, poll a `changed()` that fails at once. Such a turn
  is a stuttering step here.

## Plan

1. Model: a composition of listener, intake and session in which permits, sockets and
   routes are related.
2. Proofs: that a client on the relay keeps the properties of `ClientCorrelation`.
