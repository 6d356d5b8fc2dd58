--------------------------- MODULE RoutedSession ---------------------------
(***************************************************************************)
(* The routed sessions of the relay: handle_routed_noise_session of        *)
(* src/server/routed_listener.rs, for a set of connections that share one  *)
(* routing table.  Every connection is two tasks: a reader, which decrypts *)
(* and handles one frame at a time, and a writer, which drains the         *)
(* connection's bounded queue to its socket.                               *)
(*                                                                         *)
(* An await is a step boundary.  The routing table sits behind a tokio     *)
(* RwLock, which is granted in arrival order; a write guard lives for one  *)
(* call and is one step here, a read guard as well, except in the Ack      *)
(* branch, where it lives until the status event is queued.                *)
(*                                                                         *)
(* The client is the environment: it offers frames, closes or breaks the   *)
(* stream, and takes frames or makes a write fail, at any moment; it may   *)
(* also stop taking frames for good, for no write has a timeout.           *)
(***************************************************************************)
EXTENDS RouteRegistry, Naturals, Sequences

CONSTANTS
  ROUTE_REGISTRATION_ID,  \* route id that marks a registration frame
  ECHO_ROUTE_ID,          \* route id of the disabled echo service
  QueueCapacity,          \* capacity of a connection's mpsc channel (256)
  MaxFrames,              \* bound: MaxFrames[c] frames come from the client of c
  Offer                   \* Offer[c]: the frames the client of c may send

\* A decrypted client frame: its route id, what its payload decodes to, and the
\* peer identifier in it (32-byte registration payload, or SendMessage's
\* recipient).  "Opaque" is every payload that is routed as it is.
ClientFrame == [session_id : RouteId,
                type : {"PeerId", "SendMessage", "Ack", "Heartbeat", "Opaque"},
                peer : PeerId \cup {None}]

ASSUME SessionAssumption ==
  /\ QueueCapacity \in Nat \ {0}
  /\ ROUTE_REGISTRATION_ID \in RouteId
  /\ ECHO_ROUTE_ID \in RouteId
  /\ Offer \in [Conn -> SUBSET ClientFrame]
  /\ None \notin ClientFrame
  /\ \A c \in Conn : \A f \in Offer[c] :
        f.type \in {"PeerId", "SendMessage"} => f.peer \in PeerId

ASSUME BoundAssumption == MaxFrames \in [Conn -> Nat]

VARIABLES
  routes,       \* the routing table
  lockQueue,    \* tasks waiting for the table's lock, in arrival order
  lockReaders,  \* tasks that hold a read guard across an await
  pc,           \* pc[c]: where the reader of c stands
  cur,          \* cur[c]: the frame the reader of c is handling
  seen,         \* seen[c]: how many frames the reader of c has read
  registered,   \* registered[c]: registered_peer
  target,       \* target[c]: the route entry the reader of c looked up
  writer,       \* writer[c]: whether the writer task of c runs
  queue,        \* queue[c]: the frames in the mpsc channel of c
  inflight,     \* inflight[c]: the frame the writer of c took and is writing
  delivered,    \* delivered[c]: frames written to the socket of c (history)
  owned,        \* owned[c]: peer ids c has registered so far (history)
  lost          \* <<c, n>>: c's n-th frame was routed to a writer that
                \* stopped before writing it (history)

lockVars == <<lockQueue, lockReaders>>
readerVars == <<pc, cur, seen, registered, target>>
writerVars == <<writer, queue, inflight, delivered>>
vars == <<routes, lockQueue, lockReaders, pc, cur, seen, registered, target,
          writer, queue, inflight, delivered, owned, lost>>

Replies == {"SendMessageResponse", "HeartbeatResponse"}
Forwards == {"IncomingMessageEvent", "DeliveryStatusEvent", "Raw"}

\* A frame the relay queues: what it is, the frame (connection and position)
\* that caused it, the sender it names, the address the client gave, and the
\* envelope's correlation id.  A client numbers its messages by position.
ServerFrame == [kind : Replies \cup Forwards, src : Conn, n : Nat,
                from : PeerId, to : PeerId \cup RouteId \cup {None},
                accepted : BOOLEAN, correlation_id : Nat]

ASSUME FrameAssumption == None \notin ServerFrame

ReaderStates == {"new", "reading", "register", "lookup", "respond", "forward",
                 "ackForward", "evict", "unregister", "draining", "done", "failed"}

Init ==
  /\ routes = EmptyRegistry
  /\ lockQueue = <<>>
  /\ lockReaders = {}
  /\ pc = [c \in Conn |-> "new"]
  /\ cur = [c \in Conn |-> None]
  /\ seen = [c \in Conn |-> 0]
  /\ registered = [c \in Conn |-> None]
  /\ target = [c \in Conn |-> None]
  /\ writer = [c \in Conn |-> "none"]
  /\ queue = [c \in Conn |-> <<>>]
  /\ inflight = [c \in Conn |-> None]
  /\ delivered = [c \in Conn |-> <<>>]
  /\ owned = [c \in Conn |-> {}]
  /\ lost = {}

-----------------------------------------------------------------------------
(* Session start and the reader's dispatch of a frame.                      *)

StartSession(c) ==
  /\ pc[c] = "new"
  /\ pc' = [pc EXCEPT ![c] = "reading"]
  /\ writer' = [writer EXCEPT ![c] = "running"]
  /\ UNCHANGED <<routes, lockVars, cur, seen, registered, target, queue,
                 inflight, delivered, owned, lost>>

IsRegistration(f) == f.session_id = ROUTE_REGISTRATION_ID /\ f.type = "PeerId"

\* A frame past the registration, echo-route and unregistered-sender checks.
IsAdmitted(c, f) ==
  /\ f.session_id \notin {ROUTE_REGISTRATION_ID, ECHO_ROUTE_ID}
  /\ registered[c] # None

IsRaw(f) == f.type \in {"PeerId", "Opaque"}

\* The two anti-self-messaging rules: by peer id for a SendMessage, by prefix
\* for a raw frame.
IsSelfMessage(c, f) ==
  \/ f.type = "SendMessage" /\ f.peer = registered[c]
  \/ IsRaw(f) /\ f.session_id = Prefix[registered[c]]

NeedsLookup(c, f) ==
  IsAdmitted(c, f) /\ f.type # "Heartbeat" /\ ~ IsSelfMessage(c, f)

AnsweredDirectly(c, f) ==
  /\ IsAdmitted(c, f)
  /\ f.type = "Heartbeat" \/ (f.type = "SendMessage" /\ IsSelfMessage(c, f))

Read(c, f, next) ==
  /\ pc[c] = "reading"
  /\ seen[c] < MaxFrames[c]
  /\ seen' = [seen EXCEPT ![c] = @ + 1]
  /\ pc' = [pc EXCEPT ![c] = next]
  /\ cur' = [cur EXCEPT ![c] = IF next = "reading" THEN None ELSE f]
  /\ UNCHANGED <<routes, lockReaders, registered, target, writerVars, owned, lost>>

RequestLock(c) == lockQueue' = Append(lockQueue, c)

ReadRegistration(c) ==
  \E f \in Offer[c] :
    IsRegistration(f) /\ Read(c, f, "register") /\ RequestLock(c)

ReadRouted(c) ==
  \E f \in Offer[c] :
    NeedsLookup(c, f) /\ Read(c, f, "lookup") /\ RequestLock(c)

ReadAnswered(c) ==
  \E f \in Offer[c] :
    AnsweredDirectly(c, f) /\ Read(c, f, "respond") /\ UNCHANGED lockQueue

ReadDropped(c) ==
  \E f \in Offer[c] :
    /\ ~ IsRegistration(f)
    /\ ~ NeedsLookup(c, f)
    /\ ~ AnsweredDirectly(c, f)
    /\ Read(c, f, "reading")
    /\ UNCHANGED lockQueue

\* The ways out of the read loop: a clean end of stream, which
\* unregisters the route, and the error returns, which do not.
ReadEof(c) ==
  /\ pc[c] = "reading"
  /\ \/ /\ registered[c] # None
        /\ pc' = [pc EXCEPT ![c] = "unregister"]
        /\ RequestLock(c)
     \/ /\ registered[c] = None
        /\ pc' = [pc EXCEPT ![c] = "draining"]
        /\ UNCHANGED lockQueue
  /\ UNCHANGED <<routes, lockReaders, cur, seen, registered, target, writerVars,
                 owned, lost>>

ReadError(c) ==
  /\ pc[c] = "reading"
  /\ pc' = [pc EXCEPT ![c] = "failed"]
  /\ UNCHANGED <<routes, lockVars, cur, seen, registered, target, writerVars,
                 owned, lost>>

-----------------------------------------------------------------------------
(* Steps under the routing table's lock.                                    *)

Granted(c) == lockQueue # <<>> /\ Head(lockQueue) = c

WriteGranted(c) == Granted(c) /\ lockReaders = {}

\* Back to the top of the read loop.
Resume(c) ==
  /\ pc' = [pc EXCEPT ![c] = "reading"]
  /\ cur' = [cur EXCEPT ![c] = None]
  /\ target' = [target EXCEPT ![c] = None]

Register(c) ==
  /\ pc[c] = "register"
  /\ WriteGranted(c)
  /\ lockQueue' = Tail(lockQueue)
  /\ routes' = Insert(routes, cur[c].peer, c)
  /\ registered' = [registered EXCEPT ![c] = cur[c].peer]
  /\ owned' = [owned EXCEPT ![c] = @ \cup {cur[c].peer}]
  /\ Resume(c)
  /\ UNCHANGED <<lockReaders, seen, writerVars, lost>>

\* Mutant: the session ends without removing its route.
UnregisterSkipped(c) ==
  /\ pc[c] = "unregister"
  /\ WriteGranted(c)
  /\ lockQueue' = Tail(lockQueue)
  /\ pc' = [pc EXCEPT ![c] = "draining"]
  /\ UNCHANGED <<routes, lockReaders, cur, seen, registered, target, writerVars, owned, lost>>

Unregister(c) ==
  /\ pc[c] = "unregister"
  /\ WriteGranted(c)
  /\ lockQueue' = Tail(lockQueue)
  /\ routes' = RemoveConnection(routes, registered[c], c)
  /\ pc' = [pc EXCEPT ![c] = "draining"]
  /\ UNCHANGED <<lockReaders, cur, seen, registered, target, writerVars, owned, lost>>

Evict(c) ==
  /\ pc[c] = "evict"
  /\ WriteGranted(c)
  /\ lockQueue' = Tail(lockQueue)
  /\ routes' = RemoveConnection(routes, target[c].peer_id, target[c].connection_id)
  /\ Resume(c)
  /\ UNCHANGED <<lockReaders, seen, registered, writerVars, owned, lost>>

\* Mutant: a SendMessage is routed by the frame's route id.
FoundEntryByRoute(f) == routes.by_prefix[f.session_id]

FoundEntry(f) ==
  IF f.type = "SendMessage" THEN routes.by_peer_id[f.peer]
                            ELSE routes.by_prefix[f.session_id]

LookupMiss(c) ==
  /\ pc[c] = "lookup"
  /\ Granted(c)
  /\ FoundEntry(cur[c]) = None
  /\ lockQueue' = Tail(lockQueue)
  /\ \/ /\ cur[c].type = "SendMessage"
        /\ pc' = [pc EXCEPT ![c] = "respond"]
        /\ UNCHANGED <<cur, target>>
     \/ /\ cur[c].type # "SendMessage"
        /\ Resume(c)
  /\ UNCHANGED <<routes, lockReaders, seen, registered, writerVars, owned, lost>>

LookupHit(c) ==
  /\ pc[c] = "lookup"
  /\ Granted(c)
  /\ FoundEntry(cur[c]) # None
  /\ lockQueue' = Tail(lockQueue)
  /\ target' = [target EXCEPT ![c] = FoundEntry(cur[c])]
  /\ \/ /\ cur[c].type = "SendMessage"
        /\ pc' = [pc EXCEPT ![c] = "respond"]
        /\ UNCHANGED lockReaders
     \/ /\ cur[c].type = "Ack"
        /\ pc' = [pc EXCEPT ![c] = "ackForward"]
        /\ lockReaders' = lockReaders \cup {c}
     \/ /\ IsRaw(cur[c])
        /\ pc' = [pc EXCEPT ![c] = "forward"]
        /\ UNCHANGED lockReaders
  /\ UNCHANGED <<routes, cur, seen, registered, writerVars, owned, lost>>

-----------------------------------------------------------------------------
(* Steps that queue a frame: to the sender itself, or to the looked-up route. *)

\* `send` waits for a free slot and fails at once when the receiver is gone.
CanPush(d) == writer[d] = "running" /\ Len(queue[d]) < QueueCapacity

Push(d, frame) == queue' = [queue EXCEPT ![d] = Append(@, frame)]

\* Mutant: every message is reported as accepted.
ReplyAccepted(c) ==
  [kind |-> "SendMessageResponse", src |-> c, n |-> seen[c], from |-> registered[c],
   to |-> None, accepted |-> TRUE, correlation_id |-> seen[c]]

Reply(c) ==
  [kind |-> IF cur[c].type = "Heartbeat" THEN "HeartbeatResponse"
                                         ELSE "SendMessageResponse",
   src |-> c, n |-> seen[c], from |-> registered[c], to |-> None,
   accepted |-> target[c] # None, correlation_id |-> seen[c]]

Forwarded(c) ==
  [kind |-> CASE cur[c].type = "SendMessage" -> "IncomingMessageEvent"
              [] cur[c].type = "Ack" -> "DeliveryStatusEvent"
              [] OTHER -> "Raw",
   src |-> c, n |-> seen[c], from |-> registered[c],
   to |-> IF cur[c].type = "SendMessage" THEN cur[c].peer ELSE cur[c].session_id,
   accepted |-> FALSE,
   correlation_id |-> IF cur[c].type = "Ack" THEN seen[c] ELSE 0]

\* The reply is queued, or discarded when the own writer has stopped; the
\* message itself is forwarded only after that.
Respond(c) ==
  /\ pc[c] = "respond"
  /\ \/ CanPush(c) /\ Push(c, Reply(c))
     \/ writer[c] = "stopped" /\ UNCHANGED queue
  /\ \/ /\ target[c] # None
        /\ pc' = [pc EXCEPT ![c] = "forward"]
        /\ UNCHANGED <<cur, target>>
     \/ /\ target[c] = None
        /\ Resume(c)
  /\ UNCHANGED <<routes, lockVars, seen, registered, writer, inflight, delivered,
                 owned, lost>>

ForwardOk(c) ==
  /\ pc[c] = "forward"
  /\ CanPush(target[c].connection_id)
  /\ Push(target[c].connection_id, Forwarded(c))
  /\ Resume(c)
  /\ UNCHANGED <<routes, lockVars, seen, registered, writer, inflight, delivered,
                 owned, lost>>

\* The recipient's writer is gone: its route is to be removed.
ForwardFailed(c) ==
  /\ pc[c] = "forward"
  /\ writer[target[c].connection_id] = "stopped"
  /\ pc' = [pc EXCEPT ![c] = "evict"]
  /\ RequestLock(c)
  /\ lost' = lost \cup {<<c, seen[c]>>}
  /\ UNCHANGED <<routes, lockReaders, cur, seen, registered, target, writerVars, owned>>

\* Mutant: the Ack branch keeps its read guard.
AckForwardKeepsGuard(c) ==
  /\ pc[c] = "ackForward"
  /\ CanPush(target[c].connection_id)
  /\ Push(target[c].connection_id, Forwarded(c))
  /\ Resume(c)
  /\ UNCHANGED <<routes, lockVars, seen, registered, writer, inflight, delivered,
                 owned, lost>>

\* The Ack branch drops its read guard only here, and ignores a failure.
AckForward(c) ==
  /\ pc[c] = "ackForward"
  /\ \/ /\ CanPush(target[c].connection_id)
        /\ Push(target[c].connection_id, Forwarded(c))
        /\ UNCHANGED lost
     \/ /\ writer[target[c].connection_id] = "stopped"
        /\ lost' = lost \cup {<<c, seen[c]>>}
        /\ UNCHANGED queue
  /\ lockReaders' = lockReaders \ {c}
  /\ Resume(c)
  /\ UNCHANGED <<routes, lockQueue, seen, registered, writer, inflight, delivered, owned>>

-----------------------------------------------------------------------------
(* The writer task, and the end of a session.                               *)

\* Mutant: the writer looks at the next frame without taking it.
WriterRecvPeek(c) ==
  /\ writer[c] = "running"
  /\ inflight[c] = None
  /\ queue[c] # <<>>
  /\ inflight' = [inflight EXCEPT ![c] = Head(queue[c])]
  /\ UNCHANGED <<routes, lockVars, readerVars, writer, queue, delivered, owned, lost>>

WriterRecv(c) ==
  /\ writer[c] = "running"
  /\ inflight[c] = None
  /\ queue[c] # <<>>
  /\ inflight' = [inflight EXCEPT ![c] = Head(queue[c])]
  /\ queue' = [queue EXCEPT ![c] = Tail(@)]
  /\ UNCHANGED <<routes, lockVars, readerVars, writer, delivered, owned, lost>>

WriterWrite(c) ==
  /\ writer[c] = "running"
  /\ inflight[c] # None
  /\ delivered' = [delivered EXCEPT ![c] = Append(@, inflight[c])]
  /\ inflight' = [inflight EXCEPT ![c] = None]
  /\ UNCHANGED <<routes, lockVars, readerVars, writer, queue, owned, lost>>

\* The frames the writer of c still holds.
Pending(c) == {queue[c][i] : i \in DOMAIN queue[c]} \cup ({inflight[c]} \ {None})

\* An encryption, write or flush error ends the task, which drops the channel.
WriterFail(c) ==
  /\ writer[c] = "running"
  /\ inflight[c] # None
  /\ writer' = [writer EXCEPT ![c] = "stopped"]
  /\ queue' = [queue EXCEPT ![c] = <<>>]
  /\ inflight' = [inflight EXCEPT ![c] = None]
  /\ lost' = lost \cup {<<f.src, f.n>> : f \in {g \in Pending(c) : g.kind \in Forwards}}
  /\ UNCHANGED <<routes, lockVars, readerVars, delivered, owned>>

\* Who holds a sender of c's channel: its reader, until it drops out_tx; every
\* route entry of c; every reader that holds a clone of such an entry.
HasSender(c) ==
  \/ pc[c] \notin {"new", "draining", "done", "failed"}
  \/ c \in RoutedConnections(routes)
  \/ \E d \in Conn : target[d] # None /\ target[d].connection_id = c

WriterEnd(c) ==
  /\ writer[c] = "running"
  /\ inflight[c] = None
  /\ queue[c] = <<>>
  /\ ~ HasSender(c)
  /\ writer' = [writer EXCEPT ![c] = "stopped"]
  /\ UNCHANGED <<routes, lockVars, readerVars, queue, inflight, delivered, owned, lost>>

\* writer_task.await returns.
Drained(c) ==
  /\ pc[c] = "draining"
  /\ writer[c] = "stopped"
  /\ pc' = [pc EXCEPT ![c] = "done"]
  /\ UNCHANGED <<routes, lockVars, cur, seen, registered, target, writerVars, owned, lost>>

\* Every session is over and nothing is left to do.
AllClosed ==
  /\ \A c \in Conn : pc[c] \in {"done", "failed"}
  /\ UNCHANGED vars

ClientStep(c) ==
  \/ StartSession(c)
  \/ ReadRegistration(c) \/ ReadRouted(c) \/ ReadAnswered(c) \/ ReadDropped(c)
  \/ ReadEof(c) \/ ReadError(c)

ReaderStep(c) ==
  \/ Register(c) \/ Unregister(c) \/ Evict(c) \/ LookupMiss(c) \/ LookupHit(c)
  \/ Respond(c) \/ ForwardOk(c) \/ ForwardFailed(c) \/ AckForward(c)
  \/ Drained(c)

WriterStep(c) ==
  WriterRecv(c) \/ WriterWrite(c) \/ WriterFail(c) \/ WriterEnd(c)

Next ==
  \/ \E c \in Conn : ClientStep(c) \/ ReaderStep(c) \/ WriterStep(c)
  \/ AllClosed

\* The runtime polls every woken task, so a step that stays possible is taken.
\* The lock and the slots of a channel are handed to those who wait for them in
\* order, so a reader that waits for one is not overtaken for ever.  That a write
\* ends is up to the client, and not assumed.
Fairness ==
  \A c \in Conn : SF_vars(ReaderStep(c)) /\ WF_vars(WriterRecv(c) \/ WriterEnd(c))

Spec == Init /\ [][Next]_vars /\ Fairness

-----------------------------------------------------------------------------
(* Properties.                                                              *)

\* Every variable has its type; a queue never exceeds its capacity.
TypeOK ==
  /\ routes \in Registry
  /\ lockQueue \in Seq(Conn)
  /\ lockReaders \subseteq Conn
  /\ pc \in [Conn -> ReaderStates]
  /\ cur \in [Conn -> ClientFrame \cup {None}]
  /\ seen \in [Conn -> Nat]
  /\ registered \in [Conn -> PeerId \cup {None}]
  /\ target \in [Conn -> RouteEntry \cup {None}]
  /\ writer \in [Conn -> {"none", "running", "stopped"}]
  /\ queue \in [Conn -> Seq(ServerFrame)]
  /\ \A c \in Conn : Len(queue[c]) <= QueueCapacity
  /\ inflight \in [Conn -> ServerFrame \cup {None}]
  /\ delivered \in [Conn -> Seq(ServerFrame)]
  /\ owned \in [Conn -> SUBSET PeerId]
  /\ lost \subseteq Conn \X Nat

HasOwnPrefix(p) == \A q \in PeerId : Prefix[q] = Prefix[p] => q = p

\* The two maps of the routing table never contradict each other: an entry of
\* by_prefix is filed under its own prefix and is the current entry of its peer
\* in by_peer_id; for a peer id that shares its prefix with no other the converse
\* holds too, so that when SendMessage reaches it a raw frame does.
IndicesAgree ==
  /\ \A r \in RouteId : routes.by_prefix[r] # None =>
        /\ Prefix[routes.by_prefix[r].peer_id] = r
        /\ routes.by_peer_id[routes.by_prefix[r].peer_id] = routes.by_prefix[r]
  /\ \A p \in PeerId : HasOwnPrefix(p) /\ routes.by_peer_id[p] # None =>
        routes.by_prefix[Prefix[p]] = routes.by_peer_id[p]

\* A session that ended by a clean end of stream holds no route for the peer id
\* it was registered under, whatever registrations and evictions by other
\* sessions ran in between.
CleanExitUnregisters ==
  \A c \in Conn :
    pc[c] \in {"draining", "done"} /\ registered[c] # None
      => ~ IsCurrent(routes, registered[c], c)

\* The session of c is removing its route, or its writer is gone.
Leaving(c) == writer[c] = "stopped" \/ pc[c] = "unregister"

Removed(p) == routes.by_peer_id[p] # None /\ routes.by_peer_id[p]' = None

\* A route disappears from the table only when its own session is unregistering
\* or its writer has stopped: neither the cleanup of an older connection of the
\* same peer nor a late eviction removes the route of a newer, live connection.
\* By prefix there is one exception: remove_connection clears the slot without
\* asking whose entry is there, so that a live peer loses it to the removal of
\* another peer id with the same prefix (routed_listener.rs:66), and only so.
LiveRouteKept ==
  [][/\ \A p \in PeerId : Removed(p) => Leaving(routes.by_peer_id[p].connection_id)
     /\ \A r \in RouteId :
          routes.by_prefix[r] # None /\ routes.by_prefix[r]' = None =>
            \/ Leaving(routes.by_prefix[r].connection_id)
            \/ \E q \in PeerId \ {routes.by_prefix[r].peer_id} :
                 Prefix[q] = r /\ Removed(q)]_vars

\* What the relay holds for, or has handed to, the client of c.
Stream(c) ==
  delivered[c] \o (IF inflight[c] = None THEN <<>> ELSE <<inflight[c]>>) \o queue[c]

Routed(c) == {f \in {Stream(c)[i] : i \in DOMAIN Stream(c)} : f.kind \in Forwards}

\* A routed frame is only ever queued for a connection that registered the
\* address its sender gave, and names a peer id its sender had registered.  A
\* client that registered one peer id never gets its own message back, by
\* SendMessage or as a raw frame (the relay is not an echo server).
NoMisdelivery ==
  \A d \in Conn : \A f \in Routed(d) :
    /\ f.from \in owned[f.src]
    /\ IF f.kind = "IncomingMessageEvent"
       THEN f.to \in owned[d]
       ELSE \E p \in owned[d] : Prefix[p] = f.to
    /\ f.kind \in {"IncomingMessageEvent", "Raw"} /\ f.src = d
         => \E p, q \in owned[d] : p # q

\* Frames of one sender to one connection, or replies to it.
SameFlow(f, g) == f.src = g.src /\ (f.kind \in Replies <=> g.kind \in Replies)

\* What one connection sends to another arrives in order and at most once; so
\* do the replies to one connection's requests.  A message is never queued for
\* two connections, and none that was dropped with a stopped writer is still
\* queued or delivered.
InOrderOnce ==
  \A d \in Conn :
    /\ \A i, j \in DOMAIN Stream(d) :
         i < j /\ SameFlow(Stream(d)[i], Stream(d)[j]) => Stream(d)[i].n < Stream(d)[j].n
    /\ \A f \in Routed(d) :
         /\ <<f.src, f.n>> \notin lost
         /\ \A e \in Conn \ {d} : \A g \in Routed(e) : <<f.src, f.n>> # <<g.src, g.n>>

\* The reader of c waits for a slot in the queue of d.
AwaitsSlot(c, d) ==
  \/ pc[c] = "respond" /\ d = c
  \/ pc[c] \in {"forward", "ackForward"} /\ target[c].connection_id = d

\* The reader of c waits for the client of d to take a frame: for a slot in the
\* full queue of d, or for the table's lock, which an Ack holds that waits for one.
AwaitsClient(c, d) ==
  /\ inflight[d] # None /\ Len(queue[d]) = QueueCapacity
  /\ \/ AwaitsSlot(c, d)
     \/ /\ pc[c] \in {"register", "lookup", "evict", "unregister"}
        /\ \E e \in lockReaders : pc[e] = "ackForward" /\ AwaitsSlot(e, d)

\* A reader stays in the middle of a frame for ever only because of a client that
\* has stopped reading (no write has a timeout, routed_listener.rs:234): its own,
\* the one the frame goes to, or, as an Ack keeps the table's lock while it waits
\* for a slot (435-449), the one some Ack goes to.  Otherwise it gets the lock and
\* the slot it waits for, however readers and writers interleave.
FrameHandled ==
  \A c \in Conn :
    \/ []<>(pc[c] \notin {"register", "lookup", "respond", "forward", "ackForward", "evict"})
    \/ \E d \in Conn : <>[]AwaitsClient(c, d)

\* A client that has stopped reading keeps the session of c from ending: c's own;
\* one that the reader of c waits for; one that a reader with a sender of c's queue
\* waits for.
KeepsOpen(d, c) ==
  \/ d = c /\ inflight[c] # None
  \/ AwaitsClient(c, d)
  \/ \E e \in Conn :
       target[e] # None /\ target[e].connection_id = c /\ AwaitsClient(e, d)

\* After a clean end of stream the session ends: its writer sees the last
\* sender of its queue dropped, and the connection's permit is released, unless a
\* client that has stopped reading keeps it open.  This is claimed of a session
\* with one peer id: a second registration leaves the route of the first one in
\* the table, with a sender of the queue in it.
DisconnectCompletes ==
  \A c \in Conn :
    \/ []<>(pc[c] \notin {"unregister", "draining"} \/ \E p, q \in owned[c] : p # q)
    \/ \E d \in Conn : <>[]KeepsOpen(d, c)

\* "[Idle Timeout / Disconnect / Error] ... [Closed & Cleaned Up]"
\* (docs/architecture/networking.md:250-254): a session that is over, whichever
\* way it ended, holds no route.
ClosedMeansUnrouted ==
  \A c \in Conn : pc[c] \in {"done", "failed"} => c \notin RoutedConnections(routes)

=============================================================================
