------------------------- MODULE ClientCorrelation -------------------------
(***************************************************************************)
(* Requests and responses in the client: EchoMeshClient (src/client/api.rs)*)
(* with its background I/O actor, ClientOutboundRouter and                 *)
(* ClientInboundRouter (src/client/routing/).                              *)
(*                                                                         *)
(* Any number of tasks call send_message, ping or send_echo on one client. *)
(* A call takes a message id and queues its frame; a send_echo returns     *)
(* then, any other registers the id in the map of pending requests and     *)
(* waits.  The actor moves frames between the queue, the socket and the    *)
(* map.  Its select! drops a half-done recv_frame when another branch      *)
(* completes, and with it the bytes already read.  While it writes a frame *)
(* it polls neither the socket nor the shutdown channel.                   *)
(*                                                                         *)
(* The server is the environment: it answers a request once or never, in   *)
(* any order, pushes events, may close the stream, and may stop reading,   *)
(* so that a write of the actor never ends.                                *)
(***************************************************************************)
EXTENDS Naturals, Sequences

CONSTANTS
  Call,           \* the calls made on the client, numbered in the order of their ids
  QueueCapacity,  \* capacity of the outbound channel (64)
  EventIds,       \* bound: correlation ids of events
  MaxMessages     \* bound: calls and pushed events together

ASSUME ClientAssumption ==
  /\ Call \subseteq Nat
  /\ QueueCapacity \in Nat \ {0}
  /\ EventIds \subseteq Nat
  /\ MaxMessages \in Nat

VARIABLES
  counter,   \* ClientOutboundRouter::counter
  call,      \* call[r]: where call r stands
  id,        \* id[r]: its message id, 0 before it has one
  outbound,  \* the outbound channel: message ids
  writing,   \* message id of the frame in the actor's send_frame, 0 if none
  requests,  \* message ids the server has received and not answered
  inbound,   \* frames from the server that the actor has not read
  partial,   \* the current recv_frame has read part of a frame
  inSync,    \* the actor reads frames at their boundaries
  pending,   \* pending_requests: ids with a waiting sender
  actor,     \* whether the I/O actor runs
  closing,   \* the value in the client's shutdown channel
  dropped,   \* the EchoMeshClient is gone, and with it both its senders
  handler,   \* an event handler is registered
  pushed,    \* events pushed so far
  heard,     \* events the handler got (history)
  unclaimed, \* ids of responses that found no pending request (history)
  result     \* result[r]: correlation id of the response call r returned

vars == <<counter, call, id, outbound, writing, requests, inbound, partial, inSync,
          pending, actor, closing, dropped, handler, pushed, heard, unclaimed, result>>
callVars == <<counter, call, id, result>>
serverVars == <<requests, pushed>>
readVars == <<inbound, partial, inSync>>
actorVars == <<actor, writing>>
eventVars == <<handler, heard, closing, dropped>>

CallStates == {"idle", "queueing", "queued", "waiting", "ok", "timeout", "channelClosed",
               "tooLarge", "echoSent"}

Finished(r) == call[r] \in {"ok", "timeout", "channelClosed", "tooLarge", "echoSent"}

Frame == [kind : {"response", "event"}, correlation_id : Nat, n : Nat]

Init ==
  /\ counter = 1
  /\ call = [r \in Call |-> "idle"]
  /\ id = [r \in Call |-> 0]
  /\ outbound = <<>>
  /\ writing = 0
  /\ requests = {}
  /\ inbound = <<>>
  /\ partial = FALSE
  /\ inSync = TRUE
  /\ pending = {}
  /\ actor = "running"
  /\ closing = FALSE
  /\ dropped = FALSE
  /\ handler = FALSE
  /\ pushed = 0
  /\ heard = <<>>
  /\ unclaimed = {}
  /\ result = [r \in Call |-> 0]

WithinBound == (counter - 1) + pushed < MaxMessages

Step(r, from, to) == call[r] = from /\ call' = [call EXCEPT ![r] = to]

-----------------------------------------------------------------------------
(* The caller's side.                                                       *)

\* next_message_id, and the frame is built, unless the message does not fit one.
TakeId(r) ==
  /\ ~ dropped
  /\ WithinBound /\ \A q \in Call : q < r => call[q] # "idle"
  /\ Step(r, "idle", "queueing") \/ Step(r, "idle", "tooLarge")
  /\ id' = [id EXCEPT ![r] = counter]
  /\ counter' = counter + 1
  /\ UNCHANGED <<outbound, serverVars, readVars, pending, actorVars, eventVars, unclaimed, result>>

\* outbound_tx.send: waits for a slot, fails when the actor is gone.
Queue(r) ==
  /\ \/ /\ actor = "running"
        /\ Len(outbound) < QueueCapacity
        /\ Step(r, "queueing", "queued")
        /\ outbound' = Append(outbound, id[r])
     \/ /\ actor = "stopped"
        /\ Step(r, "queueing", "channelClosed")
        /\ UNCHANGED outbound
  /\ UNCHANGED <<counter, id, result, serverVars, readVars, pending, actorVars,
                 eventVars, unclaimed>>

\* register_pending, after the frame was queued.
RegisterPending(r) ==
  /\ Step(r, "queued", "waiting")
  /\ pending' = pending \cup {id[r]}
  /\ UNCHANGED <<counter, id, result, outbound, serverVars, readVars, actorVars,
                 eventVars, unclaimed>>

\* A send_echo returns once its frame is queued.
SendEcho(r) ==
  /\ Step(r, "queued", "echoSent")
  /\ UNCHANGED <<counter, id, result, outbound, serverVars, readVars, pending, actorVars,
                 eventVars, unclaimed>>

\* Mutant: a call that times out waits again.
TimeoutRestarts(r) == call[r] = "waiting" /\ UNCHANGED vars

\* The timeout ends the call; its entry stays in the map.
Timeout(r) ==
  /\ Step(r, "waiting", "timeout")
  /\ UNCHANGED <<counter, id, result, outbound, serverVars, readVars, pending, actorVars,
                 eventVars, unclaimed>>

AddEventHandler ==
  /\ ~ handler /\ ~ dropped
  /\ handler' = TRUE
  /\ UNCHANGED <<callVars, outbound, serverVars, readVars, pending, actorVars, closing, dropped,
                 heard, unclaimed>>

-----------------------------------------------------------------------------
(* The actor.                                                               *)

\* The actor awaits its select!.
Selecting == actor = "running" /\ writing = 0

\* Mutant: the actor leaves its queue alone once the client is gone.
SendOutboundOfClient ==
  /\ Selecting
  /\ ~ dropped
  /\ outbound # <<>>
  /\ outbound' = Tail(outbound)
  /\ writing' = Head(outbound)
  /\ inSync' = (inSync /\ ~ partial)
  /\ partial' = FALSE
  /\ UNCHANGED <<callVars, serverVars, inbound, pending, actor, eventVars, unclaimed>>

\* The outbound branch completes: what recv_frame had read is dropped, and the
\* actor enters send_frame.
SendOutbound ==
  /\ Selecting
  /\ outbound # <<>>
  /\ outbound' = Tail(outbound)
  /\ writing' = Head(outbound)
  /\ inSync' = (inSync /\ ~ partial)
  /\ partial' = FALSE
  /\ UNCHANGED <<callVars, serverVars, inbound, pending, actor, eventVars, unclaimed>>

\* send_frame has written the frame, once the socket took all of it.
FrameSent ==
  /\ writing # 0
  /\ writing' = 0
  /\ requests' = requests \cup {writing}
  /\ UNCHANGED <<callVars, outbound, pushed, readVars, pending, actor, eventVars, unclaimed>>

\* A segment ends within a frame: recv_frame waits for the rest.
ReadPartial ==
  /\ Selecting
  /\ inbound # <<>>
  /\ ~ partial
  /\ partial' = TRUE
  /\ UNCHANGED <<callVars, outbound, serverVars, inbound, inSync, pending, actorVars,
                 eventVars, unclaimed>>

Received == Head(inbound)

\* Mutant: any correlated message wakes the request.
WakesAny(f) == f.correlation_id \in pending

Wakes(f) ==
  /\ f.kind = "response"
  /\ f.correlation_id # 0
  /\ f.correlation_id \in pending

\* Mutant: the entry is looked up and not removed.
WakeKeepsEntry(f) ==
  /\ pending' = pending
  /\ call' = [r \in Call |-> IF id[r] = f.correlation_id /\ call[r] = "waiting"
                             THEN "ok" ELSE call[r]]
  /\ result' = [r \in Call |-> IF id[r] = f.correlation_id /\ call[r] = "waiting"
                               THEN f.correlation_id ELSE result[r]]

\* The pending sender is removed and used; a caller that timed out has dropped
\* its receiver.
Wake(f) ==
  /\ pending' = pending \ {f.correlation_id}
  /\ call' = [r \in Call |-> IF id[r] = f.correlation_id /\ call[r] = "waiting"
                             THEN "ok" ELSE call[r]]
  /\ result' = [r \in Call |-> IF id[r] = f.correlation_id /\ call[r] = "waiting"
                               THEN f.correlation_id ELSE result[r]]

\* Mutant: an event that comes while a request is pending is taken for its answer.
DispatchToPending ==
  /\ Selecting
  /\ inSync
  /\ inbound # <<>>
  /\ inbound' = Tail(inbound)
  /\ partial' = FALSE
  /\ heard' = IF Received.kind = "event" /\ handler /\ pending = {}
              THEN Append(heard, Received.n) ELSE heard
  /\ UNCHANGED <<callVars, pending, outbound, serverVars, inSync, actorVars, closing, dropped,
                 handler, unclaimed>>

\* recv_frame yields a frame, which is decoded and dispatched.
Dispatch ==
  /\ Selecting
  /\ inSync
  /\ inbound # <<>>
  /\ inbound' = Tail(inbound)
  /\ partial' = FALSE
  /\ \/ /\ Wakes(Received)
        /\ Wake(Received)
        /\ UNCHANGED <<heard, unclaimed>>
     \/ /\ ~ Wakes(Received)
        /\ heard' = IF Received.kind = "event" /\ handler
                    THEN Append(heard, Received.n) ELSE heard
        /\ unclaimed' = IF Received.kind = "response"
                        THEN unclaimed \cup {Received.correlation_id} ELSE unclaimed
        /\ UNCHANGED <<pending, call, result>>
  /\ UNCHANGED <<counter, id, outbound, serverVars, inSync, actorVars, closing, dropped, handler>>

\* The actor leaves its loop: the channel closes, the map stays as it is.
ActorStops ==
  /\ actor = "running"
  /\ actor' = "stopped"
  /\ outbound' = <<>>
  /\ writing' = 0
  /\ UNCHANGED <<callVars, serverVars, readVars, pending, eventVars, unclaimed>>

\* The server closes the stream, a read or a write fails, or bytes read off the
\* frame boundaries give a bad length or fail to decrypt.
ConnectionEnds == ActorStops

\* disconnect(&mut self) and a drop wait for the borrows of the calls.
NoCallRuns == \A r \in Call : call[r] = "idle" \/ Finished(r)

Disconnect ==
  /\ ~ dropped
  /\ NoCallRuns
  /\ closing' = TRUE
  /\ UNCHANGED <<callVars, outbound, serverVars, readVars, pending, actorVars, dropped, handler,
                 heard, unclaimed>>

DropClient ==
  /\ ~ dropped
  /\ NoCallRuns
  /\ dropped' = TRUE
  /\ UNCHANGED <<callVars, outbound, serverVars, readVars, pending, actorVars, closing, handler,
                 heard, unclaimed>>

\* changed() fails at once when the sender is gone and the value was seen: the
\* select! starts over, and what recv_frame had read is dropped.
ChangedFails ==
  /\ Selecting
  /\ dropped /\ ~ closing
  /\ inSync' = (inSync /\ ~ partial)
  /\ partial' = FALSE
  /\ UNCHANGED <<callVars, outbound, serverVars, inbound, pending, actorVars, eventVars, unclaimed>>

\* Mutant: the actor does not look at the value it was woken for.
ShutdownSeenIgnored == Selecting /\ closing /\ UNCHANGED vars

\* changed() yields the value.
ShutdownSeen == Selecting /\ closing /\ ActorStops

-----------------------------------------------------------------------------
(* The server, while the actor has the stream.                              *)

Respond ==
  /\ actor = "running"
  /\ \E i \in requests :
       /\ requests' = requests \ {i}
       /\ inbound' = Append(inbound, [kind |-> "response", correlation_id |-> i, n |-> 0])
  /\ UNCHANGED <<callVars, outbound, pushed, partial, inSync, pending, actorVars, eventVars,
                 unclaimed>>

\* An event; the relay gives a DeliveryStatusEvent the id of the Ack.
PushEvent ==
  /\ actor = "running"
  /\ WithinBound
  /\ pushed' = pushed + 1
  /\ \E i \in EventIds :
       inbound' = Append(inbound, [kind |-> "event", correlation_id |-> i, n |-> pushed + 1])
  /\ UNCHANGED <<callVars, outbound, requests, partial, inSync, pending, actorVars, eventVars,
                 unclaimed>>

Done ==
  /\ actor = "stopped" /\ (dropped \/ NoCallRuns)
  /\ UNCHANGED vars

CallStep(r) == TakeId(r) \/ Queue(r) \/ RegisterPending(r) \/ SendEcho(r) \/ Timeout(r)

ActorStep == SendOutbound \/ FrameSent \/ Dispatch

Next ==
  \/ \E r \in Call : CallStep(r)
  \/ ActorStep \/ ReadPartial \/ ConnectionEnds \/ Disconnect \/ ShutdownSeen
  \/ DropClient \/ ChangedFails \/ AddEventHandler \/ Respond \/ PushEvent
  \/ Done

\* The runtime polls woken tasks and timers fire; the channel serves waiting
\* senders in order; select! takes one of the branches that are ready at random.
\* No write has to end.
Fairness ==
  /\ \A r \in Call : WF_vars(Queue(r) \/ RegisterPending(r) \/ Timeout(r))
  /\ WF_vars(SendOutbound)
  /\ WF_vars(ShutdownSeen)

Spec == Init /\ [][Next]_vars /\ Fairness

-----------------------------------------------------------------------------
(* Properties.                                                              *)

\* Every variable has its type; the channel respects its capacity.
TypeOK ==
  /\ counter \in Nat
  /\ call \in [Call -> CallStates]
  /\ id \in [Call -> Nat]
  /\ outbound \in Seq(Nat) /\ Len(outbound) <= QueueCapacity
  /\ writing \in Nat
  /\ requests \subseteq Nat
  /\ inbound \in Seq(Frame)
  /\ {partial, inSync, handler, closing, dropped} \subseteq BOOLEAN
  /\ pending \subseteq Nat
  /\ actor \in {"running", "stopped"}
  /\ result \in [Call -> Nat]
  /\ pushed \in Nat /\ heard \in Seq(Nat) /\ unclaimed \subseteq Nat

\* A call that succeeds returns the server's answer to its own request, and no
\* two calls return the same answer, whatever the order of responses, events
\* with a correlation id, and timeouts of other calls.
OwnAnswer ==
  \A r \in Call : call[r] = "ok" =>
    /\ result[r] = id[r]
    /\ id[r] \notin requests
    /\ \A q \in Call \ {r} : result[q] # result[r]

\* Every entry of the map of pending requests belongs to a call that waits or
\* that timed out, and each waiting call has its entry, so its answer can still
\* reach it.
PendingAccounted ==
  /\ \A i \in pending : \E r \in Call : id[r] = i /\ call[r] \in {"waiting", "timeout"}
  /\ \A r \in Call : call[r] = "waiting" /\ id[r] \notin unclaimed => id[r] \in pending

\* A handler misses no event once it has heard one: they come in the order in
\* which the server pushed them, none twice and none left out, although select!
\* drops half-read frames; after such a frame what was pushed stays unread.
NoEventSkipped ==
  LET unread == {i \in DOMAIN inbound : inbound[i].kind = "event"}
  IN  heard # <<>> =>
        /\ \A i \in DOMAIN heard : heard[i] = heard[1] + i - 1
        /\ \A i, j \in unread : i < j => inbound[i].n < inbound[j].n
        /\ {inbound[i].n : i \in unread} = heard[Len(heard)] + 1 .. pushed

\* The frame of call r is in the queue or in send_frame.
Unwritten(r) == id[r] = writing \/ \E i \in DOMAIN outbound : outbound[i] = id[r]

\* The frame of a send_echo that returned Ok is written, even when the client is
\* dropped right after the call, unless the connection ends or disconnect was called:
\* the actor outlives the client and drains its queue.  Only a write that never ends,
\* of this frame or of one before it, holds it up.
EchoWritten ==
  \A r \in Call :
    []<>(call[r] = "echoSent" => ~ Unwritten(r)) \/ <>[](writing # 0)

\* Every call returns, also when the connection is lost, the server never answers
\* or the stream is out of step, with one exception: the timeout of send_message and
\* ping covers the response and not the wait for a slot of the queue, so a call that
\* finds the queue full waits for as long as the actor is held in a write.
CallReturns ==
  \A r \in Call :
    \/ []<>(call[r] = "idle" \/ Finished(r))
    \/ <>[](call[r] = "queueing" /\ Len(outbound) = QueueCapacity /\ writing # 0)

\* disconnect ends the actor, and with it the connection, whatever the queue and the
\* socket hold, unless the actor is held in a write: the shutdown channel is a branch
\* of the select!, which is not polled while send_frame runs.
DisconnectStops == []<>(closing => actor = "stopped") \/ <>[](writing # 0)

\* "Sends an application message and waits for the correlated server response"
\* (src/client/api.rs:131): no response is dispatched before its call has
\* registered for it.
ResponseNotMissed == \A r \in Call : call[r] = "waiting" => id[r] \notin unclaimed

=============================================================================
