--------------------------- MODULE ClientOnRelay ---------------------------
(***************************************************************************)
(* The library's own client on a session of the relay: EchoMeshClient      *)
(* (ClientCorrelation) is the client of one connection of RoutedSession.   *)
(*                                                                         *)
(* The client's frames arrive at the relay in the order in which its actor *)
(* wrote them, and what the session's writer writes arrives at the client. *)
(* ClientSession gives every frame the route id of the echo service, and   *)
(* the client has no call that registers a peer id.                        *)
(***************************************************************************)
EXTENDS Naturals, Sequences

CONSTANTS
  Call, ClientQueue, EventIds,    \* of the client
  me, None, PeerId, RouteId, Prefix, ROUTE_REGISTRATION_ID, ECHO_ROUTE_ID,
  QueueCapacity, MaxFrames        \* of the relay; me is the client's connection

VARIABLES
  counter, call, id, outbound, writing, requests, inbound, partial, inSync, pending, actor,
  closing, dropped, handler, pushed, heard, unclaimed, result,     \* of the client
  routes, lockQueue, lockReaders, pc, cur, seen, registered, target, writer, queue,
  inflight, delivered, owned, lost,                       \* of the relay
  uplink,   \* message ids of the client's frames that the relay has not read
  handled   \* message ids of the frames that it has read (history)

clientVars == <<counter, call, id, outbound, writing, requests, inbound, partial, inSync,
                pending, actor, closing, dropped, handler, pushed, heard, unclaimed, result>>
relayVars == <<routes, lockQueue, lockReaders, pc, cur, seen, registered, target, writer,
               queue, inflight, delivered, owned, lost>>
vars == <<clientVars, relayVars, uplink, handled>>

\* What ping and send_message send.
Requests ==
  {[session_id |-> ECHO_ROUTE_ID, type |-> "Heartbeat", peer |-> None]} \cup
  {[session_id |-> ECHO_ROUTE_ID, type |-> "SendMessage", peer |-> p] : p \in PeerId}

Client == INSTANCE ClientCorrelation WITH QueueCapacity <- ClientQueue, MaxMessages <- MaxFrames
Relay == INSTANCE RoutedSession WITH
  Conn <- {me}, Offer <- [c \in {me} |-> Requests], MaxFrames <- [c \in {me} |-> MaxFrames]

Init ==
  /\ Client!Init
  /\ Relay!Init
  /\ uplink = <<>>
  /\ handled = <<>>

ClientAlone ==
  /\ \/ \E r \in Call : Client!CallStep(r)
     \/ Client!SendOutbound \/ Client!ReadPartial \/ Client!Dispatch \/ Client!AddEventHandler
     \/ Client!Disconnect \/ Client!ShutdownSeen \/ Client!DropClient
     \/ Client!ChangedFails \/ Client!ConnectionEnds
  /\ UNCHANGED <<relayVars, uplink, handled>>

SendFrame ==
  /\ Client!FrameSent
  /\ uplink' = Append(uplink, writing)
  /\ UNCHANGED <<relayVars, handled>>

ReadFrame ==
  /\ uplink # <<>>
  /\ \/ Relay!ReadRegistration(me) \/ Relay!ReadRouted(me)
     \/ Relay!ReadAnswered(me) \/ Relay!ReadDropped(me)
  /\ handled' = Append(handled, Head(uplink))
  /\ uplink' = Tail(uplink)
  /\ UNCHANGED clientVars

RelayAlone ==
  /\ \/ Relay!StartSession(me) \/ Relay!ReaderStep(me)
     \/ Relay!WriterRecv(me) \/ Relay!WriterEnd(me)
     \/ actor = "stopped" /\ uplink = <<>> /\ Relay!ReadEof(me)
  /\ UNCHANGED <<clientVars, uplink, handled>>

\* The relay writes a frame; its reply carries the id of the request.
WriteFrame ==
  /\ Relay!WriterWrite(me)
  /\ LET i == handled[inflight[me].n]
     IN  /\ inbound' = Append(inbound, [kind |-> "response", correlation_id |-> i, n |-> 0])
         /\ requests' = requests \ {i}
  /\ UNCHANGED <<counter, call, id, outbound, writing, partial, inSync, pending, actor, closing,
                 dropped, handler, pushed, heard, unclaimed, result, uplink, handled>>

Next == ClientAlone \/ SendFrame \/ ReadFrame \/ RelayAlone \/ WriteFrame

Spec == Init /\ [][Next]_vars

-----------------------------------------------------------------------------

\* The relay is done with the k-th frame it read.
Settled(k) == k < seen[me] \/ (k = seen[me] /\ pc[me] = "reading")

Answered(k) ==
  \E i \in DOMAIN Relay!Stream(me) :
    Relay!Stream(me)[i].kind \in Relay!Replies /\ Relay!Stream(me)[i].n = k

\* "Sends a ping keepalive request to the server and awaits heartbeat response"
\* (src/client/api.rs:152), "`send_message(payload)`: Sends request and awaits
\* matching response future" (docs/architecture/networking.md:219): the relay has
\* queued or sent the reply to every request it is done with whose call still waits.
RequestAnswered ==
  \A r \in Call, k \in DOMAIN handled :
    call[r] = "waiting" /\ handled[k] = id[r] /\ Settled(k) => Answered(k)

=============================================================================
