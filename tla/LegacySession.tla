--------------------------- MODULE LegacySession ---------------------------
(***************************************************************************)
(* The sessions of the older listener: handle_authenticated_noise_session  *)
(* of src/server/listener.rs, ServerPipeline::process_frame, the inbound   *)
(* router with its handlers, ConnectionManager and SessionManager.         *)
(*                                                                         *)
(* One task serves a connection: a select! takes either the next frame,    *)
(* which the pipeline answers into the connection's own bounded queue, or  *)
(* the next frame of that queue, which is written to the socket.  While    *)
(* the pipeline waits for a slot nobody drains the queue, and a half-done  *)
(* recv_frame is dropped, with the bytes it has read, when the queue's     *)
(* branch completes.                                                       *)
(*                                                                         *)
(* Every connection has the same session id, the echo service's.  No peer  *)
(* id is ever bound, so peer_to_conn stays empty.                          *)
(***************************************************************************)
EXTENDS Naturals, Sequences, FiniteSetsExt

CONSTANTS
  Conn,           \* the connections; ConnectionId::next names each one once
  None,           \* no connection
  QueueCapacity,  \* capacity of a connection's mpsc channel (64)
  Offer           \* bound: Offer[c][n] are the kinds the n-th frame of c may have

\* What a client frame is: an envelope whose type has a handler, or has none; a
\* raw payload for the echo service, which an envelope can hold or not; a frame
\* of another session.
FrameKind == {"handled", "unhandled", "raw", "oversize", "unknownSession"}

ASSUME LegacyAssumption ==
  /\ None \notin Conn
  /\ QueueCapacity \in Nat \ {0} /\ Offer \in [Conn -> Seq(SUBSET FrameKind)]

VARIABLES
  pc,           \* pc[c]: where the task of c stands
  connections,  \* ConnectionManager's connections
  bound,        \* session_to_conn of the one session id
  sessionKnown, \* SessionManager holds the one session id
  sent,         \* sent[c]: kinds of the frames the client of c has sent
  ahead,        \* ahead[c]: the most requests that were unanswered when the client
                \* sent a further frame (history)
  processed,    \* processed[c]: how many of them the pipeline got
  partial,      \* partial[c]: the current recv_frame has read part of a frame
  inSync,       \* inSync[c]: the task reads frames at their boundaries
  queue,        \* queue[c]: the outbound channel
  delivered,    \* delivered[c]: frames written to the socket (history)
  closed        \* closed[c]: the client has closed its stream

vars == <<pc, connections, bound, sessionKnown, sent, ahead, processed, partial, inSync,
          queue, delivered, closed>>
managerVars == <<connections, bound, sessionKnown>>
sentVars == <<sent, ahead>>
readVars == <<processed, partial, inSync>>

Init ==
  /\ pc = [c \in Conn |-> "new"]
  /\ connections = {}
  /\ bound = None
  /\ sessionKnown = FALSE
  /\ sent = [c \in Conn |-> <<>>]
  /\ ahead = [c \in Conn |-> 0]
  /\ processed = [c \in Conn |-> 0]
  /\ partial = [c \in Conn |-> FALSE]
  /\ inSync = [c \in Conn |-> TRUE]
  /\ queue = [c \in Conn |-> <<>>]
  /\ delivered = [c \in Conn |-> <<>>]
  /\ closed = [c \in Conn |-> FALSE]

Go(c, from, to) == pc[c] = from /\ pc' = [pc EXCEPT ![c] = to]

-----------------------------------------------------------------------------
(* The start of a session: three calls to the managers.                     *)

Register(c) ==
  /\ Go(c, "new", "create")
  /\ connections' = connections \cup {c}
  /\ UNCHANGED <<bound, sessionKnown, sentVars, readVars, queue, delivered, closed>>

CreateSession(c) ==
  /\ Go(c, "create", "bind")
  /\ sessionKnown' = TRUE
  /\ UNCHANGED <<connections, bound, sentVars, readVars, queue, delivered, closed>>

BindSession(c) ==
  /\ Go(c, "bind", "select")
  /\ bound' = c
  /\ UNCHANGED <<connections, sessionKnown, sentVars, readVars, queue, delivered, closed>>

-----------------------------------------------------------------------------
(* The client.                                                              *)

Answered(kind) == kind \in {"handled", "unhandled", "raw"}

\* Requests the client of c waits for.
Outstanding(c) == Len(SelectSeq(sent[c], Answered)) - Len(delivered[c])

\* Bytes that come after the session has ended are lost.
Send(c) ==
  /\ pc[c] \notin {"unregister", "remove", "done"}
  /\ ~ closed[c]
  /\ Len(sent[c]) < Len(Offer[c])
  /\ \E kind \in Offer[c][Len(sent[c]) + 1] : sent' = [sent EXCEPT ![c] = Append(@, kind)]
  /\ ahead' = [ahead EXCEPT ![c] = Max({@, Outstanding(c)})]
  /\ UNCHANGED <<pc, managerVars, readVars, queue, delivered, closed>>

Close(c) ==
  /\ pc[c] # "done"
  /\ ~ closed[c]
  /\ closed' = [closed EXCEPT ![c] = TRUE]
  /\ UNCHANGED <<pc, managerVars, sentVars, readVars, queue, delivered>>

-----------------------------------------------------------------------------
(* The select! loop and the pipeline.                                       *)

Unread(c) == processed[c] < Len(sent[c])

\* A segment ends within a frame: recv_frame waits for the rest.
ReadPartial(c) ==
  /\ pc[c] = "select"
  /\ Unread(c) /\ inSync[c] /\ ~ partial[c]
  /\ partial' = [partial EXCEPT ![c] = TRUE]
  /\ UNCHANGED <<pc, managerVars, sentVars, processed, inSync, queue, delivered, closed>>

\* Mutant: a frame of another session is answered too.
ProcessAnyFrame(kind) == IF kind = "oversize" THEN "select" ELSE "respond"

\* process_frame and dispatch: a frame of another session is dropped, an
\* oversize echo fails before it is queued; every other frame is answered.
ProcessFrame(kind) == IF Answered(kind) THEN "respond" ELSE "select"

\* Mutant: a frame whose processing fails is processed again.
ReceiveRetries(c) ==
  /\ pc[c] = "select"
  /\ Unread(c) /\ inSync[c]
  /\ LET kind == sent[c][processed[c] + 1] IN
     /\ processed' = [processed EXCEPT ![c] = IF kind = "oversize" THEN @ ELSE @ + 1]
     /\ pc' = [pc EXCEPT ![c] = ProcessFrame(kind)]
  /\ partial' = [partial EXCEPT ![c] = FALSE]
  /\ UNCHANGED <<managerVars, sentVars, inSync, queue, delivered, closed>>

\* recv_frame yields a frame.
Receive(c) ==
  /\ pc[c] = "select"
  /\ Unread(c) /\ inSync[c]
  /\ processed' = [processed EXCEPT ![c] = @ + 1]
  /\ partial' = [partial EXCEPT ![c] = FALSE]
  /\ pc' = [pc EXCEPT ![c] = ProcessFrame(sent[c][processed[c] + 1])]
  /\ UNCHANGED <<managerVars, sentVars, inSync, queue, delivered, closed>>

\* The answer the handler, the missing handler or the echo service gives.
Dispatch(kind, n) ==
  [kind |-> CASE kind = "handled" -> "response"
              [] kind = "unhandled" -> "error"
              [] OTHER -> "echo",
   n |-> n]

\* Mutant: the channel has one slot less than the session's client may count on.
RespondOneSlotLess(c) ==
  /\ Go(c, "respond", "select")
  /\ Len(queue[c]) + 1 < QueueCapacity
  /\ queue' = [queue EXCEPT ![c] =
                 Append(@, Dispatch(sent[c][processed[c]], processed[c]))]
  /\ UNCHANGED <<managerVars, sentVars, readVars, delivered, closed>>

\* outbound_tx.send waits for a slot.
Respond(c) ==
  /\ Go(c, "respond", "select")
  /\ Len(queue[c]) < QueueCapacity
  /\ queue' = [queue EXCEPT ![c] =
                 Append(@, Dispatch(sent[c][processed[c]], processed[c]))]
  /\ UNCHANGED <<managerVars, sentVars, readVars, delivered, closed>>

\* The queue's branch completes: what recv_frame had read is dropped.
SendOutbound(c) ==
  /\ pc[c] = "select"
  /\ queue[c] # <<>>
  /\ delivered' = [delivered EXCEPT ![c] = Append(@, Head(queue[c]))]
  /\ queue' = [queue EXCEPT ![c] = Tail(@)]
  /\ inSync' = [inSync EXCEPT ![c] = @ /\ ~ partial[c]]
  /\ partial' = [partial EXCEPT ![c] = FALSE]
  /\ UNCHANGED <<pc, managerVars, sentVars, processed, closed>>

\* End of stream, an error of the read or of the write, or bytes read off the
\* frame boundaries that give no frame: the loop breaks.
Break(c) ==
  /\ Go(c, "select", "unregister")
  /\ UNCHANGED <<managerVars, sentVars, readVars, queue, delivered, closed>>

-----------------------------------------------------------------------------
(* The end of a session.                                                    *)

\* Mutant: the mappings to the connection stay.
UnregisterKeepsMapping(c) ==
  /\ Go(c, "unregister", "remove")
  /\ connections' = connections \ {c}
  /\ UNCHANGED <<bound, sessionKnown, sentVars, readVars, queue, delivered, closed>>

Unregister(c) ==
  /\ Go(c, "unregister", "remove")
  /\ connections' = connections \ {c}
  /\ bound' = IF bound = c THEN None ELSE bound
  /\ UNCHANGED <<sessionKnown, sentVars, readVars, queue, delivered, closed>>

RemoveSession(c) ==
  /\ Go(c, "remove", "done")
  /\ sessionKnown' = FALSE
  /\ UNCHANGED <<connections, bound, sentVars, readVars, queue, delivered, closed>>

AllDone == (\A c \in Conn : pc[c] = "done") /\ UNCHANGED vars

TaskStep(c) ==
  \/ Register(c) \/ CreateSession(c) \/ BindSession(c)
  \/ Receive(c) \/ Respond(c) \/ SendOutbound(c)
  \/ Unregister(c) \/ RemoveSession(c)

Next ==
  \/ \E c \in Conn : TaskStep(c) \/ Break(c) \/ ReadPartial(c) \/ Send(c) \/ Close(c)
  \/ AllDone

\* The runtime polls the task, what was sent arrives, a write ends or fails, and
\* the end of the client's stream is seen.
Fairness ==
  \A c \in Conn : WF_vars(TaskStep(c) \/ (closed[c] /\ Break(c)))

Spec == Init /\ [][Next]_vars /\ Fairness

-----------------------------------------------------------------------------
(* Properties.                                                              *)

\* How many of the client's frames the pipeline is done with.
Handled(c) == IF pc[c] = "respond" THEN processed[c] - 1 ELSE processed[c]

\* A client gets exactly one answer for each of its frames that deserves one,
\* in the order of its frames, of the kind that frame asks for and correlated
\* with it; frames of another session are dropped "silently without returning
\* error payloads" (src/server/networking/pipeline.rs).
AnswersExact ==
  \A c \in Conn :
    LET answers == delivered[c] \o queue[c]
    IN  /\ \A i, j \in DOMAIN answers : i < j => answers[i].n < answers[j].n
        /\ {answers[i] : i \in DOMAIN answers} =
             {Dispatch(sent[c][n], n) : n \in {m \in 1 .. Handled(c) : Answered(sent[c][m])}}

\* The session map never names a connection that is gone, whatever the order in
\* which connections with the same session id come and go: "Removes a connection
\* and all associated session/peer mappings" (src/server/connections/manager.rs).
MappingLive == bound # None => bound \in connections

\* A client that waits for each answer before its next frame has every frame
\* dispatched, unless the session ends: "dispatching all inbound frames through
\* the `ServerPipeline`" (src/server/listener.rs:503-504).  With a request under
\* way its answer may make select! drop half of the next frame.
FramesDispatched ==
  \A c \in Conn : \A n \in DOMAIN Offer[c] :
    Len(sent[c]) >= n ~> (processed[c] >= n \/ pc[c] = "done" \/ ahead[c] > 0)

\* When the client closes its stream the session ends and its permit returns, as
\* long as the client never sent a frame on top of as many unanswered requests as
\* the queue has slots; then the task may wait for a slot that only it could free.
SessionCloses ==
  \A c \in Conn : closed[c] ~> (pc[c] = "done" \/ ahead[c] >= QueueCapacity)

=============================================================================
