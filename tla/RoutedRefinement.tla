-------------------------- MODULE RoutedRefinement --------------------------
(***************************************************************************)
(* The routed sessions keep the promise of MessageRelay.  The directory is *)
(* the map by_peer_id; a mailbox is a connection's queue with the frame    *)
(* its writer holds in front; what the reader holds while it waits for the *)
(* lock or for a slot is the frame in hand.                                *)
(***************************************************************************)
EXTENDS RoutedSession

ASSUME SlipAssumption == None \notin [dest : Conn, message : ServerFrame]

HomeOf(p) ==
  IF routes.by_peer_id[p] = None THEN None ELSE routes.by_peer_id[p].connection_id

PhaseOf(c) ==
  CASE pc[c] = "new" -> "new"
    [] pc[c] \in {"reading", "evict"} -> "idle"
    [] pc[c] = "register" -> "announcing"
    [] pc[c] = "lookup" -> "asking"
    [] pc[c] = "respond" -> "answering"
    [] pc[c] \in {"forward", "ackForward"} -> "bound"
    [] pc[c] \in {"unregister", "draining", "done"} -> "left"
    [] pc[c] = "failed" -> "failed"

WantOf(c) ==
  IF pc[c] # "lookup" THEN None
  ELSE IF cur[c].type = "SendMessage" THEN <<"peer", cur[c].peer>>
  ELSE <<"prefix", cur[c].session_id>>

SlipOf(c) ==
  IF pc[c] \in {"respond", "forward", "ackForward"} /\ target[c] # None
  THEN [dest |-> target[c].connection_id, message |-> Forwarded(c)]
  ELSE None

MailboxOf(c) ==
  CASE writer[c] = "none" -> "none"
    [] writer[c] = "running" -> "open"
    [] writer[c] = "stopped" -> "shut"

BoxOf(c) == IF inflight[c] = None THEN queue[c] ELSE <<inflight[c]>> \o queue[c]

Relay == INSTANCE MessageRelay WITH
  home <- [p \in PeerId |-> HomeOf(p)],
  name <- registered,
  count <- seen,
  phase <- [c \in Conn |-> PhaseOf(c)],
  want <- [c \in Conn |-> WantOf(c)],
  slip <- [c \in Conn |-> SlipOf(c)],
  mailbox <- [c \in Conn |-> MailboxOf(c)],
  box <- [c \in Conn |-> BoxOf(c)],
  got <- delivered

\* Every behaviour of the routed sessions is one of the relay as its clients see
\* it: a message goes to a connection at which its address was registered when the
\* table was asked, behind what waits there, or is lost only because that
\* connection's writer stopped; `accepted` says what the table said and is queued
\* before the message; a route goes only with its own connection.
KeepsPromise == Relay!RelaySpec

=============================================================================
