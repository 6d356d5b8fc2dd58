-------------------------- MODULE MCRoutedSession --------------------------
(***************************************************************************)
(* Small instances of RoutedSession: which frames each client may send.    *)
(***************************************************************************)
EXTENDS RoutedRefinement

CONSTANTS c1, c2, c3, p1, p2, p3, r1, r2, reg, echo

MCRouteId == {r1, r2, reg, echo}

\* p2 and p3 share a prefix.
MCPrefix == [p \in PeerId |-> IF p = p1 THEN r1 ELSE r2]

Registration(p) == [session_id |-> reg, type |-> "PeerId", peer |-> p]
BadRegistration == [session_id |-> reg, type |-> "Opaque", peer |-> None]
Echo == [session_id |-> echo, type |-> "Opaque", peer |-> None]
SendMessage(p) == [session_id |-> r1, type |-> "SendMessage", peer |-> p]
Ack(r) == [session_id |-> r, type |-> "Ack", peer |-> None]
Heartbeat == [session_id |-> r1, type |-> "Heartbeat", peer |-> None]
Raw(r) == [session_id |-> r, type |-> "Opaque", peer |-> None]

\* c1 is p1 and sends every kind of frame, to itself too; c2 and c3 are two
\* connections of p2, or c3 is p3, with the prefix of p2.
ExchangeOffer ==
  [c \in Conn |->
     CASE c = c1 -> {Registration(p1), SendMessage(p1), SendMessage(p2), Raw(r1), Raw(r2),
                     Ack(r2), Heartbeat, BadRegistration, Echo}
       [] c = c2 -> {Registration(p2)}
       [] OTHER -> {Registration(p2), Registration(p3)}]
ExchangeFrames == [c \in Conn |-> IF c = c1 THEN 3 ELSE 1]

\* c1 fills the queue of c2 and its own; an Ack to its own route holds the table's
\* lock while it waits for a slot there, and c2 waits to register again, perhaps
\* under a second peer id with the same prefix, or to unregister.
ContentionOffer ==
  [c \in Conn |-> IF c = c1 THEN {Registration(p1), SendMessage(p2), Ack(r1)}
                            ELSE {Registration(p2), Registration(p3)}]
ContentionFrames == [c \in Conn |-> IF c = c1 THEN 4 ELSE 2]

\* One client registers two peer ids on one connection.
TwoNamesOffer ==
  [c \in Conn |-> IF c = c1 THEN {Registration(p1), Registration(p2)}
                            ELSE {Registration(p2), SendMessage(p1), Raw(r1)}]
TwoFrames == [c \in Conn |-> 2]
=============================================================================
