--------------------------- MODULE RouteRegistry ---------------------------
(***************************************************************************)
(* The routing table of the relay: RouteRegistryInner of                   *)
(* src/server/routed_listener.rs.  Two maps hold the same entries: one by  *)
(* the 32-byte peer identifier, one by its first 16 bytes (the route id a  *)
(* wire frame carries).  A route entry names the connection that           *)
(* registered it; its `tx` is that connection's queue, so the connection   *)
(* stands for it.                                                          *)
(***************************************************************************)

CONSTANTS
  PeerId,    \* the peer identifiers
  RouteId,   \* the 16-byte route identifiers
  Prefix,    \* Prefix[p]: the first 16 bytes of peer identifier p
  Conn,      \* the connection identifiers handed out by NEXT_CONNECTION_ID
  None       \* the absent entry of an Option or a map

ASSUME RegistryAssumption ==
  /\ Prefix \in [PeerId -> RouteId]
  /\ None \notin PeerId
  /\ None \notin RouteId
  /\ None \notin Conn
  /\ None \notin [connection_id : Conn, peer_id : PeerId]

RouteEntry == [connection_id : Conn, peer_id : PeerId]

Registry == [by_peer_id : [PeerId -> RouteEntry \cup {None}],
             by_prefix  : [RouteId -> RouteEntry \cup {None}]]

EmptyRegistry == [by_peer_id |-> [p \in PeerId |-> None],
                  by_prefix  |-> [r \in RouteId |-> None]]

Insert(reg, peer, conn) ==
  LET entry == [connection_id |-> conn, peer_id |-> peer]
  IN  [by_peer_id |-> [reg.by_peer_id EXCEPT ![peer] = entry],
       by_prefix  |-> [reg.by_prefix EXCEPT ![Prefix[peer]] = entry]]

IsCurrent(reg, peer, conn) ==
  /\ reg.by_peer_id[peer] # None
  /\ reg.by_peer_id[peer].connection_id = conn

\* Mutant: the cleanup does not ask whose entry it removes.
RemoveConnectionUnguarded(reg, peer, conn) ==
  [by_peer_id |-> [reg.by_peer_id EXCEPT ![peer] = None],
   by_prefix  |-> [reg.by_prefix EXCEPT ![Prefix[peer]] = None]]

\* Mutant: the cleanup forgets the second map.
RemoveConnectionOneMap(reg, peer, conn) ==
  IF IsCurrent(reg, peer, conn)
  THEN [reg EXCEPT !.by_peer_id = [@ EXCEPT ![peer] = None]]
  ELSE reg

RemoveConnection(reg, peer, conn) ==
  IF IsCurrent(reg, peer, conn)
  THEN [by_peer_id |-> [reg.by_peer_id EXCEPT ![peer] = None],
        by_prefix  |-> [reg.by_prefix EXCEPT ![Prefix[peer]] = None]]
  ELSE reg

\* The connections that hold a route, by either map: each such entry keeps a
\* clone of the connection's queue sender alive.
RoutedConnections(reg) ==
  {reg.by_peer_id[p].connection_id : p \in {q \in PeerId : reg.by_peer_id[q] # None}}
    \cup
  {reg.by_prefix[r].connection_id : r \in {q \in RouteId : reg.by_prefix[q] # None}}

=============================================================================
