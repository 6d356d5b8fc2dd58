-------------------------- MODULE RefinementProofs --------------------------
(***************************************************************************)
(* The routed sessions implement MessageRelay: every step of a session     *)
(* maps to a step of the relay as its clients see it, or to none.          *)
(***************************************************************************)
EXTENDS RoutedRefinement, RoutedSessionProofs

-----------------------------------------------------------------------------
(* What the mapping needs beyond Inv.                                       *)

\* A route id that leads nowhere has a peer that is away, when it has one.
GapMeansAway(reg) ==
  \A r \in RouteId, q \in PeerId :
    reg.by_prefix[r] = None /\ Prefix[q] = r =>
      \E p \in PeerId : Prefix[p] = r /\ reg.by_peer_id[p] = None

\* Everything a step of the refinement relies on.
RefInv == Inv /\ FrameContext /\ IndicesAgree /\ GapMeansAway(routes)

\* A sequence is its head before its tail.
LEMMA SplitHead ==
  ASSUME NEW S, NEW s \in Seq(S), s # <<>>
  PROVE  Head(s) \in S /\ <<Head(s)>> \o Tail(s) = s
  BY SMTT(60)

\* What is put in front of a sequence is its head.
LEMMA JoinHead ==
  ASSUME NEW S, NEW s \in Seq(S), NEW e \in S
  PROVE  /\ <<e>> \o s # <<>>
         /\ Head(<<e>> \o s) = e /\ Tail(<<e>> \o s) = s
  BY SMTT(60)

\* Without a route there is no message in hand.
LEMMA SlipNone ==
  ASSUME NEW c \in Conn, target[c] = None
  PROVE  SlipOf(c) = None
  BY DEF SlipOf

\* A registered route leads to its connection.
LEMMA HomeSet ==
  ASSUME NEW c \in Conn, NEW p \in PeerId,
         routes'.by_peer_id[p] = [connection_id |-> c, peer_id |-> p]
  PROVE  HomeOf(p)' = c
  BY RegistryAssumption DEF HomeOf

\* An address by peer id is that peer.
LEMMA PeerReach ==
  ASSUME NEW p
  PROVE  Relay!Reach(<<"peer", p>>) = {p}
  BY DEF Relay!Reach

\* An address by prefix is every peer with that prefix.
LEMMA PrefixReach ==
  ASSUME NEW r
  PROVE  Relay!Reach(<<"prefix", r>>) = {p \in PeerId : Prefix[p] = r}
  BY DEF Relay!Reach

\* Insert fills the prefix it changes.
LEMMA InsertGap ==
  ASSUME NEW reg \in Registry, NEW p \in PeerId, NEW c \in Conn, GapMeansAway(reg)
  PROVE  GapMeansAway(Insert(reg, p, c))
  BY RegistryAssumption DEF GapMeansAway, Insert, Registry, RouteEntry

\* RemoveConnection empties a prefix together with a peer of it.
LEMMA RemoveGap ==
  ASSUME NEW reg \in Registry, NEW p \in PeerId, NEW c \in Conn, GapMeansAway(reg)
  PROVE  GapMeansAway(RemoveConnection(reg, p, c))
  BY RegistryAssumption DEF GapMeansAway, RemoveConnection, IsCurrent, Registry, RouteEntry

\* The gaps of the routing table are explained in every reachable state.
LEMMA GapHolds == Spec => []GapMeansAway(routes)
<1>1. Init => GapMeansAway(routes)
  BY RegistryAssumption DEF Init, GapMeansAway, EmptyRegistry
<1>2. ASSUME Inv, GapMeansAway(routes), [Next]_vars
      PROVE  GapMeansAway(routes)'
  <2> USE <1>2
  <2>1. routes \in Registry
    BY DEF Inv, TypeOK
  <2>2. ASSUME NEW c \in Conn, Register(c) PROVE GapMeansAway(routes')
    BY <2>1, <2>2, InsertGap DEF Inv, ReaderContext, Register
  <2>3. ASSUME NEW c \in Conn, Unregister(c) PROVE GapMeansAway(routes')
    BY <2>1, <2>3, RemoveGap DEF Inv, ReaderContext, Unregister
  <2>4. ASSUME NEW c \in Conn, Evict(c) PROVE GapMeansAway(routes')
    BY <2>1, <2>4, RemoveGap DEF Inv, ReaderContext, Evict, RouteEntry
  <2> QED BY <2>2, <2>3, <2>4, TableStep DEF GapMeansAway
<1> QED BY <1>1, <1>2, InvHolds, PTL DEF Spec

\* Everything the refinement relies on holds in every reachable state.
LEMMA RefInvHolds == Spec => []RefInv
  BY FrameContextHolds, InvHolds, TableConsistent, GapHolds, PTL DEF RefInv

-----------------------------------------------------------------------------
(* What the mapped variables are after a step.                              *)

\* A step that changes what the reader of c holds, and no other reader, changes
\* the mapped variables at c only.
LEMMA LocalStep ==
  ASSUME Inv, Inv', NEW c \in Conn,
         \A d \in Conn \ {c} :
           /\ pc'[d] = pc[d] /\ cur'[d] = cur[d] /\ seen'[d] = seen[d]
           /\ registered'[d] = registered[d] /\ target'[d] = target[d]
  PROVE  /\ [d \in Conn |-> PhaseOf(d)]'
              = [[d \in Conn |-> PhaseOf(d)] EXCEPT ![c] = PhaseOf(c)']
         /\ [d \in Conn |-> WantOf(d)]'
              = [[d \in Conn |-> WantOf(d)] EXCEPT ![c] = WantOf(c)']
         /\ [d \in Conn |-> SlipOf(d)]'
              = [[d \in Conn |-> SlipOf(d)] EXCEPT ![c] = SlipOf(c)']
<1>1. \A d \in Conn \ {c} : PhaseOf(d)' = PhaseOf(d)
  BY Zenon DEF PhaseOf
<1>2. \A d \in Conn \ {c} : WantOf(d)' = WantOf(d)
  BY DEF WantOf
<1>3. \A d \in Conn \ {c} : Forwarded(d)' = Forwarded(d)
  BY ZenonT(60) DEF Forwarded
<1>4. \A d \in Conn \ {c} : SlipOf(d)' = SlipOf(d)
  BY <1>3 DEF SlipOf
<1> QED BY <1>1, <1>2, <1>4, ZenonT(60)

\* A step that leaves what a connection's writer holds alone leaves its mailbox alone.
LEMMA MailUnchanged ==
  ASSUME UNCHANGED <<writer, queue, inflight>>
  PROVE  /\ [d \in Conn |-> MailboxOf(d)]' = [d \in Conn |-> MailboxOf(d)]
         /\ [d \in Conn |-> BoxOf(d)]' = [d \in Conn |-> BoxOf(d)]
  BY DEF MailboxOf, BoxOf

\* A step that concerns the writer of c, and no other, changes the mailbox of c only.
LEMMA MailStep ==
  ASSUME NEW c \in Conn,
         \A d \in Conn \ {c} :
           writer'[d] = writer[d] /\ queue'[d] = queue[d] /\ inflight'[d] = inflight[d]
  PROVE  /\ [d \in Conn |-> MailboxOf(d)]'
              = [[d \in Conn |-> MailboxOf(d)] EXCEPT ![c] = MailboxOf(c)']
         /\ [d \in Conn |-> BoxOf(d)]'
              = [[d \in Conn |-> BoxOf(d)] EXCEPT ![c] = BoxOf(c)']
<1>1. \A d \in Conn \ {c} : MailboxOf(d)' = MailboxOf(d)
  BY Zenon DEF MailboxOf
<1>2. \A d \in Conn \ {c} : BoxOf(d)' = BoxOf(d)
  BY DEF BoxOf
<1> QED BY <1>1, <1>2, ZenonT(60)

\* A frame that is queued for d goes to the end of d's mailbox.
LEMMA PushMaps ==
  ASSUME Inv, NEW d \in Conn, NEW f \in ServerFrame, CanPush(d), Push(d, f),
         UNCHANGED <<writer, inflight>>
  PROVE  /\ [e \in Conn |-> MailboxOf(e)]' = [e \in Conn |-> MailboxOf(e)]
         /\ MailboxOf(d) = "open"
         /\ [e \in Conn |-> BoxOf(e)]'
              = [[e \in Conn |-> BoxOf(e)] EXCEPT ![d] = Append(BoxOf(d), f)]
<1>1. /\ queue'[d] = Append(queue[d], f)
      /\ \A e \in Conn \ {d} : queue'[e] = queue[e]
  BY DEF Inv, TypeOK, Push
<1>2. BoxOf(d)' = Append(BoxOf(d), f)
  <2>1. CASE inflight[d] = None
    BY <1>1, <2>1 DEF BoxOf
  <2>2. CASE inflight[d] # None
    <3>1. inflight[d] \in ServerFrame /\ queue[d] \in Seq(ServerFrame)
      BY <2>2 DEF Inv, TypeOK
    <3>2. <<inflight[d]>> \o Append(queue[d], f) = Append(<<inflight[d]>> \o queue[d], f)
      BY <3>1
    <3> QED BY <1>1, <2>2, <3>2 DEF BoxOf
  <2> QED BY <2>1, <2>2
<1>3. [e \in Conn |-> MailboxOf(e)]' = [e \in Conn |-> MailboxOf(e)]
  BY DEF MailboxOf
<1>4. MailboxOf(d) = "open"
  BY DEF MailboxOf, CanPush
<1> QED BY <1>1, <1>2, <1>3, <1>4, MailStep, ZenonT(60)

\* A step that leaves the routing table alone leaves the directory alone.
LEMMA HomeUnchanged ==
  ASSUME UNCHANGED routes
  PROVE  [p \in PeerId |-> HomeOf(p)]' = [p \in PeerId |-> HomeOf(p)]
  BY ZenonT(60) DEF HomeOf

-----------------------------------------------------------------------------
(* One lemma per group of steps.                                            *)

\* A session starts: its mailbox opens.
LEMMA StartMaps ==
  ASSUME RefInv, Inv', NEW c \in Conn, StartSession(c)
  PROVE  Relay!Connect(c)
<1> USE DEF RefInv
<1>1. UNCHANGED <<routes, cur, seen, registered, target, queue, inflight, delivered>>
  BY DEF StartSession
<1>2. /\ pc[c] = "new" /\ pc'[c] = "reading"
      /\ writer[c] = "none" /\ writer'[c] = "running"
      /\ \A d \in Conn \ {c} : pc'[d] = pc[d] /\ writer'[d] = writer[d]
  BY DEF StartSession, Inv, TypeOK, ReaderContext
<1>3. PhaseOf(c) = "new" /\ PhaseOf(c)' = "idle"
  BY <1>2 DEF PhaseOf
<1>4. WantOf(c)' = WantOf(c) /\ SlipOf(c)' = SlipOf(c)
  BY <1>2 DEF WantOf, SlipOf
<1>5. MailboxOf(c)' = "open"
  BY <1>2 DEF MailboxOf
<1>6. [d \in Conn |-> BoxOf(d)]' = [d \in Conn |-> BoxOf(d)]
  BY <1>1 DEF BoxOf
<1> QED
  BY <1>1, <1>2, <1>3, <1>4, <1>5, <1>6, LocalStep, MailStep, HomeUnchanged, ZenonT(60)
     DEF Relay!Connect, Relay!Move

\* A frame is read: it is in hand, with the address to look up if it needs one.
LEMMA ReadMaps ==
  ASSUME RefInv, Inv', NEW c \in Conn, NEW f \in ClientFrame, NEW next \in AfterRead,
         f.type \in {"PeerId", "SendMessage"} => f.peer \in PeerId,
         Read(c, f, next)
  PROVE  Relay!TakeFrame(c)
<1> USE DEF RefInv
<1>1. /\ UNCHANGED <<routes, registered, target, writer, queue, inflight, delivered>>
      /\ seen' = [seen EXCEPT ![c] = @ + 1]
  BY ZenonT(60) DEF Read, writerVars
<1>2. /\ pc[c] = "reading" /\ pc'[c] = next
      /\ next # "reading" => cur'[c] = f
      /\ \A d \in Conn \ {c} : pc'[d] = pc[d] /\ cur'[d] = cur[d] /\ seen'[d] = seen[d]
      /\ target[c] = None
  BY Zenon DEF Read, Inv, TypeOK, FrameContext
<1>3. SlipOf(c) = None /\ SlipOf(c)' = None
  BY <1>1, <1>2 DEF SlipOf
<1>4. PhaseOf(c) = "idle" /\ WantOf(c) = None
  BY <1>2 DEF PhaseOf, WantOf
<1>5. /\ [d \in Conn |-> PhaseOf(d)]'
           = [[d \in Conn |-> PhaseOf(d)] EXCEPT ![c] = PhaseOf(c)']
      /\ [d \in Conn |-> WantOf(d)]'
           = [[d \in Conn |-> WantOf(d)] EXCEPT ![c] = WantOf(c)']
      /\ [d \in Conn |-> SlipOf(d)]'
           = [[d \in Conn |-> SlipOf(d)] EXCEPT ![c] = SlipOf(c)']
  BY <1>1, <1>2, LocalStep, ZenonT(60)
<1>6. [d \in Conn |-> SlipOf(d)]' = [d \in Conn |-> SlipOf(d)]
  BY <1>3, <1>5, ZenonT(60)
<1>7. CASE next = "lookup"
  <2>1. PhaseOf(c)' = "asking"
    BY <1>2, <1>7 DEF PhaseOf
  <2>2. WantOf(c)' \in Relay!Address
    BY <1>2, <1>7 DEF WantOf, ClientFrame, Relay!Address
  <2> QED
    BY <1>1, <1>4, <1>5, <1>6, <2>1, <2>2, MailUnchanged, HomeUnchanged, ZenonT(60)
       DEF Relay!TakeFrame, Relay!Move
<1>8. CASE next # "lookup"
  <2>1. PhaseOf(c)' \in {"idle", "announcing", "answering"}
    BY <1>2, <1>8 DEF PhaseOf, AfterRead
  <2>2. WantOf(c)' = None
    BY <1>2, <1>8 DEF WantOf
  <2>3. [d \in Conn |-> WantOf(d)]' = [d \in Conn |-> WantOf(d)]
    BY <1>4, <1>5, <2>2, ZenonT(60)
  <2> QED
    BY <1>1, <1>4, <1>5, <1>6, <2>1, <2>3, MailUnchanged, HomeUnchanged, ZenonT(60)
       DEF Relay!TakeFrame, Relay!Move
<1> QED BY <1>7, <1>8

\* The read loop ends, or the session has drained its queue.
LEMMA LeaveMaps ==
  ASSUME RefInv, Inv', NEW c \in Conn, ReadEof(c) \/ ReadError(c) \/ Drained(c)
  PROVE  Relay!Leave(c) \/ UNCHANGED Relay!relayVars
<1> USE DEF RefInv
<1>1. UNCHANGED <<routes, cur, seen, registered, target, writer, queue, inflight, delivered>>
  BY Zenon DEF ReadEof, ReadError, Drained, writerVars
<1>2. /\ \/ pc[c] = "reading" /\ pc'[c] \in {"unregister", "draining", "failed"}
         \/ pc[c] = "draining" /\ pc'[c] = "done"
      /\ \A d \in Conn \ {c} : pc'[d] = pc[d]
  BY ZenonT(60) DEF ReadEof, ReadError, Drained, Inv, TypeOK
<1>3. WantOf(c)' = WantOf(c) /\ SlipOf(c)' = SlipOf(c)
  BY <1>1, <1>2 DEF WantOf, SlipOf
<1>4. \/ PhaseOf(c) = "idle" /\ PhaseOf(c)' \in {"left", "failed"}
      \/ PhaseOf(c)' = PhaseOf(c)
  BY <1>2 DEF PhaseOf
<1> QED
  BY <1>1, <1>2, <1>3, <1>4, LocalStep, MailUnchanged, HomeUnchanged, ZenonT(60)
     DEF Relay!Leave, Relay!Move, Relay!relayVars

\* The reader goes on with the next frame: what it held is no longer mapped.
LEMMA ResumeMaps ==
  ASSUME Inv, Inv', NEW c \in Conn, Resume(c), UNCHANGED seen,
         \A d \in Conn \ {c} : registered'[d] = registered[d]
  PROVE  /\ [d \in Conn |-> PhaseOf(d)]'
              = [[d \in Conn |-> PhaseOf(d)] EXCEPT ![c] = "idle"]
         /\ [d \in Conn |-> WantOf(d)]'
              = [[d \in Conn |-> WantOf(d)] EXCEPT ![c] = None]
         /\ [d \in Conn |-> SlipOf(d)]'
              = [[d \in Conn |-> SlipOf(d)] EXCEPT ![c] = None]
<1>1. /\ pc'[c] = "reading"
      /\ \A d \in Conn \ {c} : pc'[d] = pc[d] /\ cur'[d] = cur[d] /\ target'[d] = target[d]
  BY DEF Resume, Inv, TypeOK
<1>2. PhaseOf(c)' = "idle" /\ WantOf(c)' = None /\ SlipOf(c)' = None
  BY <1>1 DEF PhaseOf, WantOf, SlipOf
<1> QED BY <1>1, <1>2, LocalStep, ZenonT(60)

\* A registration points the directory to the connection.
LEMMA RegisterMaps ==
  ASSUME RefInv, Inv', NEW c \in Conn, Register(c)
  PROVE  Relay!Announce(c)
<1> USE DEF RefInv
<1>0. PICK p \in PeerId : p = cur[c].peer
  BY DEF Register, Inv, ReaderContext
<1>1. /\ pc[c] = "register"
      /\ Resume(c) /\ UNCHANGED <<seen, writer, queue, inflight, delivered>>
      /\ registered' = [registered EXCEPT ![c] = p]
      /\ routes' = Insert(routes, p, c)
  BY <1>0 DEF Register, writerVars
<1>2. PhaseOf(c) = "announcing" /\ WantOf(c) = None /\ SlipOf(c) = None
  BY <1>1, ZenonT(60) DEF PhaseOf, WantOf, SlipOf
<1>3. [q \in PeerId |-> HomeOf(q)]' = [[q \in PeerId |-> HomeOf(q)] EXCEPT ![p] = c]
  <2>1. \A q \in PeerId \ {p} : routes'.by_peer_id[q] = routes.by_peer_id[q]
    BY <1>1 DEF Insert, Inv, TypeOK, Registry
  <2>2. routes'.by_peer_id[p] = [connection_id |-> c, peer_id |-> p]
    BY <1>1 DEF Insert, Inv, TypeOK, Registry
  <2>3. HomeOf(p)' = c
    BY <2>2, HomeSet, ZenonT(60)
  <2> QED BY <2>1, <2>3, ZenonT(60) DEF HomeOf
<1>4. \A d \in Conn \ {c} : registered'[d] = registered[d]
  BY <1>1 DEF Inv, TypeOK
<1>5. /\ [d \in Conn |-> PhaseOf(d)]'
           = [[d \in Conn |-> PhaseOf(d)] EXCEPT ![c] = "idle"]
      /\ [d \in Conn |-> WantOf(d)]' = [d \in Conn |-> WantOf(d)]
      /\ [d \in Conn |-> SlipOf(d)]' = [d \in Conn |-> SlipOf(d)]
  BY <1>1, <1>2, <1>4, ResumeMaps, ZenonT(60)
<1> QED BY <1>1, <1>2, <1>3, <1>5, MailUnchanged, ZenonT(60) DEF Relay!Announce, Relay!Move

\* remove_connection withdraws the peer if its entry is the connection's, and
\* otherwise changes nothing.
LEMMA RemoveMaps ==
  ASSUME Inv, NEW p \in PeerId, NEW c \in Conn, routes' = RemoveConnection(routes, p, c)
  PROVE  \/ /\ HomeOf(p) = c
            /\ [q \in PeerId |-> HomeOf(q)]' = [[q \in PeerId |-> HomeOf(q)] EXCEPT ![p] = None]
         \/ [q \in PeerId |-> HomeOf(q)]' = [q \in PeerId |-> HomeOf(q)]
<1>1. CASE IsCurrent(routes, p, c)
  <2>1. HomeOf(p) = c
    BY <1>1 DEF IsCurrent, HomeOf
  <2>2. /\ routes'.by_peer_id[p] = None
        /\ \A q \in PeerId \ {p} : routes'.by_peer_id[q] = routes.by_peer_id[q]
    BY <1>1 DEF RemoveConnection, Inv, TypeOK, Registry
  <2> QED BY <2>1, <2>2, Zenon DEF HomeOf
<1>2. CASE ~ IsCurrent(routes, p, c)
  BY <1>2, HomeUnchanged, ZenonT(60) DEF RemoveConnection
<1> QED BY <1>1, <1>2

\* A session that leaves withdraws its own peer id.
LEMMA UnregisterMaps ==
  ASSUME RefInv, Inv', NEW c \in Conn, Unregister(c)
  PROVE  \/ \E p \in PeerId : Relay!Withdraw(p)
         \/ UNCHANGED Relay!relayVars
<1> USE DEF RefInv
<1>1. /\ UNCHANGED <<cur, seen, registered, target, writer, queue, inflight, delivered>>
      /\ routes' = RemoveConnection(routes, registered[c], c)
      /\ registered[c] \in PeerId
  BY ZenonT(60) DEF Unregister, writerVars, Inv, ReaderContext
<1>2. /\ pc[c] = "unregister" /\ pc'[c] = "draining"
      /\ \A d \in Conn \ {c} : pc'[d] = pc[d]
  BY DEF Unregister, Inv, TypeOK
<1>3. PhaseOf(c) = "left" /\ PhaseOf(c)' = "left"
  BY <1>2 DEF PhaseOf
<1>4. WantOf(c)' = WantOf(c) /\ SlipOf(c)' = SlipOf(c)
  BY <1>1, <1>2, ZenonT(60) DEF WantOf, SlipOf
<1>5. /\ [d \in Conn |-> PhaseOf(d)]' = [d \in Conn |-> PhaseOf(d)]
      /\ [d \in Conn |-> WantOf(d)]' = [d \in Conn |-> WantOf(d)]
      /\ [d \in Conn |-> SlipOf(d)]' = [d \in Conn |-> SlipOf(d)]
  BY <1>1, <1>2, <1>3, <1>4, LocalStep, ZenonT(60)
<1> QED
  BY <1>1, <1>3, <1>5, MailUnchanged, RemoveMaps, ZenonT(60)
     DEF Relay!Withdraw, Relay!relayVars

\* An eviction withdraws a peer whose mailbox is shut.
LEMMA EvictMaps ==
  ASSUME RefInv, Inv', NEW c \in Conn, Evict(c)
  PROVE  \/ \E p \in PeerId : Relay!Withdraw(p)
         \/ UNCHANGED Relay!relayVars
<1> USE DEF RefInv
<1>1. /\ UNCHANGED <<seen, registered, writer, queue, inflight, delivered>>
      /\ pc[c] = "evict" /\ Resume(c)
      /\ routes' = RemoveConnection(routes, target[c].peer_id, target[c].connection_id)
      /\ target[c].peer_id \in PeerId /\ target[c].connection_id \in Conn
      /\ writer[target[c].connection_id] = "stopped"
  BY DEF Evict, writerVars, Inv, ReaderContext, RouteEntry
<1>2. PhaseOf(c) = "idle" /\ WantOf(c) = None /\ SlipOf(c) = None
  BY <1>1 DEF PhaseOf, WantOf, SlipOf
<1>3. /\ [d \in Conn |-> PhaseOf(d)]' = [d \in Conn |-> PhaseOf(d)]
      /\ [d \in Conn |-> WantOf(d)]' = [d \in Conn |-> WantOf(d)]
      /\ [d \in Conn |-> SlipOf(d)]' = [d \in Conn |-> SlipOf(d)]
  BY <1>1, <1>2, ResumeMaps, ZenonT(60)
<1>4. MailboxOf(target[c].connection_id) = "shut"
  BY <1>1 DEF MailboxOf
<1> QED
  BY <1>1, <1>3, <1>4, MailUnchanged, RemoveMaps, ZenonT(60)
     DEF Relay!Withdraw, Relay!relayVars

\* A lookup that finds nothing: a peer of the address is away.
LEMMA MissMaps ==
  ASSUME RefInv, Inv', NEW c \in Conn, LookupMiss(c)
  PROVE  Relay!Deny(c)
<1> USE DEF RefInv
<1>1. /\ UNCHANGED <<routes, seen, registered, writer, queue, inflight, delivered>>
      /\ pc[c] = "lookup" /\ target[c] = None /\ FoundEntry(cur[c]) = None
      /\ cur[c] \in ClientFrame
  BY DEF LookupMiss, writerVars, FrameContext, Inv, ReaderContext
<1>2. PhaseOf(c) = "asking" /\ SlipOf(c) = None
  BY <1>1 DEF PhaseOf, SlipOf
<1>3. CASE cur[c].type = "SendMessage"
  <2>1. /\ pc'[c] = "respond" /\ cur' = cur /\ target' = target
        /\ \A d \in Conn \ {c} : pc'[d] = pc[d]
    BY <1>3 DEF LookupMiss, Inv, TypeOK
  <2>2. PhaseOf(c)' = "answering" /\ WantOf(c)' = None /\ SlipOf(c)' = None
    BY <1>1, <2>1, ZenonT(60) DEF PhaseOf, WantOf, SlipOf
  <2>3. WantOf(c) = <<"peer", cur[c].peer>>
    BY <1>1, <1>3, ZenonT(60) DEF WantOf
  <2>4. HomeOf(cur[c].peer) = None /\ cur[c].peer \in PeerId
    BY <1>1, <1>3 DEF FoundEntry, HomeOf, Inv, ReaderContext
  <2>5. \E p \in Relay!Reach(WantOf(c)) : p \in PeerId /\ HomeOf(p) = None
    BY <2>3, <2>4, PeerReach, ZenonT(60)
  <2>6. /\ [d \in Conn |-> PhaseOf(d)]'
             = [[d \in Conn |-> PhaseOf(d)] EXCEPT ![c] = "answering"]
        /\ [d \in Conn |-> WantOf(d)]' = [[d \in Conn |-> WantOf(d)] EXCEPT ![c] = None]
        /\ [d \in Conn |-> SlipOf(d)]' = [d \in Conn |-> SlipOf(d)]
    BY <1>1, <1>2, <2>1, <2>2, LocalStep, ZenonT(60)
  <2>7. WantOf(c)[1] = "peer"
    BY <2>3
  <2> QED
    BY <1>1, <1>2, <2>5, <2>6, <2>7, MailUnchanged, HomeUnchanged, ZenonT(60)
       DEF Relay!Deny, Relay!Move
<1>4. CASE cur[c].type # "SendMessage"
  <2>1. Resume(c)
    BY <1>4 DEF LookupMiss
  <2>2. WantOf(c) = <<"prefix", cur[c].session_id>>
    BY <1>1, <1>4 DEF WantOf
  <2>3. routes.by_prefix[cur[c].session_id] = None /\ cur[c].session_id \in RouteId
    BY <1>1, <1>4 DEF FoundEntry, ClientFrame
  <2>4. Relay!Reach(WantOf(c)) = {p \in PeerId : Prefix[p] = cur[c].session_id}
    BY <2>2, PrefixReach, ZenonT(60)
  <2>5. \/ Relay!Reach(WantOf(c)) = {}
        \/ \E p \in Relay!Reach(WantOf(c)) : p \in PeerId /\ HomeOf(p) = None
    BY <2>3, <2>4, ZenonT(60) DEF GapMeansAway, HomeOf
  <2>6. /\ [d \in Conn |-> PhaseOf(d)]'
             = [[d \in Conn |-> PhaseOf(d)] EXCEPT ![c] = "idle"]
        /\ [d \in Conn |-> WantOf(d)]' = [[d \in Conn |-> WantOf(d)] EXCEPT ![c] = None]
        /\ [d \in Conn |-> SlipOf(d)]' = [d \in Conn |-> SlipOf(d)]
    BY <1>1, <1>2, <2>1, ResumeMaps, ZenonT(60)
  <2>7. WantOf(c)[1] # "peer"
    BY <2>2
  <2> QED
    BY <1>1, <1>2, <2>5, <2>6, <2>7, MailUnchanged, HomeUnchanged, ZenonT(60)
       DEF Relay!Deny, Relay!Move
<1> QED BY <1>3, <1>4

\* What is forwarded is a frame, and what is bound for a connection is not None.
LEMMA SlipType ==
  ASSUME Inv, NEW c \in Conn, target[c] \in RouteEntry,
         pc[c] \in {"lookup", "respond", "forward", "ackForward"}
  PROVE  /\ Forwarded(c) \in ServerFrame
         /\ [dest |-> target[c].connection_id, message |-> Forwarded(c)] # None
<1>1. /\ cur[c] \in ClientFrame /\ registered[c] \in PeerId
      /\ cur[c].type = "SendMessage" => cur[c].peer \in PeerId
      /\ seen[c] \in Nat
  BY DEF Inv, TypeOK, ReaderContext
<1>2. Forwarded(c) \in ServerFrame
  BY <1>1 DEF Forwarded, ServerFrame, Replies, Forwards, ClientFrame
<1> QED BY <1>2, SlipAssumption DEF RouteEntry

\* The entry a lookup finds is that of a peer of the address that was asked for.
LEMMA HitReaches ==
  ASSUME RefInv, NEW c \in Conn, pc[c] = "lookup", FoundEntry(cur[c]) # None
  PROVE  \E p \in PeerId :
           /\ p \in Relay!Reach(WantOf(c))
           /\ HomeOf(p) = FoundEntry(cur[c]).connection_id
           /\ HomeOf(p) # None
<1> USE DEF RefInv
<1>1. /\ cur[c] \in ClientFrame /\ routes \in Registry
      /\ cur[c].type = "SendMessage" => cur[c].peer \in PeerId
  BY DEF Inv, TypeOK, ReaderContext
<1>2. CASE cur[c].type = "SendMessage"
  <2>1. FoundEntry(cur[c]) = routes.by_peer_id[cur[c].peer]
    BY <1>2 DEF FoundEntry
  <2>2. FoundEntry(cur[c]) \in RouteEntry
    BY <1>1, <1>2, <2>1, ZenonT(60) DEF Registry
  <2>3. HomeOf(cur[c].peer) = FoundEntry(cur[c]).connection_id
    BY <2>1 DEF HomeOf
  <2>4. HomeOf(cur[c].peer) # None
    BY <2>2, <2>3, RegistryAssumption DEF RouteEntry
  <2>5. cur[c].peer \in Relay!Reach(WantOf(c))
    BY <1>2 DEF WantOf, Relay!Reach
  <2> QED BY <1>1, <1>2, <2>3, <2>4, <2>5, ZenonT(60)
<1>3. CASE cur[c].type # "SendMessage"
  <2> DEFINE r == cur[c].session_id
             q == routes.by_prefix[r].peer_id
  <2>1. FoundEntry(cur[c]) = routes.by_prefix[r] /\ r \in RouteId
    BY <1>1, <1>3, ZenonT(60) DEF FoundEntry, ClientFrame
  <2>2. FoundEntry(cur[c]) \in RouteEntry /\ q \in PeerId
    BY <1>1, <2>1, ZenonT(60) DEF Registry, RouteEntry
  <2>3. Prefix[q] = r /\ routes.by_peer_id[q] = routes.by_prefix[r]
    BY <2>1, ZenonT(60) DEF IndicesAgree
  <2>4. HomeOf(q) = FoundEntry(cur[c]).connection_id
    BY <2>1, <2>3, ZenonT(60) DEF HomeOf
  <2>5. HomeOf(q) # None
    BY <2>2, <2>4, RegistryAssumption, ZenonT(60) DEF RouteEntry
  <2>6. q \in Relay!Reach(WantOf(c))
    BY <1>3, <2>2, <2>3 DEF WantOf, Relay!Reach
  <2> QED BY <2>2, <2>4, <2>5, <2>6, ZenonT(60)
<1> QED BY <1>2, <1>3

\* What the relay makes of the frame in hand.
KindOf(f) ==
  CASE f.type = "SendMessage" -> "IncomingMessageEvent"
    [] f.type = "Ack" -> "DeliveryStatusEvent"
    [] OTHER -> "Raw"

\* A lookup that finds a route binds the message for that connection.
LEMMA HitMaps ==
  ASSUME RefInv, Inv', NEW c \in Conn, LookupHit(c)
  PROVE  \E p \in PeerId, kind \in {"IncomingMessageEvent", "DeliveryStatusEvent", "Raw"} :
           Relay!Find(c, p, kind)
<1> USE DEF RefInv
<1>1. /\ UNCHANGED <<routes, cur, seen, registered, writer, queue, inflight, delivered>>
      /\ pc[c] = "lookup" /\ FoundEntry(cur[c]) # None /\ target[c] = None
      /\ target'[c] = FoundEntry(cur[c])
      /\ \A d \in Conn \ {c} : pc'[d] = pc[d] /\ target'[d] = target[d]
      /\ pc'[c] = IF cur[c].type = "SendMessage" THEN "respond"
                  ELSE IF cur[c].type = "Ack" THEN "ackForward" ELSE "forward"
      /\ cur[c].type \in {"SendMessage", "Ack"} \/ IsRaw(cur[c])
  BY ZenonT(60) DEF LookupHit, writerVars, Inv, TypeOK, FrameContext, IsRaw
<1>2. PhaseOf(c) = "asking" /\ SlipOf(c) = None
  BY <1>1 DEF PhaseOf, SlipOf
<1>3. /\ PhaseOf(c)' = IF KindOf(cur[c]) = "IncomingMessageEvent" THEN "answering" ELSE "bound"
      /\ WantOf(c)' = None
  BY <1>1 DEF PhaseOf, WantOf, KindOf
<1>4. WantOf(c) = IF cur[c].type = "SendMessage" THEN <<"peer", cur[c].peer>>
                  ELSE <<"prefix", cur[c].session_id>>
  BY <1>1 DEF WantOf
<1>5. Forwarded(c)' = [kind |-> KindOf(cur[c]), src |-> c, n |-> seen[c],
         from |-> registered[c], to |-> WantOf(c)[2], accepted |-> FALSE,
         correlation_id |-> IF KindOf(cur[c]) = "DeliveryStatusEvent" THEN seen[c] ELSE 0]
  <2>1. WantOf(c)[2] = IF cur[c].type = "SendMessage" THEN cur[c].peer ELSE cur[c].session_id
    BY <1>4
  <2>2. KindOf(cur[c]) = "DeliveryStatusEvent" <=> cur[c].type = "Ack"
    BY DEF KindOf
  <2> QED BY <1>1, <2>1, <2>2, ZenonT(60) DEF Forwarded, KindOf
<1>6. SlipOf(c)' = [dest |-> FoundEntry(cur[c]).connection_id, message |-> Forwarded(c)']
  <2>1. pc'[c] \in {"respond", "forward", "ackForward"}
    BY <1>1
  <2> QED BY <1>1, <2>1 DEF SlipOf
<1>7. PICK p \in PeerId : /\ p \in Relay!Reach(WantOf(c))
                          /\ HomeOf(p) = FoundEntry(cur[c]).connection_id
                          /\ HomeOf(p) # None
  BY <1>1, HitReaches
<1>8. KindOf(cur[c]) # "DeliveryStatusEvent" => registered[c] \notin Relay!Reach(WantOf(c))
  <2>1. NeedsLookup(c, cur[c])
    BY <1>1, ZenonT(60) DEF FrameContext
  <2>2. CASE cur[c].type = "SendMessage"
    BY <1>4, <2>1, <2>2 DEF NeedsLookup, IsSelfMessage, Relay!Reach
  <2>3. CASE cur[c].type # "SendMessage"
    BY <1>1, <1>4, <2>1, <2>3 DEF NeedsLookup, IsSelfMessage, Relay!Reach, KindOf
  <2> QED BY <2>2, <2>3, ZenonT(60)
<1>9. KindOf(cur[c]) = "IncomingMessageEvent" <=> WantOf(c)[1] = "peer"
  <2>1. WantOf(c)[1] = IF cur[c].type = "SendMessage" THEN "peer" ELSE "prefix"
    BY <1>4
  <2> QED BY <2>1, Zenon DEF KindOf
<1>10. /\ [d \in Conn |-> PhaseOf(d)]'
            = [[d \in Conn |-> PhaseOf(d)] EXCEPT ![c] = PhaseOf(c)']
       /\ [d \in Conn |-> WantOf(d)]' = [[d \in Conn |-> WantOf(d)] EXCEPT ![c] = WantOf(c)']
       /\ [d \in Conn |-> SlipOf(d)]' = [[d \in Conn |-> SlipOf(d)] EXCEPT ![c] = SlipOf(c)']
  BY <1>1, LocalStep, ZenonT(60)
<1>11. KindOf(cur[c]) \in {"IncomingMessageEvent", "DeliveryStatusEvent", "Raw"}
  BY ZenonT(60) DEF KindOf
<1>12. Relay!Find(c, p, KindOf(cur[c]))
  BY <1>1, <1>2, <1>3, <1>5, <1>6, <1>7, <1>8, <1>9, <1>10, MailUnchanged, HomeUnchanged, ZenonT(60)
     DEF Relay!Find, Relay!Move, Relay!Message
<1> QED BY <1>11, <1>12, ZenonT(60)

\* The reply to the sender.
LEMMA RespondMaps ==
  ASSUME RefInv, Inv', NEW c \in Conn, Respond(c)
  PROVE  \E kind \in {"SendMessageResponse", "HeartbeatResponse"} : Relay!Answer(c, kind)
<1> USE DEF RefInv
<1> DEFINE kind == IF cur[c].type = "Heartbeat" THEN "HeartbeatResponse"
                                                ELSE "SendMessageResponse"
<1>1. /\ UNCHANGED <<routes, seen, registered, writer, inflight, delivered>>
      /\ pc[c] = "respond"
      /\ \/ CanPush(c) /\ Push(c, Reply(c))
         \/ writer[c] = "stopped" /\ UNCHANGED queue
      /\ \/ target[c] # None /\ pc' = [pc EXCEPT ![c] = "forward"] /\ UNCHANGED <<cur, target>>
         \/ target[c] = None /\ Resume(c)
      /\ cur[c] \in ClientFrame /\ registered[c] \in PeerId /\ seen[c] \in Nat
      /\ target[c] \in RouteEntry \cup {None}
  <2>1. /\ cur[c] \in ClientFrame /\ registered[c] \in PeerId /\ seen[c] \in Nat
        /\ target[c] \in RouteEntry \cup {None}
    BY DEF Respond, Inv, TypeOK, ReaderContext
  <2> QED BY <2>1, ZenonT(60) DEF Respond
<1>2. PhaseOf(c) = "answering" /\ WantOf(c) = None
  BY <1>1 DEF PhaseOf, WantOf
<1>3. SlipOf(c) = None <=> target[c] = None
  <2>1. CASE target[c] = None
    BY <2>1, SlipNone, ZenonT(60)
  <2>2. CASE target[c] # None
    BY <1>1, <2>2, SlipType, ZenonT(60) DEF SlipOf
  <2> QED BY <2>1, <2>2, ZenonT(60)
<1>4. /\ [d \in Conn |-> PhaseOf(d)]'
           = [[d \in Conn |-> PhaseOf(d)]
                EXCEPT ![c] = IF SlipOf(c) = None THEN "idle" ELSE "bound"]
      /\ [d \in Conn |-> WantOf(d)]' = [d \in Conn |-> WantOf(d)]
      /\ [d \in Conn |-> SlipOf(d)]' = [d \in Conn |-> SlipOf(d)]
  <2>1. CASE target[c] = None
    <3>1. Resume(c)
      BY <1>1, <2>1, ZenonT(60)
    <3> QED BY <1>1, <1>2, <1>3, <2>1, <3>1, ResumeMaps, ZenonT(60)
  <2>2. CASE target[c] # None
    <3>1. /\ pc'[c] = "forward" /\ UNCHANGED <<cur, target>>
          /\ \A d \in Conn \ {c} : pc'[d] = pc[d]
      BY <1>1, <2>2 DEF Inv, TypeOK
    <3>2. PhaseOf(c)' = "bound" /\ WantOf(c)' = None
      BY <3>1 DEF PhaseOf, WantOf
    <3>3. SlipOf(c)' = SlipOf(c)
      BY <1>1, <2>2, <3>1 DEF SlipOf, Forwarded
    <3> QED BY <1>1, <1>2, <1>3, <2>2, <3>1, <3>2, <3>3, LocalStep, ZenonT(60)
  <2> QED BY <2>1, <2>2, ZenonT(60)
<1>5. Reply(c) = [kind |-> kind, src |-> c, n |-> seen[c], from |-> registered[c],
                  to |-> None, accepted |-> SlipOf(c) # None, correlation_id |-> seen[c]]
  BY <1>3 DEF Reply
<1>6. Reply(c) \in ServerFrame
  BY <1>1, <1>5 DEF ServerFrame, Replies
<1>7. /\ [d \in Conn |-> MailboxOf(d)]' = [d \in Conn |-> MailboxOf(d)]
      /\ \/ /\ MailboxOf(c) = "open"
            /\ [d \in Conn |-> BoxOf(d)]'
                 = [[d \in Conn |-> BoxOf(d)] EXCEPT ![c] = Append(BoxOf(c), Reply(c))]
         \/ /\ MailboxOf(c) = "shut"
            /\ [d \in Conn |-> BoxOf(d)]' = [d \in Conn |-> BoxOf(d)]
  <2>1. CASE CanPush(c) /\ Push(c, Reply(c))
    BY <1>1, <1>6, <2>1, PushMaps, ZenonT(60)
  <2>2. CASE writer[c] = "stopped" /\ UNCHANGED queue
    BY <1>1, <2>2, MailUnchanged, ZenonT(60) DEF MailboxOf
  <2> QED BY <1>1, <2>1, <2>2, ZenonT(60)
<1>8. Relay!Answer(c, kind)
  BY <1>1, <1>2, <1>4, <1>5, <1>7, HomeUnchanged, ZenonT(60)
     DEF Relay!Answer, Relay!Move, Relay!ReplyTo
<1> QED BY <1>8, ZenonT(60)

\* The message goes into the mailbox it is bound for, or is lost.
LEMMA PostMaps ==
  ASSUME RefInv, Inv', NEW c \in Conn, ForwardOk(c) \/ ForwardFailed(c) \/ AckForward(c)
  PROVE  Relay!Post(c)
<1> USE DEF RefInv
<1>0. PICK d \in Conn : d = target[c].connection_id
  BY ZenonT(60) DEF ForwardOk, ForwardFailed, AckForward, Inv, ReaderContext, RouteEntry
<1>1. /\ UNCHANGED <<routes, seen, registered, writer, inflight, delivered>>
      /\ pc[c] \in {"forward", "ackForward"}
      /\ \/ CanPush(d) /\ Push(d, Forwarded(c))
         \/ writer[d] = "stopped" /\ UNCHANGED queue
      /\ \/ Resume(c)
         \/ pc' = [pc EXCEPT ![c] = "evict"] /\ UNCHANGED <<cur, target>>
  BY <1>0, ZenonT(60) DEF ForwardOk, ForwardFailed, AckForward, writerVars
<1>2. target[c] \in RouteEntry
  BY <1>1 DEF Inv, ReaderContext
<1>3. PhaseOf(c) = "bound" /\ WantOf(c) = None
  BY <1>1 DEF PhaseOf, WantOf
<1>4. SlipOf(c) = [dest |-> d, message |-> Forwarded(c)]
  BY <1>0, <1>1, <1>2, RegistryAssumption, ZenonT(60) DEF SlipOf, RouteEntry
<1>5. /\ [e \in Conn |-> PhaseOf(e)]' = [[e \in Conn |-> PhaseOf(e)] EXCEPT ![c] = "idle"]
      /\ [e \in Conn |-> WantOf(e)]' = [e \in Conn |-> WantOf(e)]
      /\ [e \in Conn |-> SlipOf(e)]' = [[e \in Conn |-> SlipOf(e)] EXCEPT ![c] = None]
  <2>1. CASE Resume(c)
    BY <1>1, <1>3, <2>1, ResumeMaps, ZenonT(60)
  <2>2. CASE pc' = [pc EXCEPT ![c] = "evict"] /\ UNCHANGED <<cur, target>>
    <3>1. pc'[c] = "evict" /\ \A e \in Conn \ {c} : pc'[e] = pc[e]
      BY <2>2 DEF Inv, TypeOK
    <3>2. PhaseOf(c)' = "idle" /\ WantOf(c)' = None /\ SlipOf(c)' = None
      BY <3>1 DEF PhaseOf, WantOf, SlipOf
    <3>3. /\ [e \in Conn |-> PhaseOf(e)]'
               = [[e \in Conn |-> PhaseOf(e)] EXCEPT ![c] = PhaseOf(c)']
          /\ [e \in Conn |-> WantOf(e)]'
               = [[e \in Conn |-> WantOf(e)] EXCEPT ![c] = WantOf(c)']
          /\ [e \in Conn |-> SlipOf(e)]'
               = [[e \in Conn |-> SlipOf(e)] EXCEPT ![c] = SlipOf(c)']
      BY <1>1, <2>2, <3>1, LocalStep, ZenonT(60)
    <3> QED BY <1>3, <3>2, <3>3, ZenonT(60)
  <2> QED BY <1>1, <2>1, <2>2, ZenonT(60)
<1>6. Forwarded(c) \in ServerFrame
  BY <1>1, <1>2, SlipType, ZenonT(60)
<1>7. /\ [e \in Conn |-> MailboxOf(e)]' = [e \in Conn |-> MailboxOf(e)]
      /\ \/ /\ MailboxOf(d) = "open"
            /\ [e \in Conn |-> BoxOf(e)]'
                 = [[e \in Conn |-> BoxOf(e)] EXCEPT ![d] = Append(BoxOf(d), Forwarded(c))]
         \/ /\ MailboxOf(d) = "shut"
            /\ [e \in Conn |-> BoxOf(e)]' = [e \in Conn |-> BoxOf(e)]
  <2>1. CASE CanPush(d) /\ Push(d, Forwarded(c))
    BY <1>1, <1>2, <1>6, <2>1, PushMaps, ZenonT(60)
  <2>2. CASE writer[d] = "stopped" /\ UNCHANGED queue
    BY <1>1, <2>2, MailUnchanged DEF MailboxOf
  <2> QED BY <1>1, <2>1, <2>2, ZenonT(60)
<1>8. /\ [e \in Conn |-> SlipOf(e)][c].dest = d
      /\ [e \in Conn |-> SlipOf(e)][c].message = Forwarded(c)
  BY <1>4
<1> QED
  BY <1>1, <1>3, <1>5, <1>7, <1>8, HomeUnchanged, ZenonT(60) DEF Relay!Post, Relay!Move

\* The writer's steps move frames within a mailbox, out of it, or shut it.
LEMMA WriterMaps ==
  ASSUME RefInv, Inv', NEW c \in Conn, WriterStep(c)
  PROVE  Relay!HandOver(c) \/ Relay!Shut(c) \/ UNCHANGED Relay!relayVars
<1> USE DEF RefInv
<1>1. /\ UNCHANGED <<routes, pc, cur, seen, registered, target>>
      /\ writer[c] = "running"
      /\ \A d \in Conn \ {c} :
           writer'[d] = writer[d] /\ queue'[d] = queue[d] /\ inflight'[d] = inflight[d]
      /\ queue[c] \in Seq(ServerFrame) /\ inflight[c] \in ServerFrame \cup {None}
  BY ZenonT(60) DEF WriterStep, WriterRecv, WriterWrite, WriterFail, WriterEnd, readerVars,
                    Inv, TypeOK
<1>2. /\ [d \in Conn |-> PhaseOf(d)]' = [d \in Conn |-> PhaseOf(d)]
      /\ [d \in Conn |-> WantOf(d)]' = [d \in Conn |-> WantOf(d)]
      /\ [d \in Conn |-> SlipOf(d)]' = [d \in Conn |-> SlipOf(d)]
  BY <1>1 DEF PhaseOf, WantOf, SlipOf, Forwarded
<1>3. /\ [d \in Conn |-> MailboxOf(d)]'
           = [[d \in Conn |-> MailboxOf(d)] EXCEPT ![c] = MailboxOf(c)']
      /\ [d \in Conn |-> BoxOf(d)]' = [[d \in Conn |-> BoxOf(d)] EXCEPT ![c] = BoxOf(c)']
  BY <1>1, MailStep, ZenonT(60)
<1>4. MailboxOf(c) = "open"
  BY <1>1 DEF MailboxOf
<1>5. CASE WriterRecv(c)
  <2>1. /\ inflight[c] = None /\ queue[c] # <<>> /\ UNCHANGED <<writer, delivered>>
        /\ inflight'[c] = Head(queue[c]) /\ queue'[c] = Tail(queue[c])
    BY <1>5, ZenonT(60) DEF WriterRecv, Inv, TypeOK
  <2>2. Head(queue[c]) \in ServerFrame /\ <<Head(queue[c])>> \o Tail(queue[c]) = queue[c]
    BY <1>1, <2>1, SplitHead, ZenonT(60)
  <2>3. BoxOf(c)' = BoxOf(c) /\ MailboxOf(c)' = MailboxOf(c)
    BY <2>1, <2>2, FrameAssumption, Zenon DEF BoxOf, MailboxOf
  <2> QED BY <1>1, <1>2, <1>3, <2>1, <2>3, HomeUnchanged, ZenonT(60) DEF Relay!relayVars
<1>6. CASE WriterWrite(c)
  <2>1. /\ inflight[c] \in ServerFrame /\ inflight[c] # None /\ UNCHANGED <<writer, queue>>
        /\ inflight'[c] = None
        /\ delivered' = [delivered EXCEPT ![c] = Append(@, inflight[c])]
    BY <1>1, <1>6, ZenonT(60) DEF WriterWrite, Inv, TypeOK
  <2>2. BoxOf(c) = <<inflight[c]>> \o queue[c] /\ BoxOf(c)' = queue[c]
    BY <2>1, ZenonT(60) DEF BoxOf
  <2>3. BoxOf(c) # <<>> /\ Head(BoxOf(c)) = inflight[c] /\ Tail(BoxOf(c)) = queue[c]
    <3>1. /\ <<inflight[c]>> \o queue[c] # <<>>
          /\ Head(<<inflight[c]>> \o queue[c]) = inflight[c]
          /\ Tail(<<inflight[c]>> \o queue[c]) = queue[c]
      BY <1>1, <2>1, JoinHead, ZenonT(60)
    <3> QED BY <2>2, <3>1, ZenonT(60)
  <2>4. MailboxOf(c)' = MailboxOf(c)
    BY <2>1, ZenonT(60) DEF MailboxOf
  <2> QED
    BY <1>1, <1>2, <1>3, <1>4, <2>1, <2>2, <2>3, <2>4, HomeUnchanged, ZenonT(60) DEF Relay!HandOver
<1>7. CASE WriterFail(c) \/ WriterEnd(c)
  <2>1. writer'[c] = "stopped" /\ inflight'[c] = None /\ queue'[c] = <<>> /\ UNCHANGED delivered
    BY <1>7, ZenonT(60) DEF WriterFail, WriterEnd, Inv, TypeOK
  <2>2. MailboxOf(c)' = "shut" /\ BoxOf(c)' = <<>>
    BY <2>1 DEF MailboxOf, BoxOf
  <2> QED BY <1>1, <1>2, <1>3, <1>4, <2>1, <2>2, HomeUnchanged, ZenonT(60) DEF Relay!Shut
<1> QED BY <1>5, <1>6, <1>7, ZenonT(60) DEF WriterStep

-----------------------------------------------------------------------------
(* The refinement.                                                          *)

\* Nobody is connected at first, in either specification.
LEMMA InitMaps ==
  ASSUME Init
  PROVE  Relay!RelayInit
<1>1. /\ \A p \in PeerId : HomeOf(p) = None
      /\ \A c \in Conn : /\ PhaseOf(c) = "new" /\ WantOf(c) = None /\ SlipOf(c) = None
                        /\ MailboxOf(c) = "none" /\ BoxOf(c) = <<>>
  BY DEF Init, EmptyRegistry, HomeOf, PhaseOf, WantOf, SlipOf, MailboxOf, BoxOf
<1> QED BY <1>1 DEF Init, Relay!RelayInit

\* Every step of a session is a step of the relay, or leaves it as it is.
LEMMA StepMaps ==
  ASSUME RefInv, Inv', [Next]_vars
  PROVE  [Relay!RelayNext]_Relay!relayVars
<1>1. ASSUME NEW c \in Conn, ClientStep(c) PROVE [Relay!RelayNext]_Relay!relayVars
  <2>1. CASE StartSession(c)
    BY <1>1, <2>1, StartMaps DEF Relay!RelayNext
  <2>2. ASSUME NEW f \in Offer[c], NEW next \in AfterRead, Read(c, f, next)
        PROVE  Relay!TakeFrame(c)
    BY <2>2, ReadMaps, SessionAssumption, ZenonT(60)
  <2>3. CASE ReadRegistration(c) \/ ReadRouted(c) \/ ReadAnswered(c) \/ ReadDropped(c)
    <3>1. \E f \in Offer[c], next \in AfterRead : Read(c, f, next)
      BY <2>3 DEF ReadRegistration, ReadRouted, ReadAnswered, ReadDropped, AfterRead
    <3> QED BY <2>2, <3>1, ZenonT(60) DEF Relay!RelayNext
  <2>4. CASE ReadEof(c) \/ ReadError(c)
    BY <2>4, LeaveMaps DEF Relay!RelayNext
  <2> QED BY <1>1, <2>1, <2>3, <2>4, ZenonT(60) DEF ClientStep
<1>2. ASSUME NEW c \in Conn, ReaderStep(c) PROVE [Relay!RelayNext]_Relay!relayVars
  <2>1. CASE Register(c)
    BY <2>1, RegisterMaps DEF Relay!RelayNext
  <2>2. CASE Unregister(c)
    BY <2>2, UnregisterMaps DEF Relay!RelayNext
  <2>3. CASE Evict(c)
    BY <2>3, EvictMaps DEF Relay!RelayNext
  <2>4. CASE LookupMiss(c)
    BY <2>4, MissMaps DEF Relay!RelayNext
  <2>5. CASE LookupHit(c)
    BY <2>5, HitMaps DEF Relay!RelayNext
  <2>6. CASE Respond(c)
    BY <2>6, RespondMaps DEF Relay!RelayNext
  <2>7. CASE ForwardOk(c) \/ ForwardFailed(c) \/ AckForward(c)
    BY <2>7, PostMaps DEF Relay!RelayNext
  <2>8. CASE Drained(c)
    BY <2>8, LeaveMaps DEF Relay!RelayNext
  <2> QED BY <1>2, <2>1, <2>2, <2>3, <2>4, <2>5, <2>6, <2>7, <2>8, ZenonT(60) DEF ReaderStep
<1>3. ASSUME NEW c \in Conn, WriterStep(c) PROVE [Relay!RelayNext]_Relay!relayVars
  BY <1>3, WriterMaps DEF Relay!RelayNext
<1>4. ASSUME UNCHANGED vars PROVE UNCHANGED Relay!relayVars
  BY <1>4 DEF vars, Relay!relayVars, HomeOf, PhaseOf, WantOf, SlipOf, Forwarded,
              MailboxOf, BoxOf
<1> QED BY <1>1, <1>2, <1>3, <1>4, ZenonT(60) DEF Next, AllClosed

\* For any number of connections, peers and frames and any queue capacity, the
\* routed sessions implement the relay their clients are promised.
THEOREM PromiseKept == Spec => KeepsPromise
<1>1. Init => Relay!RelayInit
  BY InitMaps
<1>2. RefInv /\ Inv' /\ [Next]_vars => [Relay!RelayNext]_Relay!relayVars
  BY StepMaps
<1>3. RefInv => Inv
  BY DEF RefInv
<1> QED
  BY <1>1, <1>2, <1>3, RefInvHolds, PTL DEF Spec, KeepsPromise, Relay!RelaySpec

=============================================================================
