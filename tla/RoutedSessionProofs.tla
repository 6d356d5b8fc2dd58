------------------------ MODULE RoutedSessionProofs ------------------------
(***************************************************************************)
(* Theorems about RoutedSession, for every set of connections and peers,   *)
(* every queue capacity and every choice of client frames: the types and   *)
(* the lock, then where frames are delivered, then in which order and how  *)
(* often.                                                                  *)
(***************************************************************************)
EXTENDS RoutedSession, TLAPS

-----------------------------------------------------------------------------
(* Sequences.                                                               *)

\* What appending, and taking the tail, do to a sequence.
LEMMA AppendType ==
  ASSUME NEW S, NEW s \in Seq(S), NEW x \in S
  PROVE  /\ Append(s, x) \in Seq(S) /\ Len(Append(s, x)) = Len(s) + 1
         /\ \A i \in 1 .. Len(s) : Append(s, x)[i] = s[i]
         /\ Append(s, x)[Len(s) + 1] = x
OBVIOUS

\* The head and the tail of a queue that is not empty.
LEMMA TailType ==
  ASSUME NEW S, NEW s \in Seq(S), s # <<>>
  PROVE  Head(s) \in S /\ Tail(s) \in Seq(S)
OBVIOUS

\* The length and the elements of a sequence, and those of the empty one.
LEMMA LengthType ==
  ASSUME NEW S, NEW s \in Seq(S)
  PROVE  Len(s) \in Nat /\ DOMAIN s = 1 .. Len(s) /\ \A i \in DOMAIN s : s[i] \in S
OBVIOUS

\* The empty sequence.
LEMMA EmptyType == ASSUME NEW S PROVE <<>> \in Seq(S) /\ Len(<<>>) = 0
OBVIOUS

\* Concatenation is associative.
LEMMA ConcatAssociates ==
  ASSUME NEW S, NEW s \in Seq(S), NEW t \in Seq(S), NEW u \in Seq(S)
  PROVE  (s \o t) \o u = s \o (t \o u)
OBVIOUS

-----------------------------------------------------------------------------
(* Facts about the routing table's operations.                              *)

\* The empty table, Insert and RemoveConnection yield tables.
LEMMA RegistryType ==
  /\ EmptyRegistry \in Registry
  /\ \A reg \in Registry, p \in PeerId, c \in Conn :
       Insert(reg, p, c) \in Registry /\ RemoveConnection(reg, p, c) \in Registry
  BY RegistryAssumption
     DEF EmptyRegistry, Registry, RouteEntry, Insert, RemoveConnection, IsCurrent

\* The two maps agree (IndicesAgree, of an arbitrary table).
Agree(reg) ==
  /\ \A r \in RouteId : reg.by_prefix[r] # None =>
        /\ Prefix[reg.by_prefix[r].peer_id] = r
        /\ reg.by_peer_id[reg.by_prefix[r].peer_id] = reg.by_prefix[r]
  /\ \A p \in PeerId : HasOwnPrefix(p) /\ reg.by_peer_id[p] # None =>
        reg.by_prefix[Prefix[p]] = reg.by_peer_id[p]

\* Insert keeps the maps in agreement: the entry goes into both, and what it
\* replaces in by_prefix was filed under the same route id.
LEMMA InsertAgrees ==
  ASSUME NEW reg \in Registry, NEW p \in PeerId, NEW c \in Conn, Agree(reg)
  PROVE  Agree(Insert(reg, p, c))
  BY RegistryAssumption DEF Agree, Insert, Registry, RouteEntry, HasOwnPrefix

\* RemoveConnection keeps the maps in agreement: it removes the peer's entry
\* and whatever by_prefix holds for the peer's prefix.
LEMMA RemoveAgrees ==
  ASSUME NEW reg \in Registry, NEW p \in PeerId, NEW c \in Conn, Agree(reg)
  PROVE  Agree(RemoveConnection(reg, p, c))
  BY RegistryAssumption
     DEF Agree, RemoveConnection, IsCurrent, Registry, RouteEntry, HasOwnPrefix

-----------------------------------------------------------------------------
(* Type correctness, with what the reader's position says of its frame.      *)

\* What the reader's position tells of the frame and the route it works on:
\* the facts about `cur`, `registered` and `target` its steps rely on.
ReaderContext ==
  \A c \in Conn :
    /\ pc[c] = "new" => writer[c] = "none"
    /\ pc[c] = "register" => cur[c] \in ClientFrame /\ cur[c].peer \in PeerId
    /\ pc[c] \in {"lookup", "respond", "forward", "ackForward"} =>
         /\ cur[c] \in ClientFrame
         /\ cur[c].type = "SendMessage" => cur[c].peer \in PeerId
         /\ registered[c] \in PeerId
    /\ pc[c] = "unregister" => registered[c] \in PeerId
    /\ pc[c] \in {"forward", "ackForward", "evict"} => target[c] \in RouteEntry
    /\ pc[c] = "evict" => writer[target[c].connection_id] = "stopped"

Inv == TypeOK /\ ReaderContext

\* The lock's queue loses its head to the task that is granted the lock.
LEMMA LockType ==
  ASSUME TypeOK, NEW c \in Conn, Granted(c)
  PROVE  Tail(lockQueue) \in Seq(Conn)
  BY TailType DEF TypeOK, Granted

\* A lookup by either map yields an entry or nothing.
LEMMA FoundType ==
  ASSUME Inv, NEW c \in Conn, pc[c] = "lookup"
  PROVE  FoundEntry(cur[c]) \in RouteEntry \cup {None}
  BY DEF Inv, TypeOK, ReaderContext, Registry, ClientFrame, FoundEntry

\* What the reader queues for its own client is a frame.
LEMMA ReplyType ==
  ASSUME Inv, NEW c \in Conn, pc[c] = "respond"
  PROVE  Reply(c) \in ServerFrame
  BY DEF Inv, TypeOK, ReaderContext, Reply, ServerFrame, Replies, Forwards

\* What it queues for the connection it looked up is a frame too.
LEMMA ForwardedType ==
  ASSUME Inv, NEW c \in Conn, pc[c] \in {"forward", "ackForward"}
  PROVE  Forwarded(c) \in ServerFrame
<1>1. /\ cur[c] \in ClientFrame
      /\ cur[c].type = "SendMessage" => cur[c].peer \in PeerId
      /\ registered[c] \in PeerId
      /\ seen[c] \in Nat
  BY DEF Inv, TypeOK, ReaderContext
<1>2. Forwarded(c).kind \in Replies \cup Forwards
  BY DEF Forwarded, Forwards
<1> QED BY <1>1, <1>2 DEF Forwarded, ServerFrame, ClientFrame

\* A frame is queued only where there is room for it.
LEMMA PushType ==
  ASSUME TypeOK, NEW d \in Conn, NEW f \in ServerFrame, CanPush(d), Push(d, f)
  PROVE  /\ queue' \in [Conn -> Seq(ServerFrame)]
         /\ \A e \in Conn : Len(queue'[e]) <= QueueCapacity
<1>1. /\ Append(queue[d], f) \in Seq(ServerFrame)
      /\ Len(Append(queue[d], f)) = Len(queue[d]) + 1
  BY AppendType DEF TypeOK
<1>2. Len(queue[d]) \in Nat /\ Len(queue[d]) < QueueCapacity
  BY LengthType DEF TypeOK, CanPush
<1> QED BY <1>1, <1>2, SessionAssumption DEF TypeOK, Push

\* Where the read loop goes with a frame.
AfterRead == {"reading", "register", "lookup", "respond"}

\* Reading a frame keeps the types and gives the reader its context, when the
\* frame names a peer where its handling needs one.
LEMMA ReadInv ==
  ASSUME Inv, NEW c \in Conn, NEW f \in ClientFrame, NEW next \in AfterRead,
         f.type \in {"PeerId", "SendMessage"} => f.peer \in PeerId,
         next = "register" => f.type = "PeerId",
         next \in {"lookup", "respond"} => registered[c] \in PeerId,
         Read(c, f, next), lockQueue' \in Seq(Conn)
  PROVE  Inv'
<1>1. /\ seen' \in [Conn -> Nat]
      /\ pc' \in [Conn -> ReaderStates]
      /\ cur' \in [Conn -> ClientFrame \cup {None}]
  BY DEF Inv, TypeOK, Read, AfterRead, ReaderStates
<1>2. UNCHANGED <<routes, lockReaders, registered, target, writer, queue, inflight,
                  delivered, owned, lost>>
  BY DEF Read, writerVars
<1>3. TypeOK'
  BY <1>1, <1>2, Zenon DEF Inv, TypeOK
<1>4. /\ pc'[c] = next
      /\ next # "reading" => cur'[c] = f
      /\ \A d \in Conn \ {c} : pc'[d] = pc[d] /\ cur'[d] = cur[d]
  BY DEF Inv, TypeOK, Read
<1>5. ReaderContext'
  BY <1>2, <1>4 DEF Inv, ReaderContext, AfterRead
<1> QED BY <1>3, <1>5 DEF Inv

\* Waiting for the lock keeps the type of its queue.
LEMMA RequestType ==
  ASSUME TypeOK, NEW c \in Conn, RequestLock(c)
  PROVE  lockQueue' \in Seq(Conn)
  BY AppendType DEF TypeOK, RequestLock

\* Every step keeps the types and the reader's context.
LEMMA InvStep ==
  ASSUME Inv, [Next]_vars
  PROVE  Inv'
<1> USE DEF lockVars, readerVars, writerVars
<1>1. ASSUME NEW c \in Conn, StartSession(c) PROVE Inv'
  <2>1. TypeOK'
    BY <1>1 DEF Inv, TypeOK, StartSession, ReaderStates
  <2>2. ReaderContext'
    BY <1>1 DEF Inv, TypeOK, ReaderContext, StartSession
  <2> QED BY <2>1, <2>2 DEF Inv
<1>2. ASSUME NEW c \in Conn, ReadRegistration(c) PROVE Inv'
  <2>1. PICK f \in Offer[c] : f.type = "PeerId" /\ Read(c, f, "register")
    BY <1>2 DEF ReadRegistration, IsRegistration
  <2>2. /\ f \in ClientFrame
        /\ f.type \in {"PeerId", "SendMessage"} => f.peer \in PeerId
    BY <2>1, SessionAssumption
  <2>3. lockQueue' \in Seq(Conn)
    BY <1>2, RequestType DEF Inv, ReadRegistration
  <2> QED BY <2>1, <2>2, <2>3, ReadInv DEF AfterRead
<1>3. ASSUME NEW c \in Conn, ReadRouted(c) PROVE Inv'
  <2>1. PICK f \in Offer[c] : registered[c] # None /\ Read(c, f, "lookup")
    BY <1>3 DEF ReadRouted, NeedsLookup, IsAdmitted
  <2>2. /\ f \in ClientFrame
        /\ f.type \in {"PeerId", "SendMessage"} => f.peer \in PeerId
    BY <2>1, SessionAssumption
  <2>3. lockQueue' \in Seq(Conn)
    BY <1>3, RequestType DEF Inv, ReadRouted
  <2>4. registered[c] \in PeerId
    BY <2>1 DEF Inv, TypeOK
  <2> QED BY <2>1, <2>2, <2>3, <2>4, ReadInv DEF AfterRead
<1>4. ASSUME NEW c \in Conn, ReadAnswered(c) PROVE Inv'
  <2>1. PICK f \in Offer[c] : registered[c] # None /\ Read(c, f, "respond")
    BY <1>4 DEF ReadAnswered, AnsweredDirectly, IsAdmitted
  <2>2. /\ f \in ClientFrame
        /\ f.type \in {"PeerId", "SendMessage"} => f.peer \in PeerId
    BY <2>1, SessionAssumption
  <2>3. lockQueue' \in Seq(Conn)
    BY <1>4 DEF Inv, ReadAnswered, TypeOK
  <2>4. registered[c] \in PeerId
    BY <2>1 DEF Inv, TypeOK
  <2> QED BY <2>1, <2>2, <2>3, <2>4, ReadInv DEF AfterRead
<1>5. ASSUME NEW c \in Conn, ReadDropped(c) PROVE Inv'
  <2>1. PICK f \in Offer[c] : Read(c, f, "reading")
    BY <1>5 DEF ReadDropped
  <2>2. /\ f \in ClientFrame
        /\ f.type \in {"PeerId", "SendMessage"} => f.peer \in PeerId
    BY <2>1, SessionAssumption
  <2>3. lockQueue' \in Seq(Conn)
    BY <1>5 DEF Inv, ReadDropped, TypeOK
  <2> QED BY <2>1, <2>2, <2>3, ReadInv DEF AfterRead
<1>6. ASSUME NEW c \in Conn, ReadEof(c) PROVE Inv'
  <2>1. TypeOK'
    <3>1. lockQueue' \in Seq(Conn)
      <4>1. lockQueue' = Append(lockQueue, c) \/ lockQueue' = lockQueue
        BY <1>6 DEF ReadEof, RequestLock
      <4>2. Append(lockQueue, c) \in Seq(Conn)
        BY AppendType DEF Inv, TypeOK
      <4> QED BY <4>1, <4>2, Zenon DEF Inv, TypeOK
    <3>2. pc' \in [Conn -> ReaderStates]
      BY <1>6, ZenonT(60) DEF Inv, TypeOK, ReadEof, ReaderStates
    <3> QED BY <1>6, <3>1, <3>2, SMTT(60) DEF Inv, TypeOK, ReadEof
  <2>2. ReaderContext'
    BY <1>6 DEF Inv, TypeOK, ReaderContext, ReadEof
  <2> QED BY <2>1, <2>2 DEF Inv
<1>7. ASSUME NEW c \in Conn, ReadError(c) PROVE Inv'
  <2>1. TypeOK'
    BY <1>7 DEF Inv, TypeOK, ReadError, ReaderStates
  <2>2. ReaderContext'
    BY <1>7 DEF Inv, TypeOK, ReaderContext, ReadError
  <2> QED BY <2>1, <2>2 DEF Inv
<1>8. ASSUME NEW c \in Conn, Register(c) PROVE Inv'
  <2>1. TypeOK'
    <3>1. cur[c].peer \in PeerId
      BY <1>8 DEF Inv, ReaderContext, Register
    <3>2. routes' \in Registry
      BY <1>8, <3>1, RegistryType DEF Inv, TypeOK, Register
    <3>3. owned' \in [Conn -> SUBSET PeerId]
      BY <1>8, <3>1, SMTT(60) DEF Inv, TypeOK, Register
    <3> QED
      BY <1>8, <3>1, <3>2, <3>3, LockType, Zenon
         DEF Inv, TypeOK, Register, Resume, WriteGranted, ReaderStates
  <2>2. ReaderContext'
    BY <1>8 DEF Inv, TypeOK, ReaderContext, Register, Resume
  <2> QED BY <2>1, <2>2 DEF Inv
<1>9. ASSUME NEW c \in Conn, Unregister(c) PROVE Inv'
  <2>1. TypeOK'
    BY <1>9, LockType, RegistryType, ZenonT(60)
    DEF Inv, TypeOK, ReaderContext, Unregister, WriteGranted, ReaderStates
  <2>2. ReaderContext'
    BY <1>9 DEF Inv, TypeOK, ReaderContext, Unregister, WriteGranted
  <2> QED BY <2>1, <2>2 DEF Inv
<1>10. ASSUME NEW c \in Conn, Evict(c) PROVE Inv'
  <2>1. TypeOK'
    BY <1>10, LockType, RegistryType, ZenonT(60)
    DEF Inv, TypeOK, ReaderContext, Evict, Resume, WriteGranted, RouteEntry, ReaderStates
  <2>2. ReaderContext'
    BY <1>10 DEF Inv, TypeOK, ReaderContext, Evict, Resume, WriteGranted, RouteEntry
  <2> QED BY <2>1, <2>2 DEF Inv
<1>11. ASSUME NEW c \in Conn, LookupMiss(c) PROVE Inv'
  <2>1. CASE cur[c].type = "SendMessage"
    <3>1. TypeOK'
      BY <1>11, <2>1, LockType, ZenonT(60) DEF Inv, TypeOK, LookupMiss, ReaderStates
    <3>2. ReaderContext'
      BY <1>11, <2>1 DEF Inv, TypeOK, ReaderContext, LookupMiss
    <3> QED BY <3>1, <3>2 DEF Inv
  <2>2. CASE cur[c].type # "SendMessage"
    <3>1. TypeOK'
      BY <1>11, <2>2, LockType, ZenonT(60) DEF Inv, TypeOK, LookupMiss, Resume, ReaderStates
    <3>2. ReaderContext'
      <4>1. Resume(c) /\ UNCHANGED <<registered, writer>>
        BY <1>11, <2>2 DEF LookupMiss
      <4> QED BY <4>1, SMTT(60) DEF Inv, TypeOK, ReaderContext, Resume
    <3> QED BY <3>1, <3>2 DEF Inv
  <2> QED BY <2>1, <2>2
<1>12. ASSUME NEW c \in Conn, LookupHit(c) PROVE Inv'
  <2> DEFINE next == CASE cur[c].type = "SendMessage" -> "respond"
                       [] cur[c].type = "Ack" -> "ackForward"
                       [] OTHER -> "forward"
  <2>1. /\ next \in {"respond", "ackForward", "forward"}
        /\ pc' = [pc EXCEPT ![c] = next]
        /\ lockReaders' \in {lockReaders, lockReaders \cup {c}}
    BY <1>12 DEF LookupHit, IsRaw
  <2> HIDE DEF next
  <2>2. FoundEntry(cur[c]) \in RouteEntry
    BY <1>12, FoundType DEF LookupHit
  <2>3. TypeOK'
    BY <1>12, <2>1, <2>2, LockType, ZenonT(60) DEF Inv, TypeOK, LookupHit, ReaderStates
  <2>4. ReaderContext'
    BY <1>12, <2>1, <2>2 DEF Inv, TypeOK, ReaderContext, LookupHit
  <2> QED BY <2>3, <2>4 DEF Inv
<1>13. ASSUME NEW c \in Conn, Respond(c) PROVE Inv'
  <2>1. /\ queue' \in [Conn -> Seq(ServerFrame)]
        /\ \A e \in Conn : Len(queue'[e]) <= QueueCapacity
    BY <1>13, ReplyType, PushType, SMTT(60) DEF Inv, TypeOK, Respond
  <2>2. CASE target[c] # None
    <3>1. TypeOK'
      BY <1>13, <2>1, <2>2, Zenon DEF Inv, TypeOK, Respond, ReaderStates
    <3>2. ReaderContext'
      BY <1>13, <2>2 DEF Inv, TypeOK, ReaderContext, Respond
    <3> QED BY <3>1, <3>2 DEF Inv
  <2>3. CASE target[c] = None
    <3>1. TypeOK'
      BY <1>13, <2>1, <2>3, Zenon DEF Inv, TypeOK, Respond, Resume, ReaderStates
    <3>2. ReaderContext'
      <4>1. Resume(c) /\ UNCHANGED <<registered, writer>>
        BY <1>13, <2>3 DEF Respond
      <4> QED BY <4>1 DEF Inv, TypeOK, ReaderContext, Resume
    <3> QED BY <3>1, <3>2 DEF Inv
  <2> QED BY <2>2, <2>3
<1>14. ASSUME NEW c \in Conn, ForwardOk(c) PROVE Inv'
  <2>1. TypeOK'
    BY <1>14, ForwardedType, PushType, ZenonT(60)
    DEF Inv, TypeOK, ReaderContext, ForwardOk, Resume, RouteEntry, ReaderStates
  <2>2. ReaderContext'
    BY <1>14 DEF Inv, TypeOK, ReaderContext, ForwardOk, Resume, RouteEntry
  <2> QED BY <2>1, <2>2 DEF Inv
<1>15. ASSUME NEW c \in Conn, ForwardFailed(c) PROVE Inv'
  <2>1. TypeOK'
    BY <1>15 DEF Inv, TypeOK, ForwardFailed, RequestLock, ReaderStates
  <2>2. ReaderContext'
    BY <1>15, SMTT(60) DEF Inv, TypeOK, ReaderContext, ForwardFailed, RequestLock
  <2> QED BY <2>1, <2>2 DEF Inv
<1>16. ASSUME NEW c \in Conn, AckForward(c) PROVE Inv'
  <2>1. target[c].connection_id \in Conn
    BY <1>16 DEF Inv, ReaderContext, AckForward, RouteEntry
  <2>2. /\ queue' \in [Conn -> Seq(ServerFrame)]
        /\ \A e \in Conn : Len(queue'[e]) <= QueueCapacity
    BY <1>16, <2>1, ForwardedType, PushType, Zenon DEF Inv, TypeOK, AckForward
  <2>3. lost' \subseteq Conn \X Nat
    BY <1>16 DEF Inv, TypeOK, AckForward
  <2>4. TypeOK'
    BY <1>16, <2>2, <2>3, ZenonT(60) DEF Inv, TypeOK, AckForward, Resume, ReaderStates
  <2>5. ReaderContext'
    BY <1>16 DEF Inv, TypeOK, ReaderContext, AckForward, Resume
  <2> QED BY <2>4, <2>5 DEF Inv
<1>17. ASSUME NEW c \in Conn, Drained(c) PROVE Inv'
  <2>1. TypeOK'
    BY <1>17 DEF Inv, TypeOK, Drained, ReaderStates
  <2>2. ReaderContext'
    BY <1>17 DEF Inv, TypeOK, ReaderContext, Drained
  <2> QED BY <2>1, <2>2 DEF Inv
<1>18. ASSUME NEW c \in Conn, WriterRecv(c) PROVE Inv'
  <2>1. TypeOK'
    BY <1>18, SessionAssumption, SMTT(60) DEF Inv, TypeOK, WriterRecv
  <2>2. ReaderContext'
    BY <1>18 DEF Inv, TypeOK, ReaderContext, WriterRecv
  <2> QED BY <2>1, <2>2 DEF Inv
<1>19. ASSUME NEW c \in Conn, WriterWrite(c) PROVE Inv'
  <2>1. TypeOK'
    BY <1>19 DEF Inv, TypeOK, WriterWrite
  <2>2. ReaderContext'
    BY <1>19 DEF Inv, TypeOK, ReaderContext, WriterWrite
  <2> QED BY <2>1, <2>2 DEF Inv
<1>20. ASSUME NEW c \in Conn, WriterFail(c) PROVE Inv'
  <2>1. Pending(c) \subseteq ServerFrame
    BY <1>20, LengthType DEF Inv, TypeOK, Pending
  <2>2. lost' \subseteq Conn \X Nat
    BY <1>20, <2>1, SMTT(60) DEF Inv, TypeOK, WriterFail, ServerFrame
  <2>3. queue' \in [Conn -> Seq(ServerFrame)]
    BY <1>20, EmptyType, SessionAssumption DEF Inv, TypeOK, WriterFail
  <2>4. \A e \in Conn : Len(queue'[e]) <= QueueCapacity
    BY <1>20, EmptyType, SessionAssumption DEF Inv, TypeOK, WriterFail
  <2>5. TypeOK'
    BY <1>20, <2>2, <2>3, <2>4, SMTT(60) DEF Inv, TypeOK, WriterFail
  <2>6. ReaderContext'
    BY <1>20 DEF Inv, TypeOK, ReaderContext, WriterFail
  <2> QED BY <2>5, <2>6 DEF Inv
<1>21. ASSUME NEW c \in Conn, WriterEnd(c) PROVE Inv'
  <2>1. TypeOK'
    BY <1>21 DEF Inv, TypeOK, ReaderContext, WriterEnd, ReaderStates
  <2>2. ReaderContext'
    BY <1>21 DEF Inv, TypeOK, ReaderContext, WriterEnd
  <2> QED BY <2>1, <2>2 DEF Inv
<1>22. CASE UNCHANGED vars
  BY <1>22 DEF Inv, TypeOK, ReaderContext, vars
<1> QED
  BY <1>1, <1>2, <1>3, <1>4, <1>5, <1>6, <1>7, <1>8, <1>9, <1>10,
     <1>11, <1>12, <1>13, <1>14, <1>15, <1>16, <1>17, <1>18, <1>19, <1>20, <1>21, <1>22
     DEF Next, ClientStep, ReaderStep, WriterStep, AllClosed

\* The relay starts without sessions, waiting tasks or routes.
LEMMA InvInit == Init => Inv
<1> SUFFICES ASSUME Init PROVE Inv
  OBVIOUS
<1> USE RegistryAssumption, SessionAssumption
<1>1. TypeOK
  BY RegistryType, EmptyType DEF Init, TypeOK, ReaderStates
<1>2. ReaderContext
  BY DEF Init, ReaderContext
<1> QED BY <1>1, <1>2 DEF Inv

\* The facts about the reader's position hold in every reachable state.
LEMMA InvHolds == Spec => []Inv
  BY InvInit, InvStep, PTL DEF Spec

\* Every variable keeps its type and no connection's queue exceeds its
\* capacity: handle_routed_noise_session never reads a field of a frame or of
\* a route entry that is not there.
THEOREM TypeCorrect == Spec => []TypeOK
<1>1. Inv => TypeOK
  BY DEF Inv
<1> QED BY <1>1, InvHolds, PTL

-----------------------------------------------------------------------------
(* The routing table.                                                       *)

\* Only these steps write the table.
LEMMA TableStep ==
  ASSUME Inv, [Next]_vars
  PROVE  \/ UNCHANGED routes
         \/ \E c \in Conn : Register(c) \/ Unregister(c) \/ Evict(c)
<1>1. ASSUME NEW c \in Conn, ClientStep(c)
      PROVE  UNCHANGED routes
  BY <1>1, ZenonT(60) DEF ClientStep, StartSession, ReadRegistration, ReadRouted, ReadAnswered,
              ReadDropped, ReadEof, ReadError, Read
<1>2. ASSUME NEW c \in Conn, ReaderStep(c)
      PROVE  UNCHANGED routes \/ Register(c) \/ Unregister(c) \/ Evict(c)
  BY <1>2, SMTT(60) DEF ReaderStep, LookupMiss, LookupHit, Respond, ForwardOk, ForwardFailed,
              AckForward, Drained
<1>3. ASSUME NEW c \in Conn, WriterStep(c)
      PROVE  UNCHANGED routes
  BY <1>3 DEF WriterStep, WriterRecv, WriterWrite, WriterFail, WriterEnd
<1> QED BY <1>1, <1>2, <1>3, SMTT(60) DEF Next, AllClosed, vars

\* The two maps of the routing table agree in every reachable state: insert
\* and remove_connection, run by any sessions in any order, keep them so.
THEOREM TableConsistent == Spec => []IndicesAgree
<1>1. Init => IndicesAgree
  BY RegistryAssumption DEF Init, IndicesAgree, EmptyRegistry
<1>2. ASSUME Inv, IndicesAgree, [Next]_vars
      PROVE  IndicesAgree'
  <2> USE <1>2
  <2>1. Agree(routes) /\ routes \in Registry
    BY DEF IndicesAgree, Agree, Inv, TypeOK
  <2>2. ASSUME NEW c \in Conn, Register(c) PROVE Agree(routes')
    BY <2>1, <2>2, InsertAgrees DEF Inv, ReaderContext, Register
  <2>3. ASSUME NEW c \in Conn, Unregister(c) PROVE Agree(routes')
    BY <2>1, <2>3, RemoveAgrees, SMTT(60) DEF Inv, ReaderContext, Unregister
  <2>4. ASSUME NEW c \in Conn, Evict(c) PROVE Agree(routes')
    BY <2>1, <2>4, RemoveAgrees DEF Inv, ReaderContext, Evict, RouteEntry
  <2>5. Agree(routes')
    BY <2>1, <2>2, <2>3, <2>4, TableStep
  <2> QED BY <2>5, SMTT(60) DEF Agree, IndicesAgree
<1> QED BY <1>1, <1>2, InvHolds, PTL DEF Spec

\* After remove_connection the peer's entry is not the connection's.
LEMMA RemoveRemoves ==
  ASSUME NEW reg \in Registry, NEW p \in PeerId, NEW c \in Conn
  PROVE  ~ IsCurrent(RemoveConnection(reg, p, c), p, c)
  BY DEF RemoveConnection, IsCurrent, Registry

\* Neither operation makes an entry that is not a connection's its own, unless
\* that connection registers.
LEMMA NotCurrentKept ==
  ASSUME NEW reg \in Registry, NEW p \in PeerId, NEW c \in Conn,
         ~ IsCurrent(reg, p, c), NEW q \in PeerId, NEW d \in Conn
  PROVE  /\ d # c => ~ IsCurrent(Insert(reg, q, d), p, c)
         /\ ~ IsCurrent(RemoveConnection(reg, q, d), p, c)
  BY SMTT(60) DEF Insert, RemoveConnection, IsCurrent, Registry, RouteEntry

\* A registered session is past its read loop only if it was so before, or
\* takes the step that unregisters it.
LEMMA ExitStep ==
  ASSUME Inv, [Next]_vars, NEW c \in Conn,
         pc'[c] \in {"draining", "done"}, registered'[c] # None
  PROVE  /\ registered'[c] = registered[c]
         /\ pc[c] \in {"draining", "done"} \/ Unregister(c)
<1> USE DEF Inv, TypeOK
<1>1. ASSUME NEW d \in Conn, ClientStep(d)
      PROVE  registered'[c] = registered[c] /\ pc[c] \in {"draining", "done"}
  BY <1>1, SMTT(60) DEF ClientStep, StartSession, ReadRegistration, ReadRouted, ReadAnswered,
              ReadDropped, ReadEof, ReadError, Read
<1>2. ASSUME NEW d \in Conn, ReaderStep(d), ~ Register(d), ~ Unregister(d)
      PROVE  registered'[c] = registered[c] /\ pc[c] \in {"draining", "done"}
  BY <1>2, ZenonT(60) DEF ReaderStep, Evict, LookupMiss, LookupHit, Respond, ForwardOk,
              ForwardFailed, AckForward, Drained, Resume
<1>3. ASSUME NEW d \in Conn, WriterStep(d)
      PROVE  registered'[c] = registered[c] /\ pc[c] \in {"draining", "done"}
  BY <1>3, SMTT(60) DEF WriterStep, WriterRecv, WriterWrite, WriterFail, WriterEnd, readerVars
<1>4. ASSUME NEW d \in Conn, Register(d)
      PROVE  registered'[c] = registered[c] /\ pc[c] \in {"draining", "done"}
  BY <1>4 DEF Register, Resume
<1>5. ASSUME NEW d \in Conn, Unregister(d)
      PROVE  /\ registered'[c] = registered[c]
             /\ pc[c] \in {"draining", "done"} \/ d = c
  BY <1>5 DEF Unregister
<1> QED BY <1>1, <1>2, <1>3, <1>4, <1>5, ZenonT(60) DEF Next, AllClosed, vars

\* A session that ended by a clean end of stream never again holds the route of
\* the peer id it was registered under (the unregister step of
\* handle_routed_noise_session, against every interleaving with other sessions).
THEOREM CleanExit == Spec => []CleanExitUnregisters
<1>1. Init => CleanExitUnregisters
  BY DEF Init, CleanExitUnregisters
<1>2. ASSUME Inv, CleanExitUnregisters, [Next]_vars
      PROVE  CleanExitUnregisters'
  <2> USE <1>2
  <2> SUFFICES ASSUME NEW c \in Conn, pc'[c] \in {"draining", "done"},
                      registered'[c] # None
               PROVE  ~ IsCurrent(routes', registered'[c], c)
    BY DEF CleanExitUnregisters
  <2>1. /\ registered'[c] = registered[c]
        /\ registered[c] \in PeerId
        /\ pc[c] \in {"draining", "done"} \/ Unregister(c)
    BY ExitStep, ZenonT(60) DEF Inv, TypeOK
  <2>2. routes \in Registry
    BY DEF Inv, TypeOK
  <2>3. CASE Unregister(c)
    BY <2>1, <2>2, <2>3, RemoveRemoves DEF Unregister
  <2>4. CASE pc[c] \in {"draining", "done"}
    <3>1. ~ IsCurrent(routes, registered[c], c)
      BY <2>1, <2>4, SMTT(60) DEF CleanExitUnregisters
    <3>2. ASSUME NEW d \in Conn, Register(d)
          PROVE  ~ IsCurrent(routes', registered[c], c)
      <4>1. d # c /\ cur[d].peer \in PeerId
        BY <2>4, <3>2, ZenonT(60) DEF Inv, ReaderContext, Register
      <4> QED BY <2>1, <2>2, <3>1, <3>2, <4>1, NotCurrentKept, ZenonT(60) DEF Register
    <3>3. ASSUME NEW d \in Conn, Unregister(d)
          PROVE  ~ IsCurrent(routes', registered[c], c)
      BY <2>1, <2>2, <3>1, <3>3, NotCurrentKept, ZenonT(60) DEF Inv, ReaderContext, Unregister
    <3>4. ASSUME NEW d \in Conn, Evict(d)
          PROVE  ~ IsCurrent(routes', registered[c], c)
      BY <2>1, <2>2, <3>1, <3>4, NotCurrentKept DEF Inv, ReaderContext, Evict, RouteEntry
    <3> QED BY <2>1, <3>1, <3>2, <3>3, <3>4, TableStep
  <2> QED BY <2>1, <2>3, <2>4
<1> QED BY <1>1, <1>2, InvHolds, PTL DEF Spec

\* What a step that takes entries out of the table is: the unregister step of one's
\* own session, or the eviction of a connection whose writer has stopped.
LEMMA RemovalStep ==
  ASSUME Inv, [Next]_vars,
         \/ \E p \in PeerId : Removed(p)
         \/ \E r \in RouteId : routes.by_prefix[r] # None /\ routes'.by_prefix[r] = None
  PROVE  \E peer \in PeerId, c \in Conn :
           /\ IsCurrent(routes, peer, c) /\ Leaving(c)
           /\ routes' = RemoveConnection(routes, peer, c)
<1> USE RegistryAssumption DEF Removed
<1>1. ASSUME NEW d \in Conn, Register(d) PROVE FALSE
  BY <1>1, SMTT(60) DEF Inv, TypeOK, ReaderContext, Register, Insert, Registry, RouteEntry
<1>2. ASSUME NEW peer \in PeerId, NEW c \in Conn, routes' = RemoveConnection(routes, peer, c)
      PROVE  IsCurrent(routes, peer, c)
  BY <1>2, Zenon DEF RemoveConnection
<1>3. ASSUME NEW d \in Conn, Unregister(d)
      PROVE  /\ registered[d] \in PeerId /\ Leaving(d)
             /\ routes' = RemoveConnection(routes, registered[d], d)
  BY <1>3, Zenon DEF Inv, ReaderContext, Unregister, Leaving
<1>4. ASSUME NEW d \in Conn, Evict(d)
      PROVE  /\ target[d].peer_id \in PeerId /\ target[d].connection_id \in Conn
             /\ Leaving(target[d].connection_id)
             /\ routes' = RemoveConnection(routes, target[d].peer_id, target[d].connection_id)
  BY <1>4, SMTT(60) DEF Inv, ReaderContext, Evict, Leaving, RouteEntry
<1>5. routes' # routes
  OBVIOUS
<1> QED BY <1>1, <1>2, <1>3, <1>4, <1>5, TableStep, Zenon

\* A route leaves the table only with its own session's unregister step or once
\* its writer has stopped: the connection_id guard of remove_connection keeps
\* the route of a newer, live connection from the cleanup of an older one and
\* from a late eviction.  A slot of by_prefix is also cleared with the removal of
\* another peer id of that prefix, and in no other case.
THEOREM LiveRoutesKept == Spec => LiveRouteKept
<1> DEFINE ByPeer == \A p \in PeerId :
                       Removed(p) => Leaving(routes.by_peer_id[p].connection_id)
           ByPrefix == \A r \in RouteId :
                         routes.by_prefix[r] # None /\ routes.by_prefix[r]' = None =>
                           \/ Leaving(routes.by_prefix[r].connection_id)
                           \/ \E q \in PeerId \ {routes.by_prefix[r].peer_id} :
                                Prefix[q] = r /\ Removed(q)
<1>1. ASSUME Inv, [Next]_vars PROVE ByPeer
  <2> SUFFICES ASSUME NEW p \in PeerId, Removed(p)
               PROVE  Leaving(routes.by_peer_id[p].connection_id)
    BY Zenon
  <2>1. PICK peer \in PeerId, c \in Conn :
          /\ IsCurrent(routes, peer, c) /\ Leaving(c)
          /\ routes' = RemoveConnection(routes, peer, c)
    BY <1>1, RemovalStep, Zenon
  <2>2. peer = p
    BY <1>1, <2>1 DEF Inv, TypeOK, Registry, RemoveConnection, Removed
  <2> QED BY <2>1, <2>2, Zenon DEF IsCurrent
<1>2. ASSUME Inv, IndicesAgree, [Next]_vars PROVE ByPrefix
  <2> SUFFICES ASSUME NEW r \in RouteId, routes.by_prefix[r] # None, routes'.by_prefix[r] = None
               PROVE  \/ Leaving(routes.by_prefix[r].connection_id)
                      \/ \E q \in PeerId \ {routes.by_prefix[r].peer_id} :
                           Prefix[q] = r /\ Removed(q)
    BY Zenon
  <2>1. PICK peer \in PeerId, c \in Conn :
          /\ IsCurrent(routes, peer, c) /\ Leaving(c)
          /\ routes' = RemoveConnection(routes, peer, c)
    BY <1>2, RemovalStep, Zenon
  <2>2. Prefix[peer] = r /\ Removed(peer)
    BY <1>2, <2>1, RegistryAssumption DEF Inv, TypeOK, Registry, RemoveConnection, Removed, IsCurrent
  <2>3. CASE routes.by_prefix[r].peer_id = peer
    BY <1>2, <2>1, <2>3, Zenon DEF IndicesAgree, IsCurrent
  <2>4. CASE routes.by_prefix[r].peer_id # peer
    BY <2>2, <2>4, Zenon
  <2> QED BY <2>3, <2>4
<1>3. Inv /\ IndicesAgree /\ [Next]_vars => [ByPeer /\ ByPrefix]_vars
  BY <1>1, <1>2, Zenon
<1> QED BY <1>3, InvHolds, TableConsistent, PTL DEF Spec, LiveRouteKept

-----------------------------------------------------------------------------
(* The frame a reader works on, for the theorems about what it queues.       *)

\* The frame a reader is handling is the kind of frame its position is for, and
\* it holds a route only from the lookup to the end of the frame.
FrameContext ==
  \A c \in Conn :
    /\ pc[c] = "lookup" => NeedsLookup(c, cur[c])
    /\ pc[c] = "respond" => cur[c].type \in {"SendMessage", "Heartbeat"}
    /\ pc[c] \notin {"respond", "forward", "ackForward", "evict"} => target[c] = None

\* Reading a frame leads to the position that is for such a frame.
LEMMA ReadContext ==
  ASSUME Inv, FrameContext, NEW c \in Conn, NEW f \in ClientFrame, NEW next \in AfterRead,
         next = "lookup" => NeedsLookup(c, f),
         next = "respond" => f.type \in {"SendMessage", "Heartbeat"},
         Read(c, f, next)
  PROVE  FrameContext'
<1>1. /\ pc' = [pc EXCEPT ![c] = next]
      /\ cur' = [cur EXCEPT ![c] = IF next = "reading" THEN None ELSE f]
      /\ UNCHANGED <<registered, target>>
      /\ pc[c] = "reading"
  BY DEF Read
<1>2. /\ pc'[c] = next /\ (next # "reading" => cur'[c] = f)
      /\ \A d \in Conn \ {c} : pc'[d] = pc[d] /\ cur'[d] = cur[d]
  BY <1>1 DEF Inv, TypeOK
<1> SUFFICES ASSUME NEW d \in Conn
             PROVE  /\ pc'[d] = "lookup" => NeedsLookup(d, cur[d])'
                    /\ pc'[d] = "respond" => cur'[d].type \in {"SendMessage", "Heartbeat"}
                    /\ pc'[d] \notin {"respond", "forward", "ackForward", "evict"}
                          => target'[d] = None
  BY DEF FrameContext
<1>3. CASE d = c
  BY <1>1, <1>2, <1>3
     DEF FrameContext, AfterRead, NeedsLookup, IsAdmitted, IsSelfMessage, IsRaw
<1>4. CASE d # c
  BY <1>1, <1>2, <1>4 DEF FrameContext, NeedsLookup, IsAdmitted, IsSelfMessage, IsRaw
<1> QED BY <1>3, <1>4

\* Every step keeps the frame and its position in accord.
LEMMA FrameContextStep ==
  ASSUME Inv, FrameContext, [Next]_vars
  PROVE  FrameContext'
<1> USE DEF lockVars, readerVars, writerVars
<1> USE DEF NeedsLookup, IsAdmitted, IsSelfMessage, IsRaw
<1>1. ASSUME NEW c \in Conn, StartSession(c) PROVE FrameContext'
  BY <1>1 DEF Inv, TypeOK, FrameContext, StartSession
<1>2. ASSUME NEW c \in Conn, ReadRegistration(c) PROVE FrameContext'
  <2>1. PICK f \in Offer[c] : Read(c, f, "register")
    BY <1>2 DEF ReadRegistration
  <2> QED BY <2>1, ReadContext, SessionAssumption DEF AfterRead
<1>3. ASSUME NEW c \in Conn, ReadRouted(c) PROVE FrameContext'
  <2> HIDE DEF NeedsLookup
  <2>1. PICK f \in Offer[c] : NeedsLookup(c, f) /\ Read(c, f, "lookup")
    BY <1>3 DEF ReadRouted
  <2> QED BY <2>1, ReadContext, SessionAssumption DEF AfterRead
<1>4. ASSUME NEW c \in Conn, ReadAnswered(c) PROVE FrameContext'
  <2>1. PICK f \in Offer[c] : AnsweredDirectly(c, f) /\ Read(c, f, "respond")
    BY <1>4 DEF ReadAnswered
  <2>2. f.type \in {"SendMessage", "Heartbeat"}
    BY <2>1 DEF AnsweredDirectly
  <2> QED BY <2>1, <2>2, ReadContext, SessionAssumption DEF AfterRead
<1>5. ASSUME NEW c \in Conn, ReadDropped(c) PROVE FrameContext'
  <2>1. PICK f \in Offer[c] : Read(c, f, "reading")
    BY <1>5 DEF ReadDropped
  <2> QED BY <2>1, ReadContext, SessionAssumption DEF AfterRead
<1>6. ASSUME NEW c \in Conn, ReadEof(c) \/ ReadError(c) \/ Drained(c) PROVE FrameContext'
  <2>1. /\ pc[c] \in {"reading", "draining"}
        /\ \E next \in {"unregister", "draining", "failed", "done"} :
             pc' = [pc EXCEPT ![c] = next]
        /\ UNCHANGED <<cur, registered, target>>
    BY <1>6, ZenonT(60) DEF ReadEof, ReadError, Drained
  <2> QED BY <2>1, SMTT(60) DEF Inv, TypeOK, FrameContext
<1>7. ASSUME NEW c \in Conn, Register(c) PROVE FrameContext'
  BY <1>7 DEF Inv, TypeOK, FrameContext, Register, Resume
<1>8. ASSUME NEW c \in Conn, Unregister(c) PROVE FrameContext'
  BY <1>8 DEF Inv, TypeOK, FrameContext, Unregister
<1>9. ASSUME NEW c \in Conn, Evict(c) PROVE FrameContext'
  BY <1>9 DEF Inv, TypeOK, FrameContext, Evict, Resume
<1>10. ASSUME NEW c \in Conn, LookupMiss(c) PROVE FrameContext'
  <2>1. CASE cur[c].type = "SendMessage"
    BY <1>10, <2>1, ZenonT(60) DEF Inv, TypeOK, FrameContext, LookupMiss
  <2>2. CASE cur[c].type # "SendMessage"
    <3>1. Resume(c) /\ UNCHANGED registered
      BY <1>10, <2>2 DEF LookupMiss
    <3> QED BY <3>1 DEF Inv, TypeOK, FrameContext, Resume
  <2> QED BY <2>1, <2>2
<1>11. ASSUME NEW c \in Conn, LookupHit(c) PROVE FrameContext'
  BY <1>11 DEF Inv, TypeOK, FrameContext, LookupHit
<1>12. ASSUME NEW c \in Conn, Respond(c) PROVE FrameContext'
  <2>1. CASE target[c] # None
    <3>1. pc' = [pc EXCEPT ![c] = "forward"] /\ UNCHANGED <<cur, target, registered>>
      BY <1>12, <2>1, Zenon DEF Respond
    <3> QED BY <3>1, ZenonT(60) DEF Inv, TypeOK, FrameContext
  <2>2. CASE target[c] = None
    <3>1. Resume(c) /\ UNCHANGED registered
      BY <1>12, <2>2, ZenonT(60) DEF Respond
    <3> QED BY <3>1 DEF Inv, TypeOK, FrameContext, Resume
  <2> QED BY <2>1, <2>2
<1>13. ASSUME NEW c \in Conn, ForwardOk(c) PROVE FrameContext'
  BY <1>13 DEF Inv, TypeOK, FrameContext, ForwardOk, Resume
<1>14. ASSUME NEW c \in Conn, ForwardFailed(c) PROVE FrameContext'
  BY <1>14, ZenonT(60) DEF Inv, TypeOK, FrameContext, ForwardFailed
<1>15. ASSUME NEW c \in Conn, AckForward(c) PROVE FrameContext'
  BY <1>15, ZenonT(60) DEF Inv, TypeOK, FrameContext, AckForward, Resume
<1>16. ASSUME NEW c \in Conn, WriterStep(c) PROVE FrameContext'
  BY <1>16, ZenonT(60) DEF FrameContext, WriterStep, WriterRecv, WriterWrite, WriterFail, WriterEnd
<1>17. CASE UNCHANGED vars
  BY <1>17 DEF FrameContext, vars
<1> QED
  BY <1>1, <1>2, <1>3, <1>4, <1>5, <1>6, <1>7, <1>8, <1>9, <1>10,
     <1>11, <1>12, <1>13, <1>14, <1>15, <1>16, <1>17, ZenonT(60)
     DEF Next, ClientStep, ReaderStep, AllClosed

\* A reader's frame and its position are in accord in every reachable state.
LEMMA FrameContextHolds == Spec => []FrameContext
<1>1. Init => FrameContext
  BY DEF Init, FrameContext
<1>2. Inv /\ FrameContext /\ [Next]_vars => FrameContext'
  BY FrameContextStep
<1> QED BY <1>1, <1>2, InvHolds, PTL DEF Spec

-----------------------------------------------------------------------------
(* Where the routed sessions deliver: a routed frame reaches only a           *)
(* connection that registered the address its sender gave, whatever prefixes  *)
(* peer identifiers share.                                                    *)

\* Frame f may go to connection d, when `own` says who registered what.
Fits(own, f, d) ==
  /\ f.from \in own[f.src]
  /\ IF f.kind = "IncomingMessageEvent"
     THEN f.to \in own[d]
     ELSE \E p \in own[d] : Prefix[p] = f.to
  /\ f.kind \in {"IncomingMessageEvent", "Raw"} /\ f.src = d
       => \E p, q \in own[d] : p # q

\* Every routed frame of a sequence may go to d.
AllFit(own, s, d) ==
  \A i \in DOMAIN s : s[i].kind \in Forwards => Fits(own, s[i], d)

\* A session's peer id, and every route in the table, was registered by the
\* connection it stands for.
Owns ==
  /\ \A c \in Conn : registered[c] # None => registered[c] \in owned[c]
  /\ \A p \in PeerId : routes.by_peer_id[p] # None =>
       /\ routes.by_peer_id[p].peer_id = p
       /\ p \in owned[routes.by_peer_id[p].connection_id]

Carrying == {"respond", "forward", "ackForward"}

\* A route a reader looked up fits the frame it is about to forward there: the
\* table may change in between, what a connection registered does not.
Bound ==
  \A c \in Conn : pc[c] \in Carrying /\ target[c] # None =>
    Fits(owned, Forwarded(c), target[c].connection_id)

\* What is queued, being written or written fits its connection.
Kept ==
  \A d \in Conn :
    /\ AllFit(owned, queue[d], d)
    /\ inflight[d] # None => AllFit(owned, <<inflight[d]>>, d)
    /\ AllFit(owned, delivered[d], d)

DeliveryInv == Owns /\ Bound /\ Kept

-----------------------------------------------------------------------------
(* Sequences of fitting frames.                                             *)

\* A frame that fits still fits when more has been registered.
LEMMA FitsGrows ==
  ASSUME NEW own, NEW more, \A c \in Conn : own[c] \subseteq more[c],
         NEW f, f.src \in Conn, NEW d \in Conn, Fits(own, f, d)
  PROVE  Fits(more, f, d)
  BY DEF Fits

\* And so does a sequence of them.
LEMMA AllFitGrows ==
  ASSUME NEW own, NEW more, \A c \in Conn : own[c] \subseteq more[c],
         NEW s \in Seq(ServerFrame), NEW d \in Conn, AllFit(own, s, d)
  PROVE  AllFit(more, s, d)
<1> SUFFICES ASSUME NEW i \in DOMAIN s, s[i].kind \in Forwards
             PROVE  Fits(more, s[i], d)
  BY DEF AllFit
<1>1. s[i] \in ServerFrame
  OBVIOUS
<1>2. s[i].src \in Conn
  BY <1>1 DEF ServerFrame
<1>3. Fits(own, s[i], d)
  BY DEF AllFit
<1> QED BY <1>2, <1>3, FitsGrows, ZenonT(60)

\* A fitting frame at the end of fitting frames.
LEMMA AllFitAppend ==
  ASSUME NEW own, NEW s \in Seq(ServerFrame), NEW f \in ServerFrame, NEW d,
         AllFit(own, s, d), f.kind \in Forwards => Fits(own, f, d)
  PROVE  AllFit(own, Append(s, f), d)
<1>1. \A i \in DOMAIN Append(s, f) :
        (i \in DOMAIN s /\ Append(s, f)[i] = s[i]) \/ Append(s, f)[i] = f
  OBVIOUS
<1> QED BY <1>1, ZenonT(60) DEF AllFit

\* Taking the first of fitting frames: it fits, and so do the others.
LEMMA AllFitSplit ==
  ASSUME NEW own, NEW s \in Seq(ServerFrame), s # <<>>, NEW d, AllFit(own, s, d)
  PROVE  AllFit(own, <<Head(s)>>, d) /\ AllFit(own, Tail(s), d)
<1>1. \A i \in DOMAIN Tail(s) : i + 1 \in DOMAIN s /\ Tail(s)[i] = s[i + 1]
  OBVIOUS
<1>2. 1 \in DOMAIN s /\ Head(s) = s[1]
  OBVIOUS
<1>3. \A i \in DOMAIN <<Head(s)>> : <<Head(s)>>[i] = Head(s)
  OBVIOUS
<1> QED BY <1>1, <1>2, <1>3, ZenonT(60) DEF AllFit

\* Fitting frames after fitting frames.
LEMMA AllFitConcat ==
  ASSUME NEW own, NEW s \in Seq(ServerFrame), NEW t \in Seq(ServerFrame), NEW d,
         AllFit(own, s, d), AllFit(own, t, d)
  PROVE  AllFit(own, s \o t, d)
<1>1. \A i \in DOMAIN (s \o t) :
        \/ i \in DOMAIN s /\ (s \o t)[i] = s[i]
        \/ i - Len(s) \in DOMAIN t /\ (s \o t)[i] = t[i - Len(s)]
  OBVIOUS
<1> QED BY <1>1, ZenonT(60) DEF AllFit

-----------------------------------------------------------------------------
(* The steps.                                                               *)

\* The lookup finds a route that fits: a SendMessage by its recipient, another
\* frame by its route id; neither finds a route of the sender's own peer id.
LEMMA FoundFits ==
  ASSUME Inv, FrameContext, IndicesAgree, Owns, NEW c \in Conn, pc[c] = "lookup",
         FoundEntry(cur[c]) # None
  PROVE  Fits(owned, Forwarded(c), FoundEntry(cur[c]).connection_id)
<1> DEFINE e == FoundEntry(cur[c])
<1>1. /\ cur[c] \in ClientFrame
      /\ cur[c].type = "SendMessage" => cur[c].peer \in PeerId
      /\ registered[c] \in PeerId
      /\ NeedsLookup(c, cur[c])
  BY ZenonT(60) DEF Inv, ReaderContext, FrameContext
<1>2. registered[c] \in owned[c]
  BY <1>1, RegistryAssumption, ZenonT(60) DEF Owns
<1>3. cur[c].session_id \in RouteId
  BY <1>1 DEF ClientFrame
<1>4. Forwarded(c).src = c /\ Forwarded(c).from = registered[c]
  BY DEF Forwarded
<1>5. CASE cur[c].type = "SendMessage"
  <2>1. cur[c].peer \in owned[e.connection_id]
    BY <1>1, <1>5, ZenonT(60) DEF FoundEntry, Owns
  <2>2. Forwarded(c).kind = "IncomingMessageEvent" /\ Forwarded(c).to = cur[c].peer
    BY <1>5 DEF Forwarded
  <2>3. cur[c].peer # registered[c]
    BY <1>1, <1>5 DEF NeedsLookup, IsSelfMessage
  <2> QED BY <1>2, <1>4, <2>1, <2>2, <2>3, ZenonT(60) DEF Fits
<1>6. CASE cur[c].type # "SendMessage"
  <2>1. e = routes.by_prefix[cur[c].session_id]
    BY <1>6 DEF FoundEntry
  <2>2. e \in RouteEntry
    BY FoundType, ZenonT(60)
  <2>3. e.peer_id \in PeerId
    BY <2>2 DEF RouteEntry
  <2>4. Prefix[e.peer_id] = cur[c].session_id /\ routes.by_peer_id[e.peer_id] = e
    BY <1>3, <2>1, ZenonT(60) DEF IndicesAgree
  <2>5. e.peer_id \in owned[e.connection_id]
    BY <2>3, <2>4, ZenonT(60) DEF Owns
  <2>6. /\ Forwarded(c).kind # "IncomingMessageEvent"
        /\ Forwarded(c).to = cur[c].session_id
    BY <1>6 DEF Forwarded
  <2>7. Forwarded(c).kind = "Raw" => IsRaw(cur[c])
    BY <1>1, <1>6 DEF Forwarded, IsRaw, NeedsLookup, ClientFrame
  <2>8. IsRaw(cur[c]) => e.peer_id # registered[c]
    BY <1>1, <2>4, ZenonT(60) DEF NeedsLookup, IsSelfMessage
  <2> QED BY <1>2, <1>4, <2>4, <2>5, <2>6, <2>7, <2>8, ZenonT(60) DEF Fits
<1> QED BY <1>5, <1>6

\* Nobody forgets what it registered.
LEMMA OwnedGrows ==
  ASSUME Inv, [Next]_vars
  PROVE  \A c \in Conn : owned[c] \subseteq owned'[c]
<1> USE DEF lockVars, readerVars, writerVars
<1>1. ASSUME NEW c \in Conn, Register(c) PROVE \A d \in Conn : owned[d] \subseteq owned'[d]
  BY <1>1 DEF Inv, TypeOK, Register
<1>2. ASSUME NEW c \in Conn, ClientStep(c) \/ WriterStep(c) PROVE owned' = owned
  BY <1>2, ZenonT(60)
     DEF ClientStep, StartSession, ReadRegistration, ReadRouted, ReadAnswered,
         ReadDropped, ReadEof, ReadError, Read,
         WriterStep, WriterRecv, WriterWrite, WriterFail, WriterEnd
<1>3. ASSUME NEW c \in Conn, ReaderStep(c), ~ Register(c) PROVE owned' = owned
  BY <1>3, ZenonT(60)
     DEF ReaderStep, Unregister, Evict, LookupMiss, LookupHit, Respond, ForwardOk,
         ForwardFailed, AckForward, Drained
<1>4. CASE UNCHANGED vars
  BY <1>4 DEF vars
<1> QED BY <1>1, <1>2, <1>3, <1>4, ZenonT(60) DEF Next, AllClosed

\* The steps other than Register, Unregister and Evict leave the table and the
\* registrations alone; Unregister and Evict at most remove a route.
LEMMA OwnsStep ==
  ASSUME Inv, Owns, [Next]_vars
  PROVE  Owns'
<1> USE DEF lockVars, readerVars, writerVars
<1>1. ASSUME NEW c \in Conn, Register(c) PROVE Owns'
  <2>1. /\ cur[c].peer \in PeerId
        /\ routes' = Insert(routes, cur[c].peer, c)
        /\ registered' = [registered EXCEPT ![c] = cur[c].peer]
        /\ owned' = [owned EXCEPT ![c] = @ \cup {cur[c].peer}]
    BY <1>1, ZenonT(60) DEF Register, Inv, ReaderContext
  <2>2. \A d \in Conn : owned[d] \subseteq owned'[d]
    BY <2>1 DEF Inv, TypeOK
  <2>3. cur[c].peer \in owned'[c]
    BY <2>1 DEF Inv, TypeOK
  <2>4. \A d \in Conn : registered'[d] # None => registered'[d] \in owned'[d]
    BY <2>1, <2>2, <2>3 DEF Owns, Inv, TypeOK
  <2>5. ASSUME NEW p \in PeerId, routes'.by_peer_id[p] # None
        PROVE  /\ routes'.by_peer_id[p].peer_id = p
               /\ p \in owned'[routes'.by_peer_id[p].connection_id]
    <3>1. CASE p = cur[c].peer
      <4>1. routes'.by_peer_id[p] = [connection_id |-> c, peer_id |-> p]
        BY <2>1, <3>1 DEF Insert, Inv, TypeOK, Registry
      <4> QED BY <2>3, <3>1, <4>1
    <3>2. CASE p # cur[c].peer
      <4>1. routes'.by_peer_id[p] = routes.by_peer_id[p]
        BY <2>1, <3>2 DEF Insert, Inv, TypeOK, Registry
      <4>2. routes.by_peer_id[p].connection_id \in Conn
        BY <2>5, <4>1 DEF Inv, TypeOK, Registry, RouteEntry
      <4> QED BY <2>2, <2>5, <4>1, <4>2, ZenonT(60) DEF Owns
    <3> QED BY <3>1, <3>2
  <2> QED BY <2>4, <2>5, ZenonT(60) DEF Owns
<1>2. ASSUME NEW c \in Conn, Unregister(c) \/ Evict(c) PROVE Owns'
  <2>1. PICK p \in PeerId, d \in Conn : routes' = RemoveConnection(routes, p, d)
    <3>1. CASE Unregister(c)
      BY <1>2, <3>1, ZenonT(60) DEF Unregister, Inv, ReaderContext
    <3>2. CASE Evict(c)
      <4>1. target[c] \in RouteEntry
        BY <3>2, ZenonT(60) DEF Evict, Inv, ReaderContext
      <4>2. target[c].peer_id \in PeerId /\ target[c].connection_id \in Conn
        BY <4>1, SMTT(60) DEF RouteEntry
      <4> QED BY <3>2, <4>2, ZenonT(60) DEF Evict
    <3> QED BY <1>2, <3>1, <3>2
  <2>2. \A q \in PeerId : routes'.by_peer_id[q] \in {routes.by_peer_id[q], None}
    BY <2>1, Zenon DEF RemoveConnection, Inv, TypeOK, Registry
  <2>3. UNCHANGED <<registered, owned>>
    BY <1>2, ZenonT(60) DEF Unregister, Evict
  <2> QED BY <2>2, <2>3 DEF Owns
<1>3. ASSUME NEW c \in Conn, ClientStep(c) \/ WriterStep(c)
      PROVE  UNCHANGED <<routes, registered, owned>>
  BY <1>3, ZenonT(60)
     DEF ClientStep, StartSession, ReadRegistration, ReadRouted, ReadAnswered,
         ReadDropped, ReadEof, ReadError, Read,
         WriterStep, WriterRecv, WriterWrite, WriterFail, WriterEnd
<1>4. ASSUME NEW c \in Conn, ReaderStep(c), ~ Register(c), ~ Unregister(c), ~ Evict(c)
      PROVE  UNCHANGED <<routes, registered, owned>>
  BY <1>4, ZenonT(60)
     DEF ReaderStep, LookupMiss, LookupHit, Respond, ForwardOk, ForwardFailed,
         AckForward, Drained
<1>5. ASSUME UNCHANGED <<routes, registered, owned>> PROVE Owns'
  BY <1>5 DEF Owns
<1>6. CASE UNCHANGED vars
  BY <1>5, <1>6 DEF vars
<1> QED BY <1>1, <1>2, <1>3, <1>4, <1>5, <1>6, ZenonT(60) DEF Next, AllClosed

\* A reader that holds a frame and a route for it goes on holding both.
Carried(d) ==
  /\ pc[d] \in Carrying /\ target[d] # None
  /\ target'[d] = target[d] /\ cur'[d] = cur[d]
  /\ seen'[d] = seen[d] /\ registered'[d] = registered[d]

\* After a step a reader holds a frame and a route only when it did before, or
\* when the step was its lookup.
LEMMA BoundSource ==
  ASSUME Inv, FrameContext, [Next]_vars, NEW d \in Conn,
         pc'[d] \in Carrying, target'[d] # None
  PROVE  Carried(d) \/ LookupHit(d)
<1> USE DEF lockVars, readerVars, writerVars, Carrying
<1>1. ASSUME NEW c \in Conn, StartSession(c) \/ ReadEof(c) \/ ReadError(c) \/ Unregister(c)
                               \/ ForwardFailed(c) \/ Drained(c)
      PROVE  Carried(d)
  <2>1. /\ \E x \in {"reading", "unregister", "draining", "failed", "evict", "done"} :
             pc' = [pc EXCEPT ![c] = x]
        /\ UNCHANGED <<target, cur, seen, registered>>
    BY <1>1, ZenonT(60)
       DEF StartSession, ReadEof, ReadError, Unregister, ForwardFailed, Drained
  <2> QED BY <2>1 DEF Carried, Inv, TypeOK
<1>2. ASSUME NEW c \in Conn,
             ReadRegistration(c) \/ ReadRouted(c) \/ ReadAnswered(c) \/ ReadDropped(c)
      PROVE  Carried(d)
  <2>1. PICK f \in Offer[c], next \in AfterRead : Read(c, f, next)
    BY <1>2, ZenonT(60)
       DEF ReadRegistration, ReadRouted, ReadAnswered, ReadDropped, AfterRead
  <2>2. /\ pc[c] = "reading" /\ UNCHANGED <<target, registered>>
        /\ \E x : pc' = [pc EXCEPT ![c] = x]
        /\ \E x : cur' = [cur EXCEPT ![c] = x]
        /\ \E x : seen' = [seen EXCEPT ![c] = x]
    BY <2>1, ZenonT(60) DEF Read
  <2>3. target[c] = None
    BY <2>2 DEF FrameContext
  <2>4. d # c
    BY <2>2, <2>3
  <2> QED BY <2>2, <2>4 DEF Carried, Inv, TypeOK
<1>3. ASSUME NEW c \in Conn, Resume(c), \A e \in Conn \ {c} : registered'[e] = registered[e],
             UNCHANGED seen
      PROVE  Carried(d)
  <2>1. d # c
    BY <1>3 DEF Resume, Inv, TypeOK
  <2> QED BY <1>3, <2>1 DEF Carried, Resume, Inv, TypeOK
<1>4. ASSUME NEW c \in Conn, Register(c) PROVE Carried(d)
  <2>1. /\ Resume(c) /\ UNCHANGED seen
        /\ registered' = [registered EXCEPT ![c] = cur[c].peer]
    BY <1>4, Zenon DEF Register
  <2> QED BY <1>3, <2>1, SMTT(60) DEF Inv, TypeOK
<1>5. ASSUME NEW c \in Conn, Evict(c) \/ ForwardOk(c) \/ AckForward(c) PROVE Carried(d)
  <2>1. Resume(c) /\ UNCHANGED <<seen, registered>>
    BY <1>5, ZenonT(60) DEF Evict, ForwardOk, AckForward
  <2> QED BY <1>3, <2>1
<1>6. ASSUME NEW c \in Conn, LookupMiss(c) PROVE Carried(d)
  <2>1. UNCHANGED <<seen, registered>> /\ target[c] = None /\ pc[c] = "lookup"
    BY <1>6, ZenonT(60) DEF LookupMiss, FrameContext
  <2>2. CASE Resume(c)
    BY <1>3, <2>1, <2>2
  <2>3. CASE pc' = [pc EXCEPT ![c] = "respond"] /\ UNCHANGED <<cur, target>>
    <3>1. d # c
      BY <2>1, <2>3
    <3> QED BY <2>1, <2>3, <3>1 DEF Carried, Inv, TypeOK
  <2> QED BY <1>6, <2>2, <2>3, ZenonT(60) DEF LookupMiss
<1>7. ASSUME NEW c \in Conn, Respond(c) PROVE Carried(d)
  <2>1. UNCHANGED <<seen, registered>> /\ pc[c] = "respond"
    BY <1>7, ZenonT(60) DEF Respond
  <2>2. CASE Resume(c)
    BY <1>3, <2>1, <2>2
  <2>3. CASE target[c] # None /\ pc' = [pc EXCEPT ![c] = "forward"] /\ UNCHANGED <<cur, target>>
    BY <2>1, <2>3 DEF Carried, Inv, TypeOK
  <2> QED BY <1>7, <2>2, <2>3, ZenonT(60) DEF Respond
<1>8. ASSUME NEW c \in Conn, LookupHit(c) PROVE Carried(d) \/ LookupHit(d)
  <2>1. /\ \E x : pc' = [pc EXCEPT ![c] = x]
        /\ \E x : target' = [target EXCEPT ![c] = x]
        /\ UNCHANGED <<cur, seen, registered>>
    BY <1>8, ZenonT(60) DEF LookupHit
  <2>2. CASE d # c
    BY <2>1, <2>2 DEF Carried, Inv, TypeOK
  <2> QED BY <1>8, <2>2
<1>9. ASSUME UNCHANGED <<pc, cur, seen, registered, target>> PROVE Carried(d)
  BY <1>9 DEF Carried
<1>10. ASSUME NEW c \in Conn, WriterStep(c) PROVE Carried(d)
  BY <1>9, <1>10, ZenonT(60)
     DEF WriterStep, WriterRecv, WriterWrite, WriterFail, WriterEnd
<1>11. CASE UNCHANGED vars
  BY <1>9, <1>11 DEF vars
<1> QED
  BY <1>1, <1>2, <1>4, <1>5, <1>6, <1>7, <1>8, <1>10, <1>11, ZenonT(60)
     DEF Next, ClientStep, ReaderStep, AllClosed

\* A route that was looked up keeps fitting the frame it was looked up for.
LEMMA BoundStep ==
  ASSUME Inv, FrameContext, IndicesAgree, Owns, Bound, [Next]_vars, Inv'
  PROVE  Bound'
<1> SUFFICES ASSUME NEW d \in Conn, pc'[d] \in Carrying, target'[d] # None
             PROVE  Fits(owned', Forwarded(d)', target'[d].connection_id)
  BY DEF Bound, Carrying
<1>1. \A c \in Conn : owned[c] \subseteq owned'[c]
  BY OwnedGrows
<1>2. target'[d].connection_id \in Conn
  BY DEF Inv, TypeOK, RouteEntry
<1>3. Forwarded(d).src \in Conn
  BY DEF Forwarded
<1>4. CASE Carried(d)
  <2>1. Forwarded(d)' = Forwarded(d)
    BY <1>4, ZenonT(60) DEF Carried, Forwarded
  <2>2. Fits(owned, Forwarded(d), target'[d].connection_id)
    BY <1>4, ZenonT(60) DEF Carried, Bound
  <2> QED BY <1>1, <1>2, <1>3, <2>1, <2>2, FitsGrows, ZenonT(60)
<1>5. CASE LookupHit(d)
  <2>1. /\ pc[d] = "lookup" /\ FoundEntry(cur[d]) # None
        /\ target' = [target EXCEPT ![d] = FoundEntry(cur[d])]
        /\ UNCHANGED <<cur, seen, registered>>
    BY <1>5, ZenonT(60) DEF LookupHit
  <2>2. target'[d] = FoundEntry(cur[d])
    BY <2>1 DEF Inv, TypeOK
  <2>3. Forwarded(d)' = Forwarded(d)
    BY <2>1, ZenonT(60) DEF Forwarded
  <2>4. Fits(owned, Forwarded(d), target'[d].connection_id)
    BY <2>1, <2>2, FoundFits, ZenonT(60)
  <2> QED BY <1>1, <1>2, <1>3, <2>3, <2>4, FitsGrows, ZenonT(60)
<1> QED BY <1>4, <1>5, BoundSource, ZenonT(60)

\* A reply is no routed frame.
LEMMA ReplyKind ==
  ASSUME NEW c \in Conn
  PROVE  Reply(c).kind \notin Forwards
  BY Zenon DEF Reply, Forwards

\* What the steps of readers and writers put into a queue, a writer's hands or
\* a stream fits, by what was registered before the step.
LEMMA KeptMoves ==
  ASSUME Inv, FrameContext, Bound, Kept, [Next]_vars, NEW d \in Conn
  PROVE  /\ AllFit(owned, queue'[d], d)
         /\ inflight'[d] # None => AllFit(owned, <<inflight'[d]>>, d)
         /\ AllFit(owned, delivered'[d], d)
<1> USE DEF lockVars, readerVars, writerVars
<1> DEFINE Fine == /\ AllFit(owned, queue'[d], d)
                   /\ inflight'[d] # None => AllFit(owned, <<inflight'[d]>>, d)
                   /\ AllFit(owned, delivered'[d], d)
<1>1. /\ AllFit(owned, queue[d], d)
      /\ inflight[d] # None => AllFit(owned, <<inflight[d]>>, d)
      /\ AllFit(owned, delivered[d], d)
  BY ZenonT(60) DEF Kept
<1>2. /\ queue[d] \in Seq(ServerFrame)
      /\ inflight[d] # None => inflight[d] \in ServerFrame
      /\ delivered[d] \in Seq(ServerFrame)
  BY SMTT(60) DEF Inv, TypeOK
<1>3. ASSUME UNCHANGED <<queue, inflight, delivered>> PROVE Fine
  BY <1>1, <1>3
<1>4. ASSUME NEW e \in Conn, NEW f \in ServerFrame, Push(e, f),
             f.kind \in Forwards => Fits(owned, f, e), UNCHANGED <<inflight, delivered>>
      PROVE  Fine
  <2>1. CASE e = d
    <3>1. queue'[d] = Append(queue[d], f)
      BY <1>4, <2>1 DEF Push, Inv, TypeOK
    <3>2. AllFit(owned, Append(queue[d], f), d)
      BY <1>1, <1>2, <1>4, <2>1, AllFitAppend, ZenonT(60)
    <3> QED BY <1>1, <1>4, <3>1, <3>2, ZenonT(60)
  <2>2. CASE e # d
    <3>1. queue'[d] = queue[d]
      BY <1>4, <2>2 DEF Push, Inv, TypeOK
    <3> QED BY <1>1, <1>4, <3>1, ZenonT(60)
  <2> QED BY <2>1, <2>2
<1>5. ASSUME NEW c \in Conn, ClientStep(c) PROVE Fine
  BY <1>3, <1>5, ZenonT(60)
     DEF ClientStep, StartSession, ReadRegistration, ReadRouted, ReadAnswered,
         ReadDropped, ReadEof, ReadError, Read
<1>6. ASSUME NEW c \in Conn, Respond(c) PROVE Fine
  <2>1. Reply(c) \in ServerFrame /\ Reply(c).kind \notin Forwards
    BY <1>6, ReplyType, ReplyKind, ZenonT(60) DEF Respond
  <2>2. (Push(c, Reply(c)) \/ UNCHANGED queue) /\ UNCHANGED <<inflight, delivered>>
    BY <1>6, ZenonT(60) DEF Respond
  <2> QED BY <1>3, <1>4, <2>1, <2>2, ZenonT(60)
<1>7. ASSUME NEW c \in Conn, ForwardOk(c) \/ AckForward(c) PROVE Fine
  <2>1. /\ pc[c] \in {"forward", "ackForward"}
        /\ Push(target[c].connection_id, Forwarded(c)) \/ UNCHANGED queue
        /\ UNCHANGED <<inflight, delivered>>
    BY <1>7, ZenonT(60) DEF ForwardOk, AckForward
  <2>2. target[c] \in RouteEntry
    BY <2>1, ZenonT(60) DEF Inv, ReaderContext
  <2>3. target[c].connection_id \in Conn
    BY <2>2 DEF RouteEntry
  <2>4. target[c] # None
    BY <2>2, RegistryAssumption, ZenonT(60) DEF RouteEntry
  <2>5. Fits(owned, Forwarded(c), target[c].connection_id)
    BY <2>1, <2>4, ZenonT(60) DEF Bound, Carrying
  <2>6. Forwarded(c) \in ServerFrame
    BY <2>1, ForwardedType, ZenonT(60)
  <2> QED BY <1>3, <1>4, <2>1, <2>3, <2>5, <2>6, ZenonT(60)
<1>8. ASSUME NEW c \in Conn, ReaderStep(c), ~ Respond(c), ~ ForwardOk(c), ~ AckForward(c)
      PROVE  Fine
  BY <1>3, <1>8, ZenonT(60)
     DEF ReaderStep, Register, Unregister, Evict, LookupMiss, LookupHit,
         ForwardFailed, Drained
<1>9. ASSUME NEW c \in Conn, c # d, WriterStep(c) PROVE Fine
  <2>1. /\ queue' = queue \/ \E x : queue' = [queue EXCEPT ![c] = x]
        /\ inflight' = inflight \/ \E x : inflight' = [inflight EXCEPT ![c] = x]
        /\ delivered' = delivered \/ \E x : delivered' = [delivered EXCEPT ![c] = x]
    BY <1>9, ZenonT(60) DEF WriterStep, WriterRecv, WriterWrite, WriterFail, WriterEnd
  <2>2. queue'[d] = queue[d] /\ inflight'[d] = inflight[d] /\ delivered'[d] = delivered[d]
    BY <1>9, <2>1 DEF Inv, TypeOK
  <2> QED BY <1>1, <2>2, ZenonT(60)
<1>10. ASSUME WriterRecv(d) PROVE Fine
  <2>1. /\ queue[d] # <<>> /\ inflight'[d] = Head(queue[d]) /\ queue'[d] = Tail(queue[d])
        /\ delivered' = delivered
    BY <1>10 DEF WriterRecv, Inv, TypeOK
  <2>2. AllFit(owned, <<Head(queue[d])>>, d) /\ AllFit(owned, Tail(queue[d]), d)
    BY <1>1, <1>2, <2>1, AllFitSplit, ZenonT(60)
  <2> QED BY <1>1, <2>1, <2>2, ZenonT(60)
<1>11. ASSUME WriterWrite(d) PROVE Fine
  <2>1. /\ inflight[d] # None /\ inflight'[d] = None /\ queue' = queue
        /\ delivered'[d] = Append(delivered[d], inflight[d])
    BY <1>11 DEF WriterWrite, Inv, TypeOK
  <2>2. 1 \in DOMAIN <<inflight[d]>> /\ <<inflight[d]>>[1] = inflight[d]
    OBVIOUS
  <2>3. inflight[d].kind \in Forwards => Fits(owned, inflight[d], d)
    BY <1>1, <2>1, <2>2, ZenonT(60) DEF AllFit
  <2>4. AllFit(owned, Append(delivered[d], inflight[d]), d)
    BY <1>1, <1>2, <2>1, <2>3, AllFitAppend, ZenonT(60)
  <2> QED BY <1>1, <2>1, <2>4, ZenonT(60)
<1>12. ASSUME WriterFail(d) PROVE Fine
  <2>1. queue'[d] = <<>> /\ inflight'[d] = None /\ delivered' = delivered
    BY <1>12 DEF WriterFail, Inv, TypeOK
  <2>2. AllFit(owned, <<>>, d)
    BY DEF AllFit
  <2> QED BY <1>1, <2>1, <2>2, ZenonT(60)
<1>13. ASSUME WriterEnd(d) PROVE Fine
  BY <1>3, <1>13, ZenonT(60) DEF WriterEnd
<1>14. ASSUME UNCHANGED vars PROVE Fine
  BY <1>3, <1>14, Zenon DEF vars
<1> HIDE DEF Fine
<1>15. ASSUME NEW c \in Conn, WriterStep(c) PROVE Fine
  <2>1. CASE c = d
    BY <1>10, <1>11, <1>12, <1>13, <1>15, <2>1 DEF WriterStep
  <2> QED BY <1>9, <1>15, <2>1
<1>16. ASSUME NEW c \in Conn, ReaderStep(c) PROVE Fine
  BY <1>6, <1>7, <1>8, <1>16
<1>17. Fine
  BY <1>5, <1>14, <1>15, <1>16, ZenonT(60) DEF Next, AllClosed
<1> QED BY <1>17 DEF Fine

\* Hence all of it fits after the step.
LEMMA KeptStep ==
  ASSUME Inv, FrameContext, Bound, Kept, [Next]_vars, Inv'
  PROVE  Kept'
<1> SUFFICES ASSUME NEW d \in Conn
             PROVE  /\ AllFit(owned', queue'[d], d)
                    /\ inflight'[d] # None => AllFit(owned', <<inflight'[d]>>, d)
                    /\ AllFit(owned', delivered'[d], d)
  BY Zenon DEF Kept, AllFit, Fits, Forwards
<1>1. \A c \in Conn : owned[c] \subseteq owned'[c]
  BY OwnedGrows
<1>2. /\ queue'[d] \in Seq(ServerFrame)
      /\ inflight'[d] # None => <<inflight'[d]>> \in Seq(ServerFrame)
      /\ delivered'[d] \in Seq(ServerFrame)
  BY DEF Inv, TypeOK
<1> QED BY <1>1, <1>2, KeptMoves, AllFitGrows, ZenonT(60)

-----------------------------------------------------------------------------
(* The theorem.                                                             *)

\* The invariant says of every stream what NoMisdelivery asks.
LEMMA KeptDelivers ==
  ASSUME Inv, Kept
  PROVE  NoMisdelivery
<1> SUFFICES ASSUME NEW d \in Conn, NEW f \in Routed(d) PROVE Fits(owned, f, d)
  BY ZenonT(60) DEF NoMisdelivery, Fits
<1> DEFINE held == IF inflight[d] = None THEN <<>> ELSE <<inflight[d]>>
<1>1. /\ queue[d] \in Seq(ServerFrame) /\ delivered[d] \in Seq(ServerFrame)
      /\ held \in Seq(ServerFrame)
  BY DEF Inv, TypeOK
<1>2. AllFit(owned, queue[d], d) /\ AllFit(owned, delivered[d], d)
  BY ZenonT(60) DEF Kept
<1>3. AllFit(owned, held, d)
  <2>1. AllFit(owned, <<>>, d)
    BY DEF AllFit
  <2> QED BY <2>1, ZenonT(60) DEF Kept
<1>4. Stream(d) = delivered[d] \o held \o queue[d]
  BY DEF Stream
<1> HIDE DEF held
<1>5. delivered[d] \o held \in Seq(ServerFrame)
  BY <1>1
<1>6. AllFit(owned, delivered[d] \o held, d)
  BY <1>1, <1>2, <1>3, AllFitConcat, ZenonT(60)
<1>7. AllFit(owned, Stream(d), d)
  BY <1>1, <1>2, <1>4, <1>5, <1>6, AllFitConcat, ZenonT(60)
<1> QED BY <1>7, ZenonT(60) DEF AllFit, Routed

\* A routed frame is only ever queued for, or handed to, a connection that
\* registered the address the frame's sender gave, and names a peer id that
\* sender registered, although the table may change between the lookup and the
\* send (handle_routed_noise_session of src/server/routed_listener.rs).
THEOREM DeliveredWhereAddressed == Spec => []NoMisdelivery
<1>1. Init => DeliveryInv
  <2> SUFFICES ASSUME Init PROVE DeliveryInv
    OBVIOUS
  <2>1. Owns
    BY DEF Init, Owns, EmptyRegistry
  <2>2. Bound
    BY DEF Init, Bound, Carrying
  <2>3. Kept
    BY DEF Init, Kept, AllFit
  <2> QED BY <2>1, <2>2, <2>3 DEF DeliveryInv
<1>2. Inv /\ Inv' /\ FrameContext /\ IndicesAgree /\ DeliveryInv /\ [Next]_vars
        => DeliveryInv'
  BY OwnsStep, BoundStep, KeptStep, ZenonT(60) DEF DeliveryInv
<1>3. Inv /\ DeliveryInv => NoMisdelivery
  BY KeptDelivers DEF DeliveryInv
<1> QED
  BY <1>1, <1>2, <1>3, InvHolds, FrameContextHolds, TableConsistent, PTL DEF Spec

-----------------------------------------------------------------------------
(* In what order, and how often, the routed sessions deliver.                 *)

\* Positions of the reader at which it has not yet queued its reply to the frame
\* at hand, and at which it has not yet routed it.
Unanswered == {"register", "lookup", "respond"}
Unsent == {"register", "lookup", "respond", "forward", "ackForward"}

\* A reply to, or a routed form of, c's n-th frame may exist by now.
Answered(c, n) == n <= seen[c] /\ (pc[c] \in Unanswered => n < seen[c])
Sent(c, n) == n <= seen[c] /\ (pc[c] \in Unsent => n < seen[c])

Due(f) == IF f.kind \in Replies THEN Answered(f.src, f.n) ELSE Sent(f.src, f.n)

Items(s) == {s[i] : i \in DOMAIN s}

Ordered(s) ==
  \A i, j \in DOMAIN s : i < j /\ SameFlow(s[i], s[j]) => s[i].n < s[j].n

Key(f) == <<f.src, f.n>>

\* The routed frames of two sets are routed forms of different frames.
Apart(S, T) ==
  \A f \in S, g \in T : f.kind \in Forwards /\ g.kind \in Forwards => Key(f) # Key(g)

\* None of a set is a routed form of a frame that was lost.
NotLost(S, gone) == \A f \in S : f.kind \in Forwards => Key(f) \notin gone

\* Every stream is in order and holds nothing that is not due; what was lost is
\* in none, and what is in one is not in another.
OrderInv ==
  /\ \A d \in Conn :
       /\ Ordered(Stream(d))
       /\ \A f \in Items(Stream(d)) : Due(f)
       /\ NotLost(Items(Stream(d)), lost)
       /\ \A e \in Conn \ {d} : Apart(Items(Stream(d)), Items(Stream(e)))
  /\ \A c \in Conn, n \in Nat : <<c, n>> \in lost => Sent(c, n)

-----------------------------------------------------------------------------
(* Sequences of frames.                                                     *)

\* The items of a longer sequence.
LEMMA ItemsAppend ==
  ASSUME NEW s \in Seq(ServerFrame), NEW f \in ServerFrame
  PROVE  Items(Append(s, f)) = Items(s) \cup {f}
<1>1. /\ DOMAIN Append(s, f) = DOMAIN s \cup {Len(s) + 1}
      /\ \A i \in DOMAIN s : Append(s, f)[i] = s[i]
      /\ Append(s, f)[Len(s) + 1] = f
  OBVIOUS
<1> QED BY <1>1, ZenonT(60) DEF Items

\* A frame that comes after every other of its flow keeps the order.
LEMMA OrderedAppend ==
  ASSUME NEW s \in Seq(ServerFrame), NEW f \in ServerFrame, Ordered(s),
         \A g \in Items(s) : SameFlow(g, f) => g.n < f.n
  PROVE  Ordered(Append(s, f))
<1> SUFFICES ASSUME NEW i \in DOMAIN Append(s, f), NEW j \in DOMAIN Append(s, f), i < j,
                    SameFlow(Append(s, f)[i], Append(s, f)[j])
             PROVE  Append(s, f)[i].n < Append(s, f)[j].n
  BY DEF Ordered
<1>1. i \in DOMAIN s /\ Append(s, f)[i] = s[i]
  OBVIOUS
<1>2. CASE j \in DOMAIN s
  <2>1. Append(s, f)[j] = s[j]
    BY <1>2
  <2> QED BY <1>1, <1>2, <2>1, ZenonT(60) DEF Ordered
<1>3. CASE j \notin DOMAIN s
  <2>1. Append(s, f)[j] = f
    BY <1>3
  <2>2. s[i] \in Items(s)
    BY <1>1 DEF Items
  <2> QED BY <1>1, <2>1, <2>2, ZenonT(60)
<1> QED BY <1>2, <1>3

\* A sequence in order, cut in two: the first part is in order, and nothing in it
\* is a routed form of the same frame as something in the second.
LEMMA OrderedCut ==
  ASSUME NEW s \in Seq(ServerFrame), NEW t \in Seq(ServerFrame), Ordered(s \o t)
  PROVE  /\ Ordered(s)
         /\ Items(s) \subseteq Items(s \o t) /\ Items(t) \subseteq Items(s \o t)
         /\ Apart(Items(s), Items(t))
<1>1. \A i \in DOMAIN s : i \in DOMAIN (s \o t) /\ (s \o t)[i] = s[i] /\ i \in Nat
  OBVIOUS
<1>2. \A i \in DOMAIN t : /\ Len(s) + i \in DOMAIN (s \o t) /\ (s \o t)[Len(s) + i] = t[i]
                          /\ \A k \in DOMAIN s : k < Len(s) + i
  OBVIOUS
<1>3. Ordered(s)
  BY <1>1, ZenonT(60) DEF Ordered
<1>4. Items(s) \subseteq Items(s \o t)
  BY <1>1, ZenonT(60) DEF Items
<1>5. Items(t) \subseteq Items(s \o t)
  BY <1>2, ZenonT(60) DEF Items
<1>6. ASSUME NEW i \in DOMAIN s, NEW j \in DOMAIN t,
             s[i].kind \in Forwards, t[j].kind \in Forwards
      PROVE  Key(s[i]) # Key(t[j])
  <2>1. s[i] \in ServerFrame /\ t[j] \in ServerFrame
    OBVIOUS
  <2>2. s[i].n \in Nat /\ t[j].n \in Nat
    BY <2>1 DEF ServerFrame
  <2>3. SameFlow(s[i], t[j]) => s[i].n < t[j].n
    BY <1>1, <1>2, ZenonT(60) DEF Ordered
  <2>4. s[i].src = t[j].src => SameFlow(s[i], t[j])
    BY <1>6 DEF SameFlow, Replies, Forwards
  <2>5. s[i].src = t[j].src => s[i].n # t[j].n
    BY <2>2, <2>3, <2>4
  <2> QED BY <2>5 DEF Key
<1> QED BY <1>3, <1>4, <1>5, <1>6, ZenonT(60) DEF Apart, Items

\* The frame in the writer's hands, as a sequence.
Held(d) == IF inflight[d] = None THEN <<>> ELSE <<inflight[d]>>

\* Concatenation yields a sequence.
LEMMA ConcatType ==
  ASSUME NEW S, NEW s \in Seq(S), NEW t \in Seq(S)
  PROVE  s \o t \in Seq(S)
  BY SMTT(60)

\* A stream is a sequence of frames, and its parts are.
LEMMA StreamType ==
  ASSUME Inv, NEW d \in Conn
  PROVE  /\ delivered[d] \in Seq(ServerFrame) /\ Held(d) \in Seq(ServerFrame)
         /\ queue[d] \in Seq(ServerFrame)
         /\ Held(d) \o queue[d] \in Seq(ServerFrame)
         /\ Stream(d) \in Seq(ServerFrame)
         /\ Stream(d) = delivered[d] \o (Held(d) \o queue[d])
<1>1. /\ delivered[d] \in Seq(ServerFrame) /\ Held(d) \in Seq(ServerFrame)
      /\ queue[d] \in Seq(ServerFrame)
  BY DEF Inv, TypeOK, Held
<1>2. Stream(d) = (delivered[d] \o Held(d)) \o queue[d]
  BY DEF Stream, Held
<1>3. (delivered[d] \o Held(d)) \o queue[d] = delivered[d] \o (Held(d) \o queue[d])
  <2> DEFINE s == delivered[d]
             t == Held(d)
             u == queue[d]
  <2> HIDE DEF s, t, u
  <2>1. s \in Seq(ServerFrame) /\ t \in Seq(ServerFrame) /\ u \in Seq(ServerFrame)
    BY <1>1 DEF s, t, u
  <2>2. (s \o t) \o u = s \o (t \o u)
    BY <2>1, ConcatAssociates
  <2> QED BY <2>2 DEF s, t, u
<1>4. Held(d) \o queue[d] \in Seq(ServerFrame)
  BY <1>1, ConcatType, ZenonT(60)
<1>5. delivered[d] \o (Held(d) \o queue[d]) \in Seq(ServerFrame)
  BY <1>1, <1>4, ConcatType, ZenonT(60)
<1> QED BY <1>1, <1>2, <1>3, <1>4, <1>5

\* The items of a sequence with a frame in front.
LEMMA ItemsPrepend ==
  ASSUME NEW s \in Seq(ServerFrame), NEW f \in ServerFrame
  PROVE  Items(<<f>> \o s) = Items(s) \cup {f}
<1> DEFINE t == <<f>> \o s
<1>1. \A i \in DOMAIN s : 1 + i \in DOMAIN t /\ t[1 + i] = s[i]
  BY SMTT(60)
<1>2. 1 \in DOMAIN t /\ t[1] = f
  BY SMTT(60)
<1>3. \A i \in DOMAIN t : t[i] = f \/ (i - 1 \in DOMAIN s /\ t[i] = s[i - 1])
  BY SMTT(60)
<1> HIDE DEF t
<1>4. Items(t) \subseteq Items(s) \cup {f}
  BY <1>3, ZenonT(60) DEF Items
<1>5. Items(s) \subseteq Items(t)
  BY <1>1, ZenonT(60) DEF Items
<1>6. f \in Items(t)
  BY <1>2, ZenonT(60) DEF Items
<1>7. Items(t) = Items(s) \cup {f}
  BY <1>4, <1>5, <1>6, ZenonT(60)
<1> QED BY <1>7 DEF t

\* What is pending is in the second part of the stream.
LEMMA PendingItems ==
  ASSUME Inv, NEW d \in Conn, inflight[d] # None
  PROVE  Pending(d) = Items(Held(d) \o queue[d])
<1>1. queue[d] \in Seq(ServerFrame) /\ inflight[d] \in ServerFrame
  BY DEF Inv, TypeOK
<1>2. Held(d) = <<inflight[d]>>
  BY DEF Held
<1>3. Pending(d) = Items(queue[d]) \cup {inflight[d]}
  BY DEF Pending, Items
<1> QED BY <1>1, <1>2, <1>3, ItemsPrepend, ZenonT(60)

-----------------------------------------------------------------------------
(* A reader's progress through its frames.                                  *)

\* A reader counts a frame when it reads it, and once past the reply, or past
\* the send, stays past it until it reads the next.
Advances(c) ==
  \/ seen'[c] = seen[c] + 1
  \/ /\ seen'[c] = seen[c]
     /\ pc'[c] \in Unanswered => pc[c] \in Unanswered
     /\ pc'[c] \in Unsent => pc[c] \in Unsent

\* Every step does one or the other for every reader.
LEMMA Progress ==
  ASSUME Inv, [Next]_vars, NEW d \in Conn
  PROVE  Advances(d)
<1> USE DEF lockVars, readerVars, writerVars
<1>1. ASSUME NEW c \in Conn, NEW x, pc' = [pc EXCEPT ![c] = x], UNCHANGED seen,
             x \in Unanswered => pc[c] \in Unanswered, x \in Unsent => pc[c] \in Unsent
      PROVE  Advances(d)
  BY <1>1 DEF Advances, Inv, TypeOK
<1>2. ASSUME NEW c \in Conn, StartSession(c) \/ ReadEof(c) \/ ReadError(c) \/ Unregister(c)
                               \/ ForwardFailed(c) \/ Drained(c)
      PROVE  Advances(d)
  <2>1. /\ \E x \in {"reading", "unregister", "draining", "failed", "evict", "done"} :
             pc' = [pc EXCEPT ![c] = x]
        /\ UNCHANGED seen
    BY <1>2, ZenonT(60)
       DEF StartSession, ReadEof, ReadError, Unregister, ForwardFailed, Drained
  <2> QED BY <1>1, <2>1, Zenon DEF Unanswered, Unsent
<1>3. ASSUME NEW c \in Conn,
             ReadRegistration(c) \/ ReadRouted(c) \/ ReadAnswered(c) \/ ReadDropped(c)
      PROVE  Advances(d)
  <2>1. PICK f \in Offer[c], next \in AfterRead : Read(c, f, next)
    BY <1>3, ZenonT(60)
       DEF ReadRegistration, ReadRouted, ReadAnswered, ReadDropped, AfterRead
  <2>2. /\ \E x : pc' = [pc EXCEPT ![c] = x]
        /\ seen' = [seen EXCEPT ![c] = @ + 1]
    BY <2>1, ZenonT(60) DEF Read
  <2> QED BY <2>2 DEF Advances, Inv, TypeOK
<1>4. ASSUME NEW c \in Conn, Resume(c), UNCHANGED seen PROVE Advances(d)
  <2>1. pc' = [pc EXCEPT ![c] = "reading"]
    BY <1>4 DEF Resume
  <2> QED BY <1>1, <1>4, <2>1, Zenon DEF Unanswered, Unsent
<1>5. ASSUME NEW c \in Conn, Register(c) \/ Evict(c) \/ ForwardOk(c) \/ AckForward(c)
      PROVE  Advances(d)
  <2>1. Resume(c) /\ UNCHANGED seen
    BY <1>5, ZenonT(60) DEF Register, Evict, ForwardOk, AckForward
  <2> QED BY <1>4, <2>1
<1>6. ASSUME NEW c \in Conn, LookupMiss(c) \/ LookupHit(c) PROVE Advances(d)
  <2>1. /\ pc[c] = "lookup" /\ UNCHANGED seen
        /\ Resume(c) \/ \E x \in {"respond", "forward", "ackForward"} :
                          pc' = [pc EXCEPT ![c] = x]
    BY <1>6, ZenonT(60) DEF LookupMiss, LookupHit
  <2> QED BY <1>1, <1>4, <2>1 DEF Unanswered, Unsent
<1>7. ASSUME NEW c \in Conn, Respond(c) PROVE Advances(d)
  <2>1. /\ pc[c] = "respond" /\ UNCHANGED seen
        /\ Resume(c) \/ pc' = [pc EXCEPT ![c] = "forward"]
    BY <1>7, ZenonT(60) DEF Respond
  <2> QED BY <1>1, <1>4, <2>1 DEF Unanswered, Unsent
<1>8. ASSUME UNCHANGED <<pc, seen>> PROVE Advances(d)
  BY <1>8 DEF Advances
<1>9. ASSUME NEW c \in Conn, WriterStep(c) PROVE Advances(d)
  BY <1>8, <1>9, ZenonT(60)
     DEF WriterStep, WriterRecv, WriterWrite, WriterFail, WriterEnd
<1>10. CASE UNCHANGED vars
  BY <1>8, <1>10 DEF vars
<1> QED
  BY <1>2, <1>3, <1>5, <1>6, <1>7, <1>9, <1>10, ZenonT(60)
     DEF Next, ClientStep, ReaderStep, AllClosed

\* What may exist may still exist after a step.
LEMMA SentKept ==
  ASSUME Inv, [Next]_vars, NEW c \in Conn, NEW n \in Nat
  PROVE  /\ Sent(c, n) => Sent(c, n)'
         /\ Answered(c, n) => Answered(c, n)'
<1>1. Advances(c)
  BY Progress
<1>2. seen[c] \in Nat
  BY DEF Inv, TypeOK
<1> QED BY <1>1, <1>2 DEF Advances, Sent, Answered

\* And so may a frame.
LEMMA DueKept ==
  ASSUME Inv, [Next]_vars, NEW f \in ServerFrame, Due(f)
  PROVE  Due(f)'
<1>1. f.src \in Conn /\ f.n \in Nat
  BY DEF ServerFrame
<1> QED BY <1>1, SentKept, ZenonT(60) DEF Due, Replies

-----------------------------------------------------------------------------
(* What the steps do to the streams.                                        *)

\* Appending to the last part of a stream appends to the stream.
LEMMA ConcatAppend ==
  ASSUME NEW S, NEW s \in Seq(S), NEW t \in Seq(S), NEW f \in S
  PROVE  s \o Append(t, f) = Append(s \o t, f)
  BY SMTT(60)

\* Taking the first frame of the last part moves it into the empty middle.
LEMMA ConcatTake ==
  ASSUME NEW S, NEW s \in Seq(S), NEW t \in Seq(S), t # <<>>
  PROVE  (s \o <<Head(t)>>) \o Tail(t) = (s \o <<>>) \o t
  BY SMTT(60)

\* Putting the middle frame at the end of the first part.
LEMMA ConcatGive ==
  ASSUME NEW S, NEW s \in Seq(S), NEW t \in Seq(S), NEW f \in S
  PROVE  (Append(s, f) \o <<>>) \o t = (s \o <<f>>) \o t
<1>1. Append(s, f) \o <<>> = s \o <<f>>
  BY SMTT(60)
<1> QED BY <1>1

\* A frame queued for e is at the end of e's stream.
LEMMA StreamPush ==
  ASSUME Inv, NEW e \in Conn, NEW f \in ServerFrame, Push(e, f),
         UNCHANGED <<inflight, delivered>>
  PROVE  /\ Stream(e)' = Append(Stream(e), f)
         /\ \A d \in Conn \ {e} : Stream(d)' = Stream(d)
<1>1. queue'[e] = Append(queue[e], f) /\ \A d \in Conn \ {e} : queue'[d] = queue[d]
  BY DEF Push, Inv, TypeOK
<1>2. Stream(e) = (delivered[e] \o Held(e)) \o queue[e]
  BY DEF Stream, Held
<1>3. Stream(e)' = (delivered[e] \o Held(e)) \o Append(queue[e], f)
  BY <1>1, ZenonT(60) DEF Stream, Held
<1>4. delivered[e] \o Held(e) \in Seq(ServerFrame) /\ queue[e] \in Seq(ServerFrame)
  BY StreamType, ConcatType, ZenonT(60)
<1>5. Stream(e)' = Append(Stream(e), f)
  <2> DEFINE before == delivered[e] \o Held(e)
             q == queue[e]
  <2> HIDE DEF before, q
  <2>1. before \in Seq(ServerFrame) /\ q \in Seq(ServerFrame)
    BY <1>4 DEF before, q
  <2>2. before \o Append(q, f) = Append(before \o q, f)
    BY <2>1, ConcatAppend
  <2> QED BY <1>2, <1>3, <2>2 DEF before, q
<1>6. \A d \in Conn \ {e} : Stream(d)' = Stream(d)
  BY <1>1, ZenonT(60) DEF Stream
<1> QED BY <1>5, <1>6, ZenonT(60)

\* The writer moves frames along the stream without changing it.
LEMMA StreamMove ==
  ASSUME Inv, NEW c \in Conn, WriterRecv(c) \/ WriterWrite(c) \/ WriterEnd(c)
  PROVE  \A d \in Conn : Stream(d)' = Stream(d)
<1>1. CASE WriterEnd(c)
  BY <1>1, ZenonT(60) DEF WriterEnd, Stream
<1>2. CASE WriterRecv(c)
  <2>1. /\ inflight[c] = None /\ queue[c] # <<>> /\ delivered' = delivered
        /\ inflight'[c] = Head(queue[c]) /\ queue'[c] = Tail(queue[c])
        /\ \A d \in Conn \ {c} : inflight'[d] = inflight[d] /\ queue'[d] = queue[d]
    BY <1>2 DEF WriterRecv, Inv, TypeOK
  <2>2. queue[c] \in Seq(ServerFrame) /\ delivered[c] \in Seq(ServerFrame)
    BY DEF Inv, TypeOK
  <2>3. Head(queue[c]) # None
    <3>1. Head(queue[c]) \in ServerFrame BY <2>1, <2>2, TailType, Zenon
    <3> QED BY <3>1, FrameAssumption, Zenon
  <2>4. Stream(c) = (delivered[c] \o <<>>) \o queue[c]
    BY <2>1, ZenonT(60) DEF Stream
  <2>5. Stream(c)' = (delivered[c] \o <<Head(queue[c])>>) \o Tail(queue[c])
    BY <2>1, <2>3, ZenonT(60) DEF Stream
  <2>6. Stream(c)' = Stream(c)
    BY <2>1, <2>2, <2>4, <2>5, ConcatTake, ZenonT(60)
  <2>7. \A d \in Conn \ {c} : Stream(d)' = Stream(d)
    BY <2>1, ZenonT(60) DEF Stream
  <2> QED BY <2>6, <2>7, ZenonT(60)
<1>3. CASE WriterWrite(c)
  <2>1. /\ inflight[c] # None /\ inflight'[c] = None /\ queue' = queue
        /\ delivered'[c] = Append(delivered[c], inflight[c])
        /\ \A d \in Conn \ {c} : inflight'[d] = inflight[d] /\ delivered'[d] = delivered[d]
    BY <1>3 DEF WriterWrite, Inv, TypeOK
  <2>2. /\ queue[c] \in Seq(ServerFrame) /\ delivered[c] \in Seq(ServerFrame)
        /\ inflight[c] \in ServerFrame
    BY <2>1 DEF Inv, TypeOK
  <2>3. Stream(c) = (delivered[c] \o <<inflight[c]>>) \o queue[c]
    BY <2>1, ZenonT(60) DEF Stream
  <2>4. Stream(c)' = (Append(delivered[c], inflight[c]) \o <<>>) \o queue[c]
    BY <2>1, ZenonT(60) DEF Stream
  <2>5. Stream(c)' = Stream(c)
    BY <2>2, <2>3, <2>4, ConcatGive, ZenonT(60)
  <2>6. \A d \in Conn \ {c} : Stream(d)' = Stream(d)
    BY <2>1, ZenonT(60) DEF Stream
  <2> QED BY <2>5, <2>6, ZenonT(60)
<1> QED BY <1>1, <1>2, <1>3

\* A writer that fails leaves what it has written.
LEMMA StreamCut ==
  ASSUME Inv, NEW c \in Conn, WriterFail(c)
  PROVE  /\ Stream(c)' = delivered[c]
         /\ \A d \in Conn \ {c} : Stream(d)' = Stream(d)
<1>1. /\ inflight'[c] = None /\ queue'[c] = <<>> /\ delivered' = delivered
      /\ \A d \in Conn \ {c} : inflight'[d] = inflight[d] /\ queue'[d] = queue[d]
  BY DEF WriterFail, Inv, TypeOK
<1>2. delivered[c] \in Seq(ServerFrame)
  BY DEF Inv, TypeOK
<1>3. (delivered[c] \o <<>>) \o <<>> = delivered[c]
  BY <1>2
<1>4. Stream(c)' = (delivered[c] \o <<>>) \o <<>>
  BY <1>1, ZenonT(60) DEF Stream
<1>5. \A d \in Conn \ {c} : Stream(d)' = Stream(d)
  BY <1>1, ZenonT(60) DEF Stream
<1> QED BY <1>3, <1>4, <1>5, ZenonT(60)

-----------------------------------------------------------------------------
(* The invariant's steps.                                                   *)

\* What a stream holds are frames.
LEMMA ItemsType ==
  ASSUME NEW s \in Seq(ServerFrame)
  PROVE  Items(s) \subseteq ServerFrame
  BY DEF Items

\* The invariant after a step, conjunct by conjunct.
LEMMA Assembled ==
  ASSUME \A d \in Conn : Ordered(Stream(d)'),
         \A d \in Conn : \A f \in Items(Stream(d)') : Due(f)',
         \A d \in Conn : NotLost(Items(Stream(d)'), lost'),
         \A d \in Conn : \A e \in Conn \ {d} : Apart(Items(Stream(d)'), Items(Stream(e)')),
         \A c \in Conn, n \in Nat : <<c, n>> \in lost' => Sent(c, n)'
  PROVE  OrderInv'
  BY ZenonT(60) DEF OrderInv, Ordered, SameFlow, NotLost, Apart, Items, Key, Forwards, Replies

\* A step that leaves streams and losses alone keeps the invariant.
LEMMA QuietStep ==
  ASSUME Inv, OrderInv, [Next]_vars, \A d \in Conn : Stream(d)' = Stream(d), lost' = lost
  PROVE  OrderInv'
<1>1. ASSUME NEW d \in Conn, NEW f \in Items(Stream(d)) PROVE Due(f)'
  <2>1. Due(f) /\ f \in ServerFrame
    BY StreamType, ItemsType, ZenonT(60) DEF OrderInv
  <2> QED BY <2>1, DueKept, ZenonT(60)
<1>2. ASSUME NEW c \in Conn, NEW n \in Nat, <<c, n>> \in lost PROVE Sent(c, n)'
  BY <1>2, SentKept, ZenonT(60) DEF OrderInv
<1>3. \A d \in Conn : /\ Ordered(Stream(d)') /\ NotLost(Items(Stream(d)'), lost')
                      /\ \A e \in Conn \ {d} : Apart(Items(Stream(d)'), Items(Stream(e)'))
  BY ZenonT(60) DEF OrderInv
<1>4. \A d \in Conn : \A f \in Items(Stream(d)') : Due(f)'
  BY <1>1, ZenonT(60)
<1> QED BY <1>2, <1>3, <1>4, Assembled, ZenonT(60)

\* A reply comes after the replies before it.
LEMMA ReplyStep ==
  ASSUME Inv, OrderInv, [Next]_vars, NEW c \in Conn, pc[c] = "respond",
         pc'[c] \notin Unanswered, seen'[c] = seen[c], lost' = lost,
         Stream(c)' = Append(Stream(c), Reply(c)),
         \A d \in Conn \ {c} : Stream(d)' = Stream(d)
  PROVE  OrderInv'
<1>0. PICK r \in ServerFrame : r = Reply(c)
  BY ReplyType
<1>1. /\ r \in ServerFrame
      /\ r.kind \in Replies /\ r.kind \notin Forwards /\ r.src = c /\ r.n = seen[c]
  BY <1>0 DEF Reply, Replies, Forwards
<1>2. Stream(c) \in Seq(ServerFrame)
  BY StreamType, Zenon
<1>3. Items(Append(Stream(c), r)) = Items(Stream(c)) \cup {r}
  BY <1>1, <1>2, ItemsAppend, ZenonT(60)
<1>4. Stream(c)' = Append(Stream(c), r)
  BY <1>0
<1>5. \A d \in Conn : Ordered(Stream(d)')
  <2>1. ASSUME NEW g \in Items(Stream(c)), SameFlow(g, r) PROVE g.n < r.n
    <3>1. Due(g)
      BY ZenonT(60) DEF OrderInv
    <3>2. g.src = c /\ g.kind \in Replies
      BY <1>1, <2>1, ZenonT(60) DEF SameFlow
    <3> QED BY <1>1, <3>1, <3>2, ZenonT(60) DEF Due, Answered, Unanswered
  <2>2. Ordered(Append(Stream(c), r))
    BY <1>1, <1>2, <2>1, OrderedAppend, ZenonT(60) DEF OrderInv
  <2> QED BY <1>4, <2>2, ZenonT(60) DEF OrderInv
<1>6. \A d \in Conn : \A f \in Items(Stream(d)') : Due(f)'
  <2>1. ASSUME NEW d \in Conn, NEW f \in Items(Stream(d)) PROVE Due(f)'
    <3>1. Due(f) /\ f \in ServerFrame
      BY StreamType, ItemsType, ZenonT(60) DEF OrderInv
    <3> QED BY <3>1, DueKept, ZenonT(60)
  <2>2. Due(r)'
    <3>1. seen[c] \in Nat
      BY DEF Inv, TypeOK
    <3>2. seen[c] <= seen[c]
      BY <3>1
    <3> QED BY <1>1, <3>2, ZenonT(60) DEF Due, Answered, Replies
  <2> QED BY <1>3, <1>4, <2>1, <2>2, ZenonT(60)
<1>7. \A d \in Conn : \A f \in Items(Stream(d)') : f.kind \in Forwards => f \in Items(Stream(d))
  BY <1>1, <1>3, <1>4, ZenonT(60)
<1>8. \A d \in Conn : NotLost(Items(Stream(d)'), lost')
  BY <1>7, ZenonT(60) DEF NotLost, OrderInv
<1>9. \A d \in Conn : \A e \in Conn \ {d} : Apart(Items(Stream(d)'), Items(Stream(e)'))
  BY <1>7, ZenonT(60) DEF Apart, OrderInv
<1>10. \A d \in Conn, n \in Nat : <<d, n>> \in lost' => Sent(d, n)'
  BY SentKept, ZenonT(60) DEF OrderInv
<1> QED BY <1>5, <1>6, <1>8, <1>9, <1>10, Assembled, ZenonT(60)

\* Before a reader has routed its frame, no routed form of it exists anywhere.
LEMMA NoneYet ==
  ASSUME Inv, OrderInv, NEW c \in Conn, pc[c] \in Unsent
  PROVE  /\ <<c, seen[c]>> \notin lost
         /\ \A d \in Conn : \A g \in Items(Stream(d)) :
              g.kind \in Forwards /\ g.src = c => g.n < seen[c] /\ g.n # seen[c]
<1>1. seen[c] \in Nat /\ ~ (seen[c] < seen[c])
  BY DEF Inv, TypeOK
<1>2. <<c, seen[c]>> \notin lost
  BY <1>1, ZenonT(60) DEF OrderInv, Sent
<1>3. ASSUME NEW d \in Conn, NEW g \in Items(Stream(d)), g.kind \in Forwards, g.src = c
      PROVE  g.n < seen[c]
  <2>1. Due(g) /\ g.kind \notin Replies
    BY <1>3, ZenonT(60) DEF OrderInv, Forwards, Replies
  <2> QED BY <1>3, <2>1, ZenonT(60) DEF Due, Sent
<1> QED BY <1>1, <1>2, <1>3, ZenonT(60)

\* A routed frame comes after those its sender routed before, and is the only
\* routed form of the sender's frame.
LEMMA ForwardStep ==
  ASSUME Inv, OrderInv, [Next]_vars, NEW c \in Conn, NEW t \in Conn,
         pc[c] \in {"forward", "ackForward"},
         pc'[c] \notin Unsent, seen'[c] = seen[c], lost' = lost,
         Stream(t)' = Append(Stream(t), Forwarded(c)),
         \A d \in Conn \ {t} : Stream(d)' = Stream(d)
  PROVE  OrderInv'
<1>0. PICK r \in ServerFrame : r = Forwarded(c)
  BY ForwardedType
<1>1. /\ r.kind \in Forwards /\ r.kind \notin Replies /\ r.src = c /\ r.n = seen[c]
  BY <1>0 DEF Forwarded, Replies, Forwards
<1>2. Stream(t) \in Seq(ServerFrame)
  BY StreamType, ZenonT(60)
<1>3. Items(Append(Stream(t), r)) = Items(Stream(t)) \cup {r}
  BY <1>2, ItemsAppend, ZenonT(60)
<1>4. Stream(t)' = Append(Stream(t), r)
  BY <1>0
<1>5. /\ <<c, seen[c]>> \notin lost
      /\ \A d \in Conn : \A g \in Items(Stream(d)) :
           g.kind \in Forwards /\ g.src = c => g.n < seen[c] /\ g.n # seen[c]
  BY NoneYet DEF Unsent
<1>6. \A d \in Conn : Ordered(Stream(d)')
  <2>1. ASSUME NEW g \in Items(Stream(t)), SameFlow(g, r) PROVE g.n < r.n
    <3>1. g \in ServerFrame
      BY <1>2, ItemsType, ZenonT(60)
    <3>2. g.kind \in Replies \cup Forwards
      BY <3>1 DEF ServerFrame
    <3>3. g.src = c /\ g.kind \in Forwards
      BY <1>1, <2>1, <3>2, ZenonT(60) DEF SameFlow
    <3> QED BY <1>1, <1>5, <3>3, ZenonT(60)
  <2>2. Ordered(Append(Stream(t), r))
    BY <1>2, <2>1, OrderedAppend, ZenonT(60) DEF OrderInv
  <2> QED BY <1>4, <2>2, ZenonT(60) DEF OrderInv
<1>7. \A d \in Conn : \A f \in Items(Stream(d)') : Due(f)'
  <2>1. ASSUME NEW d \in Conn, NEW f \in Items(Stream(d)) PROVE Due(f)'
    <3>1. Due(f) /\ f \in ServerFrame
      BY StreamType, ItemsType, ZenonT(60) DEF OrderInv
    <3> QED BY <3>1, DueKept, ZenonT(60)
  <2>2. Due(r)'
    <3>1. seen[c] \in Nat
      BY DEF Inv, TypeOK
    <3>2. seen[c] <= seen[c]
      BY <3>1
    <3> QED BY <1>1, <3>2, ZenonT(60) DEF Due, Sent, Replies
  <2> QED BY <1>3, <1>4, <2>1, <2>2, ZenonT(60)
<1>8. \A d \in Conn : \A f \in Items(Stream(d)') : f \in Items(Stream(d)) \/ (d = t /\ f = r)
  BY <1>3, <1>4, ZenonT(60)
<1>9. \A d \in Conn : \A g \in Items(Stream(d)) : g.kind \in Forwards => Key(g) # Key(r)
  <2>1. ASSUME NEW d \in Conn, NEW g \in Items(Stream(d)), g.kind \in Forwards, Key(g) = Key(r)
        PROVE  FALSE
    <3>1. g.src = r.src /\ g.n = r.n
      BY <2>1 DEF Key
    <3> QED BY <1>1, <1>5, <2>1, <3>1, ZenonT(60)
  <2> QED BY <2>1, ZenonT(60)
<1>10. \A d \in Conn : NotLost(Items(Stream(d)'), lost')
  <2>1. Key(r) \notin lost
    BY <1>1, <1>5 DEF Key
  <2> QED BY <1>8, <2>1, ZenonT(60) DEF NotLost, OrderInv
<1>11. \A d \in Conn : \A e \in Conn \ {d} : Apart(Items(Stream(d)'), Items(Stream(e)'))
  <2> SUFFICES ASSUME NEW d \in Conn, NEW e \in Conn \ {d},
                      NEW f \in Items(Stream(d)'), NEW g \in Items(Stream(e)'),
                      f.kind \in Forwards, g.kind \in Forwards
               PROVE  Key(f) # Key(g)
    BY ZenonT(60) DEF Apart
  <2>1. CASE f \in Items(Stream(d)) /\ g \in Items(Stream(e))
    BY <2>1, ZenonT(60) DEF OrderInv, Apart
  <2>2. CASE f \in Items(Stream(d)) /\ g = r
    BY <1>9, <2>2, ZenonT(60)
  <2>3. CASE f = r /\ g \in Items(Stream(e))
    BY <1>9, <2>3, ZenonT(60)
  <2> QED BY <1>8, <2>1, <2>2, <2>3, ZenonT(60)
<1>12. \A d \in Conn, n \in Nat : <<d, n>> \in lost' => Sent(d, n)'
  BY SentKept, ZenonT(60) DEF OrderInv
<1> QED BY <1>6, <1>7, <1>10, <1>11, <1>12, Assembled, ZenonT(60)

\* A frame whose recipient is gone was in no stream.
LEMMA LossStep ==
  ASSUME Inv, OrderInv, [Next]_vars, NEW c \in Conn, pc[c] \in Unsent,
         pc'[c] \notin Unsent, seen'[c] = seen[c], lost' = lost \cup {<<c, seen[c]>>},
         \A d \in Conn : Stream(d)' = Stream(d)
  PROVE  OrderInv'
<1>1. \A d \in Conn : \A g \in Items(Stream(d)) :
        g.kind \in Forwards /\ g.src = c => g.n # seen[c]
  BY NoneYet, ZenonT(60)
<1>2. ASSUME NEW d \in Conn, NEW f \in Items(Stream(d)) PROVE Due(f)'
  <2>1. Due(f) /\ f \in ServerFrame
    BY StreamType, ItemsType, ZenonT(60) DEF OrderInv
  <2> QED BY <2>1, DueKept, ZenonT(60)
<1>3. \A d \in Conn : NotLost(Items(Stream(d)), lost')
  <2>1. ASSUME NEW d \in Conn, NEW g \in Items(Stream(d)), g.kind \in Forwards
        PROVE  Key(g) # <<c, seen[c]>>
    BY <1>1, <2>1 DEF Key
  <2> QED BY <2>1, ZenonT(60) DEF NotLost, OrderInv
<1>4. \A d \in Conn, n \in Nat : <<d, n>> \in lost' => Sent(d, n)'
  <2>1. ASSUME NEW d \in Conn, NEW n \in Nat, <<d, n>> = <<c, seen[c]>> PROVE Sent(d, n)'
    <3>1. d = c /\ n = seen[c] /\ n <= n
      BY <2>1
    <3> QED BY <3>1, ZenonT(60) DEF Sent
  <2> QED BY <2>1, SentKept, ZenonT(60) DEF OrderInv
<1>5. \A d \in Conn : /\ Ordered(Stream(d)') /\ NotLost(Items(Stream(d)'), lost')
                      /\ \A e \in Conn \ {d} : Apart(Items(Stream(d)'), Items(Stream(e)'))
  BY <1>3, ZenonT(60) DEF OrderInv
<1>6. \A d \in Conn : \A f \in Items(Stream(d)') : Due(f)'
  BY <1>2, ZenonT(60)
<1> QED BY <1>4, <1>5, <1>6, Assembled, ZenonT(60)

\* What a failing writer drops is in no stream afterwards, its own included.
LEMMA FailStep ==
  ASSUME Inv, OrderInv, [Next]_vars, NEW c \in Conn, WriterFail(c)
  PROVE  OrderInv'
<1> DEFINE rest == Held(c) \o queue[c]
           gone == {g \in Pending(c) : g.kind \in Forwards}
<1>1. /\ delivered[c] \in Seq(ServerFrame) /\ rest \in Seq(ServerFrame)
      /\ Stream(c) = delivered[c] \o rest
  BY StreamType, ZenonT(60)
<1>2. Pending(c) = Items(rest)
  BY PendingItems, ZenonT(60) DEF WriterFail
<1>3. lost' = lost \cup {<<f.src, f.n>> : f \in gone}
  BY ZenonT(60) DEF WriterFail
<1>4. Stream(c)' = delivered[c] /\ \A d \in Conn \ {c} : Stream(d)' = Stream(d)
  BY StreamCut, ZenonT(60)
<1>5. Ordered(delivered[c] \o rest)
  BY <1>1, ZenonT(60) DEF OrderInv
<1>6. /\ Ordered(delivered[c])
      /\ Items(delivered[c]) \subseteq Items(Stream(c)) /\ Items(rest) \subseteq Items(Stream(c))
      /\ Apart(Items(delivered[c]), Items(rest))
  <2> HIDE DEF rest
  <2> QED BY <1>1, <1>5, OrderedCut, ZenonT(60)
<1> HIDE DEF rest
<1>7. \A d \in Conn : Items(Stream(d)') \subseteq Items(Stream(d))
  BY <1>4, <1>6, ZenonT(60)
<1>8. \A d \in Conn : Ordered(Stream(d)')
  BY <1>4, <1>6, ZenonT(60) DEF OrderInv
<1>9. \A d \in Conn : \A f \in Items(Stream(d)') : Due(f)'
  <2>1. ASSUME NEW d \in Conn, NEW f \in Items(Stream(d)) PROVE Due(f)'
    <3>1. Due(f) /\ f \in ServerFrame
      BY StreamType, ItemsType, ZenonT(60) DEF OrderInv
    <3> QED BY <3>1, DueKept, ZenonT(60)
  <2> QED BY <1>7, <2>1, ZenonT(60)
<1>10. \A d \in Conn : \A e \in Conn \ {d} : Apart(Items(Stream(d)'), Items(Stream(e)'))
  BY <1>7, ZenonT(60) DEF Apart, OrderInv
<1>11. \A d \in Conn : Apart(Items(Stream(d)'), gone)
  <2>1. gone \subseteq Items(rest)
    BY <1>2, ZenonT(60)
  <2>2. CASE \A d \in Conn : Apart(Items(Stream(d)'), Items(rest))
    BY <2>1, <2>2, ZenonT(60) DEF Apart
  <2>3. Apart(Items(Stream(c)'), Items(rest))
    BY <1>4, <1>6, ZenonT(60)
  <2>4. ASSUME NEW d \in Conn \ {c} PROVE Apart(Items(Stream(d)'), Items(rest))
    BY <1>4, <1>6, ZenonT(60) DEF Apart, OrderInv
  <2> QED BY <2>2, <2>3, <2>4, ZenonT(60)
<1>12. \A d \in Conn : NotLost(Items(Stream(d)'), lost')
  <2> SUFFICES ASSUME NEW d \in Conn, NEW f \in Items(Stream(d)'), f.kind \in Forwards,
                      Key(f) \in lost'
               PROVE  FALSE
    BY ZenonT(60) DEF NotLost
  <2>1. Key(f) \notin lost
    BY <1>7, ZenonT(60) DEF OrderInv, NotLost
  <2>2. PICK g \in gone : Key(f) = <<g.src, g.n>>
    BY <1>3, <2>1, ZenonT(60)
  <2>3. Key(f) = Key(g) /\ g.kind \in Forwards
    BY <2>2 DEF Key
  <2> QED BY <1>11, <2>2, <2>3, ZenonT(60) DEF Apart
<1>13. \A d \in Conn, n \in Nat : <<d, n>> \in lost' => Sent(d, n)'
  <2> SUFFICES ASSUME NEW d \in Conn, NEW n \in Nat, <<d, n>> \in lost' PROVE Sent(d, n)
    BY SentKept, ZenonT(60)
  <2>1. CASE <<d, n>> \in lost
    BY <2>1, ZenonT(60) DEF OrderInv
  <2>2. CASE <<d, n>> \notin lost
    <3>1. PICK g \in gone : <<d, n>> = <<g.src, g.n>>
      BY <1>3, <2>2, ZenonT(60)
    <3>2. g \in Items(Stream(c)) /\ g.kind \in Forwards
      BY <1>2, <1>6, ZenonT(60)
    <3>3. Due(g) /\ g.kind \notin Replies
      BY <3>2, ZenonT(60) DEF OrderInv, Forwards, Replies
    <3>4. d = g.src /\ n = g.n
      BY <3>1
    <3> QED BY <3>3, <3>4, ZenonT(60) DEF Due
  <2> QED BY <2>1, <2>2
<1> QED BY <1>8, <1>9, <1>10, <1>12, <1>13, Assembled, ZenonT(60)

\* Every step keeps the invariant.
LEMMA OrderStep ==
  ASSUME Inv, OrderInv, [Next]_vars
  PROVE  OrderInv'
<1> USE DEF lockVars, readerVars, writerVars
<1>1. ASSUME UNCHANGED <<queue, inflight, delivered, lost>> PROVE OrderInv'
  <2>1. \A d \in Conn : Stream(d)' = Stream(d)
    BY <1>1, ZenonT(60) DEF Stream
  <2> QED BY <1>1, <2>1, QuietStep, ZenonT(60)
<1>2. ASSUME NEW c \in Conn, ClientStep(c) PROVE OrderInv'
  BY <1>1, <1>2, ZenonT(60)
     DEF ClientStep, StartSession, ReadRegistration, ReadRouted, ReadAnswered,
         ReadDropped, ReadEof, ReadError, Read
<1>3. ASSUME NEW c \in Conn, Register(c) \/ Unregister(c) \/ Evict(c) \/ LookupMiss(c)
                               \/ LookupHit(c) \/ Drained(c)
      PROVE  OrderInv'
  BY <1>1, <1>3, ZenonT(60)
     DEF Register, Unregister, Evict, LookupMiss, LookupHit, Drained
<1>4. ASSUME NEW c \in Conn, Respond(c) PROVE OrderInv'
  <2>1. /\ pc[c] = "respond" /\ UNCHANGED <<seen, lost, inflight, delivered>>
        /\ pc' = [pc EXCEPT ![c] = "forward"] \/ pc' = [pc EXCEPT ![c] = "reading"]
        /\ Push(c, Reply(c)) \/ UNCHANGED queue
    BY <1>4, ZenonT(60) DEF Respond, Resume
  <2>2. pc'[c] \notin Unanswered
    BY <2>1 DEF Inv, TypeOK, Unanswered
  <2>3. CASE UNCHANGED queue
    BY <1>1, <2>1, <2>3, ZenonT(60)
  <2>4. CASE Push(c, Reply(c))
    <3>1. Reply(c) \in ServerFrame
      BY <2>1, ReplyType, ZenonT(60)
    <3>2. /\ Stream(c)' = Append(Stream(c), Reply(c))
          /\ \A d \in Conn \ {c} : Stream(d)' = Stream(d)
      BY <2>1, <2>4, <3>1, StreamPush, ZenonT(60)
    <3> QED BY <2>1, <2>2, <3>2, ReplyStep, ZenonT(60)
  <2> QED BY <2>1, <2>3, <2>4
<1>5. ASSUME NEW c \in Conn, ForwardOk(c) \/ AckForward(c) PROVE OrderInv'
  <2>1. /\ pc[c] \in {"forward", "ackForward"} /\ UNCHANGED <<seen, inflight, delivered>>
        /\ pc' = [pc EXCEPT ![c] = "reading"]
        /\ \/ Push(target[c].connection_id, Forwarded(c)) /\ UNCHANGED lost
           \/ UNCHANGED queue /\ lost' = lost \cup {<<c, seen[c]>>}
    BY <1>5, ZenonT(60) DEF ForwardOk, AckForward, Resume
  <2>2. pc'[c] \notin Unsent /\ pc[c] \in Unsent
    BY <2>1, SMTT(60) DEF Inv, TypeOK, Unsent
  <2>3. target[c].connection_id \in Conn
    BY <2>1, Zenon DEF Inv, ReaderContext, RouteEntry
  <2>4. CASE Push(target[c].connection_id, Forwarded(c)) /\ UNCHANGED lost
    <3>1. Forwarded(c) \in ServerFrame
      BY <2>1, ForwardedType, ZenonT(60)
    <3>2. PICK t \in Conn : t = target[c].connection_id
      BY <2>3
    <3>3. Push(t, Forwarded(c))
      BY <2>4, <3>2
    <3>4. /\ Stream(t)' = Append(Stream(t), Forwarded(c))
          /\ \A d \in Conn \ {t} : Stream(d)' = Stream(d)
      BY <2>1, <3>1, <3>3, StreamPush, ZenonT(60)
    <3> QED BY <2>1, <2>2, <2>4, <3>4, ForwardStep, ZenonT(60)
  <2>5. CASE UNCHANGED queue /\ lost' = lost \cup {<<c, seen[c]>>}
    <3>1. \A d \in Conn : Stream(d)' = Stream(d)
      BY <2>1, <2>5, ZenonT(60) DEF Stream
    <3> QED BY <2>1, <2>2, <2>5, <3>1, LossStep, ZenonT(60)
  <2> QED BY <2>1, <2>4, <2>5
<1>6. ASSUME NEW c \in Conn, ForwardFailed(c) PROVE OrderInv'
  <2>1. /\ pc[c] = "forward" /\ pc' = [pc EXCEPT ![c] = "evict"]
        /\ UNCHANGED <<seen, queue, inflight, delivered>>
        /\ lost' = lost \cup {<<c, seen[c]>>}
    BY <1>6, ZenonT(60) DEF ForwardFailed
  <2>2. pc'[c] \notin Unsent /\ pc[c] \in Unsent
    BY <2>1 DEF Inv, TypeOK, Unsent
  <2>3. \A d \in Conn : Stream(d)' = Stream(d)
    BY <2>1, ZenonT(60) DEF Stream
  <2> QED BY <2>1, <2>2, <2>3, LossStep, ZenonT(60)
<1>7. ASSUME NEW c \in Conn, WriterRecv(c) \/ WriterWrite(c) \/ WriterEnd(c) PROVE OrderInv'
  <2>1. UNCHANGED lost
    BY <1>7, ZenonT(60) DEF WriterRecv, WriterWrite, WriterEnd
  <2> QED BY <1>7, <2>1, StreamMove, QuietStep, ZenonT(60)
<1>8. ASSUME NEW c \in Conn, WriterFail(c) PROVE OrderInv'
  BY <1>8, FailStep, ZenonT(60)
<1>9. ASSUME UNCHANGED vars PROVE OrderInv'
  BY <1>1, <1>9, ZenonT(60) DEF vars
<1>10. ASSUME NEW c \in Conn, ReaderStep(c) PROVE OrderInv'
  BY <1>3, <1>4, <1>5, <1>6, <1>10, ZenonT(60) DEF ReaderStep
<1> QED BY <1>2, <1>7, <1>8, <1>9, <1>10, ZenonT(60) DEF Next, WriterStep, AllClosed

\* What one connection sends to another arrives in order and at most once; so do
\* the replies to its requests; a message is never queued for two connections,
\* and none that was dropped with a stopped writer is still queued or delivered
\* (reader and writer task of handle_routed_noise_session,
\* src/server/routed_listener.rs).
THEOREM DeliveredInOrder == Spec => []InOrderOnce
<1>1. Init => OrderInv
  <2> SUFFICES ASSUME Init PROVE OrderInv
    OBVIOUS
  <2>1. \A d \in Conn : delivered[d] = <<>> /\ inflight[d] = None /\ queue[d] = <<>>
    BY DEF Init
  <2>2. (<<>> \o <<>>) \o <<>> = <<>>
    OBVIOUS
  <2>3. \A d \in Conn : Stream(d) = <<>>
    BY <2>1, <2>2, ZenonT(60) DEF Stream
  <2>4. Items(<<>>) = {} /\ Ordered(<<>>)
    BY DEF Items, Ordered
  <2>5. lost = {}
    BY DEF Init
  <2> QED BY <2>3, <2>4, <2>5, ZenonT(60) DEF OrderInv, NotLost, Apart
<1>2. Inv /\ OrderInv /\ [Next]_vars => OrderInv'
  BY OrderStep
<1>3. OrderInv => InOrderOnce
  BY ZenonT(60) DEF OrderInv, InOrderOnce, Ordered, Routed, Items, NotLost, Apart, Key
<1> QED BY <1>1, <1>2, <1>3, InvHolds, PTL DEF Spec

=============================================================================
