--------------------------- MODULE ListenerProofs ---------------------------
(***************************************************************************)
(* The permits of the accept loops add up, for any number of connections   *)
(* and permits.                                                            *)
(***************************************************************************)
EXTENDS RelayListener, FiniteSetTheorems, TLAPS

Busy == {c \in Conn : Handled(c)}

\* Where a connection that has no handler yet is kept: a stream in the backlog or
\* in hand is no handler's, so that a permit is taken for one that had none.
Waiting ==
  /\ \A i \in DOMAIN backlog : stage[backlog[i]] = "backlog"
  /\ \A i, j \in DOMAIN backlog : i # j => backlog[i] # backlog[j]
  /\ inHand # None => stage[inHand] = "accepted"

\* The inductive invariant.
ListenerInv == TypeOK /\ Waiting /\ PermitsAccounted

\* The set of handlers is finite, however many connections there are.
LEMMA BusyFinite == IsFiniteSet(Busy) /\ Cardinality(Busy) \in Nat
  BY ListenerAssumption, FS_Subset, FS_CardinalityType DEF Busy

\* A connection that gets a handler counts once.
LEMMA BusyGrows ==
  ASSUME TypeOK, NEW c \in Conn, ~ Handled(c), Move(c, "intake")
  PROVE  Cardinality(Busy') = Cardinality(Busy) + 1
<1>1. Busy' = Busy \cup {c}
  BY DEF Busy, Handled, Move, TypeOK
<1>2. c \notin Busy
  BY DEF Busy
<1> QED BY <1>1, <1>2, BusyFinite, FS_AddElement

\* One whose handler returns counts no longer.
LEMMA BusyShrinks ==
  ASSUME TypeOK, NEW c \in Conn, Handled(c), NEW next \in Stages \ {"intake", "session"},
         Move(c, next)
  PROVE  Cardinality(Busy') = Cardinality(Busy) - 1
<1>1. Busy' = Busy \ {c}
  BY DEF Busy, Handled, Move, TypeOK
<1>2. c \in Busy
  BY DEF Busy
<1> QED BY <1>1, <1>2, BusyFinite, FS_RemoveElement, Zenon

\* Any other move leaves the handlers as they are.
LEMMA BusyKept ==
  ASSUME TypeOK, NEW c \in Conn, NEW next \in Stages,
         stage[c] \in {"intake", "session"} <=> next \in {"intake", "session"},
         Move(c, next)
  PROVE  Busy' = Busy
  BY DEF Busy, Handled, Move, TypeOK

\* The head of the backlog is a connection without a handler, and what is left
\* keeps its places.
LEMMA TakeHead ==
  ASSUME TypeOK, Waiting, backlog # <<>>, NEW next \in Stages, Move(Head(backlog), next),
         backlog' = Tail(backlog)
  PROVE  /\ Head(backlog) \in Conn /\ stage[Head(backlog)] = "backlog"
         /\ backlog' \in Seq(Conn)
         /\ \A i \in DOMAIN backlog' : stage'[backlog'[i]] = "backlog"
         /\ \A i, j \in DOMAIN backlog' : i # j => backlog'[i] # backlog'[j]
<1>1. /\ Len(backlog) \in Nat \ {0} /\ DOMAIN backlog = 1 .. Len(backlog)
      /\ Head(backlog) = backlog[1] /\ Head(backlog) \in Conn
      /\ Tail(backlog) \in Seq(Conn)
      /\ DOMAIN Tail(backlog) = 1 .. Len(backlog) - 1
      /\ \A i \in 1 .. Len(backlog) - 1 : Tail(backlog)[i] = backlog[i + 1]
  BY DEF TypeOK
<1>2. \A i \in 1 .. Len(backlog) - 1 :
        /\ i + 1 \in DOMAIN backlog /\ backlog[i + 1] \in Conn
        /\ backlog[i + 1] # backlog[1] /\ stage[backlog[i + 1]] = "backlog"
  BY <1>1 DEF Waiting, TypeOK
<1>3. \A d \in Conn : d # Head(backlog) => stage'[d] = stage[d]
  BY DEF Move, TypeOK
<1>4. \A i \in DOMAIN backlog' : stage'[backlog'[i]] = "backlog"
  BY <1>1, <1>2, <1>3
<1>5. \A i, j \in DOMAIN backlog' : i # j => backlog'[i] # backlog'[j]
  <2>1. SUFFICES ASSUME NEW i \in 1 .. Len(backlog) - 1, NEW j \in 1 .. Len(backlog) - 1,
                        i # j
                 PROVE  backlog[i + 1] # backlog[j + 1]
    BY <1>1
  <2>2. i + 1 \in DOMAIN backlog /\ j + 1 \in DOMAIN backlog
    BY <1>2
  <2>3. i + 1 # j + 1
    BY <2>1
  <2> QED BY <2>2, <2>3 DEF Waiting
<1> QED BY <1>1, <1>4, <1>5 DEF Waiting

\* A move of a connection that is neither in the backlog nor in hand.
LEMMA WaitingKept ==
  ASSUME TypeOK, Waiting, NEW c \in Conn, stage[c] \notin {"backlog", "accepted"},
         NEW next \in Stages, Move(c, next), UNCHANGED <<backlog, inHand>>
  PROVE  Waiting'
<1>1. \A d \in Conn : d # c => stage'[d] = stage[d]
  BY DEF Move, TypeOK
<1>2. \A i \in DOMAIN backlog : backlog[i] \in Conn /\ backlog[i] # c
  BY DEF TypeOK, Waiting
<1>3. inHand # None => inHand \in Conn /\ inHand # c
  BY DEF TypeOK, Waiting
<1> QED BY <1>1, <1>2, <1>3 DEF Waiting

\* The actions of the loop keep the invariant.
LEMMA LoopInv ==
  ASSUME ListenerInv, LoopStep
  PROVE  ListenerInv'
<1> USE DEF ListenerInv, watchVars
<1>1. Cardinality(Busy) \in Nat /\ permits + Cardinality(Busy) = MaxConnections
      /\ MaxConnections \in Nat /\ permits \in Nat
  BY BusyFinite, ListenerAssumption DEF PermitsAccounted, Busy, TypeOK
<1>2. SUFFICES /\ TypeOK' /\ Waiting'
               /\ permits' + Cardinality(Busy') = MaxConnections
  BY DEF PermitsAccounted, Busy
<1>3. CASE Accept
  <2> DEFINE c == Head(backlog)
  <2>1. PICK next \in {"intake", "accepted"} : Move(c, next)
    BY <1>3 DEF Accept
  <2>2. backlog # <<>> /\ backlog' = Tail(backlog) /\ loop = "accept" /\ inHand = None
    BY <1>3 DEF Accept, TypeOK
  <2>3. /\ c \in Conn /\ stage[c] = "backlog" /\ backlog' \in Seq(Conn)
        /\ \A i \in DOMAIN backlog' : stage'[backlog'[i]] = "backlog"
        /\ \A i, j \in DOMAIN backlog' : i # j => backlog'[i] # backlog'[j]
    BY <2>1, <2>2, TakeHead DEF Stages
  <2>4. CASE permits' = permits - 1 /\ permits > 0 /\ Move(c, "intake")
             /\ UNCHANGED <<loop, inHand>>
    <3>1. Cardinality(Busy') = Cardinality(Busy) + 1
      BY <2>3, <2>4, BusyGrows DEF Handled
    <3>2. stage' \in [Conn -> Stages]
      BY <2>4, Zenon DEF Move, TypeOK, Stages
    <3> QED BY <1>1, <1>3, <2>2, <2>3, <2>4, <3>1, <3>2 DEF Accept, TypeOK, Waiting
  <2>5. CASE loop' = "permit" /\ inHand' = c /\ Move(c, "accepted") /\ UNCHANGED permits
    <3>1. Busy' = Busy
      BY <2>3, <2>5, BusyKept DEF Stages
    <3>2. stage' \in [Conn -> Stages] /\ stage'[c] = "accepted"
      BY <2>3, <2>5 DEF Move, TypeOK, Stages
    <3>3. Waiting'
      BY <2>3, <2>5, <3>2 DEF Waiting
    <3> QED
      BY <1>1, <1>3, <2>3, <2>5, <3>1, <3>2, <3>3, ListenerAssumption DEF Accept, TypeOK
  <2> QED BY <1>3, <2>4, <2>5 DEF Accept
<1>4. CASE AcceptShutdown
  <2>1. Busy' = Busy
    BY <1>4 DEF AcceptShutdown, Busy, Handled
  <2> QED BY <1>1, <1>4, <2>1, Zenon DEF AcceptShutdown, TypeOK, Waiting
<1>5. CASE Acquire
  <2>1. inHand \in Conn /\ stage[inHand] = "accepted"
    BY <1>5 DEF Acquire, TypeOK, Waiting
  <2>2. Cardinality(Busy') = Cardinality(Busy) + 1
    BY <1>5, <2>1, BusyGrows DEF Acquire, Handled
  <2>3. stage' \in [Conn -> Stages] /\ \A d \in Conn : d # inHand => stage'[d] = stage[d]
    BY <1>5 DEF Acquire, Move, TypeOK, Stages
  <2>4. \A i \in DOMAIN backlog : backlog[i] \in Conn /\ backlog[i] # inHand
    BY <2>1 DEF TypeOK, Waiting
  <2>5. Waiting'
    BY <1>5, <2>3, <2>4 DEF Acquire, Waiting
  <2>6. permits' = permits - 1 /\ permits > 0
    BY <1>5 DEF Acquire
  <2>7. permits' \in 0 .. MaxConnections
    BY <1>1, <2>6
  <2>8. TypeOK'
    BY <1>5, <2>3, <2>7 DEF Acquire, TypeOK
  <2> QED BY <1>1, <2>2, <2>5, <2>6, <2>8
<1>6. CASE PermitShutdown
  <2>1. inHand \in Conn /\ stage[inHand] = "accepted"
    BY <1>6 DEF PermitShutdown, TypeOK, Waiting
  <2>2. Busy' = Busy
    BY <1>6, <2>1, BusyKept DEF PermitShutdown, Stages
  <2>3. stage' \in [Conn -> Stages] /\ \A d \in Conn : d # inHand => stage'[d] = stage[d]
    BY <1>6 DEF PermitShutdown, Move, TypeOK, Stages
  <2>4. \A i \in DOMAIN backlog : backlog[i] \in Conn /\ backlog[i] # inHand
    BY <2>1 DEF TypeOK, Waiting
  <2>5. Waiting'
    BY <1>6, <2>3, <2>4 DEF PermitShutdown, Waiting
  <2> QED BY <1>1, <1>6, <2>2, <2>3, <2>5, Zenon DEF PermitShutdown, TypeOK
<1>7. CASE Exit
  <2>1. /\ loop = "stopped" /\ inHand = None /\ inHand' = None /\ backlog' = <<>>
        /\ loop' = "exited" /\ UNCHANGED <<legacy, signal, unseen, senderAlive>>
    BY <1>7 DEF Exit, TypeOK
  <2>2. Waiting'
    BY <2>1 DEF Waiting
  <2>3. stage' \in [Conn -> Stages]
    BY <1>7 DEF Exit, TypeOK, Stages
  <2>4. CASE legacy
    <3>1. Busy' = Busy
      BY <1>7, <2>4 DEF Exit, Busy, Handled, TypeOK
    <3>2. permits' = permits
      BY <1>7, <2>4 DEF Exit
    <3> QED BY <1>1, <2>1, <2>2, <2>3, <3>1, <3>2, SMTT(60) DEF TypeOK
  <2>5. CASE ~ legacy
    <3>1. Busy' = {}
      BY <1>7, <2>5 DEF Exit, Busy, Handled, TypeOK, Stages
    <3>2. Cardinality(Busy') = 0
      BY <3>1, FS_EmptySet
    <3>3. permits' = MaxConnections
      BY <1>7, <2>5 DEF Exit
    <3> QED BY <1>1, <2>1, <2>2, <2>3, <3>2, <3>3, SMTT(60) DEF TypeOK
  <2> QED BY <2>4, <2>5
<1> QED BY <1>3, <1>4, <1>5, <1>6, <1>7 DEF LoopStep

\* So do those of clients, of the signal's task and of the handlers.
LEMMA HandlerInv ==
  ASSUME ListenerInv, NEW c \in Conn,
         Connect(c) \/ IntakeStep(c) \/ SessionEnds(c) \/ OrphanEnds(c)
  PROVE  ListenerInv'
<1> USE DEF ListenerInv, watchVars
<1>1. Cardinality(Busy) \in Nat /\ permits + Cardinality(Busy) = MaxConnections
      /\ MaxConnections \in Nat /\ permits \in Nat
  BY BusyFinite, ListenerAssumption DEF PermitsAccounted, Busy, TypeOK
<1>2. SUFFICES /\ TypeOK' /\ Waiting'
               /\ permits' + Cardinality(Busy') = MaxConnections
  BY DEF PermitsAccounted, Busy
<1>3. CASE Connect(c)
  <2>1. /\ stage[c] = "idle" /\ backlog' = Append(backlog, c) /\ Move(c, "backlog")
        /\ UNCHANGED <<legacy, loop, inHand, permits, watchVars>>
    BY <1>3 DEF Connect
  <2>2. Busy' = Busy
    BY <2>1, BusyKept DEF Stages
  <2>3. /\ stage' \in [Conn -> Stages] /\ stage'[c] = "backlog"
        /\ \A d \in Conn : d # c => stage'[d] = stage[d]
    BY <2>1 DEF Move, TypeOK, Stages
  <2>4. /\ Len(backlog) \in Nat /\ DOMAIN backlog = 1 .. Len(backlog)
        /\ backlog' \in Seq(Conn) /\ DOMAIN backlog' = 1 .. Len(backlog) + 1
        /\ \A i \in 1 .. Len(backlog) : backlog'[i] = backlog[i]
        /\ backlog'[Len(backlog) + 1] = c
    BY <2>1 DEF TypeOK
  <2>5. \A i \in DOMAIN backlog :
          backlog[i] \in Conn /\ backlog[i] # c /\ stage'[backlog[i]] = "backlog"
    BY <2>1, <2>3 DEF TypeOK, Waiting
  <2>6. \A i \in DOMAIN backlog' : i \in DOMAIN backlog \/ i = Len(backlog) + 1
    BY <2>4
  <2>7. \A i \in DOMAIN backlog' : stage'[backlog'[i]] = "backlog"
    BY <2>3, <2>4, <2>5, <2>6, SMTT(60)
  <2>8. \A i, j \in DOMAIN backlog' : i # j => backlog'[i] # backlog'[j]
    BY <2>4, <2>5, <2>6 DEF Waiting
  <2>9. inHand' # None => stage'[inHand'] = "accepted"
    BY <2>1, <2>3 DEF Waiting, TypeOK
  <2> QED BY <1>1, <2>1, <2>2, <2>3, <2>4, <2>7, <2>8, <2>9, SMTT(60) DEF TypeOK, Waiting
<1>4. CASE Establish(c)
  <2>1. /\ stage[c] = "intake" /\ Move(c, "session")
        /\ UNCHANGED <<legacy, loop, backlog, inHand, permits, watchVars>>
    BY <1>4 DEF Establish
  <2>2. Busy' = Busy /\ Waiting'
    BY <2>1, BusyKept, WaitingKept DEF Stages
  <2> QED BY <1>1, <2>1, <2>2 DEF TypeOK, Move, Stages
<1>5. CASE OrphanEnds(c)
  <2>1. /\ stage[c] = "orphan" /\ Move(c, "closed")
        /\ UNCHANGED <<legacy, loop, backlog, inHand, permits, watchVars>>
    BY <1>5 DEF OrphanEnds
  <2>2. Busy' = Busy /\ Waiting'
    BY <2>1, BusyKept, WaitingKept DEF Stages
  <2> QED BY <1>1, <2>1, <2>2 DEF TypeOK, Move, Stages
<1>6. CASE IntakeEnds(c) \/ SessionEnds(c)
  <2>1. /\ stage[c] \in {"intake", "session"} /\ permits' = permits + 1
        /\ UNCHANGED <<legacy, loop, backlog, inHand, watchVars>>
    BY <1>6 DEF IntakeEnds, SessionEnds, Release
  <2>2. PICK next \in {"closed", "orphan"} : Move(c, next)
    BY <1>6 DEF IntakeEnds, SessionEnds
  <2>3. Cardinality(Busy') = Cardinality(Busy) - 1
    BY <2>1, <2>2, BusyShrinks DEF Handled, Stages
  <2>4. Waiting'
    BY <2>1, <2>2, WaitingKept DEF Stages
  <2>5. stage' \in [Conn -> Stages]
    BY <2>2 DEF Move, TypeOK, Stages
  <2>6. IsFiniteSet(Busy') /\ Cardinality(Busy') \in Nat
    BY ListenerAssumption, FS_Subset, FS_CardinalityType DEF Busy
  <2>7. permits' \in 0 .. MaxConnections
    BY <1>1, <2>1, <2>3, <2>6
  <2>8. TypeOK'
    BY <2>1, <2>5, <2>7 DEF TypeOK
  <2> QED BY <1>1, <2>1, <2>3, <2>4, <2>8
<1> QED BY <1>3, <1>4, <1>5, <1>6 DEF IntakeStep

\* The invariant holds for any number of connections and permits.
LEMMA ListenerInvHolds == Spec => []ListenerInv
<1>1. Init => ListenerInv
  <2> SUFFICES ASSUME Init PROVE ListenerInv
    OBVIOUS
  <2>1. Busy = {}
    BY DEF Init, Busy, Handled
  <2>2. Cardinality(Busy) = 0
    BY <2>1, FS_EmptySet
  <2>3. PermitsAccounted <=> permits + Cardinality(Busy) = MaxConnections
    BY DEF PermitsAccounted, Busy
  <2>4. permits = MaxConnections /\ MaxConnections \in Nat
    BY ListenerAssumption DEF Init
  <2>5. TypeOK
    <3>1. permits \in 0 .. MaxConnections
      BY <2>4
    <3>2. stage \in [Conn -> Stages] /\ backlog \in Seq(Conn)
      BY DEF Init, Stages
    <3>3. legacy \in BOOLEAN /\ signal \in BOOLEAN /\ unseen \in BOOLEAN /\ senderAlive \in BOOLEAN
      BY Zenon DEF Init
    <3>4. loop = "accept" /\ inHand = None
      BY DEF Init
    <3> QED BY <3>1, <3>2, <3>3, <3>4 DEF TypeOK
  <2>6. Waiting
    BY DEF Init, Waiting
  <2> QED BY <2>2, <2>3, <2>4, <2>5, <2>6 DEF ListenerInv
<1>2. ListenerInv /\ [Next]_vars => ListenerInv'
  <2> SUFFICES ASSUME ListenerInv, [Next]_vars PROVE ListenerInv'
    OBVIOUS
  <2>1. CASE LoopStep
    BY <2>1, LoopInv
  <2>2. CASE \E c \in Conn : Connect(c) \/ IntakeStep(c) \/ SessionEnds(c) \/ OrphanEnds(c)
    BY <2>2, HandlerInv
  <2>3. CASE SignalShutdown \/ SignalTaskEnds \/ Idle \/ UNCHANGED vars
    <3>1. UNCHANGED <<legacy, loop, backlog, inHand, permits, stage>>
          /\ signal' \in BOOLEAN /\ unseen' \in BOOLEAN /\ senderAlive' \in BOOLEAN
      BY <2>3, Zenon DEF SignalShutdown, SignalTaskEnds, Idle, vars, ListenerInv, TypeOK
    <3> QED BY <3>1 DEF ListenerInv, TypeOK, Waiting, PermitsAccounted, Handled
  <2> QED BY <2>1, <2>2, <2>3 DEF Next
<1> QED BY <1>1, <1>2, PTL DEF Spec

\* For any number of connections, any max_connections and either listener: no
\* path of a handler or of the loop loses a permit or returns one twice.
THEOREM PermitsHold == Spec => []PermitsAccounted
<1>1. ListenerInv => PermitsAccounted
  BY DEF ListenerInv
<1> QED BY <1>1, ListenerInvHolds, PTL

\* Whatever the load, a connection is refused only once the shutdown task is over.
THEOREM NeverRefusedForLoad == Spec => []RefusedOnlyAtShutdown
<1> DEFINE R == RefusedOnlyAtShutdown /\ (signal \/ unseen => ~ senderAlive)
<1>1. Init => R
  BY DEF Init, RefusedOnlyAtShutdown
<1>2. ListenerInv /\ R /\ [Next]_vars => R'
  <2> SUFFICES ASSUME ListenerInv, R, [Next]_vars PROVE R'
    OBVIOUS
  <2>0. /\ stage \in [Conn -> Stages]
        /\ loop = "permit" => inHand \in Conn
        /\ backlog # <<>> => Head(backlog) \in Conn
    BY DEF ListenerInv, TypeOK
  <2> USE DEF RefusedOnlyAtShutdown, watchVars
  <2>1. CASE Accept \/ AcceptShutdown \/ Acquire
    <3>1. UNCHANGED senderAlive /\ (signal' \/ unseen' => signal \/ unseen)
      BY <2>1 DEF Accept, AcceptShutdown, Acquire
    <3>2. \A d \in Conn : stage'[d] = "refused" => stage[d] = "refused"
      BY <2>0, <2>1 DEF Accept, AcceptShutdown, Acquire, Move
    <3> QED BY <3>1, <3>2
  <2>2. CASE PermitShutdown
    BY <2>2 DEF PermitShutdown
  <2>3. CASE Exit
    BY <2>0, <2>3 DEF Exit
  <2>4. ASSUME NEW c \in Conn,
               Connect(c) \/ IntakeStep(c) \/ SessionEnds(c) \/ OrphanEnds(c)
        PROVE  R'
    <3>1. UNCHANGED <<signal, unseen, senderAlive>>
      BY <2>4 DEF Connect, IntakeStep, Establish, IntakeEnds, SessionEnds, OrphanEnds
    <3>2. \A d \in Conn : stage'[d] = "refused" => stage[d] = "refused"
      BY <2>0, <2>4 DEF Connect, IntakeStep, Establish, IntakeEnds, SessionEnds,
                        OrphanEnds, Move
    <3> QED BY <3>1, <3>2
  <2>5. CASE SignalShutdown \/ SignalTaskEnds \/ Idle \/ UNCHANGED vars
    BY <2>5 DEF SignalShutdown, SignalTaskEnds, Idle, vars
  <2> QED BY <2>1, <2>2, <2>3, <2>4, <2>5 DEF Next, LoopStep
<1> QED BY <1>1, <1>2, ListenerInvHolds, PTL DEF Spec

=============================================================================
