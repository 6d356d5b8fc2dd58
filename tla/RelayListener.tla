--------------------------- MODULE RelayListener ---------------------------
(***************************************************************************)
(* The accept loops of the two listeners: RelayListener::run_with_shutdown *)
(* of src/server/routed_listener.rs and of the older src/server/listener.rs*)
(* (legacy), the semaphore that limits the connection handlers, and the    *)
(* shutdown channel that main.rs or a test gives it.                       *)
(*                                                                         *)
(* The loop accepts a connection first and waits for a permit afterwards,  *)
(* with the accepted stream in hand; the legacy loop takes a free permit   *)
(* without waiting.  Each of the two waits is a select! against the        *)
(* shutdown channel.  A handler is one task that holds its permit until it *)
(* returns; what it does meanwhile is in ConnectionIntake, RoutedSession   *)
(* and LegacySession, and here only how it may end.                        *)
(***************************************************************************)
EXTENDS Naturals, FiniteSets, Sequences

CONSTANTS
  Conn,             \* the TCP connections clients may open
  None,             \* no connection
  MaxConnections    \* config.max_connections, the semaphore's permits

ASSUME ListenerAssumption ==
  /\ IsFiniteSet(Conn)
  /\ None \notin Conn
  /\ MaxConnections \in Nat \ {0}

VARIABLES
  legacy,      \* which listener this is
  loop,        \* where run_with_shutdown stands
  backlog,     \* connections the kernel holds for accept, in order
  inHand,      \* the accepted stream that has no permit yet
  permits,     \* semaphore.available_permits()
  stage,       \* stage[c]: how far connection c has come
  signal,      \* the value in the shutdown channel
  unseen,      \* the receiver has not seen the channel's last value
  senderAlive  \* the task that owns shutdown_tx still runs

vars == <<legacy, loop, backlog, inHand, permits, stage, signal, unseen, senderAlive>>
watchVars == <<signal, unseen, senderAlive>>

\* "orphan": the handler returned with an error while a route keeps the
\* session's writer task, and with it the socket.
Stages == {"idle", "backlog", "accepted", "intake", "session", "orphan",
           "closed", "refused"}

Handled(c) == stage[c] \in {"intake", "session"}

Init ==
  /\ legacy \in BOOLEAN
  /\ loop = "accept"
  /\ backlog = <<>>
  /\ inHand = None
  /\ permits = MaxConnections
  /\ stage = [c \in Conn |-> "idle"]
  /\ signal = FALSE
  /\ unseen = FALSE
  /\ senderAlive = TRUE

Move(c, next) == stage' = [stage EXCEPT ![c] = next]

-----------------------------------------------------------------------------
(* The environment: clients, and the task that waits for Ctrl-C.            *)

Connect(c) ==
  /\ stage[c] = "idle"
  /\ loop # "exited"
  /\ Move(c, "backlog")
  /\ backlog' = Append(backlog, c)
  /\ UNCHANGED <<legacy, loop, inHand, permits, watchVars>>

\* Ctrl-C: the task sends true and ends, dropping the sender.
SignalShutdown ==
  /\ senderAlive
  /\ signal' = TRUE
  /\ unseen' = TRUE
  /\ senderAlive' = FALSE
  /\ UNCHANGED <<legacy, loop, backlog, inHand, permits, stage>>

\* ctrl_c() fails: the task ends without a signal.
SignalTaskEnds ==
  /\ senderAlive
  /\ senderAlive' = FALSE
  /\ UNCHANGED <<legacy, loop, backlog, inHand, permits, stage, signal, unseen>>

-----------------------------------------------------------------------------
(* The accept loop.                                                         *)

\* The stream waits for a permit in hand.  The legacy loop calls
\* try_acquire_owned first, and spawns the handler at once when that succeeds.
Accept ==
  /\ loop = "accept"
  /\ backlog # <<>>
  /\ backlog' = Tail(backlog)
  /\ \/ /\ legacy /\ permits > 0
        /\ permits' = permits - 1
        /\ Move(Head(backlog), "intake")
        /\ UNCHANGED <<loop, inHand>>
     \/ /\ ~ legacy \/ permits = 0
        /\ loop' = "permit"
        /\ inHand' = Head(backlog)
        /\ Move(Head(backlog), "accepted")
        /\ UNCHANGED permits
  /\ UNCHANGED <<legacy, watchVars>>

\* Mutant: the loop goes back to accept after a shutdown signal.
AcceptShutdownContinues ==
  /\ loop = "accept"
  /\ unseen
  /\ unseen' = FALSE
  /\ UNCHANGED <<legacy, loop, backlog, inHand, permits, stage, signal, senderAlive>>

\* changed() yields a value in the accept wait.  Once the sender is gone it
\* yields an error instead and the loop turns without effect.
AcceptShutdown ==
  /\ loop = "accept"
  /\ unseen
  /\ unseen' = FALSE
  /\ loop' = IF signal THEN "stopped" ELSE "accept"
  /\ UNCHANGED <<legacy, backlog, inHand, permits, stage, signal, senderAlive>>

\* Mutant: a stream that finds no permit is dropped.
AcquireOrDrop ==
  /\ loop = "permit"
  /\ permits' = IF permits > 0 THEN permits - 1 ELSE permits
  /\ loop' = "accept"
  /\ inHand' = None
  /\ Move(inHand, IF permits > 0 THEN "intake" ELSE "refused")
  /\ UNCHANGED <<legacy, backlog, watchVars>>

\* Mutant: the last permit is never granted.
AcquireOneSpare ==
  /\ loop = "permit"
  /\ permits > 1
  /\ permits' = permits - 1
  /\ loop' = "accept"
  /\ inHand' = None
  /\ Move(inHand, "intake")
  /\ UNCHANGED <<legacy, backlog, watchVars>>

\* A permit is granted: the handler is spawned with it.
Acquire ==
  /\ loop = "permit"
  /\ permits > 0
  /\ permits' = permits - 1
  /\ loop' = "accept"
  /\ inHand' = None
  /\ Move(inHand, "intake")
  /\ UNCHANGED <<legacy, backlog, watchVars>>

\* changed() returns in the permit wait, with a value or because the sender is
\* gone; either way the stream in hand is dropped.
PermitShutdown ==
  /\ loop = "permit"
  /\ unseen \/ ~ senderAlive
  /\ unseen' = FALSE
  /\ loop' = IF signal THEN "stopped" ELSE "accept"
  /\ inHand' = None
  /\ Move(inHand, "refused")
  /\ UNCHANGED <<legacy, permits, backlog, signal, senderAlive>>

\* run_with_shutdown has returned and the socket is closed, with its backlog.
\* main returns too, and the runtime drops every task that is still there; the
\* handlers of the legacy listener, which no main uses, go on.
Exit ==
  /\ loop = "stopped"
  /\ loop' = "exited"
  /\ backlog' = <<>>
  /\ LET gone == IF legacy THEN {"backlog"} ELSE Stages \ {"idle", "refused"}
     IN  stage' = [c \in Conn |-> IF stage[c] \in gone THEN "closed" ELSE stage[c]]
  /\ permits' = IF legacy THEN permits ELSE MaxConnections
  /\ UNCHANGED <<legacy, inHand, watchVars>>

-----------------------------------------------------------------------------
(* The handler task of a connection.                                        *)

Release == permits' = permits + 1

\* The handshake succeeds.
Establish(c) ==
  /\ stage[c] = "intake"
  /\ Move(c, "session")
  /\ UNCHANGED <<legacy, loop, backlog, inHand, permits, watchVars>>

\* Mutant: the handshake's end keeps the permit.
IntakeEndsKeeping(c) ==
  /\ stage[c] = "intake"
  /\ Move(c, "closed")
  /\ UNCHANGED <<legacy, loop, backlog, inHand, permits, watchVars>>

\* End of stream, error, timeout, or the end of the fall-through proxy.
IntakeEnds(c) ==
  /\ stage[c] = "intake"
  /\ Move(c, "closed")
  /\ Release
  /\ UNCHANGED <<legacy, loop, backlog, inHand, watchVars>>

\* The session function returns: cleanly, after its writer; or with an error,
\* which leaves a registered session's writer behind.  A legacy session has no
\* task of its own for writing.
SessionEnds(c) ==
  /\ stage[c] = "session"
  /\ \/ Move(c, "closed")
     \/ ~ legacy /\ Move(c, "orphan")
  /\ Release
  /\ UNCHANGED <<legacy, loop, backlog, inHand, watchVars>>

\* The route is replaced or evicted, or a write fails: the writer ends.
OrphanEnds(c) ==
  /\ stage[c] = "orphan"
  /\ Move(c, "closed")
  /\ UNCHANGED <<legacy, loop, backlog, inHand, permits, watchVars>>

\* Everybody has come and gone.
Idle ==
  /\ \A c \in Conn : \/ stage[c] \in {"closed", "refused"}
                     \/ stage[c] = "idle" /\ loop = "exited"
  /\ UNCHANGED vars

LoopStep == Accept \/ AcceptShutdown \/ Acquire \/ PermitShutdown \/ Exit

IntakeStep(c) == Establish(c) \/ IntakeEnds(c)

Next ==
  \/ LoopStep
  \/ SignalShutdown \/ SignalTaskEnds
  \/ \E c \in Conn : Connect(c) \/ IntakeStep(c) \/ SessionEnds(c) \/ OrphanEnds(c)
  \/ Idle

\* The runtime polls the loop whenever it can go on; the timeouts of the
\* handshake end every intake.  A session may last as long as its client likes.
Fairness ==
  /\ WF_vars(LoopStep)
  /\ \A c \in Conn : WF_vars(IntakeStep(c))

Spec == Init /\ [][Next]_vars /\ Fairness

-----------------------------------------------------------------------------
(* Properties.                                                              *)

\* Every variable has its type, and the stream in hand is the accepted one.
TypeOK ==
  /\ legacy \in BOOLEAN
  /\ loop \in {"accept", "permit", "stopped", "exited"}
  /\ backlog \in Seq(Conn)
  /\ inHand \in Conn \cup {None}
  /\ loop = "permit" <=> inHand # None
  /\ permits \in 0 .. MaxConnections
  /\ stage \in [Conn -> Stages]
  /\ signal \in BOOLEAN
  /\ unseen \in BOOLEAN
  /\ senderAlive \in BOOLEAN

\* The semaphore's permits and the running handlers always add up to
\* max_connections: no way out of a handler loses or returns twice a permit, so
\* active_connections is the number of handlers, and that never exceeds
\* max_connections (tests/stress_test.rs: "All active connection permits should
\* be returned to zero").
PermitsAccounted ==
  permits + Cardinality({c \in Conn : Handled(c)}) = MaxConnections

\* An accepted connection is dropped unserved only when the shutdown channel
\* spoke or its sender is gone, never for lack of permits.
RefusedOnlyAtShutdown ==
  \A c \in Conn : stage[c] = "refused" => ~ senderAlive

\* A shutdown signal stops the loop, even while it waits for a permit that no
\* session gives back.
ShutdownStops == (signal /\ loop # "exited") ~> loop = "exited"

\* A client that connected waits for ever only behind max_connections
\* established sessions: handshakes that fail or dawdle give their permits back.
WaitsOnlyBehindSessions ==
  \A c \in Conn :
    <>[](stage[c] \in {"backlog", "accepted"})
      => <>[](Cardinality({d \in Conn : stage[d] = "session"}) = MaxConnections)

=============================================================================
