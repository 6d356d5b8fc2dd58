---------------------------- MODULE LegacyProofs ----------------------------
(***************************************************************************)
(* Theorems about the sessions of the older listener, for every set of    *)
(* connections, every queue capacity and every sequence of client frames.  *)
(***************************************************************************)
EXTENDS LegacySession, TLAPS

\* Positions of a task between its register and its unregister call.
Serving == {"create", "bind", "select", "respond", "unregister"}

\* A connection is in the manager's map while its task serves it, and the session
\* is bound to a connection only while its task does.
LegacyInv ==
  /\ pc \in [Conn -> Serving \cup {"new", "remove", "done"}]
  /\ connections = {c \in Conn : pc[c] \in Serving}
  /\ bound # None => bound \in Conn /\ pc[bound] \in {"select", "respond", "unregister"}

\* Every step keeps the map of connections and the binding in accord with the
\* tasks.
LEMMA LegacyStep ==
  ASSUME LegacyInv, [Next]_vars
  PROVE  LegacyInv'
<1> USE DEF managerVars, Go, LegacyInv, Serving
<1>1. ASSUME NEW c \in Conn, Register(c) PROVE LegacyInv'
  BY <1>1 DEF Register
<1>2. ASSUME NEW c \in Conn, CreateSession(c) PROVE LegacyInv'
  BY <1>2 DEF CreateSession
<1>3. ASSUME NEW c \in Conn, BindSession(c) PROVE LegacyInv'
  BY <1>3 DEF BindSession
<1>4. ASSUME NEW c \in Conn, Receive(c) PROVE LegacyInv'
  <2>1. PICK x \in {"select", "respond"} : pc' = [pc EXCEPT ![c] = x]
    BY <1>4, Zenon DEF Receive, ProcessFrame
  <2> QED BY <1>4, <2>1 DEF Receive
<1>5. ASSUME NEW c \in Conn, Respond(c) PROVE LegacyInv'
  BY <1>5 DEF Respond
<1>6. ASSUME NEW c \in Conn, Break(c) PROVE LegacyInv'
  BY <1>6 DEF Break
<1>7. ASSUME NEW c \in Conn, Unregister(c) PROVE LegacyInv'
  BY <1>7, LegacyAssumption DEF Unregister
<1>8. ASSUME NEW c \in Conn, RemoveSession(c) PROVE LegacyInv'
  BY <1>8 DEF RemoveSession
<1>9. ASSUME NEW c \in Conn, SendOutbound(c) \/ ReadPartial(c) \/ Send(c) \/ Close(c)
      PROVE  LegacyInv'
  <2>1. UNCHANGED <<pc, connections, bound>>
    BY <1>9, ZenonT(60) DEF SendOutbound, ReadPartial, Send, Close
  <2> QED BY <2>1
<1>10. CASE UNCHANGED vars
  BY <1>10 DEF vars
<1> HIDE DEF LegacyInv
<1> QED
  BY <1>1, <1>2, <1>3, <1>4, <1>5, <1>6, <1>7, <1>8, <1>9, <1>10, ZenonT(60)
     DEF Next, TaskStep, AllDone

\* The session map never names a connection that is gone, however connections
\* with the one session id come and go (ConnectionManager::unregister of
\* src/server/connections/manager.rs).
THEOREM MappingStaysLive == Spec => []MappingLive
<1>1. Init => LegacyInv
  BY DEF Init, LegacyInv, Serving
<1>2. LegacyInv /\ [Next]_vars => LegacyInv'
  BY LegacyStep
<1>3. LegacyInv => MappingLive
  BY DEF LegacyInv, MappingLive, Serving
<1> QED BY <1>1, <1>2, <1>3, PTL DEF Spec

-----------------------------------------------------------------------------
(* Answers *)

Answer == [kind : {"response", "error", "echo"}, n : Nat]

\* The answers in a are those to the first `done` frames of s, in order.
Exact(a, s, done) ==
  /\ \A i, j \in DOMAIN a : i < j => a[i].n < a[j].n
  /\ {a[i] : i \in DOMAIN a} = {Dispatch(s[n], n) : n \in {m \in 1 .. done : Answered(s[m])}}

AnswerTypes ==
  /\ sent \in [Conn -> Seq(FrameKind)] /\ processed \in [Conn -> Nat]
  /\ delivered \in [Conn -> Seq(Answer)] /\ queue \in [Conn -> Seq(Answer)]

\* A task that answers has a frame to answer.
AnswerOf(c) ==
  /\ processed[c] <= Len(sent[c])
  /\ pc[c] = "respond" => processed[c] # 0 /\ Answered(sent[c][processed[c]])
  /\ Exact(delivered[c] \o queue[c], sent[c], Handled(c))

AnswerInv == AnswerTypes /\ \A c \in Conn : AnswerOf(c)

\* An answer is numbered as the frame it answers.
LEMMA DispatchNumber ==
  ASSUME NEW k \in FrameKind, NEW n \in Nat
  PROVE  Dispatch(k, n) \in Answer /\ Dispatch(k, n).n = n
BY DEF Dispatch, Answer

\* A frame more does not change the answers to earlier ones.
LEMMA ExactSend ==
  ASSUME NEW a \in Seq(Answer), NEW s \in Seq(FrameKind), NEW k \in FrameKind,
         NEW done \in Nat, done <= Len(s), Exact(a, s, done)
  PROVE  Exact(a, Append(s, k), done)
<1>1. \A m \in 1 .. done : Append(s, k)[m] = s[m]
  OBVIOUS
<1> DEFINE D == {m \in 1 .. done : Answered(s[m])}
           E == {m \in 1 .. done : Answered(Append(s, k)[m])}
<1>2. D = E
  BY <1>1
<1>3. \A n \in D : Dispatch(s[n], n) = Dispatch(Append(s, k)[n], n)
  BY <1>1
<1>4. {Dispatch(s[n], n) : n \in D} = {Dispatch(Append(s, k)[n], n) : n \in E}
  BY <1>2, <1>3
<1> QED BY <1>4, Zenon DEF Exact

\* A frame that deserves no answer changes nothing.
LEMMA ExactSkip ==
  ASSUME NEW a \in Seq(Answer), NEW s \in Seq(FrameKind), NEW done \in Nat,
         Exact(a, s, done), ~ Answered(s[done + 1])
  PROVE  Exact(a, s, done + 1)
<1>1. {m \in 1 .. done : Answered(s[m])} = {m \in 1 .. done + 1 : Answered(s[m])}
  <2>1. \A m \in 1 .. done + 1 : m \in 1 .. done \/ m = done + 1
    OBVIOUS
  <2>2. \A m \in 1 .. done : m \in 1 .. done + 1
    OBVIOUS
  <2> QED BY <2>1, <2>2, Zenon
<1> QED BY <1>1, Zenon DEF Exact

\* The answer to the next frame completes the answers to one frame more.
LEMMA ExactAnswer ==
  ASSUME NEW a \in Seq(Answer), NEW s \in Seq(FrameKind), NEW done \in Nat,
         done + 1 <= Len(s), Exact(a, s, done), Answered(s[done + 1])
  PROVE  Exact(Append(a, Dispatch(s[done + 1], done + 1)), s, done + 1)
<1> DEFINE e == Dispatch(s[done + 1], done + 1)
           b == Append(a, e)
<1>1. \A m \in 1 .. done + 1 : s[m] \in FrameKind
  OBVIOUS
<1>2. e \in Answer /\ e.n = done + 1
  BY <1>1, DispatchNumber
<1>3. /\ Len(a) \in Nat /\ DOMAIN a = 1 .. Len(a) /\ DOMAIN b = 1 .. Len(a) + 1
      /\ \A i \in 1 .. Len(a) : b[i] = a[i]
      /\ b[Len(a) + 1] = e
  BY <1>2
<1>4. \A i \in DOMAIN a : a[i].n <= done
  <2> TAKE i \in DOMAIN a
  <2>1. a[i] \in {Dispatch(s[n], n) : n \in {m \in 1 .. done : Answered(s[m])}}
    BY Zenon DEF Exact
  <2>2. PICK n \in 1 .. done : a[i] = Dispatch(s[n], n)
    BY <2>1
  <2>3. s[n] \in FrameKind /\ n \in Nat
    BY <1>1
  <2> QED BY <2>2, <2>3, DispatchNumber
<1>5. \A i \in 1 .. Len(a) + 1 : i \in 1 .. Len(a) \/ i = Len(a) + 1
  BY <1>3
<1>6. \A m \in 1 .. done + 1 : m \in 1 .. done \/ m = done + 1
  OBVIOUS
<1>7. \A m \in 1 .. done : m \in 1 .. done + 1
  OBVIOUS
<1>8. \A i, j \in DOMAIN b : i < j => b[i].n < b[j].n
  <2> SUFFICES ASSUME NEW i \in DOMAIN b, NEW j \in DOMAIN b, i < j PROVE b[i].n < b[j].n
    OBVIOUS
  <2>1. i \in DOMAIN a /\ b[i] = a[i]
    BY <1>3
  <2>2. a[i].n \in Nat
    <3>1. a[i] \in Answer
      BY <2>1
    <3> QED BY <3>1, Zenon DEF Answer
  <2>3. CASE j \in DOMAIN a
    BY <1>3, <2>1, <2>3 DEF Exact
  <2>4. CASE j = Len(a) + 1
    BY <1>2, <1>3, <1>4, <2>1, <2>2, <2>4
  <2> QED BY <1>3, <1>5, <2>3, <2>4
<1>9. {b[i] : i \in DOMAIN b} = {a[i] : i \in DOMAIN a} \cup {e}
  BY <1>3, <1>5
<1>10. {Dispatch(s[n], n) : n \in {m \in 1 .. done + 1 : Answered(s[m])}} =
       {Dispatch(s[n], n) : n \in {m \in 1 .. done : Answered(s[m])}} \cup {e}
  <2>1. done + 1 \in 1 .. done + 1
    OBVIOUS
  <2> QED BY <1>6, <1>7, <2>1, Zenon
<1> QED BY <1>8, <1>9, <1>10, Zenon DEF Exact

\* Appending to the queue appends to the answers; writing its head moves an answer.
LEMMA AnswersMove ==
  ASSUME NEW d \in Seq(Answer), NEW q \in Seq(Answer)
  PROVE  /\ d \o q \in Seq(Answer)
         /\ \A e \in Answer : d \o Append(q, e) = Append(d \o q, e)
         /\ q # <<>> => /\ Head(q) \in Answer /\ Tail(q) \in Seq(Answer)
                        /\ Append(d, Head(q)) \in Seq(Answer)
                        /\ Append(d, Head(q)) \o Tail(q) = d \o q
<1>1. d \o q \in Seq(Answer)
  OBVIOUS
<1>2. ASSUME NEW e \in Answer PROVE d \o Append(q, e) = Append(d \o q, e)
  OBVIOUS
<1>3. ASSUME q # <<>> PROVE Head(q) \in Answer /\ Tail(q) \in Seq(Answer)
  BY <1>3
<1>4. ASSUME q # <<>>
      PROVE  Append(d, Head(q)) \in Seq(Answer) /\ Append(d, Head(q)) \o Tail(q) = d \o q
  BY <1>3, <1>4
<1> QED BY <1>1, <1>2, <1>3, <1>4, Zenon

\* The other connections and what they have been answered stay.
LEMMA OthersAnswered ==
  ASSUME AnswerInv, NEW c \in Conn,
         \A e \in Conn \ {c} :
           /\ sent'[e] = sent[e] /\ processed'[e] = processed[e] /\ pc'[e] = pc[e]
           /\ delivered'[e] = delivered[e] /\ queue'[e] = queue[e],
         AnswerTypes', AnswerOf(c)'
  PROVE  AnswerInv'
<1>1. ASSUME NEW e \in Conn \ {c} PROVE AnswerOf(e)'
  <2>1. AnswerOf(e)
    BY DEF AnswerInv
  <2> QED BY <2>1 DEF AnswerOf, Handled
<1> QED BY <1>1 DEF AnswerInv

\* Steps that touch neither frames nor answers, and move no task to or from its answer.
LEMMA QuietAnswers ==
  ASSUME AnswerInv, UNCHANGED <<sent, processed, delivered, queue>>,
         \A c \in Conn : pc'[c] = pc[c] \/ (pc[c] # "respond" /\ pc'[c] # "respond")
  PROVE  AnswerInv'
<1>1. ASSUME NEW c \in Conn PROVE AnswerOf(c)'
  <2>1. AnswerOf(c)
    BY DEF AnswerInv
  <2>2. Handled(c)' = Handled(c) /\ (pc'[c] = "respond" => pc[c] = "respond")
    BY DEF Handled
  <2> QED BY <2>1, <2>2 DEF AnswerOf
<1> QED BY <1>1 DEF AnswerInv, AnswerTypes

\* The client's next frame.
LEMMA SendAnswers ==
  ASSUME AnswerInv, NEW c \in Conn, Send(c)
  PROVE  AnswerInv'
<1>1. PICK k \in Offer[c][Len(sent[c]) + 1] : sent' = [sent EXCEPT ![c] = Append(sent[c], k)]
  BY Zenon DEF Send
<1>2. AnswerTypes /\ AnswerOf(c)
  BY DEF AnswerInv
<1>3. UNCHANGED <<pc, processed, delivered, queue>>
  BY Zenon DEF Send, readVars
<1>4. k \in FrameKind
  <2>1. Len(sent[c]) \in Nat /\ Len(sent[c]) < Len(Offer[c]) /\ Offer[c] \in Seq(SUBSET FrameKind)
    BY <1>2, LegacyAssumption DEF AnswerTypes, Send
  <2>2. Offer[c][Len(sent[c]) + 1] \in SUBSET FrameKind
    BY <2>1
  <2> QED BY <2>2
<1>5. /\ sent[c] \in Seq(FrameKind) /\ processed[c] \in Nat
      /\ delivered[c] \in Seq(Answer) /\ queue[c] \in Seq(Answer)
  BY <1>2 DEF AnswerTypes
<1>6. /\ sent'[c] = Append(sent[c], k) /\ \A e \in Conn \ {c} : sent'[e] = sent[e]
      /\ sent' \in [Conn -> Seq(FrameKind)]
  BY <1>1, <1>2, <1>4, <1>5 DEF AnswerTypes
<1>7. /\ Len(sent'[c]) = Len(sent[c]) + 1 /\ Len(sent[c]) \in Nat
      /\ \A m \in 1 .. Len(sent[c]) : sent'[c][m] = sent[c][m]
  BY <1>4, <1>5, <1>6
<1>8. /\ Handled(c) \in Nat /\ Handled(c) <= Len(sent[c])
      /\ processed'[c] <= Len(sent'[c])
      /\ pc[c] = "respond" => processed[c] \in 1 .. Len(sent[c])
  BY <1>2, <1>3, <1>5, <1>7 DEF AnswerOf, Handled
<1>9. delivered[c] \o queue[c] \in Seq(Answer)
  BY <1>5, AnswersMove
<1>10. Exact(delivered[c] \o queue[c], sent'[c], Handled(c))
  BY <1>2, <1>4, <1>5, <1>6, <1>8, <1>9, ExactSend, Zenon DEF AnswerOf
<1>11. AnswerOf(c)'
  BY <1>2, <1>3, <1>7, <1>8, <1>10 DEF AnswerOf, Handled
<1>12. AnswerTypes'
  BY <1>2, <1>3, <1>6 DEF AnswerTypes
<1> QED BY <1>3, <1>6, <1>11, <1>12, OthersAnswered

\* A frame reaches the pipeline, which answers it next or leaves it alone.
LEMMA ReceiveAnswers ==
  ASSUME AnswerInv, NEW c \in Conn, Receive(c), pc \in [Conn -> Serving \cup {"new", "remove", "done"}]
  PROVE  AnswerInv'
<1>1. AnswerTypes /\ AnswerOf(c)
  BY DEF AnswerInv
<1>2. /\ pc[c] = "select" /\ processed[c] < Len(sent[c])
      /\ processed' = [processed EXCEPT ![c] = processed[c] + 1]
      /\ pc' = [pc EXCEPT ![c] = ProcessFrame(sent[c][processed[c] + 1])]
      /\ UNCHANGED <<sent, delivered, queue>>
  BY DEF Receive, Unread, sentVars
<1>3. /\ sent[c] \in Seq(FrameKind) /\ processed[c] \in Nat
      /\ delivered[c] \in Seq(Answer) /\ queue[c] \in Seq(Answer)
  BY <1>1 DEF AnswerTypes
<1>4. /\ processed'[c] = processed[c] + 1 /\ pc'[c] = ProcessFrame(sent[c][processed[c] + 1])
      /\ \A e \in Conn \ {c} : processed'[e] = processed[e] /\ pc'[e] = pc[e]
      /\ processed' \in [Conn -> Nat]
  BY <1>1, <1>2, <1>3 DEF AnswerTypes
<1>5. Handled(c) = processed[c] /\ Exact(delivered[c] \o queue[c], sent[c], processed[c])
  BY <1>1, <1>2 DEF AnswerOf, Handled
<1>6. processed[c] + 1 <= Len(sent[c]) /\ processed[c] + 1 # 0 /\ processed[c] + 1 - 1 = processed[c]
  BY <1>2, <1>3
<1>7. AnswerOf(c)'
  <2>1. CASE Answered(sent[c][processed[c] + 1])
    <3>1. pc'[c] = "respond"
      BY <1>4, <2>1 DEF ProcessFrame
    <3>2. Handled(c)' = processed[c]
      BY <1>3, <1>4, <3>1 DEF Handled
    <3> QED BY <1>2, <1>4, <1>5, <1>6, <2>1, <3>2 DEF AnswerOf
  <2>2. CASE ~ Answered(sent[c][processed[c] + 1])
    <3>1. pc'[c] = "select"
      BY <1>4, <2>2 DEF ProcessFrame
    <3>2. Exact(delivered[c] \o queue[c], sent[c], processed[c] + 1)
      BY <1>3, <1>5, <2>2, ExactSkip, AnswersMove, Zenon
    <3> QED BY <1>2, <1>4, <1>6, <3>1, <3>2 DEF AnswerOf, Handled
  <2> QED BY <2>1, <2>2
<1>8. AnswerTypes'
  BY <1>1, <1>2, <1>4 DEF AnswerTypes
<1> QED BY <1>2, <1>4, <1>7, <1>8, OthersAnswered

\* The answer is queued.
LEMMA RespondAnswers ==
  ASSUME AnswerInv, NEW c \in Conn, Respond(c), pc \in [Conn -> Serving \cup {"new", "remove", "done"}]
  PROVE  AnswerInv'
<1>1. AnswerTypes /\ AnswerOf(c)
  BY DEF AnswerInv
<1> DEFINE e == Dispatch(sent[c][processed[c]], processed[c])
<1>2. /\ pc[c] = "respond" /\ pc' = [pc EXCEPT ![c] = "select"]
      /\ queue' = [queue EXCEPT ![c] = Append(queue[c], e)]
      /\ UNCHANGED <<sent, processed, delivered>>
  BY DEF Respond, Go, sentVars, readVars
<1>3. /\ sent[c] \in Seq(FrameKind) /\ processed[c] \in Nat
      /\ delivered[c] \in Seq(Answer) /\ queue[c] \in Seq(Answer)
  BY <1>1 DEF AnswerTypes
<1>4. /\ processed[c] \in Nat \ {0} /\ processed[c] <= Len(sent[c]) /\ Answered(sent[c][processed[c]])
      /\ Exact(delivered[c] \o queue[c], sent[c], processed[c] - 1)
  BY <1>1, <1>2, <1>3 DEF AnswerOf, Handled
<1>5. e \in Answer
  <2>1. sent[c][processed[c]] \in FrameKind
    BY <1>3, <1>4
  <2> QED BY <1>3, <2>1, DispatchNumber
<1>6. /\ queue'[c] = Append(queue[c], e) /\ pc'[c] = "select"
      /\ \A d \in Conn \ {c} : queue'[d] = queue[d] /\ pc'[d] = pc[d]
  BY <1>1, <1>2 DEF AnswerTypes
<1>7. queue' \in [Conn -> Seq(Answer)]
  <2>1. Append(queue[c], e) \in Seq(Answer)
    BY <1>3, <1>5
  <2> HIDE DEF e
  <2> QED BY <1>1, <1>2, <2>1 DEF AnswerTypes
<1>8. Exact(Append(delivered[c] \o queue[c], e), sent[c], processed[c])
  <2>1. PICK done \in Nat : done = processed[c] - 1
    BY <1>4
  <2>2. done + 1 = processed[c]
    BY <1>4, <2>1
  <2>3. delivered[c] \o queue[c] \in Seq(Answer)
    BY <1>3, AnswersMove
  <2> QED BY <1>3, <1>4, <2>1, <2>2, <2>3, ExactAnswer, Zenon
<1>9. delivered[c] \o queue'[c] = Append(delivered[c] \o queue[c], e)
  <2>1. \A x \in Answer : delivered[c] \o Append(queue[c], x) = Append(delivered[c] \o queue[c], x)
    BY <1>3, AnswersMove, Zenon
  <2>2. delivered[c] \o Append(queue[c], e) = Append(delivered[c] \o queue[c], e)
    BY <1>5, <2>1, Zenon
  <2> HIDE DEF e
  <2> QED BY <1>6, <2>2
<1>10. AnswerOf(c)'
  BY <1>2, <1>4, <1>6, <1>8, <1>9, Zenon DEF AnswerOf, Handled
<1>11. AnswerTypes'
  BY <1>1, <1>2, <1>7, Zenon DEF AnswerTypes
<1> QED BY <1>2, <1>6, <1>10, <1>11, OthersAnswered, Zenon

\* An answer is written: it moves from the queue to the socket.
LEMMA SendOutboundAnswers ==
  ASSUME AnswerInv, NEW c \in Conn, SendOutbound(c)
  PROVE  AnswerInv'
<1>1. AnswerTypes /\ AnswerOf(c)
  BY DEF AnswerInv
<1>2. /\ queue[c] # <<>> /\ queue' = [queue EXCEPT ![c] = Tail(queue[c])]
      /\ delivered' = [delivered EXCEPT ![c] = Append(delivered[c], Head(queue[c]))]
      /\ UNCHANGED <<pc, sent, processed>>
  BY DEF SendOutbound, sentVars
<1>3. delivered[c] \in Seq(Answer) /\ queue[c] \in Seq(Answer)
  BY <1>1 DEF AnswerTypes
<1>4. /\ Tail(queue[c]) \in Seq(Answer) /\ Append(delivered[c], Head(queue[c])) \in Seq(Answer)
      /\ Append(delivered[c], Head(queue[c])) \o Tail(queue[c]) = delivered[c] \o queue[c]
  BY <1>2, <1>3, AnswersMove, Zenon
<1>5. /\ queue'[c] = Tail(queue[c]) /\ delivered'[c] = Append(delivered[c], Head(queue[c]))
      /\ \A d \in Conn \ {c} : queue'[d] = queue[d] /\ delivered'[d] = delivered[d]
      /\ queue' \in [Conn -> Seq(Answer)] /\ delivered' \in [Conn -> Seq(Answer)]
  BY <1>1, <1>2, <1>4 DEF AnswerTypes
<1>6. AnswerOf(c)'
  BY <1>1, <1>2, <1>4, <1>5, Zenon DEF AnswerOf, Handled
<1>7. AnswerTypes'
  BY <1>1, <1>2, <1>5, Zenon DEF AnswerTypes
<1> QED BY <1>2, <1>5, <1>6, <1>7, OthersAnswered, Zenon

\* Every step keeps the answers exact.
LEMMA AnswerStep ==
  ASSUME LegacyInv, AnswerInv, [Next]_vars
  PROVE  AnswerInv'
<1> USE DEF LegacyInv
<1>1. ASSUME NEW c \in Conn, Send(c) \/ Receive(c) \/ Respond(c) \/ SendOutbound(c) PROVE AnswerInv'
  BY <1>1, SendAnswers, ReceiveAnswers, RespondAnswers, SendOutboundAnswers, Zenon
<1>2. ASSUME NEW c \in Conn,
             \/ Register(c) \/ CreateSession(c) \/ BindSession(c) \/ Break(c)
             \/ Unregister(c) \/ RemoveSession(c)
      PROVE AnswerInv'
  <2>1. UNCHANGED <<sent, processed, delivered, queue>>
    BY <1>2, Zenon DEF Register, CreateSession, BindSession, Break, Unregister,
                       RemoveSession, sentVars, readVars
  <2>2. \E x : pc[c] # "respond" /\ x # "respond" /\ pc' = [pc EXCEPT ![c] = x]
    BY <1>2 DEF Register, CreateSession, BindSession, Break, Unregister, RemoveSession, Go
  <2> QED BY <2>1, <2>2, QuietAnswers
<1>3. ASSUME NEW c \in Conn, ReadPartial(c) \/ Close(c) PROVE AnswerInv'
  <2>1. UNCHANGED <<sent, processed, delivered, queue, pc>>
    BY <1>3, Zenon DEF ReadPartial, Close, sentVars, readVars
  <2> QED BY <2>1, QuietAnswers
<1>4. CASE UNCHANGED vars
  BY <1>4, QuietAnswers DEF vars
<1> QED BY <1>1, <1>2, <1>3, <1>4, Zenon DEF Next, TaskStep, AllDone

\* Nothing is answered at first.
LEMMA AnswerInit == Init => AnswerInv
<1> SUFFICES ASSUME Init PROVE AnswerInv
  OBVIOUS
<1>1. AnswerTypes
  BY DEF Init, AnswerTypes
<1>2. ASSUME NEW c \in Conn PROVE AnswerOf(c)
  <2>1. /\ processed[c] = 0 /\ sent[c] = <<>> /\ pc[c] = "new"
        /\ delivered[c] = <<>> /\ queue[c] = <<>>
    BY DEF Init
  <2>2. <<>> \o <<>> = <<>> /\ DOMAIN <<>> = {} /\ 1 .. 0 = {} /\ Len(<<>>) = 0
    OBVIOUS
  <2>3. Exact(<<>>, <<>>, 0)
    BY <2>2 DEF Exact
  <2> QED BY <2>1, <2>2, <2>3 DEF AnswerOf, Handled
<1> QED BY <1>1, <1>2 DEF AnswerInv

\* Every frame of a client that deserves an answer gets exactly one, in order and
\* correlated with it, however reading and writing interleave in the session's task,
\* for every queue capacity and every sequence of frames.
THEOREM AnswersAreExact == Spec => []AnswersExact
<1>1. Init => LegacyInv
  BY DEF Init, LegacyInv, Serving
<1>2. LegacyInv /\ AnswerInv /\ [Next]_vars => LegacyInv' /\ AnswerInv'
  BY LegacyStep, AnswerStep
<1>3. AnswerInv => AnswersExact
  BY Zenon DEF AnswerInv, AnswerOf, Exact, AnswersExact
<1> QED BY <1>1, <1>2, <1>3, AnswerInit, PTL DEF Spec

=============================================================================
