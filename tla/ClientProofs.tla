---------------------------- MODULE ClientProofs ----------------------------
(***************************************************************************)
(* Calls get their own answers and the map of pending requests is accounted*)
(* for; no event is skipped; with any number of calls, any queue and any   *)
(* events.                                                                 *)
(***************************************************************************)
EXTENDS ClientCorrelation, TLAPS

Elems(s) == {s[k] : k \in DOMAIN s}
Distinct(s) == \A j, k \in DOMAIN s : j # k => s[j] # s[k]

\* Ids whose responses the client has not read.
Answers == {f.correlation_id : f \in {g \in Elems(inbound) : g.kind = "response"}}

\* Ids whose frames wait in the queue or are being written.
Unsent == Elems(outbound) \cup ({writing} \ {0})

Sent(r) == call[r] \in {"queued", "waiting", "ok", "timeout", "echoSent"}

\* Message ids are never shared.
Ids ==
  /\ counter \in Nat \ {0}
  /\ \A r \in Call : id[r] < counter
  /\ \A r \in Call : call[r] = "idle" <=> id[r] = 0
  /\ \A r, q \in Call : id[r] = id[q] /\ id[r] # 0 => r = q

\* A request is at one place at a time: in the queue, in the actor's write, with the
\* server, or answered; one whose call returned an answer is neither unsent nor
\* unanswered.
Flow ==
  /\ Distinct(outbound)
  /\ writing \notin Elems(outbound)
  /\ \A i \in Unsent \cup requests \cup Answers :
       \E r \in Call : Sent(r) /\ id[r] = i
  /\ Unsent \cap requests = {}
  /\ Unsent \cap Answers = {}
  /\ requests \cap Answers = {}
  /\ \A r \in Call : call[r] = "ok" => id[r] \notin Unsent \cup requests

\* What a call returned is the id it asked with.
Results ==
  \A r \in Call : IF call[r] = "ok" THEN result[r] = id[r] ELSE result[r] = 0

ClientInv == TypeOK /\ Ids /\ Flow /\ Results /\ PendingAccounted

\* Appending adds one element.
LEMMA AppendElems ==
  ASSUME NEW S, NEW s \in Seq(S), NEW e \in S
  PROVE  /\ Elems(Append(s, e)) = Elems(s) \cup {e}
         /\ Distinct(s) /\ e \notin Elems(s) => Distinct(Append(s, e))
<1>1. /\ Len(s) \in Nat /\ DOMAIN s = 1 .. Len(s)
      /\ DOMAIN Append(s, e) = 1 .. Len(s) + 1
      /\ \A k \in 1 .. Len(s) : Append(s, e)[k] = s[k]
      /\ Append(s, e)[Len(s) + 1] = e
  OBVIOUS
<1>2. 1 .. Len(s) + 1 = (1 .. Len(s)) \cup {Len(s) + 1}
  BY <1>1
<1>3. Elems(Append(s, e)) = Elems(s) \cup {e}
  BY <1>1, <1>2 DEF Elems
<1>4. Distinct(s) /\ e \notin Elems(s) => Distinct(Append(s, e))
  BY <1>1, <1>2 DEF Elems, Distinct
<1> QED BY <1>3, <1>4

\* The head and the elements of the tail make up the sequence.
LEMMA TailElems ==
  ASSUME NEW S, NEW s \in Seq(S), s # <<>>
  PROVE  /\ Head(s) \in S /\ Tail(s) \in Seq(S)
         /\ Elems(s) = {Head(s)} \cup Elems(Tail(s))
         /\ Distinct(s) => Distinct(Tail(s)) /\ Head(s) \notin Elems(Tail(s))
<1>1. /\ Len(s) \in Nat \ {0} /\ DOMAIN s = 1 .. Len(s)
      /\ Head(s) = s[1] /\ Head(s) \in S /\ Tail(s) \in Seq(S)
      /\ DOMAIN Tail(s) = 1 .. Len(s) - 1
      /\ \A k \in 1 .. Len(s) - 1 : Tail(s)[k] = s[k + 1]
  OBVIOUS
<1>2. \A k \in DOMAIN s : k = 1 \/ k - 1 \in DOMAIN Tail(s)
  BY <1>1
<1>3. \A k \in DOMAIN Tail(s) : k + 1 \in DOMAIN s /\ k + 1 # 1
  BY <1>1
<1>4. Elems(s) = {Head(s)} \cup Elems(Tail(s))
  <2>1. ASSUME NEW k \in DOMAIN s PROVE s[k] \in {Head(s)} \cup Elems(Tail(s))
    <3>1. CASE k = 1
      BY <1>1, <3>1
    <3>2. CASE k - 1 \in DOMAIN Tail(s)
      <4>1. Tail(s)[k - 1] = s[k]
        BY <1>1, <3>2
      <4> QED BY <3>2, <4>1 DEF Elems
    <3> QED BY <1>2, <3>1, <3>2
  <2>2. ASSUME NEW k \in DOMAIN Tail(s) PROVE Tail(s)[k] \in Elems(s)
    BY <1>1, <1>3 DEF Elems
  <2>3. Head(s) \in Elems(s)
    BY <1>1 DEF Elems
  <2> QED BY <2>1, <2>2, <2>3 DEF Elems
<1>5. ASSUME Distinct(s) PROVE Distinct(Tail(s)) /\ Head(s) \notin Elems(Tail(s))
  <2>1. ASSUME NEW j \in DOMAIN Tail(s), NEW k \in DOMAIN Tail(s), j # k
        PROVE  Tail(s)[j] # Tail(s)[k]
    <3>1. j + 1 # k + 1
      BY <1>1, <2>1
    <3> QED BY <1>1, <1>3, <1>5, <3>1 DEF Distinct
  <2>2. ASSUME NEW k \in DOMAIN Tail(s) PROVE Tail(s)[k] # Head(s)
    <3>1. 1 \in DOMAIN s
      BY <1>1
    <3> QED BY <1>1, <1>3, <1>5, <3>1 DEF Distinct
  <2> QED BY <2>1, <2>2 DEF Distinct, Elems
<1> QED BY <1>1, <1>4, <1>5

\* A new id is larger than all others.
LEMMA TakeIdInv ==
  ASSUME ClientInv, NEW r \in Call, TakeId(r)
  PROVE  ClientInv'
<1> USE DEF ClientInv, serverVars, readVars, eventVars, actorVars
<1>1. /\ call[r] = "idle" /\ id[r] = 0 /\ ~ Sent(r)
      /\ id' = [id EXCEPT ![r] = counter] /\ counter' = counter + 1
      /\ UNCHANGED <<outbound, writing, requests, inbound, pending, unclaimed, result>>
      /\ \E next \in {"queueing", "tooLarge"} : call' = [call EXCEPT ![r] = next]
  BY DEF TakeId, Step, Ids, Sent
<1>2. /\ id'[r] = counter /\ call'[r] \in {"queueing", "tooLarge"}
      /\ \A q \in Call \ {r} : id'[q] = id[q] /\ call'[q] = call[q]
  BY <1>1 DEF TypeOK
<1>3. TypeOK'
  BY <1>1, SMTT(60) DEF TypeOK, TakeId, CallStates
<1>4. Ids'
  BY <1>1, <1>2 DEF Ids, TypeOK
<1>5. Answers' = Answers /\ Unsent' = Unsent
  BY <1>1 DEF Answers, Unsent
<1>6. \A q \in Call : Sent(q) => Sent(q)' /\ id'[q] = id[q]
  BY <1>1, <1>2 DEF Sent
<1>7. Flow'
  BY <1>1, <1>2, <1>5, <1>6 DEF Flow
<1>8. Results'
  BY <1>1, <1>2 DEF Results
<1>9. PendingAccounted'
  BY <1>1, <1>2 DEF PendingAccounted
<1> QED BY <1>3, <1>4, <1>7, <1>8, <1>9

\* The frame of a call enters the queue, or the channel is closed.
LEMMA QueueInv ==
  ASSUME ClientInv, NEW r \in Call, Queue(r)
  PROVE  ClientInv'
<1> USE DEF ClientInv, serverVars, readVars, eventVars, actorVars
<1>1. /\ call[r] = "queueing" /\ ~ Sent(r)
      /\ UNCHANGED <<counter, id, writing, requests, inbound, pending, unclaimed, result>>
      /\ id[r] \in Nat /\ id[r] # 0
  BY DEF Queue, Step, Ids, TypeOK, Sent
<1>2. \A i \in Unsent \cup requests \cup Answers : i # id[r]
  BY <1>1 DEF Flow, Ids
<1>3. Answers' = Answers
  BY <1>1 DEF Answers
<1>4. PICK next \in {"queued", "channelClosed"} : call' = [call EXCEPT ![r] = next]
  BY DEF Queue, Step
<1>5. call'[r] = next /\ \A q \in Call \ {r} : call'[q] = call[q]
  BY <1>4 DEF TypeOK
<1>6. Ids'
  BY <1>1, <1>5 DEF Ids
<1>7. Results' /\ PendingAccounted'
  BY <1>1, <1>5 DEF Results, PendingAccounted
<1>8. \A q \in Call : Sent(q) => Sent(q)' /\ id'[q] = id[q]
  BY <1>1, <1>5 DEF Sent
<1>9. CASE outbound' = Append(outbound, id[r]) /\ next = "queued" /\ Len(outbound) < QueueCapacity
  <2>1. Elems(outbound') = Elems(outbound) \cup {id[r]} /\ Distinct(outbound')
    BY <1>1, <1>2, <1>9, AppendElems DEF TypeOK, Flow, Unsent
  <2>2. Unsent' = Unsent \cup {id[r]} /\ writing' \notin Elems(outbound')
    BY <1>1, <1>2, <2>1 DEF Flow, Unsent
  <2>3. TypeOK'
    <3>1. outbound' \in Seq(Nat) /\ Len(outbound') <= QueueCapacity
      BY <1>1, <1>9, ClientAssumption DEF TypeOK
    <3>2. call' \in [Call -> CallStates]
      BY <1>4 DEF TypeOK, CallStates
    <3> QED BY <1>1, <3>1, <3>2 DEF TypeOK, Queue
  <2>4. Sent(r)'
    BY <1>5, <1>9 DEF Sent
  <2>5. \A q \in Call : call'[q] = "ok" => call[q] = "ok" /\ id[q] # id[r]
    BY <1>1, <1>5, <1>9 DEF Ids
  <2>6. Flow'
    BY <1>1, <1>2, <1>3, <1>8, <2>1, <2>2, <2>4, <2>5 DEF Flow
  <2> QED BY <1>6, <1>7, <2>3, <2>6
<1>10. CASE UNCHANGED outbound
  <2>1. TypeOK'
    <3>1. call' \in [Call -> CallStates]
      BY <1>4 DEF TypeOK, CallStates
    <3> QED BY <1>1, <1>10, <3>1 DEF TypeOK, Queue
  <2>2. \A q \in Call : call'[q] = "ok" => call[q] = "ok"
    BY <1>4, <1>5
  <2>3. Flow'
    BY <1>1, <1>3, <1>8, <1>10, <2>2 DEF Flow, Unsent
  <2> QED BY <1>6, <1>7, <2>1, <2>3
<1>11. \/ outbound' = Append(outbound, id[r]) /\ next = "queued" /\ Len(outbound) < QueueCapacity
       \/ UNCHANGED outbound
  BY <1>4, <1>5 DEF Queue, Step, TypeOK
<1> QED BY <1>9, <1>10, <1>11

\* A call registers, times out, or ends as an echo.
LEMMA WaitInv ==
  ASSUME ClientInv, NEW r \in Call, RegisterPending(r) \/ SendEcho(r) \/ Timeout(r)
  PROVE  ClientInv'
<1> USE DEF ClientInv, serverVars, readVars, eventVars, actorVars
<1>1. /\ UNCHANGED <<counter, id, outbound, writing, requests, inbound, unclaimed, result>>
      /\ \E next \in {"waiting", "timeout", "echoSent"} : call' = [call EXCEPT ![r] = next]
      /\ call[r] \in {"queued", "waiting"}
  BY DEF RegisterPending, SendEcho, Timeout, Step
<1>2. /\ call'[r] \in {"waiting", "timeout", "echoSent"}
      /\ \A q \in Call \ {r} : call'[q] = call[q]
  BY <1>1 DEF TypeOK
<1>3. TypeOK'
  <2>1. call' \in [Call -> CallStates]
    BY <1>1 DEF TypeOK, CallStates
  <2>2. pending' \subseteq Nat
    <3>1. id[r] \in Nat
      BY DEF TypeOK
    <3>2. pending' = pending \cup {id[r]} \/ pending' = pending
      BY DEF RegisterPending, SendEcho, Timeout
    <3> QED BY <3>1, <3>2, Zenon DEF TypeOK
  <2>3. UNCHANGED <<partial, inSync, handler, closing, dropped, actor, pushed, heard>>
    BY DEF RegisterPending, SendEcho, Timeout
  <2> QED BY <1>1, <2>1, <2>2, <2>3 DEF TypeOK
<1>4. Ids' /\ Results'
  BY <1>1, <1>2 DEF Ids, Results
<1>5. Answers' = Answers
  BY <1>1 DEF Answers
<1>6. \A q \in Call : Sent(q) => Sent(q)'
  BY <1>1, <1>2 DEF Sent
<1>7. \A q \in Call : call'[q] = "ok" => call[q] = "ok"
  BY <1>1, <1>2
<1>8. Flow'
  BY <1>1, <1>5, <1>6, <1>7 DEF Flow, Unsent
<1>9. PendingAccounted'
  <2>1. CASE RegisterPending(r)
    <3>1. pending' = pending \cup {id[r]} /\ call'[r] = "waiting" /\ call[r] = "queued"
      BY <2>1 DEF RegisterPending, Step, TypeOK
    <3> QED BY <1>1, <1>2, <3>1 DEF PendingAccounted
  <2>2. CASE SendEcho(r)
    <3>1. pending' = pending /\ call'[r] = "echoSent" /\ call[r] = "queued"
      BY <2>2 DEF SendEcho, Step, TypeOK
    <3>2. \A q \in Call : call[q] \in {"waiting", "timeout"} => call'[q] = call[q]
      BY <1>2, <3>1
    <3> QED BY <1>1, <1>2, <3>1, <3>2 DEF PendingAccounted
  <2>3. CASE Timeout(r)
    <3>1. pending' = pending /\ call'[r] = "timeout"
      BY <2>3 DEF Timeout, Step, TypeOK
    <3> QED BY <1>1, <1>2, <3>1 DEF PendingAccounted
  <2> QED BY <2>1, <2>2, <2>3
<1> QED BY <1>3, <1>4, <1>8, <1>9

\* The head of the queue goes to the actor's write.
LEMMA SendOutboundInv ==
  ASSUME ClientInv, SendOutbound
  PROVE  ClientInv'
<1> USE DEF ClientInv, callVars, serverVars, eventVars
<1>1. /\ UNCHANGED <<counter, call, id, result, requests, inbound, pending, unclaimed>>
      /\ writing = 0 /\ writing' = Head(outbound) /\ outbound' = Tail(outbound)
      /\ outbound \in Seq(Nat) /\ outbound # <<>>
  BY DEF SendOutbound, Selecting, TypeOK
<1>2. /\ Head(outbound) \in Nat /\ outbound' \in Seq(Nat)
      /\ Elems(outbound) = {Head(outbound)} \cup Elems(outbound')
      /\ Distinct(outbound') /\ Head(outbound) \notin Elems(outbound')
  BY <1>1, TailElems DEF Flow
<1>3. TypeOK'
  <2>1. Len(outbound') <= QueueCapacity
    <3>1. Len(outbound') = Len(outbound) - 1 /\ Len(outbound) \in Nat
      BY <1>1
    <3> QED BY <3>1, ClientAssumption DEF TypeOK
  <2>2. inSync' \in BOOLEAN /\ partial' \in BOOLEAN
    BY Zenon DEF SendOutbound
  <2> QED BY <1>1, <1>2, <2>1, <2>2, Zenon DEF TypeOK, SendOutbound
<1>4. Ids' /\ Results' /\ PendingAccounted'
  BY <1>1 DEF Ids, Results, PendingAccounted
<1>5. Answers' = Answers /\ \A r \in Call : Sent(r)' <=> Sent(r)
  BY <1>1 DEF Answers, Sent
<1>6. Unsent' \subseteq Unsent
  BY <1>1, <1>2 DEF Unsent
<1>7. Flow'
  BY <1>1, <1>2, <1>5, <1>6 DEF Flow
<1> QED BY <1>3, <1>4, <1>7

\* The frame that was being written is with the server.
LEMMA FrameSentInv ==
  ASSUME ClientInv, FrameSent
  PROVE  ClientInv'
<1> USE DEF ClientInv, callVars, readVars, eventVars
<1>1. /\ UNCHANGED <<counter, call, id, result, outbound, inbound, pending, unclaimed>>
      /\ writing # 0 /\ writing' = 0 /\ requests' = requests \cup {writing}
      /\ writing \in Nat
  BY DEF FrameSent, TypeOK
<1>2. TypeOK'
  BY <1>1, SMTT(60) DEF TypeOK, FrameSent
<1>3. Ids' /\ Results' /\ PendingAccounted'
  BY <1>1 DEF Ids, Results, PendingAccounted
<1>4. Answers' = Answers /\ \A r \in Call : Sent(r)' <=> Sent(r)
  BY <1>1 DEF Answers, Sent
<1>5. Unsent = Unsent' \cup {writing} /\ writing \notin Unsent'
  BY <1>1 DEF Unsent, Flow
<1>6. 0 \notin Elems(outbound)
  <2>1. \A i \in Elems(outbound) : \E r \in Call : Sent(r) /\ id[r] = i
    BY DEF Flow, Unsent
  <2> QED BY <2>1 DEF Sent, Ids
<1>7. Flow'
  BY <1>1, <1>4, <1>5, <1>6 DEF Flow
<1> QED BY <1>2, <1>3, <1>7

\* A frame is read: what its answer wakes is the call that asked.
LEMMA DispatchInv ==
  ASSUME ClientInv, Dispatch
  PROVE  ClientInv'
<1> USE DEF ClientInv, serverVars, actorVars
<1>1. /\ UNCHANGED <<counter, id, outbound, writing, requests>>
      /\ inbound' = Tail(inbound) /\ inbound \in Seq(Frame) /\ inbound # <<>>
  BY DEF Dispatch, TypeOK
<1>2. /\ Received \in Frame /\ inbound' \in Seq(Frame)
      /\ Elems(inbound) = {Received} \cup Elems(inbound')
  BY <1>1, TailElems DEF Received
<1>3. Received.correlation_id \in Nat /\ Received.n \in Nat
  BY <1>2 DEF Frame
<1>4. /\ Answers' \subseteq Answers /\ Unsent' = Unsent
      /\ Received.kind = "response" => Received.correlation_id \in Answers
  BY <1>1, <1>2 DEF Answers, Unsent
<1>5. heard' \in Seq(Nat) /\ unclaimed' \subseteq Nat
  <2>1. heard' = heard \/ heard' = Append(heard, Received.n)
    BY DEF Dispatch
  <2>2. unclaimed' = unclaimed \/ unclaimed' = unclaimed \cup {Received.correlation_id}
    BY DEF Dispatch
  <2>3. heard \in Seq(Nat) /\ unclaimed \subseteq Nat
    BY DEF TypeOK
  <2>4. heard' \in Seq(Nat)
    BY <1>3, <2>1, <2>3, SMTT(60)
  <2> QED BY <1>3, <2>2, <2>3, <2>4, Zenon
<1>6. CASE Wakes(Received) /\ Wake(Received) /\ UNCHANGED unclaimed
  <2> DEFINE Woken(r) == id[r] = Received.correlation_id /\ call[r] = "waiting"
  <2>1. /\ pending' = pending \ {Received.correlation_id}
        /\ call' = [r \in Call |-> IF Woken(r) THEN "ok" ELSE call[r]]
        /\ result' = [r \in Call |-> IF Woken(r) THEN Received.correlation_id ELSE result[r]]
        /\ Received.kind = "response"
    BY <1>6 DEF Wake, Wakes
  <2>2. \A r \in Call :
          /\ Woken(r) => /\ call'[r] = "ok" /\ result'[r] = id[r] /\ call[r] = "waiting"
                         /\ id[r] = Received.correlation_id
          /\ ~ Woken(r) => call'[r] = call[r] /\ result'[r] = result[r]
    BY <2>1
  <2>3. TypeOK'
    <3>1. call' \in [Call -> CallStates] /\ result' \in [Call -> Nat]
      BY <1>3, <2>1 DEF TypeOK, CallStates
    <3> QED BY <1>1, <1>2, <1>5, <2>1, <3>1, Zenon DEF TypeOK, Dispatch
  <2>4. Ids'
    BY <1>1, <2>2 DEF Ids
  <2>5. Results'
    BY <1>1, <2>2 DEF Results
  <2>6. \A r \in Call : Sent(r) => Sent(r)'
    BY <2>2 DEF Sent
  <2>7. Received.correlation_id \notin Unsent \cup requests
    BY <1>4, <2>1 DEF Flow
  <2>8. \A r \in Call : call'[r] = "ok" => id[r] \notin Unsent \cup requests
    BY <2>2, <2>7 DEF Flow
  <2>9. Flow'
    BY <1>1, <1>4, <2>6, <2>8 DEF Flow
  <2>10. PendingAccounted'
    <3>1. \A r \in Call : id[r] # Received.correlation_id => call'[r] = call[r]
      BY <2>2
    <3>2. \A r \in Call : call'[r] = "waiting" =>
            call[r] = "waiting" /\ id[r] # Received.correlation_id
      BY <2>2
    <3> QED BY <1>1, <1>6, <2>1, <3>1, <3>2 DEF PendingAccounted
  <2> QED BY <2>3, <2>4, <2>5, <2>9, <2>10
<1>7. CASE /\ UNCHANGED <<pending, call, result>>
           /\ unclaimed \subseteq unclaimed'
  <2>1. TypeOK'
    BY <1>1, <1>2, <1>5, <1>7, Zenon DEF TypeOK, Dispatch
  <2>2. Ids' /\ Results' /\ PendingAccounted'
    BY <1>1, <1>7 DEF Ids, Results, PendingAccounted
  <2>3. \A r \in Call : Sent(r)' <=> Sent(r)
    BY <1>7 DEF Sent
  <2>4. Flow'
    BY <1>1, <1>4, <1>7, <2>3 DEF Flow
  <2> QED BY <2>1, <2>2, <2>4
<1>8. \/ Wakes(Received) /\ Wake(Received) /\ UNCHANGED unclaimed
      \/ UNCHANGED <<pending, call, result>> /\ unclaimed \subseteq unclaimed'
  BY DEF Dispatch
<1> QED BY <1>6, <1>7, <1>8

\* The server answers a request: it is then answered and not asked.
LEMMA RespondInv ==
  ASSUME ClientInv, Respond
  PROVE  ClientInv'
<1> USE DEF ClientInv, callVars, eventVars, actorVars
<1>1. PICK i \in requests :
        /\ requests' = requests \ {i}
        /\ inbound' = Append(inbound, [kind |-> "response", correlation_id |-> i, n |-> 0])
  BY DEF Respond
<1>2. UNCHANGED <<counter, call, id, result, outbound, writing, pending, unclaimed>>
  BY DEF Respond
<1>3. /\ i \in Nat /\ inbound \in Seq(Frame)
      /\ [kind |-> "response", correlation_id |-> i, n |-> 0] \in Frame
  BY DEF TypeOK, Frame
<1>4. /\ inbound' \in Seq(Frame)
      /\ Elems(inbound') =
           Elems(inbound) \cup {[kind |-> "response", correlation_id |-> i, n |-> 0]}
  BY <1>1, <1>3, AppendElems
<1>5. Answers' = Answers \cup {i}
  <2>1. PICK f \in Frame : f = [kind |-> "response", correlation_id |-> i, n |-> 0]
    BY <1>3
  <2>2. f.kind = "response" /\ f.correlation_id = i /\ Elems(inbound') = Elems(inbound) \cup {f}
    BY <1>4, <2>1
  <2> QED BY <2>2 DEF Answers
<1>6. TypeOK'
  BY <1>1, <1>2, <1>4, SMTT(60) DEF TypeOK, Respond
<1>7. Ids' /\ Results' /\ PendingAccounted'
  BY <1>2 DEF Ids, Results, PendingAccounted
<1>8. \A r \in Call : Sent(r)' <=> Sent(r)
  BY <1>2, SMTT(60) DEF Sent
<1>9. Flow'
  BY <1>1, <1>2, <1>5, <1>8 DEF Flow, Unsent
<1> QED BY <1>6, <1>7, <1>9

\* An event is no answer.
LEMMA PushEventInv ==
  ASSUME ClientInv, PushEvent
  PROVE  ClientInv'
<1> USE DEF ClientInv, callVars, eventVars, actorVars
<1>1. PICK i \in EventIds :
        inbound' = Append(inbound, [kind |-> "event", correlation_id |-> i, n |-> pushed + 1])
  BY DEF PushEvent
<1>2. UNCHANGED <<counter, call, id, result, outbound, writing, requests, pending, unclaimed>>
  BY DEF PushEvent
<1>3. /\ pushed' = pushed + 1 /\ pushed' \in Nat /\ inbound \in Seq(Frame)
      /\ [kind |-> "event", correlation_id |-> i, n |-> pushed + 1] \in Frame
  BY ClientAssumption DEF TypeOK, Frame, PushEvent
<1>4. /\ inbound' \in Seq(Frame)
      /\ Elems(inbound') =
           Elems(inbound) \cup {[kind |-> "event", correlation_id |-> i, n |-> pushed + 1]}
  BY <1>1, <1>3, AppendElems
<1>5. Answers' = Answers
  BY <1>4, SMTT(60) DEF Answers
<1>6. TypeOK'
  BY <1>2, <1>3, <1>4, SMTT(60) DEF TypeOK, PushEvent
<1>7. Ids' /\ Results' /\ PendingAccounted'
  BY <1>2 DEF Ids, Results, PendingAccounted
<1>8. \A r \in Call : Sent(r)' <=> Sent(r)
  BY <1>2, SMTT(60) DEF Sent
<1>9. Flow'
  BY <1>2, <1>5, <1>8 DEF Flow, Unsent
<1> QED BY <1>6, <1>7, <1>9

\* The actor's other steps and the owner's: no request moves, or the queue goes.
LEMMA OtherInv ==
  ASSUME ClientInv,
         \/ ReadPartial \/ ActorStops \/ Disconnect \/ DropClient \/ ChangedFails
         \/ AddEventHandler \/ UNCHANGED vars
  PROVE  ClientInv'
<1> USE DEF ClientInv, callVars, serverVars, readVars, eventVars, actorVars
<1>1. /\ UNCHANGED <<counter, call, id, result, requests, inbound, pending, unclaimed>>
      /\ UNCHANGED <<pushed, heard>>
      /\ outbound' = outbound \/ outbound' = <<>>
      /\ writing' = writing \/ writing' = 0
  BY SMTT(60) DEF ReadPartial, ActorStops, Disconnect, DropClient, ChangedFails,
                  AddEventHandler, vars
<1>2. {partial, inSync, handler, closing, dropped}' \subseteq BOOLEAN
  BY Zenon DEF ReadPartial, ActorStops, Disconnect, DropClient, ChangedFails, AddEventHandler, vars,
         TypeOK
<1>3. actor' \in {"running", "stopped"}
  BY DEF ReadPartial, ActorStops, Disconnect, DropClient, ChangedFails, AddEventHandler, vars,
         TypeOK
<1>4. /\ outbound' \in Seq(Nat) /\ Len(outbound') <= QueueCapacity
      /\ Distinct(outbound') /\ Elems(outbound') \subseteq Elems(outbound)
  <2>1. <<>> \in Seq(Nat) /\ Len(<<>>) = 0 /\ Elems(<<>>) = {} /\ Distinct(<<>>)
    BY DEF Elems, Distinct
  <2>2. outbound \in Seq(Nat) /\ Len(outbound) <= QueueCapacity /\ Distinct(outbound)
    BY DEF TypeOK, Flow
  <2>3. CASE outbound' = <<>>
    BY <2>1, <2>3, ClientAssumption
  <2>4. CASE outbound' = outbound
    BY <2>2, <2>4
  <2> QED BY <1>1, <2>3, <2>4
<1>5. TypeOK'
  BY <1>1, <1>2, <1>3, <1>4, SMTT(60) DEF TypeOK
<1>6. Ids' /\ Results' /\ PendingAccounted'
  BY <1>1 DEF Ids, Results, PendingAccounted
<1>7. Answers' = Answers /\ \A r \in Call : Sent(r)' <=> Sent(r)
  BY <1>1 DEF Answers, Sent
<1>8. Unsent' \subseteq Unsent
  BY <1>1, <1>4 DEF Unsent
<1>9. writing' \notin Elems(outbound')
  <2>1. \A i \in Elems(outbound) : \E r \in Call : Sent(r) /\ id[r] = i
    BY DEF Flow, Unsent
  <2>2. 0 \notin Elems(outbound)
    BY <2>1 DEF Sent, Ids
  <2> QED BY <1>1, <1>4, <2>2 DEF Flow
<1>10. Flow'
  BY <1>1, <1>4, <1>7, <1>8, <1>9 DEF Flow
<1> QED BY <1>5, <1>6, <1>10, SMTT(60)

\* Nothing has been asked at first.
LEMMA InitInv == Init => ClientInv
<1> SUFFICES ASSUME Init PROVE ClientInv
  OBVIOUS
<1>1. Elems(<<>>) = {} /\ Distinct(<<>>)
  BY DEF Elems, Distinct
<1>2. Answers = {}
  BY <1>1 DEF Init, Answers
<1>3. TypeOK
  <2>1. /\ counter \in Nat /\ pushed \in Nat
        /\ outbound \in Seq(Nat) /\ Len(outbound) <= QueueCapacity
        /\ inbound \in Seq(Frame) /\ heard \in Seq(Nat)
    BY ClientAssumption DEF Init
  <2>2. call \in [Call -> CallStates] /\ id \in [Call -> Nat] /\ result \in [Call -> Nat]
    BY DEF Init, CallStates
  <2>3. {partial, inSync, handler, closing, dropped} \subseteq BOOLEAN
    BY Zenon DEF Init
  <2> QED BY <2>1, <2>2, <2>3 DEF Init, TypeOK
<1>4. Ids /\ Results /\ PendingAccounted
  BY DEF Init, Ids, Results, PendingAccounted
<1>5. Flow
  BY <1>1, <1>2 DEF Init, Flow, Unsent
<1> QED BY <1>3, <1>4, <1>5 DEF ClientInv

\* Every step of the client and of the server keeps the invariant.
LEMMA ClientInvHolds == Spec => []ClientInv
<1>1. ClientInv /\ [Next]_vars => ClientInv'
  <2> SUFFICES ASSUME ClientInv, [Next]_vars PROVE ClientInv'
    OBVIOUS
  <2>1. CASE \E r \in Call : CallStep(r)
    BY <2>1, TakeIdInv, QueueInv, WaitInv DEF CallStep
  <2>2. CASE ActorStep
    BY <2>2, SendOutboundInv, FrameSentInv, DispatchInv DEF ActorStep
  <2>3. CASE Respond \/ PushEvent
    BY <2>3, RespondInv, PushEventInv
  <2>4. CASE \/ ReadPartial \/ ConnectionEnds \/ Disconnect \/ ShutdownSeen \/ DropClient
             \/ ChangedFails \/ AddEventHandler \/ Done \/ UNCHANGED vars
    BY <2>4, OtherInv DEF ConnectionEnds, ShutdownSeen, Done
  <2> QED BY <2>1, <2>2, <2>3, <2>4 DEF Next
<1> QED BY <1>1, InitInv, PTL DEF Spec

\* A call of EchoMeshClient that succeeds returns the answer to its own request,
\* with any number of calls, a queue of any size and events with any ids.
THEOREM OwnAnswers == Spec => []OwnAnswer
<1>1. ClientInv => OwnAnswer
  <2> SUFFICES ASSUME ClientInv, NEW r \in Call, call[r] = "ok"
               PROVE  /\ result[r] = id[r]
                      /\ id[r] \notin requests
                      /\ \A q \in Call \ {r} : result[q] # result[r]
    BY DEF OwnAnswer
  <2>1. result[r] = id[r] /\ id[r] \notin requests /\ id[r] # 0
    BY DEF ClientInv, Results, Flow, Ids
  <2>2. ASSUME NEW q \in Call \ {r} PROVE result[q] # result[r]
    BY <2>1 DEF ClientInv, Results, Ids
  <2> QED BY <2>1, <2>2
<1> QED BY <1>1, ClientInvHolds, PTL

\* The map of pending requests holds the ids of calls that wait or timed out,
\* and every waiting call whose answer is not lost, in a client of any size.
THEOREM PendingHolds == Spec => []PendingAccounted
<1>1. ClientInv => PendingAccounted
  BY DEF ClientInv
<1> QED BY <1>1, ClientInvHolds, PTL

-----------------------------------------------------------------------------
(* Events *)

\* Numbers of the events in s, and that they grow along it.
EventNumbers(s) == {f.n : f \in {g \in Elems(s) : g.kind = "event"}}
Growing(s) ==
  \A i, j \in DOMAIN s : i < j /\ s[i].kind = "event" /\ s[j].kind = "event" => s[i].n < s[j].n

\* Events up to b were read; what is unread follows.  A handler that has heard an
\* event heard every event since.
ReadUpTo(b) ==
  /\ b <= pushed
  /\ Growing(inbound)
  /\ EventNumbers(inbound) = b + 1 .. pushed
  /\ heard # <<>> => /\ heard[Len(heard)] = b
                     /\ \A i \in DOMAIN heard : heard[i] = heard[1] + i - 1

EventInv ==
  /\ heard # <<>> => handler
  /\ \E b \in Nat : ReadUpTo(b)

\* A frame that is appended is the last one.
LEMMA AppendEvents ==
  ASSUME NEW s \in Seq(Frame), NEW f \in Frame
  PROVE  /\ EventNumbers(Append(s, f)) =
              EventNumbers(s) \cup (IF f.kind = "event" THEN {f.n} ELSE {})
         /\ Growing(s) /\ (f.kind = "event" => \A m \in EventNumbers(s) : m < f.n)
              => Growing(Append(s, f))
<1>1. EventNumbers(Append(s, f)) =
        EventNumbers(s) \cup (IF f.kind = "event" THEN {f.n} ELSE {})
  <2>1. Elems(Append(s, f)) = Elems(s) \cup {f}
    BY AppendElems
  <2> QED BY <2>1 DEF EventNumbers
<1>2. ASSUME Growing(s), f.kind = "event" => \A m \in EventNumbers(s) : m < f.n
      PROVE  Growing(Append(s, f))
  <2>1. /\ DOMAIN s = 1 .. Len(s) /\ Len(s) \in Nat
        /\ DOMAIN Append(s, f) = 1 .. Len(s) + 1
        /\ \A k \in 1 .. Len(s) : Append(s, f)[k] = s[k]
        /\ Append(s, f)[Len(s) + 1] = f
    OBVIOUS
  <2>2. \A k \in DOMAIN s : s[k].kind = "event" => s[k].n \in EventNumbers(s)
    BY DEF EventNumbers, Elems
  <2>3. \A i, j \in 1 .. Len(s) + 1 : i < j => i \in 1 .. Len(s) /\ (j \in 1 .. Len(s) \/ j = Len(s) + 1)
    BY <2>1
  <2> QED BY <1>2, <2>1, <2>2, <2>3 DEF Growing
<1> QED BY <1>1, <1>2

\* The frame that is read comes before all others.
LEMMA TailEvents ==
  ASSUME NEW s \in Seq(Frame), s # <<>>, Growing(s)
  PROVE  /\ EventNumbers(s) =
              EventNumbers(Tail(s)) \cup (IF Head(s).kind = "event" THEN {Head(s).n} ELSE {})
         /\ Growing(Tail(s))
         /\ Head(s).kind = "event" => \A m \in EventNumbers(Tail(s)) : Head(s).n < m
<1>1. EventNumbers(s) =
        EventNumbers(Tail(s)) \cup (IF Head(s).kind = "event" THEN {Head(s).n} ELSE {})
  <2>1. Elems(s) = {Head(s)} \cup Elems(Tail(s))
    BY TailElems
  <2> QED BY <2>1 DEF EventNumbers
<1>2. /\ Len(s) \in Nat \ {0} /\ DOMAIN s = 1 .. Len(s) /\ Head(s) = s[1]
      /\ DOMAIN Tail(s) = 1 .. Len(s) - 1
      /\ \A k \in 1 .. Len(s) - 1 : Tail(s)[k] = s[k + 1]
  OBVIOUS
<1>3. \A k \in 1 .. Len(s) - 1 : k + 1 \in 1 .. Len(s) /\ 1 < k + 1
  BY <1>2
<1>4. \A i, j \in 1 .. Len(s) - 1 : i < j => i + 1 < j + 1
  BY <1>2
<1>5. Growing(Tail(s))
  BY <1>2, <1>3, <1>4 DEF Growing
<1>6. ASSUME Head(s).kind = "event", NEW m \in EventNumbers(Tail(s)) PROVE Head(s).n < m
  <2>1. PICK k \in 1 .. Len(s) - 1 : Tail(s)[k].kind = "event" /\ m = Tail(s)[k].n
    BY <1>2 DEF EventNumbers, Elems
  <2>2. 1 \in DOMAIN s /\ k + 1 \in DOMAIN s /\ 1 < k + 1
    BY <1>2, <1>3
  <2> QED BY <1>2, <1>6, <2>1, <2>2 DEF Growing
<1> QED BY <1>1, <1>5, <1>6

\* Of consecutive numbers the smallest is the first, and the rest go on from it.
LEMMA NextNumber ==
  ASSUME NEW b \in Nat, NEW p \in Nat, NEW m \in Nat, NEW Rest,
         Rest \cup {m} = b + 1 .. p, \A k \in Rest : m < k
  PROVE  m = b + 1 /\ m <= p /\ Rest = m + 1 .. p
<1>1. m \in b + 1 .. p
  BY Zenon
<1>2. b + 1 \in b + 1 .. p
  BY <1>1
<1>3. b + 1 \in Rest => m < b + 1
  OBVIOUS
<1>4. m = b + 1
  BY <1>1, <1>2, <1>3
<1>5. \A k \in Rest : k \in b + 1 .. p /\ m < k
  OBVIOUS
<1>6. \A k \in m + 1 .. p : k \in b + 1 .. p /\ k # m
  BY <1>4
<1>7. \A k \in m + 1 .. p : k \in Rest
  BY <1>6
<1>8. \A k \in Rest : k \in m + 1 .. p
  BY <1>5
<1>9. Rest = m + 1 .. p
  BY <1>7, <1>8, Zenon
<1>10. m <= p
  BY <1>1
<1> QED BY <1>4, <1>9, <1>10

\* Steps that leave the frames alone leave the events alone.
LEMMA QuietEvents ==
  ASSUME EventInv, UNCHANGED <<inbound, pushed, heard>>, handler => handler'
  PROVE  EventInv'
<1>1. PICK b \in Nat : ReadUpTo(b)
  BY DEF EventInv
<1>2. ReadUpTo(b)'
  BY <1>1 DEF ReadUpTo
<1> QED BY <1>2 DEF EventInv

\* A response is no event.
LEMMA RespondEvents ==
  ASSUME TypeOK, EventInv, Respond
  PROVE  EventInv'
<1>1. PICK b \in Nat : ReadUpTo(b)
  BY DEF EventInv
<1>2. PICK i \in requests :
        inbound' = Append(inbound, [kind |-> "response", correlation_id |-> i, n |-> 0])
  BY DEF Respond
<1>3. PICK f \in Frame : f = [kind |-> "response", correlation_id |-> i, n |-> 0]
  BY Zenon DEF TypeOK, Frame
<1>4. f.kind # "event" /\ inbound' = Append(inbound, f) /\ inbound \in Seq(Frame)
  BY <1>2, <1>3 DEF TypeOK
<1>5. Growing(inbound') /\ EventNumbers(inbound') = EventNumbers(inbound)
  BY <1>1, <1>4, AppendEvents, Zenon DEF ReadUpTo
<1>6. UNCHANGED <<pushed, heard, handler>>
  BY DEF Respond, eventVars
<1>7. ReadUpTo(b)'
  BY <1>1, <1>5, <1>6 DEF ReadUpTo
<1> QED BY <1>6, <1>7 DEF EventInv

\* A pushed event comes after all others.
LEMMA PushEvents ==
  ASSUME TypeOK, EventInv, PushEvent
  PROVE  EventInv'
<1>1. PICK b \in Nat : ReadUpTo(b)
  BY DEF EventInv
<1>2. PICK i \in EventIds :
        inbound' = Append(inbound, [kind |-> "event", correlation_id |-> i, n |-> pushed + 1])
  BY DEF PushEvent
<1>3. PICK f \in Frame : f = [kind |-> "event", correlation_id |-> i, n |-> pushed + 1]
  <2>1. pushed + 1 \in Nat /\ i \in Nat
    BY ClientAssumption DEF TypeOK
  <2> QED BY <2>1, Zenon DEF Frame
<1>4. f.kind = "event" /\ f.n = pushed + 1 /\ inbound' = Append(inbound, f) /\ inbound \in Seq(Frame)
  BY <1>2, <1>3 DEF TypeOK
<1>5. \A m \in EventNumbers(inbound) : m < f.n
  BY <1>1, <1>4 DEF ReadUpTo, TypeOK
<1>6. Growing(inbound') /\ EventNumbers(inbound') = EventNumbers(inbound) \cup {pushed + 1}
  BY <1>1, <1>4, <1>5, AppendEvents, Zenon DEF ReadUpTo
<1>7. UNCHANGED <<heard, handler>> /\ pushed' = pushed + 1
  BY DEF PushEvent, eventVars
<1>8. EventNumbers(inbound') = b + 1 .. pushed' /\ b <= pushed'
  <2>1. b <= pushed /\ pushed \in Nat /\ EventNumbers(inbound) = b + 1 .. pushed
    BY <1>1 DEF ReadUpTo, TypeOK
  <2>2. b + 1 .. pushed + 1 = (b + 1 .. pushed) \cup {pushed + 1}
    BY <2>1
  <2> QED BY <1>6, <1>7, <2>1, <2>2
<1>9. ReadUpTo(b)'
  BY <1>1, <1>6, <1>7, <1>8 DEF ReadUpTo
<1> QED BY <1>7, <1>9 DEF EventInv

\* An event that is read is the next one, and a handler hears it.
LEMMA DispatchEvents ==
  ASSUME TypeOK, EventInv, Dispatch
  PROVE  EventInv'
<1>1. PICK b \in Nat : ReadUpTo(b)
  BY DEF EventInv
<1>2. PICK f \in Frame : f = Received
  <2>1. inbound \in Seq(Frame) /\ inbound # <<>>
    BY DEF TypeOK, Dispatch
  <2>2. Received \in Frame
    BY <2>1, TailElems DEF Received
  <2> QED BY <2>2
<1>3. /\ inbound \in Seq(Frame) /\ inbound # <<>> /\ inbound' = Tail(inbound) /\ f = Head(inbound)
      /\ UNCHANGED <<pushed, handler>>
  BY <1>2 DEF TypeOK, Dispatch, serverVars, Received
<1>4. /\ EventNumbers(inbound) =
           EventNumbers(inbound') \cup (IF f.kind = "event" THEN {f.n} ELSE {})
      /\ Growing(inbound')
      /\ f.kind = "event" => \A m \in EventNumbers(inbound') : f.n < m
  BY <1>1, <1>3, TailEvents, Zenon DEF ReadUpTo
<1>5. CASE f.kind # "event"
  <2>1. heard' = heard
    BY <1>2, <1>5 DEF Dispatch
  <2>2. ReadUpTo(b)'
    BY <1>1, <1>3, <1>4, <1>5, <2>1, Zenon DEF ReadUpTo
  <2> QED BY <1>3, <2>1, <2>2 DEF EventInv
<1>6. CASE f.kind = "event"
  <2>1. heard' = IF handler THEN Append(heard, f.n) ELSE heard
    BY <1>2, <1>6 DEF Dispatch, Wakes
  <2>2. f.n \in Nat /\ pushed \in Nat /\ heard \in Seq(Nat)
    BY DEF Frame, TypeOK
  <2>3. f.n = b + 1 /\ f.n <= pushed /\ EventNumbers(inbound') = f.n + 1 .. pushed
    <3>1. EventNumbers(inbound') \cup {f.n} = b + 1 .. pushed
      BY <1>1, <1>4, <1>6 DEF ReadUpTo
    <3>2. \A k \in EventNumbers(inbound') : f.n < k
      BY <1>4, <1>6
    <3> DEFINE Rest == EventNumbers(inbound')
               m == f.n
    <3>3. Rest \cup {m} = b + 1 .. pushed /\ (\A k \in Rest : m < k) /\ m \in Nat
      BY <2>2, <3>1, <3>2
    <3> HIDE DEF Rest, m
    <3>4. m = b + 1 /\ m <= pushed /\ Rest = m + 1 .. pushed
      BY <2>2, <3>3, NextNumber, Zenon
    <3> QED BY <3>4 DEF Rest, m
  <2>4. CASE ~ handler
    <3>1. heard = <<>> /\ heard' = <<>>
      BY <2>1, <2>4 DEF EventInv
    <3>2. ReadUpTo(f.n)'
      BY <1>3, <1>4, <2>3, <3>1 DEF ReadUpTo
    <3> QED BY <2>2, <3>1, <3>2 DEF EventInv
  <2>5. CASE handler
    <3>1. heard' = Append(heard, f.n) /\ heard' # <<>>
      BY <2>1, <2>2, <2>5
    <3>2. /\ Len(heard) \in Nat /\ Len(heard') = Len(heard) + 1 /\ heard'[Len(heard')] = f.n
          /\ DOMAIN heard' = 1 .. Len(heard) + 1 /\ DOMAIN heard = 1 .. Len(heard)
          /\ \A i \in DOMAIN heard : heard'[i] = heard[i]
      BY <2>2, <3>1
    <3>3. \A i \in DOMAIN heard' : heard'[i] = heard'[1] + i - 1
      <4>1. CASE heard = <<>>
        BY <2>2, <3>2, <4>1
      <4>2. CASE heard # <<>>
        <5>1. /\ Len(heard) \in Nat \ {0} /\ heard[1] \in Nat /\ heard'[1] = heard[1]
              /\ heard[Len(heard)] = b
          BY <1>1, <2>2, <3>2, <4>2 DEF ReadUpTo
        <5>2. \A i \in DOMAIN heard : heard[i] = heard[1] + i - 1
          BY <1>1, <4>2 DEF ReadUpTo
        <5>3. b = heard[1] + Len(heard) - 1
          BY <3>2, <5>1, <5>2
        <5>4. f.n = heard[1] + (Len(heard) + 1) - 1
          BY <2>3, <5>1, <5>3
        <5>5. \A i \in 1 .. Len(heard) + 1 : i \in 1 .. Len(heard) \/ i = Len(heard) + 1
          BY <3>2
        <5> QED BY <3>2, <5>1, <5>2, <5>4, <5>5
      <4> QED BY <4>1, <4>2
    <3>4. ReadUpTo(f.n)'
      BY <1>3, <1>4, <2>3, <3>2, <3>3 DEF ReadUpTo
    <3> QED BY <1>3, <2>2, <2>5, <3>4 DEF EventInv
  <2> QED BY <2>4, <2>5
<1> QED BY <1>5, <1>6

\* Every step keeps the events in order.
LEMMA EventInvHolds == Spec => []EventInv
<1>1. Init => EventInv
  <2> SUFFICES ASSUME Init PROVE EventInv
    OBVIOUS
  <2>1. inbound = <<>> /\ heard = <<>> /\ pushed = 0
    BY DEF Init
  <2>2. EventNumbers(<<>>) = {} /\ Growing(<<>>) /\ 1 .. 0 = {}
    BY DEF EventNumbers, Elems, Growing
  <2>3. ReadUpTo(0)
    BY <2>1, <2>2 DEF ReadUpTo
  <2> QED BY <2>1, <2>3 DEF EventInv
<1>2. TypeOK /\ EventInv /\ [Next]_vars => EventInv'
  <2> SUFFICES ASSUME TypeOK, EventInv, [Next]_vars PROVE EventInv'
    OBVIOUS
  <2>1. CASE Dispatch
    BY <2>1, DispatchEvents
  <2>2. CASE Respond
    BY <2>2, RespondEvents
  <2>3. CASE PushEvent
    BY <2>3, PushEvents
  <2>4. CASE \E r \in Call : CallStep(r)
    <3>1. UNCHANGED <<inbound, pushed, heard, handler>>
      BY <2>4 DEF CallStep, TakeId, Queue, RegisterPending, SendEcho, Timeout,
                  serverVars, readVars, eventVars
    <3> QED BY <3>1, QuietEvents
  <2>5. CASE \/ SendOutbound \/ FrameSent \/ ReadPartial \/ ActorStops \/ Disconnect \/ DropClient
             \/ ChangedFails \/ AddEventHandler \/ UNCHANGED vars
    <3>1. UNCHANGED <<inbound, pushed, heard>>
      BY <2>5 DEF SendOutbound, FrameSent, ReadPartial, ActorStops, Disconnect, DropClient, ChangedFails,
                  AddEventHandler, serverVars, readVars, eventVars, vars
    <3>2. handler => handler'
      BY <2>5, Zenon DEF SendOutbound, FrameSent, ReadPartial, ActorStops, Disconnect, DropClient, ChangedFails,
                  AddEventHandler, eventVars, vars
    <3> QED BY <3>1, <3>2, QuietEvents, Zenon
  <2> QED
    BY <2>1, <2>2, <2>3, <2>4, <2>5 DEF Next, ActorStep, ConnectionEnds, ShutdownSeen, Done
<1>3. ClientInv => TypeOK
  BY DEF ClientInv
<1> QED BY <1>1, <1>2, <1>3, ClientInvHolds, PTL DEF Spec

\* A handler hears the events in the order in which the server pushed them, without a
\* gap from the first it hears, and what it has not heard is still unread, whichever
\* branch of the actor's select! wins and whatever it drops.
THEOREM EventsHeard == Spec => []NoEventSkipped
<1>1. EventInv => NoEventSkipped
  <2> SUFFICES ASSUME EventInv, heard # <<>> PROVE NoEventSkipped
    BY DEF NoEventSkipped
  <2>1. PICK b \in Nat : ReadUpTo(b)
    BY DEF EventInv
  <2> DEFINE unread == {i \in DOMAIN inbound : inbound[i].kind = "event"}
  <2>2. {inbound[i].n : i \in unread} = EventNumbers(inbound)
    BY DEF EventNumbers, Elems
  <2>3. \A i, j \in unread : i < j => inbound[i].n < inbound[j].n
    BY <2>1 DEF ReadUpTo, Growing
  <2> QED BY <2>1, <2>2, <2>3 DEF ReadUpTo, NoEventSkipped
<1> QED BY <1>1, EventInvHolds, PTL

=============================================================================
