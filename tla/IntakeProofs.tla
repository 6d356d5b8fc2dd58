---------------------------- MODULE IntakeProofs -----------------------------
(***************************************************************************)
(* What ConnectionIntake promises, for every stream and every length of    *)
(* header, first read, record and handshake.                               *)
(***************************************************************************)
EXTENDS ConnectionIntake, TLAPS

Phases == {"first", "parse", "rest", "connect", "proxy", "noise", "session", "closed"}

TypeOK ==
  /\ client \in ClientStream
  /\ arrived \in Nat /\ taken \in Nat /\ extra \in Nat
  /\ phase \in Phases
  /\ initial \in Seq(Nat) /\ prefix \in Seq(Nat) /\ sink \in Seq(Nat)

\* Where the consumer of a client's stream starts.
Start == IF client.tls THEN RecordEnd ELSE 0

\* What the handler holds at each phase: every byte that was read is in `initial`,
\* or in `sink` and `prefix`, in its place.
Held ==
  /\ taken <= arrived /\ IsRun(initial, 0)
  /\ phase = "first" => taken = 0 /\ initial = <<>>
  /\ phase \in {"first", "parse", "rest", "connect"} => sink = <<>>
  /\ phase \in {"parse", "rest"} => client.tls /\ Len(initial) = taken
  /\ phase = "rest" => WantsMore
  /\ phase = "connect" => GaveUp \/ Len(initial) = taken
  /\ phase = "proxy" => GaveUp \/ (IsRun(sink, 0) /\ Len(sink) = taken)
  /\ phase \in {"noise", "session"} =>
       /\ IsRun(sink, Start) /\ IsRun(prefix, Start + Len(sink))
       /\ Start + Len(sink) + Len(prefix) = taken

\* A further read makes up for the header, the next one for the record.
Bounds ==
  /\ Len(initial) <= FirstRead \/ Len(initial) <= MaxHello
  /\ extra <= 2
  /\ phase = "first" => extra = 0
  /\ extra >= 1 => Len(initial) >= HeaderLen
  /\ extra = 2 => Len(initial) >= RecordEnd

IntakeInv == TypeOK /\ Held /\ Bounds /\ OnlyAdmitted /\ SegmentationIrrelevant

-----------------------------------------------------------------------------
(* Runs of bytes, and the framing of a record.                              *)

\* The length of a concatenation.
LEMMA ConcatLen ==
  ASSUME NEW s \in Seq(Nat), NEW t \in Seq(Nat)
  PROVE  s \o t \in Seq(Nat) /\ Len(s \o t) = Len(s) + Len(t)
  OBVIOUS

\* Two runs that meet make one.
LEMMA ConcatRun ==
  ASSUME NEW s \in Seq(Nat), NEW t \in Seq(Nat), NEW b \in Nat,
         IsRun(s, b), IsRun(t, b + Len(s))
  PROVE  s \o t \in Seq(Nat) /\ Len(s \o t) = Len(s) + Len(t) /\ IsRun(s \o t, b)
<1>1. s \o t \in Seq(Nat) /\ Len(s \o t) = Len(s) + Len(t)
  OBVIOUS
<1>2. ASSUME NEW i \in 1 .. Len(s) + Len(t) PROVE (s \o t)[i] = b + i
  <2>1. CASE i <= Len(s)
    BY <2>1 DEF IsRun
  <2>2. CASE i > Len(s)
    <3>1. i - Len(s) \in 1 .. Len(t) /\ (s \o t)[i] = t[i - Len(s)]
      BY <2>2
    <3>2. t[i - Len(s)] = b + Len(s) + (i - Len(s))
      BY <3>1 DEF IsRun
    <3> QED BY <3>1, <3>2
  <2> QED BY <2>1, <2>2
<1>3. DOMAIN (s \o t) = 1 .. Len(s) + Len(t)
  BY <1>1
<1> QED BY <1>1, <1>2, <1>3 DEF IsRun

\* What follows the first bytes of a run is the run from there on.
LEMMA RestRun ==
  ASSUME NEW s \in Seq(Nat), NEW b \in Nat, NEW k \in Nat, k <= Len(s), IsRun(s, b)
  PROVE  /\ SubSeq(s, k + 1, Len(s)) \in Seq(Nat)
         /\ Len(SubSeq(s, k + 1, Len(s))) = Len(s) - k
         /\ IsRun(SubSeq(s, k + 1, Len(s)), b + k)
<1>1. /\ SubSeq(s, k + 1, Len(s)) \in Seq(Nat)
      /\ Len(SubSeq(s, k + 1, Len(s))) = Len(s) - k
      /\ DOMAIN SubSeq(s, k + 1, Len(s)) = 1 .. Len(s) - k
  OBVIOUS
<1>2. ASSUME NEW i \in 1 .. Len(s) - k PROVE SubSeq(s, k + 1, Len(s))[i] = (b + k) + i
  <2>1. SubSeq(s, k + 1, Len(s))[i] = s[k + i] /\ k + i \in 1 .. Len(s)
    BY SMTT(60)
  <2>2. s[k + i] = b + (k + i)
    BY <2>1 DEF IsRun
  <2> QED BY <2>1, <2>2
<1> QED BY <1>1, <1>2, Zenon DEF IsRun

\* The first bytes of a run are a run.
LEMMA FrontRun ==
  ASSUME NEW s \in Seq(Nat), NEW b, NEW k \in Nat, k <= Len(s), IsRun(s, b)
  PROVE  /\ SubSeq(s, 1, k) \in Seq(Nat) /\ Len(SubSeq(s, 1, k)) = k
         /\ IsRun(SubSeq(s, 1, k), b)
  BY DEF IsRun

\* What is read from the socket goes on where the last read ended.
LEMMA SocketRun ==
  ASSUME taken \in Nat, NEW n \in Nat
  PROVE  FromSocket(n) \in Seq(Nat) /\ Len(FromSocket(n)) = n /\ IsRun(FromSocket(n), taken)
  BY DEF FromSocket, IsRun

\* The smaller of two numbers.
LEMMA MinTwo ==
  ASSUME NEW a \in Nat, NEW b \in Nat
  PROVE  Min({a, b}) \in {a, b} /\ Min({a, b}) <= a /\ Min({a, b}) <= b
  BY DEF Min

\* The larger of two numbers.
LEMMA MaxTwo ==
  ASSUME NEW a \in Nat, NEW b \in Nat
  PROVE  Max({a, b}) \in {a, b} /\ a <= Max({a, b}) /\ b <= Max({a, b})
  BY DEF Max

\* The positions the handler computes with are numbers.
LEMMA Positions == TypeOK => RecordEnd \in Nat /\ Start \in Nat /\ Len(initial) \in Nat
  BY IntakeAssumption DEF TypeOK, ClientStream, RecordEnd, Start

\* What the three verdicts of the parser say about the record.
LEMMA Verdicts ==
  ASSUME TypeOK
  PROVE  /\ Parsed.status = "more" =>
              \/ Len(initial) < HeaderLen /\ Parsed.expected = HeaderLen
              \/ /\ HeaderLen <= Len(initial) /\ Len(initial) < RecordEnd
                 /\ RecordEnd <= MaxHello /\ Parsed.expected = RecordEnd
         /\ Parsed.status = "complete" => RecordEnd <= Len(initial)
         /\ RecordEnd <= MaxHello /\ client.hello # "malformed" =>
              Parsed.status \in {"more", "complete"}
  BY Positions, IntakeAssumption DEF Parsed, ParseClientHello

\* What depends on the stream and the buffer only.
LEMMA SameVerdict ==
  ASSUME UNCHANGED <<client, initial>>
  PROVE  /\ RecordEnd' = RecordEnd /\ Start' = Start /\ Parsed' = Parsed
         /\ GaveUp' = GaveUp /\ Legacy' = Legacy /\ Insecure' = Insecure
         /\ UNCHANGED extra => WantsMore' = WantsMore
  BY DEF RecordEnd, Start, Parsed, ParseClientHello, GaveUp, Legacy, Insecure, WantsMore

-----------------------------------------------------------------------------
(* One lemma per step of the handler.                                       *)

\* A segment that arrives changes nothing the handler holds.
LEMMA ArriveInv == IntakeInv /\ Arrive => IntakeInv'
<1> SUFFICES ASSUME IntakeInv, Arrive PROVE IntakeInv'
  OBVIOUS
<1> USE DEF IntakeInv
<1>1. UNCHANGED <<client, taken, phase, initial, extra, prefix, sink>>
  BY DEF Arrive
<1>2. arrived' \in Nat /\ arrived <= arrived'
  BY DEF Arrive, TypeOK, ClientStream
<1>3. TypeOK'
  BY <1>1, <1>2 DEF TypeOK
<1>4. Held'
  BY <1>1, <1>2, SameVerdict DEF Held, TypeOK, IsRun
<1>5. Bounds' /\ OnlyAdmitted' /\ SegmentationIrrelevant'
  BY <1>1, SameVerdict DEF Bounds, OnlyAdmitted, SegmentationIrrelevant
<1> QED BY <1>3, <1>4, <1>5

\* A handler that ends holds nothing to speak of.
LEMMA CloseInv == IntakeInv /\ Close => IntakeInv'
<1> SUFFICES ASSUME IntakeInv, Close PROVE IntakeInv'
  OBVIOUS
<1> USE DEF IntakeInv
<1>1. UNCHANGED <<client, arrived, taken, initial, extra, prefix, sink>> /\ phase' = "closed"
  BY DEF Close
<1>2. TypeOK' /\ Held'
  BY <1>1 DEF TypeOK, Held, Phases, IsRun
<1>3. Bounds' /\ OnlyAdmitted' /\ SegmentationIrrelevant'
  BY <1>1, SameVerdict DEF Bounds, OnlyAdmitted, SegmentationIrrelevant
<1> QED BY <1>2, <1>3

\* The first read: a TLS record goes to the parser, a direct client to Noise with
\* all that was read, anything else to the fallback site.
LEMMA ReadFirstInv == IntakeInv /\ ReadFirst => IntakeInv'
<1> SUFFICES ASSUME IntakeInv, ReadFirst PROVE IntakeInv'
  OBVIOUS
<1> USE DEF IntakeInv
<1> DEFINE n == Min({Available, FirstRead})
<1>1. /\ phase = "first" /\ taken = 0 /\ sink = <<>> /\ extra = 0
      /\ UNCHANGED <<client, arrived, extra, sink>>
      /\ initial' = FromSocket(n) /\ taken' = n
      /\ \/ client.tls /\ phase' = "parse" /\ UNCHANGED prefix
         \/ /\ ~ client.tls /\ client.direct /\ (Insecure \/ Legacy)
            /\ phase' = "noise" /\ prefix' = FromSocket(n)
         \/ ~ client.tls /\ phase' = "connect" /\ UNCHANGED prefix
  BY DEF ReadFirst, Held, Bounds, IsDirectNoise
<1>2. Available \in Nat /\ n \in Nat /\ n <= arrived /\ n <= FirstRead
  BY <1>1, MinTwo, IntakeAssumption, SMTT(60) DEF Available, TypeOK
<1> HIDE DEF n
<1>3. FromSocket(n) \in Seq(Nat) /\ Len(FromSocket(n)) = n /\ IsRun(FromSocket(n), 0)
  BY <1>1, <1>2, SocketRun
<1>4. TypeOK'
  BY <1>1, <1>2, <1>3 DEF TypeOK, Phases
<1>5. Held'
  <2>1. taken' <= arrived' /\ IsRun(initial, 0)' /\ Len(initial') = taken' /\ Len(sink') = 0
    BY <1>1, <1>2, <1>3 DEF IsRun
  <2>2. phase' = "noise" => Start' = 0 /\ prefix' = FromSocket(n)
    BY <1>1 DEF Start
  <2>3. phase' = "noise" =>
          /\ IsRun(sink, Start)' /\ IsRun(prefix, Start + Len(sink))'
          /\ (Start + Len(sink) + Len(prefix) = taken)'
    BY <1>1, <1>2, <1>3, <2>1, <2>2 DEF IsRun
  <2>4. phase' \in {"parse", "connect", "noise"} /\ (phase' = "parse" => client'.tls)
    BY <1>1
  <2> QED BY <1>1, <2>1, <2>3, <2>4 DEF Held
<1>6. Bounds'
  BY <1>1, <1>2, <1>3 DEF Bounds
<1>7. OnlyAdmitted' /\ SegmentationIrrelevant'
  BY <1>1 DEF OnlyAdmitted, SegmentationIrrelevant, Insecure, Legacy
<1> QED BY <1>4, <1>5, <1>6, <1>7

\* The verdict on what was read: Noise gets the bytes behind the record, the
\* fallback site all, or the handler reads on.
LEMMA VerdictInv == IntakeInv /\ (Authenticated \/ NotAuthenticated \/ AskMore) => IntakeInv'
<1> SUFFICES ASSUME IntakeInv, Authenticated \/ NotAuthenticated \/ AskMore PROVE IntakeInv'
  OBVIOUS
<1> USE DEF IntakeInv
<1>1. /\ phase = "parse" /\ client.tls /\ Len(initial) = taken /\ sink = <<>>
      /\ taken <= arrived /\ IsRun(initial, 0)
      /\ UNCHANGED <<client, arrived, taken, initial, extra, sink>>
  BY DEF Authenticated, NotAuthenticated, AskMore, Held
<1>2. /\ RecordEnd' = RecordEnd /\ Start' = RecordEnd /\ GaveUp' = GaveUp
      /\ Insecure' = Insecure /\ Legacy' = Legacy /\ WantsMore' = WantsMore
  BY <1>1, SameVerdict DEF Start
<1>3. RecordEnd \in Nat /\ Len(initial) \in Nat /\ initial \in Seq(Nat)
  BY Positions DEF TypeOK
<1>4. CASE Authenticated
  <2>1. /\ RecordEnd <= Len(initial) /\ Validate
        /\ phase' = "noise" /\ prefix' = SubSeq(initial, RecordEnd + 1, Len(initial))
    BY <1>4, Verdicts DEF Authenticated, Leftover
  <2>2. /\ prefix' \in Seq(Nat) /\ Len(prefix') = Len(initial) - RecordEnd
        /\ IsRun(prefix', RecordEnd)
    <3>1. 0 \in Nat /\ 0 + RecordEnd = RecordEnd
      BY <1>3
    <3>2. /\ prefix' \in Seq(Nat) /\ Len(prefix') = Len(initial) - RecordEnd
          /\ IsRun(prefix', 0 + RecordEnd)
      BY <1>1, <1>3, <2>1, <3>1, RestRun, ZenonT(60)
    <3> QED BY <3>1, <3>2
  <2>3. TypeOK'
    BY <1>1, <2>1, <2>2 DEF TypeOK, Phases
  <2>4. /\ IsRun(sink, Start)' /\ IsRun(prefix, Start + Len(sink))'
        /\ (Start + Len(sink) + Len(prefix) = taken)'
    BY <1>1, <1>2, <1>3, <2>2 DEF IsRun
  <2>5. Held'
    BY <1>1, <2>1, <2>4, Zenon DEF Held
  <2>6. Bounds'
    BY <1>1, <1>2, <2>1 DEF Bounds
  <2>7. OnlyAdmitted' /\ SegmentationIrrelevant'
    BY <1>1, <1>2, <2>1 DEF OnlyAdmitted, SegmentationIrrelevant, Validate
  <2> QED BY <2>3, <2>5, <2>6, <2>7
<1>5. CASE NotAuthenticated
  <2>1. /\ phase' = "connect" /\ UNCHANGED prefix /\ ~ WantsMore
        /\ Parsed.status = "complete" => ~ Validate
    BY <1>5 DEF NotAuthenticated
  <2>2. TypeOK' /\ Held'
    BY <1>1, <2>1 DEF TypeOK, Phases, Held, IsRun
  <2>3. Bounds' /\ OnlyAdmitted'
    BY <1>1, <1>2, <2>1 DEF Bounds, OnlyAdmitted
  <2>4. ~ (client.hello = "token" /\ RecordEnd <= MaxHello) \/ GaveUp
    <3> SUFFICES ASSUME client.hello = "token", RecordEnd <= MaxHello PROVE GaveUp
      OBVIOUS
    <3>1. Parsed.status = "more"
      BY <2>1, Verdicts DEF Validate
    <3>2. Parsed.expected <= MaxHello /\ Parsed.expected > Len(initial)
      BY <3>1, <1>3, Verdicts, IntakeAssumption
    <3> QED BY <2>1, <3>1, <3>2 DEF WantsMore, GaveUp
  <2>5. SegmentationIrrelevant'
    BY <1>1, <1>2, <2>4 DEF SegmentationIrrelevant
  <2> QED BY <2>2, <2>3, <2>5
<1>6. CASE AskMore
  <2>1. phase' = "rest" /\ UNCHANGED prefix /\ WantsMore
    BY <1>6 DEF AskMore
  <2>2. TypeOK' /\ Held'
    BY <1>1, <1>2, <2>1 DEF TypeOK, Phases, Held, IsRun
  <2>3. Bounds' /\ OnlyAdmitted' /\ SegmentationIrrelevant'
    BY <1>1, <1>2, <2>1 DEF Bounds, OnlyAdmitted, SegmentationIrrelevant
  <2> QED BY <2>2, <2>3
<1> QED BY <1>4, <1>5, <1>6

\* The rest is read up to the length the parser asked for, which was the header's
\* the first time at most.
LEMMA ReadRestInv == IntakeInv /\ ReadRest => IntakeInv'
<1> SUFFICES ASSUME IntakeInv, ReadRest PROVE IntakeInv'
  OBVIOUS
<1> USE DEF IntakeInv
<1> DEFINE n == Parsed.expected - Len(initial)
<1>1. /\ phase = "rest" /\ client.tls /\ Len(initial) = taken /\ sink = <<>>
      /\ taken <= arrived /\ IsRun(initial, 0) /\ WantsMore
      /\ UNCHANGED <<client, arrived, prefix, sink>>
      /\ phase' = "parse" /\ extra' = extra + 1
      /\ n <= arrived - taken /\ initial' = initial \o FromSocket(n) /\ taken' = taken + n
  BY DEF ReadRest, Held, Available, TypeOK
<1>2. RecordEnd' = RecordEnd /\ RecordEnd \in Nat /\ Len(initial) \in Nat
  BY <1>1, Positions DEF RecordEnd
<1>3. /\ Parsed.status = "more" /\ Parsed.expected <= MaxHello
      /\ \/ Len(initial) < HeaderLen /\ Parsed.expected = HeaderLen
         \/ HeaderLen <= Len(initial) /\ Parsed.expected = RecordEnd
      /\ Parsed.expected > Len(initial)
  BY <1>1, Verdicts DEF WantsMore
<1>4. n \in Nat /\ Len(initial) + n = Parsed.expected
  BY <1>2, <1>3, IntakeAssumption
<1> HIDE DEF n
<1>5. FromSocket(n) \in Seq(Nat) /\ Len(FromSocket(n)) = n /\ IsRun(FromSocket(n), taken)
  BY <1>4, SocketRun DEF TypeOK
<1>6. initial' \in Seq(Nat) /\ Len(initial') = Len(initial) + n /\ IsRun(initial', 0)
  BY <1>1, <1>5, ConcatRun DEF TypeOK
<1>7. TypeOK'
  BY <1>1, <1>4, <1>6 DEF TypeOK, Phases
<1>8. Held'
  BY <1>1, <1>4, <1>6 DEF Held, TypeOK, IsRun
<1>9. Bounds'
  <2>1. Len(initial') = Parsed.expected /\ Len(initial') >= HeaderLen
    BY <1>2, <1>3, <1>4, <1>6, IntakeAssumption
  <2>2. extra = 0 \/ Len(initial') = RecordEnd
    BY <1>2, <1>3, <2>1, IntakeAssumption DEF Bounds, TypeOK
  <2>3. extra <= 1
    BY <1>2, <1>3, IntakeAssumption, Verdicts DEF Bounds, TypeOK
  <2> QED BY <1>1, <1>2, <1>3, <2>1, <2>2, <2>3 DEF Bounds, TypeOK
<1>10. OnlyAdmitted' /\ SegmentationIrrelevant'
  BY <1>1 DEF OnlyAdmitted, SegmentationIrrelevant
<1> QED BY <1>7, <1>8, <1>9, <1>10

\* A rest that does not come: the handler returns, or the legacy one gives up.
LEMMA RestFailsInv == IntakeInv /\ RestFails => IntakeInv'
<1> SUFFICES ASSUME IntakeInv, RestFails PROVE IntakeInv'
  OBVIOUS
<1> USE DEF IntakeInv
<1>1. CASE Close
  BY <1>1, CloseInv
<1>2. CASE ~ Close
  <2>1. /\ phase = "rest" /\ WantsMore /\ Legacy /\ sink = <<>>
        /\ taken' = arrived /\ phase' = "connect"
        /\ UNCHANGED <<client, arrived, initial, extra, prefix, sink>>
    BY <1>2 DEF RestFails, Held
  <2>2. GaveUp /\ GaveUp' /\ RecordEnd' = RecordEnd
    BY <2>1, SameVerdict DEF WantsMore, GaveUp
  <2>3. TypeOK' /\ Held'
    BY <2>1, <2>2 DEF TypeOK, Phases, Held, IsRun
  <2>4. Bounds' /\ OnlyAdmitted' /\ SegmentationIrrelevant'
    BY <2>1, <2>2 DEF Bounds, OnlyAdmitted, SegmentationIrrelevant
  <2> QED BY <2>3, <2>4
<1> QED BY <1>1, <1>2

\* A read through PrefixedStream takes the next bytes of the prefix, or of the
\* socket when the prefix is used up.
LEMMA PollReadInv ==
  ASSUME IntakeInv, phase \in {"noise", "session"}, NEW n \in Nat, PollRead(n),
         UNCHANGED <<client, arrived, phase, initial, extra>>
  PROVE  IntakeInv'
<1> USE DEF IntakeInv
<1>1. /\ RecordEnd' = RecordEnd /\ Start' = Start /\ Start \in Nat
      /\ Insecure' = Insecure /\ Legacy' = Legacy
  BY SameVerdict, Positions
<1>2. /\ IsRun(sink, Start) /\ IsRun(prefix, Start + Len(sink)) /\ taken <= arrived
      /\ Start + Len(sink) + Len(prefix) = taken
      /\ sink \in Seq(Nat) /\ prefix \in Seq(Nat) /\ taken \in Nat /\ arrived \in Nat
  BY DEF Held, TypeOK
<1>3. /\ sink' \in Seq(Nat) /\ prefix' \in Seq(Nat) /\ taken' \in Nat /\ taken' <= arrived
      /\ IsRun(sink', Start) /\ IsRun(prefix', Start + Len(sink'))
      /\ Start + Len(sink') + Len(prefix') = taken'
  <2>1. CASE prefix # <<>>
    <3> DEFINE k == Min({n, Len(prefix)})
    <3>1. /\ sink' = sink \o SubSeq(prefix, 1, k)
          /\ prefix' = SubSeq(prefix, k + 1, Len(prefix)) /\ taken' = taken
      BY <2>1, Zenon DEF PollRead
    <3>2. k \in Nat /\ k <= Len(prefix) /\ Len(prefix) \in Nat /\ Len(sink) \in Nat
      BY <1>2, MinTwo, SMTT(60)
    <3> HIDE DEF k
    <3>3. /\ sink' \in Seq(Nat) /\ Len(sink') = Len(sink) + k /\ IsRun(sink', Start)
          /\ prefix' \in Seq(Nat) /\ Len(prefix') = Len(prefix) - k
          /\ IsRun(prefix', Start + (Len(sink) + k))
      <4>1. /\ SubSeq(prefix, 1, k) \in Seq(Nat) /\ Len(SubSeq(prefix, 1, k)) = k
            /\ IsRun(SubSeq(prefix, 1, k), Start + Len(sink))
        BY <1>2, <3>2, FrontRun, ZenonT(60)
      <4>2. sink' \in Seq(Nat) /\ Len(sink') = Len(sink) + k /\ IsRun(sink', Start)
        BY <1>1, <1>2, <3>1, <4>1, ConcatRun, ZenonT(60)
      <4>3. Start + Len(sink) \in Nat /\ (Start + Len(sink)) + k = Start + (Len(sink) + k)
        BY <1>1, <3>2
      <4>4. /\ prefix' \in Seq(Nat) /\ Len(prefix') = Len(prefix) - k
            /\ IsRun(prefix', (Start + Len(sink)) + k)
        BY <1>2, <3>1, <3>2, <4>3, RestRun, ZenonT(60)
      <4> QED BY <4>2, <4>3, <4>4, ZenonT(60)
    <3>4. Start + (Len(sink) + k) + (Len(prefix) - k) = taken
      <4>1. Start \in Nat /\ Start + Len(sink) + Len(prefix) = taken
        BY <1>1, <1>2, ZenonT(60)
      <4> QED BY <3>2, <4>1
    <3> QED BY <1>2, <3>1, <3>3, <3>4, ZenonT(60)
  <2>2. CASE prefix = <<>>
    <3> DEFINE k == Min({n, Available})
    <3>1. sink' = sink \o FromSocket(k) /\ taken' = taken + k /\ prefix' = <<>>
      BY <2>2, Zenon DEF PollRead
    <3>2. k \in Nat /\ taken + k <= arrived /\ Len(sink) \in Nat /\ Start + Len(sink) = taken
      BY <1>1, <1>2, <2>2, MinTwo DEF Available
    <3> HIDE DEF k
    <3>3. FromSocket(k) \in Seq(Nat) /\ Len(FromSocket(k)) = k /\ IsRun(FromSocket(k), taken)
      BY <1>2, <3>2, SocketRun
    <3>4. sink' \in Seq(Nat) /\ Len(sink') = Len(sink) + k /\ IsRun(sink', Start)
      BY <1>1, <1>2, <3>1, <3>2, <3>3, ConcatRun, ZenonT(60)
    <3>5. prefix' \in Seq(Nat) /\ Len(prefix') = 0 /\ IsRun(prefix', Start + Len(sink'))
      <4>1. prefix' = <<>>
        BY <3>1
      <4> QED BY <4>1 DEF IsRun
    <3>6. taken + k \in Nat /\ Start + (Len(sink) + k) + 0 = taken + k
      <4>1. Start \in Nat /\ taken \in Nat
        BY <1>1, <1>2, ZenonT(60)
      <4> QED BY <3>2, <4>1
    <3> QED BY <3>1, <3>2, <3>4, <3>5, <3>6, ZenonT(60)
  <2> QED BY <2>1, <2>2
<1>4. TypeOK'
  BY <1>3 DEF TypeOK
<1>5. Held'
  BY <1>1, <1>3, Zenon DEF Held
<1>6. Bounds' /\ OnlyAdmitted' /\ SegmentationIrrelevant'
  BY <1>1 DEF Bounds, OnlyAdmitted, SegmentationIrrelevant
<1> QED BY <1>4, <1>5, <1>6

\* The reads of the handshake and of the session, and the step between them.
LEMMA NoiseInv == IntakeInv /\ (NoiseRead \/ NoiseDone \/ SessionRead) => IntakeInv'
<1> SUFFICES ASSUME IntakeInv, NoiseRead \/ NoiseDone \/ SessionRead PROVE IntakeInv'
  OBVIOUS
<1>1. CASE NoiseRead
  <2>1. NoiseLen - Len(sink) \in Nat
    BY <1>1, IntakeAssumption DEF NoiseRead, IntakeInv, TypeOK
  <2> QED BY <1>1, <2>1, PollReadInv DEF NoiseRead
<1>2. CASE SessionRead
  <2>1. PICK n \in {1, client.total} : PollRead(n)
    BY <1>2 DEF SessionRead
  <2>2. n \in Nat
    BY DEF IntakeInv, TypeOK, ClientStream
  <2> QED BY <1>2, <2>1, <2>2, PollReadInv DEF SessionRead
<1>3. CASE NoiseDone
  <2>1. /\ phase = "noise" /\ phase' = "session"
        /\ UNCHANGED <<client, arrived, taken, initial, extra, prefix, sink>>
    BY <1>3 DEF NoiseDone
  <2>2. /\ RecordEnd' = RecordEnd /\ Start' = Start
        /\ Insecure' = Insecure /\ Legacy' = Legacy
    BY <2>1, SameVerdict
  <2>3. TypeOK' /\ Held'
    BY <2>1, <2>2 DEF IntakeInv, TypeOK, Phases, Held, IsRun
  <2>4. Bounds' /\ OnlyAdmitted' /\ SegmentationIrrelevant'
    BY <2>1, <2>2 DEF IntakeInv, Bounds, OnlyAdmitted, SegmentationIrrelevant
  <2> QED BY <2>3, <2>4 DEF IntakeInv
<1> QED BY <1>1, <1>2, <1>3

\* The fallback site gets what was read, then what comes.
LEMMA ProxyInv == IntakeInv /\ (ProxyConnected \/ ProxyCopy) => IntakeInv'
<1> SUFFICES ASSUME IntakeInv, ProxyConnected \/ ProxyCopy PROVE IntakeInv'
  OBVIOUS
<1> USE DEF IntakeInv
<1>1. /\ phase \in {"connect", "proxy"} /\ phase' = "proxy"
      /\ UNCHANGED <<client, arrived, initial, extra, prefix>>
  BY DEF ProxyConnected, ProxyCopy
<1>2. RecordEnd' = RecordEnd /\ GaveUp' = GaveUp
  BY <1>1, SameVerdict
<1>3. /\ sink' \in Seq(Nat) /\ taken' \in Nat /\ taken' <= arrived
      /\ GaveUp \/ (IsRun(sink', 0) /\ Len(sink') = taken')
  <2>1. CASE ProxyConnected
    BY <2>1 DEF ProxyConnected, Held, TypeOK
  <2>2. CASE ProxyCopy
    <3>1. /\ sink' = sink \o FromSocket(Available) /\ taken' = arrived
          /\ GaveUp \/ (IsRun(sink, 0) /\ Len(sink) = taken)
      BY <2>2 DEF ProxyCopy, Held
    <3>2. /\ Available \in Nat /\ taken + Available = arrived
          /\ arrived \in Nat /\ taken \in Nat /\ sink \in Seq(Nat)
      BY DEF Available, Held, TypeOK
    <3>3. /\ FromSocket(Available) \in Seq(Nat) /\ Len(FromSocket(Available)) = Available
          /\ IsRun(FromSocket(Available), taken)
      BY <3>2, SocketRun
    <3>4. sink' \in Seq(Nat) /\ Len(sink') = Len(sink) + Available
      BY <3>1, <3>2, <3>3, ConcatLen, ZenonT(60)
    <3>5. ASSUME ~ GaveUp PROVE IsRun(sink', 0)
      <4>1. 0 \in Nat /\ IsRun(sink, 0) /\ IsRun(FromSocket(Available), 0 + Len(sink))
        BY <3>1, <3>2, <3>3, <3>5
      <4> QED BY <3>1, <3>2, <3>3, <4>1, ConcatRun, ZenonT(60)
    <3> QED BY <3>1, <3>2, <3>4, <3>5
  <2> QED BY <2>1, <2>2
<1>4. TypeOK'
  BY <1>1, <1>3 DEF TypeOK, Phases
<1>5. Held'
  BY <1>1, <1>2, <1>3 DEF Held, IsRun
<1>6. Bounds' /\ OnlyAdmitted' /\ SegmentationIrrelevant'
  BY <1>1, <1>2 DEF Bounds, OnlyAdmitted, SegmentationIrrelevant
<1> QED BY <1>4, <1>5, <1>6

-----------------------------------------------------------------------------
(* The theorems.                                                            *)

\* The inductive invariant holds.
LEMMA IntakeInvHolds == Spec => []IntakeInv
<1>1. Init => IntakeInv
  <2> SUFFICES ASSUME Init PROVE IntakeInv
    OBVIOUS
  <2>1. TypeOK
    BY IntakeAssumption DEF Init, TypeOK, Phases
  <2>2. Held /\ Bounds /\ OnlyAdmitted /\ SegmentationIrrelevant
    BY IntakeAssumption DEF Init, Held, Bounds, OnlyAdmitted, SegmentationIrrelevant, IsRun
  <2> QED BY <2>1, <2>2 DEF IntakeInv
<1>2. IntakeInv /\ [Next]_vars => IntakeInv'
  <2> SUFFICES ASSUME IntakeInv, [Next]_vars PROVE IntakeInv'
    OBVIOUS
  <2>1. CASE UNCHANGED vars
    <3>1. UNCHANGED <<client, arrived, taken, phase, initial, extra, prefix, sink>>
      BY <2>1 DEF vars
    <3>2. TypeOK' /\ Held'
      BY <3>1, SameVerdict DEF IntakeInv, TypeOK, Held, IsRun
    <3>3. Bounds' /\ OnlyAdmitted' /\ SegmentationIrrelevant'
      BY <3>1, SameVerdict DEF IntakeInv, Bounds, OnlyAdmitted, SegmentationIrrelevant
    <3> QED BY <3>2, <3>3 DEF IntakeInv
  <2>2. CASE FirstFails \/ NoiseFails \/ SessionEnds \/ ProxyFails \/ ProxyEnds
    BY <2>2, CloseInv DEF FirstFails, NoiseFails, SessionEnds, ProxyFails, ProxyEnds
  <2> QED
    BY <2>1, <2>2, ArriveInv, ReadFirstInv, VerdictInv, ReadRestInv, RestFailsInv, NoiseInv,
       ProxyInv DEF Next, Closed
<1> QED BY <1>1, <1>2, PTL DEF Spec

\* Noise gets exactly the bytes behind the ClientHello, whatever the lengths of
\* header, record, first read and segments (handle_connection, PrefixedStream).
THEOREM NoiseGetsItsBytes == Spec => []NoiseGetsTheRest
<1>1. IntakeInv => NoiseGetsTheRest
  <2> SUFFICES ASSUME IntakeInv, phase \in {"noise", "session"}
               PROVE  IsRun(sink \o prefix, Start)
    BY DEF NoiseGetsTheRest, Start
  <2>1. /\ sink \in Seq(Nat) /\ prefix \in Seq(Nat) /\ Start \in Nat
        /\ IsRun(sink, Start) /\ IsRun(prefix, Start + Len(sink))
    BY Positions DEF IntakeInv, Held, TypeOK
  <2> QED BY <2>1, ConcatRun, ZenonT(60)
<1> QED BY <1>1, IntakeInvHolds, PTL

\* The fallback site gets the client's stream from its first byte on
\* (fall_through_proxy).
THEOREM FallbackGetsItsBytes == Spec => []FallbackGetsAll
<1>1. IntakeInv => FallbackGetsAll
  BY DEF IntakeInv, Held, FallbackGetsAll
<1> QED BY <1>1, IntakeInvHolds, PTL

\* Only a client that was validated, or a direct one where that is allowed, gets to
\* the Noise handshake (handle_connection).
THEOREM AdmissionChecked == Spec => []OnlyAdmitted
<1>1. IntakeInv => OnlyAdmitted
  BY DEF IntakeInv
<1> QED BY <1>1, IntakeInvHolds, PTL

\* No cut into segments sends a good client to the fallback site (the read loop of
\* handle_connection).
THEOREM CutsDoNotMatter == Spec => []SegmentationIrrelevant
<1>1. IntakeInv => SegmentationIrrelevant
  BY DEF IntakeInv
<1> QED BY <1>1, IntakeInvHolds, PTL

\* The buffer stays within the two limits and two further reads are enough,
\* whatever length a record announces (handle_connection).
THEOREM BufferStaysBounded == Spec => []BufferBounded
<1>1. IntakeInv => BufferBounded
  <2> SUFFICES ASSUME IntakeInv PROVE BufferBounded
    OBVIOUS
  <2>1. /\ Len(initial) \in Nat /\ extra <= 2
        /\ Len(initial) <= FirstRead \/ Len(initial) <= MaxHello
    BY DEF IntakeInv, TypeOK, Bounds
  <2>2. /\ FirstRead \in Nat /\ MaxHello \in Nat /\ Max({FirstRead, MaxHello}) \in Nat
        /\ FirstRead <= Max({FirstRead, MaxHello}) /\ MaxHello <= Max({FirstRead, MaxHello})
    BY MaxTwo, IntakeAssumption
  <2> QED BY <2>1, <2>2 DEF BufferBounded
<1> QED BY <1>1, IntakeInvHolds, PTL

=============================================================================
