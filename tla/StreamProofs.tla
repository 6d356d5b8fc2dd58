---------------------------- MODULE StreamProofs ----------------------------
(***************************************************************************)
(* Theorems about one direction of a connection that carries frames: for   *)
(* every medium, every size of a frame and of the channel, a limit below,  *)
(* at or above that of a frame, any number of frames and any way in which  *)
(* the bytes arrive.                                                       *)
(***************************************************************************)
EXTENDS FrameStream, TLAPS

-----------------------------------------------------------------------------
(* The inductive invariant *)

\* Bytes of the first k packets.
Bytes(k) == (1 .. k) \X Nat

TypeOK ==
  /\ medium \in Media /\ limit \in Nat /\ (medium # "tcp" => limit = CipherSize)
  /\ frames \in Seq({"good", "bad"})
  /\ medium # "codec" => \A n \in DOMAIN frames : frames[n] = "good"
  /\ wire \in Seq(Bytes(Len(frames))) /\ buf \in Seq(Bytes(Len(frames)))
  /\ want \in Nat \cup {-1} /\ nonce \in Nat /\ out \in Seq(Nat)
  /\ ~ Prefixed => want = -1
  /\ medium = "memory" => buf = <<>>
  /\ sender \in {"open", "closed", "gone"}
  /\ medium \in {"noise", "codec"} => sender # "closed"

\* What was decrypted are the frames up to the nonce, each returned once and in order.
Decrypted ==
  /\ nonce <= Len(frames)
  /\ \A i \in DOMAIN out : out[i] <= nonce
  /\ \A i, j \in DOMAIN out : i < j /\ out[i] # 0 /\ out[j] # 0 => out[i] < out[j]
  /\ \A n \in 1 .. nonce : \E i \in DOMAIN out : out[i] = n

\* What the codec returns for each frame; the rest of a stream that was cut is an error.
CodecValue(n) == IF frames[n] = "good" THEN n ELSE 0

Decodes ==
  /\ \A i \in DOMAIN out : \/ i \in DOMAIN frames /\ out[i] = CodecValue(i)
                           \/ ended /\ i = Len(out) /\ out[i] = 0
  /\ ended => Len(buf) < CipherSize
  /\ lost => sender = "gone"

\* Packets of p bytes, the first of them that of frame f and without its first `pre`
\* bytes; a packet's bytes are numbered from o on.
Run(s, f, pre, p, o) ==
  \A m \in Nat, i \in 1 .. p, x \in DOMAIN s : x + pre = m * p + i => s[x] = <<f + m, o + i>>

PacketSize == IF Prefixed THEN HeaderSize + CipherSize ELSE CipherSize
Offset == IF Prefixed THEN 0 ELSE HeaderSize
Consumed == IF want = -1 THEN 0 ELSE HeaderSize
Stream == buf \o wire
Count == CHOOSE n \in Nat : accepted = 1 .. n

\* The receiver is at the frame after those it has returned.
Aligned == Run(Stream, Len(out) + 1, Consumed, PacketSize, Offset)

\* With nothing lost, what is accepted and not returned is on its way.
Complete ==
  /\ Count \in Nat /\ accepted = 1 .. Count /\ Count <= Len(frames)
  /\ sender = "open" /\ CipherSize <= limit => Count = Len(frames)
  /\ limit < CipherSize => Count = 0
  /\ Len(out) <= Count
  /\ Consumed + Len(Stream) = (Count - Len(out)) * PacketSize
  /\ medium # "codec" => nonce = Len(out)
  /\ \A i \in DOMAIN out : out[i] = CodecValue(i)
  /\ want \in {-1, CipherSize}
  /\ ended => IF medium = "memory" THEN closed ELSE Stream = <<>> /\ want = -1 /\ SenderEnded

StreamInv ==
  /\ TypeOK
  /\ IF medium = "codec" THEN Decodes ELSE Decrypted
  /\ ~ lost \/ (medium = "codec" /\ ~ ended) => Aligned
  /\ ~ lost => Complete

-----------------------------------------------------------------------------
(* Numbers *)

\* Of multiples of p, the one within p above L * p is L * p.
LEMMA SamePacket ==
  ASSUME NEW p \in Nat \ {0}, NEW m \in Nat, NEW L \in Nat, NEW i \in 1 .. p,
         L * p < m * p + i, m * p + i <= L * p + p
  PROVE  m = L
<1>1. CASE m < L
  <2>1. PICK k \in Nat : L = m + 1 + k
    BY <1>1
  <2>2. L * p = m * p + p + k * p /\ k * p \in Nat /\ m * p \in Nat
    BY <2>1
  <2> QED BY <2>2
<1>2. CASE L < m
  <2>1. PICK k \in Nat : m = L + 1 + k
    BY <1>2
  <2>2. m * p = L * p + p + k * p /\ k * p \in Nat /\ L * p \in Nat
    BY <2>1
  <2> QED BY <2>2
<1> QED BY <1>1, <1>2

\* A positive number of packets has at least p bytes.
LEMMA OnePacket ==
  ASSUME NEW p \in Nat \ {0}, NEW L \in Nat
  PROVE  /\ L * p \in Nat
         /\ L # 0 => p <= L * p
         /\ (L + 1) * p = L * p + p
<1>1. L * p \in Nat /\ (L + 1) * p = L * p + p
  OBVIOUS
<1>2. ASSUME L # 0 PROVE p <= L * p
  <2>1. PICK k \in Nat : L = k + 1
    BY <1>2
  <2>2. L * p = k * p + p /\ k * p \in Nat
    BY <2>1
  <2> QED BY <2>2
<1> QED BY <1>1, <1>2

\* The number of elements of an interval from 1 on.
LEMMA Counted ==
  ASSUME NEW n \in Nat
  PROVE  (CHOOSE m \in Nat : 1 .. n = 1 .. m) = n
<1>1. ASSUME NEW m \in Nat, 1 .. n = 1 .. m PROVE m = n
  <2>1. (m # 0 => m \in 1 .. n) /\ (n # 0 => n \in 1 .. m)
    BY <1>1
  <2> QED BY <2>1
<1> QED BY <1>1, Zenon

-----------------------------------------------------------------------------
(* Sequences *)

\* Sequences with the same elements are equal.
LEMMA SameElements ==
  ASSUME NEW S, NEW s \in Seq(S), NEW t \in Seq(S), Len(s) = Len(t), \A i \in 1 .. Len(s) : s[i] = t[i]
  PROVE  s = t
OBVIOUS

\* What cutting and joining do to a sequence.
LEMMA Cut ==
  ASSUME NEW S, NEW s \in Seq(S), NEW k \in 0 .. Len(s)
  PROVE  /\ SubSeq(s, 1, k) \in Seq(S) /\ Len(SubSeq(s, 1, k)) = k
         /\ \A j \in 1 .. k : SubSeq(s, 1, k)[j] = s[j]
         /\ SubSeq(s, k + 1, Len(s)) \in Seq(S) /\ Len(SubSeq(s, k + 1, Len(s))) = Len(s) - k
         /\ \A j \in 1 .. Len(s) - k : SubSeq(s, k + 1, Len(s))[j] = s[j + k]
<1>1. Len(s) \in Nat /\ k \in Nat /\ k <= Len(s)
  OBVIOUS
<1>2. /\ SubSeq(s, 1, k) \in Seq(S) /\ Len(SubSeq(s, 1, k)) = k
      /\ \A j \in 1 .. k : SubSeq(s, 1, k)[j] = s[j]
  BY <1>1
<1>3. /\ SubSeq(s, k + 1, Len(s)) \in Seq(S) /\ Len(SubSeq(s, k + 1, Len(s))) = Len(s) - k
      /\ \A j \in 1 .. Len(s) - k : SubSeq(s, k + 1, Len(s))[j] = s[j + k]
  BY <1>1
<1> QED BY <1>2, <1>3

\* The elements of a concatenation.
LEMMA Join ==
  ASSUME NEW S, NEW s \in Seq(S), NEW t \in Seq(S)
  PROVE  /\ s \o t \in Seq(S) /\ Len(s \o t) = Len(s) + Len(t)
         /\ Len(s) \in Nat /\ Len(t) \in Nat
         /\ DOMAIN s = 1 .. Len(s) /\ DOMAIN t = 1 .. Len(t) /\ DOMAIN (s \o t) = 1 .. Len(s) + Len(t)
         /\ \A j \in 1 .. Len(s) : (s \o t)[j] = s[j]
         /\ \A j \in 1 .. Len(t) : (s \o t)[Len(s) + j] = t[j]
OBVIOUS

\* A name for the equation, for the prover to instantiate the next lemma by.
Joined(a, b, t) == a \o b = t

\* A sequence is the concatenation of its two parts.
LEMMA Parts ==
  ASSUME NEW S, NEW t \in Seq(S), NEW a \in Seq(S), NEW b \in Seq(S), NEW k \in 0 .. Len(t),
         Len(a) = k, \A j \in 1 .. k : a[j] = t[j],
         Len(b) = Len(t) - k, \A j \in 1 .. Len(t) - k : b[j] = t[j + k]
  PROVE  Joined(a, b, t)
<1>1. Len(t) \in Nat /\ k \in Nat /\ k <= Len(t)
  OBVIOUS
<1>2. /\ a \o b \in Seq(S) /\ Len(a \o b) = Len(a) + Len(b)
      /\ \A j \in 1 .. Len(a) : (a \o b)[j] = a[j]
      /\ \A j \in 1 .. Len(b) : (a \o b)[Len(a) + j] = b[j]
  BY Join
<1>3. Len(a \o b) = Len(t)
  BY <1>1, <1>2
<1>4. ASSUME NEW j \in 1 .. Len(t) PROVE (a \o b)[j] = t[j]
  <2>1. CASE j <= k
    BY <1>1, <1>2, <2>1
  <2>2. CASE k < j
    <3>1. PICK i \in 1 .. Len(t) - k : i + k = j /\ k + i = j
      <4>1. j - k \in 1 .. Len(t) - k /\ j - k + k = j /\ k + (j - k) = j
        BY <1>1, <2>2
      <4> QED BY <4>1
    <3>2. (a \o b)[k + i] = b[i] /\ b[i] = t[i + k]
      BY <1>2
    <3> QED BY <3>1, <3>2, Zenon
  <2> QED BY <1>1, <2>1, <2>2
<1> QED BY <1>2, <1>3, <1>4, SameElements, Zenon DEF Joined

\* Concatenation is associative, with a name for the equation.
Associative(s, t, u) == (s \o t) \o u = s \o (t \o u)

\* It holds for any three sequences.
LEMMA JoinAssociative == \A S : \A s, t, u \in Seq(S) : Associative(s, t, u)
<1> SUFFICES ASSUME NEW S, NEW s \in Seq(S), NEW t \in Seq(S), NEW u \in Seq(S)
             PROVE  Associative(s, t, u)
  BY Zenon
<1>1. (s \o t) \o u = s \o (t \o u)
  OBVIOUS
<1> QED BY <1>1, Zenon DEF Associative

\* A part that moves from the front of one to the end of the other.
LEMMA Moved ==
  ASSUME NEW S, NEW s \in Seq(S), NEW t \in Seq(S), NEW k \in 0 .. Len(t)
  PROVE  (s \o SubSeq(t, 1, k)) \o SubSeq(t, k + 1, Len(t)) = s \o t
<1>1. /\ SubSeq(t, 1, k) \in Seq(S) /\ Len(SubSeq(t, 1, k)) = k
      /\ \A j \in 1 .. k : SubSeq(t, 1, k)[j] = t[j]
  BY Cut
<1>2. /\ SubSeq(t, k + 1, Len(t)) \in Seq(S) /\ Len(SubSeq(t, k + 1, Len(t))) = Len(t) - k
      /\ \A j \in 1 .. Len(t) - k : SubSeq(t, k + 1, Len(t))[j] = t[j + k]
  BY Cut
<1>3. PICK a \in Seq(S) : a = SubSeq(t, 1, k)
  BY <1>1, Zenon
<1>4. PICK b \in Seq(S) : b = SubSeq(t, k + 1, Len(t))
  BY <1>2, Zenon
<1>5. a \o b = t
  <2>1. Len(a) = k /\ \A j \in 1 .. k : a[j] = t[j]
    BY <1>1, <1>3
  <2>2. Len(b) = Len(t) - k /\ \A j \in 1 .. Len(t) - k : b[j] = t[j + k]
    BY <1>2, <1>4
  <2>3. Joined(a, b, t)
    BY ONLY <2>1, <2>2, Parts, t \in Seq(S), a \in Seq(S), b \in Seq(S), k \in 0 .. Len(t), Zenon
  <2> QED BY ONLY <2>3, Zenon DEF Joined
<1>6. (s \o a) \o b = s \o (a \o b)
  <2>1. Associative(s, a, b)
    BY JoinAssociative, Zenon
  <2> QED BY <2>1, Zenon DEF Associative
<1> QED BY <1>3, <1>4, <1>5, <1>6, Zenon

-----------------------------------------------------------------------------
(* Runs of packets *)

\* A run that is cut at its end is a run.
LEMMA RunPrefix ==
  ASSUME NEW S, NEW s \in Seq(S), NEW t \in Seq(S), Len(t) <= Len(s),
         \A j \in 1 .. Len(t) : t[j] = s[j],
         NEW f, NEW pre, NEW p, NEW o, Run(s, f, pre, p, o)
  PROVE  Run(t, f, pre, p, o)
<1>1. DOMAIN t \subseteq DOMAIN s /\ \A j \in DOMAIN t : t[j] = s[j]
  OBVIOUS
<1> QED BY <1>1, Zenon DEF Run

\* Bytes that are consumed are missing from the first packet.
LEMMA RunDrop ==
  ASSUME NEW S, NEW s \in Seq(S), NEW t \in Seq(S), NEW c \in 0 .. Len(s),
         Len(t) = Len(s) - c, \A j \in 1 .. Len(t) : t[j] = s[j + c],
         NEW f, NEW pre \in Nat, NEW p \in Nat, NEW o, Run(s, f, pre, p, o)
  PROVE  Run(t, f, pre + c, p, o)
<1> SUFFICES ASSUME NEW m \in Nat, NEW i \in 1 .. p, NEW x \in DOMAIN t, x + (pre + c) = m * p + i
             PROVE  t[x] = <<f + m, o + i>>
  BY Zenon DEF Run
<1>1. x \in 1 .. Len(t) /\ x \in Nat /\ c \in Nat /\ x + c \in DOMAIN s
  BY ONLY x \in DOMAIN t, s \in Seq(S), t \in Seq(S), c \in 0 .. Len(s), Len(t) = Len(s) - c
<1>2. (x + c) + pre = x + (pre + c)
  BY <1>1
<1>3. (x + c) + pre = m * p + i
  BY <1>2, Zenon
<1>4. s[x + c] = <<f + m, o + i>>
  BY <1>1, <1>3, Zenon DEF Run
<1> QED BY <1>1, <1>4, Zenon

\* A packet without any of its bytes is no packet.
LEMMA RunNext ==
  ASSUME NEW S, NEW t \in Seq(S), NEW f \in Nat, NEW p \in Nat \ {0}, NEW o, Run(t, f, p, p, o)
  PROVE  Run(t, f + 1, 0, p, o)
<1> SUFFICES ASSUME NEW m \in Nat, NEW i \in 1 .. p, NEW x \in DOMAIN t, x + 0 = m * p + i
             PROVE  t[x] = <<f + 1 + m, o + i>>
  BY Zenon DEF Run
<1>1. (m + 1) * p = m * p + p /\ m * p \in Nat
  BY OnePacket
<1>2. x \in Nat /\ f + (m + 1) = f + 1 + m /\ m + 1 \in Nat
  OBVIOUS
<1>3. x + p = (m + 1) * p + i
  BY <1>1, <1>2
<1>4. t[x] = <<f + (m + 1), o + i>>
  BY <1>2, <1>3, Zenon DEF Run
<1> QED BY <1>2, <1>4, Zenon

\* The next packet continues a run that ends with a packet.
LEMMA RunAppend ==
  ASSUME NEW S, NEW s \in Seq(S), NEW u \in Seq(S), NEW f \in Nat, NEW pre \in Nat,
         NEW p \in Nat \ {0}, NEW o, NEW k \in Nat
  PROVE  /\ Run(s, f, pre, p, o)
         /\ pre + Len(s) = k * p /\ Len(u) = Len(s) + p
         /\ \A j \in 1 .. Len(s) : u[j] = s[j]
         /\ \A i \in 1 .. p : u[Len(s) + i] = <<f + k, o + i>>
         => Run(u, f, pre, p, o)
<1>a. SUFFICES ASSUME Run(s, f, pre, p, o),
                      pre + Len(s) = k * p, Len(u) = Len(s) + p,
                      \A j \in 1 .. Len(s) : u[j] = s[j],
                      \A i \in 1 .. p : u[Len(s) + i] = <<f + k, o + i>>,
                      NEW m \in Nat, NEW i \in 1 .. p, NEW x \in DOMAIN u, x + pre = m * p + i
               PROVE  u[x] = <<f + m, o + i>>
  BY Zenon DEF Run
<1>0. Len(u) = Len(s) + p
  BY <1>a
<1>1. /\ Len(s) \in Nat /\ DOMAIN s = 1 .. Len(s) /\ DOMAIN u = 1 .. Len(s) + p
      /\ x \in Nat /\ i \in Nat /\ x <= Len(s) + p /\ (x \in 1 .. Len(s) \/ Len(s) < x)
  BY <1>0
<1>2. CASE x \in 1 .. Len(s)
  <2>1. s[x] = <<f + m, o + i>>
    BY <1>a, <1>1, <1>2, Zenon DEF Run
  <2> QED BY <1>a, <1>1, <1>2, <2>1, Zenon
<1>3. CASE Len(s) < x
  <2>1. PICK y \in Nat, z \in Nat : y = k * p /\ z = m * p
    BY OnePacket
  <2>2. pre + Len(s) = y /\ x + pre = z + i
    BY <1>a, <2>1, Zenon
  <2>3. y < z + i /\ z + i <= y + p
    BY <1>1, <1>3, <2>2
  <2>4. m = k
    BY <2>1, <2>3, SamePacket, Zenon
  <2>5. z = y
    BY <2>1, <2>4, Zenon
  <2>6. x = Len(s) + i
    BY <1>1, <2>2, <2>5
  <2> QED BY <1>a, <2>4, <2>6, Zenon
<1> QED BY <1>1, <1>2, <1>3

-----------------------------------------------------------------------------
(* Packets *)

\* The body of a packet.
LEMMA BodyFacts ==
  ASSUME NEW n \in Nat \ {0}
  PROVE  /\ Body(n) \in Seq(Bytes(n)) /\ Len(Body(n)) = CipherSize
         /\ \A i \in 1 .. CipherSize : Body(n)[i] = <<n, HeaderSize + i>>
         /\ 1 \in 1 .. CipherSize /\ CipherSize \in Nat \ {0}
<1>1. CipherSize \in Nat \ {0} /\ 1 \in 1 .. CipherSize
  BY StreamAssumption
<1>2. \A i \in 1 .. CipherSize : <<n, HeaderSize + i>> \in Bytes(n)
  BY <1>1 DEF Bytes, HeaderSize
<1>3. Body(n) = [i \in 1 .. CipherSize |-> <<n, HeaderSize + i>>]
  BY DEF Body
<1>4. Body(n) \in Seq(Bytes(n)) /\ Len(Body(n)) = CipherSize
  BY <1>1, <1>2, <1>3
<1> QED BY <1>1, <1>3, <1>4

\* Its header.
LEMMA HeaderFacts ==
  ASSUME NEW n \in Nat \ {0}
  PROVE  /\ Header(n) \in Seq(Bytes(n)) /\ Len(Header(n)) = HeaderSize
         /\ \A i \in 1 .. HeaderSize : Header(n)[i] = <<n, i>>
<1>1. \A i \in 1 .. HeaderSize : <<n, i>> \in Bytes(n)
  BY DEF Bytes, HeaderSize
<1>2. Header(n) = [i \in 1 .. HeaderSize |-> <<n, i>>] /\ HeaderSize \in Nat
  BY DEF Header, HeaderSize
<1>3. Header(n) \in Seq(Bytes(n)) /\ Len(Header(n)) = HeaderSize
  BY <1>1, <1>2
<1> QED BY <1>2, <1>3

\* A packet is made of PacketSize bytes, numbered from Offset on.
LEMMA PacketFacts ==
  ASSUME NEW n \in Nat \ {0}
  PROVE  /\ PacketSize \in Nat \ {0} /\ Offset \in Nat
         /\ Packet(n) \in Seq(Bytes(n)) /\ Len(Packet(n)) = PacketSize
         /\ \A i \in 1 .. PacketSize : Packet(n)[i] = <<n, Offset + i>>
<1>1. CASE ~ Prefixed
  BY <1>1, BodyFacts DEF PacketSize, Offset, Packet, HeaderSize
<1>2. CASE Prefixed
  <2>1. PacketSize = HeaderSize + CipherSize /\ Offset = 0 /\ Packet(n) = Header(n) \o Body(n)
    BY <1>2 DEF PacketSize, Offset, Packet
  <2>2. HeaderSize = 2 /\ CipherSize \in Nat \ {0}
    BY BodyFacts DEF HeaderSize
  <2>3. /\ Packet(n) \in Seq(Bytes(n)) /\ Len(Packet(n)) = HeaderSize + CipherSize
        /\ \A j \in 1 .. HeaderSize : Packet(n)[j] = Header(n)[j]
        /\ \A j \in 1 .. CipherSize : Packet(n)[HeaderSize + j] = Body(n)[j]
    <3>1. PICK h \in Seq(Bytes(n)) : h = Header(n) /\ Len(h) = HeaderSize
      BY HeaderFacts, Zenon
    <3>2. PICK b \in Seq(Bytes(n)) : b = Body(n) /\ Len(b) = CipherSize
      BY BodyFacts, Zenon
    <3>3. /\ h \o b \in Seq(Bytes(n)) /\ Len(h \o b) = Len(h) + Len(b)
          /\ \A j \in 1 .. Len(h) : (h \o b)[j] = h[j]
          /\ \A j \in 1 .. Len(b) : (h \o b)[Len(h) + j] = b[j]
      BY Join
    <3> QED BY <2>1, <3>1, <3>2, <3>3, Zenon
  <2>4. ASSUME NEW i \in 1 .. PacketSize PROVE Packet(n)[i] = <<n, Offset + i>>
    <3>1. CASE i \in 1 .. HeaderSize
      BY <2>1, <2>2, <2>3, <3>1, HeaderFacts
    <3>2. CASE i - HeaderSize \in 1 .. CipherSize
      <4>1. PICK j \in 1 .. CipherSize : HeaderSize + j = i
        <5>1. HeaderSize + (i - HeaderSize) = i
          BY <2>2
        <5> QED BY <3>2, <5>1
      <4>2. Packet(n)[i] = <<n, HeaderSize + j>>
        BY <2>3, <4>1, BodyFacts, Zenon
      <4> QED BY <2>1, <2>2, <4>1, <4>2
    <3>3. i \in 1 .. HeaderSize \/ i - HeaderSize \in 1 .. CipherSize
      <4>1. i \in 1 .. HeaderSize + CipherSize
        BY <2>1, Zenon
      <4> QED BY <2>2, <4>1
    <3> QED BY <3>1, <3>2, <3>3, Zenon
  <2> QED BY <2>1, <2>2, <2>3, <2>4
<1> QED BY <1>1, <1>2

\* Bytes of earlier packets stay bytes of earlier packets.
LEMMA BytesGrow ==
  ASSUME NEW k \in Nat
  PROVE  /\ Seq(Bytes(k)) \subseteq Seq(Bytes(k + 1))
         /\ \A b \in Bytes(k) : b[1] \in 1 .. k
<1>1. Bytes(k) \subseteq Bytes(k + 1)
  BY DEF Bytes
<1> QED BY <1>1 DEF Bytes

\* What appending does to a sequence.
LEMMA Appended ==
  ASSUME NEW S, NEW s \in Seq(S), NEW x \in S
  PROVE  /\ Append(s, x) \in Seq(S) /\ Len(Append(s, x)) = Len(s) + 1 /\ Len(s) \in Nat
         /\ DOMAIN s = 1 .. Len(s) /\ DOMAIN Append(s, x) = 1 .. Len(s) + 1
         /\ \A i \in 1 .. Len(s) : Append(s, x)[i] = s[i]
         /\ Append(s, x)[Len(s) + 1] = x
OBVIOUS

-----------------------------------------------------------------------------
(* Types *)

\* A packet that decrypts is the next one.
LEMMA DecryptValue ==
  ASSUME TypeOK, NEW packet, Decrypt(packet)
  PROVE  \/ Decrypts(packet) /\ nonce' = nonce + 1 /\ out' = Append(out, nonce + 1)
         \/ ~ Decrypts(packet) /\ nonce' = nonce /\ out' = Append(out, 0)
<1>1. CASE Decrypts(packet)
  <2>1. nonce + 1 \in Nat \ {0}
    BY DEF TypeOK
  <2>2. packet[1] = <<nonce + 1, HeaderSize + 1>>
    BY <1>1, <2>1, BodyFacts, Zenon DEF Decrypts
  <2>3. packet[1][1] = nonce + 1
    BY <2>2
  <2> QED BY <1>1, <2>3, Zenon DEF Decrypt
<1>2. CASE ~ Decrypts(packet)
  BY <1>2, Zenon DEF Decrypt
<1> QED BY <1>1, <1>2, Zenon

\* A frame that is sent, wholly, in part or not at all.
LEMMA SentType ==
  ASSUME TypeOK, NEW kind \in {"good", "bad"}, kind = "bad" => medium = "codec", Encrypt(kind),
         NEW k \in 0 .. PacketSize,
         wire' \in {wire, wire \o Packet(Len(frames) + 1),
                    wire \o SubSeq(Packet(Len(frames) + 1), 1, k)}
  PROVE  TypeOK'
<1>1. PICK n \in Nat : n = Len(frames)
  BY DEF TypeOK
<1>2. /\ Len(frames') = n + 1 /\ frames' \in Seq({"good", "bad"})
      /\ DOMAIN frames' = 1 .. n + 1 /\ DOMAIN frames = 1 .. n
      /\ \A i \in 1 .. n : frames'[i] = frames[i]
      /\ frames'[n + 1] = kind
  BY <1>1, Appended DEF TypeOK, Encrypt
<1>3. wire \in Seq(Bytes(n + 1)) /\ buf \in Seq(Bytes(n + 1)) /\ n + 1 \in Nat \ {0}
  BY <1>1, BytesGrow DEF TypeOK
<1>4. PICK q \in Seq(Bytes(n + 1)) : q = Packet(n + 1) /\ Len(q) = PacketSize
  BY <1>3, PacketFacts, Zenon
<1>5. SubSeq(q, 1, k) \in Seq(Bytes(n + 1))
  BY <1>4, Cut, Zenon
<1>6. wire \o q \in Seq(Bytes(n + 1)) /\ wire \o SubSeq(q, 1, k) \in Seq(Bytes(n + 1))
  BY <1>3, <1>5, Join, Zenon
<1>7. wire' \in Seq(Bytes(n + 1))
  BY <1>1, <1>3, <1>4, <1>6, Zenon
<1>8. /\ medium' = medium /\ limit' = limit /\ sender' = sender /\ buf' = buf
      /\ want' = want /\ nonce' = nonce /\ out' = out
  BY DEF Encrypt, recvVars
<1>9. medium' # "codec" => \A i \in DOMAIN frames' : frames'[i] = "good"
  <2>1. \A i \in 1 .. n + 1 : i \in 1 .. n \/ i = n + 1
    BY <1>1
  <2> QED BY <1>2, <1>8, <2>1, Zenon DEF TypeOK
<1> QED BY <1>2, <1>3, <1>7, <1>8, <1>9, Zenon DEF TypeOK, Prefixed

\* Bytes that are taken off the front of the receiver's bytes, or of those on their way.
LEMMA CutType ==
  ASSUME TypeOK, NEW k \in Nat
  PROVE  /\ k <= Len(wire) => /\ SubSeq(wire, 1, k) \in Seq(Bytes(Len(frames)))
                              /\ SubSeq(wire, k + 1, Len(wire)) \in Seq(Bytes(Len(frames)))
                              /\ buf \o SubSeq(wire, 1, k) \in Seq(Bytes(Len(frames)))
         /\ k <= Len(buf) => SubSeq(buf, k + 1, Len(buf)) \in Seq(Bytes(Len(frames)))
<1>1. wire \in Seq(Bytes(Len(frames))) /\ buf \in Seq(Bytes(Len(frames)))
  BY Zenon DEF TypeOK
<1>2. ASSUME k <= Len(wire)
      PROVE  /\ SubSeq(wire, 1, k) \in Seq(Bytes(Len(frames)))
             /\ SubSeq(wire, k + 1, Len(wire)) \in Seq(Bytes(Len(frames)))
  <2>1. k \in 0 .. Len(wire)
    BY <1>1, <1>2
  <2> QED BY <1>1, <2>1, Cut, Zenon
<1>3. ASSUME k <= Len(buf) PROVE SubSeq(buf, k + 1, Len(buf)) \in Seq(Bytes(Len(frames)))
  <2>1. k \in 0 .. Len(buf)
    BY <1>1, <1>3
  <2> QED BY <1>1, <2>1, Cut, Zenon
<1> QED BY <1>1, <1>2, <1>3, Join, Zenon

\* The rest of a sequence, also when nothing remains.
LEMMA Rest ==
  ASSUME NEW S, NEW s \in Seq(S), NEW k \in Nat
  PROVE  SubSeq(s, k + 1, Len(s)) \in Seq(S)
<1>1. CASE k \in 0 .. Len(s)
  BY <1>1, Cut, Zenon
<1>2. CASE Len(s) < k
  <2>1. SubSeq(s, k + 1, Len(s)) = <<>>
    BY <1>2
  <2> QED BY <2>1
<1> QED BY <1>1, <1>2

\* The receiver's steps.
LEMMA ReceiveType ==
  ASSUME TypeOK, Receive \/ DropReceive
  PROVE  TypeOK'
<1>1. /\ medium' = medium /\ limit' = limit /\ frames' = frames /\ sender' = sender
      /\ (Prefixed' <=> Prefixed)
  BY DEF Receive, Arrive, ReadLength, RecvFrame, RecvEof, RecvMemory, DecodeFrame, DecodeEof,
         DropReceive, sendVars, Prefixed
<1>2. CipherSize \in Nat \ {0} /\ HeaderSize \in Nat /\ Len(frames) \in Nat
  BY StreamAssumption DEF HeaderSize, TypeOK
<1>3. <<>> \in Seq(Bytes(Len(frames)))
  OBVIOUS
<1>4. ASSUME wire' \in Seq(Bytes(Len(frames))), buf' \in Seq(Bytes(Len(frames))),
             want' \in Nat \cup {-1}, nonce' \in Nat, out' \in Seq(Nat),
             ~ Prefixed => want' = -1, medium = "memory" => buf' = <<>>
      PROVE  TypeOK'
  BY <1>1, <1>4, Zenon DEF TypeOK
<1>5. ASSUME NEW k \in Piece \ {0}, Arrive(k) PROVE TypeOK'
  <2>1. k \in Nat /\ k <= Len(wire) /\ k # 0
    BY <1>2, <1>5 DEF Piece, Arrive
  <2>2. medium # "memory"
    <3>1. medium = "memory" => Room = 0
      BY DEF Room, Prefixed
    <3>2. k <= Room
      BY <1>5, Zenon DEF Arrive
    <3> QED BY <2>1, <3>1, <3>2
  <2>3. buf' \in Seq(Bytes(Len(frames))) /\ wire' \in Seq(Bytes(Len(frames)))
    BY <1>5, <2>1, CutType, Zenon DEF Arrive
  <2> QED BY <1>4, <1>5, <2>2, <2>3, Zenon DEF Arrive, TypeOK
<1>6. CASE ReadLength
  <2>1. \A len \in Announced : len \in Nat
    BY <1>2 DEF Announced, TypeOK
  <2>2. Append(out, 0) \in Seq(Nat)
    BY Appended DEF TypeOK
  <2>3. want' \in Nat \cup {-1} /\ out' \in Seq(Nat)
    BY <1>6, <2>1, <2>2, Zenon DEF ReadLength, TypeOK
  <2> QED BY <1>3, <1>4, <1>6, <2>3, Zenon DEF ReadLength, TypeOK
<1>7. ASSUME NEW packet, Decrypt(packet) PROVE nonce' \in Nat /\ out' \in Seq(Nat)
  <2>1. out \in Seq(Nat) /\ nonce \in Nat /\ nonce + 1 \in Nat /\ 0 \in Nat
    BY DEF TypeOK
  <2>2. Append(out, nonce + 1) \in Seq(Nat) /\ Append(out, 0) \in Seq(Nat)
    BY <2>1, Appended, Zenon
  <2> QED BY <1>7, <2>1, <2>2, DecryptValue, Zenon
<1>8. CASE RecvFrame
  BY <1>3, <1>4, <1>7, <1>8, Zenon DEF RecvFrame, TypeOK
<1>9. out' \in {out, Append(out, 0)} => out' \in Seq(Nat)
  <2>1. out \in Seq(Nat) /\ 0 \in Nat
    BY DEF TypeOK
  <2>2. Append(out, 0) \in Seq(Nat)
    BY <2>1, Appended, Zenon
  <2> QED BY <2>1, <2>2, Zenon
<1>10. CASE RecvEof \/ DropReceive
  <2>1. out' \in {out, Append(out, 0)}
    BY <1>10, Zenon DEF RecvEof, DropReceive
  <2> QED BY <1>3, <1>4, <1>9, <1>10, <2>1, Zenon DEF RecvEof, DropReceive, TypeOK
<1>11. CASE RecvMemory
  <2>1. wire' \in Seq(Bytes(Len(frames)))
    BY <1>2, <1>11, Rest, Zenon DEF RecvMemory, TypeOK
  <2>2. nonce' \in Nat /\ out' \in Seq(Nat)
    BY <1>7, <1>11, Zenon DEF RecvMemory, TypeOK
  <2> QED BY <1>4, <1>11, <2>1, <2>2, Zenon DEF RecvMemory, TypeOK
<1>12. CASE DecodeFrame
  <2>1. buf' \in Seq(Bytes(Len(frames)))
    BY <1>2, <1>12, Rest, Zenon DEF DecodeFrame, TypeOK
  <2>2. Decoded(SubSeq(buf, 1, CipherSize)) \in Nat
    <3>1. ASSUME NEW n \in DOMAIN frames, SubSeq(buf, 1, CipherSize) = Body(n)
          PROVE  SubSeq(buf, 1, CipherSize)[1][1] \in Nat
      <4>1. n \in Nat \ {0}
        BY DEF TypeOK
      <4>2. Body(n)[1] = <<n, HeaderSize + 1>>
        BY <4>1, BodyFacts, Zenon
      <4>3. Body(n)[1][1] = n
        BY <4>2
      <4> QED BY <3>1, <4>1, <4>3, Zenon
    <3>2. 0 \in Nat
      OBVIOUS
    <3> QED BY <3>1, <3>2, Zenon DEF Decoded
  <2>3. out' \in Seq(Nat)
    BY <1>12, <2>2, Appended DEF DecodeFrame, TypeOK
  <2>4. medium # "memory"
    BY <1>12 DEF DecodeFrame
  <2> QED BY <1>4, <1>12, <2>1, <2>3, <2>4, Zenon DEF DecodeFrame, TypeOK
<1>13. CASE DecodeEof
  <2>1. out' \in {out, Append(out, 0)}
    BY <1>13, Zenon DEF DecodeEof
  <2> QED BY <1>4, <1>9, <1>13, <2>1, Zenon DEF DecodeEof, TypeOK
<1> QED BY <1>5, <1>6, <1>8, <1>10, <1>11, <1>12, <1>13, Zenon DEF Receive

\* Every step keeps the types.
LEMMA TypeStep ==
  ASSUME TypeOK, [Next]_vars
  PROVE  TypeOK'
<1>0. PacketSize \in Nat /\ PacketSize <= HeaderSize + CipherSize /\ CipherSize \in Nat /\ 0 \in 0 .. PacketSize
  BY StreamAssumption DEF PacketSize, HeaderSize
<1>1. ASSUME NEW kind \in {"good", "bad"}, SendFrame(kind) PROVE TypeOK'
  BY <1>0, <1>1, SentType, Zenon DEF SendFrame
<1>2. ASSUME NEW k \in Piece, DropSend(k) PROVE TypeOK'
  <2>1. k \in 0 .. PacketSize
    BY <1>0, <1>2 DEF Piece, DropSend, PacketSize, Prefixed, TypeOK, Media
  <2> QED BY <1>2, <2>1, SentType, Zenon DEF DropSend
<1>3. CASE Close \/ CloseReceiver \/ UNCHANGED vars
  BY <1>3, Zenon DEF Close, CloseReceiver, vars, recvVars, sendVars, TypeOK, Prefixed
<1>4. ASSUME NEW k \in 0 .. Len(wire), EndStream(k) PROVE TypeOK'
  <2>1. k \in Nat /\ k <= Len(wire)
    BY DEF TypeOK
  <2>2. wire' \in Seq(Bytes(Len(frames)))
    BY <1>4, <2>1, CutType, Zenon DEF EndStream
  <2> QED BY <1>4, <2>2, Zenon DEF EndStream, recvVars, TypeOK, Prefixed
<1> QED BY <1>1, <1>2, <1>3, <1>4, ReceiveType, Zenon DEF Next, Send, Ended

-----------------------------------------------------------------------------
(* What is decrypted *)

\* A nonce is at least the frame it was used for.
LEMMA NextNonce ==
  ASSUME NEW n \in Nat, NEW v, NEW m, (v = 0 /\ m = n) \/ (v = n + 1 /\ m = n + 1)
  PROVE  v \in Nat /\ m \in Nat /\ n <= m /\ v <= m /\ (m = n \/ (m = n + 1 /\ v = n + 1))
OBVIOUS

\* One more value is returned: an error, or the frame after the last one.
LEMMA DecryptedAppend ==
  ASSUME TypeOK, Decrypted, frames' = frames, NEW v \in {0, nonce + 1}, out' = Append(out, v),
         v = 0 => nonce' = nonce, v # 0 => nonce' = nonce + 1 /\ nonce + 1 <= Len(frames)
  PROVE  Decrypted'
<1>1. /\ nonce \in Nat /\ v \in Nat /\ nonce' \in Nat /\ nonce <= nonce' /\ v <= nonce'
      /\ (nonce' = nonce \/ (nonce' = nonce + 1 /\ v = nonce + 1)) /\ Len(frames) \in Nat
  <2>1. nonce \in Nat /\ frames \in Seq({"good", "bad"})
    BY Zenon DEF TypeOK
  <2>2. nonce + 1 # 0 /\ Len(frames) \in Nat
    BY <2>1
  <2>3. \/ v = 0 /\ nonce' = nonce
        \/ v = nonce + 1 /\ nonce' = nonce + 1
    BY <2>2, Zenon
  <2>4. /\ v \in Nat /\ nonce' \in Nat /\ nonce <= nonce' /\ v <= nonce'
        /\ (nonce' = nonce \/ (nonce' = nonce + 1 /\ v = nonce + 1))
    BY <2>1, <2>3, NextNonce
  <2> QED BY <2>1, <2>2, <2>4, Zenon
<1>2. out \in Seq(Nat)
  BY DEF TypeOK
<1>3. PICK L \in Nat : L = Len(out)
  BY <1>2
<1>4. /\ DOMAIN out = 1 .. L /\ DOMAIN out' = 1 .. L + 1
      /\ \A i \in 1 .. L : out'[i] = out[i] /\ out[i] \in Nat
      /\ out'[L + 1] = v
  BY <1>1, <1>2, <1>3, Appended
<1>5. \A i \in 1 .. L + 1 : i \in 1 .. L \/ i = L + 1
  OBVIOUS
<1>6. nonce' <= Len(frames)
  BY <1>1 DEF Decrypted
<1>7. ASSUME NEW i \in DOMAIN out' PROVE out'[i] <= nonce'
  <2>1. CASE i \in 1 .. L
    <3>1. out'[i] \in Nat /\ out'[i] <= nonce
      BY <1>4, <2>1, Zenon DEF Decrypted
    <3> QED BY <1>1, <3>1
  <2> QED BY <1>1, <1>4, <1>5, <2>1, Zenon
<1>8. ASSUME NEW i \in DOMAIN out', NEW j \in DOMAIN out', i < j, out'[i] # 0, out'[j] # 0
      PROVE  out'[i] < out'[j]
  <2>1. i \in 1 .. L
    BY <1>4, <1>8
  <2>2. CASE j \in 1 .. L
    BY <1>4, <1>8, <2>1, <2>2, Zenon DEF Decrypted
  <2>3. CASE j = L + 1
    <3>1. v # 0 /\ out'[j] = v
      BY <1>4, <1>8, <2>3, Zenon
    <3>2. v = nonce + 1
      BY <3>1
    <3>3. out'[i] <= nonce /\ out'[i] \in Nat
      BY <1>4, <2>1, Zenon DEF Decrypted
    <3> QED BY <1>1, <3>1, <3>2, <3>3
  <2> QED BY <1>4, <1>5, <2>2, <2>3, Zenon
<1>9. ASSUME NEW n \in 1 .. nonce' PROVE \E i \in DOMAIN out' : out'[i] = n
  <2>1. CASE n \in 1 .. nonce
    <3>1. PICK i \in 1 .. L : out[i] = n
      BY <1>4, <2>1, Zenon DEF Decrypted
    <3>2. i \in 1 .. L + 1
      OBVIOUS
    <3> QED BY <1>4, <3>1, <3>2, Zenon
  <2>2. CASE n = v
    <3>1. L + 1 \in 1 .. L + 1
      OBVIOUS
    <3> QED BY <1>4, <2>2, <3>1, Zenon
  <2>3. n \in 1 .. nonce \/ n = v
    BY <1>1
  <2> QED BY <2>1, <2>2, <2>3, Zenon
<1> QED BY <1>6, <1>7, <1>8, <1>9, Zenon DEF Decrypted

\* A packet is decrypted: it is one that was sent.
LEMMA DecryptedPacket ==
  ASSUME TypeOK, Decrypted, frames' = frames, NEW packet, Decrypt(packet),
         packet[1] \in Bytes(Len(frames)) \/ ~ Decrypts(packet)
  PROVE  Decrypted'
<1>1. CASE Decrypts(packet)
  <2>1. nonce + 1 \in Nat \ {0} /\ Len(frames) \in Nat
    BY DEF TypeOK
  <2>2. packet[1] = <<nonce + 1, HeaderSize + 1>>
    BY <1>1, <2>1, BodyFacts, Zenon DEF Decrypts
  <2>3. packet[1][1] = nonce + 1
    BY <2>2
  <2>4. nonce + 1 \in 1 .. Len(frames)
    BY <1>1, <2>1, <2>3, BytesGrow, Zenon
  <2>5. nonce + 1 <= Len(frames) /\ nonce + 1 # 0
    BY <2>1, <2>4
  <2>6. nonce' = nonce + 1 /\ out' = Append(out, nonce + 1)
    BY <1>1, DecryptValue, Zenon
  <2> QED BY <2>5, <2>6, DecryptedAppend, Zenon
<1>2. CASE ~ Decrypts(packet)
  BY <1>2, DecryptValue, DecryptedAppend, Zenon
<1> QED BY <1>1, <1>2, Zenon

\* Nothing is returned.
LEMMA DecryptedSame ==
  ASSUME TypeOK, Decrypted, TypeOK', Len(frames) <= Len(frames'), nonce' = nonce, out' = out
  PROVE  Decrypted'
<1>1. nonce \in Nat /\ Len(frames) \in Nat /\ Len(frames') \in Nat /\ nonce <= Len(frames)
  BY DEF TypeOK, Decrypted
<1>2. nonce' <= Len(frames')
  BY <1>1
<1> QED BY <1>2, Zenon DEF Decrypted

\* Every step keeps what was decrypted the frames up to the nonce.
LEMMA DecryptedStep ==
  ASSUME TypeOK, Decrypted, medium # "codec", [Next]_vars
  PROVE  Decrypted'
<1>0. TypeOK' /\ frames \in Seq({"good", "bad"}) /\ Len(frames) \in Nat /\ Len(frames) <= Len(frames)
      /\ CipherSize \in Nat \ {0}
  <2>1. TypeOK'
    BY TypeStep, Zenon
  <2> QED BY <2>1, StreamAssumption DEF TypeOK
<1>1. ASSUME NEW kind \in {"good", "bad"}, Encrypt(kind) PROVE Decrypted'
  <2>1. Len(frames) <= Len(frames')
    BY <1>0, <1>1, Appended DEF Encrypt
  <2> QED BY <1>0, <1>1, <2>1, DecryptedSame, Zenon DEF Encrypt, recvVars
<1>2. CASE Close \/ CloseReceiver \/ DropReceive \/ UNCHANGED vars
  BY <1>0, <1>2, DecryptedSame, Zenon DEF Close, CloseReceiver, DropReceive, vars, recvVars, sendVars
<1>3. ASSUME NEW k \in 0 .. Len(wire), EndStream(k) PROVE Decrypted'
  BY <1>0, <1>3, DecryptedSame, Zenon DEF EndStream, recvVars
<1>4. ASSUME NEW k \in Piece, Arrive(k) PROVE Decrypted'
  BY <1>0, <1>4, DecryptedSame, Zenon DEF Arrive, sendVars
<1>5. CASE ReadLength \/ RecvEof
  <2>1. /\ frames' = frames /\ nonce' = nonce
        /\ out' = out \/ out' = Append(out, 0)
    BY <1>5, Zenon DEF ReadLength, RecvEof, sendVars
  <2> QED BY <1>0, <2>1, DecryptedSame, DecryptedAppend, Zenon
<1>6. CASE RecvFrame
  <2>1. buf[1] \in Bytes(Len(frames)) \/ ~ Decrypts(buf)
    <3>1. ASSUME Decrypts(buf) PROVE buf[1] \in Bytes(Len(frames))
      <4>1. nonce + 1 \in Nat \ {0}
        BY DEF TypeOK
      <4>2. Len(buf) = CipherSize
        BY <3>1, <4>1, BodyFacts, Zenon DEF Decrypts
      <4> QED BY <1>0, <4>2 DEF TypeOK
    <3> QED BY <3>1, Zenon
  <2> QED BY <1>6, <2>1, DecryptedPacket, Zenon DEF RecvFrame, sendVars
<1>7. CASE RecvMemory
  <2>1. CASE nonce' = nonce /\ out' = out
    BY <1>0, <1>7, <2>1, DecryptedSame, Zenon DEF RecvMemory, sendVars
  <2>2. CASE wire # <<>> /\ Decrypt(SubSeq(wire, 1, CipherSize))
    <3>1. SubSeq(wire, 1, CipherSize)[1] \in Bytes(Len(frames))
      <4>1. wire \in Seq(Bytes(Len(frames))) /\ wire # <<>>
        BY <2>2 DEF TypeOK
      <4>2. wire[1] \in Bytes(Len(frames))
        BY <4>1
      <4>3. SubSeq(wire, 1, CipherSize)[1] = wire[1]
        BY <1>0, <4>1
      <4> QED BY <4>2, <4>3, Zenon
    <3> QED BY <1>7, <2>2, <3>1, DecryptedPacket, Zenon DEF RecvMemory, sendVars
  <2> QED BY <1>7, <2>1, <2>2, Zenon DEF RecvMemory
<1>8. ~ DecodeFrame /\ ~ DecodeEof
  BY Zenon DEF DecodeFrame, DecodeEof
<1> QED BY <1>1, <1>2, <1>3, <1>4, <1>5, <1>6, <1>7, <1>8, Zenon
        DEF Next, Send, SendFrame, DropSend, Receive, Ended

-----------------------------------------------------------------------------
(* The stream of packets *)

\* The sizes and the sequences that Aligned and Complete speak of.
LEMMA StreamFacts ==
  ASSUME TypeOK
  PROVE  /\ PacketSize \in Nat \ {0} /\ Offset \in Nat /\ Consumed \in Nat /\ Consumed < PacketSize
         /\ CipherSize \in Nat \ {0} /\ CipherSize <= PacketSize
         /\ Len(out) \in Nat /\ Len(frames) \in Nat /\ DOMAIN frames = 1 .. Len(frames)
         /\ Len(buf) \in Nat /\ Len(wire) \in Nat
         /\ Stream \in Seq(Bytes(Len(frames))) /\ Len(Stream) = Len(buf) + Len(wire)
<1>1. CipherSize \in Nat \ {0} /\ HeaderSize = 2
  BY StreamAssumption DEF HeaderSize
<1>2. want # -1 => Prefixed
  BY Zenon DEF TypeOK
<1>3. /\ PacketSize \in Nat \ {0} /\ Offset \in Nat /\ Consumed \in Nat /\ Consumed < PacketSize
      /\ CipherSize <= PacketSize
  BY <1>1, <1>2 DEF PacketSize, Offset, Consumed
<1>4. /\ wire \in Seq(Bytes(Len(frames))) /\ buf \in Seq(Bytes(Len(frames)))
      /\ out \in Seq(Nat) /\ frames \in Seq({"good", "bad"})
  BY Zenon DEF TypeOK
<1>5. Stream \in Seq(Bytes(Len(frames))) /\ Len(Stream) = Len(buf) + Len(wire)
  BY <1>4, Join, Zenon DEF Stream
<1>6. /\ Len(out) \in Nat /\ Len(frames) \in Nat /\ DOMAIN frames = 1 .. Len(frames)
      /\ Len(buf) \in Nat /\ Len(wire) \in Nat
  BY <1>4
<1> QED BY <1>1, <1>3, <1>5, <1>6, Zenon

\* The next bytes are those of the packet after the frames that were returned.
LEMMA NextBytes ==
  ASSUME TypeOK, Aligned, NEW j \in Nat \ {0}, j <= PacketSize - Consumed, j <= Len(Stream)
  PROVE  /\ Stream[j] = <<Len(out) + 1, Offset + Consumed + j>>
         /\ Len(out) + 1 \in DOMAIN frames
<1>1. PICK s \in Seq(Bytes(Len(frames))) : s = Stream
  BY StreamFacts, Zenon
<1>2. PICK pre \in Nat, p \in Nat \ {0}, o \in Nat :
        pre = Consumed /\ p = PacketSize /\ o = Offset /\ pre < p
  BY StreamFacts, Zenon
<1>3. PICK f \in Nat : f = Len(out) + 1
  BY StreamFacts
<1>4. Run(s, f, pre, p, o)
  BY <1>1, <1>2, <1>3, Zenon DEF Aligned
<1>5. j <= p - pre /\ j <= Len(s)
  BY <1>1, <1>2
<1>6. j \in 1 .. p - pre
  BY <1>2, <1>5
<1>7. s[j] = <<f, o + pre + j>>
  <2>1. /\ pre + j \in 1 .. p /\ j + pre = 0 * p + (pre + j) /\ f + 0 = f /\ 0 \in Nat
        /\ o + (pre + j) = o + pre + j
    BY ONLY <1>5, <1>6, pre \in Nat, p \in Nat, f \in Nat, o \in Nat, j \in Nat
  <2>2. j \in DOMAIN s
    BY ONLY <1>5, s \in Seq(Bytes(Len(frames))), j \in Nat \ {0}
  <2>3. s[j] = <<f + 0, o + (pre + j)>>
    BY ONLY <1>4, <2>1, <2>2, Zenon DEF Run
  <2> QED BY ONLY <2>1, <2>3, Zenon
<1>8. s[j] \in Bytes(Len(frames))
  BY <1>5
<1>9. f \in DOMAIN frames
  <2>1. s[j][1] = f
    BY <1>7
  <2> QED BY <1>8, <2>1, BytesGrow, StreamFacts, Zenon
<1> QED BY <1>1, <1>2, <1>3, <1>7, <1>9, Zenon

\* A complete packet is that of the frame after those that were returned.
LEMMA NextPacket ==
  ASSUME TypeOK, Aligned, NEW b \in Seq(Bytes(Len(frames))), Len(b) = CipherSize,
         CipherSize <= Len(Stream), \A j \in 1 .. CipherSize : b[j] = Stream[j],
         Prefixed => want # -1
  PROVE  /\ b = Body(Len(out) + 1) /\ Len(out) + 1 \in DOMAIN frames
         /\ Consumed + CipherSize = PacketSize
<1>0. CipherSize \in Nat \ {0} /\ Len(out) + 1 \in Nat \ {0} /\ 1 \in 1 .. CipherSize
  BY StreamFacts
<1>1. Offset + Consumed = HeaderSize /\ Consumed + CipherSize = PacketSize
  BY <1>0 DEF TypeOK, Offset, Consumed, PacketSize, HeaderSize
<1>2. ASSUME NEW j \in 1 .. CipherSize
      PROVE  b[j] = <<Len(out) + 1, HeaderSize + j>> /\ Len(out) + 1 \in DOMAIN frames
  <2>1. j \in Nat \ {0} /\ j <= PacketSize - Consumed /\ j <= Len(Stream)
    <3>1. Consumed \in Nat /\ Len(Stream) \in Nat /\ CipherSize <= Len(Stream)
      BY StreamFacts
    <3> QED BY ONLY <1>0, <1>1, <3>1, j \in 1 .. CipherSize
  <2> QED BY <1>1, <2>1, NextBytes, Zenon
<1>3. PICK c \in Seq(Bytes(Len(out) + 1)) :
        c = Body(Len(out) + 1) /\ Len(c) = CipherSize
        /\ \A j \in 1 .. CipherSize : c[j] = <<Len(out) + 1, HeaderSize + j>>
  BY <1>0, BodyFacts, Zenon
<1>4. b = c
  <2>1. /\ DOMAIN b = 1 .. CipherSize /\ DOMAIN c = 1 .. CipherSize
        /\ b = [j \in DOMAIN b |-> b[j]] /\ c = [j \in DOMAIN c |-> c[j]]
    BY <1>3
  <2>2. \A j \in 1 .. CipherSize : b[j] = c[j]
    BY <1>2, <1>3, Zenon
  <2> QED BY <2>1, <2>2
<1> QED BY <1>0, <1>1, <1>2, <1>3, <1>4, Zenon

\* No packet is that of two frames.
LEMMA BodyInjective ==
  ASSUME NEW n \in Nat \ {0}, NEW m \in Nat \ {0}, Body(n) = Body(m)
  PROVE  n = m
<1>1. Body(n)[1] = <<n, HeaderSize + 1>> /\ Body(m)[1] = <<m, HeaderSize + 1>>
  BY BodyFacts, Zenon
<1>2. <<n, HeaderSize + 1>> = <<m, HeaderSize + 1>>
  BY <1>1, Zenon
<1> QED BY <1>2

\* The rest of a packet is taken off the stream, and the frame is returned.
LEMMA TakenAligned ==
  ASSUME TypeOK, TypeOK', Aligned, medium' = medium, frames' = frames, want' = -1,
         NEW c \in 0 .. Len(Stream), Consumed + c = PacketSize,
         Len(Stream') = Len(Stream) - c, \A j \in 1 .. Len(Stream') : Stream'[j] = Stream[j + c],
         Len(out') = Len(out) + 1
  PROVE  Aligned'
<1>1. PICK S : S = Bytes(Len(frames))
  OBVIOUS
<1>2. PICK s \in Seq(S), t \in Seq(S) : s = Stream /\ t = Stream'
  <2>1. Stream \in Seq(S)
    BY <1>1, StreamFacts, Zenon
  <2>2. Stream' \in Seq(S)
    <3>1. buf' \in Seq(S) /\ wire' \in Seq(S)
      BY <1>1, Zenon DEF TypeOK
    <3> QED BY <3>1, Join, Zenon DEF Stream
  <2> QED BY <2>1, <2>2, Zenon
<1>3. PICK pre \in Nat, p \in Nat \ {0}, o \in Nat, f \in Nat :
        pre = Consumed /\ p = PacketSize /\ o = Offset /\ f = Len(out) + 1
  <2>1. Len(out) + 1 \in Nat
    BY StreamFacts
  <2> QED BY <2>1, StreamFacts, Zenon
<1>4. Run(s, f, pre, p, o)
  BY <1>2, <1>3, Zenon DEF Aligned
<1>5. c \in 0 .. Len(s) /\ Len(t) = Len(s) - c /\ \A j \in 1 .. Len(t) : t[j] = s[j + c]
  BY <1>2, Zenon
<1>6. Run(t, f, pre + c, p, o)
  BY ONLY <1>4, <1>5, p \in Nat, pre \in Nat, RunDrop, Zenon
<1>7. pre + c = p
  BY <1>3, Zenon
<1>8. Run(t, f, p, p, o)
  BY <1>6, <1>7, Zenon
<1>9. Run(t, f + 1, 0, p, o)
  BY ONLY <1>8, RunNext, f \in Nat, p \in Nat \ {0}, t \in Seq(S), Zenon
<1>10. PacketSize' = p /\ Offset' = o /\ Consumed' = 0
  BY <1>3, Zenon DEF PacketSize, Offset, Consumed, Prefixed
<1>11. Len(out') + 1 = f + 1
  BY <1>3, Zenon
<1> QED BY <1>2, <1>9, <1>10, <1>11, Zenon DEF Aligned

\* One packet less is on its way.
LEMMA TakenLength ==
  ASSUME NEW p \in Nat \ {0}, NEW k \in Nat, NEW pre \in Nat, NEW c \in Nat, NEW len \in Nat,
         pre + len = k * p, pre + c = p, c <= len
  PROVE  /\ 1 <= k /\ 0 + (len - c) = (k - 1) * p
<1>1. k # 0
  <2>1. k = 0 => k * p = 0
    OBVIOUS
  <2> QED BY <2>1
<1>2. PICK h \in Nat : k = h + 1
  BY <1>1
<1>3. k * p = h * p + p /\ h * p \in Nat
  BY <1>2, OnePacket
<1>4. k - 1 = h
  BY <1>2
<1>5. len - c = h * p
  BY ONLY <1>3, pre + len = k * p, pre + c = p, pre \in Nat, c \in Nat, len \in Nat, p \in Nat, h * p \in Nat, k * p \in Int
<1> QED BY <1>1, <1>3, <1>4, <1>5

\* Nothing is missing after a packet was taken off the stream and its frame returned.
LEMMA TakenComplete ==
  ASSUME TypeOK, Complete, UNCHANGED <<medium, limit, sendVars, closed, ended>>, want' = -1,
         NEW c \in 0 .. Len(Stream), Consumed + c = PacketSize, Len(Stream') = Len(Stream) - c,
         out' = Append(out, CodecValue(Len(out) + 1)), medium # "codec" => nonce' = nonce + 1
  PROVE  Complete'
<1>1. PICK d \in Nat, n \in Nat : d = Len(out) /\ n = Count
  BY StreamFacts, Zenon DEF Complete
<1>2. PICK pre \in Nat, p \in Nat \ {0}, len \in Nat :
        pre = Consumed /\ p = PacketSize /\ len = Len(Stream) /\ pre < p
  <2>1. Len(Stream) \in Nat
    BY StreamFacts
  <2> QED BY <2>1, StreamFacts, Zenon
<1>3. /\ medium' = medium /\ limit' = limit /\ frames' = frames /\ accepted' = accepted
      /\ sender' = sender /\ closed' = closed /\ ended' = ended
  BY Zenon DEF sendVars
<1>4. Count' = n /\ PacketSize' = p /\ Consumed' = 0 /\ (SenderEnded' <=> SenderEnded)
  BY <1>1, <1>2, <1>3, Zenon DEF Count, PacketSize, Prefixed, Consumed, SenderEnded
<1>5. pre + len = (n - d) * p /\ d <= n /\ pre + c = p /\ Len(Stream') = len - c
  BY <1>1, <1>2, Zenon DEF Complete
<1>6. c \in Nat /\ c <= len /\ n - d \in Nat
  BY <1>2, <1>5
<1>7. 1 <= n - d /\ 0 + (len - c) = (n - d - 1) * p
  BY ONLY <1>5, <1>6, p \in Nat \ {0}, pre \in Nat, len \in Nat, TakenLength
<1>8. /\ Len(out') = d + 1 /\ DOMAIN out' = 1 .. d + 1 /\ DOMAIN out = 1 .. d
      /\ \A i \in 1 .. d : out'[i] = out[i]
      /\ out'[d + 1] = CodecValue(d + 1)
  <2>1. out \in Seq(Nat) /\ CodecValue(d + 1) \in Nat
    BY <1>1 DEF TypeOK, CodecValue
  <2>2. out' = Append(out, CodecValue(d + 1))
    BY <1>1, Zenon
  <2>3. PICK v \in Nat : v = CodecValue(d + 1)
    BY <2>1, Zenon
  <2>4. /\ Len(Append(out, v)) = Len(out) + 1 /\ DOMAIN Append(out, v) = 1 .. Len(out) + 1
        /\ DOMAIN out = 1 .. Len(out) /\ \A i \in 1 .. Len(out) : Append(out, v)[i] = out[i]
        /\ Append(out, v)[Len(out) + 1] = v
    BY ONLY <2>1, v \in Nat, Appended
  <2> QED BY <1>1, <2>2, <2>3, <2>4, Zenon
<1>9. d + 1 <= n /\ n - (d + 1) = n - d - 1
  BY <1>5, <1>7
<1>10. Consumed' + Len(Stream') = (n - (d + 1)) * p
  BY <1>4, <1>5, <1>7, <1>9, Zenon
<1>11. \A i \in DOMAIN out' : out'[i] = CodecValue(i)'
  <2>1. \A i \in 1 .. d + 1 : i \in 1 .. d \/ i = d + 1
    OBVIOUS
  <2>2. \A i \in 1 .. d + 1 : CodecValue(i)' = CodecValue(i)
    BY <1>3, Zenon DEF CodecValue
  <2> QED BY <1>8, <2>1, <2>2, Zenon DEF Complete
<1>12. medium # "codec" => nonce' = d + 1
  BY <1>1, Zenon DEF Complete
<1>13. ended => medium = "memory" /\ closed
  <2>1. Stream = <<>> => Len(Stream) = 0
    OBVIOUS
  <2>2. Len(Stream) # 0
    BY <1>2, <1>5, <1>6
  <2> QED BY <2>1, <2>2, Zenon DEF Complete
<1>14. want' \in {-1, CipherSize}
  OBVIOUS
<1>15. /\ Count' \in Nat /\ accepted' = 1 .. Count' /\ Count' <= Len(frames')
       /\ sender' = "open" /\ CipherSize <= limit' => Count' = Len(frames')
       /\ limit' < CipherSize => Count' = 0
  BY <1>1, <1>3, <1>4, Zenon DEF Complete
<1>16. Len(out') <= Count' /\ Consumed' + Len(Stream') = (Count' - Len(out')) * PacketSize'
  BY <1>4, <1>8, <1>9, <1>10, Zenon
<1>17. medium' # "codec" => nonce' = Len(out')
  BY <1>3, <1>8, <1>12, Zenon
<1>18. ended' => medium' = "memory" /\ closed'
  BY ONLY <1>3, <1>13
<1> QED BY <1>11, <1>14, <1>15, <1>16, <1>17, <1>18, Zenon DEF Complete

-----------------------------------------------------------------------------
(* The sender's steps, and those that return nothing *)

\* The receiver is known to be at the start of a packet, or in one.
Tracked == ~ lost \/ (medium = "codec" /\ ~ ended)

\* Bytes move, or nothing does.
LEMMA SameAligned ==
  ASSUME Aligned, medium' = medium, Stream' = Stream, out' = out, want' = want
  PROVE  Aligned'
BY Zenon DEF Aligned, Consumed, PacketSize, Offset, Prefixed

\* Nothing is missing as long as the same bytes are on their way.
LEMMA SameComplete ==
  ASSUME Complete, UNCHANGED <<medium, limit, frames, accepted, want, nonce, out>>, Stream' = Stream,
         sender' = "open" => sender = "open",
         ended' => IF medium = "memory" THEN closed'
                                        ELSE Stream = <<>> /\ want = -1 /\ SenderEnded'
  PROVE  Complete'
<1>1. Count' = Count /\ Consumed' = Consumed /\ PacketSize' = PacketSize
  BY Zenon DEF Count, Consumed, PacketSize, Prefixed
<1>2. \A i \in DOMAIN out' : out'[i] = CodecValue(i)'
  BY Zenon DEF Complete, CodecValue
<1>3. ended' => IF medium' = "memory" THEN closed'
                                      ELSE Stream' = <<>> /\ want' = -1 /\ SenderEnded'
  BY Zenon
<1> QED BY <1>1, <1>2, <1>3, Zenon DEF Complete

\* Steps that leave the packets alone.
LEMMA CloseSteps ==
  ASSUME StreamInv, Close \/ CloseReceiver \/ UNCHANGED vars
  PROVE  (Tracked => Aligned') /\ (~ lost => Complete')
<1>1. /\ medium' = medium /\ limit' = limit /\ frames' = frames /\ accepted' = accepted /\ wire' = wire
      /\ buf' = buf /\ want' = want /\ nonce' = nonce /\ out' = out /\ ended' = ended
      /\ (sender' = "open" => sender = "open")
      /\ (closed => closed') /\ (SenderEnded => SenderEnded')
  BY DEF Close, CloseReceiver, vars, sendVars, recvVars, SenderEnded
<1>2. Stream' = Stream
  BY <1>1, Zenon DEF Stream
<1>3. Tracked => Aligned'
  BY <1>1, <1>2, SameAligned, Zenon DEF StreamInv, Tracked
<1>4. ASSUME ~ lost PROVE Complete'
  <2>1. Complete
    BY <1>4, Zenon DEF StreamInv
  <2>2. ended' => IF medium = "memory" THEN closed'
                                       ELSE Stream = <<>> /\ want = -1 /\ SenderEnded'
    BY ONLY <1>1, <2>1 DEF Complete
  <2> QED BY <1>1, <1>2, <2>1, <2>2, SameComplete, Zenon
<1> QED BY <1>3, <1>4, Zenon

\* The sender is dropped.
LEMMA EndSteps ==
  ASSUME StreamInv, NEW k \in 0 .. Len(wire), EndStream(k)
  PROVE  (Tracked => Aligned') /\ (~ lost' => Complete')
<1>0. TypeOK
  BY Zenon DEF StreamInv
<1>1. /\ medium' = medium /\ limit' = limit /\ frames' = frames /\ accepted' = accepted
      /\ buf' = buf /\ want' = want /\ nonce' = nonce /\ out' = out /\ ended' = ended /\ closed' = closed
      /\ sender' = "gone" /\ wire' = SubSeq(wire, 1, k)
  BY Zenon DEF EndStream, recvVars
<1>2. PICK S : S = Bytes(Len(frames))
  OBVIOUS
<1>3. buf \in Seq(S) /\ wire \in Seq(S)
  BY <1>0, <1>2, Zenon DEF TypeOK
<1>4. PICK w \in Seq(S) : w = wire' /\ Len(w) = k /\ \A j \in 1 .. k : w[j] = wire[j]
  <2>1. /\ SubSeq(wire, 1, k) \in Seq(S) /\ Len(SubSeq(wire, 1, k)) = k
        /\ \A j \in 1 .. k : SubSeq(wire, 1, k)[j] = wire[j]
    BY ONLY <1>3, Cut, k \in 0 .. Len(wire)
  <2> QED BY <1>1, <2>1, Zenon
<1>5. ASSUME Tracked PROVE Aligned'
  <2>1. PICK s \in Seq(S), t \in Seq(S) : s = buf \o wire /\ t = buf \o w
    BY <1>3, Join, Zenon
  <2>2. /\ Len(s) = Len(buf) + Len(wire) /\ Len(t) = Len(buf) + k
        /\ \A j \in 1 .. Len(buf) : s[j] = buf[j] /\ t[j] = buf[j]
        /\ \A j \in 1 .. Len(wire) : s[Len(buf) + j] = wire[j]
        /\ \A j \in 1 .. k : t[Len(buf) + j] = w[j]
    <3>1. /\ Len(buf \o wire) = Len(buf) + Len(wire)
          /\ \A j \in 1 .. Len(buf) : (buf \o wire)[j] = buf[j]
          /\ \A j \in 1 .. Len(wire) : (buf \o wire)[Len(buf) + j] = wire[j]
      BY ONLY <1>3, Join
    <3>2. /\ Len(buf \o w) = Len(buf) + Len(w)
          /\ \A j \in 1 .. Len(buf) : (buf \o w)[j] = buf[j]
          /\ \A j \in 1 .. Len(w) : (buf \o w)[Len(buf) + j] = w[j]
      BY ONLY <1>3, w \in Seq(S), Join
    <3> QED BY <1>4, <2>1, <3>1, <3>2, Zenon
  <2>3. Len(t) <= Len(s) /\ \A j \in 1 .. Len(t) : t[j] = s[j]
    <3>0. Len(buf) \in Nat /\ Len(wire) \in Nat /\ k \in Nat /\ k <= Len(wire)
      BY <1>3
    <3>1. Len(t) <= Len(s)
      BY ONLY <2>2, <3>0
    <3>2. ASSUME NEW j \in 1 .. Len(t) PROVE t[j] = s[j]
      <4>1. CASE j \in 1 .. Len(buf)
        BY <2>2, <4>1, Zenon
      <4>2. CASE j \notin 1 .. Len(buf)
        <5>1. PICK i \in 1 .. k : Len(buf) + i = j
          <6>1. j - Len(buf) \in 1 .. k /\ Len(buf) + (j - Len(buf)) = j
            BY ONLY <2>2, <3>0, <4>2, j \in 1 .. Len(t)
          <6> QED BY <6>1, Zenon
        <5>2. i \in 1 .. Len(wire)
          BY <3>0
        <5> QED BY <1>4, <2>2, <5>1, <5>2, Zenon
      <4> QED BY <4>1, <4>2, Zenon
    <3> QED BY <3>1, <3>2, Zenon
  <2>4. Run(s, Len(out) + 1, Consumed, PacketSize, Offset)
    BY <1>5, <2>1, Zenon DEF StreamInv, Tracked, Aligned, Stream
  <2>5. Run(t, Len(out) + 1, Consumed, PacketSize, Offset)
    BY ONLY <2>3, <2>4, RunPrefix, Zenon
  <2> QED BY <1>1, <1>4, <2>1, <2>5, Zenon
          DEF Aligned, Stream, Consumed, PacketSize, Offset, Prefixed
<1>6. ASSUME ~ lost' PROVE Complete'
  <2>1. ~ lost /\ ~ (k < Len(wire))
    BY <1>6, Zenon DEF EndStream
  <2>2. k = Len(wire)
    BY <1>3, <2>1
  <2>3. w = wire
    BY <1>3, <1>4, <2>2, SameElements, Zenon
  <2>4. Stream' = Stream /\ SenderEnded'
    BY <1>1, <1>4, <2>3, Zenon DEF Stream, SenderEnded
  <2>5. Complete
    BY <2>1, Zenon DEF StreamInv
  <2>6. ended' => IF medium = "memory" THEN closed'
                                       ELSE Stream = <<>> /\ want = -1 /\ SenderEnded'
    BY ONLY <1>1, <2>4, <2>5 DEF Complete
  <2>7. sender' # "open"
    BY <1>1
  <2> QED BY <1>1, <2>4, <2>5, <2>6, <2>7, SameComplete, Zenon
<1> QED BY <1>5, <1>6, Zenon

\* A frame that the transport takes.
LEMMA SentAligned ==
  ASSUME StreamInv, Complete, Aligned, NEW kind, Encrypt(kind), sender = "open", CipherSize <= limit,
         wire' = wire \o Packet(Len(frames) + 1)
  PROVE  /\ Aligned'
         /\ Consumed' + Len(Stream') = ((Count + 1) - Len(out)) * PacketSize
<1>0. TypeOK
  BY Zenon DEF StreamInv
<1>1. PICK n \in Nat \ {0} : n = Len(frames) + 1
  <2>1. Len(frames) + 1 \in Nat \ {0}
    BY <1>0, StreamFacts
  <2> QED BY <2>1, Zenon
<1>2. PICK S : S = Bytes(n)
  OBVIOUS
<1>3. PICK q \in Seq(S) :
        q = Packet(n) /\ Len(q) = PacketSize /\ \A i \in 1 .. PacketSize : q[i] = <<n, Offset + i>>
  BY <1>2, PacketFacts, Zenon
<1>4. buf \in Seq(S) /\ wire \in Seq(S)
  <2>1. Len(frames) \in Nat
    BY <1>0, StreamFacts, Zenon
  <2> QED BY <1>0, <1>1, <1>2, <2>1, BytesGrow, Zenon DEF TypeOK
<1>5. PICK s \in Seq(S) : s = buf \o wire
  <2>1. buf \o wire \in Seq(S)
    BY <1>4, Join, Zenon
  <2> QED BY <2>1, Zenon
<1>6. (buf \o wire) \o q = buf \o (wire \o q)
  <2>1. Associative(buf, wire, q)
    BY <1>4, JoinAssociative, Zenon
  <2> QED BY <2>1, Zenon DEF Associative
<1>7. PICK u \in Seq(S) : u = s \o q
  <2>1. s \o q \in Seq(S)
    BY Join, Zenon
  <2> QED BY <2>1, Zenon
<1>8. /\ Len(u) = Len(s) + Len(q) /\ Len(s) \in Nat
      /\ \A j \in 1 .. Len(s) : u[j] = s[j]
      /\ \A j \in 1 .. Len(q) : u[Len(s) + j] = q[j]
  BY ONLY <1>7, s \in Seq(S), q \in Seq(S), Join
<1>9. PICK pre \in Nat, p \in Nat \ {0}, o \in Nat, d \in Nat, c \in Nat :
        pre = Consumed /\ p = PacketSize /\ o = Offset /\ d = Len(out) /\ c = Count
  BY <1>0, StreamFacts, Zenon DEF Complete
<1>10. c + 1 = n /\ d <= c /\ pre + Len(s) = (c - d) * p
  BY <1>1, <1>5, <1>9, Zenon DEF Complete, Stream
<1>11. PICK f \in Nat, k \in Nat : f = d + 1 /\ k = c - d /\ f + k = n
  <2>1. d + 1 \in Nat /\ c - d \in Nat /\ d + 1 + (c - d) = n
    BY ONLY <1>10, c \in Nat, d \in Nat, n \in Nat
  <2> QED BY <2>1, Zenon
<1>12. Run(s, f, pre, p, o)
  BY <1>5, <1>9, <1>11, Zenon DEF Aligned, Stream
<1>13. /\ pre + Len(s) = k * p /\ Len(u) = Len(s) + p
       /\ \A i \in 1 .. p : u[Len(s) + i] = <<f + k, o + i>>
  <2>1. pre + Len(s) = k * p /\ Len(u) = Len(s) + p
    BY <1>3, <1>8, <1>9, <1>10, <1>11, Zenon
  <2>2. \A i \in 1 .. p : q[i] = <<n, o + i>> /\ u[Len(s) + i] = q[i]
    BY <1>3, <1>8, <1>9, Zenon
  <2> QED BY <1>11, <2>1, <2>2, Zenon
<1>14. Run(u, f, pre, p, o)
  BY ONLY <1>8, <1>12, <1>13, RunAppend, s \in Seq(S), u \in Seq(S), f \in Nat, pre \in Nat,
     p \in Nat \ {0}, k \in Nat, Zenon
<1>15. Stream' = u
  BY <1>1, <1>3, <1>5, <1>6, <1>7, Zenon DEF Stream, Encrypt, recvVars
<1>16. Consumed' = pre /\ PacketSize' = p /\ Offset' = o /\ Len(out') = d
  BY <1>9, Zenon DEF Encrypt, recvVars, Consumed, PacketSize, Offset, Prefixed
<1>17. Aligned'
  BY <1>11, <1>14, <1>15, <1>16, Zenon DEF Aligned
<1>18. pre + Len(u) = ((c + 1) - d) * p
  <2>1. (k + 1) * p = k * p + p /\ k * p \in Nat
    BY OnePacket
  <2>2. (c + 1) - d = k + 1
    BY ONLY <1>11, c \in Nat, d \in Nat
  <2>3. pre + Len(u) = k * p + p
    <3>1. PICK y \in Nat : y = k * p
      BY <2>1, Zenon
    <3>2. pre + Len(s) = y /\ Len(u) = Len(s) + p /\ Len(s) \in Nat
      BY <1>8, <1>13, <3>1, Zenon
    <3>3. pre + Len(u) = y + p
      BY ONLY <3>2, pre \in Nat, p \in Nat
    <3> QED BY <3>1, <3>3, Zenon
  <2> QED BY <2>1, <2>2, <2>3, Zenon
<1> QED BY <1>9, <1>15, <1>16, <1>17, <1>18, Zenon

\* One more frame, accepted or not, changes nothing about the ones before it.
LEMMA SentValues ==
  ASSUME TypeOK, NEW kind, Encrypt(kind)
  PROVE  /\ Len(frames') = Len(frames) + 1
         /\ \A i \in DOMAIN frames : i \in DOMAIN frames' /\ CodecValue(i)' = CodecValue(i)
<1>1. frames \in Seq({"good", "bad"})
  BY Zenon DEF TypeOK
<1>2. frames \in Seq({"good", "bad", kind})
  BY <1>1
<1>3. PICK h \in Seq({"good", "bad", kind}) : h = frames
  BY <1>2, Zenon
<1>4. /\ Len(Append(h, kind)) = Len(h) + 1 /\ Len(h) \in Nat
      /\ DOMAIN h = 1 .. Len(h) /\ DOMAIN Append(h, kind) = 1 .. Len(h) + 1
      /\ \A i \in 1 .. Len(h) : Append(h, kind)[i] = h[i]
  BY ONLY h \in Seq({"good", "bad", kind}), Appended
<1>5. \A i \in 1 .. Len(h) : i \in 1 .. Len(h) + 1
  BY <1>4
<1>6. frames' = Append(h, kind)
  BY <1>3, Zenon DEF Encrypt
<1>7. \A i \in DOMAIN frames : i \in DOMAIN frames' /\ frames'[i] = frames[i]
  BY <1>3, <1>4, <1>5, <1>6, Zenon
<1> QED BY <1>3, <1>4, <1>6, <1>7, Zenon DEF CodecValue

\* A frame is sent, to a transport that takes it or does not.
LEMMA SendSteps ==
  ASSUME StreamInv, NEW kind \in {"good", "bad"}, SendFrame(kind)
  PROVE  (Tracked => Aligned') /\ (~ lost => Complete')
<1>0. TypeOK /\ Encrypt(kind)
  BY Zenon DEF StreamInv, SendFrame
<1>1. /\ medium' = medium /\ limit' = limit /\ sender' = sender /\ buf' = buf /\ want' = want
      /\ nonce' = nonce /\ out' = out /\ ended' = ended /\ closed' = closed
  BY <1>0, Zenon DEF Encrypt, recvVars
<1>2. /\ Len(frames') = Len(frames) + 1 /\ Len(frames) \in Nat /\ DOMAIN frames = 1 .. Len(frames)
      /\ \A i \in DOMAIN frames : CodecValue(i)' = CodecValue(i)
  BY <1>0, SentValues, StreamFacts, Zenon
<1>3. /\ Consumed' = Consumed /\ PacketSize' = PacketSize /\ (SenderEnded' <=> SenderEnded)
  BY <1>1, Zenon DEF Consumed, PacketSize, Prefixed, SenderEnded
<1>4. ASSUME Complete
      PROVE  /\ Len(out) <= Count /\ Count \in Nat /\ Count <= Len(frames)
             /\ \A i \in DOMAIN out' : out'[i] = CodecValue(i)'
  <2>1. out \in Seq(Nat)
    BY <1>0, Zenon DEF TypeOK
  <2>2. Len(out) <= Count /\ Count \in Nat /\ Count <= Len(frames)
    BY <1>4, Zenon DEF Complete
  <2>3. \A i \in DOMAIN out : i \in DOMAIN frames
    BY <1>2, <2>1, <2>2
  <2> QED BY <1>1, <1>2, <1>4, <2>2, <2>3, Zenon DEF Complete
<1>5. CASE sender = "open" /\ (medium = "tcp" => CipherSize <= limit)
  <2>1. CipherSize <= limit
    <3>1. medium # "tcp" => limit = CipherSize
      BY <1>0, Zenon DEF TypeOK
    <3>2. CipherSize \in Nat
      BY <1>0, StreamFacts
    <3> QED BY <1>5, <3>1, <3>2
  <2>2. Tracked => ~ lost
    <3>1. medium = "codec" /\ lost => sender = "gone"
      BY Zenon DEF StreamInv, Decodes
    <3> QED BY <1>5, <3>1 DEF Tracked
  <2>3. ~ lost => Complete /\ Aligned
    BY Zenon DEF StreamInv
  <2>4. wire' = wire \o Packet(Len(frames) + 1) /\ accepted' = accepted \cup {Len(frames) + 1}
    BY <1>5, Zenon DEF SendFrame
  <2>5. ASSUME ~ lost PROVE Aligned' /\ Complete'
    <3>0. Complete /\ Aligned
      BY <2>3, <2>5, Zenon
    <3>1. Aligned' /\ Consumed' + Len(Stream') = ((Count + 1) - Len(out)) * PacketSize
      BY <1>0, <1>5, <2>1, <2>4, <3>0, SentAligned, Zenon
    <3>2. Count \in Nat /\ accepted = 1 .. Count /\ Count = Len(frames) /\ Len(out) <= Count
      BY <1>5, <2>1, <3>0, Zenon DEF Complete
    <3>3. accepted' = 1 .. Count + 1
      BY <2>4, <3>2
    <3>4. Count' = Count + 1
      <4>1. Count + 1 \in Nat
        BY <3>2
      <4>2. PICK c \in Nat : c = Count + 1
        BY <4>1, Zenon
      <4>3. accepted' = 1 .. c
        BY <3>3, <4>2, Zenon
      <4>4. (CHOOSE m \in Nat : 1 .. c = 1 .. m) = c
        BY Counted, Zenon
      <4>5. Count' = c
        BY ONLY <4>3, <4>4, Zenon DEF Count
      <4> QED BY <4>2, <4>5, Zenon
    <3>5. Count + 1 \in Nat /\ Count + 1 <= Len(frames') /\ Count + 1 = Len(frames') /\ Len(out') <= Count + 1
      <4>1. Len(out) \in Nat
        BY <1>0, StreamFacts, Zenon
      <4> QED BY <1>1, <1>2, <3>2, <4>1
    <3>6. ~ (limit < CipherSize)
      BY <1>0, <2>1, StreamFacts DEF TypeOK
    <3>7. ended => medium = "memory" /\ closed
      BY <1>0, <1>5, <3>0 DEF Complete, SenderEnded, TypeOK
    <3>8. ended' => medium' = "memory" /\ closed'
      BY ONLY <1>1, <3>7
    <3>9. Consumed' + Len(Stream') = (Count' - Len(out')) * PacketSize'
      <4>1. Count' - Len(out') = (Count + 1) - Len(out)
        BY ONLY <1>1, <3>4, Zenon
      <4>2. (Count' - Len(out')) * PacketSize' = ((Count + 1) - Len(out)) * PacketSize
        BY ONLY <1>3, <4>1, Zenon
      <4> QED BY ONLY <3>1, <4>2, Zenon
    <3>10. medium' # "codec" => nonce' = Len(out')
      BY <1>1, <3>0, Zenon DEF Complete
    <3>11. want' \in {-1, CipherSize}
      BY <1>1, <3>0, Zenon DEF Complete
    <3> QED BY <1>1, <1>4, <3>0, <3>1, <3>3, <3>4, <3>5, <3>6, <3>8, <3>9, <3>10, <3>11, Zenon DEF Complete
  <2> QED BY <2>2, <2>5, Zenon
<1>6. CASE ~ (sender = "open" /\ (medium = "tcp" => CipherSize <= limit))
  <2>1. wire' = wire /\ accepted' = accepted
    BY <1>6, Zenon DEF SendFrame
  <2>2. Stream' = Stream /\ Count' = Count
    BY <1>1, <2>1, Zenon DEF Stream, Count
  <2>3. Tracked => Aligned'
    BY <1>1, <2>2, SameAligned, Zenon DEF StreamInv, Tracked
  <2>4. ASSUME ~ lost PROVE Complete'
    <3>0. Complete
      BY <2>4, Zenon DEF StreamInv
    <3>1. Count' <= Len(frames')
      BY <1>2, <1>4, <2>2, <3>0
    <3>2. ~ (sender' = "open" /\ CipherSize <= limit')
      BY <1>1, <1>6, Zenon
    <3>3. ended' => IF medium' = "memory" THEN closed'
                                          ELSE Stream' = <<>> /\ want' = -1 /\ SenderEnded'
      BY ONLY <1>1, <1>3, <2>2, <3>0 DEF Complete
    <3> QED BY <1>1, <1>3, <1>4, <2>1, <2>2, <3>0, <3>1, <3>2, <3>3, Zenon DEF Complete
  <2> QED BY <2>3, <2>4, Zenon
<1> QED BY <1>5, <1>6, Zenon

\* Bytes arrive.
LEMMA ArriveSteps ==
  ASSUME StreamInv, NEW k \in Nat, Arrive(k)
  PROVE  (Tracked => Aligned') /\ (~ lost => Complete')
<1>0. TypeOK
  BY Zenon DEF StreamInv
<1>1. /\ medium' = medium /\ limit' = limit /\ frames' = frames /\ accepted' = accepted
      /\ sender' = sender /\ want' = want /\ nonce' = nonce /\ out' = out /\ ended' = ended
      /\ ~ ended /\ k <= Len(wire)
      /\ buf' = buf \o SubSeq(wire, 1, k) /\ wire' = SubSeq(wire, k + 1, Len(wire))
  BY Zenon DEF Arrive, sendVars
<1>2. Stream' = Stream
  <2>1. PICK S : S = Bytes(Len(frames))
    OBVIOUS
  <2>2. PICK b \in Seq(S), w \in Seq(S) : b = buf /\ w = wire
    BY <1>0, <2>1, Zenon DEF TypeOK
  <2>3. k \in 0 .. Len(w)
    BY <1>1, <2>2
  <2>4. (b \o SubSeq(w, 1, k)) \o SubSeq(w, k + 1, Len(w)) = b \o w
    BY ONLY <2>3, Moved, b \in Seq(S), w \in Seq(S), Zenon
  <2> QED BY <1>1, <2>2, <2>4, Zenon DEF Stream
<1>3. Tracked => Aligned'
  BY <1>1, <1>2, SameAligned, Zenon DEF StreamInv, Tracked
<1>4. ~ ended'
  BY <1>1
<1> QED BY <1>1, <1>2, <1>3, <1>4, SameComplete, Zenon DEF StreamInv

-----------------------------------------------------------------------------
(* The receiver's steps *)

\* What the stream holds is what the receiver has and what is on its way.
LEMMA StreamParts ==
  ASSUME TypeOK
  PROVE  /\ \A j \in 1 .. Len(buf) : j \in 1 .. Len(Stream) /\ Stream[j] = buf[j]
         /\ \A j \in 1 .. Len(wire) : Stream[Len(buf) + j] = wire[j]
         /\ buf = <<>> => Stream = wire
         /\ wire = <<>> => Stream = buf
         /\ buf = <<>> <=> Len(buf) = 0
         /\ wire = <<>> <=> Len(wire) = 0
         /\ Stream = <<>> <=> Len(Stream) = 0
<1>1. PICK S : S = Bytes(Len(frames))
  OBVIOUS
<1>2. PICK b \in Seq(S), w \in Seq(S) : b = buf /\ w = wire
  BY <1>1, Zenon DEF TypeOK
<1>3. /\ \A j \in 1 .. Len(b) : (b \o w)[j] = b[j]
      /\ \A j \in 1 .. Len(w) : (b \o w)[Len(b) + j] = w[j]
      /\ Len(b \o w) = Len(b) + Len(w) /\ b \o w \in Seq(S) /\ Len(b) \in Nat /\ Len(w) \in Nat
  BY ONLY b \in Seq(S), w \in Seq(S), Join
<1>4. (b = <<>> => b \o w = w) /\ (w = <<>> => b \o w = b)
  BY ONLY b \in Seq(S), w \in Seq(S)
<1>5. /\ b = <<>> <=> Len(b) = 0
      /\ w = <<>> <=> Len(w) = 0
  BY ONLY b \in Seq(S), w \in Seq(S)
<1>6. b \o w = <<>> <=> Len(b \o w) = 0
  <2>1. PICK s \in Seq(S) : s = b \o w
    BY <1>3, Zenon
  <2>2. s = <<>> <=> Len(s) = 0
    BY ONLY s \in Seq(S)
  <2> QED BY <2>1, <2>2, Zenon
<1>7. \A j \in 1 .. Len(b) : j \in 1 .. Len(b \o w)
  BY <1>3
<1> QED BY <1>2, <1>3, <1>4, <1>5, <1>6, <1>7, Zenon DEF Stream

\* A length that is read is that of the next packet, and within the limit.
LEMMA LengthSteps ==
  ASSUME StreamInv, ReadLength
  PROVE  (Tracked => Aligned') /\ (~ lost => Complete')
<1>0. TypeOK /\ Prefixed /\ want = -1 /\ Len(buf) = 2 /\ buf' = <<>> /\ HeaderSize = 2
  BY Zenon DEF StreamInv, ReadLength, HeaderSize
<1>1. /\ medium' = medium /\ limit' = limit /\ frames' = frames /\ accepted' = accepted /\ wire' = wire
      /\ sender' = sender /\ nonce' = nonce /\ closed' = closed /\ ended' = ended
  BY Zenon DEF ReadLength, sendVars
<1>2. medium # "codec" /\ medium # "memory"
  BY <1>0 DEF Prefixed
<1>3. Tracked => ~ lost
  BY <1>2, Zenon DEF Tracked
<1>4. ASSUME ~ lost PROVE Aligned' /\ Complete'
  <2>0. Aligned /\ Complete
    BY <1>4, Zenon DEF StreamInv
  <2>1. /\ Consumed = 0 /\ Offset = 0 /\ PacketSize = 2 + CipherSize /\ CipherSize \in Nat \ {0}
        /\ Len(Stream) = 2 + Len(wire) /\ Len(wire) \in Nat
    BY <1>0, StreamFacts DEF Consumed, Offset, PacketSize
  <2>2. ASSUME NEW j \in 1 .. 2
        PROVE  buf[j] = <<Len(out) + 1, j>> /\ Len(out) + 1 \in DOMAIN frames
    <3>1. j \in Nat \ {0} /\ j <= PacketSize - Consumed /\ j <= Len(Stream)
      BY ONLY <2>1, j \in 1 .. 2
    <3>2. Stream[j] = <<Len(out) + 1, Offset + Consumed + j>> /\ Len(out) + 1 \in DOMAIN frames
      BY <1>0, <2>0, <3>1, NextBytes, Zenon
    <3>3. Stream[j] = buf[j]
      BY <1>0, StreamParts, Zenon
    <3>4. Offset + Consumed + j = j
      BY ONLY <2>1, j \in 1 .. 2
    <3> QED BY <3>2, <3>3, <3>4, Zenon
  <2>3. Len(out) + 1 \in DOMAIN frames /\ Len(out) + 1 \in Nat \ {0}
    <3>1. 1 \in 1 .. 2
      OBVIOUS
    <3>2. Len(out) + 1 \in Nat \ {0}
      BY <1>0, StreamFacts
    <3> QED BY <2>2, <3>1, <3>2, Zenon
  <2>4. buf = Header(Len(out) + 1)
    <3>1. buf \in Seq(Bytes(Len(frames)))
      BY <1>0, Zenon DEF TypeOK
    <3>2. buf = [j \in 1 .. 2 |-> buf[j]]
      BY <1>0, <3>1
    <3>3. Header(Len(out) + 1) = [j \in 1 .. 2 |-> <<Len(out) + 1, j>>]
      BY <1>0, Zenon DEF Header
    <3> QED BY <2>2, <3>2, <3>3, Zenon
  <2>5. Announced = {CipherSize}
    BY <2>3, <2>4, Zenon DEF Announced
  <2>6. limit \in Nat /\ Count \in Nat /\ Len(out) \in Nat /\ Len(out) <= Count
    BY <1>0, <2>0, StreamFacts, Zenon DEF TypeOK, Complete
  <2>7. ~ TooLong(CipherSize)
    <3>1. ASSUME Count = 0 PROVE FALSE
      <4>1. Len(out) = 0
        BY ONLY <2>6, <3>1
      <4>2. Count - Len(out) = 0
        BY <3>1, <4>1
      <4>3. Consumed + Len(Stream) = 0 * PacketSize
        BY <2>0, <4>2, Zenon DEF Complete
      <4> QED BY ONLY <2>1, <4>3
    <3>2. limit < CipherSize => Count = 0
      BY <2>0, Zenon DEF Complete
    <3> QED BY <2>1, <2>6, <3>1, <3>2 DEF TooLong
  <2>8. want' = CipherSize /\ out' = out
    BY <2>5, <2>7, Zenon DEF ReadLength
  <2>9. Consumed' = 2 /\ PacketSize' = PacketSize /\ Offset' = Offset /\ Stream' = wire
        /\ Count' = Count /\ (SenderEnded' <=> SenderEnded)
    <3>1. CipherSize # -1
      BY <2>1
    <3>2. PICK w \in Seq(Bytes(Len(frames))) : w = wire
      BY <1>0, Zenon DEF TypeOK
    <3>3. <<>> \o w = w
      OBVIOUS
    <3>4. Stream' = wire
      BY <1>0, <1>1, <3>2, <3>3, Zenon DEF Stream
    <3> QED BY <1>0, <1>1, <2>8, <3>1, <3>4, Zenon
            DEF Consumed, PacketSize, Offset, Prefixed, Count, SenderEnded
  <2>10. Aligned'
    <3>1. PICK S : S = Bytes(Len(frames))
      OBVIOUS
    <3>2. PICK s \in Seq(S), t \in Seq(S) : s = Stream /\ t = wire
      BY <1>0, <3>1, StreamFacts, Zenon DEF TypeOK
    <3>3. 2 \in 0 .. Len(s) /\ Len(t) = Len(s) - 2
      BY <2>1, <3>2
    <3>4. \A j \in 1 .. Len(t) : t[j] = s[j + 2]
      <4>1. \A j \in 1 .. Len(t) : j + 2 = 2 + j
        OBVIOUS
      <4>2. \A j \in 1 .. Len(wire) : Stream[Len(buf) + j] = wire[j]
        BY <1>0, StreamParts, Zenon
      <4>3. \A j \in 1 .. Len(t) : s[2 + j] = t[j]
        BY ONLY <1>0, <3>2, <4>2, Zenon
      <4> QED BY ONLY <4>1, <4>3, Zenon
    <3>5. PICK p \in Nat : p = PacketSize
      BY <2>1
    <3>6. PICK f : f = Len(out) + 1
      OBVIOUS
    <3>7. Run(s, f, 0, p, 0) /\ 0 \in Nat
      BY <2>0, <2>1, <3>2, <3>5, <3>6, Zenon DEF Aligned
    <3>8. Run(t, f, 0 + 2, p, 0)
      BY ONLY <3>3, <3>4, <3>7, RunDrop, p \in Nat, s \in Seq(S), t \in Seq(S), Zenon
    <3>9. 0 + 2 = 2
      OBVIOUS
    <3> QED BY <2>1, <2>8, <2>9, <3>2, <3>5, <3>8, <3>9, <3>6, Zenon DEF Aligned
  <2>11. Complete'
    <3>1. Consumed' + Len(Stream') = (Count - Len(out)) * PacketSize
      <4>1. Consumed + Len(Stream) = (Count - Len(out)) * PacketSize
        BY <2>0, Zenon DEF Complete
      <4>2. Consumed' + Len(Stream') = Consumed + Len(Stream)
        BY ONLY <2>1, <2>9
      <4> QED BY <4>1, <4>2, Zenon
    <3>2. ~ ended
      <4>1. Stream # <<>>
        BY <1>0, <2>1, StreamParts
      <4> QED BY <1>2, <2>0, <4>1, Zenon DEF Complete
    <3>3. \A i \in DOMAIN out' : out'[i] = CodecValue(i)'
      BY <1>1, <2>0, <2>8, Zenon DEF Complete, CodecValue
    <3>4. ~ ended'
      BY ONLY <1>1, <3>2
    <3> QED BY <1>1, <2>0, <2>8, <2>9, <3>1, <3>3, <3>4, Zenon DEF Complete
  <2> QED BY <2>10, <2>11, Zenon
<1> QED BY <1>3, <1>4, Zenon

\* The next packet decrypts, and to the next frame.
LEMMA NextDecrypts ==
  ASSUME TypeOK, Complete, medium # "codec", Len(out) + 1 \in DOMAIN frames,
         Decrypt(Body(Len(out) + 1))
  PROVE  nonce' = nonce + 1 /\ out' = Append(out, CodecValue(Len(out) + 1))
<1>1. nonce = Len(out)
  BY Zenon DEF Complete
<1>2. Decrypts(Body(Len(out) + 1))
  BY <1>1, Zenon DEF Decrypts
<1>3. nonce' = nonce + 1 /\ out' = Append(out, nonce + 1)
  BY <1>2, DecryptValue, Zenon
<1>4. CodecValue(Len(out) + 1) = Len(out) + 1
  BY Zenon DEF TypeOK, CodecValue
<1> QED BY <1>1, <1>3, <1>4, Zenon

\* A packet is complete, and decrypted.
LEMMA RecvSteps ==
  ASSUME StreamInv, TypeOK', RecvFrame
  PROVE  (Tracked => Aligned') /\ (~ lost => Complete')
<1>0. TypeOK /\ Prefixed /\ want # -1 /\ Len(buf) = want /\ buf' = <<>> /\ want' = -1 /\ Decrypt(buf)
  BY Zenon DEF StreamInv, RecvFrame
<1>1. UNCHANGED <<medium, limit, sendVars, closed, ended>> /\ wire' = wire
  BY Zenon DEF RecvFrame
<1>2. medium # "codec" /\ medium # "memory"
  BY <1>0 DEF Prefixed
<1>3. Tracked => ~ lost
  BY <1>2, Zenon DEF Tracked
<1>4. ASSUME ~ lost PROVE Aligned' /\ Complete'
  <2>0. Aligned /\ Complete
    BY <1>4, Zenon DEF StreamInv
  <2>1. Len(buf) = CipherSize
    BY <1>0, <2>0, Zenon DEF Complete
  <2>2. /\ Len(Stream) = CipherSize + Len(wire) /\ Len(wire) \in Nat /\ CipherSize \in Nat
        /\ CipherSize \in 0 .. Len(Stream) /\ CipherSize <= Len(Stream)
    <3>1. Len(Stream) = CipherSize + Len(wire) /\ Len(wire) \in Nat /\ CipherSize \in Nat
      BY <1>0, <2>1, StreamFacts, Zenon
    <3> QED BY ONLY <3>1
  <2>3. \A j \in 1 .. CipherSize : buf[j] = Stream[j]
    BY <1>0, <2>1, StreamParts, Zenon
  <2>4. buf \in Seq(Bytes(Len(frames)))
    BY <1>0, Zenon DEF TypeOK
  <2>5. /\ buf = Body(Len(out) + 1) /\ Len(out) + 1 \in DOMAIN frames
        /\ Consumed + CipherSize = PacketSize
    BY <1>0, <2>0, <2>1, <2>2, <2>3, <2>4, NextPacket, Zenon
  <2>6. nonce' = nonce + 1 /\ out' = Append(out, CodecValue(Len(out) + 1))
    <3>1. Decrypt(Body(Len(out) + 1))
      BY <1>0, <2>5, Zenon
    <3> QED BY <1>0, <1>2, <2>0, <2>5, <3>1, NextDecrypts, Zenon
  <2>7. Stream' = wire
    <3>1. PICK w \in Seq(Bytes(Len(frames))) : w = wire
      BY <1>0, Zenon DEF TypeOK
    <3>2. <<>> \o w = w
      OBVIOUS
    <3> QED BY <1>0, <1>1, <3>1, <3>2, Zenon DEF Stream
  <2>8. Len(Stream') = Len(Stream) - CipherSize
    BY ONLY <2>2, <2>7
  <2>9. \A j \in 1 .. Len(Stream') : Stream'[j] = Stream[j + CipherSize]
    <3>1. \A j \in 1 .. Len(wire) : Stream[CipherSize + j] = wire[j]
      BY <1>0, <2>1, StreamParts, Zenon
    <3>2. \A j \in 1 .. Len(wire) : j + CipherSize = CipherSize + j
      BY ONLY <2>2
    <3> QED BY ONLY <2>7, <3>1, <3>2, Zenon
  <2>10. Len(out') = Len(out) + 1
    <3>1. CodecValue(Len(out) + 1) \in Nat /\ out \in Seq(Nat)
      BY <1>0, StreamFacts DEF CodecValue, TypeOK
    <3> QED BY <2>6, <3>1, Appended, Zenon
  <2>11. Aligned'
    BY <1>0, <1>1, <2>0, <2>2, <2>5, <2>8, <2>9, <2>10, TakenAligned, Zenon DEF sendVars
  <2>12. Complete'
    BY <1>0, <1>1, <2>0, <2>2, <2>5, <2>6, <2>8, TakenComplete, Zenon
  <2> QED BY <2>11, <2>12, Zenon
<1> QED BY <1>3, <1>4, Zenon

\* Less than a packet is nothing at all.
LEMMA NoPart ==
  ASSUME NEW p \in Nat \ {0}, NEW k \in Nat, NEW len \in Nat, len = k * p, len < p
  PROVE  k = 0 /\ len = 0
<1>1. k # 0 => p <= k * p
  BY OnePacket
<1>2. k = 0
  BY <1>1
<1>3. 0 * p = 0
  OBVIOUS
<1> QED BY <1>2, <1>3, Zenon

\* The stream ends, and what was sent has been returned.
LEMMA EofSteps ==
  ASSUME StreamInv, RecvEof
  PROVE  (Tracked => Aligned') /\ (~ lost => Complete')
<1>0. TypeOK /\ Prefixed /\ wire = <<>> /\ SenderEnded /\ buf' = <<>> /\ want' = -1 /\ HeaderSize = 2
  BY Zenon DEF StreamInv, RecvEof, Eof, HeaderSize
<1>1. /\ medium' = medium /\ limit' = limit /\ frames' = frames /\ accepted' = accepted /\ wire' = wire
      /\ sender' = sender /\ nonce' = nonce /\ closed' = closed
  BY Zenon DEF RecvEof, sendVars
<1>2. medium # "codec" /\ medium # "memory"
  BY <1>0 DEF Prefixed
<1>3. Tracked => ~ lost
  BY <1>2, Zenon DEF Tracked
<1>4. ASSUME ~ lost PROVE Aligned' /\ Complete'
  <2>0. Aligned /\ Complete
    BY <1>4, Zenon DEF StreamInv
  <2>1. /\ PacketSize = 2 + CipherSize /\ CipherSize \in Nat \ {0} /\ Stream = buf /\ Len(buf) \in Nat
        /\ Len(out) \in Nat /\ Consumed = IF want = -1 THEN 0 ELSE 2
    BY <1>0, StreamFacts, StreamParts, Zenon DEF PacketSize, Consumed
  <2>2. /\ Count \in Nat /\ Len(out) <= Count
        /\ Consumed + Len(buf) = (Count - Len(out)) * PacketSize
        /\ want \in {-1, CipherSize}
    BY <2>0, <2>1, Zenon DEF Complete
  <2>3. PICK p \in Nat \ {0}, k \in Nat, len \in Nat :
          p = PacketSize /\ k = Count - Len(out) /\ len = Consumed + Len(buf)
    <3>1. PacketSize \in Nat \ {0} /\ Count - Len(out) \in Nat /\ Consumed + Len(buf) \in Nat
      BY <2>1, <2>2
    <3> QED BY <3>1, Zenon
  <2>4. len = k * p
    BY <2>2, <2>3, Zenon
  <2>5. len < p
    <3>1. \/ want = -1 /\ Len(buf) < 2
          \/ want # -1 /\ Len(buf) < want
      BY <1>0, Zenon DEF RecvEof
    <3> QED BY <2>1, <2>2, <2>3, <3>1
  <2>6. len = 0
    BY ONLY <2>4, <2>5, NoPart, p \in Nat \ {0}, k \in Nat, len \in Nat
  <2>7. Consumed = 0 /\ Len(buf) = 0 /\ want = -1
    BY <2>1, <2>3, <2>6
  <2>8. out' = out
    <3>1. ~ (Len(buf) < want)
      BY <2>7
    <3> QED BY <2>7, <3>1, Zenon DEF RecvEof
  <2>9. Stream' = Stream /\ Stream = <<>>
    <3>1. buf = <<>>
      BY <1>0, <2>7, StreamParts, Zenon
    <3> QED BY <1>0, <1>1, <2>1, <3>1, Zenon DEF Stream
  <2>10. want' = want
    BY <1>0, <2>7, Zenon
  <2>11. Aligned'
    BY <1>1, <2>0, <2>8, <2>9, <2>10, SameAligned, Zenon
  <2>12. SenderEnded'
    BY <1>0, <1>1, Zenon DEF SenderEnded
  <2>13. Complete'
    BY <1>1, <1>2, <2>0, <2>7, <2>8, <2>9, <2>10, <2>12, SameComplete, Zenon
  <2> QED BY <2>11, <2>13, Zenon
<1> QED BY <1>3, <1>4, Zenon

\* A packet is taken out of memory, or there will be none.
LEMMA MemorySteps ==
  ASSUME StreamInv, TypeOK', RecvMemory
  PROVE  (Tracked => Aligned') /\ (~ lost => Complete')
<1>0. TypeOK /\ medium = "memory" /\ ~ Prefixed /\ buf = <<>> /\ want = -1
  <2>1. TypeOK /\ medium = "memory"
    BY Zenon DEF StreamInv, RecvMemory
  <2>2. ~ Prefixed
    BY <2>1 DEF Prefixed
  <2> QED BY <2>1, <2>2, Zenon DEF TypeOK
<1>1. UNCHANGED <<medium, limit, sendVars>> /\ buf' = buf /\ want' = want
  BY Zenon DEF RecvMemory
<1>3. Tracked => ~ lost
  BY <1>0 DEF Tracked
<1>4. ASSUME ~ lost PROVE Aligned' /\ Complete'
  <2>0. Aligned /\ Complete
    BY <1>4, Zenon DEF StreamInv
  <2>1. CASE ended' = TRUE /\ closed' = TRUE /\ UNCHANGED <<wire, nonce, out>>
    <3>1. Stream' = Stream
      BY <1>1, <2>1, Zenon DEF Stream
    <3>2. closed'
      BY <2>1
    <3> QED BY <1>0, <1>1, <2>0, <2>1, <3>1, <3>2, SameAligned, SameComplete, Zenon DEF sendVars
  <2>2. CASE /\ wire # <<>> /\ wire' = SubSeq(wire, CipherSize + 1, Len(wire))
             /\ Decrypt(SubSeq(wire, 1, CipherSize)) /\ UNCHANGED <<ended, closed>>
    <3>1. /\ Stream = wire /\ Len(wire) \in Nat /\ Len(wire) # 0 /\ CipherSize \in Nat \ {0}
          /\ Len(out) \in Nat /\ PacketSize = CipherSize /\ Consumed = 0
      BY <1>0, <2>2, StreamFacts, StreamParts, Zenon DEF PacketSize, Consumed
    <3>2. PICK p \in Nat \ {0}, k \in Nat, len \in Nat :
            p = CipherSize /\ k = Count - Len(out) /\ len = Len(wire) /\ 0 + len = k * p
      <4>1. Count \in Nat /\ Len(out) <= Count /\ 0 + Len(wire) = (Count - Len(out)) * CipherSize
        BY <2>0, <3>1, Zenon DEF Complete
      <4>2. Count - Len(out) \in Nat
        BY ONLY <3>1, <4>1
      <4> QED BY <3>1, <4>1, <4>2, Zenon
    <3>3. CipherSize <= Len(wire) /\ CipherSize \in 0 .. Len(wire)
      <4>1. k # 0 => p <= k * p
        BY OnePacket
      <4>2. k = 0 => k * p = 0
        OBVIOUS
      <4>3. p <= len
        BY ONLY <3>1, <3>2, <4>1, <4>2
      <4> QED BY ONLY <3>1, <3>2, <4>3
    <3>4. PICK S : S = Bytes(Len(frames))
      OBVIOUS
    <3>5. PICK w \in Seq(S) : w = wire
      BY <1>0, <3>4, Zenon DEF TypeOK
    <3>6. PICK b \in Seq(S), t \in Seq(S) :
            /\ b = SubSeq(w, 1, CipherSize) /\ t = SubSeq(w, CipherSize + 1, Len(w))
            /\ Len(b) = CipherSize /\ \A j \in 1 .. CipherSize : b[j] = w[j]
            /\ Len(t) = Len(w) - CipherSize
            /\ \A j \in 1 .. Len(w) - CipherSize : t[j] = w[j + CipherSize]
      <4>1. CipherSize \in 0 .. Len(w)
        BY <3>3, <3>5, Zenon
      <4>2. /\ SubSeq(w, 1, CipherSize) \in Seq(S) /\ Len(SubSeq(w, 1, CipherSize)) = CipherSize
            /\ \A j \in 1 .. CipherSize : SubSeq(w, 1, CipherSize)[j] = w[j]
        BY ONLY <4>1, w \in Seq(S), Cut
      <4>3. /\ SubSeq(w, CipherSize + 1, Len(w)) \in Seq(S)
            /\ Len(SubSeq(w, CipherSize + 1, Len(w))) = Len(w) - CipherSize
            /\ \A j \in 1 .. Len(w) - CipherSize : SubSeq(w, CipherSize + 1, Len(w))[j] = w[j + CipherSize]
        BY ONLY <4>1, w \in Seq(S), Cut
      <4> QED BY <4>2, <4>3, Zenon
    <3>7. b \in Seq(Bytes(Len(frames))) /\ CipherSize <= Len(Stream) /\ CipherSize \in 0 .. Len(Stream)
          /\ \A j \in 1 .. CipherSize : b[j] = Stream[j]
      BY <3>1, <3>3, <3>4, <3>5, <3>6, Zenon
    <3>8. /\ b = Body(Len(out) + 1) /\ Len(out) + 1 \in DOMAIN frames
          /\ Consumed + CipherSize = PacketSize
      BY <1>0, <2>0, <3>6, <3>7, NextPacket, Zenon
    <3>9. nonce' = nonce + 1 /\ out' = Append(out, CodecValue(Len(out) + 1))
      <4>1. Decrypt(Body(Len(out) + 1))
        BY <2>2, <3>5, <3>6, <3>8, Zenon
      <4>2. medium # "codec"
        BY <1>0
      <4> QED BY <1>0, <2>0, <3>8, <4>1, <4>2, NextDecrypts, Zenon
    <3>10. Stream' = t
      <4>1. <<>> \o t = t
        OBVIOUS
      <4>2. Stream' = <<>> \o wire'
        BY <1>0, <1>1, Zenon DEF Stream
      <4> QED BY <2>2, <3>5, <3>6, <4>1, <4>2, Zenon
    <3>11. Len(Stream') = Len(Stream) - CipherSize
           /\ \A j \in 1 .. Len(Stream') : Stream'[j] = Stream[j + CipherSize]
      BY <3>1, <3>5, <3>6, <3>10, Zenon
    <3>12. Len(out') = Len(out) + 1
      <4>1. CodecValue(Len(out) + 1) \in Nat /\ out \in Seq(Nat)
        BY <1>0, StreamFacts DEF CodecValue, TypeOK
      <4> QED BY <3>9, <4>1, Appended, Zenon
    <3>13. Aligned'
      BY <1>0, <1>1, <2>0, <3>7, <3>8, <3>11, <3>12, TakenAligned, Zenon DEF sendVars
    <3>14. Complete'
      BY <1>0, <1>1, <2>0, <2>2, <3>7, <3>8, <3>9, <3>11, TakenComplete, Zenon
    <3> QED BY <3>13, <3>14, Zenon
  <2> QED BY <2>1, <2>2, Zenon DEF RecvMemory
<1> QED BY <1>3, <1>4, Zenon

\* What FrameCodec makes of a frame's bytes.
LEMMA DecodedValue ==
  ASSUME TypeOK, NEW n \in DOMAIN frames
  PROVE  Decoded(Body(n)) = CodecValue(n)
<1>1. \A m \in DOMAIN frames : m \in Nat \ {0}
  BY DEF TypeOK
<1>2. Body(n)[1] = <<n, HeaderSize + 1>>
  BY <1>1, BodyFacts, Zenon
<1>3. Body(n)[1][1] = n
  BY <1>2
<1>4. \A m \in DOMAIN frames : Body(n) = Body(m) => n = m
  BY <1>1, BodyInjective, Zenon
<1> QED BY <1>3, <1>4, Zenon DEF Decoded, CodecValue

\* The codec cuts a frame off its buffer.
LEMMA DecodeSteps ==
  ASSUME StreamInv, TypeOK', DecodeFrame
  PROVE  /\ Aligned' /\ (~ lost => Complete') /\ Decodes'
<1>0. TypeOK /\ medium = "codec" /\ ~ Prefixed /\ want = -1 /\ Decodes /\ CipherSize <= Len(buf)
  <2>1. TypeOK /\ medium = "codec" /\ Decodes /\ Len(buf) >= CipherSize
    BY Zenon DEF StreamInv, DecodeFrame
  <2>2. ~ Prefixed
    BY <2>1 DEF Prefixed
  <2>3. want = -1
    BY <2>1, <2>2, Zenon DEF TypeOK
  <2>4. CipherSize <= Len(buf)
    BY <2>1, StreamFacts
  <2> QED BY <2>1, <2>2, <2>3, <2>4, Zenon
<1>1. /\ UNCHANGED <<medium, limit, sendVars, closed, ended>> /\ wire' = wire /\ want' = want /\ lost' = lost
      /\ buf' = SubSeq(buf, CipherSize + 1, Len(buf))
      /\ out' = Append(out, Decoded(SubSeq(buf, 1, CipherSize)))
  BY Zenon DEF DecodeFrame
<1>2. ~ ended
  <2>1. ended => Len(buf) < CipherSize
    BY <1>0, Zenon DEF Decodes
  <2> QED BY <1>0, <2>1, StreamFacts
<1>3. Aligned
  BY <1>0, <1>2, Zenon DEF StreamInv
<1>4. /\ Len(buf) \in Nat /\ Len(wire) \in Nat /\ CipherSize \in Nat \ {0} /\ Len(out) \in Nat
      /\ Len(Stream) = Len(buf) + Len(wire)
  BY <1>0, StreamFacts, Zenon
<1>5. PICK S : S = Bytes(Len(frames))
  OBVIOUS
<1>6. PICK h \in Seq(S), w \in Seq(S) : h = buf /\ w = wire
  BY <1>0, <1>5, Zenon DEF TypeOK
<1>7. CipherSize \in 0 .. Len(h)
  BY <1>0, <1>4, <1>6
<1>8. PICK b \in Seq(S), t \in Seq(S) :
        /\ b = SubSeq(h, 1, CipherSize) /\ t = SubSeq(h, CipherSize + 1, Len(h))
        /\ Len(b) = CipherSize /\ \A j \in 1 .. CipherSize : b[j] = h[j]
        /\ Len(t) = Len(h) - CipherSize
        /\ \A j \in 1 .. Len(h) - CipherSize : t[j] = h[j + CipherSize]
  <2>1. /\ SubSeq(h, 1, CipherSize) \in Seq(S) /\ Len(SubSeq(h, 1, CipherSize)) = CipherSize
        /\ \A j \in 1 .. CipherSize : SubSeq(h, 1, CipherSize)[j] = h[j]
    BY ONLY <1>7, h \in Seq(S), Cut
  <2>2. /\ SubSeq(h, CipherSize + 1, Len(h)) \in Seq(S)
        /\ Len(SubSeq(h, CipherSize + 1, Len(h))) = Len(h) - CipherSize
        /\ \A j \in 1 .. Len(h) - CipherSize : SubSeq(h, CipherSize + 1, Len(h))[j] = h[j + CipherSize]
    BY ONLY <1>7, h \in Seq(S), Cut
  <2> QED BY <2>1, <2>2, Zenon
<1>9. CipherSize <= Len(Stream) /\ CipherSize \in 0 .. Len(Stream)
  BY ONLY <1>0, <1>4
<1>10. \A j \in 1 .. CipherSize : b[j] = Stream[j]
  <2>1. \A j \in 1 .. CipherSize : j \in 1 .. Len(buf)
    BY ONLY <1>0, <1>4
  <2>2. \A j \in 1 .. Len(buf) : Stream[j] = buf[j]
    BY <1>0, StreamParts, Zenon
  <2> QED BY <1>6, <1>8, <2>1, <2>2, Zenon
<1>11. /\ b = Body(Len(out) + 1) /\ Len(out) + 1 \in DOMAIN frames
       /\ Consumed + CipherSize = PacketSize
  <2>1. b \in Seq(Bytes(Len(frames)))
    BY <1>5, Zenon
  <2> QED BY <1>0, <1>3, <1>8, <1>9, <1>10, <2>1, NextPacket, Zenon
<1>12. out' = Append(out, CodecValue(Len(out) + 1))
  BY <1>0, <1>1, <1>6, <1>8, <1>11, DecodedValue, Zenon
<1>13. Stream' = t \o w
  BY <1>1, <1>6, <1>8, Zenon DEF Stream
<1>14. /\ Len(t \o w) = Len(t) + Len(w)
       /\ \A j \in 1 .. Len(t) : (t \o w)[j] = t[j]
       /\ \A j \in 1 .. Len(w) : (t \o w)[Len(t) + j] = w[j]
  BY ONLY t \in Seq(S), w \in Seq(S), Join
<1>15. Len(Stream') = Len(Stream) - CipherSize /\ Len(t) = Len(buf) - CipherSize /\ Len(t) \in Nat
  <2>1. Len(t) = Len(buf) - CipherSize /\ Len(Stream') = Len(t) + Len(wire)
    BY <1>6, <1>8, <1>13, <1>14, Zenon
  <2> QED BY ONLY <1>0, <1>4, <2>1
<1>16. ASSUME NEW j \in 1 .. Len(Stream') PROVE Stream'[j] = Stream[j + CipherSize]
  <2>1. CASE j \in 1 .. Len(t)
    <3>1. Stream'[j] = buf[j + CipherSize]
      <4>1. Stream'[j] = t[j]
        BY ONLY <1>13, <1>14, <2>1, Zenon
      <4>2. j \in 1 .. Len(h) - CipherSize
        BY <1>8, <2>1, Zenon
      <4>3. t[j] = h[j + CipherSize]
        BY <1>8, <4>2, Zenon
      <4> QED BY ONLY <1>6, <4>1, <4>3, Zenon
    <3>2. j + CipherSize \in 1 .. Len(buf)
      BY ONLY <1>4, <1>15, <2>1
    <3> QED BY <1>0, <3>1, <3>2, StreamParts, Zenon
  <2>2. CASE j \notin 1 .. Len(t)
    <3>1. PICK i \in 1 .. Len(wire) : Len(t) + i = j /\ Len(buf) + i = j + CipherSize
      <4>1. j - Len(t) \in 1 .. Len(wire) /\ Len(t) + (j - Len(t)) = j
            /\ Len(buf) + (j - Len(t)) = j + CipherSize
        BY ONLY <1>4, <1>15, <2>2, j \in 1 .. Len(Stream')
      <4> QED BY <4>1, Zenon
    <3>2. Stream'[j] = wire[i]
      BY <1>6, <1>13, <1>14, <3>1, Zenon
    <3>3. Stream[Len(buf) + i] = wire[i]
      BY <1>0, StreamParts, Zenon
    <3> QED BY <3>1, <3>2, <3>3, Zenon
  <2> QED BY <2>1, <2>2, Zenon
<1>17. /\ Len(out') = Len(out) + 1 /\ DOMAIN out = 1 .. Len(out) /\ DOMAIN out' = 1 .. Len(out) + 1
       /\ \A i \in 1 .. Len(out) : out'[i] = out[i]
       /\ out'[Len(out) + 1] = CodecValue(Len(out) + 1)
  <2>1. CodecValue(Len(out) + 1) \in Nat /\ out \in Seq(Nat)
    BY <1>0, <1>4 DEF CodecValue, TypeOK
  <2>2. PICK v \in Nat, r \in Seq(Nat) : v = CodecValue(Len(out) + 1) /\ r = out
    BY <2>1, Zenon
  <2>3. /\ Len(Append(r, v)) = Len(r) + 1 /\ DOMAIN r = 1 .. Len(r) /\ DOMAIN Append(r, v) = 1 .. Len(r) + 1
        /\ \A i \in 1 .. Len(r) : Append(r, v)[i] = r[i]
        /\ Append(r, v)[Len(r) + 1] = v
    BY ONLY v \in Nat, r \in Seq(Nat), Appended
  <2> QED BY <1>12, <2>2, <2>3, Zenon
<1>18. Aligned'
  BY <1>0, <1>1, <1>3, <1>9, <1>11, <1>15, <1>16, <1>17, TakenAligned, Zenon DEF sendVars
<1>19. ASSUME ~ lost PROVE Complete'
  <2>1. Complete
    BY <1>19, Zenon DEF StreamInv
  <2> QED BY <1>0, <1>1, <1>9, <1>11, <1>12, <1>15, <2>1, TakenComplete, Zenon
<1>20. Decodes'
  <2>1. frames' = frames /\ sender' = sender
    BY <1>1, Zenon DEF sendVars
  <2>2. ~ ended' /\ (lost' => sender' = "gone")
    BY <1>0, <1>1, <1>2, <2>1 DEF Decodes
  <2>3. ASSUME NEW i \in DOMAIN out' PROVE i \in DOMAIN frames' /\ out'[i] = CodecValue(i)'
    <3>1. CodecValue(i)' = CodecValue(i)
      BY <2>1, Zenon DEF CodecValue
    <3>2. i \in 1 .. Len(out) \/ i = Len(out) + 1
      <4>1. i \in 1 .. Len(out) + 1
        BY <1>17, Zenon
      <4> QED BY ONLY <1>4, <4>1
    <3> QED BY <1>0, <1>2, <1>11, <1>17, <2>1, <3>1, <3>2, Zenon DEF Decodes
  <2> QED BY <2>2, <2>3, Zenon DEF Decodes
<1> QED BY <1>18, <1>19, <1>20, Zenon

\* The codec's stream ends, with an error for the rest of a frame that was cut.
LEMMA DecodeEofSteps ==
  ASSUME StreamInv, DecodeEof
  PROVE  (~ lost => Aligned' /\ Complete') /\ Decodes'
<1>0. TypeOK /\ medium = "codec" /\ want = -1 /\ Decodes /\ wire = <<>> /\ SenderEnded /\ Len(buf) < CipherSize
  <2>1. TypeOK /\ medium = "codec" /\ Decodes /\ wire = <<>> /\ SenderEnded /\ Len(buf) < CipherSize
    BY Zenon DEF StreamInv, DecodeEof, Eof
  <2>2. ~ Prefixed
    BY <2>1 DEF Prefixed
  <2> QED BY <2>1, <2>2, Zenon DEF TypeOK
<1>1. /\ medium' = medium /\ limit' = limit /\ frames' = frames /\ accepted' = accepted /\ wire' = wire
      /\ sender' = sender /\ nonce' = nonce /\ closed' = closed /\ buf' = buf /\ want' = want /\ lost' = lost
      /\ out' = IF buf = <<>> THEN out ELSE Append(out, 0)
  BY Zenon DEF DecodeEof, sendVars
<1>2. ~ ended /\ ended'
  BY DEF DecodeEof
<1>3. ASSUME ~ lost PROVE Aligned' /\ Complete'
  <2>0. Aligned /\ Complete
    BY <1>3, Zenon DEF StreamInv
  <2>1. /\ PacketSize = CipherSize /\ CipherSize \in Nat \ {0} /\ Stream = buf /\ Len(buf) \in Nat
        /\ Len(out) \in Nat /\ Consumed = 0
    <3>1. ~ Prefixed
      BY <1>0 DEF Prefixed
    <3> QED BY <1>0, <3>1, StreamFacts, StreamParts, Zenon DEF PacketSize, Consumed
  <2>2. Count \in Nat /\ Len(out) <= Count /\ 0 + Len(buf) = (Count - Len(out)) * CipherSize
    BY <2>0, <2>1, Zenon DEF Complete
  <2>3. Len(buf) = 0
    <3>1. PICK p \in Nat \ {0}, k \in Nat, len \in Nat :
            p = CipherSize /\ k = Count - Len(out) /\ len = Len(buf)
      <4>1. Count - Len(out) \in Nat
        BY ONLY <2>1, <2>2
      <4> QED BY <2>1, <4>1, Zenon
    <3>2. 0 + len = k * p /\ len < p
      BY <1>0, <2>2, <3>1, Zenon
    <3>3. len = k * p
      <4>1. 0 + len = len
        OBVIOUS
      <4> QED BY <3>2, <4>1, Zenon
    <3>4. len = 0
      BY ONLY <3>2, <3>3, NoPart, p \in Nat \ {0}, k \in Nat, len \in Nat
    <3> QED BY <3>1, <3>4, Zenon
  <2>4. buf = <<>> /\ Stream = <<>> /\ out' = out /\ Stream' = Stream
    <3>1. buf = <<>>
      BY <1>0, <2>3, StreamParts, Zenon
    <3> QED BY <1>1, <2>1, <3>1, Zenon DEF Stream
  <2>5. SenderEnded'
    BY <1>0, <1>1, Zenon DEF SenderEnded
  <2>6. medium # "memory"
    BY <1>0
  <2>7. Aligned'
    BY <1>1, <2>0, <2>4, SameAligned, Zenon
  <2>8. Complete'
    BY <1>0, <1>1, <2>0, <2>4, <2>5, <2>6, SameComplete, Zenon
  <2> QED BY <2>7, <2>8, Zenon
<1>4. Decodes'
  <2>1. Len(buf') < CipherSize /\ (lost' => sender' = "gone")
    BY <1>0, <1>1, Zenon DEF Decodes
  <2>2. ASSUME NEW i \in DOMAIN out'
        PROVE  \/ i \in DOMAIN frames' /\ out'[i] = CodecValue(i)'
               \/ i = Len(out') /\ out'[i] = 0
    <3>1. \A j \in DOMAIN out : j \in DOMAIN frames /\ out[j] = CodecValue(j)
      BY <1>0, <1>2, Zenon DEF Decodes
    <3>2. CodecValue(i)' = CodecValue(i)
      BY <1>1, Zenon DEF CodecValue
    <3>3. CASE out' = out
      BY <1>1, <3>1, <3>2, <3>3, Zenon
    <3>4. CASE out' = Append(out, 0)
      <4>1. PICK r \in Seq(Nat) : r = out
        BY <1>0, Zenon DEF TypeOK
      <4>2. /\ Len(Append(r, 0)) = Len(r) + 1 /\ Len(r) \in Nat
            /\ DOMAIN r = 1 .. Len(r) /\ DOMAIN Append(r, 0) = 1 .. Len(r) + 1
            /\ \A j \in 1 .. Len(r) : Append(r, 0)[j] = r[j]
            /\ Append(r, 0)[Len(r) + 1] = 0
        BY ONLY r \in Seq(Nat), Appended
      <4>3. i \in 1 .. Len(r) \/ i = Len(r) + 1
        BY <3>4, <4>1, <4>2
      <4> QED BY <1>1, <3>1, <3>2, <3>4, <4>1, <4>2, <4>3, Zenon
    <3> QED BY <1>1, <3>3, <3>4, Zenon
  <2> QED BY <1>2, <2>1, <2>2, Zenon DEF Decodes
<1> QED BY <1>3, <1>4, Zenon

-----------------------------------------------------------------------------
(* The invariant *)

\* What the codec returned stays what it returned.
LEMMA DecodesStep ==
  ASSUME StreamInv, TypeOK', medium = "codec", [Next]_vars
  PROVE  Decodes'
<1>0. TypeOK /\ Decodes
  BY Zenon DEF StreamInv
<1>1. ASSUME out' = out, buf' = buf, ended' = ended, frames' = frames, lost' => sender' = "gone"
      PROVE  Decodes'
  <2>1. \A i : CodecValue(i)' = CodecValue(i)
    BY <1>1, Zenon DEF CodecValue
  <2>2. ended' <=> ended
    BY <1>1
  <2> QED BY <1>0, <1>1, <2>1, <2>2, Zenon DEF Decodes
<1>2. ASSUME NEW kind \in {"good", "bad"}, SendFrame(kind) PROVE Decodes'
  <2>1. Encrypt(kind) /\ lost' = lost
    BY <1>2, Zenon DEF SendFrame
  <2>2. \A i \in DOMAIN frames : i \in DOMAIN frames' /\ CodecValue(i)' = CodecValue(i)
    BY <1>0, <2>1, SentValues, Zenon
  <2>3. out' = out /\ buf' = buf /\ ended' = ended /\ sender' = sender
    BY <2>1, Zenon DEF Encrypt, recvVars
  <2>4. (ended' <=> ended) /\ (lost' <=> lost)
    BY <2>1, <2>3
  <2> QED BY <1>0, <2>2, <2>3, <2>4, Zenon DEF Decodes
<1>3. CASE Close \/ CloseReceiver \/ DropReceive \/ ReadLength \/ RecvFrame \/ RecvEof \/ RecvMemory
  BY <1>3 DEF Close, CloseReceiver, DropReceive, ReadLength, RecvFrame, RecvEof, RecvMemory, Prefixed
<1>4. ASSUME NEW k \in Piece, DropSend(k) PROVE Decodes'
  BY <1>4, Zenon DEF DropSend
<1>5. CASE UNCHANGED vars
  <2>1. lost' => sender' = "gone"
    BY <1>0, <1>5 DEF Decodes, vars, sendVars
  <2> QED BY <1>1, <1>5, <2>1, Zenon DEF vars, sendVars, recvVars
<1>6. ASSUME NEW k \in 0 .. Len(wire), EndStream(k) PROVE Decodes'
  BY <1>1, <1>6, Zenon DEF EndStream, recvVars
<1>7. ASSUME NEW k \in Piece, Arrive(k) PROVE Decodes'
  <2>1. /\ out' = out /\ frames' = frames /\ sender' = sender /\ ended' = ended /\ lost' = lost /\ ~ ended
    BY <1>7, Zenon DEF Arrive, sendVars
  <2>2. ~ ended' /\ (lost' <=> lost)
    BY <2>1
  <2>3. \A i : CodecValue(i)' = CodecValue(i)
    BY <2>1, Zenon DEF CodecValue
  <2> QED BY <1>0, <2>1, <2>2, <2>3, Zenon DEF Decodes
<1>8. CASE DecodeFrame
  BY <1>8, DecodeSteps, Zenon
<1>9. CASE DecodeEof
  BY <1>9, DecodeEofSteps, Zenon
<1> QED BY <1>2, <1>3, <1>4, <1>5, <1>6, <1>7, <1>8, <1>9, Zenon DEF Next, Send, Receive, Ended

\* The receiver stays in step, and nothing goes missing.
LEMMA TrackedStep ==
  ASSUME StreamInv, TypeOK', [Next]_vars
  PROVE  (Tracked' => Aligned') /\ (~ lost' => Complete')
<1>0. TypeOK /\ CipherSize \in Nat /\ HeaderSize \in Nat
  BY StreamAssumption, Zenon DEF StreamInv, HeaderSize
<1>1. ASSUME lost' = lost \/ (lost => lost'), medium' = medium, ended => ended'
      PROVE  (Tracked' => Tracked) /\ (~ lost' => ~ lost)
  BY <1>1 DEF Tracked
<1>2. ASSUME NEW kind \in {"good", "bad"}, SendFrame(kind)
      PROVE  (Tracked' => Aligned') /\ (~ lost' => Complete')
  <2>1. lost' = lost /\ medium' = medium /\ ended' = ended
    BY <1>2, Zenon DEF SendFrame, Encrypt, recvVars
  <2>2. ended => ended'
    BY <2>1
  <2> QED BY <1>1, <1>2, <2>1, <2>2, SendSteps, Zenon
<1>3. ASSUME NEW k \in Piece, DropSend(k) PROVE ~ Tracked' /\ lost'
  <2>1. lost' = TRUE /\ medium' = medium /\ medium # "codec"
    BY <1>3, Zenon DEF DropSend, Encrypt
  <2> QED BY <2>1 DEF Tracked
<1>4. CASE Close \/ CloseReceiver \/ UNCHANGED vars
  <2>1. lost' = lost /\ medium' = medium /\ ended' = ended
    BY <1>4, Zenon DEF Close, CloseReceiver, vars, recvVars
  <2>2. ended => ended'
    BY <2>1
  <2> QED BY <1>1, <1>4, <2>1, <2>2, CloseSteps, Zenon
<1>5. ASSUME NEW k \in 0 .. Len(wire), EndStream(k)
      PROVE  (Tracked' => Aligned') /\ (~ lost' => Complete')
  <2>1. lost' = (lost \/ k < Len(wire)) /\ medium' = medium /\ ended' = ended
    BY <1>5, Zenon DEF EndStream, recvVars
  <2>2. (ended => ended') /\ (lost => lost')
    BY <2>1, Zenon
  <2> QED BY <1>1, <1>5, <2>1, <2>2, EndSteps, Zenon
<1>6. ASSUME NEW k \in Piece \ {0}, Arrive(k) PROVE (Tracked' => Aligned') /\ (~ lost' => Complete')
  <2>1. lost' = lost /\ medium' = medium /\ ended' = ended
    BY <1>6, Zenon DEF Arrive
  <2>2. ended => ended'
    BY <2>1
  <2>3. k \in Nat
    BY <1>0 DEF Piece
  <2> QED BY <1>1, <1>6, <2>1, <2>2, <2>3, ArriveSteps, Zenon
<1>7. CASE ReadLength \/ RecvFrame \/ RecvEof \/ RecvMemory
  <2>1. lost' = lost /\ medium' = medium
    BY <1>7, Zenon DEF ReadLength, RecvFrame, RecvEof, RecvMemory
  <2>2. ended => ended'
    BY <1>7, Zenon DEF ReadLength, RecvFrame, RecvEof, RecvMemory
  <2> QED BY <1>1, <1>7, <2>1, <2>2, LengthSteps, RecvSteps, EofSteps, MemorySteps, Zenon
<1>8. CASE DropReceive
  <2>1. lost' = TRUE /\ medium' = medium /\ medium # "codec"
    BY <1>8 DEF DropReceive, Prefixed
  <2>2. ~ Tracked' /\ lost'
    BY <2>1 DEF Tracked
  <2> QED BY <2>2, Zenon
<1>9. CASE DecodeFrame
  <2>1. lost' = lost
    BY <1>9, Zenon DEF DecodeFrame
  <2>2. ~ lost' => ~ lost
    BY <2>1
  <2> QED BY <1>9, <2>2, DecodeSteps, Zenon
<1>10. CASE DecodeEof
  <2>1. lost' = lost /\ ended' = TRUE
    BY <1>10, Zenon DEF DecodeEof
  <2>2. (~ lost' => ~ lost) /\ (Tracked' => ~ lost)
    BY <2>1 DEF Tracked
  <2> QED BY <1>10, <2>2, DecodeEofSteps, Zenon
<1> QED BY <1>2, <1>3, <1>4, <1>5, <1>6, <1>7, <1>8, <1>9, <1>10, Zenon DEF Next, Send, Receive, Ended

\* It holds at the start.
LEMMA StreamInit ==
  ASSUME Init
  PROVE  StreamInv
<1>0. CipherSize \in Nat \ {0}
  BY StreamAssumption
<1>1. /\ medium \in Media /\ limit \in Nat /\ (medium # "tcp" => limit = CipherSize)
      /\ frames = <<>> /\ accepted = {} /\ wire = <<>> /\ sender = "open"
      /\ buf = <<>> /\ want = -1 /\ nonce = 0 /\ out = <<>> /\ ended = FALSE /\ lost = FALSE
  BY <1>0 DEF Init
<1>2. TypeOK
  BY <1>1 DEF TypeOK
<1>3. Decodes /\ Decrypted
  BY <1>0, <1>1 DEF Decodes, Decrypted
<1>4. Stream = <<>> /\ Consumed = 0 /\ Count = 0
  <2>1. accepted = 1 .. 0 /\ 0 \in Nat
    BY <1>1
  <2>2. Count = 0
    <3>1. (CHOOSE m \in Nat : 1 .. 0 = 1 .. m) = 0
      BY <2>1, Counted, Zenon
    <3> QED BY ONLY <2>1, <3>1, Zenon DEF Count
  <2> QED BY <1>1, <2>2 DEF Stream, Consumed
<1>5. Aligned
  <2>1. DOMAIN Stream = {}
    BY <1>4
  <2> QED BY <2>1, Zenon DEF Aligned, Run
<1>6. Complete
  <2>1. Consumed + Len(Stream) = (Count - Len(out)) * PacketSize
    <3>1. PICK p \in Nat : p = PacketSize
      BY <1>2, StreamFacts
    <3>2. 0 * p = 0
      OBVIOUS
    <3> QED BY <1>1, <1>4, <3>1, <3>2
  <2>2. /\ Count \in Nat /\ accepted = 1 .. Count /\ Count <= Len(frames) /\ Count = Len(frames)
        /\ Len(out) <= Count /\ nonce = Len(out) /\ DOMAIN out = {}
    BY <1>1, <1>4
  <2>3. ~ ended
    BY <1>1
  <2> QED BY <1>1, <1>4, <2>1, <2>2, <2>3, Zenon DEF Complete
<1> QED BY <1>2, <1>3, <1>5, <1>6, Zenon DEF StreamInv

\* Every step keeps it.
LEMMA StreamStep ==
  ASSUME StreamInv, [Next]_vars
  PROVE  StreamInv'
<1>1. TypeOK'
  BY TypeStep, Zenon DEF StreamInv
<1>2. (Tracked' => Aligned') /\ (~ lost' => Complete')
  BY <1>1, TrackedStep, Zenon
<1>3. medium' = medium
  BY Zenon DEF Next, Send, SendFrame, DropSend, Encrypt, Close, EndStream, Receive, Arrive, ReadLength,
     RecvFrame, RecvEof, RecvMemory, DecodeFrame, DecodeEof, DropReceive, CloseReceiver, Ended, vars
<1>4. CASE medium = "codec"
  <2>1. Decodes'
    BY <1>1, <1>4, DecodesStep, Zenon
  <2> QED BY <1>1, <1>2, <1>3, <1>4, <2>1, Zenon DEF StreamInv, Tracked
<1>5. CASE medium # "codec"
  <2>1. Decrypted'
    BY <1>5, DecryptedStep, Zenon DEF StreamInv
  <2> QED BY <1>1, <1>2, <1>3, <1>5, <2>1, Zenon DEF StreamInv, Tracked
<1> QED BY <1>4, <1>5, Zenon

\* It holds throughout.
LEMMA StreamInvariance == Spec => []StreamInv
<1>1. Init => StreamInv
  BY StreamInit, Zenon
<1>2. StreamInv /\ [Next]_vars => StreamInv'
  BY StreamStep, Zenon
<1> QED BY <1>1, <1>2, PTL DEF Spec

-----------------------------------------------------------------------------
(* The theorems *)

\* What the receiver returns are the frames from the first one on, in order, none twice
\* and none left out, whatever is dropped or lost (recv_frame, FrameCodec::decode).
THEOREM FramesReturnedInOrder == Spec => []FramesInOrder
<1>1. StreamInv => FramesInOrder
  <2> SUFFICES ASSUME StreamInv PROVE FramesInOrder
    OBVIOUS
  <2> DEFINE returned == {i \in DOMAIN out : out[i] # 0}
             good == {n \in DOMAIN frames : frames[n] = "good"}
  <2>0. /\ TypeOK /\ out \in Seq(Nat) /\ Len(frames) \in Nat /\ DOMAIN frames = 1 .. Len(frames)
        /\ DOMAIN out = 1 .. Len(out) /\ Len(out) \in Nat
    <3>1. TypeOK /\ out \in Seq(Nat)
      BY Zenon DEF StreamInv, TypeOK
    <3> QED BY <3>1, StreamFacts
  <2>1. CASE medium = "codec"
    <3>0. Decodes
      BY <2>1, Zenon DEF StreamInv
    <3>1. ASSUME NEW i \in returned PROVE out[i] = i /\ i \in good
      BY <3>0, Zenon DEF Decodes, CodecValue
    <3>2. ASSUME NEW i \in returned, NEW n \in good, n < out[i] PROVE n \in returned /\ out[n] = n
      <4>1. n \in DOMAIN out /\ n # Len(out) /\ n # 0
        BY <2>0, <3>1, <3>2
      <4> QED BY <3>0, <4>1, Zenon DEF Decodes, CodecValue
    <3> HIDE DEF returned, good
    <3>3. /\ \A i \in returned : out[i] \in good
          /\ \A i, j \in returned : i < j => out[i] < out[j]
          /\ \A i \in returned, n \in good : n < out[i] => \E j \in returned : out[j] = n
      BY <3>1, <3>2, Zenon
    <3> QED BY <3>3, Zenon DEF FramesInOrder, returned, good
  <2>2. CASE medium # "codec"
    <3>0. Decrypted /\ nonce \in Nat /\ \A n \in DOMAIN frames : frames[n] = "good"
      BY <2>0, <2>2, Zenon DEF StreamInv, TypeOK
    <3>1. ASSUME NEW i \in returned PROVE out[i] \in good /\ out[i] \in 1 .. nonce
      <4>1. out[i] \in Nat /\ out[i] # 0
        BY <2>0
      <4>2. out[i] <= nonce /\ nonce <= Len(frames)
        BY <3>0, Zenon DEF Decrypted
      <4>3. out[i] \in 1 .. nonce /\ out[i] \in 1 .. Len(frames)
        BY ONLY <2>0, <3>0, <4>1, <4>2
      <4> QED BY <2>0, <3>0, <4>3, Zenon
    <3>2. ASSUME NEW i \in returned, NEW j \in returned, i < j PROVE out[i] < out[j]
      BY <3>0, <3>2, Zenon DEF Decrypted
    <3>3. ASSUME NEW i \in returned, NEW n \in good, n < out[i] PROVE \E j \in returned : out[j] = n
      <4>1. n \in 1 .. nonce /\ n # 0
        BY <2>0, <3>0, <3>1, <3>3
      <4> QED BY <3>0, <4>1, Zenon DEF Decrypted
    <3> QED BY <3>1, <3>2, <3>3, Zenon DEF FramesInOrder
  <2> QED BY <2>1, <2>2, Zenon
<1> QED BY <1>1, StreamInvariance, PTL

\* With nothing dropped half way and no byte lost, every error is a bad frame, and the
\* end comes after every frame whose send returned Ok (noise.rs:295, tcp.rs:71).
THEOREM EveryFrameReturned == Spec => []NothingLost
<1>1. StreamInv => NothingLost
  <2> SUFFICES ASSUME StreamInv, ~ lost PROVE NothingLost
    BY Zenon DEF NothingLost
  <2>0. TypeOK /\ Complete /\ out \in Seq(Nat) /\ frames \in Seq({"good", "bad"})
    BY Zenon DEF StreamInv, TypeOK
  <2>1. /\ Count \in Nat /\ Len(out) <= Count /\ Count <= Len(frames) /\ Len(out) \in Nat
        /\ \A i \in DOMAIN out : out[i] = CodecValue(i)
    BY <2>0, StreamFacts, Zenon DEF Complete
  <2>2. ASSUME NEW i \in DOMAIN out PROVE out[i] = IF frames[i] = "bad" THEN 0 ELSE i
    <3>1. i \in DOMAIN frames
      BY <2>0, <2>1
    <3>2. frames[i] \in {"good", "bad"}
      BY <2>0, <3>1
    <3>3. frames[i] = "good" <=> ~ (frames[i] = "bad")
      BY <3>2
    <3> QED BY <2>1, <3>3, Zenon DEF CodecValue
  <2>3. ASSUME ended, ~ (closed /\ wire # <<>>) PROVE Len(out) = Count
    <3>1. Stream = <<>> /\ want = -1
      <4>1. CASE medium = "memory"
        <5>1. closed
          BY <2>0, <2>3, <4>1, Zenon DEF Complete
        <5>2. wire = <<>> /\ buf = <<>>
          BY <2>0, <2>3, <4>1, <5>1, Zenon DEF TypeOK
        <5>3. ~ Prefixed
          BY <4>1 DEF Prefixed
        <5> QED BY <2>0, <5>2, <5>3, StreamParts, Zenon DEF TypeOK
      <4>2. CASE medium # "memory"
        BY <2>0, <2>3, <4>2, Zenon DEF Complete
      <4> QED BY <4>1, <4>2, Zenon
    <3>2. Consumed + Len(Stream) = 0
      BY <3>1 DEF Consumed
    <3>3. PICK p \in Nat \ {0}, k \in Nat : p = PacketSize /\ k = Count - Len(out)
      <4>1. Count - Len(out) \in Nat
        BY <2>1
      <4> QED BY <2>0, <4>1, StreamFacts, Zenon
    <3>4. 0 = k * p
      BY <2>0, <3>2, <3>3, Zenon DEF Complete
    <3>5. k = 0
      BY ONLY <3>4, OnePacket, p \in Nat \ {0}, k \in Nat
    <3> QED BY ONLY <2>1, <3>3, <3>5
  <2>4. accepted = 1 .. Count /\ DOMAIN out = 1 .. Len(out)
    BY <2>0 DEF Complete
  <2> QED BY <2>2, <2>3, <2>4, Zenon DEF NothingLost
<1> QED BY <1>1, StreamInvariance, PTL

=============================================================================
