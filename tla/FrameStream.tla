----------------------------- MODULE FrameStream ------------------------------
(***************************************************************************)
(* One direction of a connection that carries frames, over each of the     *)
(* media the crate has:                                                    *)
(*   "noise"   NoiseFramedStream (transport/noise.rs), which the client    *)
(*             and the legacy session use;                                 *)
(*   "tcp"     SecureTransport over TcpTransport;                          *)
(*   "memory"  SecureTransport over MemoryTransport;                       *)
(*   "codec"   plain frames and FrameCodec (protocol/frame.rs).            *)
(* Each frame has one size.  A byte is <<n, i>>, the i-th of packet n; the *)
(* first two announce the length of the rest, except for the codec.  The   *)
(* receiver's buffer `buf` is the codec's, or what the pending receive has *)
(* read: a caller that drops the future, as select! does, loses it.        *)
(***************************************************************************)
EXTENDS Integers, Sequences

CONSTANTS
  CipherSize,   \* ENCRYPTED_FRAME_SIZE, or FRAME_SIZE for the codec
  BufferSize,   \* packets a MemoryTransport holds
  MaxFrames     \* bound: frames sent

ASSUME StreamAssumption == CipherSize \in Nat \ {0} /\ BufferSize \in Nat \ {0}

VARIABLES
  medium,
  limit,        \* the receiver's largest length: max_frame_size
  frames,       \* frames[n]: "good", or "bad" for one that announces an impossible payload
  accepted,     \* frames whose send returned Ok
  wire,         \* bytes on their way; whole packets in memory
  sender,       \* "open"; "closed": close was called; "gone": it was dropped
  buf,          \* bytes the receiver holds
  want,         \* the length that was announced, -1 before
  nonce,        \* frames decrypted
  closed,       \* MemoryTransport::closed of the receiver
  out,          \* what the receiver returned: frame n, or 0 for an error
  ended,        \* the receiver returned Ok(None)
  lost          \* a future was dropped half way, or the connection lost bytes (history)

sendVars == <<frames, accepted, sender>>
recvVars == <<buf, want, nonce, closed, out, ended>>
vars == <<medium, limit, wire, lost, sendVars, recvVars>>

Media == {"noise", "tcp", "memory", "codec"}
Prefixed == medium \in {"noise", "tcp"}
HeaderSize == 2

Body(n) == [i \in 1 .. CipherSize |-> <<n, HeaderSize + i>>]
Header(n) == [i \in 1 .. HeaderSize |-> <<n, i>>]

\* encrypt_frame; SecureTransport::send_frame leaves the length to the transport.
Packet(n) == IF Prefixed THEN Header(n) \o Body(n) ELSE Body(n)

Init ==
  /\ medium \in Media
  /\ limit \in IF medium = "tcp" THEN CipherSize - 1 .. CipherSize + 1 ELSE {CipherSize}
  /\ frames = <<>> /\ accepted = {} /\ wire = <<>> /\ sender = "open"
  /\ buf = <<>> /\ want = -1 /\ nonce = 0 /\ closed = FALSE
  /\ out = <<>> /\ ended = FALSE /\ lost = FALSE

-----------------------------------------------------------------------------
(* The sender.  A frame is encrypted, and so takes its nonce, before the    *)
(* transport is asked to send it.                                           *)

Full == medium = "memory" /\ Len(wire) >= BufferSize * CipherSize

Encrypt(kind) ==
  /\ Len(frames) < MaxFrames
  /\ frames' = Append(frames, kind)
  /\ UNCHANGED <<medium, limit, sender, recvVars>>

SendFrame(kind) ==
  /\ sender # "gone" /\ (kind = "bad" => medium = "codec")
  /\ Encrypt(kind)
  /\ IF sender = "open" /\ (medium = "tcp" => CipherSize <= limit)
     THEN /\ ~ Full
          /\ wire' = wire \o Packet(Len(frames) + 1)
          /\ accepted' = accepted \cup {Len(frames) + 1}
     ELSE UNCHANGED <<wire, accepted>>
  /\ UNCHANGED lost

\* The caller drops a send that waits: for a slot, or with k bytes written.
DropSend(k) ==
  /\ sender = "open" /\ medium # "codec" /\ limit >= CipherSize
  /\ Encrypt("good")
  /\ medium = "memory" => Full /\ k = 0
  /\ wire' = wire \o SubSeq(Packet(Len(frames) + 1), 1, k)
  /\ lost' = TRUE
  /\ UNCHANGED accepted

\* TcpTransport::close shuts the stream down; MemoryTransport::close sets a flag that
\* the other side does not see.
Close ==
  /\ sender = "open" /\ medium \in {"tcp", "memory"} /\ sender' = "closed"
  /\ UNCHANGED <<medium, limit, frames, accepted, wire, lost, recvVars>>

\* The sender is dropped, and the connection may lose what is on its way.
EndStream(k) ==
  /\ sender # "gone" /\ sender' = "gone"
  /\ medium = "memory" => k = Len(wire)
  /\ wire' = SubSeq(wire, 1, k)
  /\ lost' = (lost \/ k < Len(wire))
  /\ UNCHANGED <<medium, limit, frames, accepted, recvVars>>

-----------------------------------------------------------------------------
(* The receiver.                                                            *)

SenderEnded == sender = "gone" \/ (sender = "closed" /\ medium = "tcp")

Eof == wire = <<>> /\ SenderEnded

\* Bytes the receiver has room for.
Room ==
  CASE medium = "codec" -> Len(wire)
    [] medium = "memory" -> 0
    [] Prefixed -> (IF want = -1 THEN HeaderSize ELSE want) - Len(buf)

Arrive(k) ==
  /\ ~ ended /\ k <= Len(wire) /\ k <= Room
  /\ buf' = buf \o SubSeq(wire, 1, k)
  /\ wire' = SubSeq(wire, k + 1, Len(wire))
  /\ UNCHANGED <<medium, limit, sendVars, want, nonce, closed, out, ended, lost>>

\* What two bytes announce: the length of their packet, or anything when they are
\* not its first two.
Announced == IF \E n \in DOMAIN frames : buf = Header(n) THEN {CipherSize} ELSE 0 .. limit + 1

\* Mutant: the limit itself is too long.
TooLongFor(len) == len >= limit

TooLong(len) == len > limit

\* The length has been read.
ReadLength ==
  /\ Prefixed /\ want = -1 /\ Len(buf) = HeaderSize /\ buf' = <<>>
  /\ \E len \in Announced :
       IF TooLong(len) THEN out' = Append(out, 0) /\ UNCHANGED want
                       ELSE want' = len /\ UNCHANGED out
  /\ UNCHANGED <<medium, limit, wire, sendVars, nonce, closed, ended, lost>>

\* Mutant: a cipher that takes the nonce from the packet.
DecryptsAny(packet) == \E n \in DOMAIN frames : packet = Body(n)

\* snow decrypts the packet with the next nonce and no other.
Decrypts(packet) == packet = Body(nonce + 1)

Decrypt(packet) ==
  IF Decrypts(packet) THEN nonce' = packet[1][1] /\ out' = Append(out, packet[1][1])
                      ELSE UNCHANGED nonce /\ out' = Append(out, 0)

\* decrypt_frame, once the packet is complete.
RecvFrame ==
  /\ Prefixed /\ want # -1 /\ Len(buf) = want
  /\ Decrypt(buf)
  /\ buf' = <<>> /\ want' = -1
  /\ UNCHANGED <<medium, limit, wire, sendVars, closed, ended, lost>>

\* Mutant: the end of the stream is taken for a read without data.
RecvEofRetries == Prefixed /\ ~ ended /\ Eof /\ UNCHANGED vars

\* The stream ends: cleanly if no length was read, although a byte of it may be lost.
RecvEof ==
  /\ Prefixed /\ ~ ended /\ Eof
  /\ \/ /\ want = -1 /\ Len(buf) < HeaderSize
        /\ ended' = TRUE /\ UNCHANGED out
     \/ /\ want # -1 /\ Len(buf) < want
        /\ out' = Append(out, 0) /\ UNCHANGED ended
  /\ buf' = <<>> /\ want' = -1
  /\ UNCHANGED <<medium, limit, wire, sendVars, nonce, closed, lost>>

\* The caller drops a receive.
DropReceive ==
  /\ Prefixed /\ ~ ended
  /\ buf # <<>> \/ want # -1
  /\ buf' = <<>> /\ want' = -1 /\ lost' = TRUE
  /\ UNCHANGED <<medium, limit, wire, sendVars, nonce, closed, out, ended>>

\* MemoryTransport::receive, and the packet is decrypted.
RecvMemory ==
  /\ medium = "memory" /\ ~ ended
  /\ \/ /\ closed \/ Eof
        /\ ended' = TRUE /\ closed' = TRUE
        /\ UNCHANGED <<wire, nonce, out>>
     \/ /\ ~ closed /\ wire # <<>>
        /\ wire' = SubSeq(wire, CipherSize + 1, Len(wire))
        /\ Decrypt(SubSeq(wire, 1, CipherSize))
        /\ UNCHANGED <<ended, closed>>
  /\ UNCHANGED <<medium, limit, sendVars, buf, want, lost>>

CloseReceiver ==
  /\ medium = "memory" /\ ~ closed /\ closed' = TRUE
  /\ UNCHANGED <<medium, limit, wire, sendVars, buf, want, nonce, out, ended, lost>>

\* What FrameCodec makes of a frame's worth of bytes.
Decoded(bytes) ==
  IF \E n \in DOMAIN frames : frames[n] = "good" /\ bytes = Body(n) THEN bytes[1][1] ELSE 0

\* decode: the frame is cut off the buffer before its length is looked at.
DecodeFrame ==
  /\ medium = "codec" /\ Len(buf) >= CipherSize
  /\ out' = Append(out, Decoded(SubSeq(buf, 1, CipherSize)))
  /\ buf' = SubSeq(buf, CipherSize + 1, Len(buf))
  /\ UNCHANGED <<medium, limit, wire, sendVars, want, nonce, closed, ended, lost>>

\* decode_eof, once decode finds no frame.
DecodeEof ==
  /\ medium = "codec" /\ ~ ended /\ Eof /\ Len(buf) < CipherSize /\ ended' = TRUE
  /\ out' = IF buf = <<>> THEN out ELSE Append(out, 0)
  /\ UNCHANGED <<medium, limit, wire, sendVars, buf, want, nonce, closed, lost>>

Ended == ended /\ UNCHANGED vars

Piece == 0 .. HeaderSize + CipherSize

Send == (\E kind \in {"good", "bad"} : SendFrame(kind)) \/ \E k \in Piece : DropSend(k)

Receive ==
  \/ \E k \in Piece \ {0} : Arrive(k)
  \/ ReadLength \/ RecvFrame \/ RecvEof \/ RecvMemory \/ DecodeFrame \/ DecodeEof

Next ==
  \/ Send \/ Close \/ \E k \in 0 .. Len(wire) : EndStream(k)
  \/ Receive \/ DropReceive \/ CloseReceiver \/ Ended

\* The receiver's caller asks for frames until the end.
Spec == Init /\ [][Next]_vars /\ WF_vars(Receive)

-----------------------------------------------------------------------------
(* Properties *)

\* Whatever is dropped or lost on either side, the receiver returns the frames from
\* the first one on, in order, none twice and none left out: behind a gap nothing is
\* returned (send_frame and recv_frame of noise.rs and secure.rs, FrameCodec::decode).
\* After a receive that was dropped within a packet nothing is returned any more, and
\* ClientCorrelation and LegacySession take such a reader to be out of step for good.
FramesInOrder ==
  LET returned == {i \in DOMAIN out : out[i] # 0}
      good == {n \in DOMAIN frames : frames[n] = "good"}
  IN  /\ \A i \in returned : out[i] \in good
      /\ \A i, j \in returned : i < j => out[i] < out[j]
      /\ \A i \in returned, n \in good : n < out[i] => \E j \in returned : out[j] = n

\* When no future was dropped half way and no byte lost, an error stands for a bad frame
\* and for nothing else, and Ok(None) means that every frame whose send returned Ok
\* has been returned, also one whose length is just the limit (noise.rs:295, tcp.rs:71),
\* unless the receiver closed its own MemoryTransport.
NothingLost ==
  ~ lost =>
    /\ \A i \in DOMAIN out : out[i] = IF frames[i] = "bad" THEN 0 ELSE i
    /\ ended /\ ~ (closed /\ wire # <<>>) => accepted = DOMAIN out

\* The end of the sender ends the receiver's loop.
EndSeen == SenderEnded ~> ended
=============================================================================
