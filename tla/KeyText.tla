------------------------------- MODULE KeyText --------------------------------
(***************************************************************************)
(* Keys and tokens as text: hexadecimal (transport/obfuscation.rs), Base64 *)
(* and the reading of a key file in any of its three formats               *)
(* (crypto/keys.rs).  A byte has ByteBits bits and a Base64 character      *)
(* stands for CharBits of them; 4 and 3 keep the ratio of the real 8 and   *)
(* 6, so a group is again three bytes and four characters.  A character is *)
(* the byte of its value in the alphabet; the hexadecimal digits are the   *)
(* first HexBase of it.                                                    *)
(***************************************************************************)
EXTENDS WireFormat

CONSTANTS
  ByteBits, CharBits,  \* bits of a byte (8) and of a Base64 character (6)
  HexBase,             \* values of a hexadecimal digit (16)
  Pad, Space,          \* `=` and white space
  KeyLen               \* bytes of a private key (32)

CharBase == 2 ^ CharBits

ASSUME TextAssumption ==
  /\ Base = 2 ^ ByteBits /\ HexBase ^ 2 = Base /\ 4 * CharBits = 3 * ByteBits
  /\ {Pad, Space} \cap (0 .. CharBase - 1) = {} /\ Pad # Space

HexEncode(s) ==
  FoldLeft(LAMBDA t, b : t \o <<b \div HexBase, b % HexBase>>, <<>>, s)

\* str::trim
Trim(s) ==
  LET solid == {i \in DOMAIN s : s[i] # Space}
  IN  IF solid = {} THEN <<>> ELSE SubSeq(s, Min(solid), Max(solid))

IsHex(s) == \A i \in DOMAIN s : s[i] < HexBase

\* hex_decode, of text that is hexadecimal digits.
HexDecode(s) ==
  IF Len(s) % 2 # 0 THEN {}
  ELSE {[i \in 1 .. Len(s) \div 2 |-> HexBase * s[2 * i - 1] + s[2 * i]]}

\* The characters of a group of one to three bytes.
EncodeGroup(g) ==
  LET q == Base \div CharBase
      b == [i \in 1 .. 3 |-> IF i <= Len(g) THEN g[i] ELSE 0]
  IN  <<b[1] \div q, (b[1] % q) * (CharBase \div q) + b[2] \div q ^ 2,
        IF Len(g) > 1 THEN (b[2] % q ^ 2) * (CharBase \div q ^ 2) + b[3] \div q ^ 3 ELSE Pad,
        IF Len(g) > 2 THEN b[3] % CharBase ELSE Pad>>

Base64Encode(s) ==
  FoldLeft(LAMBDA t, k : t \o EncodeGroup(SubSeq(s, 3 * k - 2, Min({3 * k, Len(s)}))),
           <<>>, [k \in 1 .. (Len(s) + 2) \div 3 |-> k])

\* A character's bits are collected, and a byte goes out once there are enough.
Collect(d, c) ==
  LET buffer == d.buffer * CharBase + c
      bits == d.bits + CharBits
  IN  IF bits >= ByteBits
      THEN [d EXCEPT !.buffer = buffer % 2 ^ (bits - ByteBits), !.bits = bits - ByteBits,
                     !.out = Append(@, buffer \div 2 ^ (bits - ByteBits))]
      ELSE [d EXCEPT !.buffer = buffer, !.bits = bits]

\* The loop of base64_decode: `=` ends it, white space is skipped, any other character
\* that is not of the alphabet is an error.
ReadChar(d, c) ==
  IF d.end # "" \/ c = Space THEN d
  ELSE IF c = Pad THEN [d EXCEPT !.end = "padding"]
  ELSE IF c < CharBase THEN Collect(d, c)
  ELSE [d EXCEPT !.end = "error"]

Base64Decode(s) ==
  LET d == FoldLeft(ReadChar, [buffer |-> 0, bits |-> 0, out |-> <<>>, end |-> ""], Trim(s))
  IN  IF d.end = "error" THEN {} ELSE {d.out}

\* parse_private_key_bytes.  Bytes that are not UTF-8 become characters outside every
\* alphabet, as they already are here.
ParsePrivateKey(raw) ==
  LET text == Trim(raw)
      hex == IF Len(text) = 2 * KeyLen /\ IsHex(text) THEN HexDecode(text) ELSE {}
      Keys(decoded) == {key \in decoded : Len(key) = KeyLen}
  IN  IF Len(raw) = KeyLen THEN {raw}
      ELSE IF Keys(hex) # {} THEN Keys(hex)
      ELSE Keys(Base64Decode(text))
=============================================================================
