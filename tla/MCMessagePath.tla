---------------------------- MODULE MCMessagePath -----------------------------
(***************************************************************************)
(* Two-byte peer ids, one-byte numbers, and bodies of at most six bytes.   *)
(* A ClientHello for a name of n bytes takes 79 + n: names on both sides   *)
(* of the limit, and of the 182 where the record's length wraps to zero.   *)
(***************************************************************************)
EXTENDS MessagePath

Codes == {Messages[t].code : t \in MessageType} \cup {0, 9, 148}

TokenValues == UNION {[1 .. n -> {1, Upper}] : n \in 0 .. RandomLen + 1}

HostNames ==
  {[i \in 1 .. n |-> Upper] : n \in {0, 1, 2, 9, 10, 11, 12, 181, 182, 190}}
    \cup {<<Upper, Dot, Lower>>, <<1, Dot>>}
=============================================================================
