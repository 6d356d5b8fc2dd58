------------------------------ MODULE MCKeyStore ------------------------------
(* An instance of KeyStore: relay.key is missing, or an operator put it there. *)
EXTENDS KeyStore, TLC

CONSTANT opkey

EitherStart == {Absent, opkey}
Invocations == Permutations(Proc)
=============================================================================
