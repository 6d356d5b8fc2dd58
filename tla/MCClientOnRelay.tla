-------------------------- MODULE MCClientOnRelay --------------------------
(* One peer id beside the echo service's route. *)
EXTENDS ClientOnRelay

CONSTANTS p1, r1, reg, echo

MCPrefix == [p \in PeerId |-> r1]
=============================================================================
