---------------------------- MODULE MCQuorumRule ----------------------------
(***************************************************************************)
(* Validators are numbered, and weights do not fall with the number: the   *)
(* rules do not look at who a validator is, so every set of weights is     *)
(* represented.                                                            *)
(***************************************************************************)
EXTENDS QuorumRule

CONSTANTS N, Weights

MCValidator == 1 .. N

MCStakeSets ==
    {w \in [MCValidator -> Weights] : \A p \in 1 .. N - 1 : w[p] <= w[p + 1]}
=============================================================================
