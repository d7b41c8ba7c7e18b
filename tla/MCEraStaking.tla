----------------------------- MODULE MCEraStaking -----------------------------
(* TLC instance of EraStaking. *)
EXTENDS EraStaking, TLC

NoFault == [k \in FaultKind |-> 0]

Symmetry == Permutations(Consumers)
=============================================================================
