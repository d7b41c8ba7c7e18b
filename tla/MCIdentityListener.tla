-------------------------- MODULE MCIdentityListener --------------------------
(* TLC instances of IdentityListener. *)
EXTENDS IdentityListener, TLC

CONSTANT a   \* an account

Created == [account |-> a, method |-> "NewAccount"]
Killed == [account |-> a, method |-> "KilledAccount"]

\* The account is created again in block 3, in which it signs an extrinsic.
EventsOfBlock == 1 :> <<Created>> @@ 2 :> <<Killed>> @@ 3 :> <<Created>>
SignersOfBlock == 1 :> {} @@ 2 :> {} @@ 3 :> {a}

OneOfEach == [k \in FaultKind |-> 1]
NoFault == [k \in FaultKind |-> 0]
=============================================================================
