---------------------------- MODULE MCBalancesRest ----------------------------
(* TLC instance of BalancesRest. *)
EXTENDS BalancesRest

CONSTANTS alice, bob

\* Block 1 writes two accounts, one of them twice, in three layouts.
SmallTrace ==
    (0 :> <<>>) @@
    (1 :> << [account |-> alice, digits |-> 160, balance |-> 5],
             [account |-> bob,   digits |-> 140, balance |-> 7],
             [account |-> alice, digits |-> 162, balance |-> 9] >>)

\* A request for a range is for both blocks.
Both == {[from |-> 0, to |-> 1]}

\* One fault of any kind (MaxIncidents = 1).
AnyFault == [k \in FaultKind |-> 1]
=============================================================================
