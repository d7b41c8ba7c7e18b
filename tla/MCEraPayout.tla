------------------------------ MODULE MCEraPayout ------------------------------
(* TLC instance of EraPayout.                                               *)
EXTENDS EraPayout

CONSTANTS val1, val2, nom1, nom2

Backing(who, value) == [who |-> who, value |-> value]

\* Era 2 has two validators, with a nominator they share and one who is not paid; one of
\* them is no validator of era 3, where the other has no nominators.
Sessions == (1 :> <<val1>>) @@ (2 :> <<val1, val2>>) @@ (3 :> <<val2>>)
Exposures ==
    (1 :> (val1 :> [own |-> 5, others |-> <<>>, clipped |-> {}])) @@
    (2 :> ((val1 :> [own |-> 5, others |-> <<Backing(nom1, 1), Backing(nom2, 2)>>, clipped |-> {nom2}]) @@
           (val2 :> [own |-> 6, others |-> <<Backing(nom1, 3)>>, clipped |-> {nom1}]))) @@
    (3 :> (val2 :> [own |-> 7, others |-> <<>>, clipped |-> {}]))

SomePoints == (1 :> (val1 :> 20)) @@ (2 :> (val1 :> 20))
Payees == [b \in 1..3 |-> (val1 :> "Staked") @@ (val2 :> "Staked") @@ (nom2 :> "Stash") @@
                          (nom1 :> IF b < 3 THEN "Staked" ELSE "Controller")]

\* One fault of any kind.
OneOfEach == [k \in FaultKind |-> 1]
AtMostOneFault == faults["crash"] + faults["failure"] + faults["listener"] + faults["channel"] <= 1

Symmetry == Permutations(Consumers)
=============================================================================
