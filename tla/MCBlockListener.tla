---------------------------- MODULE MCBlockListener ----------------------------
(* TLC instances of BlockListener. *)
EXTENDS BlockListener, TLC

\* Everything once.
OneOfEach == [crash |-> 1, failure |-> 1, preload |-> 1, pause |-> 1, stop |-> 1]

\* A REST preload runs beside the other calls and a crash; pause, stop and a failure
\* happen without it.
AloneOrOverlapping ==
    events["preload"] = 0 \/ (events["failure"] = 0 /\ events["pause"] = 0 /\ events["stop"] = 0)

\* For the liveness run.
NoFailure == [crash |-> 1, failure |-> 0, preload |-> 0, pause |-> 1, stop |-> 1]

\* For the violation run.
OneFailure == [crash |-> 0, failure |-> 1, preload |-> 0, pause |-> 0, stop |-> 0]

Symmetry == Permutations(Calls)
=============================================================================
