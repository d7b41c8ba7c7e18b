--------------------------- MODULE MCBlockProcessor ---------------------------
(* TLC instances of BlockProcessor. *)
EXTENDS BlockProcessor, TLC

\* For the safety run: a crash and a redelivery, and their combination.
CrashAndRedelivery == [crash |-> 1, channel |-> 1, failure |-> 0, listener |-> 0]

\* For the liveness run: one fault of each kind.
OneOfEach == [k \in FaultKind |-> 1]

Symmetry == Permutations(Consumers)
=============================================================================
