---------------------------- MODULE BlockExtraction ----------------------------
(***************************************************************************)
(* What block extraction promises, with no queue, table, lock or process:  *)
(* a block that was asked for is extracted, once, and its follow-up tasks  *)
(* (balances, era, round) are created at most once, after it.              *)
(***************************************************************************)
EXTENDS Naturals

CONSTANT Blocks

VARIABLES
    requested,   \* blocks with a task
    extracted,   \* how many times each block's data was stored
    followed     \* how many times its follow-up tasks were created

vars == <<requested, extracted, followed>>

Init ==
    /\ requested = {}
    /\ extracted = [b \in Blocks |-> 0]
    /\ followed = [b \in Blocks |-> 0]

Request(b) ==
    /\ requested' = requested \union {b}
    /\ UNCHANGED <<extracted, followed>>

Extract(b) ==
    /\ b \in requested
    /\ extracted[b] = 0
    /\ extracted' = [extracted EXCEPT ![b] = 1]
    /\ UNCHANGED <<requested, followed>>

FollowUp(b) ==
    /\ extracted[b] = 1
    /\ followed[b] = 0
    /\ followed' = [followed EXCEPT ![b] = 1]
    /\ UNCHANGED <<requested, extracted>>

Next == \E b \in Blocks : Request(b) \/ Extract(b) \/ FollowUp(b)

Spec == Init /\ [][Next]_vars
=============================================================================
