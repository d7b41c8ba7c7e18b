------------------------------ MODULE EraRecords ------------------------------
(***************************************************************************)
(* What EraPayout promises of the tables stake_* and rewards_*, with no     *)
(* handlers, messages, locks or workers: an era is recorded in one step.    *)
(* Recording era e adds the stake of era e + 1 and, if the block e started  *)
(* at is known, the rewards of e.  The start is looked for earlier than     *)
(* that, so an era may be recorded without rewards although the start has   *)
(* become known since; never an era whose start was known when looked for.  *)
(***************************************************************************)
EXTENDS Naturals

CONSTANTS
    Eras,         \* those that may be paid out
    KnownStarts,  \* eras whose start block needs no record
    StakeRows,    \* what is to be recorded as the stake of each era
    RewardRows    \* and as its rewards

VARIABLES
    requested,    \* eras to be recorded
    stake,        \* what is recorded of each era's stake
    rewards,      \* and of its rewards
    tooEarly      \* eras about to be recorded without rewards

recordVars == <<requested, stake, rewards, tooEarly>>

Init ==
    /\ requested = {}
    /\ stake = <<>>
    /\ rewards = <<>>
    /\ tooEarly = {}

StartKnown(e) == e \in KnownStarts \/ e \in DOMAIN stake

\* What is recorded of era e is new, and what is recorded of the others stays.
Extended(table, new, e, eraRows) ==
    /\ e \notin DOMAIN table
    /\ new = [a \in DOMAIN table \union {e} |-> IF a = e THEN eraRows ELSE table[a]]

Request(e) ==
    /\ requested' = requested \union {e}
    /\ UNCHANGED <<stake, rewards, tooEarly>>

GiveUp(e) ==
    /\ e \in requested /\ e + 1 \notin DOMAIN stake
    /\ ~ StartKnown(e)
    /\ tooEarly' = tooEarly \union {e}
    /\ UNCHANGED <<requested, stake, rewards>>

\* The attempt has failed, and the start is looked for again.
Retry(e) ==
    /\ tooEarly' = tooEarly \ {e}
    /\ UNCHANGED <<requested, stake, rewards>>

Record(e) ==
    /\ e \in requested
    /\ Extended(stake, stake', e + 1, StakeRows[e + 1])
    /\ \/ e \in tooEarly /\ UNCHANGED rewards
       \/ e \notin tooEarly /\ StartKnown(e) /\ Extended(rewards, rewards', e, RewardRows[e])
    /\ tooEarly' = tooEarly \ {e}
    /\ UNCHANGED requested

Next == \E e \in Eras : Request(e) \/ GiveUp(e) \/ Retry(e) \/ Record(e)

Spec == Init /\ [][Next]_recordVars
=============================================================================
