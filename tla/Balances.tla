------------------------------- MODULE Balances -------------------------------
(***************************************************************************)
(* BalancesProcessorService in the task framework of TaskConsumer: the     *)
(* task of a block's balances.  It reads the block's row, asks the node    *)
(* for the writes to accounts the block made, and saves the last of each   *)
(* account.  The saves are not part of the consumer's transaction: what a  *)
(* failed task has saved stays.                                            *)
(*                                                                         *)
(* Abstractions.                                                           *)
(*  - A value of the trace is its length in hexadecimal digits, which      *)
(*    tells how it is encoded, and the balance it stands for; the four     *)
(*    amounts and the counters are one number.                             *)
(*  - An account is its blake2_hash.  The column account_id, filled in if  *)
(*    the account is known by then, is left out, and so is its look-up,    *)
(*    which may only fail as the save after it does.                       *)
(***************************************************************************)
EXTENDS TaskConsumer, SequencesExt

CONSTANTS
    Accounts,
    Trace,      \* the writes of each block: a sequence of [account, digits, balance]
    Misread,    \* a balance read from the wrong bytes
    NoBalance   \* no row

Write == [account : Accounts, digits : Nat, balance : Nat]

\* A value of two digits is "00", which stands for an account that is gone.
ASSUME TraceAssumption ==
    /\ Trace \in [EntityIds -> Seq(Write)]
    /\ \A b \in EntityIds : \A v \in ToSet(Trace[b]) : v.digits = 2 => v.balance = 0
ASSUME NoBalanceAssumption == NoBalance \notin Nat \union {Misread}

VARIABLES
    blocks,     \* the blocks in the blocks table
    balances,   \* the balances table: the balance of an account in a block
    work        \* where each handler stands, and the accounts it still has to save

balanceVars == <<blocks, balances, work>>

-----------------------------------------------------------------------------
(* decodeAccountBalanceValue.                                              *)

\* The bytes that are read as counters (and, in half of the layouts, as the flag of an
\* Option) before the four amounts, by the length of the value.
HeaderBytes ==
    [n \in {140, 146, 152, 154, 160, 162} |->
        CASE n = 140 -> 4 + 1
          [] n = 146 -> 1 + 4 + 2 + 2
          [] n = 152 -> 4 + 4 + 4
          [] n = 154 -> 1 + 4 + 4 + 4
          [] n = 160 -> 4 + 4 + 4 + 4
          [] n = 162 -> 1 + 4 + 4 + 4 + 4]

AmountBytes == 4 * 16

\* Besides "00"; other lengths are an error.
Decodes(v) == v.digits = 2 \/ v.digits \in DOMAIN HeaderBytes

\* Mutant: without the flag of the Option in the longest layout.
HeaderWithoutFlag(n) == IF n = 162 THEN 16 ELSE HeaderBytes[n]

Header(n) == HeaderBytes[n]

\* The amounts are the last bytes of a value: with a header of another size they are
\* read from the wrong place.
Decode(v) ==
    IF v.digits = 2 THEN 0
    ELSE IF 2 * (Header(v.digits) + AmountBytes) = v.digits THEN v.balance
    ELSE Misread

-----------------------------------------------------------------------------
Balance == Nat \union {Misread}

NoWork == [pc |-> "block", todo |-> {}]

BalanceTypeOK ==
    /\ blocks \subseteq EntityIds
    /\ balances \in [EntityIds -> [Accounts -> Balance \union {NoBalance}]]
    /\ work \in [Consumers -> [pc : {"block", "save"}, todo : SUBSET Accounts]]

BalanceInit ==
    /\ blocks = {}
    /\ balances = [b \in EntityIds |-> [a \in Accounts |-> NoBalance]]
    /\ work = [c \in Consumers |-> NoWork]

Genesis == 0

Writes(b) == Trace[b]
WritesOf(b, a) == {i \in DOMAIN Writes(b) : Writes(b)[i].account = a}

\* Mutant: the first write of an account is kept.
FirstBalance(b, a) == Decode(Writes(b)[Min(WritesOf(b, a))])

\* The object balances keeps the last write of an account.
LastBalance(b, a) == Decode(Writes(b)[Max(WritesOf(b, a))])

\* Its keys, which are gone through in the order they were first written.
Written(b) == {v.account : v \in ToSet(Writes(b))}
IsNextKey(b, a, todo) == \A d \in todo : Min(WritesOf(b, a)) <= Min(WritesOf(b, d))

-----------------------------------------------------------------------------
(* processBlock, step by step; any step may fail (FailBalances).           *)

Works(c, step) == pc[c] = "run" /\ work[c].pc = step

\* The block's row, which is not part of the transaction, and the node's trace, all of
\* which is decoded before anything is saved.
TraceBlock(c) ==
    LET b == msg[c].entity_id IN
    /\ Works(c, "block")
    /\ b \in blocks /\ b # Genesis
    /\ \A v \in ToSet(Writes(b)) : Decodes(v)
    /\ work' = [work EXCEPT ![c] = [NoWork EXCEPT !.pc = "save", !.todo = Written(b)]]
    /\ UNCHANGED <<taskVars, blocks, balances>>

\* The block is not there, or a value is of an unknown length.
CannotTrace(c) ==
    LET b == msg[c].entity_id IN
    /\ Works(c, "block")
    /\ b \notin blocks \/ (b # Genesis /\ \E v \in ToSet(Writes(b)) : ~ Decodes(v))
    /\ pc' = [pc EXCEPT ![c] = "ack"]
    /\ ReleaseLocks(c)
    /\ UNCHANGED <<rows, outbox, queue, msg, delivery, faults, balanceVars>>

\* saveBalances: the row is inserted, or its columns are merged, at once.
SaveBalance(c) ==
    LET b == msg[c].entity_id IN
    /\ Works(c, "save")
    /\ \E a \in work[c].todo :
        /\ IsNextKey(b, a, work[c].todo)
        /\ balances' = [balances EXCEPT ![b][a] = LastBalance(b, a)]
        /\ work' = [work EXCEPT ![c].todo = @ \ {a}]
    /\ UNCHANGED <<taskVars, blocks>>

\* Mutant: the task ends with its first account.
AfterFirst(c) == Works(c, "save") /\ work[c].todo # Written(msg[c].entity_id)

AllSaved(c) == Works(c, "save") /\ work[c].todo = {}

FinishBalances(c) ==
    /\ AllSaved(c) \/ (Works(c, "block") /\ msg[c].entity_id \in blocks \intersect {Genesis})
    /\ FinishTask(c)
    /\ work' = [work EXCEPT ![c] = NoWork]
    /\ UNCHANGED <<blocks, balances>>

CommitBalances(c) == CommitTask(c) /\ UNCHANGED balanceVars

FailBalances(c) ==
    /\ FailTask(c)
    /\ work' = [work EXCEPT ![c] = NoWork]
    /\ UNCHANGED <<blocks, balances>>

CrashBalances(c) ==
    /\ ConsumerCrash(c)
    /\ work' = [work EXCEPT ![c] = NoWork]
    /\ UNCHANGED <<blocks, balances>>

Consumer(c) ==
    \/ HandlerStep(c) /\ UNCHANGED balanceVars
    \/ TraceBlock(c) \/ CannotTrace(c) \/ SaveBalance(c)
    \/ FinishBalances(c) \/ CommitBalances(c)

Deliver(c) == (\E m \in Message : Receive(c, m)) /\ UNCHANGED balanceVars

Disconnect(c) == LoseChannel(c) /\ UNCHANGED balanceVars

-----------------------------------------------------------------------------
(* Properties.                                                             *)

Processed(b) == \E i \in RowIds : rows[i].entity_id = b /\ rows[i].status = "processed"

\* Whatever is in the balances table, also by a task that failed halfway, is what the
\* chain wrote last for the account in that block, in every encoding but the one of 140
\* digits: the first byte of that one, the flag of an Option, is read as the nonce's.
BalancesOfTheChain ==
    \A b \in EntityIds, a \in Accounts :
        balances[b][a] # NoBalance =>
            LET v == Writes(b)[Max(WritesOf(b, a))] IN
            balances[b][a] = IF v.digits = 140 THEN Misread ELSE v.balance

\* A block whose task is processed has the balance of every account it wrote: a task
\* that failed between two saves is not taken for done, and one that is repeated does
\* not miss what the first had left.
ProcessedBlockHasBalances ==
    \A b \in EntityIds \ {Genesis} :
        Processed(b) => \A v \in ToSet(Writes(b)) : balances[b][v.account] # NoBalance
=============================================================================
