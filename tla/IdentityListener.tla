--------------------------- MODULE IdentityListener ---------------------------
(***************************************************************************)
(* IdentityListnerService, which polls the events the block processors     *)
(* write, and keeps the accounts table.  Its place is a row_id: it reads   *)
(* the rows after the last it has handled.  But row_ids are given out when *)
(* a row is inserted, and rows are seen when the transaction of their      *)
(* block commits, in whatever order the block processors commit.           *)
(*                                                                         *)
(* Abstractions.                                                           *)
(*  - Only the rows getUnprocessedEvents selects (NewAccount and           *)
(*    KilledAccount of the section system) are kept; other rows are gaps   *)
(*    in the row_ids, as those of rolled back transactions are.            *)
(*  - Of BlockProcessor there remain the writes to events and accounts and *)
(*    the end of the transaction; a block is extracted once                *)
(*    (BlockExtraction).                                                   *)
(*  - The loop over extrinsics has the same cursor over another table.     *)
(***************************************************************************)
EXTENDS Integers, Sequences, FiniteSets

CONSTANTS
    Accounts,
    Blocks,      \* the heights of the blocks there are
    EventsOf,    \* the events of each block: a sequence of [account, method]
    Signers,     \* the accounts that signed an extrinsic of each block
    Writers,     \* block processors
    NoBlock,     \* the block of an idle one
    ChunkSize,   \* BATCH_INSERT_CHUNK_SIZE
    MaxRows,     \* bound: rows inserted
    MaxFaults    \* bound: how often each kind of fault may happen

Method == {"NewAccount", "KilledAccount"}
Event == [account : Accounts, method : Method]

\* rollback: the transaction of a block fails; failure: an account is not saved;
\* crash: the identity processor ends.
FaultKind == {"rollback", "failure", "crash"}

ASSUME IdentityAssumption ==
    /\ Blocks \subseteq Nat /\ NoBlock \notin Blocks
    /\ EventsOf \in [Blocks -> Seq(Event)]
    /\ Signers \in [Blocks -> SUBSET Accounts]
    /\ ChunkSize \in Nat \ {0}
    /\ MaxRows \in Nat
    /\ MaxFaults \in [FaultKind -> Nat]

VARIABLES
    events,     \* the rows inserted so far, in row_id order
    writing,    \* the block whose transaction each writer has open
    stored,     \* the blocks that are committed
    accounts,   \* created_at_block_id and killed_at_block_id of each account
    processing_state,   \* the row_id of the identity_event row of processing_state
    lastRowId,
    batch,      \* rows read and not yet handled
    pc,         \* where the loop stands
    handled,    \* history: rows whose account was saved
    failed,     \* history: rows whose account was not saved
    late,       \* history: rows committed after a row with a greater row_id
    faults      \* how many faults of each kind have happened

loop == <<processing_state, lastRowId, batch, pc>>
history == <<handled, failed>>
writers == <<writing, stored>>
vars == <<events, writers, accounts, loop, history, late, faults>>

-----------------------------------------------------------------------------
RowId == 1..Len(events)
Row == [event : Event, block : Blocks, status : {"open", "committed", "aborted"}]
Null == 0   \* a column without a value
Columns == [created : Blocks \union {Null}, killed : Blocks \union {Null}]

TypeOK ==
    /\ events \in Seq(Row)
    /\ writing \in [Writers -> Blocks \union {NoBlock}]
    /\ stored \subseteq Blocks
    /\ accounts \in [Accounts -> Columns]
    /\ processing_state \in Nat /\ lastRowId \in Nat
    /\ batch \subseteq RowId
    /\ pc \in {"start", "read", "handle", "sleep"}
    /\ handled \subseteq RowId /\ failed \subseteq RowId /\ late \subseteq RowId
    /\ faults \in [FaultKind -> Nat]

\* findLastEntityId answers -1 while nothing is stored: with 0 the same rows follow.
Init ==
    /\ events = <<>>
    /\ writing = [w \in Writers |-> NoBlock]
    /\ stored = {}
    /\ accounts = [a \in Accounts |-> [created |-> Null, killed |-> Null]]
    /\ processing_state = 0
    /\ lastRowId = 0
    /\ batch = {}
    /\ pc = "start"
    /\ handled = {} /\ failed = {} /\ late = {}
    /\ faults = [k \in FaultKind |-> 0]

Fault(k) ==
    /\ faults[k] < MaxFaults[k]
    /\ faults' = [faults EXCEPT ![k] = @ + 1]

Committed == {i \in RowId : events[i].status = "committed"}
OpenRows(b) == {i \in RowId : events[i].block = b /\ events[i].status = "open"}

-----------------------------------------------------------------------------
(* The block processors.                                                   *)

\* processBlock saves the signers of a block's extrinsics, each as created in this
\* block, outside of the transaction: they stay when it is rolled back.  A signer
\* that cannot be saved is passed over.
BeginBlock(w, b) ==
    /\ writing[w] = NoBlock
    /\ b \notin stored /\ \A v \in Writers : writing[v] # b
    /\ writing' = [writing EXCEPT ![w] = b]
    /\ \E saved \in SUBSET Signers[b] :
          accounts' = [a \in Accounts |-> IF a \in saved THEN [accounts[a] EXCEPT !.created = b]
                                                        ELSE accounts[a]]
    /\ UNCHANGED <<events, stored, loop, history, late, faults>>

\* saveEvent: the next event of the block gets the next row_id.
SaveEvent(w) ==
    LET b == writing[w]
        n == Cardinality(OpenRows(b)) IN
    /\ b # NoBlock /\ n < Len(EventsOf[b]) /\ Len(events) < MaxRows
    /\ events' = Append(events, [event |-> EventsOf[b][n + 1], block |-> b, status |-> "open"])
    /\ UNCHANGED <<writers, accounts, loop, history, late, faults>>

EndBlock(w, status) ==
    /\ writing' = [writing EXCEPT ![w] = NoBlock]
    /\ events' = [i \in RowId |-> IF i \in OpenRows(writing[w])
                                  THEN [events[i] EXCEPT !.status = status]
                                  ELSE events[i]]

Commit(w) ==
    /\ writing[w] # NoBlock
    /\ Cardinality(OpenRows(writing[w])) = Len(EventsOf[writing[w]])
    /\ EndBlock(w, "committed")
    /\ stored' = stored \union {writing[w]}
    /\ late' = late \union {i \in OpenRows(writing[w]) : \E j \in Committed : j > i}
    /\ UNCHANGED <<accounts, loop, history, faults>>

RollBack(w) ==
    /\ writing[w] # NoBlock
    /\ Fault("rollback")
    /\ EndBlock(w, "aborted")
    /\ UNCHANGED <<stored, accounts, loop, history, late>>

-----------------------------------------------------------------------------
(* restartUnprocessedEvents.                                               *)

\* Mutant: the loop starts one row too early.
StartOneBefore ==
    /\ pc = "start"
    /\ lastRowId' = processing_state - 1
    /\ pc' = "read"
    /\ UNCHANGED <<events, writers, accounts, processing_state, batch, history, late, faults>>

\* preload: the loop starts after the row_id in processing_state.
Start ==
    /\ pc = "start"
    /\ lastRowId' = processing_state
    /\ pc' = "read"
    /\ UNCHANGED <<events, writers, accounts, processing_state, batch, history, late, faults>>

Unprocessed == {i \in Committed : i > lastRowId}

\* getUnprocessedEvents: ORDER BY row_id LIMIT.
FirstRows == {i \in Unprocessed : Cardinality({j \in Unprocessed : j < i}) < ChunkSize}

\* Mutant: the place is stored as soon as the rows are read.
ReadAndStore ==
    /\ pc = "read" /\ Unprocessed # {}
    /\ batch' = FirstRows
    /\ pc' = "handle"
    /\ processing_state' = CHOOSE i \in FirstRows : \A j \in FirstRows : j <= i
    /\ UNCHANGED <<events, writers, accounts, lastRowId, history, late, faults>>

\* With no rows left the loop ends, and a timer calls it again with its lastRowId.
Read ==
    /\ pc = "read" /\ Unprocessed # {}
    /\ batch' = FirstRows
    /\ pc' = "handle"
    /\ UNCHANGED <<events, writers, accounts, processing_state, lastRowId, history, late, faults>>

\* Mutant: an account that is there already is left as it is.
SavedOnce(i) ==
    LET e == events[i].event IN
    IF accounts[e.account].created # Null \/ accounts[e.account].killed # Null THEN accounts
    ELSE IF e.method = "NewAccount"
         THEN [accounts EXCEPT ![e.account].created = events[i].block]
         ELSE [accounts EXCEPT ![e.account].killed = events[i].block]

\* onNewAccount and onKilledAccount: the insert or merge of one column.
Saved(i) ==
    LET e == events[i].event IN
    IF e.method = "NewAccount"
    THEN [accounts EXCEPT ![e.account].created = events[i].block]
    ELSE [accounts EXCEPT ![e.account].killed = events[i].block]

GoOn(i) ==
    /\ pc = "handle" /\ i \in batch /\ \A j \in batch : i <= j
    /\ batch' = batch \ {i}
    /\ lastRowId' = i
    /\ UNCHANGED <<events, writers, processing_state, pc, late>>

Handle(i) ==
    /\ GoOn(i)
    /\ accounts' = Saved(i)
    /\ handled' = handled \union {i}
    /\ UNCHANGED <<failed, faults>>

\* saveAccount logs its error and returns: the loop goes on with the next row.
FailToSave(i) ==
    /\ GoOn(i)
    /\ Fault("failure")
    /\ failed' = failed \union {i}
    /\ UNCHANGED <<accounts, handled>>

StoreState ==
    /\ pc = "handle" /\ batch = {}
    /\ processing_state' = lastRowId
    /\ pc' = "sleep"
    /\ UNCHANGED <<events, writers, accounts, lastRowId, batch, history, late, faults>>

Wake ==
    /\ pc = "sleep"
    /\ pc' = "read"
    /\ UNCHANGED <<events, writers, accounts, processing_state, lastRowId, batch, history, late,
                   faults>>

\* The process ends and is started again: what it has handled since the state was
\* stored will be handled again.
Crash ==
    /\ Fault("crash")
    /\ pc' = "start" /\ batch' = {} /\ lastRowId' = 0
    /\ UNCHANGED <<events, writers, accounts, processing_state, history, late>>

Loop ==
    \/ Start \/ Read \/ StoreState \/ Wake
    \/ \E i \in batch : Handle(i)

Next ==
    \/ \E w \in Writers :
        \/ \E b \in Blocks : BeginBlock(w, b)
        \/ SaveEvent(w) \/ Commit(w) \/ RollBack(w)
    \/ Loop
    \/ \E i \in batch : FailToSave(i)
    \/ Crash

Spec == Init /\ [][Next]_vars

\* The loop goes on by itself: its timers and its queries end.
FairSpec == Spec /\ WF_vars(Loop)

-----------------------------------------------------------------------------
(* Properties.                                                             *)

\* Whatever the loop is past, in memory or in the row it will start from again, it
\* has handled, unless its account could not be saved or the row was committed late,
\* after one with a greater row_id.
OnlyLateRowsPassed ==
    \A i \in Committed :
        i <= lastRowId \/ i <= processing_state => i \in handled \union failed \union late

\* The rows of account a and method m, among those that were handled.
HandledOf(a, m) == {i \in handled : events[i].event = [account |-> a, method |-> m]}
IsLastOf(i, S) == i \in S /\ \A j \in S : j <= i

\* Rows that are handled again after a crash take an account back in time, but once
\* the loop is where it was it shows the last event again; created_at_block_id may
\* also be the block of an extrinsic the account signed.
AccountsFollowEvents ==
    failed = {} /\ (\A i \in handled : i <= lastRowId) =>
        \A a \in Accounts, i \in handled :
            /\ IsLastOf(i, HandledOf(a, "KilledAccount")) => accounts[a].killed = events[i].block
            /\ IsLastOf(i, HandledOf(a, "NewAccount")) =>
                  \/ accounts[a].created = events[i].block
                  \/ \E b \in Blocks : a \in Signers[b] /\ accounts[a].created = b

\* README of the module: Identity Processor listens and updates: Account creation
\* event, Account killed event.  Every committed row the loop is past was handled.
\* Two block processors that commit in another order than they inserted refute it.
NoEventPassed == \A i \in Committed : i <= lastRowId => i \in handled \union failed

\* Every row that was not committed late is handled in the end, whatever crashes.
EveryEventHandled ==
    \A n \in 1..MaxRows : (n \in Committed /\ n \notin late) ~> (n \in handled \union failed)
=============================================================================
