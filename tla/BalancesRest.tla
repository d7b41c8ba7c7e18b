----------------------------- MODULE BalancesRest -----------------------------
(***************************************************************************)
(* The tasks of balances from one end to the other: BlockProcessor creates *)
(* them, Balances works them off, and BlockListenerService sends them      *)
(* again when it is asked to by REST (controller.ts) or by the cron job of *)
(* MonitoringService, page by page, while tasks come and go.               *)
(*                                                                         *)
(* The calls are async functions nobody awaits: each step is what runs     *)
(* between two awaits, and a second request starts a second call.          *)
(* TaskConsumer's ReadUnprocessed and SendFreshUid are these calls in one  *)
(* step each; here they are the steps they have.                           *)
(***************************************************************************)
EXTENDS Balances

CONSTANTS
    Calls,       \* bound: slots for calls of the listener
    Ranges,      \* bound: the ranges of blocks a restart is asked for, [from, to]
    ChunkSize,   \* BATCH_INSERT_CHUNK_SIZE
    MaxIncidents \* bound: faults and requests by REST together

ASSUME RestAssumption ==
    /\ EntityIds \subseteq Nat /\ Genesis \in EntityIds
    /\ \A b \in EntityIds, d \in EntityIds : b..d \subseteq EntityIds
    /\ Ranges \subseteq {range \in [from : EntityIds, to : EntityIds] : range.from <= range.to}
    /\ ChunkSize \in Nat \ {0}
    /\ MaxIncidents \in Nat

VARIABLES
    call,       \* the calls in progress
    requests,   \* how many requests there were
    unsent,     \* history: unprocessed rows each call of "tasks" has still to send
    creating    \* stored blocks whose callback has not inserted their task yet

restVars == <<call, requests, unsent, creating>>
vars == <<taskVars, balanceVars, restVars>>

\* page: the rows read and not yet sent; last: lastEntityId; to: endBlockId; row: the row
\* (NoRow for none) whose message is about to be sent.
Call == [pc : {"idle", "read", "send", "check", "insert", "message"},
         page : SUBSET RowId, last : EntityIds, to : EntityIds, row : Uid]

Nothing == [pc |-> "idle", page |-> {}, last |-> Genesis, to |-> Genesis, row |-> NoRow]

TypeOK ==
    /\ TaskTypeOK
    /\ BalanceTypeOK
    /\ call \in [Calls -> Call] /\ unsent \in [Calls -> SUBSET RowId]
    /\ \A r \in Calls : call[r].page \union unsent[r] \union ({call[r].row} \ {NoRow}) \subseteq RowIds
    /\ requests \in 0..MaxIncidents
    /\ creating \subseteq blocks

Init ==
    /\ TaskInit
    /\ BalanceInit
    /\ call = [r \in Calls |-> Nothing]
    /\ requests = 0
    /\ unsent = [r \in Calls |-> {}]
    /\ creating = {}

\* A message of which there are MaxCopies is not added to the queue: as many as are to be
\* told apart.
Publish(m) ==
    queue' = IF queue[m] < MaxCopies THEN [queue EXCEPT ![m] = @ + 1] ELSE queue

Incidents ==
    requests + faults["crash"] + faults["channel"] + faults["failure"] + faults["listener"]

Asked == Incidents < MaxIncidents /\ requests' = requests + 1

Others == <<rows, outbox, consumerVars, faults, balanceVars, creating>>

-----------------------------------------------------------------------------
(* restartUnprocessedTasks.                                                *)

StartRestart(r) ==
    /\ call[r].pc = "idle"
    /\ call' = [call EXCEPT ![r] = [Nothing EXCEPT !.pc = "read"]]
    /\ unsent' = [unsent EXCEPT ![r] = Unprocessed]
    /\ UNCHANGED <<Others, queue>>

\* GET /restart-balances.
RestartByRest(r) == StartRestart(r) /\ Asked

\* checkProcessingTasks of MonitoringService asks for the same, every five minutes while a
\* task has been waiting for a day.
RestartByMonitoring(r) ==
    /\ Unprocessed # {}
    /\ StartRestart(r)
    /\ UNCHANGED requests

\* Mutant: a restart begins after block 1.
AfterOne(r) ==
    {i \in Unprocessed : rows[i].entity_id > (IF call[r].last = 0 THEN 1 ELSE call[r].last)}

\* lastEntityId 0 is no condition at all.
AfterLast(r) == {i \in Unprocessed : call[r].last = 0 \/ rows[i].entity_id > call[r].last}

PageSize(r) == IF Cardinality(AfterLast(r)) < ChunkSize THEN Cardinality(AfterLast(r)) ELSE ChunkSize

\* Mutant: a page in any order, without the ORDER BY.
UnorderedPages(r) == kSubset(PageSize(r), AfterLast(r))

\* ORDER BY entity_id LIMIT: among rows of one entity any may come first.
Pages(r) ==
    {p \in kSubset(PageSize(r), AfterLast(r)) :
        \A i \in p, j \in AfterLast(r) \ p : rows[i].entity_id <= rows[j].entity_id}

ReadPage(r) ==
    /\ call[r].pc = "read" /\ AfterLast(r) # {}
    /\ \E p \in Pages(r) : call' = [call EXCEPT ![r].pc = "send", ![r].page = p]
    /\ UNCHANGED <<Others, queue, requests, unsent>>

EndRestart(r) ==
    /\ call[r].pc = "read" /\ AfterLast(r) = {}
    /\ call' = [call EXCEPT ![r] = Nothing]
    /\ unsent' = [unsent EXCEPT ![r] = {}]
    /\ UNCHANGED <<Others, queue, requests>>

IsNext(r, i) == i \in call[r].page /\ \A j \in call[r].page : rows[i].entity_id <= rows[j].entity_id

\* Mutant: the place is not moved on.
NotMovedOn(r, i) == call[r].last

MovedOn(r, i) == rows[i].entity_id

\* The next record of the page, as it was read; after the last one a sleep of five
\* seconds, and the next page.
SendRecord(r) ==
    /\ call[r].pc = "send"
    /\ \E i \in call[r].page :
        /\ IsNext(r, i)
        /\ Publish(MessageOf(i))
        /\ call' = [call EXCEPT ![r].page = @ \ {i}, ![r].last = MovedOn(r, i),
                                ![r].pc = IF call[r].page = {i} THEN "read" ELSE "send"]
        /\ unsent' = [unsent EXCEPT ![r] = @ \ {i}]
    /\ UNCHANGED <<Others, requests>>

-----------------------------------------------------------------------------
(* restartUnprocessedTask and restartUnprocessedBalances.                  *)

\* GET /restart-balances/:blockId: any of the block's unprocessed rows.
RestartOne(r) ==
    /\ call[r].pc = "idle"
    /\ Asked
    /\ \E i \in Unprocessed : call' = [call EXCEPT ![r].pc = "message", ![r].row = i,
                                                   ![r].last = rows[i].entity_id, ![r].to = rows[i].entity_id]
    /\ UNCHANGED <<Others, queue, unsent>>

\* GET /restart-balances/:startBlockId/:endBlockId.
RestartRange(r) ==
    /\ call[r].pc = "idle"
    /\ Asked
    /\ \E range \in Ranges :
          call' = [call EXCEPT ![r].pc = "check", ![r].last = range.from, ![r].to = range.to]
    /\ UNCHANGED <<Others, queue, unsent>>

NextOfRange(r) == IF call[r].last < call[r].to
            THEN [call[r] EXCEPT !.pc = "check", !.last = @ + 1, !.row = NoRow]
            ELSE Nothing

\* addProcessingTask looks at one of the block's rows, whichever comes first.
CheckTask(r) ==
    LET b == call[r].last IN
    /\ call[r].pc = "check"
    /\ \/ RowsOf(b) = {} /\ call' = [call EXCEPT ![r].pc = "insert"]
       \/ /\ RowsOf(b) \intersect Unprocessed # {}
          /\ call' = [call EXCEPT ![r].pc = "message"]
       \/ /\ RowsOf(b) \ Unprocessed # {}
          /\ call' = [call EXCEPT ![r] = NextOfRange(r)]
    /\ UNCHANGED <<Others, queue, requests, unsent>>

\* Bound: a row is left for the callback of every block.
RoomLeft == Len(rows) + Cardinality((EntityIds \ blocks) \union creating) < MaxRows

\* The block had no task when it was looked for; it may have one by now.
InsertMissing(r) ==
    LET b == call[r].last IN
    /\ call[r].pc = "insert"
    /\ RoomLeft
    /\ InsertRow(b)
    /\ call' = [call EXCEPT ![r].pc = "message", ![r].row = Len(rows) + 1]
    /\ UNCHANGED <<outbox, queue, consumerVars, faults, balanceVars, requests, unsent, creating>>

\* The message of the row; or one with a uid that was never inserted, for a block whose
\* task was there already.
SendOne(r) ==
    /\ call[r].pc = "message"
    /\ Publish([entity_id |-> call[r].last, collect_uid |-> call[r].row])
    /\ call' = [call EXCEPT ![r] = NextOfRange(r)]
    /\ UNCHANGED <<Others, requests, unsent>>

-----------------------------------------------------------------------------
(* BlockProcessor, the source of the tasks.                                *)

\* A block is committed.  What inserts the task of its balances is a callback nobody waits
\* for, and there is one for the attempt that stored the block only: a later one finds it.
StoreBlock(b) ==
    /\ b \notin blocks
    /\ blocks' = blocks \union {b}
    /\ creating' = creating \union {b}
    /\ UNCHANGED <<taskVars, balances, work, call, requests, unsent>>

\* The callback, in a transaction of its own.  It does not look for a task that is there
\* already: a restart of a range may have been first.
InsertBalancesTask(b) ==
    /\ b \in creating
    /\ InsertTask(b)
    /\ creating' = creating \ {b}
    /\ UNCHANGED <<balanceVars, call, requests, unsent>>

\* The message of the task, sent after the callback's commit.
SendNew == /\ \E i \in outbox : SendTask(i)
           /\ UNCHANGED <<balanceVars, restVars>>

\* The block processor exits, and its callbacks with it, before their commit or after it.
\* So it does when one of them throws: nobody handles the rejection.
LoseNew ==
    /\ outbox \union creating # {}
    /\ Fault("listener")
    /\ outbox' = {} /\ creating' = {}
    /\ UNCHANGED <<rows, queue, consumerVars, balanceVars, call, requests, unsent>>

RestStep(r) ==
    \/ ReadPage(r) \/ SendRecord(r) \/ EndRestart(r)
    \/ CheckTask(r) \/ InsertMissing(r) \/ SendOne(r)

Next ==
    \/ \E r \in Calls : \/ RestStep(r) \/ RestartByMonitoring(r)
                        \/ RestartByRest(r) \/ RestartOne(r) \/ RestartRange(r)
    \/ \E b \in EntityIds : StoreBlock(b) \/ InsertBalancesTask(b)
    \/ SendNew
    \/ \E c \in Consumers : (Consumer(c) \/ Deliver(c)) /\ UNCHANGED restVars
    \/ /\ Incidents < MaxIncidents
       /\ \/ LoseNew
          \/ \E c \in Consumers :
              (FailBalances(c) \/ CrashBalances(c) \/ Disconnect(c)) /\ UNCHANGED restVars

Spec == Init /\ [][Next]_vars

\* The queue is first in, first out, so that no block's messages wait for ever (SF: another
\* block's may be taken each time); the event loops of the block processor, the listener, the
\* consumers and the cron job go on.  Requests, failures and crashes need not happen.
Fairness ==
    /\ \A r \in Calls : WF_vars(RestStep(r) \/ RestartByMonitoring(r))
    /\ WF_vars(SendNew \/ \E b \in EntityIds : InsertBalancesTask(b))
    /\ \A c \in Consumers : WF_vars(Consumer(c) /\ UNCHANGED restVars)
    /\ \A b \in EntityIds :
        SF_vars(\E c \in Consumers, u \in Uid :
                    /\ Receive(c, [entity_id |-> b, collect_uid |-> u])
                    /\ UNCHANGED <<balanceVars, restVars>>)

FairSpec == Spec /\ Fairness

-----------------------------------------------------------------------------
(* Properties.                                                             *)

\* A restart of the unprocessed tasks leaves none of them out while others are processed
\* and inserted between its pages: what was waiting when it began, and still is, has been
\* sent or is still to be read.  The exception is a block with several rows, when a page
\* ends between them: the place is kept by entity_id, and the next page begins after it.
RestartSendsAll ==
    \A r \in Calls : call[r].pc \in {"read", "send"} =>
        \A i \in unsent[r] \intersect Unprocessed :
            \/ i \in call[r].page \union AfterLast(r)
            \/ Cardinality(RowsOf(rows[i].entity_id)) > 1

\* A restart comes to its end, also when tasks stay unprocessed for ever (a trace that
\* cannot be decoded): but for the task of block 0, whose id is taken for no place at all
\* and brings the whole table round again as long as it is not processed.
RestartEnds ==
    \A r \in Calls :
        (call[r].pc \in {"read", "send"}) ~>
            (call[r].pc = "idle" \/ \E i \in Unprocessed : rows[i].entity_id = 0)

\* The callback of a stored block is lost: no step of the system inserts its task any more.
CallbackLost(b) == faults["listener"] > 0 /\ b \notin creating /\ RowsOf(b) = {}

\* A page with no row but those of block 0, which the next page begins with again.
PageOfGenesis == Cardinality(RowsOf(Genesis) \intersect Unprocessed) >= ChunkSize

\* Blocks whose balances can be told.
Traceable == {b \in EntityIds \ {Genesis} : \A v \in ToSet(Writes(b)) : Decodes(v)}

\* Every block stored has its balances in the end, whatever messages are lost, delivered
\* twice or failed: the cron job sends its task again, also when the block processor exits
\* between the insert of the task and its message.  But not when it exits between the
\* commit of the block and that insert: there is no task to send again then, as
\* FollowUpsLostOnlyByCrash of BlockProcessor has it.  The other exceptions are a trace that
\* cannot be decoded; a block with several rows, where only the newest is ever processed
\* and the page of a restart may end before it; and tasks of block 0 that stay unprocessed,
\* when they fill a page.  (Block 0 has no balances to get.)
StoredBlockGetsBalances ==
    \A b \in Traceable :
        (b \in blocks) ~>
            (\/ Processed(b)
             \/ CallbackLost(b)
             \/ PageOfGenesis
             \/ Cardinality(RowsOf(b)) > 1)
=============================================================================
