----------------------------- MODULE BlockListener -----------------------------
(***************************************************************************)
(* BlockListenerService: how finalized blocks become task rows.  preload   *)
(* (at start, and by REST) and newBlock (a subscription's callback) are    *)
(* async calls on one event loop: what runs between two awaits is one      *)
(* step, and other calls run at every await.                               *)
(*                                                                         *)
(* Abstractions.                                                           *)
(*  - A header may be any height finalized so far, any number of times:    *)
(*    each preload adds a subscription, and headers are delivered late.    *)
(*    Heights beyond Horizon count as Horizon.  A header that newBlock     *)
(*    drops is no step.                                                    *)
(*  - An error anywhere but in ingestTasksChunk is a rejected promise that *)
(*    nobody awaits: it ends the process, as Crash does.                   *)
(*  - Time is left out: a sleep or a timer ends at any later step.         *)
(***************************************************************************)
EXTENDS Integers, FiniteSets

CONSTANTS
    Calls,       \* bound: slots for calls of preload and newBlock
    Horizon,     \* bound: the highest block
    FirstHead,   \* the finalized height the process finds first
    ChunkSize,   \* BATCH_INSERT_CHUNK_SIZE
    MaxEvents    \* bound: how often each kind of event happens

\* crash: the process ends by itself; failure: the transaction of a chunk fails;
\* preload: GET /preload; pause: GET /pause; stop: SIGTERM.
Event == {"crash", "failure", "preload", "pause", "stop"}

ASSUME ListenerAssumption ==
    /\ Horizon \in Nat /\ FirstHead \in 0..Horizon
    /\ ChunkSize \in Nat \ {0}
    /\ MaxEvents \in [Event -> Nat]

VARIABLES
    head,               \* the finalized height
    processing_state,   \* the entity_id of the block row of processing_state
    rows,               \* how many task rows each block has
    lastBlockId, messagesBeingProcessed, isPaused, gracefulShutdownFlag,
    subscribed,         \* whether finalized heads are subscribed to
    call,               \* the calls in progress
    due,                \* setTimeout timers that will send a block's message
    sent,               \* messages sent for each block
    events              \* how many events of each kind happened

database == <<processing_state, rows>>
flags == <<isPaused, gracefulShutdownFlag>>
messages == <<due, sent>>
vars == <<head, database, lastBlockId, messagesBeingProcessed, flags, subscribed, call,
          messages, events>>

-----------------------------------------------------------------------------
Block == 0..Horizon
NoBlock == -1   \* what findLastEntityId says of an empty table

\* next..last is the chunk of tasks while its transaction is open; before that,
\* last is the answer of findLastEntityId.
Call == [pc : {"idle", "read", "assign", "head", "start", "paused", "begin", "trx", "loop"},
         kind : {"preload", "newBlock"},
         next : 0..Horizon + 1,
         to : Block,
         last : Block \union {NoBlock}]

Idle == [pc |-> "idle", kind |-> "preload", next |-> 0, to |-> 0, last |-> NoBlock]

TypeOK ==
    /\ head \in Block
    /\ processing_state \in Block \union {NoBlock}
    /\ rows \in [Block -> Nat]
    /\ lastBlockId \in Block \union {NoBlock}
    /\ messagesBeingProcessed \in BOOLEAN /\ isPaused \in BOOLEAN
    /\ gracefulShutdownFlag \in BOOLEAN /\ subscribed \in BOOLEAN
    /\ call \in [Calls -> Call]
    /\ due \in [Block -> Nat]
    /\ sent \in [Block -> Nat]
    /\ events \in [Event -> Nat]

\* The process starts with nothing in memory but a call of preload.
StartWith(c) == [d \in Calls |-> IF d = c THEN [Idle EXCEPT !.pc = "read"] ELSE Idle]

Init ==
    /\ head = FirstHead
    /\ processing_state = NoBlock
    /\ rows = [b \in Block |-> 0]
    /\ lastBlockId = 0
    /\ messagesBeingProcessed = FALSE /\ isPaused = FALSE
    /\ gracefulShutdownFlag = FALSE /\ subscribed = FALSE
    /\ \E c \in Calls : call = StartWith(c)
    /\ due = [b \in Block |-> 0]
    /\ sent = [b \in Block |-> 0]
    /\ events = [k \in Event |-> 0]

Happens(k) ==
    /\ events[k] < MaxEvents[k]
    /\ events' = [events EXCEPT ![k] = @ + 1]

-----------------------------------------------------------------------------
(* ingestPreloadTasks: its loop, from one await to the next.               *)

Chunk(c) == call[c].next .. call[c].last

\* Mutant: a chunk is filled up, beyond the last block asked for.
FullChunk(r) == CHOOSE i \in r.next .. r.next + ChunkSize : i % ChunkSize = 0

\* The chunk from r.next on ends at a multiple of the chunk size or at the last
\* block asked for; a flag raised while the call was paused ends it at once.
EndOfChunk(r) ==
    LET ends == {i \in r.next .. r.to : i % ChunkSize = 0 \/ i = r.to \/ gracefulShutdownFlag} IN
    CHOOSE i \in ends : \A j \in ends : i <= j

Collect(c, r) ==
    /\ messagesBeingProcessed' = TRUE
    /\ call' = [call EXCEPT ![c] = [r EXCEPT !.pc = "begin", !.last = EndOfChunk(r)]]
    /\ UNCHANGED subscribed

\* Mutant: the call ends without the flag being lowered.
ReturnWithoutReset(c) ==
    /\ call' = [call EXCEPT ![c] = Idle]
    /\ subscribed' = (subscribed \/ call[c].kind = "preload")
    /\ UNCHANGED messagesBeingProcessed

\* The end of ingestPreloadTasks; preload goes on to subscribe to heads.
Return(c) ==
    /\ messagesBeingProcessed' = FALSE
    /\ call' = [call EXCEPT ![c] = Idle]
    /\ subscribed' = (subscribed \/ call[c].kind = "preload")

Ingest(c, r) ==
    \/ /\ r.next > r.to \/ gracefulShutdownFlag
       /\ Return(c)
    \/ /\ r.next <= r.to /\ ~ gracefulShutdownFlag /\ isPaused
       /\ call' = [call EXCEPT ![c] = [r EXCEPT !.pc = "paused"]]
       /\ UNCHANGED <<messagesBeingProcessed, subscribed>>
    \/ /\ r.next <= r.to /\ ~ gracefulShutdownFlag /\ ~ isPaused
       /\ Collect(c, r)

\* The pause loop ends with its iteration: the flag is not looked at again.
GoOn(c) ==
    /\ call[c].pc = "paused" /\ ~ isPaused
    /\ Collect(c, call[c])
    /\ UNCHANGED <<head, database, lastBlockId, flags, messages, events>>

\* After a chunk that ended at a multiple of the chunk size comes a sleep; any
\* other chunk was the last one.
AfterChunk(c) ==
    IF call[c].last % ChunkSize = 0
    THEN /\ call' = [call EXCEPT ![c].pc = "loop", ![c].next = call[c].last + 1]
         /\ UNCHANGED <<messagesBeingProcessed, subscribed>>
    ELSE Return(c)

EndSleep(c) ==
    /\ call[c].pc = "loop"
    /\ Ingest(c, call[c])
    /\ UNCHANGED <<head, database, lastBlockId, flags, messages, events>>

-----------------------------------------------------------------------------
(* ingestTasksChunk.                                                       *)

\* Mutant: the timers are set as the transaction begins, too.
BeginAndSetTimers(c) ==
    /\ call[c].pc = "begin"
    /\ call' = [call EXCEPT ![c].pc = "trx"]
    /\ lastBlockId' = call[c].last
    /\ due' = [b \in Block |-> due[b] + (IF b \in Chunk(c) THEN 1 ELSE 0)]
    /\ UNCHANGED <<head, database, messagesBeingProcessed, flags, subscribed, sent, events>>

\* The transaction begins, and the memory is ahead of the database until it ends.
Begin(c) ==
    /\ call[c].pc = "begin"
    /\ call' = [call EXCEPT ![c].pc = "trx"]
    /\ lastBlockId' = call[c].last
    /\ UNCHANGED <<head, database, messagesBeingProcessed, flags, subscribed, messages, events>>

\* The state and the rows are one transaction; the timers are set after it.
Commit(c) ==
    /\ call[c].pc = "trx"
    /\ processing_state' = call[c].last
    /\ rows' = [b \in Block |-> rows[b] + (IF b \in Chunk(c) THEN 1 ELSE 0)]
    /\ due' = [b \in Block |-> due[b] + (IF b \in Chunk(c) THEN 1 ELSE 0)]
    /\ AfterChunk(c)
    /\ UNCHANGED <<head, lastBlockId, flags, sent, events>>

\* The transaction does not begin, or is rolled back: the error is logged, and
\* the loop goes on with the next chunk.
FailChunk(c) ==
    /\ call[c].pc \in {"begin", "trx"}
    /\ Happens("failure")
    /\ AfterChunk(c)
    /\ UNCHANGED <<head, database, lastBlockId, flags, messages>>

\* The timers that have run out fire in one turn of the event loop.
SendDue ==
    /\ \E b \in Block : due[b] > 0
    /\ due' = [b \in Block |-> 0]
    /\ sent' = [b \in Block |-> sent[b] + due[b]]
    /\ UNCHANGED <<head, database, lastBlockId, messagesBeingProcessed, flags, subscribed, call,
                   events>>

-----------------------------------------------------------------------------
(* preload and newBlock.                                                   *)

\* Mutant: only the block of the header is ingested.
HeaderOnly(r) == [r EXCEPT !.next = r.to]

\* fromBlock: this.lastBlockId + 1.
FromLast(r) == [r EXCEPT !.next = lastBlockId + 1]

\* GET /preload starts another preload beside whatever is in progress.
RestPreload(c) ==
    /\ call[c].pc = "idle"
    /\ Happens("preload")
    /\ call' = [call EXCEPT ![c] = [Idle EXCEPT !.pc = IF lastBlockId = 0 THEN "read" ELSE "head"]]
    /\ UNCHANGED <<head, database, lastBlockId, messagesBeingProcessed, flags, subscribed, messages>>

\* Mutant: a header is taken while a call is ingesting.
AcceptsUnlessPaused == ~ isPaused

Accepts == ~ messagesBeingProcessed /\ ~ isPaused

\* newBlock(h): without a height in memory (or with height 0) it has to ask the
\* database, otherwise it ingests up to its first await.
Header(c, h) ==
    /\ subscribed /\ Accepts
    /\ call[c].pc = "idle"
    /\ LET r == [Idle EXCEPT !.kind = "newBlock", !.to = h] IN
       \/ /\ lastBlockId = 0
          /\ call' = [call EXCEPT ![c] = [r EXCEPT !.pc = "read"]]
          /\ UNCHANGED <<messagesBeingProcessed, subscribed>>
       \/ /\ lastBlockId # 0
          /\ Ingest(c, FromLast(r))
    /\ UNCHANGED <<head, database, lastBlockId, flags, messages, events>>

ReadState(c) ==
    /\ call[c].pc = "read"
    /\ call' = [call EXCEPT ![c].pc = "assign", ![c].last = processing_state]
    /\ UNCHANGED <<head, database, lastBlockId, messagesBeingProcessed, flags, subscribed,
                   messages, events>>

\* findLastEntityId has answered, possibly with what is no longer so.
Assign(c) ==
    /\ call[c].pc = "assign"
    /\ lastBlockId' = call[c].last
    /\ \/ /\ call[c].kind = "preload"
          /\ call' = [call EXCEPT ![c].pc = "head"]
          /\ UNCHANGED <<messagesBeingProcessed, subscribed>>
       \/ /\ call[c].kind = "newBlock"
          /\ Ingest(c, [call[c] EXCEPT !.next = call[c].last + 1])
    /\ UNCHANGED <<head, database, flags, messages, events>>

AskHead(c) ==
    /\ call[c].pc = "head"
    /\ call' = [call EXCEPT ![c].pc = "start", ![c].to = head]
    /\ UNCHANGED <<head, database, lastBlockId, messagesBeingProcessed, flags, subscribed,
                   messages, events>>

StartIngest(c) ==
    /\ call[c].pc = "start"
    /\ Ingest(c, FromLast(call[c]))
    /\ UNCHANGED <<head, database, lastBlockId, flags, messages, events>>

-----------------------------------------------------------------------------
(* The world.                                                              *)

NewHead ==
    /\ head < Horizon
    /\ head' = head + 1
    /\ UNCHANGED <<database, lastBlockId, messagesBeingProcessed, flags, subscribed, call,
                   messages, events>>

Pause ==
    /\ ~ isPaused
    /\ Happens("pause")
    /\ isPaused' = TRUE
    /\ UNCHANGED <<head, database, lastBlockId, messagesBeingProcessed, gracefulShutdownFlag,
                   subscribed, call, messages>>

Resume ==
    /\ isPaused
    /\ isPaused' = FALSE
    /\ UNCHANGED <<head, database, lastBlockId, messagesBeingProcessed, gracefulShutdownFlag,
                   subscribed, call, messages, events>>

\* SIGTERM: gracefullShutdown raises the flag.
Stop ==
    /\ ~ gracefulShutdownFlag
    /\ Happens("stop")
    /\ gracefulShutdownFlag' = TRUE
    /\ UNCHANGED <<head, database, lastBlockId, messagesBeingProcessed, isPaused, subscribed, call,
                   messages>>

\* The process is started again, with the database as it is.
Restart ==
    /\ lastBlockId' = 0
    /\ messagesBeingProcessed' = FALSE /\ isPaused' = FALSE
    /\ gracefulShutdownFlag' = FALSE /\ subscribed' = FALSE
    /\ \E c \in Calls : call' = StartWith(c)
    /\ due' = [b \in Block |-> 0]
    /\ UNCHANGED <<head, database, sent>>

Crash == Happens("crash") /\ Restart

\* The exit ten seconds after SIGTERM waits for no call: gracefullShutdown is not
\* awaited.
Exit == gracefulShutdownFlag /\ Restart /\ UNCHANGED events

\* A step of a call in progress.
Step(c) ==
    \/ ReadState(c) \/ Assign(c) \/ AskHead(c) \/ StartIngest(c)
    \/ EndSleep(c) \/ GoOn(c) \/ Begin(c) \/ Commit(c)

Next ==
    \/ \E c \in Calls :
        \/ Step(c)
        \/ FailChunk(c)
        \/ RestPreload(c)
        \/ \E h \in 1..head : Header(c, h)
    \/ SendDue \/ NewHead \/ Pause \/ Resume \/ Stop \/ Crash \/ Exit

Spec == Init /\ [][Next]_vars

(***************************************************************************)
(* Fairness.  Calls in progress go on; a paused listener is resumed and a  *)
(* stopped one is started again.  Heads keep coming, one every few         *)
(* seconds, while a chunk takes less: a head that keeps finding the        *)
(* listener free is taken, hence SF.                                       *)
(***************************************************************************)
HeadArrives == \E c \in Calls : Header(c, head)

Fairness ==
    /\ \A c \in Calls : WF_vars(Step(c))
    /\ SF_vars(HeadArrives)
    /\ WF_vars(Resume)
    /\ WF_vars(Exit)

FairSpec == Spec /\ Fairness

-----------------------------------------------------------------------------
(* Properties.                                                             *)

Ended == events["crash"] + events["stop"] > 0
Failed == events["failure"] > 0
Overlap == events["preload"] > 0

\* Calls run side by side when GET /preload is used; and on a chain with no block but
\* genesis, whose height in memory, 0, is taken for no height: two headers may both go and
\* ask the database for it.
SideBySide == Overlap \/ FirstHead = 0

\* Up to the height in processing_state every block has a task row, unless a
\* chunk has failed.  When calls run side by side, a later chunk may be in the
\* database while an earlier one is still in its transaction (Begin moves the
\* height in memory ahead of the database), and the end of the process in
\* between leaves a gap; nothing else does.
NoGapWithoutFailure ==
    ~ Failed =>
        \A b \in 0..processing_state :
            \/ rows[b] > 0
            \/ SideBySide /\ (Ended \/ \E c \in Calls : call[c].pc = "trx" /\ b \in Chunk(c))

\* README: preload all blocks before head and send them to the queue.  Every
\* block up to the height in processing_state has a task row.  A chunk that
\* fails refutes it: its error is logged and the next chunk moves the state on.
PreloadsAllBlocks == \A b \in 0..processing_state : rows[b] > 0

\* The calls of the listener are kept apart by messagesBeingProcessed, but for these
\* exceptions: those above; and while the height in memory is 0 again after a chunk that
\* failed.
KeptApart == ~ SideBySide /\ ~ Failed

\* A block gets one task row, though headers, pauses, crashes and restarts come at
\* any time.
OneTaskPerBlock == KeptApart => \A b \in Block : rows[b] <= 1

\* The height in processing_state never goes back (after a restart, blocks would
\* get their tasks again).
StateNeverGoesBack == [][KeptApart' => processing_state' >= processing_state]_vars

\* No message is sent, or due to be sent, for a row that is not in the database
\* (its consumer would find no row and drop the task); and a message is lost only
\* when the process ends.
MessagesFollowRows ==
    \A b \in Block : /\ due[b] + sent[b] <= rows[b]
                     /\ ~ Ended => due[b] + sent[b] = rows[b]

\* Every finalized block gets a task row in the end, however the listener was
\* paused, stopped or crashed, unless a chunk failed.
EveryBlockGetsTask ==
    \A b \in Block : (head >= b) ~> (rows[b] > 0 \/ Failed)
=============================================================================
