-------------------------- MODULE BalancesRestProofs --------------------------
(***************************************************************************)
(* Proofs about BalancesRest, and about Balances within it: for any blocks *)
(* and traces, consumers, calls of the listener and faults, the types,     *)
(* that the balances table agrees with the chain and is complete for a     *)
(* processed block, and that a restart of the unprocessed tasks leaves     *)
(* none of them out.                                                       *)
(***************************************************************************)
EXTENDS BalancesRest, TaskConsumerProofs

-----------------------------------------------------------------------------
(* Decoding.                                                               *)

\* Every layout but the shortest has a header of the size that is left for it.
LEMMA DecodedBalance ==
    ASSUME NEW v \in Write, Decodes(v), v.digits = 2 => v.balance = 0
    PROVE  /\ Decode(v) = IF v.digits = 140 THEN Misread ELSE v.balance
           /\ Decode(v) \in Balance
<1>1. CASE v.digits = 2
  BY <1>1 DEF Decode, Balance, Write
<1>2. CASE v.digits # 2
  <2>1. v.digits \in {140, 146, 152, 154, 160, 162}
    BY <1>2 DEF Decodes, HeaderBytes
  <2>2. /\ Header(140) = 5 /\ Header(146) = 9 /\ Header(152) = 12
        /\ Header(154) = 13 /\ Header(160) = 16 /\ Header(162) = 17
    BY DEF Header, HeaderBytes
  <2>3. 2 * (Header(v.digits) + AmountBytes) = v.digits <=> v.digits # 140
    BY <2>1, <2>2 DEF AmountBytes
  <2> QED BY <1>2, <2>3 DEF Decode, Balance, Write
<1> QED BY <1>1, <1>2

\* The last of a bounded set of numbers.
LEMMA LastOf ==
    ASSUME NEW n \in Nat, NEW S, S \subseteq 1..n, S # {}
    PROVE  Max(S) \in S
<1> DEFINE after == {n - i : i \in S}
<1>1. after \subseteq Nat /\ after # {}
  <2>1. \A i \in S : n - i \in Nat
    OBVIOUS
  <2> QED BY <2>1
<1>2. PICK k \in after : \A j \in after : <<j, k>> \notin OpToRel(<, Nat)
  <2> HIDE DEF after
  <2> QED BY <1>1, NatLessThanWellFounded, WFMin
<1>3. \A j \in after : ~ (j < k)
  <2>1. \A j \in after : j < k => <<j, k>> \in OpToRel(<, Nat)
    BY <1>1, <1>2 DEF OpToRel
  <2> QED BY <1>2, <2>1
<1>4. PICK i \in S : k = n - i
  BY <1>2
<1>5. \A j \in S : i >= j
  BY <1>3, <1>4
<1> QED BY <1>4, <1>5 DEF Max

\* What is saved for an account is decoded from its last write.
LEMMA SavedBalance ==
    ASSUME NEW b \in EntityIds, NEW a \in Written(b), \A v \in ToSet(Writes(b)) : Decodes(v)
    PROVE  /\ LET v == Writes(b)[Max(WritesOf(b, a))] IN
                  LastBalance(b, a) = IF v.digits = 140 THEN Misread ELSE v.balance
           /\ LastBalance(b, a) \in Balance /\ a \in Accounts
<1>1. Writes(b) \in Seq(Write) /\ \A v \in ToSet(Writes(b)) : v.digits = 2 => v.balance = 0
  BY TraceAssumption DEF Writes
<1>2. PICK ws \in Seq(Write) : ws = Writes(b)
  BY <1>1
<1>3. DOMAIN ws = 1..Len(ws) /\ Len(ws) \in Nat /\ \A k \in 1..Len(ws) : ws[k] \in Write
  BY <1>2
<1>4. PICK k \in DOMAIN ws : ws[k].account = a
  BY <1>2 DEF Written, ToSet
<1>5. WritesOf(b, a) \subseteq 1..Len(ws) /\ k \in WritesOf(b, a)
  BY <1>2, <1>3, <1>4 DEF WritesOf
<1>6. Max(WritesOf(b, a)) \in WritesOf(b, a)
  BY <1>3, <1>5, LastOf
<1>7. PICK v : v = Writes(b)[Max(WritesOf(b, a))]
  OBVIOUS
<1>8. v \in ToSet(Writes(b)) /\ v \in Write
  BY <1>2, <1>3, <1>6, <1>7 DEF WritesOf, ToSet
<1>9. LastBalance(b, a) = Decode(v)
  BY <1>7 DEF LastBalance
<1>10. a \in Accounts
  BY <1>3, <1>4 DEF Write
<1> QED BY <1>1, <1>7, <1>8, <1>9, <1>10, DecodedBalance

-----------------------------------------------------------------------------
(***************************************************************************)
(* The framework's part.  A step is one the framework knows, one that      *)
(* publishes a message, the end of a task that cannot be traced,           *)
(* addProcessingTask's insert of a row whose message is not due yet, or    *)
(* the block processor's exit.                                             *)
(***************************************************************************)
PublishStep == UNCHANGED Others /\ queue' \in [Message -> Nat]

LEMMA PublishType ==
    ASSUME TaskTypeOK, NEW m, Publish(m)
    PROVE  queue' \in [Message -> Nat]
<1>1. queue \in [Message -> Nat]
  BY DEF TaskTypeOK, TableTypeOK
<1>2. [queue EXCEPT ![m] = @ + 1] \in [Message -> Nat]
  BY <1>1, CountOneMore
<1> QED BY <1>1, <1>2 DEF Publish

LEMMA CallSteps ==
    ASSUME TaskTypeOK, NEW r \in Calls,
           \/ ReadPage(r) \/ SendRecord(r) \/ EndRestart(r) \/ CheckTask(r) \/ SendOne(r)
           \/ RestartByMonitoring(r) \/ RestartByRest(r) \/ RestartOne(r) \/ RestartRange(r)
    PROVE  PublishStep
<1>1. queue \in [Message -> Nat]
  BY DEF TaskTypeOK, TableTypeOK
<1>2. CASE SendRecord(r)
  <2>1. PICK i : Publish(MessageOf(i))
    BY <1>2 DEF SendRecord
  <2> QED BY <1>2, <2>1, PublishType DEF SendRecord, PublishStep
<1>3. CASE SendOne(r)
  <2>1. queue' \in [Message -> Nat]
    BY <1>3, PublishType DEF SendOne
  <2> QED BY <1>3, <2>1 DEF SendOne, PublishStep
<1>4. CASE ReadPage(r) \/ EndRestart(r) \/ CheckTask(r)
  BY <1>1, <1>4 DEF ReadPage, EndRestart, CheckTask, PublishStep
<1>5. CASE RestartByMonitoring(r) \/ RestartByRest(r) \/ RestartOne(r) \/ RestartRange(r)
  BY <1>1, <1>5 DEF RestartByMonitoring, RestartByRest, RestartOne, RestartRange, StartRestart, PublishStep
<1> QED BY <1>2, <1>3, <1>4, <1>5

LEMMA ProcessorSteps ==
    ASSUME NEW c \in Consumers,
           Consumer(c) \/ Deliver(c) \/ FailBalances(c) \/ CrashBalances(c) \/ Disconnect(c)
    PROVE  \/ TaskNext \/ UNCHANGED taskVars
           \/ CannotTrace(c)
<1>1. CASE Consumer(c)
  BY <1>1 DEF Consumer, TraceBlock, SaveBalance, FinishBalances, CommitBalances, TaskNext
<1>2. CASE Deliver(c) \/ FailBalances(c) \/ CrashBalances(c) \/ Disconnect(c)
  BY <1>2 DEF Deliver, FailBalances, CrashBalances, Disconnect, TaskNext
<1> QED BY <1>1, <1>2

LEMMA StepKinds ==
    ASSUME TaskTypeOK, [Next]_vars
    PROVE  \/ PublishStep
           \/ \E r \in Calls : InsertMissing(r)
           \/ \E c \in Consumers : CannotTrace(c)
           \/ LoseNew
           \/ [TaskNext]_taskVars
<1>1. ASSUME NEW r \in Calls, RestStep(r) \/ RestartByMonitoring(r) \/ RestartByRest(r)
                                          \/ RestartOne(r) \/ RestartRange(r)
      PROVE  PublishStep \/ InsertMissing(r)
  BY <1>1, CallSteps DEF RestStep
<1>2. ASSUME NEW b \in EntityIds, StoreBlock(b) \/ InsertBalancesTask(b) PROVE [TaskNext]_taskVars
  BY <1>2 DEF StoreBlock, InsertBalancesTask, TaskNext, ListenerStep
<1>3. ASSUME SendNew PROVE TaskNext
  BY <1>3 DEF SendNew, TaskNext, ListenerStep
<1>4. ASSUME NEW c \in Consumers,
             Consumer(c) \/ Deliver(c) \/ FailBalances(c) \/ CrashBalances(c) \/ Disconnect(c)
      PROVE  [TaskNext]_taskVars \/ CannotTrace(c)
  BY <1>4, ProcessorSteps
<1>5. CASE UNCHANGED vars
  BY <1>5 DEF vars
<1> QED BY <1>1, <1>2, <1>3, <1>4, <1>5 DEF Next

LEMMA CannotTraceRuns ==
    ASSUME NEW c \in Consumers, CannotTrace(c)
    PROVE  pc[c] # "idle"
BY DEF CannotTrace, Works

\* A task that cannot be traced frees its rows.
LEMMA CannotTraceFrame ==
    ASSUME TaskTypeOK, LockInv, NEW c \in Consumers, CannotTrace(c)
    PROVE  TaskTypeOK' /\ LockInv'
<1> USE DEF TaskTypeOK
<1>1. /\ UNCHANGED <<rows, outbox, queue, msg, delivery, faults>>
      /\ pc' = [pc EXCEPT ![c] = "ack"] /\ ReleaseLocks(c)
  BY DEF CannotTrace
<1>2. TaskTypeOK'
  <2>1. TableTypeOK'
    BY <1>1 DEF TableTypeOK
  <2>2. /\ pc' \in [Consumers -> Handler] /\ snap' \in [Consumers -> SUBSET RowId]
        /\ held' \in [Consumers -> SUBSET RowId]
    BY <1>1 DEF ReleaseLocks, HandlerTypeOK, Handler
  <2>3. \A d \in Consumers : pc'[d] # "idle" => msg'[d] \in Message
    BY <1>1, CannotTraceRuns DEF HandlerTypeOK
  <2>4. HandlerTypeOK'
    BY <1>1, <2>2, <2>3 DEF HandlerTypeOK
  <2> QED BY <2>1, <2>4
<1>3. \A a : RowsOf(a)' = RowsOf(a)
  BY <1>1 DEF RowsOf, RowIds
<1>4. /\ pc'[c] \notin Locking /\ pc'[c] \notin Running
      /\ held'[c] = {} /\ snap'[c] = {} /\ msg' = msg
  BY <1>1 DEF ReleaseLocks, HandlerTypeOK, Locking, Running
<1>5. \A d \in Consumers \ {c} : pc'[d] = pc[d] /\ snap'[d] = snap[d] /\ held'[d] = held[d]
  BY <1>1 DEF ReleaseLocks, HandlerTypeOK
<1>6. LockInv'
  BY <1>3, <1>4, <1>5, OtherHandlers
<1> QED BY <1>2, <1>6

\* Types of the calls, as far as the framework's lemmas need them.
CallTypeOK ==
    /\ call \in [Calls -> Call] /\ unsent \in [Calls -> SUBSET RowId]
    /\ \A r \in Calls : call[r].page \union unsent[r] \union ({call[r].row} \ {NoRow}) \subseteq RowIds

LEMMA FrameworkKept ==
    ASSUME TaskTypeOK, LockInv, CallTypeOK, [Next]_vars
    PROVE  TaskTypeOK' /\ LockInv'
<1> USE DEF TaskTypeOK
<1>1. CASE PublishStep
  <2>1. UNCHANGED <<rows, outbox, consumerVars, faults>> /\ queue' \in [Message -> Nat]
    BY <1>1 DEF PublishStep, Others
  <2>2. TaskTypeOK'
    BY <2>1 DEF consumerVars, TableTypeOK, HandlerTypeOK
  <2> QED BY <2>1, <2>2, LocksUntouched DEF consumerVars
<1>2. ASSUME NEW r \in Calls, InsertMissing(r) PROVE TaskTypeOK' /\ LockInv'
  <2>1. PICK b : b = call[r].last
    OBVIOUS
  <2>2. b \in EntityIds /\ InsertRow(b) /\ UNCHANGED <<outbox, queue, consumerVars, faults>>
    BY <1>2, <2>1 DEF InsertMissing, CallTypeOK, Call
  <2>3. rows' \in Seq(Row) /\ Len(rows') <= MaxRows
    BY <2>2, InsertRowType
  <2>4. TaskTypeOK'
    BY <2>2, <2>3 DEF consumerVars, TableTypeOK, HandlerTypeOK
  <2>5. LockInv'
    BY <2>2, InsertRowLocks DEF consumerVars
  <2> QED BY <2>4, <2>5
<1>3. ASSUME NEW c \in Consumers, CannotTrace(c) PROVE TaskTypeOK' /\ LockInv'
  BY <1>3, CannotTraceFrame
<1>4. CASE LoseNew
  <2>1. /\ UNCHANGED <<rows, queue, consumerVars>> /\ outbox' = {}
        /\ faults' = [faults EXCEPT !["listener"] = @ + 1]
    BY <1>4 DEF LoseNew, Fault
  <2>2. faults' \in [FaultKind -> Nat]
    BY <2>1, CountOneMore DEF TableTypeOK
  <2>3. TaskTypeOK'
    BY <2>1, <2>2 DEF consumerVars, TableTypeOK, HandlerTypeOK
  <2> QED BY <2>1, <2>3, LocksUntouched DEF consumerVars
<1>5. CASE [TaskNext]_taskVars
  BY <1>5, TaskTypeStep, LockInvStep
<1> QED BY <1>1, <1>2, <1>3, <1>4, <1>5, StepKinds

\* What the block processor does concerns neither the calls nor the handlers.
LEMMA SourceSteps ==
    ASSUME NEW b \in EntityIds, StoreBlock(b) \/ InsertBalancesTask(b)
    PROVE  UNCHANGED <<call, unsent, requests, pc, msg, balances, work>>
BY DEF StoreBlock, InsertBalancesTask, InsertTask, taskVars, consumerVars, balanceVars

LEMMA ExitStep ==
    ASSUME LoseNew
    PROVE  UNCHANGED <<rows, call, unsent, requests, pc, msg, blocks, balances, work>>
BY DEF LoseNew, consumerVars, balanceVars

-----------------------------------------------------------------------------
(* The table of tasks only grows, and a processed row stays processed.     *)

RowsGrow ==
    /\ RowIds \subseteq RowIds'
    /\ \A i \in RowIds : /\ rows'[i].entity_id = rows[i].entity_id
                         /\ rows[i].status = "processed" => rows'[i].status = "processed"

LEMMA InsertGrows ==
    ASSUME TableTypeOK, NEW b \in EntityIds, InsertRow(b)
    PROVE  RowsGrow /\ \A i \in RowIds' \ RowIds : rows'[i].status = "not_processed"
<1> DEFINE r == [entity_id |-> b, status |-> "not_processed"]
<1>1. RowIds' = RowIds \union {Len(rows) + 1} /\ \A j \in RowIds : rows'[j] = rows[j]
  BY InsertedRow
<1>2. rows'[Len(rows) + 1] = r
  BY InsertedRow
<1>3. r.status = "not_processed"
  OBVIOUS
<1> HIDE DEF r
<1>4. RowsGrow
  BY <1>1 DEF RowsGrow
<1> QED BY <1>1, <1>2, <1>3, <1>4

LEMMA CommitGrows ==
    ASSUME TableTypeOK, NEW c \in Consumers, CommitTask(c)
    PROVE  /\ RowsGrow /\ RowIds' = RowIds
           /\ \A i \in RowIds : i # msg[c].collect_uid => rows'[i] = rows[i]
<1>1. /\ Len(rows') = Len(rows)
      /\ \A j \in RowIds : /\ rows'[j].entity_id = rows[j].entity_id
                           /\ j # msg[c].collect_uid => rows'[j] = rows[j]
                           /\ j = msg[c].collect_uid => rows'[j].status = "processed"
  BY MarkRow DEF CommitTask, TableTypeOK
<1>2. RowIds' = RowIds
  BY <1>1 DEF RowIds
<1> QED BY <1>1, <1>2 DEF RowsGrow

\* A row changes only when it is inserted and when its task commits.
LEMMA RowsStep ==
    ASSUME TaskTypeOK, CallTypeOK, [Next]_vars
    PROVE  \/ rows' = rows
           \/ \E b \in EntityIds : InsertRow(b) /\ UNCHANGED <<pc, msg, balances, work>>
           \/ \E c \in Consumers : CommitBalances(c)
<1>1. ASSUME NEW r \in Calls, RestStep(r) PROVE rows' = rows \/ InsertMissing(r)
  BY <1>1 DEF RestStep, ReadPage, SendRecord, EndRestart, CheckTask, SendOne, Others
<1>2. ASSUME NEW r \in Calls, RestartByMonitoring(r) \/ RestartByRest(r) \/ RestartOne(r) \/ RestartRange(r)
      PROVE  rows' = rows
  BY <1>2 DEF RestartByMonitoring, RestartByRest, RestartOne, RestartRange, StartRestart, Others
<1>3. ASSUME NEW r \in Calls, InsertMissing(r)
      PROVE  \E b \in EntityIds : InsertRow(b) /\ UNCHANGED <<pc, msg, balances, work>>
  BY <1>3 DEF InsertMissing, CallTypeOK, Call, consumerVars, balanceVars
<1>4. ASSUME NEW b \in EntityIds, StoreBlock(b) \/ InsertBalancesTask(b)
      PROVE  rows' = rows \/ (InsertRow(b) /\ UNCHANGED <<pc, msg, balances, work>>)
  BY <1>4, SourceSteps DEF StoreBlock, InsertBalancesTask, InsertTask, taskVars
<1>5. ASSUME SendNew \/ LoseNew PROVE rows' = rows
  BY <1>5, ExitStep DEF SendNew, SendTask
<1>6. ASSUME NEW c \in Consumers, Consumer(c) PROVE rows' = rows \/ CommitBalances(c)
  BY <1>6 DEF Consumer, HandlerStep, IncreaseAttempts, SelectRows, LockRow, StartTask, SkipTask, Ack,
              TraceBlock, CannotTrace, SaveBalance, FinishBalances, FinishTask, taskVars
<1>7. ASSUME NEW c \in Consumers, Deliver(c) \/ FailBalances(c) \/ CrashBalances(c) \/ Disconnect(c)
      PROVE  rows' = rows
  BY <1>7 DEF Deliver, Receive, FailBalances, FailTask, CrashBalances, ConsumerCrash, Disconnect,
              LoseChannel
<1>8. CASE UNCHANGED vars
  BY <1>8 DEF vars, taskVars
<1> QED BY <1>1, <1>2, <1>3, <1>4, <1>5, <1>6, <1>7, <1>8 DEF Next

LEMMA RowsGrowStep ==
    ASSUME TaskTypeOK, CallTypeOK, [Next]_vars
    PROVE  RowsGrow
<1>1. CASE rows' = rows
  BY <1>1 DEF RowsGrow, RowIds
<1>2. CASE \E b \in EntityIds : InsertRow(b)
  BY <1>2, InsertGrows DEF TaskTypeOK
<1>3. CASE \E c \in Consumers : CommitBalances(c)
  BY <1>3, CommitGrows DEF TaskTypeOK, CommitBalances
<1> QED BY <1>1, <1>2, <1>3, RowsStep

LEMMA GrownRows ==
    ASSUME TaskTypeOK, RowsGrow
    PROVE  /\ \A b : RowsOf(b) \subseteq RowsOf(b)'
           /\ Unprocessed' \intersect RowIds \subseteq Unprocessed
<1>1. \A i \in RowIds : rows[i].status \in {"not_processed", "processed"}
  <2>1. \A i \in RowIds : rows[i] \in Row
    BY DEF TaskTypeOK, TableTypeOK, RowIds
  <2> QED BY <2>1 DEF Row, Status
<1> QED BY <1>1 DEF RowsGrow, RowsOf, Unprocessed
-----------------------------------------------------------------------------
(* The calls of the listener.                                              *)

\* A step of call r leaves it in state s, with the rows u still to send.
CallBecomes(r, s, u) ==
    /\ call' = [call EXCEPT ![r] = s] /\ s \in Call
    /\ unsent' = [unsent EXCEPT ![r] = u]
    /\ s.page \union u \union ({s.row} \ {NoRow}) \subseteq RowIds'

LEMMA RowIdsType == TaskTypeOK => RowIds \subseteq RowId
BY BoundsAssumption DEF TaskTypeOK, TableTypeOK, RowIds, RowId

LEMMA CallBecomesType ==
    ASSUME CallTypeOK, RowIds \subseteq RowIds', RowIds' \subseteq RowId,
           NEW r \in Calls, NEW s, NEW u, CallBecomes(r, s, u)
    PROVE  CallTypeOK'
<1>1. call' \in [Calls -> Call] /\ unsent' \in [Calls -> SUBSET RowId]
  <2>1. u \in SUBSET RowId
    BY DEF CallBecomes
  <2> QED BY <2>1 DEF CallBecomes, CallTypeOK
<1>2. call'[r] = s /\ unsent'[r] = u
  BY DEF CallBecomes, CallTypeOK
<1>3. \A q \in Calls \ {r} : call'[q] = call[q] /\ unsent'[q] = unsent[q]
  BY DEF CallBecomes, CallTypeOK
<1>4. ASSUME NEW q \in Calls
      PROVE  call'[q].page \union unsent'[q] \union ({call'[q].row} \ {NoRow}) \subseteq RowIds'
  <2>1. CASE q = r
    BY <1>2, <2>1 DEF CallBecomes
  <2>2. CASE q # r
    BY <1>3, <2>2 DEF CallTypeOK
  <2> QED BY <2>1, <2>2
<1> QED BY <1>1, <1>4 DEF CallTypeOK

LEMMA NoRowType == NoRow \in Uid
BY BoundsAssumption DEF Uid, NoRow

LEMMA NothingType == Nothing \in Call /\ Nothing.page = {} /\ Nothing.row = NoRow
BY RestAssumption, NoRowType DEF Nothing, Call

LEMMA NextOfRangeType ==
    ASSUME CallTypeOK, NEW r \in Calls
    PROVE  /\ NextOfRange(r) \in Call /\ NextOfRange(r).row = NoRow
           /\ NextOfRange(r).page \subseteq call[r].page
<1>1. PICK s \in Call : s = call[r]
  BY DEF CallTypeOK
<1>2. CASE s.last < s.to
  <2>1. s.last \in EntityIds /\ s.to \in EntityIds /\ s.last \in Nat /\ s.to \in Nat
    BY RestAssumption DEF Call
  <2>2. s.last + 1 \in s.last..s.to
    BY <1>2, <2>1
  <2>3. s.last..s.to \subseteq EntityIds
    BY <2>1, RestAssumption
  <2>4. s.last + 1 \in EntityIds
    BY <2>2, <2>3
  <2>5. PICK l \in EntityIds : l = s.last + 1
    BY <2>4
  <2>6. [s EXCEPT !.pc = "check", !.last = l, !.row = NoRow] \in Call
    BY NoRowType DEF Call
  <2>7. NextOfRange(r) = [s EXCEPT !.pc = "check", !.last = l, !.row = NoRow]
    BY <1>1, <1>2, <2>5 DEF NextOfRange
  <2>8. [s EXCEPT !.pc = "check", !.last = l, !.row = NoRow].row = NoRow
    BY DEF Call
  <2>9. [s EXCEPT !.pc = "check", !.last = l, !.row = NoRow].page = s.page
    BY DEF Call
  <2> QED BY <1>1, <2>6, <2>7, <2>8, <2>9
<1>3. CASE ~ (s.last < s.to)
  <2>1. NextOfRange(r) = Nothing
    BY <1>1, <1>3 DEF NextOfRange
  <2> QED BY <2>1, NothingType
<1> QED BY <1>2, <1>3

LEMMA CallTypeStep ==
    ASSUME TaskTypeOK, TaskTypeOK', CallTypeOK, [Next]_vars
    PROVE  CallTypeOK'
<1>1. RowIds \subseteq RowIds' /\ RowIds' \subseteq RowId /\ RowIds \subseteq RowId
  <2>1. RowIds \subseteq RowIds'
    BY RowsGrowStep DEF RowsGrow
  <2>2. RowIds' \subseteq RowId
    <3>1. Len(rows') \in Nat /\ Len(rows') <= MaxRows
      BY DEF TaskTypeOK, TableTypeOK
    <3> QED BY <3>1, BoundsAssumption DEF RowIds, RowId
  <2> QED BY <2>1, <2>2, RowIdsType
<1>2. ASSUME NEW r \in Calls, RestStep(r) \/ RestartByMonitoring(r) \/ RestartByRest(r)
                              \/ RestartOne(r) \/ RestartRange(r)
      PROVE  CallTypeOK'
  <2>1. PICK s \in Call : s = call[r]
    BY DEF CallTypeOK
  <2>2. /\ call[r] \in Call /\ call[r].page \subseteq RowIds /\ unsent[r] \subseteq RowIds
        /\ {call[r].row} \ {NoRow} \subseteq RowIds
    BY DEF CallTypeOK
  <2>3. unsent = [unsent EXCEPT ![r] = unsent[r]]
    BY DEF CallTypeOK
  <2>4. \E t, u : CallBecomes(r, t, u)
    <3>1. CASE StartRestart(r)
      <4>1. [Nothing EXCEPT !.pc = "read"] \in Call
        BY NothingType DEF Call
      <4>2. [Nothing EXCEPT !.pc = "read"].page = {} /\ [Nothing EXCEPT !.pc = "read"].row = NoRow
        BY DEF Nothing
      <4>3. Unprocessed \subseteq RowIds
        BY DEF Unprocessed
      <4>4. CallBecomes(r, [Nothing EXCEPT !.pc = "read"], Unprocessed)
        BY <1>1, <3>1, <4>1, <4>2, <4>3 DEF StartRestart, CallBecomes
      <4> QED BY <4>4
    <3>2. CASE ReadPage(r)
      <4>1. PICK p \in Pages(r) : call' = [call EXCEPT ![r].pc = "send", ![r].page = p]
        BY <3>2 DEF ReadPage
      <4>2. p \subseteq RowIds
        BY DEF Pages, kSubset, AfterLast, Unprocessed
      <4>3. call' = [call EXCEPT ![r] = [s EXCEPT !.pc = "send", !.page = p]]
        BY <2>1, <4>1 DEF CallTypeOK
      <4>4. [s EXCEPT !.pc = "send", !.page = p] \in Call
        BY <1>1, <4>2 DEF Call
      <4>5. [s EXCEPT !.pc = "send", !.page = p].page = p /\ [s EXCEPT !.pc = "send", !.page = p].row = s.row
        BY DEF Call
      <4>6. unsent' = unsent
        BY <3>2 DEF ReadPage
      <4>7. CallBecomes(r, [s EXCEPT !.pc = "send", !.page = p], unsent[r])
        BY <1>1, <2>1, <2>2, <2>3, <4>2, <4>3, <4>4, <4>5, <4>6 DEF CallBecomes
      <4> QED BY <4>7
    <3>3. CASE EndRestart(r)
      <4>1. CallBecomes(r, Nothing, {})
        BY <3>3, NothingType DEF EndRestart, CallBecomes
      <4> QED BY <4>1
    <3>4. CASE SendRecord(r)
      <4>1. PICK i \in call[r].page :
               /\ call' = [call EXCEPT ![r].page = @ \ {i}, ![r].last = MovedOn(r, i),
                                       ![r].pc = IF call[r].page = {i} THEN "read" ELSE "send"]
               /\ unsent' = [unsent EXCEPT ![r] = @ \ {i}]
        BY <3>4 DEF SendRecord
      <4>2. PICK l \in EntityIds : l = MovedOn(r, i)
        <5>1. i \in RowIds /\ rows[i] \in Row
          BY <2>2 DEF TaskTypeOK, TableTypeOK, RowIds
        <5> QED BY <5>1 DEF MovedOn, Row
      <4>3. PICK k \in {"read", "send"} : k = IF call[r].page = {i} THEN "read" ELSE "send"
        OBVIOUS
      <4> DEFINE t == [s EXCEPT !.page = s.page \ {i}, !.last = l, !.pc = k]
      <4>4. call' = [call EXCEPT ![r] = t]
        BY <2>1, <4>1, <4>2, <4>3 DEF CallTypeOK
      <4>5. t \in Call /\ t.page = s.page \ {i} /\ t.row = s.row
        BY DEF Call
      <4>6. unsent' = [unsent EXCEPT ![r] = unsent[r] \ {i}]
        BY <4>1
      <4> HIDE DEF t
      <4>7. CallBecomes(r, t, unsent[r] \ {i})
        BY <1>1, <2>1, <2>2, <4>4, <4>5, <4>6 DEF CallBecomes
      <4> QED BY <4>7
    <3>5. CASE RestartOne(r)
      <4>1. PICK i \in Unprocessed :
               call' = [call EXCEPT ![r].pc = "message", ![r].row = i,
                                    ![r].last = rows[i].entity_id, ![r].to = rows[i].entity_id]
        BY <3>5 DEF RestartOne
      <4>2. i \in RowIds /\ i \in Uid
        BY <1>1 DEF Unprocessed, RowId, Uid
      <4>3. PICK l \in EntityIds : l = rows[i].entity_id
        <5>1. rows[i] \in Row
          BY <4>2 DEF TaskTypeOK, TableTypeOK, RowIds
        <5> QED BY <5>1 DEF Row
      <4> DEFINE t == [s EXCEPT !.pc = "message", !.row = i, !.last = l, !.to = l]
      <4>4. call' = [call EXCEPT ![r] = t]
        BY <2>1, <4>1, <4>3 DEF CallTypeOK
      <4>5. t \in Call /\ t.page = s.page /\ t.row = i
        BY <4>2 DEF Call
      <4>6. unsent' = unsent
        BY <3>5 DEF RestartOne
      <4> HIDE DEF t
      <4>7. CallBecomes(r, t, unsent[r])
        BY <1>1, <2>1, <2>2, <2>3, <4>2, <4>4, <4>5, <4>6 DEF CallBecomes
      <4> QED BY <4>7
    <3>6. CASE RestartRange(r)
      <4>1. PICK from \in EntityIds, to \in EntityIds :
               call' = [call EXCEPT ![r].pc = "check", ![r].last = from, ![r].to = to]
        BY <3>6, RestAssumption DEF RestartRange
      <4> DEFINE t == [s EXCEPT !.pc = "check", !.last = from, !.to = to]
      <4>2. call' = [call EXCEPT ![r] = t]
        BY <2>1, <4>1 DEF CallTypeOK
      <4>3. t \in Call /\ t.page = s.page /\ t.row = s.row
        BY DEF Call
      <4>4. unsent' = unsent
        BY <3>6 DEF RestartRange
      <4> HIDE DEF t
      <4>5. CallBecomes(r, t, unsent[r])
        BY <1>1, <2>1, <2>2, <2>3, <4>2, <4>3, <4>4 DEF CallBecomes
      <4> QED BY <4>5
    <3>7. CASE SendOne(r) \/ (CheckTask(r) /\ call' = [call EXCEPT ![r] = NextOfRange(r)])
      <4>1. call' = [call EXCEPT ![r] = NextOfRange(r)] /\ unsent' = unsent
        BY <3>7 DEF SendOne, CheckTask
      <4>2. CallBecomes(r, NextOfRange(r), unsent[r])
        BY <1>1, <2>2, <2>3, <4>1, NextOfRangeType DEF CallBecomes
      <4> QED BY <4>2
    <3>8. CASE CheckTask(r) /\ call' # [call EXCEPT ![r] = NextOfRange(r)]
      <4>1. PICK k \in {"insert", "message"} : call' = [call EXCEPT ![r].pc = k]
        BY <3>8 DEF CheckTask
      <4>2. call' = [call EXCEPT ![r] = [s EXCEPT !.pc = k]]
        BY <2>1, <4>1 DEF CallTypeOK
      <4>3. [s EXCEPT !.pc = k] \in Call /\ [s EXCEPT !.pc = k].page = s.page /\ [s EXCEPT !.pc = k].row = s.row
        BY DEF Call
      <4>4. unsent' = unsent
        BY <3>8 DEF CheckTask
      <4>5. CallBecomes(r, [s EXCEPT !.pc = k], unsent[r])
        BY <1>1, <2>1, <2>2, <2>3, <4>2, <4>3, <4>4 DEF CallBecomes
      <4> QED BY <4>5
    <3>9. CASE InsertMissing(r)
      <4>1. s.last \in EntityIds /\ InsertRow(s.last)
        BY <2>1, <3>9 DEF InsertMissing, Call
      <4>2. Len(rows) + 1 \in RowIds' /\ Len(rows) + 1 \in RowId
        BY <4>1, InsertedRow, InsertRowType DEF TaskTypeOK
      <4>3. PICK n : n = Len(rows) + 1
        OBVIOUS
      <4>4. n \in Uid
        BY <4>2, <4>3 DEF RowId, Uid
      <4> DEFINE t == [s EXCEPT !.pc = "message", !.row = n]
      <4>5. call' = [call EXCEPT ![r] = t]
        BY <2>1, <3>9, <4>3 DEF InsertMissing, CallTypeOK
      <4>6. t \in Call /\ t.page = s.page /\ t.row = n
        BY <4>4 DEF Call
      <4>7. unsent' = unsent
        BY <3>9 DEF InsertMissing
      <4> HIDE DEF t
      <4>8. CallBecomes(r, t, unsent[r])
        BY <1>1, <2>1, <2>2, <2>3, <4>2, <4>3, <4>5, <4>6, <4>7 DEF CallBecomes
      <4> QED BY <4>8
    <3> QED
      BY <1>2, <3>1, <3>2, <3>3, <3>4, <3>5, <3>6, <3>7, <3>8, <3>9
      DEF RestStep, RestartByMonitoring, RestartByRest
  <2> QED BY <1>1, <2>4, CallBecomesType
<1>3. CASE UNCHANGED <<call, unsent>>
  BY <1>1, <1>3 DEF CallTypeOK
<1>4. ASSUME (\E b \in EntityIds : StoreBlock(b) \/ InsertBalancesTask(b)) \/ SendNew \/ LoseNew
      PROVE  UNCHANGED <<call, unsent>>
  BY <1>4, SourceSteps, ExitStep DEF SendNew, restVars
<1>5. CASE UNCHANGED vars
  BY <1>3, <1>5 DEF vars, restVars
<1> QED BY <1>2, <1>3, <1>4, <1>5 DEF Next, restVars

LEMMA RequestsStep ==
    ASSUME TaskTypeOK, requests \in 0..MaxIncidents, [Next]_vars
    PROVE  requests' \in 0..MaxIncidents
<1>1. CASE Asked
  <2>1. /\ faults["crash"] \in Nat /\ faults["channel"] \in Nat
        /\ faults["failure"] \in Nat /\ faults["listener"] \in Nat
    BY DEF TaskTypeOK, TableTypeOK, FaultKind
  <2>2. PICK n \in Nat : n = faults["crash"] + faults["channel"] + faults["failure"] + faults["listener"]
    BY <2>1
  <2>3. requests + n < MaxIncidents /\ requests' = requests + 1
    BY <1>1, <2>1, <2>2, RestAssumption DEF Asked, Incidents
  <2> QED BY <2>3, RestAssumption
<1>2. ASSUME NEW r \in Calls, RestStep(r) \/ RestartByMonitoring(r) PROVE requests' = requests
  BY <1>2 DEF RestStep, ReadPage, SendRecord, EndRestart, CheckTask, InsertMissing, SendOne,
              RestartByMonitoring
<1>3. ASSUME NEW r \in Calls, RestartByRest(r) \/ RestartOne(r) \/ RestartRange(r) PROVE Asked
  BY <1>3 DEF RestartByRest, RestartOne, RestartRange
<1>4. ASSUME (\E b \in EntityIds : StoreBlock(b) \/ InsertBalancesTask(b)) \/ SendNew \/ LoseNew
      PROVE  requests' = requests
  BY <1>4, SourceSteps, ExitStep DEF SendNew, restVars
<1>5. CASE UNCHANGED vars
  BY <1>5 DEF vars, restVars
<1> QED BY <1>1, <1>2, <1>3, <1>4, <1>5 DEF Next, restVars

\* A callback is that of a stored block.
LEMMA CreatingStep ==
    ASSUME TaskTypeOK, creating \subseteq blocks, [Next]_vars
    PROVE  (creating \subseteq blocks)'
<1>1. ASSUME NEW r \in Calls, RestStep(r) \/ RestartByMonitoring(r) \/ RestartByRest(r)
                              \/ RestartOne(r) \/ RestartRange(r)
      PROVE  UNCHANGED <<blocks, creating>>
  <2>1. PublishStep \/ InsertMissing(r)
    BY <1>1, CallSteps DEF RestStep
  <2> QED BY <2>1 DEF PublishStep, InsertMissing, Others, balanceVars
<1>2. ASSUME NEW b \in EntityIds, StoreBlock(b) \/ InsertBalancesTask(b)
      PROVE  (creating \subseteq blocks)'
  BY <1>2 DEF StoreBlock, InsertBalancesTask, balanceVars
<1>3. ASSUME SendNew \/ LoseNew PROVE (creating \subseteq blocks)'
  BY <1>3 DEF SendNew, LoseNew, balanceVars, restVars
<1>4. ASSUME NEW c \in Consumers,
             Consumer(c) \/ Deliver(c) \/ FailBalances(c) \/ CrashBalances(c) \/ Disconnect(c)
      PROVE  blocks' = blocks
  BY <1>4 DEF Consumer, TraceBlock, CannotTrace, SaveBalance, FinishBalances, CommitBalances, Deliver,
              FailBalances, CrashBalances, Disconnect, balanceVars
<1>5. CASE UNCHANGED vars
  BY <1>5 DEF vars, balanceVars, restVars
<1> QED BY <1>1, <1>2, <1>3, <1>4, <1>5 DEF Next, restVars

-----------------------------------------------------------------------------
(***************************************************************************)
(* What the balances table holds.  ProcessedBlockHasBalances is not        *)
(* inductive by itself: a handler that commits must have saved every       *)
(* account (WorkOf), and the row it marks must be of the block it worked   *)
(* on (LockInv).  That a saved balance is the chain's needs the trace to   *)
(* have been decoded before the first save.                                *)
(***************************************************************************)
AllDecode(b) == \A v \in ToSet(Writes(b)) : Decodes(v)

Complete(b) == \A a \in Written(b) : balances[b][a] # NoBalance

KnownWrites ==
    \A b \in EntityIds, a \in Accounts :
        balances[b][a] # NoBalance =>
            a \in Written(b) /\ balances[b][a] = LastBalance(b, a) /\ AllDecode(b)

\* What handler c has done: it saves after it decoded, and is done when all is saved.
WorkOf(c) ==
    LET b == msg[c].entity_id IN
    /\ pc[c] # "run" => work[c].pc = "block"
    /\ work[c].pc = "save" =>
          /\ work[c].todo \subseteq Written(b) /\ AllDecode(b)
          /\ \A a \in Written(b) \ work[c].todo : balances[b][a] # NoBalance
    /\ pc[c] = "done" /\ b # Genesis => Complete(b)

WorkInv == \A c \in Consumers : WorkOf(c)

BalanceInv == KnownWrites /\ WorkInv /\ ProcessedBlockHasBalances

\* Nothing is taken out of the table.
StoredGrows ==
    \A b \in EntityIds, a \in Accounts : balances[b][a] # NoBalance => balances'[b][a] # NoBalance

LEMMA WrittenType == ASSUME NEW b \in EntityIds PROVE Written(b) \subseteq Accounts
<1>1. PICK ws \in Seq(Write) : ws = Writes(b)
  BY TraceAssumption DEF Writes
<1>2. \A v \in ToSet(ws) : v \in Write
  BY <1>1 DEF ToSet
<1> QED BY <1>1, <1>2 DEF Written, Write

\* The bystanders of a step: what they have saved stays.
LEMMA OtherWork ==
    ASSUME StoredGrows, NEW d \in Consumers, WorkOf(d),
           pc'[d] = pc[d], msg'[d] = msg[d], work'[d] = work[d],
           pc[d] # "idle" => msg[d] \in Message, pc[d] # "run" => work[d].pc = "block"
    PROVE  WorkOf(d)'
<1>1. CASE pc[d] = "idle"
  BY <1>1 DEF WorkOf
<1>2. CASE pc[d] # "idle"
  <2>1. PICK b \in EntityIds : b = msg[d].entity_id
    BY <1>2 DEF Message
  <2>2. Written(b) \subseteq Accounts
    BY WrittenType
  <2>3. \A a \in Written(b) : balances[b][a] # NoBalance => balances'[b][a] # NoBalance
    BY <2>2 DEF StoredGrows
  <2>4. Complete(b) => Complete(b)'
    BY <2>3 DEF Complete
  <2> QED BY <2>1, <2>3, <2>4 DEF WorkOf
<1> QED BY <1>1, <1>2

\* A save writes what the chain says, and only that.
LEMMA SaveStep ==
    ASSUME TaskTypeOK, BalanceTypeOK, KnownWrites, NEW c \in Consumers, WorkOf(c), SaveBalance(c)
    PROVE  /\ StoredGrows /\ KnownWrites'
           /\ balances' \in [EntityIds -> [Accounts -> Balance \union {NoBalance}]]
           /\ work' \in [Consumers -> [pc : {"block", "save"}, todo : SUBSET Accounts]]
           /\ WorkOf(c)'
<1>1. pc[c] = "run" /\ work[c].pc = "save" /\ msg[c] \in Message
  BY DEF SaveBalance, Works, TaskTypeOK, HandlerTypeOK
<1>2. PICK b \in EntityIds : b = msg[c].entity_id
  BY <1>1 DEF Message
<1>3. PICK a \in work[c].todo : /\ balances' = [balances EXCEPT ![b][a] = LastBalance(b, a)]
                                /\ work' = [work EXCEPT ![c].todo = @ \ {a}]
  BY <1>2 DEF SaveBalance
<1>4. /\ work[c].todo \subseteq Written(b) /\ AllDecode(b)
      /\ \A e \in Written(b) \ work[c].todo : balances[b][e] # NoBalance
  BY <1>1, <1>2 DEF WorkOf
<1>5. a \in Written(b) /\ a \in Accounts /\ LastBalance(b, a) \in Balance
  BY <1>3, <1>4, SavedBalance DEF AllDecode
<1>6. LastBalance(b, a) # NoBalance
  BY <1>5, NoBalanceAssumption DEF Balance
<1>7. PICK x \in Balance : x = LastBalance(b, a)
  BY <1>5
<1>8. balances' = [balances EXCEPT ![b] = [balances[b] EXCEPT ![a] = x]] /\ balances[b] \in [Accounts -> Balance \union {NoBalance}]
  BY <1>3, <1>7 DEF BalanceTypeOK
<1>9. /\ balances' \in [EntityIds -> [Accounts -> Balance \union {NoBalance}]]
      /\ balances'[b][a] = x
      /\ \A d \in EntityIds, e \in Accounts : d # b \/ e # a => balances'[d][e] = balances[d][e]
  <2>1. [balances[b] EXCEPT ![a] = x] \in [Accounts -> Balance \union {NoBalance}]
    BY <1>8
  <2>2. balances' \in [EntityIds -> [Accounts -> Balance \union {NoBalance}]]
    BY <1>8, <2>1 DEF BalanceTypeOK
  <2>3. balances'[b] = [balances[b] EXCEPT ![a] = x] /\ \A d \in EntityIds \ {b} : balances'[d] = balances[d]
    BY <1>8 DEF BalanceTypeOK
  <2>4. balances'[b][a] = x /\ \A e \in Accounts \ {a} : balances'[b][e] = balances[b][e]
    BY <1>5, <1>8, <2>3
  <2> QED BY <2>2, <2>3, <2>4
<1>10. StoredGrows
  BY <1>6, <1>7, <1>9 DEF StoredGrows
<1>11. KnownWrites'
  <2> SUFFICES ASSUME NEW d \in EntityIds, NEW e \in Accounts, balances'[d][e] # NoBalance
               PROVE  e \in Written(d) /\ balances'[d][e] = LastBalance(d, e) /\ AllDecode(d)
    BY DEF KnownWrites, AllDecode, Written, Writes, LastBalance, WritesOf
  <2>1. CASE d = b /\ e = a
    BY <1>4, <1>5, <1>7, <1>9, <2>1
  <2>2. CASE d # b \/ e # a
    BY <1>9, <2>2 DEF KnownWrites
  <2> QED BY <2>1, <2>2
<1>12. PICK w \in [pc : {"block", "save"}, todo : SUBSET Accounts] : w = work[c]
  BY DEF BalanceTypeOK
<1>13. work' = [work EXCEPT ![c] = [w EXCEPT !.todo = w.todo \ {a}]]
  BY <1>3, <1>12 DEF BalanceTypeOK
<1>14. /\ [w EXCEPT !.todo = w.todo \ {a}] \in [pc : {"block", "save"}, todo : SUBSET Accounts]
       /\ [w EXCEPT !.todo = w.todo \ {a}].todo = w.todo \ {a}
       /\ [w EXCEPT !.todo = w.todo \ {a}].pc = w.pc
  OBVIOUS
<1>15. /\ work' \in [Consumers -> [pc : {"block", "save"}, todo : SUBSET Accounts]]
       /\ work'[c].todo = work[c].todo \ {a} /\ work'[c].pc = "save"
  BY <1>1, <1>12, <1>13, <1>14 DEF BalanceTypeOK
<1>16. UNCHANGED <<pc, msg>>
  BY DEF SaveBalance, taskVars, consumerVars
<1>17. \A e \in Written(b) \ (work[c].todo \ {a}) : balances'[b][e] # NoBalance
  BY <1>4, <1>6, <1>7, <1>9, <1>10, WrittenType DEF StoredGrows
<1>18. WorkOf(c)'
  BY <1>1, <1>2, <1>4, <1>15, <1>16, <1>17 DEF WorkOf, AllDecode, Written, Writes
<1> QED BY <1>9, <1>10, <1>11, <1>15, <1>18

\* Every other step leaves the balances alone.  The handler that moves has no work in
\* progress before it is handed its task and after it is done with it.
LEMMA ProcessorWork ==
    ASSUME TaskTypeOK, BalanceTypeOK, NEW c \in Consumers, WorkOf(c), ~ SaveBalance(c),
           Consumer(c) \/ Deliver(c) \/ FailBalances(c) \/ CrashBalances(c) \/ Disconnect(c)
    PROVE  /\ balances' = balances /\ blocks' = blocks
           /\ work' \in [Consumers -> [pc : {"block", "save"}, todo : SUBSET Accounts]]
           /\ \A d \in Consumers \ {c} : pc'[d] = pc[d] /\ msg'[d] = msg[d] /\ work'[d] = work[d]
           /\ WorkOf(c)'
<1> USE DEF TaskTypeOK
<1>1. /\ pc \in [Consumers -> Handler] /\ msg \in [Consumers -> Message \union {NoMessage}]
      /\ work \in [Consumers -> [pc : {"block", "save"}, todo : SUBSET Accounts]]
      /\ pc[c] # "idle" => msg[c] \in Message
  BY DEF HandlerTypeOK, BalanceTypeOK
<1>2. NoWork \in [pc : {"block", "save"}, todo : SUBSET Accounts] /\ NoWork.pc = "block"
  BY DEF NoWork
<1>3. CASE HandlerStep(c) /\ UNCHANGED balanceVars
  <2>1. /\ pc'[c] # "done" /\ pc[c] # "run"
        /\ \A d \in Consumers \ {c} : pc'[d] = pc[d] /\ msg'[d] = msg[d]
    BY <1>1, <1>3 DEF HandlerStep, IncreaseAttempts, SelectRows, LockRow, StartTask, SkipTask, Ack
  <2>2. UNCHANGED <<blocks, balances, work>>
    BY <1>3 DEF balanceVars
  <2> QED BY <1>1, <2>1, <2>2 DEF WorkOf
<1>4. CASE Deliver(c)
  <2>1. /\ pc'[c] # "done" /\ pc[c] # "run"
        /\ \A d \in Consumers \ {c} : pc'[d] = pc[d] /\ msg'[d] = msg[d]
    BY <1>1, <1>4 DEF Deliver, Receive
  <2>2. UNCHANGED <<blocks, balances, work>>
    BY <1>4 DEF Deliver, balanceVars
  <2> QED BY <1>1, <2>1, <2>2 DEF WorkOf
<1>5. CASE TraceBlock(c)
  <2>1. PICK b \in EntityIds : b = msg[c].entity_id
    BY <1>1, <1>5 DEF TraceBlock, Works, Message
  <2>2. /\ pc[c] = "run" /\ AllDecode(b) /\ UNCHANGED <<pc, msg, blocks, balances>>
        /\ work' = [work EXCEPT ![c] = [NoWork EXCEPT !.pc = "save", !.todo = Written(b)]]
    BY <1>5, <2>1 DEF TraceBlock, Works, AllDecode, taskVars, consumerVars
  <2>3. /\ [NoWork EXCEPT !.pc = "save", !.todo = Written(b)] \in [pc : {"block", "save"}, todo : SUBSET Accounts]
        /\ [NoWork EXCEPT !.pc = "save", !.todo = Written(b)].todo = Written(b)
    BY WrittenType DEF NoWork
  <2>4. work' \in [Consumers -> [pc : {"block", "save"}, todo : SUBSET Accounts]]
    BY <1>1, <2>2, <2>3
  <2>5. work'[c].todo = Written(b) /\ \A d \in Consumers \ {c} : work'[d] = work[d]
    BY <1>1, <2>2, <2>3
  <2>6. WorkOf(c)'
    BY <2>1, <2>2, <2>5 DEF WorkOf, AllDecode, Written, Writes
  <2> QED BY <2>2, <2>4, <2>5, <2>6
<1>6. CASE CannotTrace(c)
  <2>1. /\ pc'[c] = "ack" /\ work[c].pc = "block" /\ UNCHANGED <<msg, blocks, balances, work>>
        /\ \A d \in Consumers \ {c} : pc'[d] = pc[d]
    BY <1>1, <1>6 DEF CannotTrace, Works, balanceVars
  <2> QED BY <1>1, <2>1 DEF WorkOf
<1>7. CASE FinishBalances(c)
  <2>1. /\ pc'[c] = "done" /\ UNCHANGED <<msg, blocks, balances>> /\ work' = [work EXCEPT ![c] = NoWork]
        /\ \A d \in Consumers \ {c} : pc'[d] = pc[d]
    BY <1>1, <1>7 DEF FinishBalances, FinishTask
  <2>2. msg[c].entity_id # Genesis => Complete(msg[c].entity_id)
    <3>1. CASE AllSaved(c)
      <4>1. work[c].pc = "save" /\ work[c].todo = {}
        BY <3>1 DEF AllSaved, Works
      <4> QED BY <4>1 DEF WorkOf, Complete
    <3>2. CASE msg[c].entity_id \in blocks \intersect {Genesis}
      BY <3>2
    <3> QED BY <1>7, <3>1, <3>2 DEF FinishBalances
  <2>3. msg[c].entity_id # Genesis => Complete(msg[c].entity_id)'
    BY <2>1, <2>2 DEF Complete, Written, Writes
  <2>4. WorkOf(c)'
    BY <1>1, <1>2, <2>1, <2>3 DEF WorkOf
  <2> QED BY <1>1, <1>2, <2>1, <2>4
<1>8. CASE CommitBalances(c)
  <2>1. /\ pc[c] = "done" /\ pc'[c] = "ack" /\ UNCHANGED <<msg, blocks, balances, work>>
        /\ \A d \in Consumers \ {c} : pc'[d] = pc[d]
    BY <1>1, <1>8 DEF CommitBalances, CommitTask, balanceVars
  <2> QED BY <1>1, <2>1 DEF WorkOf
<1>9. CASE FailBalances(c) \/ CrashBalances(c)
  <2>1. /\ pc'[c] \in {"ack", "idle"} /\ UNCHANGED <<blocks, balances>> /\ work' = [work EXCEPT ![c] = NoWork]
        /\ \A d \in Consumers \ {c} : pc'[d] = pc[d] /\ msg'[d] = msg[d]
    BY <1>1, <1>9 DEF FailBalances, FailTask, CrashBalances, ConsumerCrash
  <2> QED BY <1>1, <1>2, <2>1 DEF WorkOf
<1>10. CASE Disconnect(c)
  <2>1. UNCHANGED <<pc, msg, blocks, balances, work>>
    BY <1>10 DEF Disconnect, LoseChannel, balanceVars
  <2>2. WorkOf(c)'
    BY <2>1 DEF WorkOf, AllDecode, Complete, Written, Writes
  <2> QED BY <1>1, <2>1, <2>2
<1> QED BY <1>3, <1>4, <1>5, <1>6, <1>7, <1>8, <1>9, <1>10 DEF Consumer

LEMMA BalanceStep ==
    ASSUME TaskTypeOK, BalanceTypeOK, KnownWrites, WorkInv, [Next]_vars
    PROVE  BalanceTypeOK' /\ StoredGrows /\ KnownWrites' /\ WorkInv'
<1>1. \A d \in Consumers : /\ pc[d] # "idle" => msg[d] \in Message
                           /\ pc[d] # "run" => work[d].pc = "block"
  BY DEF TaskTypeOK, HandlerTypeOK, WorkInv, WorkOf
<1>2. ASSUME NEW c \in Consumers, SaveBalance(c)
      PROVE  BalanceTypeOK' /\ StoredGrows /\ KnownWrites' /\ WorkInv'
  <2>1. WorkOf(c)
    BY DEF WorkInv
  <2>2. /\ StoredGrows /\ KnownWrites' /\ WorkOf(c)'
        /\ balances' \in [EntityIds -> [Accounts -> Balance \union {NoBalance}]]
        /\ work' \in [Consumers -> [pc : {"block", "save"}, todo : SUBSET Accounts]]
    BY <1>2, <2>1, SaveStep
  <2>3. UNCHANGED <<pc, msg, blocks>> /\ \A d \in Consumers \ {c} : work'[d] = work[d]
    BY <1>2 DEF SaveBalance, taskVars, consumerVars, BalanceTypeOK
  <2>4. ASSUME NEW d \in Consumers \ {c} PROVE WorkOf(d)'
    <3>1. WorkOf(d) /\ pc'[d] = pc[d] /\ msg'[d] = msg[d] /\ work'[d] = work[d]
      BY <2>2, <2>3 DEF WorkInv
    <3>2. d \in Consumers /\ (pc[d] # "idle" => msg[d] \in Message) /\ (pc[d] # "run" => work[d].pc = "block")
      BY <1>1
    <3>3. StoredGrows
      BY <2>2, <2>3
    <3> QED BY <3>1, <3>2, <3>3, OtherWork
  <2> QED BY <2>2, <2>3, <2>4 DEF BalanceTypeOK, WorkInv
<1>3. ASSUME NEW c \in Consumers, ~ SaveBalance(c),
             Consumer(c) \/ Deliver(c) \/ FailBalances(c) \/ CrashBalances(c) \/ Disconnect(c)
      PROVE  BalanceTypeOK' /\ StoredGrows /\ KnownWrites' /\ WorkInv'
  <2>1. WorkOf(c)
    BY DEF WorkInv
  <2>2. /\ balances' = balances /\ blocks' = blocks /\ WorkOf(c)'
        /\ work' \in [Consumers -> [pc : {"block", "save"}, todo : SUBSET Accounts]]
        /\ \A d \in Consumers \ {c} : pc'[d] = pc[d] /\ msg'[d] = msg[d] /\ work'[d] = work[d]
    BY <1>3, <2>1, ProcessorWork
  <2>3. StoredGrows /\ KnownWrites'
    BY <2>2 DEF StoredGrows, KnownWrites, AllDecode, Written, Writes, LastBalance, WritesOf
  <2>4. ASSUME NEW d \in Consumers \ {c} PROVE WorkOf(d)'
    <3>1. WorkOf(d) /\ pc'[d] = pc[d] /\ msg'[d] = msg[d] /\ work'[d] = work[d]
      BY <2>2, <2>3 DEF WorkInv
    <3>2. d \in Consumers /\ (pc[d] # "idle" => msg[d] \in Message) /\ (pc[d] # "run" => work[d].pc = "block")
      BY <1>1
    <3>3. StoredGrows
      BY <2>2, <2>3
    <3> QED BY <3>1, <3>2, <3>3, OtherWork
  <2> QED BY <2>2, <2>3, <2>4 DEF BalanceTypeOK, WorkInv
<1>4. ASSUME UNCHANGED <<pc, msg, balances, work>>, blocks' \subseteq EntityIds
      PROVE  BalanceTypeOK' /\ StoredGrows /\ KnownWrites' /\ WorkInv'
  BY <1>4 DEF BalanceTypeOK, StoredGrows, KnownWrites, WorkInv, WorkOf, AllDecode, Complete,
              Written, Writes, LastBalance, WritesOf
<1>5. ASSUME NEW r \in Calls, RestStep(r) \/ RestartByMonitoring(r) \/ RestartByRest(r)
                              \/ RestartOne(r) \/ RestartRange(r)
      PROVE  UNCHANGED <<pc, msg, blocks, balances, work>>
  <2>1. PublishStep \/ InsertMissing(r)
    BY <1>5, CallSteps DEF RestStep
  <2> QED BY <2>1 DEF PublishStep, InsertMissing, Others, consumerVars, balanceVars
<1>6. ASSUME NEW b \in EntityIds, StoreBlock(b) \/ InsertBalancesTask(b)
      PROVE  UNCHANGED <<pc, msg, balances, work>> /\ blocks' \subseteq EntityIds
  BY <1>6, SourceSteps DEF StoreBlock, InsertBalancesTask, balanceVars, BalanceTypeOK
<1>7. ASSUME SendNew \/ LoseNew PROVE UNCHANGED <<pc, msg, blocks, balances, work>>
  BY <1>7, ExitStep DEF SendNew, SendTask, consumerVars, balanceVars
<1>8. ASSUME UNCHANGED vars PROVE UNCHANGED <<pc, msg, blocks, balances, work>>
  BY <1>8 DEF vars, taskVars, consumerVars, balanceVars
<1>9. blocks \subseteq EntityIds
  BY DEF BalanceTypeOK
<1> QED BY <1>2, <1>3, <1>4, <1>5, <1>6, <1>7, <1>8, <1>9 DEF Next

LEMMA ProcessedStep ==
    ASSUME TaskTypeOK, LockInv, CallTypeOK, WorkInv, StoredGrows, ProcessedBlockHasBalances, [Next]_vars
    PROVE  ProcessedBlockHasBalances'
<1> SUFFICES ASSUME NEW b \in EntityIds \ {Genesis}, Processed(b)', NEW v \in ToSet(Writes(b))
             PROVE  balances'[b][v.account] # NoBalance
  BY DEF ProcessedBlockHasBalances, Writes
<1>1. v.account \in Written(b) /\ v.account \in Accounts
  BY WrittenType DEF Written
<1>2. balances[b][v.account] # NoBalance
  <2>1. CASE Processed(b)
    BY <2>1 DEF ProcessedBlockHasBalances
  <2>2. CASE ~ Processed(b)
    <3>1. PICK i \in RowIds' : rows'[i].entity_id = b /\ rows'[i].status = "processed"
      BY DEF Processed
    <3>2. ~ (i \in RowIds /\ rows'[i] = rows[i])
      BY <2>2, <3>1 DEF Processed
    <3>3. CASE rows' = rows
      BY <3>1, <3>2, <3>3 DEF RowIds
    <3>4. ASSUME NEW d \in EntityIds, InsertRow(d) PROVE FALSE
      <4>1. /\ \A j \in RowIds' \ RowIds : rows'[j].status = "not_processed"
            /\ \A j \in RowIds : rows'[j] = rows[j]
        BY <3>4, InsertGrows, InsertedRow DEF TaskTypeOK
      <4> QED BY <3>1, <3>2, <4>1
    <3>5. ASSUME NEW c \in Consumers, CommitBalances(c) PROVE balances[b][v.account] # NoBalance
      <4>1. CommitTask(c) /\ pc[c] = "done"
        BY <3>5 DEF CommitBalances, CommitTask
      <4>2. RowsGrow /\ RowIds' = RowIds /\ \A j \in RowIds : j # msg[c].collect_uid => rows'[j] = rows[j]
        BY <4>1, CommitGrows DEF TaskTypeOK
      <4>3. i \in RowIds /\ i = msg[c].collect_uid /\ rows[i].entity_id = b
        BY <3>1, <3>2, <4>2 DEF RowsGrow
      <4>4. msg[c] \in Message /\ msg[c].collect_uid \in snap[c]
        BY <4>1 DEF TaskTypeOK, HandlerTypeOK, LockInv, LocksOnlyWhatIsFound, Running
      <4>5. PICK d \in EntityIds : d = msg[c].entity_id
        BY <4>4 DEF Message
      <4>6. i \in RowsOf(d)
        BY <4>1, <4>3, <4>4, <4>5 DEF LockInv, FoundFromTheOldest, Locking
      <4>7. msg[c].entity_id = b
        BY <4>3, <4>5, <4>6 DEF RowsOf
      <4>8. Complete(b)
        BY <4>1, <4>7 DEF WorkInv, WorkOf
      <4> QED BY <1>1, <4>8 DEF Complete
    <3> QED BY <3>3, <3>4, <3>5, RowsStep
  <2> QED BY <2>1, <2>2
<1> QED BY <1>1, <1>2 DEF StoredGrows

-----------------------------------------------------------------------------
(* The types, and the balances.                                            *)

\* The inductive invariant of the tasks and their balances.
RestInv == TypeOK /\ LockInv /\ BalanceInv

LEMMA RestInit == Init => RestInv
<1> SUFFICES ASSUME Init PROVE RestInv
  OBVIOUS
<1>1. TaskTypeOK /\ LockInv
  BY TaskInitType, LockInvInit DEF Init
<1>2. BalanceTypeOK /\ KnownWrites
  BY DEF Init, BalanceInit, BalanceTypeOK, KnownWrites, NoWork
<1>3. WorkInv
  BY DEF Init, TaskInit, BalanceInit, NoWork, WorkInv, WorkOf
<1>4. ProcessedBlockHasBalances
  <2>1. RowIds = {}
    BY DEF Init, TaskInit, RowIds
  <2> QED BY <2>1 DEF ProcessedBlockHasBalances, Processed
<1>5. requests \in 0..MaxIncidents
  BY RestAssumption DEF Init
<1>6. CallTypeOK
  BY NothingType DEF Init, CallTypeOK
<1>7. creating \subseteq blocks
  BY DEF Init
<1> QED BY <1>1, <1>2, <1>3, <1>4, <1>5, <1>6, <1>7 DEF RestInv, TypeOK, CallTypeOK, BalanceInv

LEMMA RestInvStep ==
    ASSUME RestInv, [Next]_vars
    PROVE  RestInv' /\ RowsGrow
<1>1. /\ TaskTypeOK /\ LockInv /\ CallTypeOK /\ BalanceTypeOK /\ requests \in 0..MaxIncidents
      /\ KnownWrites /\ WorkInv /\ ProcessedBlockHasBalances /\ creating \subseteq blocks
  BY DEF RestInv, TypeOK, CallTypeOK, BalanceInv
<1>2. TaskTypeOK' /\ LockInv'
  BY <1>1, FrameworkKept
<1>3. CallTypeOK'
  BY <1>1, <1>2, CallTypeStep
<1>4. BalanceTypeOK' /\ StoredGrows /\ KnownWrites' /\ WorkInv'
  BY <1>1, BalanceStep
<1>5. ProcessedBlockHasBalances'
  BY <1>1, <1>4, ProcessedStep
<1>6. requests' \in 0..MaxIncidents
  BY <1>1, RequestsStep
<1>7. RowsGrow
  BY <1>1, RowsGrowStep
<1>8. (creating \subseteq blocks)'
  BY <1>1, CreatingStep
<1> QED BY <1>2, <1>3, <1>4, <1>5, <1>6, <1>7, <1>8 DEF RestInv, TypeOK, CallTypeOK, BalanceInv

LEMMA RestInvariant == Spec => []RestInv
<1>1. Init => RestInv
  BY RestInit
<1>2. RestInv /\ [Next]_vars => RestInv'
  BY RestInvStep
<1> QED BY <1>1, <1>2, PTL DEF Spec

\* Type correctness of the tasks, the balances and the calls of the listener.
THEOREM RestTypeCorrect == Spec => []TypeOK
<1>1. RestInv => TypeOK
  BY DEF RestInv
<1> QED BY <1>1, RestInvariant, PTL

\* BalancesProcessorService, for any trace, consumers and faults: what is in the balances
\* table is what the chain wrote last for the account in that block, decoded; but in the
\* encoding of 140 digits, which is misread.
THEOREM BalancesAreTheChains == Spec => []BalancesOfTheChain
<1>1. RestInv => BalancesOfTheChain
  <2> SUFFICES ASSUME RestInv, NEW b \in EntityIds, NEW a \in Accounts, balances[b][a] # NoBalance
               PROVE  LET v == Writes(b)[Max(WritesOf(b, a))] IN
                      balances[b][a] = IF v.digits = 140 THEN Misread ELSE v.balance
    BY DEF BalancesOfTheChain
  <2>1. a \in Written(b) /\ balances[b][a] = LastBalance(b, a) /\ AllDecode(b)
    BY DEF RestInv, BalanceInv, KnownWrites
  <2> QED BY <2>1, SavedBalance DEF AllDecode
<1> QED BY <1>1, RestInvariant, PTL

\* A task of balances that is processed has saved every account its block wrote, whichever
\* attempts at it failed or were repeated before, and whichever ran beside it.
THEOREM ProcessedIsComplete == Spec => []ProcessedBlockHasBalances
<1>1. RestInv => ProcessedBlockHasBalances
  BY DEF RestInv, BalanceInv
<1> QED BY <1>1, RestInvariant, PTL

-----------------------------------------------------------------------------
(***************************************************************************)
(* The place of a restart.  It is kept by entity_id, so that a row is not  *)
(* passed over only because the page's records are sent in that order, and *)
(* no row that was left out of a page comes before one that is in it.      *)
(***************************************************************************)
Several(k) == Cardinality(RowsOf(rows[k].entity_id)) > 1

PlaceOf(r) ==
    /\ call[r].pc # "send" => call[r].page = {}
    /\ \A k \in unsent[r] \intersect Unprocessed : k \notin call[r].page /\ ~ Several(k) =>
          /\ call[r].pc \in {"read", "send"} => k \in AfterLast(r)
          /\ \A i \in call[r].page : rows[i].entity_id <= rows[k].entity_id

PlaceInv == \A r \in Calls : PlaceOf(r)

LEMMA TwoRows ==
    ASSUME TaskTypeOK, NEW i \in RowIds, NEW k \in RowIds, i # k, rows[i].entity_id = rows[k].entity_id
    PROVE  Several(k)
<1>1. PICK b : b = rows[k].entity_id
  OBVIOUS
<1>2. i \in RowsOf(b) /\ k \in RowsOf(b)
  BY <1>1 DEF RowsOf
<1>3. IsFiniteSet(RowsOf(b)) /\ Cardinality(RowsOf(b)) \in Nat
  BY RowsOfFinite DEF TaskTypeOK
<1>4. {i, k} \subseteq RowsOf(b) /\ IsFiniteSet({i, k})
  BY <1>2, <1>3, FS_Subset
<1>5. Cardinality({i, k}) <= Cardinality(RowsOf(b))
  BY <1>3, <1>4, FS_Subset
<1>6. IsFiniteSet({i}) /\ Cardinality({i}) = 1
  BY FS_Singleton
<1>7. {i, k} = {i} \union {k} /\ Cardinality({i} \union {k}) = Cardinality({i}) + 1
  BY <1>6, FS_AddElement
<1>8. Cardinality({i, k}) = 2
  BY <1>6, <1>7
<1> QED BY <1>1, <1>3, <1>5, <1>8 DEF Several

LEMMA StillSeveral ==
    ASSUME TaskTypeOK, TaskTypeOK', RowsGrow, NEW k \in RowIds, Several(k)
    PROVE  Several(k)'
<1>1. PICK b : b = rows[k].entity_id /\ b = rows'[k].entity_id
  BY DEF RowsGrow
<1>2. RowsOf(b) \subseteq RowsOf(b)'
  BY GrownRows
<1>3. IsFiniteSet(RowsOf(b))' /\ Cardinality(RowsOf(b))' \in Nat
  <2>1. TableTypeOK'
    BY DEF TaskTypeOK
  <2>2. Len(rows') \in Nat
    BY <2>1 DEF TableTypeOK
  <2>3. IsFiniteSet(RowIds')
    BY <2>2, FS_Interval DEF RowIds
  <2>4. RowsOf(b)' \subseteq RowIds'
    BY DEF RowsOf
  <2> QED BY <2>3, <2>4, FS_Subset, FS_CardinalityType
<1>4. Cardinality(RowsOf(b)) \in Nat /\ Cardinality(RowsOf(b)) <= Cardinality(RowsOf(b)')
  BY <1>2, <1>3, RowsOfFinite, FS_Subset DEF TaskTypeOK
<1> QED BY <1>1, <1>3, <1>4 DEF Several

\* A call keeps its place while others' steps insert rows and process them.
LEMMA PlaceKept ==
    ASSUME TaskTypeOK, TaskTypeOK', CallTypeOK, RowsGrow, NEW r \in Calls, PlaceOf(r),
           call'[r] = call[r], unsent'[r] = unsent[r]
    PROVE  PlaceOf(r)'
<1>1. call'[r].pc # "send" => call'[r].page = {}
  BY DEF PlaceOf
<1>2. ASSUME NEW k \in unsent'[r] \intersect Unprocessed', k \notin call'[r].page, ~ Several(k)'
      PROVE  /\ call'[r].pc \in {"read", "send"} => k \in AfterLast(r)'
             /\ \A i \in call'[r].page : rows'[i].entity_id <= rows'[k].entity_id
  <2>1. k \in RowIds /\ k \in unsent[r] /\ k \notin call[r].page /\ call[r].page \subseteq RowIds
    BY <1>2 DEF CallTypeOK
  <2>2. k \in Unprocessed /\ rows'[k].entity_id = rows[k].entity_id
    BY <1>2, <2>1, GrownRows DEF RowsGrow
  <2>3. ~ Several(k)
    BY <1>2, <2>1, StillSeveral
  <2>4. /\ call[r].pc \in {"read", "send"} => k \in AfterLast(r)
        /\ \A i \in call[r].page : rows[i].entity_id <= rows[k].entity_id
    BY <2>1, <2>2, <2>3 DEF PlaceOf
  <2>5. call'[r].pc \in {"read", "send"} => k \in AfterLast(r)'
    BY <1>2, <2>2, <2>4 DEF AfterLast
  <2>6. \A i \in call'[r].page : rows'[i].entity_id <= rows'[k].entity_id
    BY <2>1, <2>2, <2>4 DEF RowsGrow
  <2> QED BY <2>5, <2>6
<1> QED BY <1>1, <1>2 DEF PlaceOf

\* No place is kept outside a restart of all tasks.
LEMMA NoPlace ==
    ASSUME NEW r \in Calls, call'[r].page = {}, call'[r].pc \notin {"read", "send"}
    PROVE  PlaceOf(r)'
BY DEF PlaceOf

\* The steps of a restart: a page is begun, sent record by record, and ended.
LEMMA PlaceStep ==
    ASSUME TaskTypeOK, CallTypeOK, CallTypeOK', NEW r \in Calls, PlaceOf(r), rows' = rows,
           StartRestart(r) \/ ReadPage(r) \/ SendRecord(r) \/ EndRestart(r)
    PROVE  PlaceOf(r)'
<1>1. PICK s \in Call : s = call[r]
  BY DEF CallTypeOK
<1>2. /\ Unprocessed' = Unprocessed /\ Unprocessed \subseteq RowIds
      /\ \A k : Several(k)' <=> Several(k)
  BY DEF Unprocessed, RowIds, Several, RowsOf
<1>3. CASE StartRestart(r)
  <2>1. call'[r] = [Nothing EXCEPT !.pc = "read"]
    BY <1>3 DEF StartRestart, CallTypeOK
  <2>2. [Nothing EXCEPT !.pc = "read"].page = {} /\ [Nothing EXCEPT !.pc = "read"].last = 0
    BY DEF Nothing, Genesis
  <2>3. call'[r].page = {} /\ call'[r].last = 0
    BY <2>1, <2>2
  <2>4. \A k \in Unprocessed : k \in AfterLast(r)'
    BY <1>2, <2>3 DEF AfterLast
  <2> QED BY <1>2, <2>3, <2>4 DEF PlaceOf
<1>4. CASE ReadPage(r)
  <2>1. PICK p \in Pages(r) : call' = [call EXCEPT ![r].pc = "send", ![r].page = p]
    BY <1>4 DEF ReadPage
  <2>2. unsent' = unsent /\ call[r].pc = "read"
    BY <1>4 DEF ReadPage
  <2>3. call'[r] = [s EXCEPT !.pc = "send", !.page = p]
    BY <1>1, <2>1 DEF CallTypeOK
  <2>4. call'[r].pc = "send" /\ call'[r].page = p /\ call'[r].last = call[r].last
    BY <1>1, <2>3 DEF Call
  <2>5. AfterLast(r)' = AfterLast(r)
    BY <1>2, <2>4 DEF AfterLast
  <2>6. ASSUME NEW k \in unsent[r] \intersect Unprocessed, k \notin p, ~ Several(k)
        PROVE  k \in AfterLast(r)' /\ \A i \in p : rows'[i].entity_id <= rows'[k].entity_id
    <3>1. k \in AfterLast(r)
      BY <2>2, <2>6 DEF PlaceOf
    <3>2. \A i \in p : rows[i].entity_id <= rows[k].entity_id
      BY <2>6, <3>1 DEF Pages
    <3> QED BY <2>5, <3>1, <3>2
  <2> QED BY <1>2, <2>2, <2>4, <2>6 DEF PlaceOf
<1>5. CASE SendRecord(r)
  <2>1. PICK i \in call[r].page :
           /\ IsNext(r, i)
           /\ call' = [call EXCEPT ![r].page = @ \ {i}, ![r].last = MovedOn(r, i),
                                   ![r].pc = IF call[r].page = {i} THEN "read" ELSE "send"]
           /\ unsent' = [unsent EXCEPT ![r] = @ \ {i}]
    BY <1>5 DEF SendRecord
  <2>2. PICK j : j = IF call[r].page = {i} THEN "read" ELSE "send"
    OBVIOUS
  <2>3. call'[r] = [s EXCEPT !.page = s.page \ {i}, !.last = MovedOn(r, i), !.pc = j]
    BY <1>1, <2>1, <2>2 DEF CallTypeOK
  <2>4. /\ call'[r].page = call[r].page \ {i} /\ call'[r].last = rows[i].entity_id
        /\ call'[r].pc = j
    BY <1>1, <2>3 DEF Call, MovedOn
  <2>5. unsent'[r] = unsent[r] \ {i}
    BY <2>1 DEF CallTypeOK
  <2>6. call'[r].pc # "send" => call'[r].page = {}
    BY <2>2, <2>4
  <2>7. ASSUME NEW k \in unsent[r] \intersect Unprocessed, k # i, k \notin call[r].page, ~ Several(k)
        PROVE  /\ k \in AfterLast(r)'
               /\ \A h \in call'[r].page : rows[h].entity_id <= rows[k].entity_id
    <3>1. \A h \in call[r].page : rows[h].entity_id <= rows[k].entity_id
      BY <2>7 DEF PlaceOf
    <3>2. i \in RowIds /\ k \in RowIds
      BY <1>2, <2>1, <2>7 DEF CallTypeOK
    <3>3. rows[i].entity_id # rows[k].entity_id
      BY <2>7, <3>2, TwoRows
    <3>4. rows[i].entity_id \in Nat /\ rows[k].entity_id \in Nat
      <4>1. \A h \in RowIds : rows[h] \in Row
        BY DEF TaskTypeOK, TableTypeOK, RowIds
      <4> QED BY <3>2, <4>1, RestAssumption DEF Row
    <3>5. rows[k].entity_id > rows[i].entity_id
      BY <2>1, <3>1, <3>3, <3>4
    <3>6. k \in AfterLast(r)'
      BY <1>2, <2>4, <2>7, <3>5 DEF AfterLast
    <3>7. \A h \in call'[r].page : rows[h].entity_id <= rows[k].entity_id
      BY <2>4, <3>1
    <3> QED BY <3>6, <3>7
  <2>8. ASSUME NEW k \in unsent'[r] \intersect Unprocessed', k \notin call'[r].page, ~ Several(k)'
        PROVE  /\ k \in AfterLast(r)'
               /\ \A h \in call'[r].page : rows'[h].entity_id <= rows'[k].entity_id
    <3>1. k \in unsent[r] \intersect Unprocessed /\ k # i /\ k \notin call[r].page /\ ~ Several(k)
      BY <1>2, <2>4, <2>5, <2>8
    <3> QED BY <2>7, <3>1
  <2> QED BY <2>6, <2>8 DEF PlaceOf
<1>6. CASE EndRestart(r)
  <2>1. call'[r] = Nothing /\ Nothing.page = {} /\ Nothing.pc = "idle"
    BY <1>6 DEF EndRestart, CallTypeOK, Nothing
  <2> QED BY <2>1, NoPlace
<1> QED BY <1>3, <1>4, <1>5, <1>6

\* The other requests' steps have no place to keep.
LEMMA OneByOneStep ==
    ASSUME CallTypeOK, NEW r \in Calls, PlaceOf(r),
           RestartOne(r) \/ RestartRange(r) \/ CheckTask(r) \/ InsertMissing(r) \/ SendOne(r)
    PROVE  PlaceOf(r)'
<1>1. PICK s \in Call : s = call[r]
  BY DEF CallTypeOK
<1>2. s.page = {} /\ NextOfRange(r).page = {} /\ NextOfRange(r).pc \in {"idle", "check"}
  <2>1. s.pc # "send"
    BY <1>1 DEF RestartOne, RestartRange, CheckTask, InsertMissing, SendOne
  <2>2. s.page = {}
    BY <1>1, <2>1 DEF PlaceOf
  <2>3. NextOfRange(r).page = {}
    BY <1>1, <2>2, NextOfRangeType
  <2>4. NextOfRange(r).pc \in {"idle", "check"}
    BY <1>1 DEF NextOfRange, Nothing, Call
  <2> QED BY <2>2, <2>3, <2>4
<1>3. call'[r].page = {} /\ call'[r].pc \in {"idle", "check", "insert", "message"}
  <2>1. CASE SendOne(r) \/ (CheckTask(r) /\ call' = [call EXCEPT ![r] = NextOfRange(r)])
    <3>1. call'[r] = NextOfRange(r)
      BY <2>1 DEF SendOne, CallTypeOK
    <3> QED BY <1>2, <3>1
  <2>2. CASE CheckTask(r) /\ call' # [call EXCEPT ![r] = NextOfRange(r)]
    <3>1. PICK k \in {"insert", "message"} : call' = [call EXCEPT ![r].pc = k]
      BY <2>2 DEF CheckTask
    <3>2. call'[r] = [s EXCEPT !.pc = k]
      BY <1>1, <3>1 DEF CallTypeOK
    <3> QED BY <1>2, <3>2 DEF Call
  <2>3. CASE InsertMissing(r)
    <3>1. PICK n : call' = [call EXCEPT ![r].pc = "message", ![r].row = n]
      BY <2>3 DEF InsertMissing
    <3>2. call'[r] = [s EXCEPT !.pc = "message", !.row = n]
      BY <1>1, <3>1 DEF CallTypeOK
    <3> QED BY <1>2, <3>2 DEF Call
  <2>4. CASE RestartOne(r)
    <3>1. PICK n, l : call' = [call EXCEPT ![r].pc = "message", ![r].row = n, ![r].last = l, ![r].to = l]
      BY <2>4 DEF RestartOne
    <3>2. call'[r] = [s EXCEPT !.pc = "message", !.row = n, !.last = l, !.to = l]
      BY <1>1, <3>1 DEF CallTypeOK
    <3> QED BY <1>2, <3>2 DEF Call
  <2>5. CASE RestartRange(r)
    <3>1. PICK from, to : call' = [call EXCEPT ![r].pc = "check", ![r].last = from, ![r].to = to]
      BY <2>5 DEF RestartRange
    <3>2. call'[r] = [s EXCEPT !.pc = "check", !.last = from, !.to = to]
      BY <1>1, <3>1 DEF CallTypeOK
    <3> QED BY <1>2, <3>2 DEF Call
  <2> QED BY <2>1, <2>2, <2>3, <2>4, <2>5
<1> QED BY <1>3, NoPlace

\* A step of one call leaves the others where they are.
LEMMA OtherCalls ==
    ASSUME CallTypeOK, NEW r \in Calls, NEW q \in Calls \ {r},
           RestStep(r) \/ StartRestart(r) \/ RestartOne(r) \/ RestartRange(r)
    PROVE  call'[q] = call[q] /\ unsent'[q] = unsent[q]
<1>1. CASE StartRestart(r) \/ RestartOne(r) \/ RestartRange(r)
  BY <1>1 DEF StartRestart, RestartOne, RestartRange, CallTypeOK
<1>2. CASE ReadPage(r) \/ SendRecord(r) \/ EndRestart(r)
  BY <1>2 DEF ReadPage, SendRecord, EndRestart, CallTypeOK
<1>3. CASE CheckTask(r) \/ InsertMissing(r) \/ SendOne(r)
  BY <1>3 DEF CheckTask, InsertMissing, SendOne, CallTypeOK
<1> QED BY <1>1, <1>2, <1>3 DEF RestStep

LEMMA PlaceInvStep ==
    ASSUME RestInv, RestInv', PlaceInv, RowsGrow, [Next]_vars
    PROVE  PlaceInv'
<1>1. TaskTypeOK /\ CallTypeOK /\ TaskTypeOK' /\ CallTypeOK'
  BY DEF RestInv, TypeOK, CallTypeOK
<1>2. ASSUME NEW r \in Calls, RestStep(r) \/ StartRestart(r) \/ RestartOne(r) \/ RestartRange(r)
      PROVE  PlaceInv'
  <2>1. PlaceOf(r)
    BY DEF PlaceInv
  <2>2. PlaceOf(r)'
    <3>1. CASE StartRestart(r) \/ ReadPage(r) \/ SendRecord(r) \/ EndRestart(r)
      <4>1. rows' = rows
        BY <3>1 DEF StartRestart, ReadPage, SendRecord, EndRestart, Others
      <4> QED BY <1>1, <2>1, <3>1, <4>1, PlaceStep
    <3>2. CASE RestartOne(r) \/ RestartRange(r) \/ CheckTask(r) \/ InsertMissing(r) \/ SendOne(r)
      BY <1>1, <2>1, <3>2, OneByOneStep
    <3> QED BY <1>2, <3>1, <3>2 DEF RestStep
  <2>3. ASSUME NEW q \in Calls \ {r} PROVE PlaceOf(q)'
    <3>1. call'[q] = call[q] /\ unsent'[q] = unsent[q]
      BY <1>1, <1>2, OtherCalls
    <3>2. PlaceOf(q)
      BY DEF PlaceInv
    <3> QED BY <1>1, <3>1, <3>2, PlaceKept
  <2> QED BY <2>2, <2>3 DEF PlaceInv
<1>3. ASSUME UNCHANGED <<call, unsent>> PROVE PlaceInv'
  <2>1. ASSUME NEW q \in Calls PROVE PlaceOf(q)'
    <3>1. PlaceOf(q) /\ call'[q] = call[q] /\ unsent'[q] = unsent[q]
      BY <1>3 DEF PlaceInv
    <3> QED BY <1>1, <3>1, PlaceKept
  <2> QED BY <2>1 DEF PlaceInv
<1>4. ASSUME (\E b \in EntityIds : StoreBlock(b) \/ InsertBalancesTask(b)) \/ SendNew \/ LoseNew
      PROVE  UNCHANGED <<call, unsent>>
  BY <1>4, SourceSteps, ExitStep DEF SendNew, restVars
<1>5. ASSUME UNCHANGED vars PROVE UNCHANGED <<call, unsent>>
  BY <1>5 DEF vars, restVars
<1>6. ASSUME NEW r \in Calls, RestartByMonitoring(r) \/ RestartByRest(r) PROVE StartRestart(r)
  BY <1>6 DEF RestartByMonitoring, RestartByRest
<1> QED BY <1>2, <1>3, <1>4, <1>5, <1>6 DEF Next, restVars

\* restartUnprocessedTasks, for any number of rows, pages and calls at once: every task
\* that was waiting when the restart began, and still is, has been sent or is still to be
\* read, but for the rows of an entity that has several.
THEOREM RestartLeavesNoneOut == Spec => []RestartSendsAll
<1>1. Init => RestInv /\ PlaceInv
  <2>1. ASSUME Init PROVE PlaceInv
    BY <2>1 DEF Init, PlaceInv, PlaceOf, Nothing
  <2> QED BY <2>1, RestInit
<1>2. RestInv /\ PlaceInv /\ [Next]_vars => RestInv' /\ PlaceInv'
  BY RestInvStep, PlaceInvStep
<1>3. PlaceInv => RestartSendsAll
  BY DEF PlaceInv, PlaceOf, RestartSendsAll, Several
<1> QED BY <1>1, <1>2, <1>3, PTL DEF Spec

=============================================================================
