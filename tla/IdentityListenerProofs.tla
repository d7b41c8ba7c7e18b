------------------------ MODULE IdentityListenerProofs ------------------------
(***************************************************************************)
(* Proofs about IdentityListener, for any blocks, events and block         *)
(* processors, and any number of faults: its types, that the loop passes   *)
(* only rows that are committed late, and that the accounts table shows    *)
(* the last events handled.                                                *)
(***************************************************************************)
EXTENDS IdentityListener, FiniteSetTheorems, TLAPS

-----------------------------------------------------------------------------
(* The log of events.                                                      *)

\* The row_ids of a part of the log are finitely many numbers.
LEMMA RowsAreFinite ==
    ASSUME events \in Seq(Row), NEW S, S \subseteq RowId
    PROVE  IsFiniteSet(S) /\ Cardinality(S) \in Nat /\ S \subseteq Nat
<1>1. Len(events) \in Nat
  OBVIOUS
<1>2. IsFiniteSet(RowId)
  BY <1>1, FS_Interval DEF RowId
<1>3. IsFiniteSet(S)
  BY <1>2, FS_Subset
<1>4. S \subseteq Nat
  BY <1>1 DEF RowId
<1> QED BY <1>3, <1>4, FS_CardinalityType

\* What every step does to the log: it grows, a row keeps its event and its block, and a
\* committed row stays committed.
LogGrows ==
    /\ events' \in Seq(Row) /\ Len(events) <= Len(events')
    /\ \A i \in RowId : events'[i].event = events[i].event /\ events'[i].block = events[i].block
    /\ \A i \in Committed : events'[i].status = "committed"

\* And only a commit adds committed rows.
NothingCommitted == \A i \in RowId' : events'[i].status = "committed" => i \in Committed

LEMMA SameLog ==
    ASSUME TypeOK, UNCHANGED events
    PROVE  LogGrows /\ NothingCommitted /\ RowId' = RowId
BY DEF TypeOK, LogGrows, NothingCommitted, Committed, RowId

LEMMA LogGrowsRows ==
    ASSUME TypeOK, LogGrows
    PROVE  RowId \subseteq RowId' /\ Committed \subseteq Committed'
<1>1. Len(events) \in Nat /\ Len(events') \in Nat /\ Len(events) <= Len(events')
  BY DEF TypeOK, LogGrows
<1>2. RowId \subseteq RowId'
  BY <1>1 DEF RowId
<1> QED BY <1>2 DEF LogGrows, Committed

LEMMA LogSaveEvent ==
    ASSUME TypeOK, NEW w \in Writers, SaveEvent(w)
    PROVE  LogGrows /\ NothingCommitted
<1> DEFINE b == writing[w]
           n == Cardinality(OpenRows(b))
<1>1. b \in Blocks
  BY DEF TypeOK, SaveEvent
<1>2. n \in Nat
  BY RowsAreFinite DEF TypeOK, OpenRows
<1>3. EventsOf[b] \in Seq(Event)
  BY <1>1, IdentityAssumption
<1>4. n < Len(EventsOf[b])
  BY DEF SaveEvent
<1>5. EventsOf[b][n + 1] \in Event
  <2> HIDE DEF b, n
  <2> QED BY <1>2, <1>3, <1>4
<1>6. PICK row : row = [event |-> EventsOf[b][n + 1], block |-> b, status |-> "open"]
  OBVIOUS
<1>7. row \in Row /\ row.status = "open"
  <2> HIDE DEF b, n
  <2> QED BY <1>1, <1>5, <1>6 DEF Row
<1>8. events' = Append(events, row)
  BY <1>6 DEF SaveEvent
<1>9. events \in Seq(Row)
  BY DEF TypeOK
<1>10. /\ events' \in Seq(Row)
       /\ Len(events') = Len(events) + 1
       /\ \A i \in 1..Len(events) : events'[i] = events[i]
       /\ events'[Len(events) + 1] = row
  <2> HIDE DEF b, n
  <2> QED BY <1>7, <1>8, <1>9
<1>11. Len(events) \in Nat
  BY <1>9
<1>12. LogGrows
  BY <1>10, <1>11 DEF LogGrows, RowId, Committed
<1>13. NothingCommitted
  BY <1>7, <1>10, <1>11 DEF NothingCommitted, RowId, Committed
<1> QED BY <1>12, <1>13

\* The end of a transaction gives the open rows of its block a status.
LEMMA LogEndBlock ==
    ASSUME TypeOK, NEW w \in Writers, NEW status \in {"committed", "aborted"},
           writing[w] \in Blocks, EndBlock(w, status)
    PROVE  /\ LogGrows /\ RowId' = RowId
           /\ \A i \in RowId' : events'[i].status = "committed" =>
                  i \in Committed \/ (status = "committed" /\ i \in OpenRows(writing[w]))
           /\ writing' \in [Writers -> Blocks \union {NoBlock}]
<1> DEFINE row(i) == IF i \in OpenRows(writing[w]) THEN [events[i] EXCEPT !.status = status]
                     ELSE events[i]
<1>1a. events \in Seq(Row)
  BY DEF TypeOK
<1>1. events \in Seq(Row) /\ Len(events) \in Nat
  BY <1>1a
<1>2. events' = [i \in RowId |-> row(i)]
  BY DEF EndBlock
<1>3. \A i \in RowId : events[i] \in Row
  BY <1>1 DEF RowId
<1>4. \A i \in RowId : row(i) \in Row
  BY <1>3 DEF Row
<1>5. \A i \in RowId : /\ row(i).event = events[i].event /\ row(i).block = events[i].block
                       /\ i \in OpenRows(writing[w]) => row(i).status = status
                       /\ i \notin OpenRows(writing[w]) => row(i).status = events[i].status
  BY <1>3 DEF Row
<1>6. \A i \in RowId : i \in Committed <=> events[i].status = "committed"
  BY DEF Committed
<1>7. \A i \in OpenRows(writing[w]) : events[i].status = "open"
  BY DEF OpenRows
<1>8. events' \in Seq(Row) /\ Len(events') = Len(events)
  <2> HIDE DEF row
  <2>1. events' \in [1..Len(events) -> Row]
    BY <1>2, <1>4 DEF RowId
  <2> QED BY <1>1, <2>1
<1>9. RowId' = RowId
  BY <1>8 DEF RowId
<1>10. \A i \in RowId : events'[i] = row(i)
  BY <1>2
<1>11. Committed \subseteq RowId
  BY DEF Committed
<1>12. LogGrows
  <2> HIDE DEF row
  <2>1. \A i \in Committed : events'[i].status = "committed"
    BY <1>5, <1>6, <1>7, <1>10, <1>11
  <2> QED BY <2>1, <1>1, <1>5, <1>8, <1>10 DEF LogGrows
<1>13. \A i \in RowId' : events'[i].status = "committed" =>
           i \in Committed \/ (status = "committed" /\ i \in OpenRows(writing[w]))
  <2> HIDE DEF row
  <2> QED BY <1>5, <1>6, <1>9, <1>10
<1>14. writing' \in [Writers -> Blocks \union {NoBlock}]
  BY DEF EndBlock, TypeOK
<1> QED BY <1>9, <1>12, <1>13, <1>14

-----------------------------------------------------------------------------
(***************************************************************************)
(* Type correctness.                                                       *)
(***************************************************************************)
LEMMA FaultType ==
    ASSUME TypeOK, NEW k \in FaultKind, Fault(k)
    PROVE  faults' \in [FaultKind -> Nat]
<1>1. faults \in [FaultKind -> Nat]
  BY DEF TypeOK
<1>2. faults[k] + 1 \in Nat
  BY <1>1
<1> QED BY <1>1, <1>2 DEF Fault

\* What a handler writes to the accounts table.
LEMMA SavedType ==
    ASSUME TypeOK, NEW i \in RowId
    PROVE  /\ events[i].event \in Event /\ events[i].block \in Blocks
           /\ Saved(i) \in [Accounts -> Columns]
<1>1. events \in Seq(Row) /\ accounts \in [Accounts -> Columns]
  BY DEF TypeOK
<1>2. events[i] \in Row
  BY <1>1 DEF RowId
<1>3. PICK e : e = events[i].event
  OBVIOUS
<1>4. PICK b : b = events[i].block
  OBVIOUS
<1>5. e \in Event /\ b \in Blocks
  BY <1>2, <1>3, <1>4 DEF Row
<1>6. e.account \in Accounts
  BY <1>5 DEF Event
<1>7. accounts[e.account] \in Columns
  BY <1>1, <1>6
<1>8. /\ [accounts[e.account] EXCEPT !.created = b] \in Columns
      /\ [accounts[e.account] EXCEPT !.killed = b] \in Columns
  BY <1>5, <1>7 DEF Columns
<1>9. /\ [accounts EXCEPT ![e.account] = [accounts[e.account] EXCEPT !.created = b]]
             \in [Accounts -> Columns]
      /\ [accounts EXCEPT ![e.account] = [accounts[e.account] EXCEPT !.killed = b]]
             \in [Accounts -> Columns]
  BY <1>1, <1>8
<1>10. /\ [accounts EXCEPT ![e.account].created = b] \in [Accounts -> Columns]
       /\ [accounts EXCEPT ![e.account].killed = b] \in [Accounts -> Columns]
  BY <1>9
<1>11. Saved(i) = IF e.method = "NewAccount" THEN [accounts EXCEPT ![e.account].created = b]
                  ELSE [accounts EXCEPT ![e.account].killed = b]
  BY <1>3, <1>4 DEF Saved
<1> QED BY <1>3, <1>4, <1>5, <1>10, <1>11

LEMMA BeginType ==
    ASSUME TypeOK, NEW w \in Writers, NEW b \in Blocks, BeginBlock(w, b)
    PROVE  accounts' \in [Accounts -> Columns] /\ writing' \in [Writers -> Blocks \union {NoBlock}]
<1>1. accounts \in [Accounts -> Columns] /\ writing \in [Writers -> Blocks \union {NoBlock}]
  BY DEF TypeOK
<1>2. \A x \in Accounts : [accounts[x] EXCEPT !.created = b] \in Columns
  BY <1>1 DEF Columns
<1>3. PICK saved : accounts' = [x \in Accounts |-> IF x \in saved THEN [accounts[x] EXCEPT !.created = b]
                                                   ELSE accounts[x]]
  BY DEF BeginBlock
<1>4. accounts' \in [Accounts -> Columns]
  BY <1>1, <1>2, <1>3
<1>5. writing' \in [Writers -> Blocks \union {NoBlock}]
  BY <1>1 DEF BeginBlock
<1> QED BY <1>4, <1>5

LEMMA IdentityInitType == Init => TypeOK
<1> SUFFICES ASSUME Init PROVE TypeOK
  OBVIOUS
<1>1. events \in Seq(Row) /\ events = <<>>
  BY DEF Init
<1>2. accounts \in [Accounts -> Columns]
  BY DEF Init, Columns, Null
<1>3. faults \in [FaultKind -> Nat]
  BY DEF Init
<1> QED BY <1>1, <1>2, <1>3 DEF Init, TypeOK, RowId

\* The part of the type that concerns the loop, for a log that grows.
LEMMA RestOfType ==
    ASSUME TypeOK, LogGrows,
           stored' \subseteq Blocks, writing' \in [Writers -> Blocks \union {NoBlock}],
           accounts' \in [Accounts -> Columns],
           processing_state' \in Nat, lastRowId' \in Nat,
           batch' \subseteq RowId', pc' \in {"start", "read", "handle", "sleep"},
           handled' \subseteq RowId', failed' \subseteq RowId', late' \subseteq RowId',
           faults' \in [FaultKind -> Nat]
    PROVE  TypeOK'
BY DEF TypeOK, LogGrows

\* The type invariant is preserved by every step.
LEMMA TypeStep ==
    ASSUME TypeOK, [Next]_vars
    PROVE  TypeOK' /\ LogGrows /\ RowId \subseteq RowId' /\ Committed \subseteq Committed'
<1> USE DEF loop, history, writers
<1>0. /\ stored \subseteq Blocks /\ writing \in [Writers -> Blocks \union {NoBlock}]
      /\ accounts \in [Accounts -> Columns]
      /\ processing_state \in Nat /\ lastRowId \in Nat
      /\ batch \subseteq RowId /\ pc \in {"start", "read", "handle", "sleep"}
      /\ handled \subseteq RowId /\ failed \subseteq RowId /\ late \subseteq RowId
      /\ faults \in [FaultKind -> Nat]
  BY DEF TypeOK
<1>1. ASSUME NEW w \in Writers, NEW b \in Blocks, BeginBlock(w, b)
      PROVE  TypeOK' /\ LogGrows
  <2>1. LogGrows /\ RowId' = RowId
    BY <1>1, SameLog DEF BeginBlock
  <2>2. accounts' \in [Accounts -> Columns] /\ writing' \in [Writers -> Blocks \union {NoBlock}]
    BY <1>1, BeginType
  <2>3. UNCHANGED <<stored, loop, history, late, faults>>
    BY <1>1 DEF BeginBlock
  <2> QED BY <1>0, <2>1, <2>2, <2>3, RestOfType
<1>2. ASSUME NEW w \in Writers, SaveEvent(w)
      PROVE  TypeOK' /\ LogGrows
  <2>1. LogGrows
    BY <1>2, LogSaveEvent
  <2>2. RowId \subseteq RowId'
    BY <2>1, LogGrowsRows
  <2>3. UNCHANGED <<writers, accounts, loop, history, late, faults>>
    BY <1>2 DEF SaveEvent
  <2> QED BY <1>0, <2>1, <2>2, <2>3, RestOfType
<1>3. ASSUME NEW w \in Writers, Commit(w)
      PROVE  TypeOK' /\ LogGrows
  <2>1. writing[w] \in Blocks
    BY <1>0, <1>3 DEF Commit
  <2>2. LogGrows /\ RowId' = RowId /\ writing' \in [Writers -> Blocks \union {NoBlock}]
    BY <1>3, <2>1, LogEndBlock DEF Commit
  <2>3. UNCHANGED <<accounts, loop, history, faults>> /\ stored' = stored \union {writing[w]}
    BY <1>3 DEF Commit
  <2>4. late' \subseteq RowId
    BY <1>0, <1>3 DEF Commit, OpenRows
  <2> QED BY <1>0, <2>1, <2>2, <2>3, <2>4, RestOfType
<1>4. ASSUME NEW w \in Writers, RollBack(w)
      PROVE  TypeOK' /\ LogGrows
  <2>1. writing[w] \in Blocks
    BY <1>0, <1>4 DEF RollBack
  <2>2. LogGrows /\ RowId' = RowId /\ writing' \in [Writers -> Blocks \union {NoBlock}]
    BY <1>4, <2>1, LogEndBlock DEF RollBack
  <2>3. UNCHANGED <<stored, accounts, loop, history, late>>
    BY <1>4 DEF RollBack
  <2>4. faults' \in [FaultKind -> Nat]
    BY <1>4, FaultType DEF RollBack, FaultKind
  <2> QED BY <1>0, <2>1, <2>2, <2>3, <2>4, RestOfType
<1>5. ASSUME UNCHANGED events, UNCHANGED writers, UNCHANGED late,
             accounts' \in [Accounts -> Columns],
             processing_state' \in Nat, lastRowId' \in Nat,
             batch' \subseteq RowId, pc' \in {"start", "read", "handle", "sleep"},
             handled' \subseteq RowId, failed' \subseteq RowId,
             faults' \in [FaultKind -> Nat]
      PROVE  TypeOK' /\ LogGrows
  <2>1. LogGrows /\ RowId' = RowId
    BY <1>5, SameLog
  <2> QED BY <1>0, <1>5, <2>1, RestOfType
<1>6. ASSUME Start \/ StoreState \/ Wake
      PROVE  TypeOK' /\ LogGrows
  BY <1>0, <1>5, <1>6 DEF Start, StoreState, Wake
<1>7. ASSUME Read PROVE TypeOK' /\ LogGrows
  <2>1. FirstRows \subseteq RowId
    BY DEF FirstRows, Unprocessed, Committed
  <2> QED BY <1>0, <1>5, <1>7, <2>1 DEF Read
<1>8. ASSUME NEW i \in batch, Handle(i) PROVE TypeOK' /\ LogGrows
  <2>1. i \in RowId /\ i \in Nat
    BY <1>0, RowsAreFinite DEF TypeOK
  <2>2. Saved(i) \in [Accounts -> Columns]
    BY <2>1, SavedType
  <2> QED BY <1>0, <1>5, <1>8, <2>1, <2>2 DEF Handle, GoOn
<1>9. ASSUME NEW i \in batch, FailToSave(i) PROVE TypeOK' /\ LogGrows
  <2>1. i \in RowId /\ i \in Nat
    BY <1>0, RowsAreFinite DEF TypeOK
  <2>2. faults' \in [FaultKind -> Nat]
    BY <1>9, FaultType DEF FailToSave, FaultKind
  <2> QED BY <1>0, <1>5, <1>9, <2>1, <2>2 DEF FailToSave, GoOn
<1>10. ASSUME Crash PROVE TypeOK' /\ LogGrows
  <2>1. faults' \in [FaultKind -> Nat]
    BY <1>10, FaultType DEF Crash, FaultKind
  <2> QED BY <1>0, <1>5, <1>10, <2>1 DEF Crash
<1>11. ASSUME UNCHANGED vars PROVE TypeOK' /\ LogGrows
  BY <1>0, <1>5, <1>11 DEF vars
<1>12. TypeOK' /\ LogGrows
  BY <1>1, <1>2, <1>3, <1>4, <1>6, <1>7, <1>8, <1>9, <1>10, <1>11 DEF Next, Loop
<1> QED BY <1>12, LogGrowsRows

\* Rows have an event, a block and a status, blocks and accounts are those there are, and
\* what the loop keeps are rows of the log: whatever the writers and the loop do.
THEOREM IdentityTypeCorrect == Spec => []TypeOK
<1>1. Init => TypeOK
  BY IdentityInitType
<1>2. TypeOK /\ [Next]_vars => TypeOK'
  BY TypeStep
<1> QED BY <1>1, <1>2, PTL DEF Spec

-----------------------------------------------------------------------------
(***************************************************************************)
(* The loop passes only rows that are committed late.  Beside the property *)
(* itself the invariant says where the loop may stand, and that a batch    *)
(* has every row from the loop's place on to its last one, but for those   *)
(* committed late since it was read: a row that was handled before a crash *)
(* was committed before the batch was read, so it is in it.                *)
(***************************************************************************)
PlacesInv ==
    /\ lastRowId \in Committed \union {0} /\ processing_state \in Committed \union {0}
    /\ pc # "start" => processing_state <= lastRowId
    /\ handled \subseteq Committed /\ batch \subseteq Committed
    /\ \A i \in batch : lastRowId < i
    /\ pc # "handle" => batch = {}

BatchInv ==
    \A i \in Committed, j \in batch :
        lastRowId < i /\ i <= j => i \in batch \/ (i \in late /\ i \notin handled)

LoopInv == TypeOK /\ PlacesInv /\ BatchInv /\ OnlyLateRowsPassed

LEMMA CommittedRows ==
    ASSUME TypeOK
    PROVE  Committed \subseteq RowId /\ Committed \subseteq Nat \ {0} /\ IsFiniteSet(Committed)
<1>1. Committed \subseteq RowId
  BY DEF Committed
<1>2. 0 \notin RowId
  BY DEF TypeOK, RowId
<1> QED BY <1>1, <1>2, RowsAreFinite DEF TypeOK

LEMMA LoopInvInit == Init => LoopInv
<1> SUFFICES ASSUME Init PROVE LoopInv
  OBVIOUS
<1>1. Committed = {}
  BY DEF Init, Committed, RowId
<1>2. PlacesInv /\ BatchInv /\ OnlyLateRowsPassed
  BY <1>1 DEF Init, PlacesInv, BatchInv, OnlyLateRowsPassed
<1> QED BY <1>2, IdentityInitType DEF LoopInv

\* A row that is committed in a step is late, or has a greater row_id than all others.
NewRowsAreLast ==
    \A i \in Committed' \ Committed : i \in late' \/ \A j \in Committed : j < i

\* Steps of the writers: the loop finds new rows behind its place, or late ones before it.
LEMMA WriterStep ==
    ASSUME LoopInv, TypeOK', Committed \subseteq Committed', NewRowsAreLast,
           late \subseteq late', UNCHANGED <<loop, history>>,
           \A i \in late' \ late : i \notin Committed
    PROVE  (PlacesInv /\ BatchInv /\ OnlyLateRowsPassed)'
<1> USE DEF loop, history
<1>1. /\ lastRowId \in Committed \union {0} /\ processing_state \in Committed \union {0}
      /\ handled \subseteq Committed /\ batch \subseteq Committed
  BY DEF LoopInv, PlacesInv
<1>2. Committed \subseteq Nat \ {0}
  BY CommittedRows DEF LoopInv
<1>3. Committed' \subseteq Nat \ {0}
  <2>1. Committed' \subseteq RowId'
    BY DEF Committed
  <2>2. RowId' \subseteq Nat \ {0}
    BY DEF TypeOK, RowId
  <2> QED BY <2>1, <2>2
<1>4. PlacesInv'
  BY <1>1 DEF LoopInv, PlacesInv
<1>5. BatchInv'
  <2> SUFFICES ASSUME NEW i \in Committed', NEW j \in batch, lastRowId < i /\ i <= j
               PROVE  i \in batch \/ (i \in late' /\ i \notin handled)
    BY DEF BatchInv
  <2>1. CASE i \in Committed
    BY <2>1 DEF LoopInv, BatchInv
  <2>2. CASE i \notin Committed
    <3>1. j \in Committed /\ j \in Nat /\ i \in Nat
      BY <1>1, <1>2, <1>3
    <3>2. i \in late'
      BY <2>2, <3>1 DEF NewRowsAreLast
    <3> QED BY <1>1, <2>2, <3>2
  <2> QED BY <2>1, <2>2
<1>6. OnlyLateRowsPassed'
  <2> SUFFICES ASSUME NEW i \in Committed', i <= lastRowId \/ i <= processing_state
               PROVE  i \in handled \union failed \union late'
    BY DEF OnlyLateRowsPassed
  <2>1. CASE i \in Committed
    BY <2>1 DEF LoopInv, OnlyLateRowsPassed
  <2>2. CASE i \notin Committed
    <3>1. i \in Nat \ {0}
      BY <1>3
    <3>2. \E j \in Committed : ~ (j < i)
      BY <1>1, <1>2, <2>2, <3>1
    <3> QED BY <2>2, <3>2 DEF NewRowsAreLast
  <2> QED BY <2>1, <2>2
<1> QED BY <1>4, <1>5, <1>6

\* A batch has the rows that follow the loop's place without a gap.
LEMMA FirstRowsAreFirst ==
    ASSUME TypeOK, NEW j \in FirstRows, NEW i \in Committed, lastRowId < i, i <= j
    PROVE  i \in FirstRows
<1>1. Unprocessed \subseteq RowId /\ Unprocessed \subseteq Nat
  BY CommittedRows DEF Unprocessed
<1>2. j \in Unprocessed /\ Cardinality({k \in Unprocessed : k < j}) < ChunkSize
  BY DEF FirstRows
<1>3. i \in Nat /\ j \in Nat /\ lastRowId \in Nat
  BY <1>1, <1>2, CommittedRows DEF TypeOK
<1>4. i \in Unprocessed
  BY <1>3 DEF Unprocessed
<1>5. {k \in Unprocessed : k < i} \subseteq {k \in Unprocessed : k < j}
  <2>1. \A k \in Nat : k < i => k < j
    BY <1>3
  <2>2. ASSUME NEW k \in Unprocessed, k < i PROVE k < j
    BY <1>1, <2>1, <2>2
  <2> QED BY <2>2
<1>6. IsFiniteSet({k \in Unprocessed : k < j})
  BY <1>1, RowsAreFinite DEF TypeOK
<1>7. /\ Cardinality({k \in Unprocessed : k < i}) <= Cardinality({k \in Unprocessed : k < j})
      /\ Cardinality({k \in Unprocessed : k < i}) \in Nat
      /\ Cardinality({k \in Unprocessed : k < j}) \in Nat
  BY <1>5, <1>6, FS_Subset, FS_CardinalityType
<1>8. ChunkSize \in Nat
  BY IdentityAssumption
<1> QED BY <1>2, <1>4, <1>7, <1>8 DEF FirstRows

LEMMA ReadStep ==
    ASSUME LoopInv, Read
    PROVE  (PlacesInv /\ BatchInv /\ OnlyLateRowsPassed)'
<1>1. Committed' = Committed
  BY DEF Read, Committed, RowId
<1>2. UNCHANGED <<processing_state, lastRowId, history, late>> /\ batch' = FirstRows /\ pc = "read" /\ pc' = "handle"
  BY DEF Read
<1>3. FirstRows \subseteq Committed /\ \A i \in FirstRows : lastRowId < i
  <2>1. Committed \subseteq Nat /\ lastRowId \in Nat
    BY CommittedRows DEF LoopInv, TypeOK
  <2> QED BY <2>1 DEF FirstRows, Unprocessed
<1>4. PlacesInv'
  <2>1. /\ lastRowId \in Committed \union {0} /\ processing_state \in Committed \union {0}
        /\ processing_state <= lastRowId /\ handled \subseteq Committed
    BY <1>2 DEF LoopInv, PlacesInv
  <2>2. handled' = handled
    BY <1>2 DEF history
  <2> QED BY <1>1, <1>2, <1>3, <2>1, <2>2 DEF PlacesInv
<1>5. BatchInv'
  BY <1>1, <1>2, FirstRowsAreFirst DEF LoopInv, BatchInv
<1>6. OnlyLateRowsPassed'
  BY <1>1, <1>2 DEF LoopInv, OnlyLateRowsPassed, history
<1> QED BY <1>4, <1>5, <1>6

\* The next row of a batch: those passed on the way to it are late.
LEMMA GoOnStep ==
    ASSUME LoopInv, NEW i \in batch, GoOn(i),
           \/ handled' = handled \union {i} /\ failed' = failed
           \/ handled' = handled /\ failed' = failed \union {i}
    PROVE  (PlacesInv /\ BatchInv /\ OnlyLateRowsPassed)'
<1>1. Committed' = Committed
  BY DEF GoOn, Committed, RowId
<1>2. /\ UNCHANGED <<processing_state, pc, late>> /\ pc = "handle"
      /\ batch' = batch \ {i} /\ lastRowId' = i
      /\ \A j \in batch : i <= j
  BY DEF GoOn
<1>3. Committed \subseteq Nat /\ lastRowId \in Nat /\ processing_state \in Nat
  BY CommittedRows DEF LoopInv, TypeOK
<1>4. /\ batch \subseteq Committed /\ i \in Committed /\ lastRowId < i /\ handled \subseteq Committed
      /\ processing_state <= lastRowId /\ processing_state \in Committed \union {0}
  BY <1>2 DEF LoopInv, PlacesInv
<1>5. PlacesInv'
  <2>1. processing_state <= i
    BY <1>3, <1>4
  <2>2. \A j \in batch' : i < j
    BY <1>2, <1>3, <1>4
  <2>3. handled' \subseteq Committed /\ batch' \subseteq Committed
    BY <1>2, <1>4
  <2> QED BY <1>1, <1>2, <1>4, <2>1, <2>2, <2>3 DEF PlacesInv
<1>6. BatchInv'
  <2> SUFFICES ASSUME NEW k \in Committed, NEW j \in batch, j # i, i < k /\ k <= j
               PROVE  k \in batch \ {i} \/ (k \in late /\ k \notin handled')
    BY <1>1, <1>2 DEF BatchInv
  <2>1. lastRowId < k /\ k # i
    BY <1>3, <1>4
  <2>2. k \in batch \/ (k \in late /\ k \notin handled)
    BY <2>1 DEF LoopInv, BatchInv
  <2> QED BY <2>1, <2>2
<1>7. OnlyLateRowsPassed'
  <2> SUFFICES ASSUME NEW k \in Committed, k <= i \/ k <= processing_state
               PROVE  k \in handled' \union failed' \union late
    BY <1>1, <1>2 DEF OnlyLateRowsPassed
  <2>1. CASE k <= lastRowId \/ k <= processing_state
    BY <2>1 DEF LoopInv, OnlyLateRowsPassed
  <2>2. CASE lastRowId < k /\ k <= i
    <3>1. k \in batch \/ k \in late
      BY <2>2 DEF LoopInv, BatchInv
    <3>2. k \in batch => k = i
      BY <1>2, <1>3, <1>4, <2>2
    <3> QED BY <3>1, <3>2
  <2> QED BY <1>3, <1>4, <2>1, <2>2
<1> QED BY <1>5, <1>6, <1>7

\* Commit and RollBack in the terms of WriterStep.
LEMMA CommitRows ==
    ASSUME LoopInv, NEW w \in Writers, Commit(w)
    PROVE  NewRowsAreLast /\ late \subseteq late' /\ \A i \in late' \ late : i \notin Committed
<1>1. writing[w] \in Blocks
  BY DEF LoopInv, TypeOK, Commit
<1>2. RowId' = RowId /\ \A i \in RowId' : events'[i].status = "committed" =>
          i \in Committed \/ i \in OpenRows(writing[w])
  BY <1>1, LogEndBlock DEF LoopInv, Commit
<1>3. late' = late \union {i \in OpenRows(writing[w]) : \E j \in Committed : j > i}
  BY DEF Commit
<1>4. \A i \in OpenRows(writing[w]) : i \notin Committed
  BY DEF OpenRows, Committed
<1>5. NewRowsAreLast
  <2> SUFFICES ASSUME NEW i \in Committed', i \notin Committed, i \notin late',
                      NEW j \in Committed
               PROVE  j < i
    BY DEF NewRowsAreLast
  <2>1. i \in OpenRows(writing[w])
    BY <1>2 DEF Committed
  <2>2. ~ (j > i)
    BY <1>3, <2>1
  <2>3. i # j /\ i \in RowId /\ j \in Committed
    BY <2>1 DEF OpenRows
  <2>4. i \in Nat /\ j \in Nat
    BY <2>3, CommittedRows, RowsAreFinite DEF LoopInv, TypeOK
  <2> QED BY <2>2, <2>3, <2>4
<1> QED BY <1>3, <1>4, <1>5

LEMMA NothingNew ==
    ASSUME NothingCommitted
    PROVE  NewRowsAreLast
BY DEF NothingCommitted, NewRowsAreLast, Committed

LEMMA LoopInvStep == LoopInv /\ [Next]_vars => LoopInv'
<1> SUFFICES ASSUME LoopInv, [Next]_vars PROVE LoopInv'
  OBVIOUS
<1> USE DEF loop, history, writers
<1>0. TypeOK /\ TypeOK' /\ Committed \subseteq Committed'
  BY TypeStep DEF LoopInv
<1> DEFINE Goal == (PlacesInv /\ BatchInv /\ OnlyLateRowsPassed)'
<1>1. ASSUME NEW w \in Writers, NEW b \in Blocks, BeginBlock(w, b) PROVE Goal
  <2>1. NewRowsAreLast
    BY <1>0, <1>1, SameLog, NothingNew DEF BeginBlock
  <2> QED BY <1>0, <1>1, <2>1, WriterStep DEF BeginBlock
<1>2. ASSUME NEW w \in Writers, SaveEvent(w) PROVE Goal
  <2>1. NewRowsAreLast
    BY <1>0, <1>2, LogSaveEvent, NothingNew
  <2> QED BY <1>0, <1>2, <2>1, WriterStep DEF SaveEvent
<1>3. ASSUME NEW w \in Writers, Commit(w) PROVE Goal
  BY <1>0, <1>3, CommitRows, WriterStep DEF Commit
<1>4. ASSUME NEW w \in Writers, RollBack(w) PROVE Goal
  <2>1. writing[w] \in Blocks
    BY <1>0, <1>4 DEF RollBack, TypeOK
  <2>2. NothingCommitted
    <3>1. \A i \in RowId' : events'[i].status = "committed" => i \in Committed
      BY <1>0, <1>4, <2>1, LogEndBlock DEF RollBack
    <3> QED BY <3>1 DEF NothingCommitted
  <2> QED BY <1>0, <1>4, <2>2, NothingNew, WriterStep DEF RollBack
<1>5. ASSUME UNCHANGED events PROVE Committed' = Committed
  BY <1>5 DEF Committed, RowId
<1>6. ASSUME Start PROVE Goal
  <2>1. Committed' = Committed
    BY <1>5, <1>6 DEF Start
  <2>2. batch = {} /\ processing_state \in Nat
    BY <1>0, <1>6 DEF Start, LoopInv, PlacesInv, TypeOK
  <2> QED BY <1>6, <2>1, <2>2 DEF Start, LoopInv, PlacesInv, BatchInv, OnlyLateRowsPassed
<1>7. ASSUME Read PROVE Goal
  BY <1>7, ReadStep
<1>8. ASSUME StoreState PROVE Goal
  <2>1. Committed' = Committed
    BY <1>5, <1>8 DEF StoreState
  <2>2. lastRowId \in Nat
    BY <1>0 DEF TypeOK
  <2> QED BY <1>8, <2>1, <2>2 DEF StoreState, LoopInv, PlacesInv, BatchInv, OnlyLateRowsPassed
<1>9. ASSUME Wake PROVE Goal
  <2>1. Committed' = Committed
    BY <1>5, <1>9 DEF Wake
  <2> QED BY <1>9, <2>1 DEF Wake, LoopInv, PlacesInv, BatchInv, OnlyLateRowsPassed
<1>10. ASSUME NEW i \in batch, Handle(i) PROVE Goal
  BY <1>10, GoOnStep DEF Handle
<1>11. ASSUME NEW i \in batch, FailToSave(i) PROVE Goal
  BY <1>11, GoOnStep DEF FailToSave
<1>12. ASSUME Crash PROVE Goal
  <2>1. Committed' = Committed
    BY <1>5, <1>12 DEF Crash
  <2>2. Committed \subseteq Nat \ {0}
    BY <1>0, CommittedRows
  <2>3. \A i \in Committed : ~ (i <= 0)
    BY <2>2
  <2> QED BY <1>12, <2>1, <2>3 DEF Crash, LoopInv, PlacesInv, BatchInv, OnlyLateRowsPassed
<1>13. ASSUME UNCHANGED vars PROVE Goal
  <2>1. Committed' = Committed
    BY <1>5, <1>13 DEF vars
  <2> QED BY <1>13, <2>1 DEF vars, LoopInv, PlacesInv, BatchInv, OnlyLateRowsPassed
<1>14. Goal
  <2> HIDE DEF Goal
  <2> QED BY <1>1, <1>2, <1>3, <1>4, <1>6, <1>7, <1>8, <1>9, <1>10, <1>11, <1>12, <1>13
          DEF Next, Loop
<1> QED BY <1>0, <1>14 DEF LoopInv

LEMMA LoopInvariant == Spec => []LoopInv
<1>1. Init => LoopInv
  BY LoopInvInit
<1> QED BY <1>1, LoopInvStep, PTL DEF Spec

\* Whatever the loop is past, in memory or in the row it will start from again, it has
\* handled, but for accounts that could not be saved and rows that were committed late:
\* for any number of writers, blocks, crashes and failures, and any size of a batch.
THEOREM NoOtherRowPassed == Spec => []OnlyLateRowsPassed
<1>1. LoopInv => OnlyLateRowsPassed
  BY DEF LoopInv
<1> QED BY <1>1, LoopInvariant, PTL

-----------------------------------------------------------------------------
(***************************************************************************)
(* The accounts table shows the last events handled.  While rows are       *)
(* handled again after a crash, an account may show an earlier event; but  *)
(* not one whose last row the loop is past, in memory or in the row it     *)
(* will start from again.  That is the invariant: it needs no word on      *)
(* rows that are still to be handled again.                                *)
(***************************************************************************)
Past(i) == i <= lastRowId \/ i <= processing_state

Column(table, x, m) == IF m = "NewAccount" THEN table[x].created ELSE table[x].killed

\* Account x shows row i of method m, or an extrinsic it has signed.
Shows(x, m, i) ==
    \/ Column(accounts, x, m) = events[i].block
    \/ m = "NewAccount" /\ \E b \in Blocks : x \in Signers[b] /\ accounts[x].created = b

ColumnsInv ==
    failed = {} =>
        \A x \in Accounts, m \in Method, i \in handled :
            Past(i) /\ IsLastOf(i, HandledOf(x, m)) => Shows(x, m, i)

AccountsInv == LoopInv /\ ColumnsInv

\* A handler writes the column of its event and no other.
LEMMA SavedColumn ==
    ASSUME TypeOK, NEW i \in RowId, NEW x \in Accounts, NEW m \in Method
    PROVE  Column(Saved(i), x, m) = IF events[i].event = [account |-> x, method |-> m]
                                    THEN events[i].block ELSE Column(accounts, x, m)
<1>1. PICK e : e = events[i].event
  OBVIOUS
<1>2. PICK b : b = events[i].block
  OBVIOUS
<1>3. e \in Event /\ accounts \in [Accounts -> Columns]
  BY <1>1, SavedType DEF TypeOK
<1>4. e.account \in Accounts /\ e.method \in Method
  BY <1>3 DEF Event
<1>5. e = [account |-> x, method |-> m] <=> e.account = x /\ e.method = m
  BY <1>3 DEF Event
<1>6. accounts[x] \in Columns
  BY <1>3
<1>7. CASE e.method = "NewAccount"
  <2>1. Saved(i) = [accounts EXCEPT ![e.account].created = b]
    BY <1>1, <1>2, <1>7 DEF Saved
  <2>2. /\ Saved(i)[x].created = IF e.account = x THEN b ELSE accounts[x].created
        /\ Saved(i)[x].killed = accounts[x].killed
    BY <1>3, <1>4, <1>6, <2>1 DEF Columns
  <2> QED BY <1>1, <1>2, <1>5, <1>7, <2>2 DEF Column, Method
<1>8. CASE e.method # "NewAccount"
  <2>1. Saved(i) = [accounts EXCEPT ![e.account].killed = b] /\ e.method = "KilledAccount"
    BY <1>1, <1>2, <1>4, <1>8 DEF Saved, Method
  <2>2. /\ Saved(i)[x].killed = IF e.account = x THEN b ELSE accounts[x].killed
        /\ Saved(i)[x].created = accounts[x].created
    BY <1>3, <1>4, <1>6, <2>1 DEF Columns
  <2> QED BY <1>1, <1>2, <1>5, <1>8, <2>1, <2>2 DEF Column, Method
<1> QED BY <1>7, <1>8

\* Steps that handle no row: the table stays, or shows a signer's block.
LEMMA ColumnsKept ==
    ASSUME AccountsInv, LogGrows, UNCHANGED handled, failed \subseteq failed',
           \A i \in handled : Past(i)' => Past(i),
           \A x \in Accounts :
               /\ accounts'[x].killed = accounts[x].killed
               /\ \/ accounts'[x].created = accounts[x].created
                  \/ \E b \in Blocks : x \in Signers[b] /\ accounts'[x].created = b
    PROVE  ColumnsInv'
<1> SUFFICES ASSUME failed' = {}, NEW x \in Accounts, NEW m \in Method, NEW i \in handled,
                    Past(i)', IsLastOf(i, HandledOf(x, m)')
             PROVE  Shows(x, m, i)'
  BY DEF ColumnsInv, IsLastOf
<1>1. handled \subseteq RowId
  BY DEF AccountsInv, LoopInv, TypeOK
<1>2. \A k \in handled : events'[k].event = events[k].event /\ events'[k].block = events[k].block
  BY <1>1 DEF LogGrows
<1>3. HandledOf(x, m)' = HandledOf(x, m)
  BY <1>2 DEF HandledOf
<1>4. failed = {} /\ Past(i)
  OBVIOUS
<1>5. Shows(x, m, i)
  BY <1>3, <1>4 DEF AccountsInv, ColumnsInv
<1>6. events'[i].block = events[i].block
  BY <1>2
<1>7. CASE m = "NewAccount"
  <2>1. \/ accounts[x].created = events[i].block
        \/ \E b \in Blocks : x \in Signers[b] /\ accounts[x].created = b
    BY <1>5, <1>7 DEF Shows, Column
  <2>2. \/ accounts'[x].created = events'[i].block
        \/ \E b \in Blocks : x \in Signers[b] /\ accounts'[x].created = b
    BY <1>6, <2>1
  <2> QED BY <1>7, <2>2 DEF Shows, Column
<1>8. CASE m # "NewAccount"
  <2>1. accounts[x].killed = events[i].block
    BY <1>5, <1>8 DEF Shows, Column
  <2>2. accounts'[x].killed = events'[i].block
    BY <1>6, <2>1
  <2> QED BY <1>8, <2>2 DEF Shows, Column
<1> QED BY <1>7, <1>8

\* Handling a row: its own column shows it; the row a column showed before is one the
\* loop was past already, for a handled row on the way would be in the batch.
LEMMA ColumnsHandle ==
    ASSUME AccountsInv, NEW i \in batch, Handle(i)
    PROVE  ColumnsInv'
<1>1. TypeOK /\ i \in RowId /\ batch \subseteq Committed /\ handled \subseteq Committed
      /\ processing_state <= lastRowId /\ lastRowId < i
  BY DEF AccountsInv, LoopInv, TypeOK, PlacesInv, Handle, GoOn
<1>2. /\ UNCHANGED <<events, processing_state, failed>> /\ lastRowId' = i /\ accounts' = Saved(i)
      /\ handled' = handled \union {i} /\ \A j \in batch : i <= j
  BY DEF Handle, GoOn
<1>3. Committed \subseteq Nat /\ i \in Nat /\ lastRowId \in Nat /\ processing_state \in Nat
  BY <1>1, CommittedRows DEF TypeOK
<1> SUFFICES ASSUME failed = {}, NEW x \in Accounts, NEW m \in Method, NEW k \in handled \union {i},
                    k <= i \/ k <= processing_state, IsLastOf(k, HandledOf(x, m)')
             PROVE  Shows(x, m, k)'
  BY <1>2 DEF ColumnsInv, Past, IsLastOf
<1>4. HandledOf(x, m)' = {j \in handled \union {i} : events[j].event = [account |-> x, method |-> m]}
  BY <1>2 DEF HandledOf
<1>5. k \in Nat /\ k <= i
  BY <1>1, <1>3
<1>6. CASE events[i].event = [account |-> x, method |-> m]
  <2>1. i <= k
    BY <1>4, <1>6 DEF IsLastOf
  <2>2. k = i
    BY <1>3, <1>5, <2>1
  <2>3. Column(Saved(i), x, m) = events[i].block
    BY <1>1, <1>6, SavedColumn
  <2> QED BY <1>2, <2>2, <2>3 DEF Shows, Column
<1>7. CASE events[i].event # [account |-> x, method |-> m]
  <2>1. HandledOf(x, m)' = HandledOf(x, m)
    BY <1>4, <1>7 DEF HandledOf
  <2>2. k \in HandledOf(x, m) /\ IsLastOf(k, HandledOf(x, m))
    BY <2>1 DEF IsLastOf
  <2>3. k \in handled /\ k # i
    BY <1>7, <2>2 DEF HandledOf
  <2>4. k <= lastRowId
    <3>1. k \in Committed /\ (lastRowId < k => k \in batch)
      BY <1>1, <1>5, <2>3 DEF AccountsInv, LoopInv, BatchInv
    <3>2. k \in batch => i <= k
      BY <1>2
    <3> QED BY <1>3, <1>5, <2>3, <3>1, <3>2
  <2>5. Shows(x, m, k)
    BY <2>2, <2>3, <2>4 DEF AccountsInv, ColumnsInv, Past
  <2>6. Column(Saved(i), x, m) = Column(accounts, x, m)
    BY <1>1, <1>7, SavedColumn
  <2>7. m = "NewAccount" => Saved(i)[x].created = accounts[x].created
    BY <2>6 DEF Column
  <2>8. Column(accounts', x, m) = Column(accounts, x, m)
    BY <1>2, <2>6
  <2>9. Shows(x, m, k)' <=> \/ Column(accounts', x, m) = events[k].block
                            \/ m = "NewAccount" /\ \E b \in Blocks : x \in Signers[b] /\ accounts'[x].created = b
    BY <1>2 DEF Shows, Column
  <2> QED BY <1>2, <2>5, <2>7, <2>8, <2>9 DEF Shows
<1> QED BY <1>6, <1>7

LEMMA AccountsInvInit == Init => AccountsInv
<1> SUFFICES ASSUME Init PROVE AccountsInv
  OBVIOUS
<1>1. ColumnsInv
  BY DEF Init, ColumnsInv
<1> QED BY <1>1, LoopInvInit DEF AccountsInv

LEMMA AccountsInvStep == AccountsInv /\ [Next]_vars => AccountsInv'
<1> SUFFICES ASSUME AccountsInv, [Next]_vars PROVE AccountsInv'
  OBVIOUS
<1> USE DEF loop, history, writers
<1>0. LoopInv /\ LoopInv' /\ TypeOK /\ LogGrows
  BY LoopInvStep, TypeStep DEF AccountsInv, LoopInv
<1>1. handled \subseteq Nat \ {0} /\ processing_state \in Nat /\ lastRowId \in Nat
  BY <1>0, CommittedRows DEF LoopInv, PlacesInv, TypeOK
<1>2. ASSUME UNCHANGED <<handled, accounts>>, failed \subseteq failed',
             \A i \in handled : Past(i)' => Past(i)
      PROVE  ColumnsInv'
  <2>1. \A x \in Accounts : /\ accounts'[x].killed = accounts[x].killed
                            /\ accounts'[x].created = accounts[x].created
    BY <1>2
  <2> QED BY <1>0, <1>2, <2>1, ColumnsKept
<1>3. ASSUME NEW w \in Writers, NEW b \in Blocks, BeginBlock(w, b) PROVE ColumnsInv'
  <2>1. PICK saved \in SUBSET Signers[b] :
            accounts' = [x \in Accounts |-> IF x \in saved THEN [accounts[x] EXCEPT !.created = b]
                                            ELSE accounts[x]]
    BY <1>3 DEF BeginBlock
  <2>2. \A x \in Accounts : accounts[x] \in Columns
    BY <1>0 DEF TypeOK
  <2>3. \A x \in Accounts :
            /\ accounts'[x].killed = accounts[x].killed
            /\ \/ accounts'[x].created = accounts[x].created
               \/ x \in Signers[b] /\ accounts'[x].created = b
    BY <2>1, <2>2 DEF Columns
  <2>4. UNCHANGED <<handled, failed, lastRowId, processing_state>>
    BY <1>3 DEF BeginBlock
  <2>5. \A i \in handled : Past(i)' => Past(i)
    BY <2>4 DEF Past
  <2> QED BY <1>0, <2>3, <2>4, <2>5, ColumnsKept
<1>4. ASSUME NEW w \in Writers, SaveEvent(w) \/ Commit(w) \/ RollBack(w) PROVE ColumnsInv'
  BY <1>2, <1>4 DEF SaveEvent, Commit, RollBack, Past
<1>5. ASSUME Start \/ StoreState \/ Read \/ Wake \/ UNCHANGED vars PROVE ColumnsInv'
  BY <1>2, <1>5 DEF Start, StoreState, Read, Wake, vars, Past
<1>6. ASSUME NEW i \in batch, Handle(i) PROVE ColumnsInv'
  BY <1>6, ColumnsHandle
<1>7. ASSUME NEW i \in batch, FailToSave(i) PROVE ColumnsInv'
  BY <1>7 DEF FailToSave, ColumnsInv
<1>8. ASSUME Crash PROVE ColumnsInv'
  <2>1. \A i \in handled : ~ (i <= 0)
    BY <1>1
  <2> QED BY <1>2, <1>8, <2>1 DEF Crash, Past
<1>9. ColumnsInv'
  BY <1>3, <1>4, <1>5, <1>6, <1>7, <1>8 DEF Next, Loop
<1> QED BY <1>0, <1>9 DEF AccountsInv

\* Once the loop is past every row it has handled, each account shows its last events,
\* or an extrinsic it signed: also if rows were handled twice and out of order, after any
\* number of crashes, and whatever is rolled back or committed late.
THEOREM LastEventsShown == Spec => []AccountsFollowEvents
<1>1. ASSUME AccountsInv PROVE AccountsFollowEvents
  <2> SUFFICES ASSUME failed = {}, \A i \in handled : i <= lastRowId,
                      NEW x \in Accounts, NEW i \in handled
               PROVE  /\ IsLastOf(i, HandledOf(x, "KilledAccount")) =>
                             accounts[x].killed = events[i].block
                      /\ IsLastOf(i, HandledOf(x, "NewAccount")) =>
                             \/ accounts[x].created = events[i].block
                             \/ \E b \in Blocks : x \in Signers[b] /\ accounts[x].created = b
    BY DEF AccountsFollowEvents
  <2>1. \A m \in Method : IsLastOf(i, HandledOf(x, m)) => Shows(x, m, i)
    BY <1>1 DEF AccountsInv, ColumnsInv, Past
  <2>2. IsLastOf(i, HandledOf(x, "KilledAccount")) => Shows(x, "KilledAccount", i)
    BY <2>1 DEF Method
  <2>3. IsLastOf(i, HandledOf(x, "NewAccount")) => Shows(x, "NewAccount", i)
    BY <2>1 DEF Method
  <2> QED BY <2>2, <2>3 DEF Shows, Column
<1>2. Spec => []AccountsInv
  BY AccountsInvInit, AccountsInvStep, PTL DEF Spec
<1> QED BY <1>1, <1>2, PTL
=============================================================================
