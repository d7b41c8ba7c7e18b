--------------------------- MODULE IdentitiesProofs ---------------------------
(***************************************************************************)
(* Proofs about Identities, for any accounts, extrinsics, levels and        *)
(* batches, and any number of crashes: its types, that an account has the   *)
(* parent that was last said of it, and that all below an account say what  *)
(* it says when that has been saved.                                        *)
(***************************************************************************)
EXTENDS Identities, FiniteSetTheorems, SequenceTheorems, WellFoundedInduction, TLAPS

-----------------------------------------------------------------------------
(* The data an extrinsic, a row and a job have.                            *)

LEMMA ValuesApart ==
    /\ Null \notin Accounts /\ Absent \notin Accounts /\ Null # Absent
    /\ Null \notin Infos /\ Absent \notin Infos
BY IdentitiesAssumption

LEMMA DataOfAnExtrinsic ==
    ASSUME NEW e \in Extrinsics
    PROVE  /\ DataOf(e) \in Partial
           /\ AccountsOf(e) \subseteq Accounts
           /\ DataOf(e).parent = Absent /\ AccountsOf(e) # {} => AccountsOf(e) = {e.signer}
<1>1. /\ e.method \in Method /\ e.signer \in Accounts /\ e.subs \subseteq Accounts
      /\ e.info \in Infos \union {Absent}
  BY IdentitiesAssumption DEF Extrinsic
<1>2. /\ DataOf(e).parent \in Accounts \union {Null, Absent}
      /\ DataOf(e).info \in Infos \union {Null, Absent}
  BY <1>1 DEF DataOf
<1>3. DataOf(e) \in Partial
  BY <1>2 DEF DataOf, Partial
<1>4. AccountsOf(e) \subseteq Accounts
  BY <1>1 DEF AccountsOf
<1>5. ASSUME DataOf(e).parent = Absent, AccountsOf(e) # {}
      PROVE  AccountsOf(e) = {e.signer}
  BY <1>1, <1>5, ValuesApart DEF DataOf, AccountsOf, Method
<1> QED BY <1>3, <1>4, <1>5

\* A job is a record of its fields.
LEMMA JobFields ==
    ASSUME NEW j \in Job
    PROVE  /\ j = [pc |-> j.pc, todo |-> j.todo, at |-> j.at, climbed |-> j.climbed, old |-> j.old]
           /\ j.pc \in {"find", "write", "children"} /\ j.todo \in Seq(Save) /\ j.at \in Accounts
           /\ j.climbed \in 0..MaxDeep /\ j.old \in Partial
BY DEF Job

LEMMA IsJob ==
    ASSUME NEW p \in {"find", "write", "children"}, NEW todo \in Seq(Save), NEW at \in Accounts,
           NEW climbed \in 0..MaxDeep, NEW old \in Partial
    PROVE  [pc |-> p, todo |-> todo, at |-> at, climbed |-> climbed, old |-> old] \in Job
BY DEF Job

\* The job goes on, with another row in hand.
LEMMA JobGoesOn ==
    ASSUME NEW j \in Job, NEW p \in {"write", "children"}, NEW old \in Partial
    PROVE  LET new == [j EXCEPT !.pc = p, !.old = old] IN
           new \in Job /\ new.pc = p /\ new.todo = j.todo /\ new.old = old
<1>1. /\ j = [pc |-> j.pc, todo |-> j.todo, at |-> j.at, climbed |-> j.climbed, old |-> j.old]
      /\ j.todo \in Seq(Save) /\ j.at \in Accounts /\ j.climbed \in 0..MaxDeep
  BY JobFields
<1>2. PICK w : w = [j EXCEPT !.pc = p, !.old = old]
  OBVIOUS
<1>3. w = [pc |-> p, todo |-> j.todo, at |-> j.at, climbed |-> j.climbed, old |-> old]
  BY <1>1, <1>2
<1>4. [pc |-> p, todo |-> j.todo, at |-> j.at, climbed |-> j.climbed, old |-> old] \in Job
  BY <1>1, IsJob
<1>5. w \in Job /\ w.pc = p /\ w.todo = j.todo /\ w.old = old
  BY <1>3, <1>4
<1> QED BY <1>2, <1>5

LEMMA JobWithStep ==
    ASSUME TypeOK, NEW a \in Accounts, jobs[a].pc \in {"find", "write", "children"}
    PROVE  jobs[a] \in Job /\ jobs[a] # NoJob
<1>1. jobs[a] \in Job \union {NoJob}
  BY DEF TypeOK
<1> QED BY <1>1 DEF NoJob

\* The first of the calls a job has to do.
LEMMA FirstCall ==
    ASSUME NEW j \in Job, j.todo # <<>>
    PROVE  /\ Len(j.todo) \in Nat /\ 1 \in DOMAIN j.todo /\ Head(j.todo) = j.todo[1]
           /\ Head(j.todo) \in Save
           /\ Tail(j.todo) \in Seq(Save)
           /\ DOMAIN Tail(j.todo) = 1..Len(j.todo) - 1
           /\ \A i \in DOMAIN Tail(j.todo) : i + 1 \in DOMAIN j.todo /\ Tail(j.todo)[i] = j.todo[i + 1]
<1>1. j.todo \in Seq(Save)
  BY JobFields
<1> QED BY <1>1

LEMMA SaveFields ==
    ASSUME NEW s \in Save
    PROVE  /\ s.account \in Accounts /\ s.data \in Partial /\ s.deep \in 0..MaxDeep
           /\ s.data.parent \in Accounts \union {Null, Absent}
           /\ s.data.info \in Infos \union {Null, Absent}
BY DEF Save, Partial

LEMMA NothingIsPartial == NoIdentity \in Partial /\ NoIdentity.parent = Absent /\ NoIdentity \notin Columns
BY ValuesApart DEF NoIdentity, Partial, Columns

LEMMA RowFields ==
    ASSUME TypeOK, NEW a \in Accounts
    PROVE  /\ identities[a] \in Partial
           /\ identities[a].parent # a
           /\ identities[a] = NoIdentity <=> identities[a].parent = Absent
           /\ identities[a] # NoIdentity => /\ identities[a] \in Columns
                                            /\ identities[a].parent \in Accounts \union {Null}
<1>1. identities[a] \in Columns \union {NoIdentity} /\ identities[a].parent # a
  BY DEF TypeOK
<1>2. ASSUME NEW r \in Columns
      PROVE  r \in Partial /\ r.parent \in Accounts \union {Null}
  BY DEF Columns, Partial
<1> QED BY <1>1, <1>2, NothingIsPartial, ValuesApart

LEMMA MergedType ==
    ASSUME NEW r \in Partial, NEW d \in Partial
    PROVE  /\ Merged(r, d) \in Partial
           /\ Merged(r, d).parent = IF d.parent = Absent THEN r.parent ELSE d.parent
           /\ Merged(r, d).info = IF d.info = Absent THEN r.info ELSE d.info
<1>1. /\ r.parent \in Accounts \union {Null, Absent} /\ r.info \in Infos \union {Null, Absent}
      /\ d.parent \in Accounts \union {Null, Absent} /\ d.info \in Infos \union {Null, Absent}
  BY DEF Partial
<1> QED BY <1>1 DEF Merged, Partial

\* What is written: a row that is not its own parent.
LEMMA WrittenRow ==
    ASSUME NEW a \in Accounts, NEW row \in Columns, row.parent # a,
           NEW d \in Partial
    PROVE  LET u == WithoutOwnParent(a, d) IN
           /\ u \in Partial
           /\ u.parent = IF d.parent = a THEN Absent ELSE d.parent
           /\ Merged(row, u) \in Columns
           /\ Merged(row, u).parent = IF u.parent = Absent THEN row.parent ELSE u.parent
           /\ Merged(row, u).parent # a
           /\ u.info = d.info /\ Merged(row, u).info = IF d.info = Absent THEN row.info ELSE d.info
<1>1. /\ d.parent \in Accounts \union {Null, Absent} /\ d.info \in Infos \union {Null, Absent}
      /\ d = [parent |-> d.parent, info |-> d.info]
  BY DEF Partial
<1>2. row.parent \in Accounts \union {Null} /\ row.info \in Infos \union {Null}
  BY DEF Columns
<1> DEFINE u == WithoutOwnParent(a, d)
<1>3. u = [parent |-> IF d.parent = a THEN Absent ELSE d.parent, info |-> d.info]
  BY <1>1 DEF WithoutOwnParent
<1>4. u \in Partial /\ u.parent = (IF d.parent = a THEN Absent ELSE d.parent) /\ u.parent # a
  BY <1>1, <1>3, ValuesApart DEF Partial
<1>5. Merged(row, u).parent = IF u.parent = Absent THEN row.parent ELSE u.parent
  BY DEF Merged
<1>6. Merged(row, u) \in Columns
  BY <1>1, <1>2, <1>3 DEF Merged, Columns
<1>7. Merged(row, u).parent # a
  BY <1>4, <1>5
<1>8. u.info = d.info
  BY <1>3
<1>9. Merged(row, u).info = IF u.info = Absent THEN row.info ELSE u.info
  BY DEF Merged
<1> QED BY <1>4, <1>5, <1>6, <1>7, <1>8, <1>9

-----------------------------------------------------------------------------
(* Types.                                                                  *)

\* The part of the types that a job's step changes.
LEMMA JobStepType ==
    ASSUME TypeOK, NEW a \in Accounts, NEW new \in Job \union {NoJob},
           jobs' = [jobs EXCEPT ![a] = new],
           UNCHANGED <<identities, batch, begun, said, extrinsics, crashes>>
    PROVE  TypeOK'
<1>1. jobs' \in [Accounts -> Job \union {NoJob}]
  BY DEF TypeOK
<1> QED BY <1>1 DEF TypeOK

LEMMA OwnJob ==
    ASSUME NEW e \in Extrinsics, NEW a \in AccountsOf(e)
    PROVE  JobOf(a, e) \in Job
<1>1. a \in Accounts /\ DataOf(e) \in Partial
  BY DataOfAnExtrinsic
<1>2. MaxDeep \in Nat
  BY IdentitiesAssumption
<1>3. [account |-> a, data |-> DataOf(e), deep |-> 0] \in Save
  BY <1>1, <1>2 DEF Save
<1>4. <<[account |-> a, data |-> DataOf(e), deep |-> 0]>> \in Seq(Save)
  BY <1>3
<1>5. PICK todo \in Seq(Save) : todo = <<[account |-> a, data |-> DataOf(e), deep |-> 0]>>
  BY <1>4
<1>6. [pc |-> "find", todo |-> todo, at |-> a, climbed |-> 0, old |-> NoIdentity] \in Job
  BY <1>1, <1>2, IsJob, NothingIsPartial
<1> QED BY <1>5, <1>6 DEF JobOf

LEMMA BeginType ==
    ASSUME TypeOK, NEW e \in Extrinsics, Begin(e),
           batch' \in Seq(Extrinsics), Len(batch') <= ChunkSize, begun' \in 0..Len(batch'),
           extrinsics' \in 0..MaxExtrinsics
    PROVE  TypeOK'
<1>1. jobs' \in [Accounts -> Job \union {NoJob}]
  BY OwnJob DEF Begin
<1> QED BY <1>1 DEF TypeOK, Begin

LEMMA BeginNextType ==
    ASSUME TypeOK, NEW e \in Extrinsics, BeginNext(e)
    PROVE  TypeOK'
<1>1. /\ batch' \in Seq(Extrinsics) /\ Len(batch') = Len(batch) + 1 /\ Len(batch) \in Nat
      /\ begun' \in 0..Len(batch')
  BY DEF TypeOK, BeginNext, Begin
<1>2. Len(batch') <= ChunkSize /\ extrinsics' \in 0..MaxExtrinsics
  BY <1>1, IdentitiesAssumption DEF TypeOK, BeginNext
<1> QED BY <1>1, <1>2, BeginType DEF BeginNext

LEMMA BeginAgainType ==
    ASSUME TypeOK, BeginAgain
    PROVE  TypeOK'
<1>1. batch[begun + 1] \in Extrinsics /\ begun' \in 0..Len(batch)
  BY DEF TypeOK, BeginAgain, Begin
<1> QED BY <1>1, BeginType DEF BeginAgain, TypeOK

LEMMA FindType ==
    ASSUME TypeOK, NEW a \in Accounts, Find(a), jobs[a].todo # <<>>
    PROVE  TypeOK'
<1> DEFINE j == jobs[a]
<1>1. j \in Job
  BY JobWithStep DEF Find
<1>2. PICK at : at = Above(j)
  OBVIOUS
<1>3. at \in Accounts \union {Null, Absent}
  <2>1. j.at \in Accounts /\ Head(j.todo) \in Save
    BY <1>1, JobFields, FirstCall
  <2>2. Head(j.todo).data.parent \in Accounts \union {Null, Absent}
    BY <2>1, SaveFields
  <2>3. identities[j.at] # NoIdentity => identities[j.at].parent \in Accounts \union {Null}
    BY <2>1, RowFields
  <2> QED BY <1>2, <2>2, <2>3 DEF Above
<1>4. ASSUME NEW old \in Partial
      PROVE  [j EXCEPT !.pc = "write", !.old = old] \in Job
  BY <1>1, <1>4, JobGoesOn
<1>5. identities[j.at] \in Partial /\ NoIdentity \in Partial
  BY <1>1, JobFields, RowFields, NothingIsPartial
<1>6. ASSUME at \in Accounts, j.climbed < MaxDeep
      PROVE  Climb(j) \in Job
  <2>1. j.climbed + 1 \in 0..MaxDeep
    BY <1>1, <1>6, JobFields, IdentitiesAssumption
  <2>2. PICK n \in 0..MaxDeep : n = j.climbed + 1
    BY <2>1
  <2>3. PICK w : w = [j EXCEPT !.at = at, !.climbed = n]
    OBVIOUS
  <2>4. Climb(j) = w
    BY <1>2, <2>2, <2>3 DEF Climb
  <2>5. j = [pc |-> j.pc, todo |-> j.todo, at |-> j.at, climbed |-> j.climbed, old |-> j.old]
    BY <1>1, JobFields
  <2>6. w = [pc |-> j.pc, todo |-> j.todo, at |-> at, climbed |-> n, old |-> j.old]
    BY <2>3, <2>5
  <2>7. /\ j.pc \in {"find", "write", "children"} /\ j.todo \in Seq(Save) /\ j.old \in Partial
    BY <1>1, JobFields
  <2>8. [pc |-> j.pc, todo |-> j.todo, at |-> at, climbed |-> n, old |-> j.old] \in Job
    BY <1>6, <2>7, IsJob
  <2> QED BY <2>4, <2>6, <2>8
<1>7. PICK new : new = IF at \in {Null, Absent, j.at} THEN [j EXCEPT !.pc = "write", !.old = identities[j.at]]
                       ELSE IF j.climbed < MaxDeep THEN Climb(j)
                       ELSE [j EXCEPT !.pc = "write", !.old = NoIdentity]
  OBVIOUS
<1>8. new \in Job
  BY <1>3, <1>4, <1>5, <1>6, <1>7
<1>9. jobs' = [jobs EXCEPT ![a] = new]
  BY <1>2, <1>7 DEF Find
<1> QED BY <1>8, <1>9, JobStepType DEF Find

\* What an insert leaves: the row has its type, and the job goes on to the children.
LEMMA WriteStep ==
    ASSUME TypeOK, NEW a \in Accounts, Write(a), jobs[a].todo # <<>>,
           NEW s, s = Head(jobs[a].todo)
    PROVE  LET row == IF identities[s.account] = NoIdentity THEN NewRow ELSE identities[s.account]
               d == Merged(jobs[a].old, s.data)
               parent == IF d.parent \in {s.account, Absent} THEN row.parent ELSE d.parent IN
           /\ s \in Save
           /\ identities' \in [Accounts -> Columns \union {NoIdentity}]
           /\ identities'[s.account] \in Columns
           /\ identities'[s.account].parent = parent /\ parent # s.account
           /\ \A b \in Accounts \ {s.account} : identities'[b] = identities[b]
           /\ Updated(jobs[a]) \in Partial /\ Updated(jobs[a]).info = d.info
           /\ identities'[s.account].info = IF d.info = Absent THEN row.info ELSE d.info
<1> DEFINE b == s.account
           d == Merged(jobs[a].old, s.data)
<1>1. jobs[a] \in Job
  BY JobWithStep DEF Write
<1>2. s \in Save
  BY <1>1, FirstCall
<1>3. b \in Accounts /\ s.data \in Partial
  BY <1>2, SaveFields
<1>4. d \in Partial
  BY <1>1, <1>3, JobFields, MergedType
<1>5. PICK row : row = IF identities[b] = NoIdentity THEN NewRow ELSE identities[b]
  OBVIOUS
<1>6. row \in Columns /\ row.parent # b
  BY <1>3, <1>5, RowFields, ValuesApart DEF NewRow, Columns
<1>7. PICK u : u = WithoutOwnParent(b, d)
  OBVIOUS
<1>8. /\ u \in Partial
      /\ u.parent = IF d.parent = b THEN Absent ELSE d.parent
      /\ Merged(row, u) \in Columns
      /\ Merged(row, u).parent = IF u.parent = Absent THEN row.parent ELSE u.parent
      /\ Merged(row, u).parent # b
      /\ u.info = d.info /\ Merged(row, u).info = IF d.info = Absent THEN row.info ELSE d.info
  BY <1>3, <1>4, <1>6, <1>7, WrittenRow
<1>9. Updated(jobs[a]) = u
  BY <1>7 DEF Updated
<1>10. identities' = [identities EXCEPT ![b] = Merged(row, u)]
  BY <1>5, <1>9 DEF Write
<1>11. identities \in [Accounts -> Columns \union {NoIdentity}]
  BY DEF TypeOK
<1>12. /\ identities' \in [Accounts -> Columns \union {NoIdentity}]
       /\ identities'[b] = Merged(row, u)
       /\ \A x \in Accounts \ {b} : identities'[x] = identities[x]
  BY <1>3, <1>8, <1>10, <1>11
<1>13. Merged(row, u).parent = IF d.parent \in {b, Absent} THEN row.parent ELSE d.parent
  BY <1>3, <1>8, ValuesApart
<1> QED BY <1>2, <1>5, <1>8, <1>9, <1>12, <1>13

LEMMA SaidType ==
    ASSUME TypeOK, NEW a \in Accounts, Write(a), jobs[a].todo # <<>>
    PROVE  said' \in [Accounts -> [by : Accounts \union {Null}, own : BOOLEAN, shared : BOOLEAN]]
<1> DEFINE T == [by : Accounts \union {Null}, own : BOOLEAN, shared : BOOLEAN]
<1>1. PICK s : s = Head(jobs[a].todo)
  OBVIOUS
<1>2. jobs[a] \in Job
  BY JobWithStep DEF Write
<1>3. s.data.parent \in Accounts \union {Null, Absent}
  BY <1>1, <1>2, FirstCall, SaveFields
<1>4. said \in [Accounts -> T]
  BY DEF TypeOK
<1>5. CASE said' = said
  BY <1>4, <1>5
<1>6. CASE said' = [said EXCEPT ![a].own = TRUE]
  <2>1. said[a] \in T
    BY <1>4
  <2>2. [said[a] EXCEPT !.own = TRUE] \in T
    BY <2>1
  <2> QED BY <1>4, <1>6, <2>2
<1>7. CASE /\ s.data.parent # Absent
           /\ said' = [said EXCEPT ![a] = [by |-> s.data.parent, own |-> FALSE,
                                          shared |-> Cardinality(AccountsOf(batch[begun])) > 1]]
  <2>1. [by |-> s.data.parent, own |-> FALSE, shared |-> Cardinality(AccountsOf(batch[begun])) > 1] \in T
    BY <1>3, <1>7
  <2> QED BY <1>4, <1>7, <2>1
<1> QED BY <1>1, <1>5, <1>6, <1>7 DEF Write

LEMMA WriteType ==
    ASSUME TypeOK, NEW a \in Accounts, Write(a), jobs[a].todo # <<>>
    PROVE  TypeOK'
<1>1. PICK s : s = Head(jobs[a].todo)
  OBVIOUS
<1>2. /\ identities' \in [Accounts -> Columns \union {NoIdentity}]
      /\ \A b \in Accounts : identities'[b].parent # b
      /\ Updated(jobs[a]) \in Partial
  BY <1>1, WriteStep DEF TypeOK
<1>3. jobs[a] \in Job
  BY JobWithStep DEF Write
<1>4. [jobs[a] EXCEPT !.pc = "children", !.old = Updated(jobs[a])] \in Job
  BY <1>2, <1>3, JobGoesOn
<1>5. jobs' = [jobs EXCEPT ![a] = [jobs[a] EXCEPT !.pc = "children", !.old = Updated(jobs[a])]]
  BY <1>3 DEF Write, TypeOK
<1>6. jobs' \in [Accounts -> Job \union {NoJob}]
  BY <1>4, <1>5 DEF TypeOK
<1> QED BY <1>2, <1>6, SaidType DEF TypeOK, Write

\* An order of a set has each of its elements.
LEMMA Enumerated ==
    ASSUME NEW S, S \subseteq Accounts
    PROVE  /\ Cardinality(S) \in Nat
           /\ \A order \in SetToSeqs(S) :
                 /\ DOMAIN order = 1..Cardinality(S) /\ order \in [1..Cardinality(S) -> S]
                 /\ \A b \in S : \E i \in 1..Cardinality(S) : order[i] = b
<1>1. IsFiniteSet(S)
  BY IdentitiesAssumption, FS_Subset
<1>2. PICK n \in Nat : n = Cardinality(S)
  BY <1>1, FS_CardinalityType
<1>3. ASSUME NEW order \in SetToSeqs(S)
      PROVE  /\ DOMAIN order = 1..n /\ order \in [1..n -> S]
             /\ \A b \in S : \E i \in 1..n : order[i] = b
  <2>1. order \in [1..n -> S] /\ \A i, k \in 1..n : i # k => order[i] # order[k]
    BY <1>2 DEF SetToSeqs
  <2>2. order \in Injection(1..n, S)
    BY <2>1 DEF Injection, IsInjective
  <2>3. Cardinality(1..n) = n
    BY FS_Interval
  <2>4. order \in Surjection(1..n, S)
    BY <1>1, <1>2, <2>2, <2>3, FS_Injection
  <2> QED BY <2>1, <2>4 DEF Surjection
<1> QED BY <1>2, <1>3

\* The children to save, and the call for each: the parent it has, and the fields above.
LEMMA ChildCalls ==
    ASSUME TypeOK, NEW s \in Save, NEW data \in Partial, NEW b \in Children(s.account),
           Deeper(s.deep) <= MaxDeep
    PROVE  LET call == ChildSave(b, s, data) IN
           /\ call \in Save /\ call.account = b /\ call.deep # 0
           /\ call.data.parent = s.account /\ s.account \in Accounts \ {b}
           /\ b \in Accounts /\ identities[b].parent = s.account /\ identities[b] # NoIdentity
<1>1. b \in Accounts /\ identities[b].parent = s.account
  BY DEF Children
<1>2. s.account \in Accounts /\ s.deep \in 0..MaxDeep
  BY SaveFields
<1>3. s.account # b /\ identities[b] # NoIdentity
  BY <1>1, <1>2, RowFields, ValuesApart
<1>4. Inherits(b, data) \in Infos \union {Null}
  <2>1. data.info \in Infos \union {Null, Absent}
    BY DEF Partial
  <2> QED BY <2>1 DEF Inherits
<1>5. PICK info : info = Inherits(b, data)
  OBVIOUS
<1>6. PICK d : d = [parent |-> s.account, info |-> info]
  OBVIOUS
<1>7. d \in Partial /\ d.parent = s.account
  BY <1>2, <1>4, <1>5, <1>6 DEF Partial
<1>8. PICK n : n = Deeper(s.deep)
  OBVIOUS
<1>9. n \in 0..MaxDeep /\ n # 0
  BY <1>2, <1>8, IdentitiesAssumption DEF Deeper
<1>10. PICK call : call = [account |-> b, deep |-> n, data |-> d]
  OBVIOUS
<1>11. call = ChildSave(b, s, data)
  BY <1>5, <1>6, <1>8, <1>10 DEF ChildSave
<1>12. call \in Save /\ call.account = b /\ call.deep # 0 /\ call.data.parent = s.account
  BY <1>1, <1>7, <1>9, <1>10 DEF Save
<1> QED BY <1>1, <1>2, <1>3, <1>11, <1>12

\* What is left to do when the children are read: those, and what there was.
LeftToDo(j, todo) ==
    LET s == Head(j.todo)
        Saved(b) == \E i \in DOMAIN todo : todo[i] = ChildSave(b, s, j.old) IN
    /\ \A i \in DOMAIN todo :
          \/ \E k \in DOMAIN j.todo \ {1} : todo[i] = j.todo[k]
          \/ Deeper(s.deep) <= MaxDeep /\ \E b \in Children(s.account) : todo[i] = ChildSave(b, s, j.old)
    /\ \A k \in DOMAIN j.todo \ {1} : \E i \in DOMAIN todo : todo[i] = j.todo[k]
    /\ Deeper(s.deep) <= MaxDeep => \A b \in Children(s.account) : Saved(b)

LEMMA ReadChildrenStep ==
    ASSUME TypeOK, NEW a \in Accounts, ReadChildren(a), jobs[a].todo # <<>>
    PROVE  \E todo \in Seq(Save), new \in Job \union {NoJob} :
        /\ jobs' = [jobs EXCEPT ![a] = new]
        /\ IF todo = <<>> THEN new = NoJob
           ELSE new # NoJob /\ new.pc = "write" /\ new.todo = todo /\ new.old = NoIdentity
        /\ LeftToDo(jobs[a], todo)
<1>1. PICK j \in Job : j = jobs[a]
  BY JobWithStep DEF ReadChildren
<1>2. PICK s \in Save : s = Head(j.todo)
  BY <1>1, FirstCall
<1>3. j.old \in Partial
  BY <1>1, JobFields
<1>4. PICK children : children = IF Deeper(s.deep) > MaxDeep THEN {} ELSE Children(s.account)
  OBVIOUS
<1>5. children \subseteq Accounts
  BY <1>4 DEF Children
<1>6. PICK order \in SetToSeqs(children) :
        jobs' = [jobs EXCEPT ![a] =
            IF [i \in DOMAIN order |-> ChildSave(order[i], s, j.old)] \o Tail(j.todo) = <<>> THEN NoJob
            ELSE [j EXCEPT !.pc = "write",
                           !.todo = [i \in DOMAIN order |-> ChildSave(order[i], s, j.old)] \o Tail(j.todo),
                           !.old = NoIdentity]]
  <2> DEFINE q == Head(jobs[a].todo)
             cs == IF Deeper(q.deep) > MaxDeep THEN {} ELSE Children(q.account)
  <2>1. PICK order \in SetToSeqs(cs) :
          jobs' = [jobs EXCEPT ![a] =
            IF [i \in DOMAIN order |-> ChildSave(order[i], q, jobs[a].old)] \o Tail(jobs[a].todo) = <<>> THEN NoJob
            ELSE [jobs[a] EXCEPT !.pc = "write",
                       !.todo = [i \in DOMAIN order |-> ChildSave(order[i], q, jobs[a].old)] \o Tail(jobs[a].todo),
                       !.old = NoIdentity]]
    BY Zenon DEF ReadChildren
  <2>2. q = s /\ cs = children
    BY <1>1, <1>2, <1>4
  <2> QED BY <2>1, <2>2, <1>1
<1>7. PICK n \in Nat : n = Cardinality(children)
  BY <1>5, Enumerated
<1>8. /\ DOMAIN order = 1..n /\ order \in [1..n -> children]
      /\ \A b \in children : \E i \in 1..n : order[i] = b
  BY <1>5, <1>7, Enumerated
<1>9. PICK first : first = [i \in 1..n |-> ChildSave(order[i], s, j.old)]
  OBVIOUS
<1>10. ASSUME NEW i \in 1..n
       PROVE  /\ first[i] \in Save
              /\ Deeper(s.deep) <= MaxDeep /\ \E b \in Children(s.account) : first[i] = ChildSave(b, s, j.old)
  <2>1. PICK b \in children : b = order[i]
    BY <1>8
  <2>2. b \in Children(s.account) /\ Deeper(s.deep) <= MaxDeep
    BY <2>1, <1>4, SaveFields, IdentitiesAssumption DEF Deeper
  <2>3. first[i] = ChildSave(b, s, j.old)
    BY <1>9, <2>1
  <2> QED BY <1>3, <2>2, <2>3, ChildCalls
<1>11. first \in Seq(Save) /\ DOMAIN first = 1..n /\ Len(first) = n
  BY <1>9, <1>10
<1>12. PICK rest : rest = Tail(j.todo)
  OBVIOUS
<1>13. /\ rest \in Seq(Save) /\ DOMAIN rest = 1..Len(j.todo) - 1 /\ Len(j.todo) \in Nat \ {0}
       /\ \A i \in DOMAIN rest : i + 1 \in DOMAIN j.todo /\ rest[i] = j.todo[i + 1]
  BY <1>1, <1>12, FirstCall
<1>14. PICK todo : todo = first \o rest
  OBVIOUS
<1>14a. jobs' = [jobs EXCEPT ![a] = IF todo = <<>> THEN NoJob
                                    ELSE [j EXCEPT !.pc = "write", !.todo = todo, !.old = NoIdentity]]
  BY <1>6, <1>8, <1>9, <1>12, <1>14
<1>15. todo \in Seq(Save) /\ DOMAIN todo = 1..n + Len(rest)
  <2>1. Len(rest) \in Nat /\ first \in Seq(Save) /\ rest \in Seq(Save)
    BY <1>11, <1>13
  <2>2. first \o rest \in Seq(Save) /\ Len(first \o rest) = Len(first) + Len(rest)
    BY <2>1, ConcatProperties, Zenon
  <2>2a. todo \in Seq(Save) /\ Len(todo) = n + Len(rest)
    BY <2>2, <1>11, <1>14
  <2>3. DOMAIN todo = 1..Len(todo)
    BY <2>2a
  <2> QED BY <2>2a, <2>3
<1>16. ASSUME NEW i \in DOMAIN todo
       PROVE  \/ i \in 1..n /\ todo[i] = first[i]
              \/ \E k \in DOMAIN j.todo \ {1} : todo[i] = j.todo[k]
  <2>1. CASE i <= n
    BY <1>11, <1>13, <1>14, <1>15, <2>1
  <2>2. CASE i > n
    <3>1. i - n \in DOMAIN rest /\ todo[i] = rest[i - n]
      BY <1>11, <1>13, <1>14, <1>15, <2>2
    <3>2. i - n + 1 \in DOMAIN j.todo /\ i - n + 1 # 1 /\ todo[i] = j.todo[i - n + 1]
      BY <1>13, <3>1
    <3> QED BY <3>2
  <2> QED BY <1>11, <1>15, <2>1, <2>2
<1>16a. ASSUME NEW i \in 1..n PROVE i \in DOMAIN todo /\ todo[i] = first[i]
  BY <1>11, <1>13, <1>14, <1>15
<1>16b. ASSUME NEW k \in DOMAIN j.todo \ {1} PROVE \E i \in DOMAIN todo : todo[i] = j.todo[k]
  <2>1. k - 1 \in DOMAIN rest /\ rest[k - 1] = j.todo[k]
    <3>1. k \in 1..Len(j.todo) /\ k # 1
      <4>1. j.todo \in Seq(Save)
        BY JobFields
      <4> QED BY <4>1
    <3>2. k - 1 \in 1..Len(j.todo) - 1 /\ (k - 1) + 1 = k
      BY <1>13, <3>1
    <3>3. k - 1 \in DOMAIN rest
      BY <1>13, <3>2
    <3> QED BY <1>13, <3>2, <3>3
  <2>1a. PICK m \in DOMAIN rest : m = k - 1
    BY <2>1
  <2>2. n + m \in DOMAIN todo /\ todo[n + m] = rest[m]
    BY <1>11, <1>13, <1>14, <1>15
  <2> QED BY <2>1, <2>1a, <2>2
<1>17. PICK w : w = [j EXCEPT !.pc = "write", !.todo = todo, !.old = NoIdentity]
  OBVIOUS
<1>18. w \in Job /\ w.pc = "write" /\ w.todo = todo /\ w.old = NoIdentity
  <2>0. j = [pc |-> j.pc, todo |-> j.todo, at |-> j.at, climbed |-> j.climbed, old |-> j.old]
    BY JobFields
  <2>1. w = [pc |-> "write", todo |-> todo, at |-> j.at, climbed |-> j.climbed, old |-> NoIdentity]
    BY <1>17, <2>0
  <2>2. [pc |-> "write", todo |-> todo, at |-> j.at, climbed |-> j.climbed, old |-> NoIdentity] \in Job
    BY <1>15, JobFields, IsJob, NothingIsPartial
  <2> QED BY <2>1, <2>2
<1>19. PICK new \in Job \union {NoJob} :
         /\ jobs' = [jobs EXCEPT ![a] = new]
         /\ new = IF todo = <<>> THEN NoJob ELSE w
  BY <1>14a, <1>17, <1>18
<1>20. IF todo = <<>> THEN new = NoJob
       ELSE new # NoJob /\ new.pc = "write" /\ new.todo = todo /\ new.old = NoIdentity
  <2>1. w # NoJob
    BY <1>18 DEF NoJob
  <2> QED BY <1>18, <1>19, <2>1
<1>21. LeftToDo(j, todo)
  <2>1. ASSUME NEW i \in DOMAIN todo
        PROVE  \/ \E k \in DOMAIN j.todo \ {1} : todo[i] = j.todo[k]
               \/ Deeper(s.deep) <= MaxDeep /\ \E b \in Children(s.account) : todo[i] = ChildSave(b, s, j.old)
    BY <1>10, <1>16, Zenon
  <2>2. ASSUME NEW b \in Children(s.account), Deeper(s.deep) <= MaxDeep
        PROVE  \E i \in DOMAIN todo : todo[i] = ChildSave(b, s, j.old)
    <3>1. b \in children
      <4>1. ~ (Deeper(s.deep) > MaxDeep)
        BY <2>2, SaveFields, IdentitiesAssumption DEF Deeper
      <4> QED BY <1>4, <4>1
    <3>2. PICK i \in 1..n : order[i] = b
      BY <1>8, <3>1
    <3>3. first[i] = ChildSave(b, s, j.old)
      BY <1>9, <3>2
    <3> QED BY <1>16a, <3>3
  <2> QED BY <1>2, <1>16b, <2>1, <2>2, Zenon DEF LeftToDo
<1> QED BY <1>1, <1>15, <1>19, <1>20, <1>21

LEMMA ReadChildrenType ==
    ASSUME TypeOK, NEW a \in Accounts, ReadChildren(a), jobs[a].todo # <<>>
    PROVE  TypeOK'
BY ReadChildrenStep, JobStepType DEF ReadChildren

-----------------------------------------------------------------------------
(* Parents.                                                                *)

\* What a save still has to write is what is there: a call for an account that is its own
\* has the data of its extrinsic, and one for a child the parent it has.
CallOK(a, s) ==
    IF s.deep = 0
    THEN s.account = a /\ s.data = DataOf(batch[begun])
    ELSE /\ s.data.parent \in Accounts \ {s.account}
         /\ identities[s.account] # NoIdentity
         /\ identities[s.account].parent = s.data.parent \/ said[s.account].shared

\* An account's own call is the first of its job, and alone there; nothing is found that
\* has a parent.
JobOK(a, j) ==
    /\ begun # 0 /\ a \in AccountsOf(batch[begun])
    /\ j.todo # <<>>
    /\ \A i \in DOMAIN j.todo : CallOK(a, j.todo[i]) /\ (j.todo[i].deep = 0 => Len(j.todo) = 1)
    /\ j.pc = "find" => j.todo[1].deep = 0
    /\ j.pc = "write" /\ j.todo[1].deep = 0 => j.old.parent \in {Null, Absent}
    /\ j.pc = "write" /\ j.todo[1].deep # 0 => j.old = NoIdentity

\* An account without a row has had nothing said of it.
SaidOK(a) ==
    /\ \/ identities[a].parent \in {said[a].by, Absent}
       \/ said[a].own /\ identities[a].parent = Null
       \/ said[a].shared
    /\ identities[a] = NoIdentity => said[a].by = Null /\ ~ said[a].shared

SaveInv == \A a \in Accounts : SaidOK(a) /\ (jobs[a] # NoJob => JobOK(a, jobs[a]))

LEMMA SaveInvInit == Init => TypeOK /\ SaveInv
<1> SUFFICES ASSUME Init PROVE TypeOK /\ SaveInv
  OBVIOUS
<1>1. TypeOK
  <2>1. /\ MaxExtrinsics \in Nat /\ MaxCrashes \in Nat /\ ChunkSize \in Nat
    BY IdentitiesAssumption
  <2>2. /\ identities \in [Accounts -> Columns \union {NoIdentity}]
        /\ \A a \in Accounts : identities[a].parent # a
    BY ValuesApart DEF Init, NoIdentity
  <2>3. batch \in Seq(Extrinsics) /\ Len(batch) = 0 /\ begun = 0
    BY DEF Init
  <2>4. said \in [Accounts -> [by : Accounts \union {Null}, own : BOOLEAN, shared : BOOLEAN]]
    BY DEF Init
  <2>5. jobs \in [Accounts -> Job \union {NoJob}]
    BY DEF Init
  <2> QED BY <2>1, <2>2, <2>3, <2>4, <2>5 DEF Init, TypeOK
<1>2. SaveInv
  BY DEF Init, SaveInv, SaidOK, NoIdentity
<1> QED BY <1>1, <1>2

\* A step that only takes a job further.
LEMMA JobStepInv ==
    ASSUME TypeOK, SaveInv, NEW a \in Accounts, NEW new,
           jobs' = [jobs EXCEPT ![a] = new], new # NoJob => JobOK(a, new),
           UNCHANGED <<identities, batch, begun, said>>
    PROVE  SaveInv'
<1>1. /\ jobs'[a] = new
      /\ \A b \in Accounts \ {a} : jobs'[b] = jobs[b]
  BY DEF TypeOK
<1>2. ASSUME NEW b \in Accounts PROVE SaidOK(b)'
  BY DEF SaveInv, SaidOK
<1>3. ASSUME NEW b, NEW j, JobOK(b, j) PROVE JobOK(b, j)'
  BY <1>3 DEF JobOK, CallOK
<1>4. ASSUME NEW b \in Accounts, jobs'[b] # NoJob PROVE JobOK(b, jobs[b])'
  <2>1. PICK j : j = jobs'[b]
    OBVIOUS
  <2>2. JobOK(b, j)
    BY <1>1, <1>4, <2>1 DEF SaveInv
  <2>3. JobOK(b, j)'
    BY <1>3, <2>2
  <2> QED BY <2>1, <2>3 DEF JobOK, CallOK
<1> QED BY <1>2, <1>4 DEF SaveInv

LEMMA BeginInv ==
    ASSUME TypeOK, SaveInv, NEW e \in Extrinsics, Begin(e), batch' \in Seq(Extrinsics),
           begun' \in DOMAIN batch', batch'[begun'] = e
    PROVE  SaveInv'
<1>1. ASSUME NEW b \in Accounts PROVE SaidOK(b)'
  BY DEF SaveInv, SaidOK, Begin
<1>2. begun' # 0
  OBVIOUS
<1>3. ASSUME NEW b \in Accounts, jobs'[b] # NoJob PROVE JobOK(b, jobs[b])'
  <2>1. b \in AccountsOf(e) /\ jobs'[b] = JobOf(b, e)
    BY <1>3 DEF Begin
  <2>2. PICK s : s = [account |-> b, data |-> DataOf(e), deep |-> 0]
    OBVIOUS
  <2>3. PICK j : j = [pc |-> "find", todo |-> <<s>>, at |-> b, climbed |-> 0, old |-> NoIdentity]
    OBVIOUS
  <2>4. j = jobs'[b]
    BY <2>1, <2>2, <2>3 DEF JobOf
  <2>5. j.todo = <<s>> /\ j.pc = "find"
    BY <2>3
  <2>6. s.deep = 0 /\ s.account = b /\ s.data = DataOf(e)
    BY <2>2
  <2>7. DOMAIN j.todo = {1} /\ j.todo[1] = s /\ Len(j.todo) = 1 /\ j.todo # <<>>
    BY <2>5
  <2>8. CallOK(b, s)'
    BY <2>6 DEF CallOK, DataOf
  <2>9. b \in AccountsOf(batch'[begun'])
    BY <2>1
  <2>10. JobOK(b, j)'
    BY <1>2, <2>5, <2>6, <2>7, <2>8, <2>9 DEF JobOK, AccountsOf
  <2> QED BY <2>4, <2>10 DEF JobOK, CallOK
<1> QED BY <1>1, <1>3 DEF SaveInv

LEMMA FindInv ==
    ASSUME TypeOK, SaveInv, NEW a \in Accounts, Find(a)
    PROVE  SaveInv'
<1>1. jobs[a] \in Job /\ jobs[a] # NoJob
  BY JobWithStep DEF Find
<1>2. PICK j \in Job : j = jobs[a]
  BY <1>1
<1>3. JobOK(a, j) /\ j.pc = "find"
  BY <1>1, <1>2 DEF SaveInv, Find
<1>4. PICK at : at = Above(j)
  OBVIOUS
<1>5. j.at \in Accounts
  BY JobFields
<1>6. ASSUME NEW old \in Partial, old.parent \in {Null, Absent}
      PROVE  JobOK(a, [j EXCEPT !.pc = "write", !.old = old])
  <2>1. PICK w : w = [j EXCEPT !.pc = "write", !.old = old]
    OBVIOUS
  <2>2. w.pc = "write" /\ w.todo = j.todo /\ w.old = old
    BY <2>1, JobGoesOn
  <2>3. JobOK(a, w)
    BY <1>3, <1>6, <2>2 DEF JobOK
  <2> QED BY <2>1, <2>3
<1>7. ASSUME at \in {Null, Absent, j.at}
      PROVE  identities[j.at] \in Partial /\ identities[j.at].parent \in {Null, Absent}
  <2>1. CASE identities[j.at] = NoIdentity
    BY <2>1, NothingIsPartial
  <2>2. CASE identities[j.at] # NoIdentity
    <3>1. at = identities[j.at].parent
      BY <1>4, <2>2 DEF Above
    <3> QED BY <1>5, <1>7, <2>2, <3>1, RowFields
  <2> QED BY <2>1, <2>2
<1>8. JobOK(a, Climb(j))
  <2>1. PICK w : w = [j EXCEPT !.at = at, !.climbed = j.climbed + 1]
    OBVIOUS
  <2>2. j = [pc |-> j.pc, todo |-> j.todo, at |-> j.at, climbed |-> j.climbed, old |-> j.old]
    BY JobFields
  <2>3. w.pc = j.pc /\ w.todo = j.todo /\ w.old = j.old
    BY <2>1, <2>2
  <2>4. JobOK(a, w)
    BY <1>3, <2>3 DEF JobOK
  <2> QED BY <1>4, <2>1, <2>4 DEF Climb
<1>9. PICK new : new = IF at \in {Null, Absent, j.at} THEN [j EXCEPT !.pc = "write", !.old = identities[j.at]]
                       ELSE IF j.climbed < MaxDeep THEN Climb(j)
                       ELSE [j EXCEPT !.pc = "write", !.old = NoIdentity]
  OBVIOUS
<1>10. JobOK(a, new)
  BY <1>6, <1>7, <1>8, <1>9, NothingIsPartial
<1>11. jobs' = [jobs EXCEPT ![a] = new]
  BY <1>2, <1>4, <1>9 DEF Find
<1> QED BY <1>10, <1>11, JobStepInv DEF Find

LEMMA ReadChildrenInv ==
    ASSUME TypeOK, SaveInv, NEW a \in Accounts, ReadChildren(a)
    PROVE  SaveInv'
<1>1. jobs[a] \in Job /\ jobs[a] # NoJob
  BY JobWithStep DEF ReadChildren
<1>2. PICK j \in Job : j = jobs[a]
  BY <1>1
<1>3. JobOK(a, j)
  BY <1>1, <1>2 DEF SaveInv
<1>3a. jobs[a].todo # <<>>
  BY <1>2, <1>3 DEF JobOK
<1>4. PICK todo \in Seq(Save), new \in Job \union {NoJob} :
        /\ jobs' = [jobs EXCEPT ![a] = new]
        /\ IF todo = <<>> THEN new = NoJob
           ELSE new # NoJob /\ new.pc = "write" /\ new.todo = todo /\ new.old = NoIdentity
        /\ LeftToDo(jobs[a], todo)
  BY <1>3a, ReadChildrenStep, Zenon
<1>5. ASSUME NEW i \in DOMAIN todo
      PROVE  CallOK(a, todo[i]) /\ todo[i].deep # 0
  <2>1. CASE \E k \in DOMAIN j.todo \ {1} : todo[i] = j.todo[k]
    <3>1. PICK k \in DOMAIN j.todo \ {1} : todo[i] = j.todo[k]
      BY <2>1
    <3>2. CallOK(a, j.todo[k]) /\ (j.todo[k].deep = 0 => Len(j.todo) = 1)
      BY <1>3, <3>1 DEF JobOK
    <3>3. Len(j.todo) # 1
      <4>1. j.todo \in Seq(Save)
        BY JobFields
      <4> QED BY <3>1, <4>1
    <3> QED BY <3>1, <3>2, <3>3
  <2>2. PICK s \in Save : s = Head(j.todo)
    BY <1>2, <1>3a, FirstCall
  <2>3. CASE Deeper(s.deep) <= MaxDeep /\ \E b \in Children(s.account) : todo[i] = ChildSave(b, s, j.old)
    <3>1. PICK b \in Children(s.account) : todo[i] = ChildSave(b, s, j.old)
      BY <2>3
    <3>2. j.old \in Partial
      BY JobFields
    <3>3. /\ todo[i].deep # 0
          /\ todo[i].data.parent \in Accounts \ {todo[i].account}
          /\ identities[todo[i].account] # NoIdentity
          /\ identities[todo[i].account].parent = todo[i].data.parent
      BY <2>3, <3>1, <3>2, ChildCalls
    <3> QED BY <3>3 DEF CallOK
  <2> QED BY <1>2, <1>4, <2>1, <2>2, <2>3 DEF LeftToDo
<1>6. ASSUME new # NoJob PROVE JobOK(a, new)
  <2>1. /\ todo # <<>> /\ new.pc = "write" /\ new.todo = todo /\ new.old = NoIdentity
    BY <1>4, <1>6
  <2>2. 1 \in DOMAIN todo
    BY <2>1
  <2>3. todo[1].deep # 0
    BY <1>5, <2>2
  <2>4. begun # 0 /\ a \in AccountsOf(batch[begun])
    BY <1>3 DEF JobOK
  <2> QED BY <1>5, <2>1, <2>3, <2>4 DEF JobOK
<1> QED BY <1>4, <1>6, JobStepInv DEF ReadChildren

\* Only one account is saved: no other job is in progress.
LEMMA OneAccount ==
    ASSUME TypeOK, NEW e \in Extrinsics, NEW a \in AccountsOf(e), ~ (Cardinality(AccountsOf(e)) > 1)
    PROVE  AccountsOf(e) = {a}
<1>1. IsFiniteSet(AccountsOf(e))
  BY DataOfAnExtrinsic, IdentitiesAssumption, FS_Subset
<1>2. PICK n \in Nat : n = Cardinality(AccountsOf(e))
  BY <1>1, FS_CardinalityType
<1>3. n # 0
  BY <1>1, <1>2, FS_EmptySet
<1>4. n = 1
  BY <1>2, <1>3
<1>5. PICK b : AccountsOf(e) = {b}
  BY <1>1, <1>2, <1>4, FS_Singleton
<1> QED BY <1>5

\* What a write does to the rows: those there are stay, and each keeps its parent, or is
\* one of several that are given one.
ParentsKept ==
    \A b \in Accounts : identities[b] # NoIdentity =>
        /\ identities'[b] # NoIdentity
        /\ said[b].shared => said'[b].shared
        /\ identities'[b].parent = identities[b].parent \/ said'[b].shared

\* Or it is the first of the only save there is.
AloneAtFirst(a, s) == s.deep = 0 /\ AccountsOf(batch[begun]) = {a}

\* A child is written with the parent that was read, and the fields it is given.
LEMMA ChildRow ==
    ASSUME TypeOK, NEW a \in Accounts, Write(a),
           NEW s, s = jobs[a].todo[1], s.deep # 0, JobOK(a, jobs[a])
    PROVE  /\ s \in Save /\ s.data.parent \in Accounts \ {s.account}
           /\ identities[s.account] # NoIdentity /\ identities'[s.account] # NoIdentity
           /\ identities[s.account].parent = s.data.parent \/ said[s.account].shared
           /\ identities'[s.account].parent = s.data.parent
           /\ \A x \in Accounts \ {s.account} : identities'[x] = identities[x]
           /\ said' = said
           /\ s.data.info # Absent => /\ identities'[s.account].info = s.data.info
                                     /\ Updated(jobs[a]).info = s.data.info
<1>1. jobs[a] \in Job /\ jobs[a].todo # <<>> /\ jobs[a].pc = "write"
  BY JobWithStep DEF Write, JobOK
<1>2. s = Head(jobs[a].todo) /\ s \in Save /\ 1 \in DOMAIN jobs[a].todo
  BY <1>1, FirstCall
<1>3. CallOK(a, s) /\ jobs[a].old = NoIdentity
  BY <1>1, <1>2 DEF JobOK
<1>4. PICK b \in Accounts : b = s.account
  BY <1>2, SaveFields
<1>5. /\ s.data.parent \in Accounts \ {b} /\ identities[b] # NoIdentity
      /\ identities[b].parent = s.data.parent \/ said[b].shared
  BY <1>3, <1>4 DEF CallOK
<1>6. PICK d : d = Merged(jobs[a].old, s.data)
  OBVIOUS
<1>6a. d.parent = s.data.parent /\ (s.data.info # Absent => d.info = s.data.info)
  <2>1. NoIdentity \in Partial /\ s.data \in Partial
    BY <1>2, SaveFields, NothingIsPartial
  <2>2. s.data.parent # Absent
    BY <1>5, ValuesApart
  <2> QED BY <1>3, <1>6, <2>1, <2>2, MergedType
<1>7. /\ identities'[b] \in Columns
      /\ identities'[b].parent = s.data.parent
      /\ \A x \in Accounts \ {b} : identities'[x] = identities[x]
      /\ s.data.info # Absent => /\ identities'[b].info = s.data.info
                                /\ Updated(jobs[a]).info = s.data.info
  <2>1. s.data.parent \notin {b, Absent}
    BY <1>5, ValuesApart
  <2>2. /\ identities'[b] \in Columns
        /\ \A x \in Accounts \ {b} : identities'[x] = identities[x]
        /\ Updated(jobs[a]).info = d.info
        /\ d.info # Absent => identities'[b].info = d.info
    BY <1>1, <1>2, <1>4, <1>6, WriteStep
  <2>3. identities'[b].parent = s.data.parent
    BY <1>1, <1>2, <1>4, <1>6, <1>6a, <2>1, WriteStep
  <2> QED BY <1>6a, <2>2, <2>3
<1>8. said' = said
  <2>1. s.deep > 0
    BY <1>2, SaveFields, IdentitiesAssumption
  <2> QED BY <1>2, <2>1 DEF Write
<1>9. identities'[b] # NoIdentity
  BY <1>7, NothingIsPartial
<1> QED BY <1>2, <1>4, <1>5, <1>7, <1>8, <1>9

LEMMA WriteChild ==
    ASSUME TypeOK, SaveInv, NEW a \in Accounts, Write(a),
           NEW s, s = jobs[a].todo[1], s.deep # 0, JobOK(a, jobs[a])
    PROVE  ParentsKept /\ \A b \in Accounts : SaidOK(b)'
<1>1. PICK b \in Accounts : b = s.account
  BY ChildRow, SaveFields
<1>5. /\ s.data.parent \in Accounts \ {b} /\ identities[b] # NoIdentity
      /\ identities[b].parent = s.data.parent \/ said[b].shared
  BY <1>1, ChildRow
<1>7. /\ identities'[b].parent = s.data.parent
      /\ \A x \in Accounts \ {b} : identities'[x] = identities[x]
  BY <1>1, ChildRow
<1>8. said' = said
  BY ChildRow
<1>9. identities'[b] # NoIdentity
  BY <1>1, ChildRow
<1>10. \A x \in Accounts : identities[x] # NoIdentity =>
          /\ identities'[x] # NoIdentity
          /\ identities'[x].parent = identities[x].parent \/ said[x].shared
  BY <1>5, <1>7, <1>9
<1>11. ParentsKept
  BY <1>8, <1>10 DEF ParentsKept
<1>12. ASSUME NEW x \in Accounts PROVE SaidOK(x)'
  <2>1. SaidOK(x)
    BY DEF SaveInv
  <2>2. CASE x # b
    BY <1>7, <1>8, <2>1, <2>2 DEF SaidOK
  <2>3. CASE x = b
    <3>1. identities'[x].parent = identities[x].parent \/ said[x].shared
      BY <1>5, <1>7, <2>3
    <3>2. identities[x].parent # Absent
      BY <1>5, <2>3, RowFields
    <3> QED BY <1>8, <1>9, <2>1, <2>3, <3>1, <3>2 DEF SaidOK
  <2> QED BY <2>2, <2>3
<1> QED BY <1>11, <1>12

\* An account's own call: it has a parent said of it, or it says something itself.
LEMMA WriteOwn ==
    ASSUME TypeOK, SaveInv, NEW a \in Accounts, Write(a),
           NEW s, s = jobs[a].todo[1], s.deep = 0, JobOK(a, jobs[a])
    PROVE  (ParentsKept \/ AloneAtFirst(a, s)) /\ \A b \in Accounts : SaidOK(b)'
<1> DEFINE e == batch[begun]
           several == Cardinality(AccountsOf(e)) > 1
           row == IF identities[a] = NoIdentity THEN NewRow ELSE identities[a]
           p == s.data.parent
<1>1. jobs[a] \in Job /\ jobs[a].todo # <<>> /\ jobs[a].pc = "write"
  BY JobWithStep DEF Write, JobOK
<1>2. s = Head(jobs[a].todo) /\ s \in Save /\ 1 \in DOMAIN jobs[a].todo
  BY <1>1, FirstCall
<1>3. /\ s.account = a /\ s.data = DataOf(e)
      /\ jobs[a].old.parent \in {Null, Absent}
      /\ begun # 0 /\ a \in AccountsOf(e)
  BY <1>1, <1>2 DEF JobOK, CallOK
<1>4. e \in Extrinsics
  BY <1>3 DEF TypeOK
<1>5. PICK d : d = Merged(jobs[a].old, s.data)
  OBVIOUS
<1>6. d.parent = IF p = Absent THEN jobs[a].old.parent ELSE p
  <2>1. jobs[a].old \in Partial /\ s.data \in Partial
    BY <1>1, <1>2, JobFields, SaveFields
  <2> QED BY <1>5, <2>1, MergedType
<1>7. /\ identities'[a] \in Columns
      /\ identities'[a].parent = IF d.parent \in {a, Absent} THEN row.parent ELSE d.parent
      /\ \A x \in Accounts \ {a} : identities'[x] = identities[x]
  BY <1>1, <1>2, <1>3, <1>5, WriteStep
<1>8. identities'[a] # NoIdentity
  BY <1>7, NothingIsPartial
<1>9. row.parent = IF identities[a] = NoIdentity THEN Null ELSE identities[a].parent
  BY DEF NewRow
<1>10. ~ (s.deep > 0)
  OBVIOUS
<1>11. SaidOK(a) /\ said[a] \in [by : Accounts \union {Null}, own : BOOLEAN, shared : BOOLEAN]
  BY DEF SaveInv, TypeOK
<1>12. ASSUME UNCHANGED said \/ said' = [said EXCEPT ![a] = said'[a]], NEW x \in Accounts \ {a}
       PROVE  SaidOK(x)' /\ said'[x] = said[x]
  <2>1. said'[x] = said[x] /\ identities'[x] = identities[x]
    BY <1>7, <1>12 DEF TypeOK
  <2>2. SaidOK(x)
    BY DEF SaveInv
  <2> QED BY <2>1, <2>2 DEF SaidOK
<1>13. CASE p = a
  <2>1. said' = said
    BY <1>2, <1>13 DEF Write
  <2>2. identities'[a].parent = row.parent
    BY <1>6, <1>7, <1>13, ValuesApart
  <2>3. identities[a] # NoIdentity => identities'[a].parent = identities[a].parent
    BY <1>9, <2>2
  <2>4. identities[a] = NoIdentity => identities'[a].parent = Null /\ said[a].by = Null
    BY <1>9, <1>11, <2>2 DEF SaidOK
  <2>5. SaidOK(a)'
    BY <1>8, <1>11, <2>1, <2>3, <2>4 DEF SaidOK
  <2>6. ParentsKept
    BY <1>7, <1>8, <2>1, <2>3 DEF ParentsKept
  <2> QED BY <1>12, <2>1, <2>5, <2>6
<1>14. CASE p = Absent
  <2>1. PICK own : own = [said[a] EXCEPT !.own = TRUE]
    OBVIOUS
  <2>2. own.by = said[a].by /\ own.own = TRUE /\ own.shared = said[a].shared
    BY <1>11, <2>1
  <2>3. p # a
    BY <1>14, ValuesApart
  <2>4. said' = [said EXCEPT ![a] = own] /\ said'[a] = own
    BY <1>2, <1>10, <1>14, <2>1, <2>3 DEF Write, TypeOK
  <2>5. identities'[a].parent = row.parent \/ identities'[a].parent = Null
    BY <1>3, <1>6, <1>7, <1>14
  <2>6. identities[a] # NoIdentity => identities[a].parent # Absent
    BY RowFields
  <2>7. SaidOK(a)'
    BY <1>8, <1>9, <1>11, <2>2, <2>4, <2>5, <2>6 DEF SaidOK
  <2>8. AccountsOf(e) = {e.signer}
    BY <1>3, <1>4, <1>14, DataOfAnExtrinsic
  <2>9. AloneAtFirst(a, s)
    BY <1>3, <2>8 DEF AloneAtFirst
  <2> QED BY <1>12, <2>4, <2>7, <2>9
<1>15. CASE p \notin {a, Absent}
  <2>1. PICK one : one = [by |-> p, own |-> FALSE, shared |-> several]
    OBVIOUS
  <2>2. said' = [said EXCEPT ![a] = one] /\ said'[a] = one
    BY <1>2, <1>10, <1>15, <2>1 DEF Write, TypeOK
  <2>3. one.by = p /\ one.shared = several
    BY <2>1
  <2>4. identities'[a].parent = p
    BY <1>6, <1>7, <1>15
  <2>5. SaidOK(a)'
    BY <1>8, <2>2, <2>3, <2>4 DEF SaidOK
  <2>6. CASE several
    <3>1. said'[a].shared
      BY <2>2, <2>3, <2>6
    <3>2. ParentsKept
      BY <1>7, <1>8, <1>12, <2>2, <3>1 DEF ParentsKept
    <3> QED BY <1>12, <2>2, <2>5, <3>2
  <2>7. CASE ~ several
    <3>1. AccountsOf(e) = {a}
      BY <1>3, <1>4, <2>7, OneAccount
    <3> QED BY <1>12, <2>2, <2>5, <3>1 DEF AloneAtFirst
  <2> QED BY <2>6, <2>7
<1> QED BY <1>13, <1>14, <1>15

LEMMA WriteInv ==
    ASSUME TypeOK, SaveInv, NEW a \in Accounts, Write(a)
    PROVE  SaveInv'
<1>1. jobs[a] \in Job /\ jobs[a] # NoJob /\ jobs[a].pc = "write"
  BY JobWithStep DEF Write
<1>2. JobOK(a, jobs[a])
  BY <1>1 DEF SaveInv
<1>3. PICK s : s = jobs[a].todo[1]
  OBVIOUS
<1>4. (ParentsKept \/ AloneAtFirst(a, s)) /\ \A b \in Accounts : SaidOK(b)'
  BY <1>2, <1>3, WriteChild, WriteOwn
<1>5. jobs[a].todo # <<>>
  BY <1>2 DEF JobOK
<1>6. PICK u \in Partial : u = Updated(jobs[a])
  BY <1>5, WriteStep
<1>7. PICK w : w = [jobs[a] EXCEPT !.pc = "children", !.old = u]
  OBVIOUS
<1>8. w.pc = "children" /\ w.todo = jobs[a].todo
  BY <1>1, <1>7, JobGoesOn
<1>9. jobs' = [jobs EXCEPT ![a] = w] /\ batch' = batch /\ begun' = begun
  BY <1>6, <1>7 DEF Write
<1>10. jobs'[a] = w /\ \A b \in Accounts \ {a} : jobs'[b] = jobs[b]
  BY <1>9 DEF TypeOK
<1>11. ASSUME NEW b \in Accounts, jobs'[b] # NoJob
       PROVE  \E j \in Job : j.todo = jobs'[b].todo /\ JobOK(b, j) /\ (b # a => j = jobs'[b])
  <2>1. CASE b = a
    BY <1>1, <1>2, <1>8, <1>10, <2>1
  <2>2. CASE b # a
    <3>1. jobs[b] \in Job /\ JobOK(b, jobs[b])
      BY <1>10, <1>11, <2>2 DEF SaveInv, TypeOK
    <3> QED BY <1>10, <2>2, <3>1
  <2> QED BY <2>1, <2>2
<1>12. ASSUME NEW b \in Accounts, jobs'[b] # NoJob PROVE JobOK(b, jobs[b])'
  <2>1. PICK j \in Job : j.todo = jobs'[b].todo /\ JobOK(b, j) /\ (b # a => j = jobs'[b])
    BY <1>11, <1>12
  <2>2. j.todo \in Seq(Save)
    BY JobFields
  <2>3. ASSUME NEW i \in DOMAIN j.todo PROVE CallOK(b, j.todo[i])'
    <3>1. PICK t \in Save : t = j.todo[i]
      BY <2>2
    <3> SUFFICES CallOK(b, t)'
      BY <3>1 DEF CallOK
    <3>2. CallOK(b, t)
      BY <2>1, <3>1 DEF JobOK
    <3>3. CASE t.deep = 0
      BY <1>9, <3>2, <3>3 DEF CallOK, DataOf
    <3>4. CASE t.deep # 0 /\ ParentsKept
      <4>1. t.account \in Accounts
        BY SaveFields
      <4>2. /\ t.data.parent \in Accounts \ {t.account} /\ identities[t.account] # NoIdentity
            /\ identities[t.account].parent = t.data.parent \/ said[t.account].shared
        BY <3>2, <3>4 DEF CallOK
      <4>3. /\ identities'[t.account] # NoIdentity
            /\ identities'[t.account].parent = t.data.parent \/ said'[t.account].shared
        BY <3>4, <4>1, <4>2 DEF ParentsKept
      <4> QED BY <3>4, <4>2, <4>3 DEF CallOK, NoIdentity
    <3>5. CASE t.deep # 0 /\ AloneAtFirst(a, s)
      <4>1. b = a
        BY <2>1, <3>5 DEF JobOK, AloneAtFirst
      <4>2. Len(jobs[a].todo) = 1 /\ jobs[a].todo \in Seq(Save)
        <5>1. jobs[a].todo \in Seq(Save) /\ 1 \in DOMAIN jobs[a].todo
          BY <1>1, <1>5, JobFields, FirstCall
        <5> QED BY <1>2, <1>3, <3>5, <5>1 DEF JobOK, AloneAtFirst
      <4>3. j.todo = jobs[a].todo
        BY <1>8, <1>10, <2>1, <4>1
      <4>4. i = 1
        BY <4>2, <4>3
      <4> QED BY <1>3, <3>1, <3>5, <4>3, <4>4 DEF AloneAtFirst
    <3> QED BY <1>4, <3>3, <3>4, <3>5, Zenon
  <2>4. /\ begun' # 0 /\ b \in AccountsOf(batch'[begun']) /\ j.todo # <<>>
        /\ \A i \in DOMAIN j.todo : j.todo[i].deep = 0 => Len(j.todo) = 1
    BY <1>9, <2>1 DEF JobOK
  <2>5. PICK k : k = jobs'[b]
    OBVIOUS
  <2>6. /\ k.pc = "find" => j.todo[1].deep = 0
        /\ k.pc = "write" /\ j.todo[1].deep = 0 => k.old.parent \in {Null, Absent}
        /\ k.pc = "write" /\ j.todo[1].deep # 0 => k.old = NoIdentity
    BY <1>8, <1>10, <2>1, <2>5 DEF JobOK
  <2>7. k.todo = j.todo
    BY <2>1, <2>5
  <2>8. JobOK(b, k)'
    BY <2>3, <2>4, <2>6, <2>7 DEF JobOK, AccountsOf
  <2> QED BY <2>5, <2>8 DEF JobOK, CallOK
<1> QED BY <1>4, <1>12 DEF SaveInv

LEMMA SaveInvStep ==
    ASSUME TypeOK, SaveInv, [Next]_vars
    PROVE  TypeOK' /\ SaveInv'
<1>1. ASSUME NEW e \in Extrinsics, BeginNext(e)
      PROVE  TypeOK' /\ SaveInv'
  <2>1. TypeOK'
    BY <1>1, BeginNextType
  <2>2. /\ batch' \in Seq(Extrinsics) /\ begun' \in DOMAIN batch' /\ batch'[begun'] = e
    BY <1>1 DEF TypeOK, BeginNext, Begin
  <2>3. SaveInv'
    BY <1>1, <2>2, BeginInv DEF BeginNext
  <2> QED BY <2>1, <2>3
<1>2. CASE BeginAgain
  <2>1. TypeOK'
    BY <1>2, BeginAgainType
  <2>2. /\ batch' \in Seq(Extrinsics) /\ begun' \in DOMAIN batch'
        /\ batch[begun + 1] \in Extrinsics /\ batch'[begun'] = batch[begun + 1]
    BY <1>2 DEF TypeOK, BeginAgain, Begin
  <2>3. SaveInv'
    BY <1>2, <2>2, BeginInv DEF BeginAgain
  <2> QED BY <2>1, <2>3
<1>3. ASSUME NEW a \in Accounts, Find(a) \/ Write(a) \/ ReadChildren(a)
      PROVE  TypeOK' /\ SaveInv'
  <2>1. jobs[a] \in Job /\ jobs[a] # NoJob
    BY <1>3, JobWithStep DEF Find, Write, ReadChildren
  <2>2. jobs[a].todo # <<>>
    BY <2>1 DEF SaveInv, JobOK
  <2> QED BY <1>3, <2>2, FindType, WriteType, ReadChildrenType, FindInv, WriteInv, ReadChildrenInv
<1>4. CASE StorePlace
  <2>1. TypeOK'
    BY <1>4, IdentitiesAssumption DEF TypeOK, StorePlace
  <2>2. SaveInv'
    BY <1>4 DEF StorePlace, Busy, SaveInv, SaidOK
  <2> QED BY <2>1, <2>2
<1>5. CASE Crash
  <2>1. TypeOK'
    BY <1>5, IdentitiesAssumption DEF TypeOK, Crash
  <2>2. SaveInv'
    BY <1>5 DEF Crash, SaveInv, SaidOK
  <2> QED BY <2>1, <2>2
<1>6. CASE UNCHANGED vars
  <2>1. TypeOK'
    BY <1>6 DEF TypeOK, vars
  <2>2. SaveInv'
    BY <1>6 DEF vars, SaveInv, SaidOK, JobOK, CallOK
  <2> QED BY <2>1, <2>2
<1> QED BY <1>1, <1>2, <1>3, <1>4, <1>5, <1>6 DEF Next, Saving

-----------------------------------------------------------------------------
(* Who is below an account.  Below is a recursion over the levels, which    *)
(* has a solution: induction over the natural numbers, for a set.           *)

\* Induction over the natural numbers, for a set.
LEMMA Induction ==
    ASSUME NEW S, 0 \in S, \A n \in Nat : n \in S => n + 1 \in S
    PROVE  Nat \subseteq S
<1> DEFINE T == Nat \ S
<1> SUFFICES ASSUME T # {} PROVE FALSE
  OBVIOUS
<1>1. PICK n \in T : \A m \in T : <<m, n>> \notin OpToRel(<, Nat)
  BY NatLessThanWellFounded, WFMin
<1>2. n \in Nat /\ n # 0 /\ n \notin S
  OBVIOUS
<1>3. n - 1 \in Nat /\ (n - 1) + 1 = n
  BY <1>2
<1>4. n - 1 \notin S
  BY <1>2, <1>3
<1>5. <<n - 1, n>> \in OpToRel(<, Nat)
  BY <1>2, <1>3 DEF OpToRel
<1> QED BY <1>1, <1>3, <1>4, <1>5

BelowStep(g, n) ==
    [a \in Accounts |-> IF n = 0 THEN {} ELSE
        Children(a) \union UNION {g[n - 1][b] : b \in Children(a)}]

\* The recursion has a solution, up to any number of levels.
LEMMA BelowExists ==
    \A m \in Nat : \E g : g = [n \in 0..m |-> BelowStep(g, n)]
<1> DEFINE S == {m \in Nat : \E g : g = [n \in 0..m |-> BelowStep(g, n)]}
<1>1. 0 \in S
  <2>1. PICK g : g = [n \in 0..0 |-> [a \in Accounts |-> {}]]
    OBVIOUS
  <2>2. BelowStep(g, 0) = [a \in Accounts |-> {}]
    BY DEF BelowStep
  <2>3. g = [n \in 0..0 |-> BelowStep(g, n)]
    BY <2>1, <2>2
  <2> QED BY <2>3
<1>2. ASSUME NEW m \in Nat, m \in S PROVE m + 1 \in S
  <2>1. PICK g : g = [n \in 0..m |-> BelowStep(g, n)]
    BY <1>2
  <2>2. PICK h : h = [n \in 0..m + 1 |-> IF n = m + 1 THEN BelowStep(g, m + 1) ELSE g[n]]
    OBVIOUS
  <2>3. \A n \in 0..m : h[n] = g[n]
    BY <2>2
  <2>4. ASSUME NEW n \in 0..m + 1 PROVE BelowStep(h, n) = BelowStep(g, n)
    <3>1. CASE n = 0
      BY <3>1 DEF BelowStep
    <3>2. CASE n # 0
      <4>1. n - 1 \in 0..m
        BY <3>2
      <4>2. h[n - 1] = g[n - 1]
        BY <2>3, <4>1
      <4> QED BY <4>2 DEF BelowStep
    <3> QED BY <3>1, <3>2
  <2>5. ASSUME NEW n \in 0..m + 1 PROVE h[n] = BelowStep(h, n)
    <3>1. CASE n = m + 1
      BY <2>2, <2>4, <3>1
    <3>2. CASE n \in 0..m
      <4>1. g[n] = BelowStep(g, n)
        BY <2>1, <3>2
      <4> QED BY <2>3, <2>4, <3>2, <4>1
    <3> QED BY <3>1, <3>2
  <2>6. h = [n \in 0..m + 1 |-> h[n]]
    BY <2>2
  <2>7. h = [n \in 0..m + 1 |-> BelowStep(h, n)]
    BY <2>5, <2>6
  <2> QED BY <2>7
<1> HIDE DEF S
<1>3. Nat \subseteq S
  BY <1>1, <1>2, Induction
<1> QED BY <1>3 DEF S

\* Who is below: the children, and who is one level less below them.
LEMMA BelowEquation ==
    \A n \in 0..MaxDeep, a \in Accounts :
        \A c : c \in Below[n][a] <=> n # 0 /\ (c \in Children(a) \/ \E b \in Children(a) : c \in Below[n - 1][b])
<1>1. \E g : g = [n \in 0..MaxDeep |-> BelowStep(g, n)]
  BY BelowExists, IdentitiesAssumption
<1>2. Below = CHOOSE g : g = [n \in 0..MaxDeep |-> BelowStep(g, n)]
  BY DEF Below, BelowStep
<1>3. Below = [n \in 0..MaxDeep |-> BelowStep(Below, n)]
  BY <1>1, <1>2
<1>4. \A n \in 0..MaxDeep : Below[n] = BelowStep(Below, n)
  BY <1>3
<1>5. ASSUME NEW n \in 0..MaxDeep, NEW a \in Accounts
      PROVE  Below[n][a] = IF n = 0 THEN {} ELSE Children(a) \union UNION {Below[n - 1][b] : b \in Children(a)}
  BY <1>4 DEF BelowStep
<1>6. ASSUME NEW n \in 0..MaxDeep, NEW a \in Accounts, NEW c
      PROVE  c \in Below[n][a] <=> n # 0 /\ (c \in Children(a) \/ \E b \in Children(a) : c \in Below[n - 1][b])
  <2>1. CASE n = 0
    BY <1>5, <2>1, Zenon
  <2>2. CASE n # 0
    <3>1. Below[n][a] = Children(a) \union UNION {Below[n - 1][b] : b \in Children(a)}
      BY <1>5, <2>2, Zenon
    <3> QED BY <2>2, <3>1, Zenon
  <2> QED BY <2>1, <2>2
<1> QED BY <1>6

LEMMA BelowStays ==
    ASSUME \A a \in Accounts : Children(a)' = Children(a)
    PROVE  \A n \in 0..MaxDeep, a \in Accounts : \A c : c \in Below'[n][a] <=> c \in Below[n][a]
<1>1. (\A n \in 0..MaxDeep, a \in Accounts :
        \A c : c \in Below[n][a] <=> n # 0 /\ (c \in Children(a) \/ \E b \in Children(a) : c \in Below[n - 1][b]))'
  BY BelowEquation, PTL
<1>2. \A n \in 0..MaxDeep, a \in Accounts :
        \A c : c \in Below'[n][a] <=> n # 0 /\ (c \in Children(a) \/ \E b \in Children(a) : c \in Below'[n - 1][b])
  BY <1>1
<1> DEFINE S == {n \in Nat : n <= MaxDeep => \A a \in Accounts : \A c : c \in Below'[n][a] <=> c \in Below[n][a]}
<1>3. 0 \in S
  BY <1>2, BelowEquation, IdentitiesAssumption
<1>4. ASSUME NEW n \in Nat, n \in S PROVE n + 1 \in S
  <2> SUFFICES ASSUME n + 1 <= MaxDeep, NEW a \in Accounts, NEW c
               PROVE  c \in Below'[n + 1][a] <=> c \in Below[n + 1][a]
    OBVIOUS
  <2>1. PICK m \in 0..MaxDeep : m = n + 1
    BY IdentitiesAssumption
  <2>2. m # 0 /\ m - 1 = n /\ n <= MaxDeep
    BY <2>1, IdentitiesAssumption
  <2>3. c \in Below[m][a] <=> c \in Children(a) \/ \E b \in Children(a) : c \in Below[n][b]
    BY <2>2, BelowEquation
  <2>4. c \in Below'[m][a] <=> c \in Children(a) \/ \E b \in Children(a) : c \in Below'[n][b]
    BY <2>2, <1>2
  <2>5. \A b \in Accounts : c \in Below'[n][b] <=> c \in Below[n][b]
    BY <1>4, <2>2
  <2>6. Children(a) \subseteq Accounts
    BY DEF Children
  <2> QED BY <2>1, <2>3, <2>4, <2>5, <2>6
<1> HIDE DEF S
<1>5. Nat \subseteq S
  BY <1>3, <1>4, Induction
<1> QED BY <1>5, IdentitiesAssumption DEF S

-----------------------------------------------------------------------------
(* What is below an account that sets its identity.                        *)

Covers(s) == {s.account} \union Below[MaxDeep - s.deep][s.account]

\* A child that is still to be saved has the parent it had when it was read, and is given
\* what the account says.  Whoever is below the account says it, or will be saved, below
\* a call that is still to come.
TreeOK(a, j, info) ==
    /\ \A i \in DOMAIN j.todo : j.todo[i].deep # 0 =>
          /\ identities[j.todo[i].account].parent = j.todo[i].data.parent
          /\ j.todo[i].data.info = info
    /\ j.pc = "children" => identities[j.todo[1].account].info = info /\ j.old.info = info
    /\ \A b \in {a} \union Below[MaxDeep][a] :
          identities[b].info = info \/ \E i \in DOMAIN j.todo : b \in Covers(j.todo[i])

TreeInv == \A a \in Accounts : SetsIdentity(a) => TreeOK(a, jobs[a], batch[begun].info)

\* Who sets its identity is saved alone.
LEMMA OnlySaver ==
    ASSUME TypeOK, SaveInv, NEW a \in Accounts, SetsIdentity(a)
    PROVE  /\ batch[begun] \in Extrinsics /\ begun # 0
           /\ jobs[a] \in Job /\ JobOK(a, jobs[a])
           /\ \A b \in Accounts \ {a} : jobs[b] = NoJob
           /\ DataOf(batch[begun]).info = batch[begun].info
           /\ batch[begun].info \in Infos
<1>1. jobs[a] \in Job /\ JobOK(a, jobs[a]) /\ begun # 0
  BY DEF SetsIdentity, SaveInv, TypeOK
<1>2. begun \in 1..Len(batch) /\ batch \in Seq(Extrinsics)
  BY <1>1 DEF TypeOK
<1>3. PICK e \in Extrinsics : e = batch[begun]
  BY <1>2
<1>4. e.method = "setIdentity" /\ e.info # Absent
  BY <1>3 DEF SetsIdentity
<1>5. AccountsOf(e) = {e.signer} /\ DataOf(e).info = e.info
  BY <1>4 DEF AccountsOf, DataOf
<1>6. \A b \in Accounts : jobs[b] # NoJob => b = e.signer
  BY <1>3, <1>5 DEF SaveInv, JobOK
<1>7. e.info \in Infos
  BY <1>4, IdentitiesAssumption DEF Extrinsic
<1> QED BY <1>1, <1>3, <1>5, <1>6, <1>7 DEF SetsIdentity

LEMMA BelowAccounts ==
    ASSUME NEW n \in 0..MaxDeep, NEW a \in Accounts
    PROVE  Below[n][a] \subseteq Accounts
<1> DEFINE S == {k \in Nat : k <= MaxDeep => \A x \in Accounts : \A c : c \in Below[k][x] => c \in Accounts}
<1>1. 0 \in S
  BY BelowEquation, IdentitiesAssumption
<1>2. ASSUME NEW k \in Nat, k \in S PROVE k + 1 \in S
  <2> SUFFICES ASSUME k + 1 <= MaxDeep, NEW x \in Accounts, NEW c, c \in Below[k + 1][x]
               PROVE  c \in Accounts
    OBVIOUS
  <2>1. PICK m \in 0..MaxDeep : m = k + 1
    BY IdentitiesAssumption
  <2>2. m # 0 /\ m - 1 = k /\ k <= MaxDeep
    BY <2>1, IdentitiesAssumption
  <2>3. c \in Children(x) \/ \E b \in Children(x) : c \in Below[k][b]
    BY <2>1, <2>2, BelowEquation
  <2> QED BY <1>2, <2>2, <2>3 DEF Children
<1> HIDE DEF S
<1>3. Nat \subseteq S
  BY <1>1, <1>2, Induction
<1> QED BY <1>3, IdentitiesAssumption DEF S

\* Rows that keep their parents have the same below them.
LEMMA CoversStay ==
    ASSUME TypeOK, \A a \in Accounts : identities'[a].parent = identities[a].parent
    PROVE  /\ \A a \in Accounts : \A b : b \in Below'[MaxDeep][a] <=> b \in Below[MaxDeep][a]
           /\ \A s \in Save : \A b : b \in Covers(s)' <=> b \in Covers(s)
<1>1. \A a \in Accounts : Children(a)' = Children(a)
  BY DEF Children
<1>2. \A n \in 0..MaxDeep, a \in Accounts : \A b : b \in Below'[n][a] <=> b \in Below[n][a]
  BY <1>1, BelowStays
<1>3. ASSUME NEW s \in Save, NEW b PROVE b \in Covers(s)' <=> b \in Covers(s)
  <2>1. s.account \in Accounts /\ MaxDeep - s.deep \in 0..MaxDeep
    BY SaveFields, IdentitiesAssumption
  <2> QED BY <1>2, <2>1 DEF Covers
<1>4. MaxDeep \in 0..MaxDeep
  BY IdentitiesAssumption
<1> QED BY <1>2, <1>3, <1>4

\* A step that changes no row, and not what is to be saved.
LEMMA TreeStays ==
    ASSUME TypeOK, NEW a \in Accounts, NEW j \in Job, NEW k \in Job, NEW info,
           TreeOK(a, j, info), k.todo = j.todo, k.pc # "children" \/ k = j,
           UNCHANGED identities
    PROVE  TreeOK(a, k, info)'
<1>1. \A x \in Accounts : identities'[x].parent = identities[x].parent
  OBVIOUS
<1>2. j.todo \in Seq(Save)
  BY JobFields
<1>3. \A i \in DOMAIN j.todo : \A b : b \in Covers(j.todo[i])' <=> b \in Covers(j.todo[i])
  <2>1. \A i \in DOMAIN j.todo : j.todo[i] \in Save
    BY <1>2
  <2> QED BY <1>1, <2>1, CoversStay
<1>4. \A b : b \in Below'[MaxDeep][a] <=> b \in Below[MaxDeep][a]
  BY <1>1, CoversStay
<1>5. \A i \in DOMAIN k.todo : k.todo[i].deep # 0 =>
          /\ identities'[k.todo[i].account].parent = k.todo[i].data.parent
          /\ k.todo[i].data.info = info
  BY DEF TreeOK
<1>6. k.pc = "children" => identities'[k.todo[1].account].info = info /\ k.old.info = info
  BY DEF TreeOK
<1>7. ASSUME NEW b \in {a} \union Below'[MaxDeep][a]
      PROVE  identities'[b].info = info \/ \E i \in DOMAIN k.todo : b \in Covers(k.todo[i])'
  BY <1>3, <1>4 DEF TreeOK
<1> QED BY <1>5, <1>6, <1>7 DEF TreeOK

\* At first all is to be saved.
LEMMA TreeAtFirst ==
    ASSUME NEW a \in Accounts, NEW j \in Job, NEW info, NEW s \in Save, j.todo = <<s>>,
           s.deep = 0, s.account = a,
           j.pc = "children" => identities'[a].info = info /\ j.old.info = info
    PROVE  TreeOK(a, j, info)'
<1>1. DOMAIN j.todo = {1} /\ j.todo[1] = s
  OBVIOUS
<1>2. MaxDeep - s.deep = MaxDeep
  BY IdentitiesAssumption
<1>3. ASSUME NEW b \in {a} \union Below'[MaxDeep][a] PROVE b \in Covers(s)'
  BY <1>2 DEF Covers
<1> QED BY <1>1, <1>3 DEF TreeOK

LEMMA BeginTree ==
    ASSUME TypeOK, NEW e \in Extrinsics, Begin(e), NEW a \in Accounts, SetsIdentity(a)'
    PROVE  TreeOK(a, jobs[a], batch[begun].info)'
<1>1. a \in AccountsOf(e) /\ jobs'[a] = JobOf(a, e)
  BY DEF Begin, SetsIdentity
<1>2. DataOf(e) \in Partial /\ MaxDeep \in Nat
  BY DataOfAnExtrinsic, IdentitiesAssumption
<1>3. PICK s : s = [account |-> a, data |-> DataOf(e), deep |-> 0]
  OBVIOUS
<1>4. s \in Save /\ s.deep = 0 /\ s.account = a
  BY <1>2, <1>3 DEF Save
<1>5. PICK j : j = [pc |-> "find", todo |-> <<s>>, at |-> a, climbed |-> 0, old |-> NoIdentity]
  OBVIOUS
<1>6. j.pc = "find" /\ j.todo = <<s>>
  BY <1>5
<1>7. j = jobs'[a]
  BY <1>1, <1>3, <1>5 DEF JobOf
<1>8. j \in Job
  BY <1>1, <1>7, OwnJob
<1>9. PICK info : info = batch'[begun'].info
  OBVIOUS
<1>10. TreeOK(a, j, info)'
  BY <1>4, <1>6, <1>8, TreeAtFirst
<1> QED BY <1>7, <1>9, <1>10 DEF TreeOK, Covers

\* A job that looks up who is above goes on to do the same.
LEMMA FoundJob ==
    ASSUME TypeOK, NEW a \in Accounts, Find(a), jobs[a].todo # <<>>
    PROVE  jobs'[a] \in Job /\ jobs'[a].todo = jobs[a].todo /\ jobs'[a].pc \in {"find", "write"}
<1>1. PICK j \in Job : j = jobs[a]
  BY JobWithStep DEF Find
<1>4. PICK new : /\ jobs' = [jobs EXCEPT ![a] = new]
                 /\ \/ \E old \in Partial : new = [j EXCEPT !.pc = "write", !.old = old]
                    \/ new = [j EXCEPT !.at = Above(j), !.climbed = @ + 1]
  <2>1. identities[j.at] \in Partial /\ NoIdentity \in Partial
    BY JobFields, RowFields, NothingIsPartial
  <2>2. PICK new : new = IF Above(j) \in {Null, Absent, j.at} THEN [j EXCEPT !.pc = "write", !.old = identities[j.at]]
                         ELSE IF j.climbed < MaxDeep THEN Climb(j)
                         ELSE [j EXCEPT !.pc = "write", !.old = NoIdentity]
    OBVIOUS
  <2>3. jobs' = [jobs EXCEPT ![a] = new]
    BY <1>1, <2>2, Zenon DEF Find
  <2>4. \/ \E old \in Partial : new = [j EXCEPT !.pc = "write", !.old = old]
        \/ new = [j EXCEPT !.at = Above(j), !.climbed = @ + 1]
    BY <2>1, <2>2 DEF Climb
  <2> QED BY <2>3, <2>4
<1>5. jobs'[a] = new /\ UNCHANGED <<identities, batch, begun>>
  BY <1>4 DEF TypeOK, Find
<1>6. TypeOK'
  BY FindType
<1>7. new.todo = j.todo /\ new.pc \in {"find", "write"}
  <2>1. CASE \E old \in Partial : new = [j EXCEPT !.pc = "write", !.old = old]
    <3>1. PICK old \in Partial : new = [j EXCEPT !.pc = "write", !.old = old]
      BY <2>1
    <3>2. "write" \in {"write", "children"}
      OBVIOUS
    <3> QED BY <3>1, <3>2, JobGoesOn
  <2>2. CASE new = [j EXCEPT !.at = Above(j), !.climbed = @ + 1]
    <3>1. j = [pc |-> j.pc, todo |-> j.todo, at |-> j.at, climbed |-> j.climbed, old |-> j.old]
      BY JobFields
    <3>2. new.pc = j.pc /\ new.todo = j.todo
      BY <2>2, <3>1
    <3> QED BY <1>1, <3>2 DEF Find
  <2> QED BY <1>4, <2>1, <2>2
<1>8. new \in Job
  <2>1. new \in Job \union {NoJob}
    BY <1>5, <1>6 DEF TypeOK
  <2> QED BY <1>7, <2>1 DEF NoJob
<1> QED BY <1>1, <1>5, <1>7, <1>8

LEMMA WrittenJob ==
    ASSUME TypeOK, NEW a \in Accounts, Write(a), jobs[a].todo # <<>>
    PROVE  /\ jobs'[a] \in Job /\ jobs'[a].todo = jobs[a].todo /\ jobs'[a].pc = "children"
           /\ jobs'[a].old = Updated(jobs[a])
<1>1. PICK j \in Job : j = jobs[a]
  BY JobWithStep DEF Write
<1>2. PICK u \in Partial : u = Updated(j)
  BY <1>1, WriteStep
<1>3. PICK w : w = [j EXCEPT !.pc = "children", !.old = u]
  OBVIOUS
<1>4. "children" \in {"write", "children"}
  OBVIOUS
<1>5. w \in Job /\ w.pc = "children" /\ w.todo = j.todo /\ w.old = u
  BY <1>3, <1>4, JobGoesOn
<1>6. jobs'[a] = w
  BY <1>1, <1>2, <1>3 DEF Write, TypeOK
<1> QED BY <1>1, <1>2, <1>5, <1>6

LEMMA FindTree ==
    ASSUME TypeOK, SaveInv, TreeInv, NEW a \in Accounts, SetsIdentity(a), Find(a)
    PROVE  TreeOK(a, jobs[a], batch[begun].info)'
<1>1. PICK j \in Job : j = jobs[a]
  BY OnlySaver
<1>2. PICK info : info = batch[begun].info
  OBVIOUS
<1>3. TreeOK(a, j, info)
  BY <1>1, <1>2 DEF TreeInv
<1>4. PICK new \in Job : new = jobs'[a] /\ new.todo = j.todo /\ new.pc # "children"
  BY <1>1, FoundJob, OnlySaver DEF JobOK
<1>5. UNCHANGED <<identities, batch, begun>>
  BY DEF Find
<1>6. TreeOK(a, new, info)'
  BY <1>3, <1>4, <1>5, TreeStays
<1> QED BY <1>2, <1>4, <1>5, <1>6 DEF TreeOK, Covers

LEMMA WriteOwnTree ==
    ASSUME TypeOK, SaveInv, NEW a \in Accounts, SetsIdentity(a), Write(a), jobs[a].todo[1].deep = 0
    PROVE  TreeOK(a, jobs[a], batch[begun].info)'
<1>1. PICK j \in Job : j = jobs[a]
  BY OnlySaver
<1>2. PICK info : info = batch[begun].info
  OBVIOUS
<1>3. JobOK(a, j) /\ j.todo # <<>> /\ j.pc = "write"
  BY <1>1, OnlySaver DEF JobOK, Write
<1>4. PICK s \in Save : s = Head(j.todo) /\ s = j.todo[1]
  BY <1>3, FirstCall
<1>5. /\ s.deep = 0 /\ s.account = a /\ s.data = DataOf(batch[begun]) /\ j.todo = <<s>>
  <2>1. 1 \in DOMAIN j.todo /\ s.deep = 0 /\ j.todo \in Seq(Save)
    BY <1>1, <1>3, <1>4, FirstCall, JobFields
  <2>2. CallOK(a, s) /\ Len(j.todo) = 1
    BY <1>3, <1>4, <2>1 DEF JobOK
  <2> QED BY <1>4, <2>1, <2>2 DEF CallOK
<1>6. info # Absent /\ s.data.info = info
  BY <1>2, <1>5, OnlySaver, ValuesApart
<1>7. PICK d : d = Merged(j.old, s.data)
  OBVIOUS
<1>8. d.info = info
  BY <1>6, <1>7, JobFields, SaveFields, MergedType
<1>9. identities'[a].info = info /\ Updated(j).info = info /\ Updated(j) \in Partial
  BY <1>1, <1>3, <1>4, <1>5, <1>6, <1>7, <1>8, WriteStep
<1>10. PICK w \in Job : w = jobs'[a] /\ w.pc = "children" /\ w.todo = j.todo /\ w.old = Updated(j)
  BY <1>1, <1>3, WrittenJob
<1>11. UNCHANGED <<batch, begun>>
  BY DEF Write
<1>12. TreeOK(a, w, info)'
  BY <1>5, <1>9, <1>10, TreeAtFirst
<1> QED BY <1>2, <1>10, <1>11, <1>12 DEF TreeOK, Covers

LEMMA WriteChildTree ==
    ASSUME TypeOK, SaveInv, TreeInv, NEW a \in Accounts, SetsIdentity(a), Write(a),
           jobs[a].todo[1].deep # 0
    PROVE  TreeOK(a, jobs[a], batch[begun].info)'
<1>1. PICK j \in Job : j = jobs[a]
  BY OnlySaver
<1>2. PICK info \in Infos : info = batch[begun].info
  BY OnlySaver
<1>3. JobOK(a, j) /\ j.todo # <<>> /\ j.pc = "write" /\ TreeOK(a, j, info)
  BY <1>1, <1>2, OnlySaver DEF JobOK, Write, TreeInv
<1>4. PICK s \in Save : s = Head(j.todo) /\ s = j.todo[1] /\ 1 \in DOMAIN j.todo
  BY <1>3, FirstCall
<1>5. s.deep # 0
  BY <1>1, <1>4
<1>6. identities[s.account].parent = s.data.parent /\ s.data.info = info /\ info # Absent
  BY <1>3, <1>4, <1>5, ValuesApart DEF TreeOK
<1>7. /\ identities'[s.account].parent = s.data.parent
      /\ \A x \in Accounts \ {s.account} : identities'[x] = identities[x]
      /\ identities'[s.account].info = info /\ Updated(j).info = info
  BY <1>1, <1>3, <1>4, <1>5, <1>6, ChildRow
<1>10. PICK w \in Job : w = jobs'[a] /\ w.pc = "children" /\ w.todo = j.todo /\ w.old = Updated(j)
  BY <1>1, <1>3, WrittenJob
<1>11. UNCHANGED <<batch, begun>>
  BY DEF Write
<1>12. \A x \in Accounts : identities'[x].parent = identities[x].parent
  BY <1>6, <1>7
<1>12a. \A x \in Accounts : identities[x].info = info => identities'[x].info = info
  BY <1>7
<1>13. \A i \in DOMAIN j.todo : j.todo[i] \in Save
  BY JobFields
<1>14. \A i \in DOMAIN j.todo : \A b : b \in Covers(j.todo[i])' <=> b \in Covers(j.todo[i])
  BY <1>12, <1>13, CoversStay
<1>15. \A b : b \in Below'[MaxDeep][a] <=> b \in Below[MaxDeep][a]
  BY <1>12, CoversStay
<1>16. ASSUME NEW i \in DOMAIN w.todo, w.todo[i].deep # 0
       PROVE  /\ identities'[w.todo[i].account].parent = w.todo[i].data.parent
              /\ w.todo[i].data.info = info
  <2>1. PICK t \in Save : t = w.todo[i] /\ t = j.todo[i] /\ i \in DOMAIN j.todo
    BY <1>10, <1>13
  <2>2. identities[t.account].parent = t.data.parent /\ t.data.info = info
    BY <1>3, <1>16, <2>1 DEF TreeOK
  <2>3. t.account \in Accounts
    BY SaveFields
  <2> QED BY <1>12, <2>1, <2>2, <2>3
<1>17. w.pc = "children" => identities'[w.todo[1].account].info = info /\ w.old.info = info
  BY <1>4, <1>7, <1>10
<1>18. ASSUME NEW b \in {a} \union Below'[MaxDeep][a]
       PROVE  identities'[b].info = info \/ \E i \in DOMAIN w.todo : b \in Covers(w.todo[i])'
  <2>1. b \in Accounts
    BY <1>15, BelowAccounts, IdentitiesAssumption
  <2>2. identities[b].info = info \/ \E i \in DOMAIN j.todo : b \in Covers(j.todo[i])
    BY <1>3, <1>15 DEF TreeOK
  <2> QED BY <1>10, <1>12a, <1>14, <2>1, <2>2
<1>19. TreeOK(a, w, info)'
  BY <1>16, <1>17, <1>18 DEF TreeOK
<1> QED BY <1>2, <1>10, <1>11, <1>19 DEF TreeOK, Covers

\* What a call covers, but for its account, its children's calls cover.
LEMMA CoverSplits ==
    ASSUME NEW s \in Save, NEW b \in Covers(s), b # s.account, NEW data
    PROVE  /\ Deeper(s.deep) <= MaxDeep
           /\ \E c \in Children(s.account) : b \in Covers(ChildSave(c, s, data))
<1>1. s.account \in Accounts /\ s.deep \in 0..MaxDeep
  BY SaveFields
<1>2. PICK n \in 0..MaxDeep : n = MaxDeep - s.deep
  BY <1>1, IdentitiesAssumption
<1>3. b \in Below[n][s.account]
  BY <1>2 DEF Covers
<1>4. n # 0 /\ (b \in Children(s.account) \/ \E c \in Children(s.account) : b \in Below[n - 1][c])
  BY <1>1, <1>3, BelowEquation
<1>5. Deeper(s.deep) <= MaxDeep /\ MaxDeep - Deeper(s.deep) = n - 1
  BY <1>1, <1>2, <1>4, IdentitiesAssumption DEF Deeper
<1>6. PICK c \in Children(s.account) : b = c \/ b \in Below[n - 1][c]
  BY <1>4
<1>7. PICK t : t = ChildSave(c, s, data)
  OBVIOUS
<1>8. t.account = c /\ t.deep = Deeper(s.deep)
  BY <1>7 DEF ChildSave
<1>9. b \in Covers(t)
  BY <1>5, <1>6, <1>8 DEF Covers
<1> QED BY <1>5, <1>7, <1>9

\* When the children are read, nobody is left out.
LEMMA ReadChildrenTree ==
    ASSUME TypeOK, SaveInv, TreeInv, NEW a \in Accounts, SetsIdentity(a), ReadChildren(a)
    PROVE  /\ jobs'[a] # NoJob => TreeOK(a, jobs[a], batch[begun].info)'
           /\ jobs'[a] = NoJob => \A b \in Below[MaxDeep][a] : identities[b].info = batch[begun].info
<1>1. PICK j \in Job : j = jobs[a]
  BY OnlySaver
<1>2. PICK info \in Infos : info = batch[begun].info
  BY OnlySaver
<1>3. j.todo # <<>> /\ j.pc = "children" /\ TreeOK(a, j, info)
  BY <1>1, <1>2, OnlySaver DEF JobOK, ReadChildren, TreeInv
<1>4. PICK s \in Save : s = Head(j.todo) /\ s = j.todo[1] /\ 1 \in DOMAIN j.todo
  BY <1>3, FirstCall
<1>5. identities[s.account].info = info /\ j.old.info = info /\ info # Absent
  BY <1>3, <1>4, ValuesApart DEF TreeOK
<1>6. PICK todo \in Seq(Save), new \in Job \union {NoJob} :
        /\ jobs' = [jobs EXCEPT ![a] = new]
        /\ IF todo = <<>> THEN new = NoJob
           ELSE new # NoJob /\ new.pc = "write" /\ new.todo = todo /\ new.old = NoIdentity
        /\ LeftToDo(jobs[a], todo)
  BY <1>1, <1>3, ReadChildrenStep, Zenon
<1>7. jobs'[a] = new /\ UNCHANGED <<batch, begun, identities>>
  BY <1>6 DEF TypeOK, ReadChildren
<1>8. ASSUME NEW i \in DOMAIN j.todo, NEW b \in Covers(j.todo[i])
      PROVE  identities[b].info = info \/ \E k \in DOMAIN todo : b \in Covers(todo[k])
  <2>1. CASE i # 1
    BY <1>1, <1>6, <2>1 DEF LeftToDo
  <2>2. CASE i = 1 /\ b # s.account
    <3>1. /\ Deeper(s.deep) <= MaxDeep
          /\ \E c \in Children(s.account) : b \in Covers(ChildSave(c, s, j.old))
      BY <1>4, <2>2, CoverSplits
    <3>2. PICK c \in Children(s.account) : b \in Covers(ChildSave(c, s, j.old))
      BY <3>1
    <3>3. PICK k \in DOMAIN todo : todo[k] = ChildSave(c, s, j.old)
      BY <1>1, <1>4, <1>6, <3>1 DEF LeftToDo
    <3> QED BY <3>2, <3>3
  <2>3. CASE i = 1 /\ b = s.account
    BY <1>5, <2>3
  <2> QED BY <2>1, <2>2, <2>3
<1>9. ASSUME NEW b \in {a} \union Below[MaxDeep][a]
      PROVE  identities[b].info = info \/ \E k \in DOMAIN todo : b \in Covers(todo[k])
  BY <1>3, <1>8 DEF TreeOK
<1>10. ASSUME jobs'[a] = NoJob, NEW b \in Below[MaxDeep][a]
       PROVE  identities[b].info = info
  <2>1. todo = <<>>
    BY <1>6, <1>7, <1>10
  <2> QED BY <1>9, <2>1
<1>11. ASSUME jobs'[a] # NoJob PROVE TreeOK(a, new, info)'
  <2>1. new.pc = "write" /\ new.todo = todo /\ new \in Job
    BY <1>6, <1>7, <1>11
  <2>2. ASSUME NEW i \in DOMAIN todo, todo[i].deep # 0
        PROVE  /\ identities[todo[i].account].parent = todo[i].data.parent
               /\ todo[i].data.info = info
    <3>1. CASE \E k \in DOMAIN j.todo \ {1} : todo[i] = j.todo[k]
      BY <1>3, <2>2, <3>1 DEF TreeOK
    <3>2. CASE Deeper(s.deep) <= MaxDeep /\ \E b \in Children(s.account) : todo[i] = ChildSave(b, s, j.old)
      <4>1. PICK b \in Children(s.account) : todo[i] = ChildSave(b, s, j.old)
        BY <3>2
      <4>2. identities[todo[i].account].parent = todo[i].data.parent
        BY <3>2, <4>1, ChildCalls, JobFields
      <4>3. todo[i].data.info = Inherits(b, j.old)
        BY <4>1 DEF ChildSave
      <4> QED BY <1>5, <4>2, <4>3 DEF Inherits
    <3> QED BY <1>1, <1>4, <1>6, <3>1, <3>2 DEF LeftToDo
  <2>3. TreeOK(a, new, info)
    BY <1>9, <2>1, <2>2 DEF TreeOK
  <2> QED BY <1>7, <2>1, <2>3, TreeStays
<1> QED BY <1>2, <1>7, <1>10, <1>11 DEF TreeOK, Covers

LEMMA TreeInvStep ==
    ASSUME TypeOK, SaveInv, TreeInv, [Next]_vars
    PROVE  TreeInv'
<1> SUFFICES ASSUME NEW a \in Accounts, SetsIdentity(a)'
             PROVE  TreeOK(a, jobs[a], batch[begun].info)'
  BY DEF TreeInv
<1>1. ASSUME NEW e \in Extrinsics, BeginNext(e) PROVE TreeOK(a, jobs[a], batch[begun].info)'
  BY <1>1, BeginTree DEF BeginNext
<1>2. CASE BeginAgain
  <2>1. batch[begun + 1] \in Extrinsics
    BY <1>2 DEF BeginAgain, TypeOK
  <2> QED BY <1>2, <2>1, BeginTree DEF BeginAgain
<1>3. ASSUME NEW x \in Accounts, Find(x) \/ Write(x) \/ ReadChildren(x)
      PROVE  TreeOK(a, jobs[a], batch[begun].info)'
  <2>1. jobs[x] \in Job /\ jobs[x] # NoJob /\ UNCHANGED <<batch, begun>>
    BY <1>3, JobWithStep DEF Find, Write, ReadChildren
  <2>2. \A y \in Accounts \ {x} : jobs'[y] = jobs[y]
    BY <1>3 DEF Find, Write, ReadChildren, TypeOK
  <2>3. SetsIdentity(a)
    BY <2>1, <2>2 DEF SetsIdentity
  <2>4. x = a
    BY <2>1, <2>3, OnlySaver
  <2>5. CASE Find(a)
    BY <2>3, <2>5, FindTree
  <2>6. CASE Write(a)
    BY <2>3, <2>6, WriteOwnTree, WriteChildTree
  <2>7. CASE ReadChildren(a)
    BY <2>3, <2>7, ReadChildrenTree DEF SetsIdentity
  <2> QED BY <1>3, <2>4, <2>5, <2>6, <2>7
<1>4. CASE StorePlace \/ Crash
  BY <1>4 DEF StorePlace, Crash, SetsIdentity, Busy
<1>5. CASE UNCHANGED vars
  <2>1. SetsIdentity(a) /\ UNCHANGED <<identities, batch, begun, jobs>>
    BY <1>5 DEF vars, SetsIdentity
  <2>2. PICK j \in Job : j = jobs[a]
    BY <2>1, OnlySaver
  <2>3. PICK info : info = batch[begun].info
    OBVIOUS
  <2>4. TreeOK(a, j, info)
    BY <2>1, <2>2, <2>3 DEF TreeInv
  <2>5. TreeOK(a, j, info)'
    BY <2>1, <2>4, TreeStays
  <2> QED BY <2>1, <2>2, <2>3, <2>5 DEF TreeOK, Covers
<1> QED BY <1>1, <1>2, <1>3, <1>4, <1>5 DEF Next, Saving

\* A save that sets an identity ends when the last children have been read.
LEMMA LastChildren ==
    ASSUME TypeOK, SaveInv, TreeInv, Next, NEW a \in Accounts, SetsIdentity(a), jobs'[a] = NoJob,
           begun' = begun
    PROVE  \A b \in Below[MaxDeep][a] : identities[b].info = batch[begun].info
<1>1. jobs[a] \in Job /\ jobs[a] # NoJob /\ begun # 0 /\ begun \in Nat
  BY OnlySaver DEF SetsIdentity, TypeOK
<1>2. ~ BeginAgain /\ ~ StorePlace /\ ~ Crash /\ \A e \in Extrinsics : ~ BeginNext(e)
  BY <1>1 DEF BeginAgain, BeginNext, Begin, StorePlace, Crash, Busy
<1>3. PICK x \in Accounts : Find(x) \/ Write(x) \/ ReadChildren(x)
  BY <1>2 DEF Next, Saving
<1>4. x = a
  BY <1>3, JobWithStep, OnlySaver DEF Find, Write, ReadChildren
<1>5. jobs[a].todo # <<>>
  BY OnlySaver DEF JobOK
<1>6. ~ Find(a) /\ ~ Write(a)
  BY <1>5, FoundJob, WrittenJob DEF NoJob, Job
<1> QED BY <1>3, <1>4, <1>6, ReadChildrenTree

-----------------------------------------------------------------------------
(* The theorems.                                                           *)

LEMMA SavesAreRight == Spec => [](TypeOK /\ SaveInv)
<1>1. TypeOK /\ SaveInv /\ [Next]_vars => (TypeOK /\ SaveInv)'
  BY SaveInvStep
<1> QED BY <1>1, SaveInvInit, PTL DEF Spec

LEMMA TreesAreRight == Spec => [](TypeOK /\ SaveInv /\ TreeInv)
<1>1. Init => TreeInv
  BY DEF Init, TreeInv, SetsIdentity
<1>2. TypeOK /\ SaveInv /\ TreeInv /\ [Next]_vars => (TypeOK /\ SaveInv /\ TreeInv)'
  BY SaveInvStep, TreeInvStep
<1> QED BY <1>1, <1>2, SaveInvInit, PTL DEF Spec

\* The rows of identities and the saves in progress keep their types: in particular no
\* account is its own parent.
THEOREM IdentitiesTypeCorrect == Spec => []TypeOK
BY SavesAreRight, PTL

\* An account has the parent that was last said of it, though its row is written as well
\* for its parents' sake, and all is done again after a crash.
THEOREM ParentsAreAsSaid == Spec => []ParentAsSaid
<1>1. TypeOK /\ SaveInv => ParentAsSaid
  BY DEF SaveInv, SaidOK, ParentAsSaid
<1> QED BY <1>1, SavesAreRight, PTL

\* When an identity that was set has been saved, all below it say the same, as deep as is
\* looked, around a circle of parents too.
THEOREM AllBelowFollow == Spec => ChildrenFollow
<1>1. TypeOK /\ SaveInv /\ TreeInv /\ [Next]_vars =>
        [\A a \in Accounts : SetsIdentity(a) /\ jobs'[a] = NoJob /\ begun' = begun =>
            \A b \in Below[MaxDeep][a] : identities[b].info = batch[begun].info]_vars
  BY LastChildren
<1> QED BY <1>1, TreesAreRight, PTL DEF Spec, ChildrenFollow
=============================================================================
