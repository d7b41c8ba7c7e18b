------------------------------ MODULE Identities ------------------------------
(***************************************************************************)
(* The second loop of IdentityListnerService, over the extrinsics of the   *)
(* pallet identity, and the identities table IdentityProcessorService      *)
(* keeps with them.  A sub-account's row has its parent, and a copy of the *)
(* parent's fields: saveIdentity brings every row below the one it saves   *)
(* up to date, one awaited query after another.  setSubs starts a save for *)
(* each sub-account and has them run side by side.                         *)
(*                                                                         *)
(* Abstractions.                                                           *)
(*  - The six fields of an identity are one, info.                         *)
(*  - The loop has the cursor of IdentityListener; here batch has the      *)
(*    extrinsics read since its place was stored, which are handled again  *)
(*    after a crash.  An extrinsic is chosen when it is handled first.     *)
(*  - Nobody asks whether an extrinsic succeeded, so any may come.  Those  *)
(*    that lack a signer or arguments change nothing, as the methods that  *)
(*    are read and not handled.                                            *)
(***************************************************************************)
EXTENDS Naturals, SequencesExt

CONSTANTS
    Accounts,
    Infos,          \* what an identity may say
    Null,           \* a column without a value
    Absent,         \* a column that is not written
    Extrinsics,     \* the extrinsics that may come
    MaxDeep,        \* the 10 levels of saveIdentity and findIdentityByAccountId
    ChunkSize,      \* BATCH_INSERT_CHUNK_SIZE
    MaxExtrinsics,  \* bound: extrinsics
    MaxCrashes      \* bound: crashes

\* clearIdentity stands for the methods that are logged and change nothing.
Method == {"setIdentity", "addSub", "setSubs", "removeSub", "quitSub", "clearIdentity"}

Extrinsic == [method : Method, signer : Accounts, subs : SUBSET Accounts, info : Infos \union {Absent}]

ASSUME IdentitiesAssumption ==
    /\ IsFiniteSet(Accounts)
    /\ Null \notin Accounts \union Infos \union {Absent}
    /\ Absent \notin Accounts \union Infos
    /\ Extrinsics \subseteq Extrinsic
    /\ MaxDeep \in Nat /\ ChunkSize \in Nat \ {0}
    /\ MaxExtrinsics \in Nat /\ MaxCrashes \in Nat

VARIABLES
    identities, \* the identities table
    batch,      \* the extrinsics read since the place in processing_state was stored
    begun,      \* how many of them the loop has begun
    jobs,       \* the saves in progress, by the account they were called for
    said,       \* history: what was last saved for each account, itself and not as a child
    extrinsics, \* how many extrinsics there were
    crashes     \* how many crashes

vars == <<identities, batch, begun, jobs, said, extrinsics, crashes>>

-----------------------------------------------------------------------------
Columns == [parent : Accounts \union {Null}, info : Infos \union {Null}]
NoIdentity == [parent |-> Absent, info |-> Absent]
Partial == [parent : Accounts \union {Null, Absent}, info : Infos \union {Null, Absent}]

\* A call of saveIdentity; those for children (deep > 0) are withoutOld.
Save == [account : Accounts, data : Partial, deep : 0..MaxDeep]

\* todo: the call in progress and those that follow it, depth first; at: the account
\* looked up, climbed levels up; old: oldIdentity, and then updatedIdentity.
Job == [pc : {"find", "write", "children"}, todo : Seq(Save), at : Accounts,
        climbed : 0..MaxDeep, old : Partial]
NoJob == [pc |-> "none"]

TypeOK ==
    /\ identities \in [Accounts -> Columns \union {NoIdentity}]
    /\ \A a \in Accounts : identities[a].parent # a
    /\ batch \in Seq(Extrinsics) /\ Len(batch) <= ChunkSize
    /\ begun \in 0..Len(batch)
    /\ jobs \in [Accounts -> Job \union {NoJob}]
    /\ said \in [Accounts -> [by : Accounts \union {Null}, own : BOOLEAN, shared : BOOLEAN]]
    /\ extrinsics \in 0..MaxExtrinsics /\ crashes \in 0..MaxCrashes

Init ==
    /\ identities = [a \in Accounts |-> NoIdentity]
    /\ batch = <<>>
    /\ begun = 0
    /\ jobs = [a \in Accounts |-> NoJob]
    /\ said = [a \in Accounts |-> [by |-> Null, own |-> FALSE, shared |-> FALSE]]
    /\ extrinsics = 0
    /\ crashes = 0

Busy == \E a \in Accounts : jobs[a] # NoJob

-----------------------------------------------------------------------------
(* processExtrinsic: the calls of saveIdentity.                            *)

\* The data an extrinsic has for account a: the fields that are not empty, or the parent.
DataOf(e) ==
    [parent |-> IF e.method \in {"addSub", "setSubs"} THEN e.signer
                ELSE IF e.method \in {"removeSub", "quitSub"} THEN Null ELSE Absent,
     info   |-> IF e.method = "setIdentity" THEN e.info ELSE Absent]

AccountsOf(e) ==
    IF e.method \in {"addSub", "setSubs", "removeSub"} THEN e.subs
    ELSE IF e.method \in {"setIdentity", "quitSub"} THEN {e.signer} ELSE {}

JobOf(a, e) == [pc |-> "find", todo |-> <<[account |-> a, data |-> DataOf(e), deep |-> 0]>>,
                at |-> a, climbed |-> 0, old |-> NoIdentity]

Begin(e) ==
    /\ ~ Busy
    /\ begun' = begun + 1
    /\ jobs' = [a \in Accounts |-> IF a \in AccountsOf(e) THEN JobOf(a, e) ELSE NoJob]
    /\ UNCHANGED <<identities, said, crashes>>

BeginNext(e) ==
    /\ begun = Len(batch) /\ Len(batch) < ChunkSize
    /\ extrinsics < MaxExtrinsics
    /\ extrinsics' = extrinsics + 1
    /\ batch' = Append(batch, e)
    /\ Begin(e)

\* After a crash.
BeginAgain ==
    /\ begun < Len(batch)
    /\ Begin(batch[begun + 1])
    /\ UNCHANGED <<batch, extrinsics>>

-----------------------------------------------------------------------------
(* findIdentityByAccountId.                                                *)

\* Mutant: the parent's row is taken, and not the one at the top.
ParentOnly(j) ==
    LET row == identities[j.at]
        parent == Head(j.todo).data.parent IN
    IF row # NoIdentity THEN (IF j.climbed = 0 THEN row.parent ELSE Null)
    ELSE IF j.climbed = 0 THEN parent ELSE Null

\* The account to look at next: the row's parent; without a row, and only at first, the
\* parent the row is about to get.
Above(j) ==
    LET row == identities[j.at]
        parent == Head(j.todo).data.parent IN
    IF row # NoIdentity THEN row.parent
    ELSE IF j.climbed = 0 THEN parent ELSE Null

\* Mutant: the levels are not counted.
ClimbUncounted(j) == [j EXCEPT !.at = Above(j)]

Climb(j) == [j EXCEPT !.at = Above(j), !.climbed = @ + 1]

\* One query.  Above the last level nothing is found, whatever there is.
Find(a) ==
    LET j == jobs[a]
        found(old) == [j EXCEPT !.pc = "write", !.old = old] IN
    /\ j.pc = "find"
    /\ jobs' = [jobs EXCEPT ![a] =
          IF Above(j) \in {Null, Absent, j.at} THEN found(identities[j.at])
          ELSE IF j.climbed < MaxDeep THEN Climb(j)
          ELSE found(NoIdentity)]
    /\ UNCHANGED <<identities, batch, begun, said, extrinsics, crashes>>

-----------------------------------------------------------------------------
(* saveIdentity.                                                           *)

\* { ...first, ...second }
Merged(first, second) ==
    [parent |-> IF second.parent = Absent THEN first.parent ELSE second.parent,
     info   |-> IF second.info = Absent THEN first.info ELSE second.info]

\* Mutant: an account may be its own parent.
WithOwnParent(a, data) == data

WithoutOwnParent(a, data) == IF data.parent = a THEN [data EXCEPT !.parent = Absent] ELSE data

\* updatedIdentity.
Updated(j) == LET s == Head(j.todo) IN WithoutOwnParent(s.account, Merged(j.old, s.data))

NewRow == [parent |-> Null, info |-> Null]

\* The insert, which merges the columns it has into the row that is there.
Write(a) ==
    LET j == jobs[a]
        s == Head(j.todo)
        row == IF identities[s.account] = NoIdentity THEN NewRow ELSE identities[s.account] IN
    /\ j.pc = "write"
    /\ identities' = [identities EXCEPT ![s.account] = Merged(row, Updated(j))]
    /\ jobs' = [jobs EXCEPT ![a].pc = "children", ![a].old = Updated(j)]
    /\ said' = IF s.deep > 0 \/ s.data.parent = a THEN said
               ELSE IF s.data.parent = Absent THEN [said EXCEPT ![a].own = TRUE]
               ELSE [said EXCEPT ![a] = [by |-> s.data.parent, own |-> FALSE,
                                         shared |-> Cardinality(AccountsOf(batch[begun])) > 1]]
    /\ UNCHANGED <<batch, begun, extrinsics, crashes>>

Children(a) == {b \in Accounts : identities[b].parent = a}

Deeper(n) == n + 1

\* Mutant: a child's fields are taken where it has none itself.
KeepsOwn(b, data) == IF identities[b].info # Null THEN identities[b].info ELSE data.info

\* A child is saved as it is, with the parent's fields.
Inherits(b, data) == IF data.info = Absent THEN Null ELSE data.info

ChildSave(b, s, data) ==
    [account |-> b, deep |-> Deeper(s.deep),
     data |-> [parent |-> s.account, info |-> Inherits(b, data)]]

\* The children are read, in any order, and saved one by one, each with all below it,
\* before the next; below the last level no more is done.
ReadChildren(a) ==
    LET j == jobs[a]
        s == Head(j.todo)
        children == IF Deeper(s.deep) > MaxDeep THEN {} ELSE Children(s.account) IN
    /\ j.pc = "children"
    /\ \E order \in SetToSeqs(children) :
        LET todo == [i \in DOMAIN order |-> ChildSave(order[i], s, j.old)] \o Tail(j.todo) IN
        jobs' = [jobs EXCEPT ![a] = IF todo = <<>> THEN NoJob
                                    ELSE [j EXCEPT !.pc = "write", !.todo = todo, !.old = NoIdentity]]
    /\ UNCHANGED <<identities, batch, begun, said, extrinsics, crashes>>

-----------------------------------------------------------------------------
\* The place is stored at the end of a batch, which has as many rows as there are, or
\* ChunkSize.
StorePlace ==
    /\ ~ Busy /\ batch # <<>> /\ begun = Len(batch)
    /\ batch' = <<>>
    /\ begun' = 0
    /\ UNCHANGED <<identities, jobs, said, extrinsics, crashes>>

\* The process ends: also by an error of a query, which saveIdentity throws again and
\* nobody catches.
Crash ==
    /\ crashes < MaxCrashes
    /\ crashes' = crashes + 1
    /\ begun' = 0
    /\ jobs' = [a \in Accounts |-> NoJob]
    /\ UNCHANGED <<identities, batch, said, extrinsics>>

Saving == \E a \in Accounts : Find(a) \/ Write(a) \/ ReadChildren(a)

Next ==
    \/ \E e \in Extrinsics : BeginNext(e)
    \/ BeginAgain
    \/ Saving
    \/ StorePlace
    \/ Crash

Spec == Init /\ [][Next]_vars

\* The loop goes on by itself: its queries end.
FairSpec == Spec /\ WF_vars(BeginAgain \/ Saving \/ StorePlace)

-----------------------------------------------------------------------------
(* Properties.                                                             *)

\* An account has the parent the last save for it said, or none if it has saved an
\* identity of its own since, whatever was written for it as somebody's child and
\* whatever was handled again after a crash: a row copied from above brings no parent
\* along.  setSubs of several accounts is an exception: a save of one of them may write
\* back another as it was when it was read.
ParentAsSaid ==
    \A a \in Accounts :
        \/ identities[a].parent \in {said[a].by, Absent}
        \/ said[a].own /\ identities[a].parent = Null
        \/ said[a].shared

\* The accounts below a, at most n levels.
Below[n \in 0..MaxDeep] ==
    [a \in Accounts |-> IF n = 0 THEN {} ELSE
        Children(a) \union UNION {Below[n - 1][b] : b \in Children(a)}]

SetsIdentity(a) ==
    /\ begun # 0 /\ batch[begun].method = "setIdentity" /\ batch[begun].info # Absent
    /\ jobs[a] # NoJob

\* When an identity that was set has been saved, every account below says the same: also
\* those below the children, and around a circle of parents.
ChildrenFollow ==
    [][\A a \in Accounts :
          SetsIdentity(a) /\ jobs'[a] = NoJob /\ begun' = begun =>
              \A b \in Below[MaxDeep][a] : identities[b].info = batch[begun].info]_vars

\* Saving ends, also where the parents go round in a circle.
SavingEnds == Busy ~> ~ Busy
=============================================================================
