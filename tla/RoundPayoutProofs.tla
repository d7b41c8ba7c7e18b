--------------------------- MODULE RoundPayoutProofs ---------------------------
(***************************************************************************)
(* Proofs about RoundPayout, for any chain whose rounds, snapshots and     *)
(* events are as RoundAssumption says, and any faults: its types, that     *)
(* what is stored of a round is what was staked when it began and what was *)
(* paid for it, each reward under its collator, and why an attempt fails.  *)
(***************************************************************************)
EXTENDS RoundPayout, SequenceTheorems, NaturalsInduction, WellFoundedInduction, TLAPS

-----------------------------------------------------------------------------
(* The recursive functions over a sequence: they exist, and what holds at   *)
(* first and from one turn to the next holds at the end.                    *)

LEMMA Induction ==
    ASSUME NEW S, 0 \in S, \A n \in Nat : n \in S => n + 1 \in S
    PROVE  Nat \subseteq S
<1> DEFINE T == Nat \ S
<1> SUFFICES ASSUME T # {} PROVE FALSE
  OBVIOUS
<1>1. PICK n \in T : \A m \in T : <<m, n>> \notin OpToRel(<, Nat)
  BY NatLessThanWellFounded, WFMin
<1>2. n \in Nat /\ n # 0 /\ n \notin S
  OBVIOUS
<1>3. n - 1 \in Nat /\ (n - 1) + 1 = n
  BY <1>2
<1>4. n - 1 \notin S
  BY <1>2, <1>3
<1>5. <<n - 1, n>> \in OpToRel(<, Nat)
  BY <1>2, <1>3 DEF OpToRel
<1> QED BY <1>1, <1>3, <1>4, <1>5

LEMMA InductionTo ==
    ASSUME NEW m \in Nat, NEW S, 0 \in S, \A n \in 1..m : n - 1 \in S => n \in S
    PROVE  m \in S
<1> DEFINE T == {n \in Nat : n <= m => n \in S}
<1>1. 0 \in T
  OBVIOUS
<1>2. ASSUME NEW n \in Nat, n \in T PROVE n + 1 \in T
  <2> SUFFICES ASSUME n + 1 <= m PROVE n + 1 \in S
    OBVIOUS
  <2>1. n \in S /\ n + 1 \in 1..m /\ (n + 1) - 1 = n
    BY <1>2
  <2> QED BY <2>1
<1> HIDE DEF T
<1>3. Nat \subseteq T
  BY <1>1, <1>2, Induction
<1> QED BY <1>3 DEF T

\* One turn of each of the functions: s is the sequence, x what there is so far.
Turn(name, s, a, b, x, n) ==
    IF name = "of"
    THEN IF IsReward(s[n]) /\ Reward(s[n]).account = a THEN Append(x, Reward(s[n])) ELSE x
    ELSE IF name = "names" THEN x \o Named(s[n])
    ELSE IF name = "rewards" THEN IF IsFirst(s, n) THEN x \o RewardsOf(a, s[n]) ELSE x
    ELSE IF name = "sum" THEN x + s[n]
    ELSE IF name = "collated" THEN PayCollator(a, b, x, s[n])
    ELSE PayDelegator(x, s[n])

Turned(name, s, a, b, base, g, n) == IF n = 0 THEN base ELSE Turn(name, s, a, b, g[n - 1], n)

Solves(g, m, name, s, a, b, base) == g = [n \in 0..m |-> Turned(name, s, a, b, base, g, n)]

LEMMA RecursionExists ==
    ASSUME NEW name, NEW s, NEW a, NEW b, NEW base, NEW k \in Nat
    PROVE  \E g : Solves(g, k, name, s, a, b, base)
<1> DEFINE S == {m \in Nat : \E g : g = [n \in 0..m |-> Turned(name, s, a, b, base, g, n)]}
<1>1. 0 \in S
  <2>1. PICK g : g = [n \in 0..0 |-> base]
    OBVIOUS
  <2>2. Turned(name, s, a, b, base, g, 0) = base
    BY DEF Turned
  <2>3. g = [n \in 0..0 |-> Turned(name, s, a, b, base, g, n)]
    BY <2>1, <2>2
  <2> QED BY <2>3
<1>2. ASSUME NEW m \in Nat, m \in S PROVE m + 1 \in S
  <2>1. PICK g : g = [n \in 0..m |-> Turned(name, s, a, b, base, g, n)]
    BY <1>2
  <2>2. PICK h : h = [n \in 0..m + 1 |-> IF n = m + 1 THEN Turned(name, s, a, b, base, g, m + 1) ELSE g[n]]
    OBVIOUS
  <2>3. \A n \in 0..m : h[n] = g[n]
    BY <2>2
  <2>4. ASSUME NEW n \in 0..m + 1
        PROVE  Turned(name, s, a, b, base, h, n) = Turned(name, s, a, b, base, g, n)
    <3>1. CASE n = 0
      BY <3>1 DEF Turned
    <3>2. CASE n # 0
      <4>1. n - 1 \in 0..m
        BY <3>2
      <4>2. h[n - 1] = g[n - 1]
        BY <2>3, <4>1
      <4> QED BY <4>2 DEF Turned
    <3> QED BY <3>1, <3>2
  <2>5. ASSUME NEW n \in 0..m + 1 PROVE h[n] = Turned(name, s, a, b, base, h, n)
    <3>1. CASE n = m + 1
      BY <2>2, <2>4, <3>1
    <3>2. CASE n \in 0..m
      <4>1. g[n] = Turned(name, s, a, b, base, g, n)
        BY <2>1, <3>2
      <4> QED BY <2>3, <2>4, <3>2, <4>1
    <3> QED BY <3>1, <3>2
  <2>6. h = [n \in 0..m + 1 |-> h[n]]
    BY <2>2
  <2>7. h = [n \in 0..m + 1 |-> Turned(name, s, a, b, base, h, n)]
    BY <2>5, <2>6
  <2> QED BY <2>7
<1> HIDE DEF S
<1>3. Nat \subseteq S
  BY <1>1, <1>2, Induction
<1> QED BY <1>3 DEF S, Solves

-----------------------------------------------------------------------------
(* Sums.                                                                    *)

LEMMA SumOverStep ==
    ASSUME NEW f, NEW n \in Nat
    PROVE  SumOver(0, f) = 0 /\ SumOver(n + 1, f) = SumOver(n, f) + f[n + 1]
<1>1. ASSUME NEW m \in Nat
      PROVE  \E g : /\ g = [i \in 0..m |-> IF i = 0 THEN 0 ELSE g[i - 1] + f[i]]
                    /\ SumOver(m, f) = g[m]
  <2>1. PICK h : Solves(h, m, "sum", f, 0, 0, 0)
    BY RecursionExists
  <2>2. h = [i \in 0..m |-> IF i = 0 THEN 0 ELSE h[i - 1] + f[i]]
    BY <2>1 DEF Solves, Turned, Turn
  <2>3. PICK g : g = CHOOSE s : s = [i \in 0..m |-> IF i = 0 THEN 0 ELSE s[i - 1] + f[i]]
    OBVIOUS
  <2>4. g = [i \in 0..m |-> IF i = 0 THEN 0 ELSE g[i - 1] + f[i]]
    BY <2>2, <2>3
  <2>5. SumOver(m, f) = g[m]
    BY <2>3 DEF SumOver
  <2> QED BY <2>4, <2>5
<1>2. SumOver(0, f) = 0
  <2>1. PICK g : g = [i \in 0..0 |-> IF i = 0 THEN 0 ELSE g[i - 1] + f[i]] /\ SumOver(0, f) = g[0]
    BY <1>1
  <2> QED BY <2>1
<1>3. PICK g : /\ g = [i \in 0..n |-> IF i = 0 THEN 0 ELSE g[i - 1] + f[i]]
               /\ SumOver(n, f) = g[n]
  BY <1>1
<1>4. PICK k \in Nat : k = n + 1
  OBVIOUS
<1>5. PICK h : /\ h = [i \in 0..k |-> IF i = 0 THEN 0 ELSE h[i - 1] + f[i]]
               /\ SumOver(k, f) = h[k]
  BY <1>1
<1> DEFINE S == {i \in 0..n : g[i] = h[i]}
<1>6. 0 \in S
  BY <1>3, <1>5, <1>4
<1>7. ASSUME NEW i \in 1..n, i - 1 \in S PROVE i \in S
  BY <1>3, <1>5, <1>7, <1>4
<1> HIDE DEF S
<1>8. n \in S
  BY <1>6, <1>7, InductionTo
<1>9. g[n] = h[n]
  BY <1>8 DEF S
<1>10. h[k] = h[n] + f[k]
  BY <1>5, <1>4
<1> QED BY <1>2, <1>3, <1>5, <1>9, <1>10, <1>4

\* A sum of natural numbers is one.
LEMMA SumOfNaturals ==
    ASSUME NEW f, NEW n \in Nat, \A i \in 1..n : f[i] \in Nat
    PROVE  SumOver(n, f) \in Nat
<1> DEFINE S == {i \in 0..n : SumOver(i, f) \in Nat}
<1>1. 0 \in S
  BY SumOverStep
<1>2. ASSUME NEW i \in 1..n, i - 1 \in S PROVE i \in S
  <2>1. i - 1 \in Nat /\ (i - 1) + 1 = i
    OBVIOUS
  <2>2. SumOver(i, f) = SumOver(i - 1, f) + f[i]
    BY <2>1, SumOverStep
  <2> QED BY <1>2, <2>2
<1> HIDE DEF S
<1>3. n \in S
  BY <1>1, <1>2, InductionTo
<1> QED BY <1>3 DEF S

LEMMA SumsEqual ==
    ASSUME NEW f, NEW g, NEW n \in Nat, \A i \in 1..n : f[i] = g[i]
    PROVE  SumOver(n, f) = SumOver(n, g)
<1> DEFINE S == {i \in 0..n : SumOver(i, f) = SumOver(i, g)}
<1>1. 0 \in S
  BY SumOverStep
<1>2. ASSUME NEW i \in 1..n, i - 1 \in S PROVE i \in S
  <2>1. i - 1 \in Nat /\ (i - 1) + 1 = i
    OBVIOUS
  <2>2. SumOver(i, f) = SumOver(i - 1, f) + f[i] /\ SumOver(i, g) = SumOver(i - 1, g) + g[i]
    BY <2>1, SumOverStep
  <2> QED BY <1>2, <2>2
<1> HIDE DEF S
<1>3. n \in S
  BY <1>1, <1>2, InductionTo
<1> QED BY <1>3 DEF S

LEMMA SumOfBoth ==
    ASSUME NEW f, NEW g, NEW h, NEW n \in Nat,
           \A i \in 1..n : f[i] \in Nat /\ g[i] \in Nat /\ h[i] = f[i] + g[i]
    PROVE  SumOver(n, h) = SumOver(n, f) + SumOver(n, g)
<1> DEFINE S == {i \in 0..n : /\ SumOver(i, f) \in Nat /\ SumOver(i, g) \in Nat
                              /\ SumOver(i, h) = SumOver(i, f) + SumOver(i, g)}
<1>1. 0 \in S
  BY SumOverStep
<1>2. ASSUME NEW i \in 1..n, i - 1 \in S PROVE i \in S
  <2>1. i - 1 \in Nat /\ (i - 1) + 1 = i
    OBVIOUS
  <2>2. /\ SumOver(i, f) = SumOver(i - 1, f) + f[i] /\ SumOver(i, g) = SumOver(i - 1, g) + g[i]
        /\ SumOver(i, h) = SumOver(i - 1, h) + h[i]
    BY <2>1, SumOverStep
  <2> QED BY <1>2, <2>2
<1> HIDE DEF S
<1>3. n \in S
  BY <1>1, <1>2, InductionTo
<1> QED BY <1>3 DEF S

\* h goes on after m as f does from the beginning, for n turns.
GoesAs(h, m, f, n) == \A i \in 1..n : h[m + i] = f[i] /\ f[i] \in Nat

\* One sum, and another from there on.
LEMMA SumsJoined ==
    ASSUME NEW f, NEW g, NEW h, NEW m \in Nat, NEW n \in Nat, GoesAs(h, 0, f, m), GoesAs(h, m, g, n)
    PROVE  SumOver(m + n, h) = SumOver(m, f) + SumOver(n, g)
<1>1. SumOver(m, h) = SumOver(m, f) /\ SumOver(m, f) \in Nat
  <2>1. \A i \in 1..m : h[i] = f[i] /\ f[i] \in Nat
    <3>1. \A i \in 1..m : 0 + i = i
      OBVIOUS
    <3> QED BY <3>1 DEF GoesAs
  <2> QED BY <2>1, SumsEqual, SumOfNaturals
<1> DEFINE S == {i \in 0..n : /\ SumOver(i, g) \in Nat
                              /\ SumOver(m + i, h) = SumOver(m, f) + SumOver(i, g)}
<1>2. 0 \in S
  BY <1>1, SumOverStep
<1>3. ASSUME NEW i \in 1..n, i - 1 \in S PROVE i \in S
  <2>1. i - 1 \in Nat /\ (i - 1) + 1 = i /\ m + (i - 1) \in Nat /\ (m + (i - 1)) + 1 = m + i
    OBVIOUS
  <2>2. SumOver(i, g) = SumOver(i - 1, g) + g[i]
    BY <2>1, SumOverStep
  <2>3. SumOver(m + i, h) = SumOver(m + (i - 1), h) + h[m + i]
    BY <2>1, SumOverStep
  <2>4. SumOver(i - 1, g) \in Nat /\ SumOver(m + (i - 1), h) = SumOver(m, f) + SumOver(i - 1, g)
    BY <1>3
  <2>5. h[m + i] = g[i] /\ g[i] \in Nat
    BY DEF GoesAs
  <2>6. i \in 0..n
    OBVIOUS
  <2> QED BY <1>1, <2>2, <2>3, <2>4, <2>5, <2>6
<1> HIDE DEF S
<1>4. n \in S
  BY <1>2, <1>3, InductionTo
<1> QED BY <1>4 DEF S

LEMMA SumOfNothing ==
    ASSUME NEW f, NEW n \in Nat, \A i \in 1..n : f[i] = 0
    PROVE  SumOver(n, f) = 0
<1> DEFINE S == {i \in 0..n : SumOver(i, f) = 0}
<1>1. 0 \in S
  BY SumOverStep
<1>2. ASSUME NEW i \in 1..n, i - 1 \in S PROVE i \in S
  <2>1. i - 1 \in Nat /\ (i - 1) + 1 = i
    OBVIOUS
  <2>2. SumOver(i, f) = SumOver(i - 1, f) + f[i]
    BY <2>1, SumOverStep
  <2> QED BY <1>2, <2>2
<1> HIDE DEF S
<1>3. n \in S
  BY <1>1, <1>2, InductionTo
<1> QED BY <1>3 DEF S

LEMMA SumOfOne ==
    ASSUME NEW f, NEW n \in Nat, NEW j \in 1..n, f[j] \in Nat, \A i \in 1..n : i # j => f[i] = 0
    PROVE  SumOver(n, f) = f[j]
<1> DEFINE S == {i \in 0..n : SumOver(i, f) = IF i < j THEN 0 ELSE f[j]}
<1>1. 0 \in S
  BY SumOverStep
<1>2. ASSUME NEW i \in 1..n, i - 1 \in S PROVE i \in S
  <2>1. i - 1 \in Nat /\ (i - 1) + 1 = i
    OBVIOUS
  <2>2. SumOver(i, f) = SumOver(i - 1, f) + f[i]
    BY <2>1, SumOverStep
  <2>3. i = j => f[i] = f[j]
    OBVIOUS
  <2> QED BY <1>2, <2>2, <2>3
<1> HIDE DEF S
<1>3. n \in S
  BY <1>1, <1>2, InductionTo
<1> QED BY <1>3 DEF S

AreRewards(R) == \A r \in R : r.amount \in Nat

LEMMA SumOfRewards ==
    ASSUME NEW R, AreRewards(R), NEW rs \in Seq(R)
    PROVE  Sum(rs) \in Nat
<1>1. PICK n, f : n = Len(rs) /\ f = [i \in 1..n |-> rs[i].amount]
  OBVIOUS
<1>2. n \in Nat /\ \A i \in 1..n : rs[i] \in R
  BY <1>1
<1>3. \A i \in 1..n : f[i] \in Nat
  BY <1>1, <1>2 DEF AreRewards
<1> QED BY <1>1, <1>2, <1>3, SumOfNaturals DEF Sum

LEMMA SumOfJoined ==
    ASSUME NEW R, AreRewards(R), NEW rs \in Seq(R), NEW qs \in Seq(R)
    PROVE  Sum(rs \o qs) = Sum(rs) + Sum(qs)
<1>1. PICK both, m, n, f, g, h : /\ both = rs \o qs /\ m = Len(rs) /\ n = Len(qs)
                                 /\ f = [i \in 1..m |-> rs[i].amount] /\ g = [i \in 1..n |-> qs[i].amount]
                                 /\ h = [i \in 1..Len(both) |-> both[i].amount]
  OBVIOUS
<1>2. /\ m \in Nat /\ n \in Nat /\ Len(both) = m + n
      /\ \A i \in 1..m : rs[i] \in R /\ both[i] = rs[i]
      /\ \A i \in 1..n : qs[i] \in R /\ both[m + i] = qs[i]
  BY <1>1
<1>3. GoesAs(h, 0, f, m)
  <2> SUFFICES ASSUME NEW i \in 1..m PROVE h[0 + i] = f[i] /\ f[i] \in Nat
    BY DEF GoesAs
  <2>1. 0 + i = i /\ i \in 1..m + n
    BY <1>2
  <2> QED BY <1>1, <1>2, <2>1 DEF AreRewards
<1>4. GoesAs(h, m, g, n)
  <2> SUFFICES ASSUME NEW i \in 1..n PROVE h[m + i] = g[i] /\ g[i] \in Nat
    BY DEF GoesAs
  <2>1. m + i \in 1..m + n
    BY <1>2
  <2> QED BY <1>1, <1>2, <2>1 DEF AreRewards
<1>5. SumOver(m + n, h) = SumOver(m, f) + SumOver(n, g)
  <2>1. m \in Nat
    BY <1>2
  <2>2. n \in Nat
    BY <1>2
  <2> QED BY <2>1, <2>2, <1>3, <1>4, SumsJoined
<1>6. Sum(rs) = SumOver(m, f)
  BY <1>1 DEF Sum
<1>7. Sum(qs) = SumOver(n, g)
  BY <1>1 DEF Sum
<1>8. Sum(both) = SumOver(Len(both), h)
  BY <1>1 DEF Sum
<1>9. Sum(both) = Sum(rs) + Sum(qs)
  BY <1>2, <1>5, <1>6, <1>7, <1>8
<1> QED BY <1>1, <1>9

LEMMA SumOfAppended ==
    ASSUME NEW R, AreRewards(R), NEW rs \in Seq(R), NEW r \in R
    PROVE  Sum(Append(rs, r)) = Sum(rs) + r.amount
<1>1. PICK m, f, h : /\ m = Len(rs) /\ f = [i \in 1..m |-> rs[i].amount]
                     /\ h = [i \in 1..Len(Append(rs, r)) |-> Append(rs, r)[i].amount]
  OBVIOUS
<1>2. /\ m \in Nat /\ Len(Append(rs, r)) = m + 1 /\ Append(rs, r)[m + 1] = r
      /\ \A i \in 1..m : rs[i] \in R /\ Append(rs, r)[i] = rs[i]
  BY <1>1
<1>3. \A i \in 1..m : f[i] = h[i]
  BY <1>1, <1>2
<1>4. h[m + 1] = r.amount
  BY <1>1, <1>2
<1>5. SumOver(m, h) = SumOver(m, f)
  BY <1>2, <1>3, SumsEqual
<1>6. SumOver(m + 1, h) = SumOver(m, h) + h[m + 1]
  BY <1>2, SumOverStep
<1> QED BY <1>1, <1>2, <1>4, <1>5, <1>6 DEF Sum

-----------------------------------------------------------------------------
(* The rewards of a block.                                                  *)

RewardsIn(evs) == {Reward(e) : e \in ToSet(evs)}

\* at tells from which event each of the rewards rs is: all of other ones, among the first n.
IsIndex(evs, rs, at, n) ==
    /\ at \in [1..Len(rs) -> 1..n]
    /\ \A i, j \in 1..Len(rs) : at[i] = at[j] => i = j
    /\ \A j \in 1..Len(rs) : IsReward(evs[at[j]]) /\ rs[j] = Reward(evs[at[j]])

\* Some of the rewards of the first n events: amounts says which.
AreOf(evs, rs, n, amounts) ==
    /\ rs \in Seq(RewardsIn(evs))
    /\ \E at : IsIndex(evs, rs, at, n)
    /\ Sum(rs) = SumOver(n, amounts)

OfAccount(e, a) == IsReward(e) /\ Reward(e).account = a
AmountsOf(evs, a) == [i \in 1..Len(evs) |-> IF OfAccount(evs[i], a) THEN evs[i].amount ELSE 0]

HasAll(evs, rs, n, a) == \A i \in 1..n : OfAccount(evs[i], a) => \E j \in 1..Len(rs) : rs[j] = Reward(evs[i])

LEMMA RewardFacts ==
    ASSUME NEW evs, EventsOfABlock(evs)
    PROVE  /\ Len(evs) \in Nat
           /\ \A i \in 1..Len(evs) : /\ evs[i] \in ToSet(evs) /\ evs[i].amount \in Nat
                                     /\ Reward(evs[i]) \in RewardsIn(evs)
                                     /\ Reward(evs[i]).amount = evs[i].amount
           /\ AreRewards(RewardsIn(evs))
<1>1. evs \in Seq(ToSet(evs)) /\ \A e \in ToSet(evs) : e.amount \in Nat
  BY DEF EventsOfABlock
<1>2. \A e \in ToSet(evs) : Reward(e).amount = e.amount
  BY DEF Reward
<1>3. Len(evs) \in Nat /\ \A i \in 1..Len(evs) : evs[i] \in ToSet(evs)
  BY <1>1
<1> QED BY <1>1, <1>2, <1>3 DEF RewardsIn, AreRewards

\* One more event, whose reward is added.
LEMMA OneMore ==
    ASSUME NEW evs, EventsOfABlock(evs), NEW n \in 1..Len(evs), NEW x, NEW amounts,
           AreOf(evs, x, n - 1, amounts), IsReward(evs[n]), amounts[n] = evs[n].amount
    PROVE  AreOf(evs, Append(x, Reward(evs[n])), n, amounts)
<1>1. PICK r, R, y : r = Reward(evs[n]) /\ R = RewardsIn(evs) /\ y = Append(x, r)
  OBVIOUS
<1>2. r \in R /\ r.amount = evs[n].amount /\ AreRewards(R) /\ x \in Seq(R) /\ n \in Nat /\ Len(evs) \in Nat
  BY <1>1, RewardFacts DEF AreOf
<1>3. PICK at : IsIndex(evs, x, at, n - 1)
  BY DEF AreOf
<1>4. PICK m : m = Len(x) /\ m \in Nat
  BY <1>2
<1>5. /\ y \in Seq(R) /\ Len(y) = m + 1 /\ y[m + 1] = r /\ \A j \in 1..m : y[j] = x[j]
  BY <1>1, <1>2, <1>4
<1>6. PICK to : to = [j \in 1..m + 1 |-> IF j = m + 1 THEN n ELSE at[j]]
  OBVIOUS
<1>7. \A j \in 1..m : at[j] \in 1..n - 1 /\ to[j] = at[j] /\ to[j] # n
  BY <1>2, <1>3, <1>4, <1>6 DEF IsIndex
<1>8. to[m + 1] = n
  BY <1>4, <1>6
<1>9. IsIndex(evs, y, to, n)
  <2>1. to \in [1..Len(y) -> 1..n]
    <3>1. \A j \in 1..m + 1 : to[j] \in 1..n
      <4> TAKE j \in 1..m + 1
      <4>1. j \in 1..m \/ j = m + 1
        BY <1>4
      <4> QED BY <1>2, <1>7, <1>8, <4>1
    <3> QED BY <1>5, <1>6, <3>1
  <2>2. ASSUME NEW i \in 1..Len(y), NEW j \in 1..Len(y), to[i] = to[j] PROVE i = j
    <3>1. (i \in 1..m \/ i = m + 1) /\ (j \in 1..m \/ j = m + 1)
      BY <1>4, <1>5
    <3> QED BY <1>3, <1>4, <1>7, <1>8, <2>2, <3>1 DEF IsIndex
  <2>3. ASSUME NEW j \in 1..Len(y) PROVE IsReward(evs[to[j]]) /\ y[j] = Reward(evs[to[j]])
    <3>1. j \in 1..m \/ j = m + 1
      BY <1>4, <1>5
    <3> QED BY <1>1, <1>3, <1>4, <1>5, <1>7, <1>8, <3>1 DEF IsIndex
  <2> QED BY <2>1, <2>2, <2>3 DEF IsIndex
<1>10. Sum(y) = SumOver(n, amounts)
  <2>1. Sum(x) = SumOver(n - 1, amounts)
    BY DEF AreOf
  <2>2. Sum(y) = Sum(x) + r.amount
    BY <1>1, <1>2, SumOfAppended
  <2>3. n - 1 \in Nat /\ (n - 1) + 1 = n
    BY <1>2
  <2>4. SumOver(n, amounts) = SumOver(n - 1, amounts) + amounts[n]
    BY <2>3, SumOverStep
  <2> QED BY <1>2, <2>1, <2>2, <2>4
<1> QED BY <1>1, <1>5, <1>9, <1>10 DEF AreOf

\* One more event, whose reward is not.
LEMMA NoneMore ==
    ASSUME NEW evs, EventsOfABlock(evs), NEW n \in 1..Len(evs), NEW x, NEW amounts,
           AreOf(evs, x, n - 1, amounts), amounts[n] = 0
    PROVE  AreOf(evs, x, n, amounts)
<1>1. n \in Nat /\ n - 1 \in Nat /\ (n - 1) + 1 = n /\ x \in Seq(RewardsIn(evs)) /\ AreRewards(RewardsIn(evs))
  BY RewardFacts DEF AreOf
<1>2. PICK at : IsIndex(evs, x, at, n - 1)
  BY DEF AreOf
<1>3. IsIndex(evs, x, at, n)
  <2>1. \A i \in 1..n - 1 : i \in 1..n
    BY <1>1
  <2> QED BY <1>2, <2>1 DEF IsIndex
<1>4. Sum(x) = SumOver(n, amounts)
  <2>1. SumOver(n, amounts) = SumOver(n - 1, amounts) + amounts[n]
    BY <1>1, SumOverStep
  <2>2. Sum(x) \in Nat /\ Sum(x) = SumOver(n - 1, amounts)
    BY <1>1, SumOfRewards DEF AreOf
  <2> QED BY <2>1, <2>2
<1> QED BY <1>1, <1>3, <1>4 DEF AreOf

LEMMA NoneYet ==
    ASSUME NEW evs, NEW n \in Nat, NEW amounts, SumOver(n, amounts) = 0
    PROVE  AreOf(evs, <<>>, n, amounts)
<1>1. PICK x : x = <<>>
  OBVIOUS
<1>2. x \in Seq(RewardsIn(evs)) /\ Len(x) = 0
  BY <1>1
<1>3. PICK at : at = [j \in 1..0 |-> 0]
  OBVIOUS
<1>4. IsIndex(evs, x, at, n)
  BY <1>2, <1>3 DEF IsIndex
<1>5. Sum(x) = 0
  BY <1>2, SumOverStep DEF Sum
<1> QED BY <1>1, <1>2, <1>4, <1>5 DEF AreOf

LEMMA RewardsOfAccount ==
    ASSUME NEW evs, EventsOfABlock(evs), NEW a
    PROVE  /\ AreOf(evs, RewardsOf(evs, a), Len(evs), AmountsOf(evs, a))
           /\ \A j \in 1..Len(RewardsOf(evs, a)) : RewardsOf(evs, a)[j].account = a
           /\ HasAll(evs, RewardsOf(evs, a), Len(evs), a)
<1>1. PICK m \in Nat : m = Len(evs)
  BY RewardFacts
<1>2. PICK h : Solves(h, m, "of", evs, a, 0, <<>>)
  BY RecursionExists
<1>3. h = [n \in 0..m |-> IF n = 0 THEN <<>>
                          ELSE IF IsReward(evs[n]) /\ Reward(evs[n]).account = a
                          THEN Append(h[n - 1], Reward(evs[n])) ELSE h[n - 1]]
  BY <1>2 DEF Solves, Turned, Turn
<1>4. PICK g : g = CHOOSE f : f = [n \in 0..m |-> IF n = 0 THEN <<>>
                                   ELSE IF IsReward(evs[n]) /\ Reward(evs[n]).account = a
                                   THEN Append(f[n - 1], Reward(evs[n])) ELSE f[n - 1]]
  OBVIOUS
<1>5. g = [n \in 0..m |-> IF n = 0 THEN <<>>
                          ELSE IF IsReward(evs[n]) /\ Reward(evs[n]).account = a
                          THEN Append(g[n - 1], Reward(evs[n])) ELSE g[n - 1]]
  BY <1>3, <1>4
<1>6. RewardsOf(evs, a) = g[m]
  BY <1>1, <1>4 DEF RewardsOf
<1>7. PICK amounts : amounts = AmountsOf(evs, a)
  OBVIOUS
<1> DEFINE Good(n) == /\ AreOf(evs, g[n], n, amounts)
                      /\ \A j \in 1..Len(g[n]) : g[n][j].account = a
                      /\ HasAll(evs, g[n], n, a)
           S == {n \in 0..m : Good(n)}
<1>8. 0 \in S
  <2>1. g[0] = <<>> /\ SumOver(0, amounts) = 0
    BY <1>5, SumOverStep
  <2>2. AreOf(evs, g[0], 0, amounts)
    BY <2>1, NoneYet
  <2> QED BY <2>1, <2>2 DEF HasAll
<1>9. ASSUME NEW n \in 1..m, n - 1 \in S PROVE n \in S
  <2>1. n \in 0..m /\ n # 0 /\ n \in 1..Len(evs)
    BY <1>1
  <2>2. PICK x, y : x = g[n - 1] /\ y = g[n]
    OBVIOUS
  <2>3. y = IF OfAccount(evs[n], a) THEN Append(x, Reward(evs[n])) ELSE x
    BY <1>5, <2>1, <2>2 DEF OfAccount
  <2>4. /\ AreOf(evs, x, n - 1, amounts) /\ HasAll(evs, x, n - 1, a)
        /\ \A j \in 1..Len(x) : x[j].account = a
    BY <1>9, <2>2
  <2>5. amounts[n] = IF OfAccount(evs[n], a) THEN evs[n].amount ELSE 0
    BY <1>7, <2>1 DEF AmountsOf
  <2>6. x \in Seq(RewardsIn(evs)) /\ Len(x) \in Nat /\ Reward(evs[n]) \in RewardsIn(evs)
    BY <2>1, <2>4, RewardFacts DEF AreOf
  <2>7. CASE OfAccount(evs[n], a)
    <3>1. y = Append(x, Reward(evs[n]))
      BY <2>3, <2>7
    <3>2. AreOf(evs, y, n, amounts)
      BY <2>1, <2>4, <2>5, <2>7, <3>1, OneMore DEF OfAccount
    <3>3. /\ Len(y) = Len(x) + 1 /\ y[Len(x) + 1] = Reward(evs[n])
          /\ \A j \in 1..Len(x) : y[j] = x[j]
      BY <2>6, <3>1
    <3>4. \A j \in 1..Len(y) : y[j].account = a
      <4> TAKE j \in 1..Len(y)
      <4>1. j \in 1..Len(x) \/ j = Len(x) + 1
        BY <2>6, <3>3
      <4> QED BY <2>4, <2>7, <3>3, <4>1 DEF OfAccount
    <3>5. HasAll(evs, y, n, a)
      <4> SUFFICES ASSUME NEW i \in 1..n, OfAccount(evs[i], a)
                   PROVE  \E j \in 1..Len(y) : y[j] = Reward(evs[i])
        BY DEF HasAll
      <4>1. CASE i = n
        <5>1. Len(x) + 1 \in 1..Len(y)
          BY <2>6, <3>3
        <5> QED BY <3>3, <4>1, <5>1
      <4>2. CASE i # n
        <5>1. i \in 1..n - 1
          BY <2>1, <4>2
        <5>2. PICK j \in 1..Len(x) : x[j] = Reward(evs[i])
          BY <2>4, <5>1 DEF HasAll
        <5>3. j \in 1..Len(y)
          BY <2>6, <3>3
        <5> QED BY <3>3, <5>2, <5>3
      <4> QED BY <4>1, <4>2
    <3> QED BY <2>1, <2>2, <3>2, <3>4, <3>5
  <2>8. CASE ~ OfAccount(evs[n], a)
    <3>1. y = x
      BY <2>3, <2>8
    <3>2. AreOf(evs, y, n, amounts)
      BY <2>1, <2>4, <2>5, <2>8, <3>1, NoneMore
    <3>3. HasAll(evs, y, n, a)
      <4> SUFFICES ASSUME NEW i \in 1..n, OfAccount(evs[i], a)
                   PROVE  \E j \in 1..Len(y) : y[j] = Reward(evs[i])
        BY DEF HasAll
      <4>1. i \in 1..n - 1
        BY <2>1, <2>8
      <4> QED BY <2>4, <3>1, <4>1 DEF HasAll
    <3> QED BY <2>1, <2>2, <2>4, <3>1, <3>2, <3>3
  <2> QED BY <2>7, <2>8
<1> HIDE DEF S
<1>10. m \in S
  BY <1>8, <1>9, InductionTo
<1>11. Good(m)
  BY <1>10 DEF S
<1> QED BY <1>1, <1>6, <1>7, <1>11

\* Whoever is rewarded is among the names.
LEMMA NamesFound ==
    ASSUME NEW evs, EventsOfABlock(evs)
    PROVE  /\ Len(NamesOf(evs)) \in Nat
           /\ \A i \in 1..Len(evs) : IsReward(evs[i]) =>
                 \E k \in 1..Len(NamesOf(evs)) : NamesOf(evs)[k] = Reward(evs[i]).account
<1>1. PICK m \in Nat : m = Len(evs)
  BY RewardFacts
<1>2. PICK h : Solves(h, m, "names", evs, 0, 0, <<>>)
  BY RecursionExists
<1>3. h = [n \in 0..m |-> IF n = 0 THEN <<>> ELSE h[n - 1] \o Named(evs[n])]
  BY <1>2 DEF Solves, Turned, Turn
<1>4. PICK g : g = CHOOSE f : f = [n \in 0..m |-> IF n = 0 THEN <<>> ELSE f[n - 1] \o Named(evs[n])]
  OBVIOUS
<1>5. g = [n \in 0..m |-> IF n = 0 THEN <<>> ELSE g[n - 1] \o Named(evs[n])]
  BY <1>3, <1>4
<1>6. NamesOf(evs) = g[m]
  BY <1>1, <1>4 DEF NamesOf
<1>7. PICK N : N = UNION {{evs[i].account, Reward(evs[i]).account} : i \in 1..m}
  OBVIOUS
<1>8. ASSUME NEW i \in 1..m
      PROVE  /\ Named(evs[i]) \in Seq(N) /\ Len(Named(evs[i])) \in Nat
             /\ IsReward(evs[i]) => \E k \in 1..Len(Named(evs[i])) : Named(evs[i])[k] = Reward(evs[i]).account
  <2>1. PICK p, q, one, two : /\ p = evs[i].account /\ q = Reward(evs[i]).account
                              /\ one = << p >> /\ two = << p, q >>
    OBVIOUS
  <2>2. p \in N /\ q \in N
    BY <1>7, <2>1
  <2>3. one \in Seq(N) /\ Len(one) = 1 /\ one[1] = p /\ two \in Seq(N) /\ Len(two) = 2 /\ two[2] = q
    BY <2>1, <2>2
  <2>4. CASE evs[i].method = "OrbiterRewarded" /\ IsReward(evs[i])
    <3>1. Named(evs[i]) = two
      BY <2>1, <2>4 DEF Named
    <3>2. 2 \in 1..Len(two)
      BY <2>3
    <3> QED BY <2>1, <2>3, <3>1, <3>2
  <2>5. CASE ~ (evs[i].method = "OrbiterRewarded" /\ IsReward(evs[i]))
    <3>1. Named(evs[i]) = one
      BY <2>1, <2>5 DEF Named
    <3>2. 1 \in 1..Len(one)
      BY <2>3
    <3>3. IsReward(evs[i]) => q = p
      BY <2>1, <2>5 DEF Reward
    <3> QED BY <2>1, <2>3, <3>1, <3>2, <3>3
  <2> QED BY <2>4, <2>5
<1> DEFINE Has(n, i) == IsReward(evs[i]) => \E k \in 1..Len(g[n]) : g[n][k] = Reward(evs[i]).account
           S == {n \in 0..m : g[n] \in Seq(N) /\ \A i \in 1..n : Has(n, i)}
<1>9. 0 \in S
  <2>1. PICK x : x = g[0] /\ x = <<>>
    BY <1>5
  <2>2. x \in Seq(N) /\ 0 \in 0..m
    BY <2>1
  <2>3. \A i \in 1..0 : Has(0, i)
    OBVIOUS
  <2> HIDE DEF Has
  <2> QED BY <2>1, <2>2, <2>3
<1>10. ASSUME NEW n \in 1..m, n - 1 \in S PROVE n \in S
  <2>1. PICK x, y, z : x = g[n - 1] /\ y = g[n] /\ z = Named(evs[n])
    OBVIOUS
  <2>2. y = x \o z /\ n \in 0..m
    BY <1>5, <2>1
  <2>3. x \in Seq(N) /\ z \in Seq(N)
    BY <1>8, <1>10, <2>1
  <2>4. /\ y \in Seq(N) /\ Len(x) \in Nat /\ Len(z) \in Nat /\ Len(y) = Len(x) + Len(z)
        /\ \A k \in 1..Len(x) : y[k] = x[k]
        /\ \A k \in 1..Len(z) : y[Len(x) + k] = z[k]
    BY <2>2, <2>3
  <2>5. ASSUME NEW i \in 1..n, IsReward(evs[i])
        PROVE  \E k \in 1..Len(y) : y[k] = Reward(evs[i]).account
    <3>1. CASE i = n
      <4>1. PICK k \in 1..Len(z) : z[k] = Reward(evs[n]).account
        BY <1>8, <2>1, <2>5, <3>1
      <4>2. Len(x) + k \in 1..Len(y)
        BY <2>4
      <4> QED BY <2>4, <3>1, <4>1, <4>2
    <3>2. CASE i # n
      <4>1. i \in 1..n - 1
        BY <3>2
      <4>2. PICK k \in 1..Len(x) : x[k] = Reward(evs[i]).account
        BY <1>10, <2>1, <2>5, <4>1
      <4>3. k \in 1..Len(y)
        BY <2>4
      <4> QED BY <2>4, <4>2, <4>3
    <3> QED BY <3>1, <3>2
  <2>6. \A i \in 1..n : Has(n, i)
    <3> SUFFICES ASSUME NEW i \in 1..n PROVE Has(n, i)
      OBVIOUS
    <3> QED BY <2>1, <2>5
  <2> HIDE DEF Has
  <2> QED BY <2>1, <2>2, <2>4, <2>6
<1> HIDE DEF S
<1>11. m \in S
  BY <1>9, <1>10, InductionTo
<1>12. g[m] \in Seq(N) /\ \A i \in 1..m : Has(m, i)
  BY <1>11 DEF S
<1> QED BY <1>1, <1>6, <1>12

\* Rewards of others are added.
LEMMA Joined ==
    ASSUME NEW evs, EventsOfABlock(evs), NEW n \in Nat, NEW x, NEW y, NEW f, NEW g, NEW h,
           AreOf(evs, x, n, f), AreOf(evs, y, n, g),
           \A i \in 1..Len(x) : \A j \in 1..Len(y) : x[i].account # y[j].account,
           \A i \in 1..n : f[i] \in Nat /\ g[i] \in Nat /\ h[i] = f[i] + g[i]
    PROVE  AreOf(evs, x \o y, n, h)
<1>1. PICK R, w, k, l : R = RewardsIn(evs) /\ w = x \o y /\ k = Len(x) /\ l = Len(y)
  OBVIOUS
<1>2. x \in Seq(R) /\ y \in Seq(R) /\ AreRewards(R)
  BY <1>1, RewardFacts DEF AreOf
<1>3. /\ w \in Seq(R) /\ k \in Nat /\ l \in Nat /\ Len(w) = k + l
      /\ \A i \in 1..k : w[i] = x[i]
      /\ \A i \in 1..l : w[k + i] = y[i]
  BY <1>1, <1>2
<1>4. PICK at : IsIndex(evs, x, at, n)
  BY DEF AreOf
<1>5. PICK to : IsIndex(evs, y, to, n)
  BY DEF AreOf
<1>6. PICK both : both = [i \in 1..k + l |-> IF i <= k THEN at[i] ELSE to[i - k]]
  OBVIOUS
<1>7. \A i \in 1..k : both[i] = at[i] /\ at[i] \in 1..n /\ x[i] = Reward(evs[at[i]]) /\ IsReward(evs[at[i]])
  <2> TAKE i \in 1..k
  <2>1. i \in 1..k + l /\ i <= k
    BY <1>3
  <2> QED BY <1>1, <1>4, <1>6, <2>1 DEF IsIndex
<1>8. \A i \in 1..l : both[k + i] = to[i] /\ to[i] \in 1..n /\ y[i] = Reward(evs[to[i]]) /\ IsReward(evs[to[i]])
  <2> TAKE i \in 1..l
  <2>1. k + i \in 1..k + l /\ ~ (k + i <= k) /\ (k + i) - k = i
    BY <1>3
  <2> QED BY <1>1, <1>5, <1>6, <2>1 DEF IsIndex
<1>9. ASSUME NEW i \in 1..k, NEW j \in 1..l PROVE at[i] # to[j]
  <2>1. x[i].account # y[j].account
    BY <1>1
  <2>2. x[i] = Reward(evs[at[i]]) /\ y[j] = Reward(evs[to[j]])
    BY <1>7, <1>8
  <2> QED BY <2>1, <2>2
<1>10. \A i \in 1..k + l : i \in 1..k \/ \E j \in 1..l : i = k + j
  <2> TAKE i \in 1..k + l
  <2>1. i \notin 1..k => i - k \in 1..l /\ i = k + (i - k)
    BY <1>3
  <2> QED BY <2>1
<1>11. IsIndex(evs, w, both, n)
  <2>1. ASSUME NEW i \in 1..k + l PROVE both[i] \in 1..n /\ IsReward(evs[both[i]]) /\ w[i] = Reward(evs[both[i]])
    <3>1. CASE i \in 1..k
      BY <1>3, <1>7, <3>1
    <3>2. ASSUME NEW j \in 1..l, i = k + j
          PROVE  both[i] \in 1..n /\ IsReward(evs[both[i]]) /\ w[i] = Reward(evs[both[i]])
      BY <1>3, <1>8, <3>2
    <3> QED BY <1>10, <3>1, <3>2
  <2>2. both \in [1..Len(w) -> 1..n]
    BY <1>3, <1>6, <2>1
  <2>3. ASSUME NEW i \in 1..k + l, NEW j \in 1..k + l, both[i] = both[j] PROVE i = j
    <3>1. CASE i \in 1..k /\ j \in 1..k
      BY <1>1, <1>4, <1>7, <2>3, <3>1 DEF IsIndex
    <3>2. ASSUME NEW p \in 1..l, i = k + p, j \in 1..k PROVE FALSE
      BY <1>7, <1>8, <1>9, <2>3, <3>2
    <3>3. ASSUME NEW p \in 1..l, j = k + p, i \in 1..k PROVE FALSE
      BY <1>7, <1>8, <1>9, <2>3, <3>3
    <3>4. ASSUME NEW p \in 1..l, NEW q \in 1..l, i = k + p, j = k + q PROVE i = j
      <4>1. to[p] = to[q]
        BY <1>8, <2>3, <3>4
      <4> QED BY <1>1, <1>5, <3>4, <4>1 DEF IsIndex
    <3> QED BY <1>10, <3>1, <3>2, <3>3, <3>4
  <2> QED BY <1>3, <2>1, <2>2, <2>3 DEF IsIndex
<1>12. Sum(w) = SumOver(n, h)
  <2>1. Sum(w) = Sum(x) + Sum(y)
    BY <1>1, <1>2, SumOfJoined
  <2>2. SumOver(n, h) = SumOver(n, f) + SumOver(n, g)
    BY SumOfBoth
  <2> QED BY <2>1, <2>2 DEF AreOf
<1> QED BY <1>1, <1>3, <1>11, <1>12 DEF AreOf

AmountsAmong(evs, names, k) ==
    [i \in 1..Len(evs) |-> IF \E n \in 1..k : OfAccount(evs[i], names[n]) THEN evs[i].amount ELSE 0]
AllAmounts(evs) == [i \in 1..Len(evs) |-> IF IsReward(evs[i]) THEN evs[i].amount ELSE 0]

\* The rewards are those of all the events that are one, each once.
LEMMA RewardsOfBlock ==
    ASSUME NEW b, NEW evs, evs = EventsAt(b), EventsOfABlock(evs)
    PROVE  /\ AreOf(evs, Rewards(b), Len(evs), AllAmounts(evs))
           /\ \A i \in 1..Len(evs) : IsReward(evs[i]) =>
                 \E j \in 1..Len(Rewards(b)) : Rewards(b)[j] = Reward(evs[i])
<1>1. PICK names, m : names = NamesOf(evs) /\ m = Len(names) /\ m \in Nat
  BY NamesFound
<1>2. PICK h : Solves(h, m, "rewards", names, evs, 0, <<>>)
  BY <1>1, RecursionExists
<1>3. h = [n \in 0..m |-> IF n = 0 THEN <<>>
                          ELSE IF IsFirst(names, n) THEN h[n - 1] \o RewardsOf(evs, names[n]) ELSE h[n - 1]]
  BY <1>2 DEF Solves, Turned, Turn
<1>4. PICK g : g = CHOOSE f : f = [n \in 0..m |-> IF n = 0 THEN <<>>
                                   ELSE IF IsFirst(names, n) THEN f[n - 1] \o RewardsOf(evs, names[n])
                                   ELSE f[n - 1]]
  OBVIOUS
<1>5. g = [n \in 0..m |-> IF n = 0 THEN <<>>
                          ELSE IF IsFirst(names, n) THEN g[n - 1] \o RewardsOf(evs, names[n]) ELSE g[n - 1]]
  BY <1>3, <1>4
<1>6. Rewards(b) = g[m]
  BY <1>1, <1>4 DEF Rewards
<1>7. PICK l \in Nat : l = Len(evs)
  BY RewardFacts
<1> DEFINE Good(n, x) == /\ AreOf(evs, x, l, AmountsAmong(evs, names, n))
                         /\ \A j \in 1..Len(x) : \E p \in 1..n : x[j].account = names[p]
                         /\ \A p \in 1..n : HasAll(evs, x, l, names[p])
           S == {n \in 0..m : Good(n, g[n])}
<1>8. 0 \in S
  <2>1. PICK x : x = g[0] /\ x = <<>>
    BY <1>1, <1>5
  <2>2. PICK amounts : amounts = AmountsAmong(evs, names, 0)
    OBVIOUS
  <2>3. \A i \in 1..l : amounts[i] = 0
    BY <1>7, <2>2 DEF AmountsAmong
  <2>4. SumOver(l, amounts) = 0
    BY <2>3, SumOfNothing
  <2>5. AreOf(evs, x, l, amounts)
    BY <2>1, <2>4, NoneYet
  <2>6. Len(x) = 0
    BY <2>1
  <2>7. Good(0, x)
    BY <2>2, <2>5, <2>6
  <2>8. 0 \in 0..m
    BY <1>1
  <2> QED BY <2>1, <2>7, <2>8
<1>9. ASSUME NEW n \in 1..m, n - 1 \in S PROVE n \in S
  <2>1. PICK x, y, a : x = g[n - 1] /\ y = g[n] /\ a = names[n]
    OBVIOUS
  <2>2. n \in 0..m /\ n # 0 /\ n \in 1..n /\ \A p \in 1..n : p \in 1..n - 1 \/ p = n
    OBVIOUS
  <2>3. \A p \in 1..n - 1 : p \in 1..n
    OBVIOUS
  <2>4. Good(n - 1, x)
    BY <1>9, <2>1
  <2>5. y = IF IsFirst(names, n) THEN x \o RewardsOf(evs, a) ELSE x
    BY <1>5, <2>1, <2>2
  <2>6. PICK f, h2 : f = AmountsAmong(evs, names, n - 1) /\ h2 = AmountsAmong(evs, names, n)
    OBVIOUS
  <2>7. CASE IsFirst(names, n)
    <3>1. PICK z, k : z = RewardsOf(evs, a) /\ k = AmountsOf(evs, a)
      OBVIOUS
    <3>2. y = x \o z
      BY <2>5, <2>7, <3>1
    <3>3. \A p \in 1..n - 1 : names[p] # a
      BY <2>1, <2>7 DEF IsFirst
    <3>4. AreOf(evs, z, l, k) /\ (\A j \in 1..Len(z) : z[j].account = a) /\ HasAll(evs, z, l, a)
      BY <1>7, <3>1, RewardsOfAccount
    <3>5. \A i \in 1..Len(x) : \A j \in 1..Len(z) : x[i].account # z[j].account
      BY <2>4, <3>3, <3>4
    <3>6. \A i \in 1..l : f[i] \in Nat /\ k[i] \in Nat /\ h2[i] = f[i] + k[i]
      <4> SUFFICES ASSUME NEW i \in 1..l PROVE f[i] \in Nat /\ k[i] \in Nat /\ h2[i] = f[i] + k[i]
        OBVIOUS
      <4>1. PICK e, v : e = evs[i] /\ v = e.amount /\ v \in Nat
        BY <1>7, RewardFacts
      <4>2. f[i] = IF \E p \in 1..n - 1 : OfAccount(e, names[p]) THEN v ELSE 0
        BY <1>7, <2>6, <4>1 DEF AmountsAmong
      <4>3. k[i] = IF OfAccount(e, a) THEN v ELSE 0
        BY <1>7, <3>1, <4>1 DEF AmountsOf
      <4>4. h2[i] = IF \E p \in 1..n : OfAccount(e, names[p]) THEN v ELSE 0
        BY <1>7, <2>6, <4>1 DEF AmountsAmong
      <4>5. CASE OfAccount(e, a)
        <5>1. ~ \E p \in 1..n - 1 : OfAccount(e, names[p])
          BY <3>3, <4>5 DEF OfAccount
        <5>2. \E p \in 1..n : OfAccount(e, names[p])
          BY <2>1, <2>2, <4>5
        <5> QED BY <4>1, <4>2, <4>3, <4>4, <4>5, <5>1, <5>2
      <4>6. CASE ~ OfAccount(e, a)
        <5>1. (\E p \in 1..n - 1 : OfAccount(e, names[p])) <=> (\E p \in 1..n : OfAccount(e, names[p]))
          BY <2>1, <2>2, <2>3, <4>6
        <5> QED BY <4>1, <4>2, <4>3, <4>4, <4>6, <5>1
      <4> QED BY <4>5, <4>6
    <3>7. AreOf(evs, y, l, h2)
      <4>1. AreOf(evs, x, l, f)
        BY <2>4, <2>6
      <4>2. AreOf(evs, x \o z, l, h2)
        BY <3>4, <3>5, <3>6, <4>1, Joined
      <4> QED BY <3>2, <4>2
    <3>8. /\ Len(x) \in Nat /\ Len(z) \in Nat /\ Len(y) = Len(x) + Len(z)
          /\ \A j \in 1..Len(x) : y[j] = x[j]
          /\ \A j \in 1..Len(z) : y[Len(x) + j] = z[j]
      <4>1. x \in Seq(RewardsIn(evs)) /\ z \in Seq(RewardsIn(evs))
        BY <2>4, <3>4 DEF AreOf
      <4> QED BY <3>2, <4>1
    <3>9. \A j \in 1..Len(y) : \E p \in 1..n : y[j].account = names[p]
      <4> SUFFICES ASSUME NEW j \in 1..Len(y) PROVE \E p \in 1..n : y[j].account = names[p]
        OBVIOUS
      <4>1. CASE j \in 1..Len(x)
        BY <2>3, <2>4, <3>8, <4>1
      <4>2. CASE j \notin 1..Len(x)
        <5>1. j - Len(x) \in 1..Len(z) /\ Len(x) + (j - Len(x)) = j
          BY <3>8, <4>2
        <5>2. y[j].account = a
          BY <3>4, <3>8, <5>1
        <5> QED BY <2>1, <2>2, <5>2
      <4> QED BY <4>1, <4>2
    <3>10. \A p \in 1..n : HasAll(evs, y, l, names[p])
      <4> SUFFICES ASSUME NEW p \in 1..n, NEW i \in 1..l, OfAccount(evs[i], names[p])
                   PROVE  \E j \in 1..Len(y) : y[j] = Reward(evs[i])
        BY DEF HasAll
      <4>1. CASE p = n
        <5>1. PICK j \in 1..Len(z) : z[j] = Reward(evs[i])
          BY <2>1, <3>4, <4>1 DEF HasAll
        <5>2. Len(x) + j \in 1..Len(y)
          BY <3>8
        <5> QED BY <3>8, <5>1, <5>2
      <4>2. CASE p \in 1..n - 1
        <5>1. PICK j \in 1..Len(x) : x[j] = Reward(evs[i])
          BY <2>4, <4>2 DEF HasAll
        <5>2. j \in 1..Len(y)
          BY <3>8
        <5> QED BY <3>8, <5>1, <5>2
      <4> QED BY <2>2, <4>1, <4>2
    <3> QED BY <2>1, <2>2, <2>6, <3>7, <3>9, <3>10
  <2>8. CASE ~ IsFirst(names, n)
    <3>1. y = x
      BY <2>5, <2>8
    <3>2. PICK q \in 1..n - 1 : names[q] = a
      BY <2>1, <2>8 DEF IsFirst
    <3>3. f = h2
      <4>1. \A i \in 1..Len(evs) : (\E p \in 1..n - 1 : OfAccount(evs[i], names[p]))
                                    <=> (\E p \in 1..n : OfAccount(evs[i], names[p]))
        BY <2>1, <2>2, <2>3, <3>2
      <4> QED BY <2>6, <4>1 DEF AmountsAmong
    <3>4. \A p \in 1..n : HasAll(evs, x, l, names[p])
      BY <2>1, <2>2, <2>4, <3>2
    <3>5. \A j \in 1..Len(x) : \E p \in 1..n : x[j].account = names[p]
      BY <2>3, <2>4
    <3>6. AreOf(evs, x, l, h2)
      BY <2>4, <2>6, <3>3
    <3> QED BY <2>1, <2>2, <2>6, <3>1, <3>4, <3>5, <3>6
  <2> QED BY <2>7, <2>8
<1> HIDE DEF S
<1>10. m \in S
  BY <1>1, <1>8, <1>9, InductionTo
<1>11. Good(m, g[m])
  BY <1>10 DEF S
<1>12. \A i \in 1..l : IsReward(evs[i]) => \E p \in 1..m : OfAccount(evs[i], names[p])
  BY <1>1, <1>7, NamesFound DEF OfAccount
<1>13. AmountsAmong(evs, names, m) = AllAmounts(evs)
  <2>1. \A i \in 1..Len(evs) : (\E p \in 1..m : OfAccount(evs[i], names[p])) <=> IsReward(evs[i])
    BY <1>7, <1>12 DEF OfAccount
  <2> QED BY <2>1 DEF AmountsAmong, AllAmounts
<1>14. \A i \in 1..l : IsReward(evs[i]) => \E j \in 1..Len(g[m]) : g[m][j] = Reward(evs[i])
  BY <1>11, <1>12 DEF HasAll
<1> QED BY <1>6, <1>7, <1>11, <1>13, <1>14

-----------------------------------------------------------------------------
(* What the payments leave as it is: whose delegations there are, and the   *)
(* amounts.                                                                 *)

IsCollector(x) ==
    /\ x = [bond |-> x.bond, total |-> x.total, rewardTotal |-> x.rewardTotal,
            rewardCollator |-> x.rewardCollator, payoutBlockId |-> x.payoutBlockId,
            delegators |-> x.delegators]
    /\ x.rewardTotal \in Nat
    /\ \A d \in DOMAIN x.delegators :
          x.delegators[d] = [final_amount |-> x.delegators[d].final_amount,
                             amount |-> x.delegators[d].amount, reward |-> x.delegators[d].reward]

IsStaked(sv) == \A c \in DOMAIN sv : IsCollector(sv[c])

SameDelegations(x, y) ==
    /\ DOMAIN x.delegators = DOMAIN y.delegators
    /\ \A d \in DOMAIN y.delegators : x.delegators[d].amount = y.delegators[d].amount

SameStake(sv, t) ==
    /\ DOMAIN t = DOMAIN sv
    /\ \A c \in DOMAIN sv : IsCollector(t[c]) /\ SameDelegations(t[c], sv[c])

Payments(sv, st) ==
    /\ st = [staked |-> st.staked, current |-> st.current, lost |-> st.lost]
    /\ SameStake(sv, st.staked)

LEMMA StakeOfItself ==
    ASSUME NEW sv, IsStaked(sv)
    PROVE  SameStake(sv, sv)
BY DEF IsStaked, SameStake, SameDelegations

\* One collator's record is replaced by another with the same delegations.
LEMMA CollatorReplaced ==
    ASSUME NEW sv, NEW t, SameStake(sv, t), NEW a \in DOMAIN t,
           NEW x, IsCollector(x), SameDelegations(x, t[a]),
           NEW u, u = [t EXCEPT ![a] = x]
    PROVE  SameStake(sv, u)
<1>1. DOMAIN u = DOMAIN sv /\ a \in DOMAIN sv
  BY DEF SameStake
<1>2. ASSUME NEW c \in DOMAIN sv PROVE IsCollector(u[c]) /\ SameDelegations(u[c], sv[c])
  <2>1. IsCollector(t[c]) /\ SameDelegations(t[c], sv[c]) /\ c \in DOMAIN t
    BY DEF SameStake
  <2>2. CASE c = a
    <3>1. u[c] = x
      BY <2>1, <2>2
    <3>2. SameDelegations(x, sv[c])
      BY <2>1, <2>2 DEF SameDelegations
    <3> QED BY <3>1, <3>2
  <2>3. CASE c # a
    <3>1. u[c] = t[c]
      BY <2>1, <2>3
    <3> QED BY <2>1, <3>1
  <2> QED BY <2>2, <2>3
<1> QED BY <1>1, <1>2 DEF SameStake

LEMMA CollatorPayment ==
    ASSUME NEW sv, NEW st, Payments(sv, st), NEW total \in Nat, NEW b, NEW r
    PROVE  Payments(sv, PayCollator(total, b, st, r))
<1>1. CASE r.account \notin DOMAIN st.staked
  BY <1>1 DEF PayCollator
<1>2. CASE r.account \in DOMAIN st.staked
  <2>1. PICK t, a : t = st.staked /\ a = r.account
    OBVIOUS
  <2>2. PICK x : x = [t[a] EXCEPT !.rewardTotal = total, !.rewardCollator = r.amount, !.payoutBlockId = b]
    OBVIOUS
  <2>3. PICK u : u = [t EXCEPT ![a] = x]
    OBVIOUS
  <2>4. SameStake(sv, t) /\ a \in DOMAIN t /\ IsCollector(t[a])
    BY <1>2, <2>1 DEF Payments, SameStake
  <2>5. x = [bond |-> t[a].bond, total |-> t[a].total, rewardTotal |-> total,
             rewardCollator |-> r.amount, payoutBlockId |-> b, delegators |-> t[a].delegators]
    BY <2>2, <2>4 DEF IsCollector
  <2>6. IsCollector(x) /\ SameDelegations(x, t[a])
    BY <2>4, <2>5 DEF IsCollector, SameDelegations
  <2>7. SameStake(sv, u)
    BY <2>3, <2>4, <2>6, CollatorReplaced
  <2>8. PayCollator(total, b, st, r) = [staked |-> u, current |-> a, lost |-> st.lost]
    <3>1. st = [staked |-> t, current |-> st.current, lost |-> st.lost]
      BY <2>1 DEF Payments
    <3> QED BY <1>2, <2>1, <2>2, <2>3, <2>4, <3>1 DEF PayCollator
  <2> QED BY <2>7, <2>8 DEF Payments
<1> QED BY <1>1, <1>2

LEMMA DelegatorPayment ==
    ASSUME NEW sv, NEW st, Payments(sv, st), NEW r
    PROVE  Payments(sv, PayDelegator(st, r))
<1>1. PICK c, t, d, w : /\ c = CollatorOf(st, r) /\ t = st.staked /\ d = r.account
                        /\ w = PayDelegator(st, r)
  OBVIOUS
<1>2. st = [staked |-> t, current |-> st.current, lost |-> st.lost] /\ SameStake(sv, t)
  BY <1>1 DEF Payments
<1> SUFFICES Payments(sv, w)
  BY <1>1
<1>3. CASE w = st
  BY <1>3
<1>4. CASE w = [st EXCEPT !.current = c, !.lost = TRUE]
  <2>1. PICK l : l = TRUE
    OBVIOUS
  <2>2. w = [st EXCEPT !.current = c, !.lost = l]
    BY <1>4, <2>1
  <2>3. PICK cur, old : st = [staked |-> t, current |-> cur, lost |-> old]
    BY <1>2
  <2>4. w = [staked |-> t, current |-> c, lost |-> l]
    BY <2>2, <2>3
  <2> QED BY <1>2, <2>4 DEF Payments
<1>5. CASE /\ c \in DOMAIN t /\ d \in DOMAIN t[c].delegators
           /\ w = [st EXCEPT !.current = c, !.staked[c].delegators[d].reward = r.amount]
  <2>1. PICK ds : ds = [t[c].delegators EXCEPT ![d].reward = r.amount]
    OBVIOUS
  <2>2. PICK x : x = [t[c] EXCEPT !.delegators = ds]
    OBVIOUS
  <2>3. PICK u : u = [t EXCEPT ![c] = x]
    OBVIOUS
  <2>4. IsCollector(t[c])
    BY <1>2, <1>5 DEF SameStake
  <2>5. x = [bond |-> t[c].bond, total |-> t[c].total, rewardTotal |-> t[c].rewardTotal,
             rewardCollator |-> t[c].rewardCollator, payoutBlockId |-> t[c].payoutBlockId, delegators |-> ds]
    BY <2>2, <2>4 DEF IsCollector
  <2>6. /\ DOMAIN ds = DOMAIN t[c].delegators
        /\ \A y \in DOMAIN ds : /\ ds[y].amount = t[c].delegators[y].amount
                                 /\ ds[y] = [final_amount |-> ds[y].final_amount, amount |-> ds[y].amount,
                                             reward |-> ds[y].reward]
    <3>1. DOMAIN ds = DOMAIN t[c].delegators
      BY <2>1
    <3>2. ASSUME NEW y \in DOMAIN ds
          PROVE  /\ ds[y].amount = t[c].delegators[y].amount
                 /\ ds[y] = [final_amount |-> ds[y].final_amount, amount |-> ds[y].amount,
                             reward |-> ds[y].reward]
      <4>1. PICK z : z = t[c].delegators[y] /\ z = [final_amount |-> z.final_amount, amount |-> z.amount,
                                                   reward |-> z.reward]
        BY <2>4, <3>1, <3>2 DEF IsCollector
      <4>2. CASE y = d
        <5>1. ds[y] = [z EXCEPT !.reward = r.amount]
          BY <2>1, <3>1, <4>1, <4>2
        <5>2. ds[y] = [final_amount |-> z.final_amount, amount |-> z.amount, reward |-> r.amount]
          BY <4>1, <5>1
        <5> QED BY <4>1, <5>2
      <4>3. CASE y # d
        <5>1. ds[y] = z
          BY <2>1, <3>1, <4>1, <4>3
        <5> QED BY <4>1, <5>1
      <4> QED BY <4>2, <4>3
    <3> QED BY <3>1, <3>2
  <2>7. IsCollector(x) /\ SameDelegations(x, t[c])
    BY <2>4, <2>5, <2>6 DEF IsCollector, SameDelegations
  <2>8. SameStake(sv, u)
    BY <1>2, <1>5, <2>3, <2>7, CollatorReplaced
  <2>9. w = [st EXCEPT !.current = c, !.staked = u]
    BY <1>1, <1>5, <2>1, <2>2, <2>3
  <2>10. w = [staked |-> u, current |-> c, lost |-> st.lost]
    BY <1>2, <2>9
  <2> QED BY <2>8, <2>10 DEF Payments
<1>6. \/ w = st
      \/ w = [st EXCEPT !.current = c, !.lost = TRUE]
      \/ /\ c \in DOMAIN t /\ d \in DOMAIN t[c].delegators
         /\ w = [st EXCEPT !.current = c, !.staked[c].delegators[d].reward = r.amount]
  BY <1>1 DEF PayDelegator
<1> QED BY <1>1, <1>3, <1>4, <1>5, <1>6

\* The payments of a block, one after the other: states g of the collators', k of the delegators'.
PaidInTurn(g, k, m, sv, rs, total, b) ==
    /\ g[0] = [staked |-> sv, current |-> NoCollator, lost |-> FALSE]
    /\ \A n \in 1..m : g[n] = PayCollator(total, b, g[n - 1], rs[n])
    /\ k[0] = g[m]
    /\ \A n \in 1..m : k[n] = PayDelegator(k[n - 1], rs[n])

LEMMA PaymentsInTurn ==
    ASSUME NEW b, NEW m \in Nat, m = Len(Rewards(b))
    PROVE  \E g, k : /\ PaidInTurn(g, k, m, stakedValue, Rewards(b), Sum(Rewards(b)), b)
                     /\ Rewarded(b) = k[m]
<1>1. PICK rs, sv, total, unpaid :
        /\ rs = Rewards(b) /\ sv = stakedValue /\ total = Sum(rs)
        /\ unpaid = [staked |-> sv, current |-> NoCollator, lost |-> FALSE]
  OBVIOUS
<1>2. PICK h : Solves(h, m, "collated", rs, total, b, unpaid)
  BY RecursionExists
<1>3. h = [n \in 0..m |-> IF n = 0 THEN unpaid ELSE PayCollator(total, b, h[n - 1], rs[n])]
  BY <1>2 DEF Solves, Turned, Turn
<1>4. PICK g : g = CHOOSE f : f = [n \in 0..m |-> IF n = 0 THEN unpaid
                                                  ELSE PayCollator(total, b, f[n - 1], rs[n])]
  OBVIOUS
<1>5. g = [n \in 0..m |-> IF n = 0 THEN unpaid ELSE PayCollator(total, b, g[n - 1], rs[n])]
  BY <1>3, <1>4
<1>6. PICK j : Solves(j, m, "delegated", rs, 0, 0, g[m])
  BY RecursionExists
<1>7. j = [n \in 0..m |-> IF n = 0 THEN g[m] ELSE PayDelegator(j[n - 1], rs[n])]
  BY <1>6 DEF Solves, Turned, Turn
<1>8. PICK k : k = CHOOSE f : f = [n \in 0..m |-> IF n = 0 THEN g[m] ELSE PayDelegator(f[n - 1], rs[n])]
  OBVIOUS
<1>9. k = [n \in 0..m |-> IF n = 0 THEN g[m] ELSE PayDelegator(k[n - 1], rs[n])]
  BY <1>7, <1>8
<1>10. Rewarded(b) = k[m]
  BY <1>1, <1>4, <1>8 DEF Rewarded
<1>11. \A n \in 1..m : n \in 0..m /\ n # 0
  OBVIOUS
<1>12. g[0] = unpaid /\ k[0] = g[m]
  BY <1>5, <1>9
<1>13. \A n \in 1..m : g[n] = PayCollator(total, b, g[n - 1], rs[n])
  BY <1>5, <1>11
<1>14. \A n \in 1..m : k[n] = PayDelegator(k[n - 1], rs[n])
  BY <1>9, <1>11
<1>15. PaidInTurn(g, k, m, sv, rs, total, b)
  BY <1>1, <1>12, <1>13, <1>14 DEF PaidInTurn
<1> QED BY <1>1, <1>10, <1>15

\* All the payments of a block.
LEMMA BlockPayments ==
    ASSUME NEW b, NEW m \in Nat, m = Len(Rewards(b)), Sum(Rewards(b)) \in Nat, IsStaked(stakedValue)
    PROVE  SameStake(stakedValue, Rewarded(b).staked)
<1>1. PICK rs, sv, total : rs = Rewards(b) /\ sv = stakedValue /\ total = Sum(rs) /\ total \in Nat
  OBVIOUS
<1>2. PICK g, k : PaidInTurn(g, k, m, sv, rs, total, b) /\ Rewarded(b) = k[m]
  BY <1>1, PaymentsInTurn
<1>3. Payments(sv, g[m])
  <2> DEFINE S == {n \in 0..m : Payments(sv, g[n])}
  <2>1. 0 \in S
    <3>1. Payments(sv, g[0])
      BY <1>1, <1>2, StakeOfItself DEF Payments, PaidInTurn
    <3> QED BY <3>1
  <2>2. ASSUME NEW n \in 1..m, n - 1 \in S PROVE n \in S
    BY <1>1, <1>2, <2>2, CollatorPayment DEF PaidInTurn
  <2> HIDE DEF S
  <2>3. m \in S
    BY <2>1, <2>2, InductionTo
  <2> QED BY <2>3 DEF S
<1>4. Payments(sv, k[m])
  <2> DEFINE S == {n \in 0..m : Payments(sv, k[n])}
  <2>1. 0 \in S
    BY <1>2, <1>3 DEF PaidInTurn
  <2>2. ASSUME NEW n \in 1..m, n - 1 \in S PROVE n \in S
    BY <1>2, <2>2, DelegatorPayment DEF PaidInTurn
  <2> HIDE DEF S
  <2>3. m \in S
    BY <2>1, <2>2, InductionTo
  <2> QED BY <2>3 DEF S
<1> QED BY <1>1, <1>2, <1>4 DEF Payments

-----------------------------------------------------------------------------
(* What the payments of a block come to.                                    *)

\* A reward's collator gets the total.
LEMMA CollatorPaid ==
    ASSUME NEW sv, NEW st, Payments(sv, st), NEW total \in Nat, NEW b, NEW r, r.account \in DOMAIN sv,
           NEW w, w = PayCollator(total, b, st, r)
    PROVE  /\ w.lost = st.lost /\ w.current = r.account
           /\ \A c \in DOMAIN sv :
                 /\ w.staked[c].delegators = st.staked[c].delegators
                 /\ c = r.account => w.staked[c].rewardTotal = total /\ w.staked[c].rewardCollator = r.amount
                 /\ c # r.account => w.staked[c] = st.staked[c]
<1>1. PICK t, a, n, cur, old : /\ t = st.staked /\ a = r.account /\ n = r.amount
                               /\ cur = st.current /\ old = st.lost
  OBVIOUS
<1>2. st = [staked |-> t, current |-> cur, lost |-> old] /\ SameStake(sv, t) /\ a \in DOMAIN t
  BY <1>1 DEF Payments, SameStake
<1>3. PICK x : x = [t[a] EXCEPT !.rewardTotal = total, !.rewardCollator = n, !.payoutBlockId = b]
  OBVIOUS
<1>4. PICK u : u = [t EXCEPT ![a] = x]
  OBVIOUS
<1>5. IsCollector(t[a])
  BY <1>1, <1>2 DEF SameStake
<1>6. x = [bond |-> t[a].bond, total |-> t[a].total, rewardTotal |-> total, rewardCollator |-> n,
           payoutBlockId |-> b, delegators |-> t[a].delegators]
  BY <1>3, <1>5 DEF IsCollector
<1>11. w = [st EXCEPT !.current = a, !.staked[a].rewardTotal = total, !.staked[a].rewardCollator = n,
                     !.staked[a].payoutBlockId = b]
  BY <1>1, <1>2 DEF PayCollator
<1>12. u = [t EXCEPT ![a].rewardTotal = total, ![a].rewardCollator = n, ![a].payoutBlockId = b]
  BY <1>2, <1>3, <1>4
<1>8. w = [staked |-> u, current |-> a, lost |-> old]
  BY <1>2, <1>11, <1>12, ZenonT(30)
<1>9. DOMAIN t = DOMAIN sv
  BY <1>2 DEF SameStake
<1>10. \A c \in DOMAIN sv : u[c] = IF c = a THEN x ELSE t[c]
  BY <1>4, <1>9
<1> QED BY <1>1, <1>6, <1>8, <1>10

PaidUnder(st, c, d, n) == [st EXCEPT !.current = c, !.staked[c].delegators[d].reward = n]

\* Only what d has under c is another.
OthersStay(sv, w, st, c, d, n) ==
    \A a \in DOMAIN sv : \A z \in DOMAIN sv[a].delegators :
        w.staked[a].delegators[z].reward = IF a = c /\ z = d THEN n ELSE st.staked[a].delegators[z].reward

CollatorsStay(sv, w, st) ==
    \A c \in DOMAIN sv : /\ w.staked[c].rewardTotal = st.staked[c].rewardTotal
                         /\ w.staked[c].rewardCollator = st.staked[c].rewardCollator

\* A delegator's reward is put under the collator it was found under.
LEMMA DelegatorPaid ==
    ASSUME NEW sv, NEW st, Payments(sv, st), NEW c \in DOMAIN sv, NEW d \in DOMAIN sv[c].delegators,
           NEW n, NEW w, w = PaidUnder(st, c, d, n)
    PROVE  w.lost = st.lost /\ w.current = c /\ CollatorsStay(sv, w, st) /\ OthersStay(sv, w, st, c, d, n)
<1>1. PICK t, cur, old : t = st.staked /\ cur = st.current /\ old = st.lost
  OBVIOUS
<1>2. st = [staked |-> t, current |-> cur, lost |-> old] /\ SameStake(sv, t)
  BY <1>1 DEF Payments
<1>3. /\ DOMAIN t = DOMAIN sv
      /\ \A a \in DOMAIN sv : IsCollector(t[a]) /\ DOMAIN t[a].delegators = DOMAIN sv[a].delegators
  BY <1>2 DEF SameStake, SameDelegations
<1>4. PICK ds : ds = [t[c].delegators EXCEPT ![d].reward = n]
  OBVIOUS
<1>5. PICK x : x = [t[c] EXCEPT !.delegators = ds]
  OBVIOUS
<1>6. PICK u : u = [t EXCEPT ![c] = x]
  OBVIOUS
<1>7. x = [bond |-> t[c].bond, total |-> t[c].total, rewardTotal |-> t[c].rewardTotal,
           rewardCollator |-> t[c].rewardCollator, payoutBlockId |-> t[c].payoutBlockId, delegators |-> ds]
  BY <1>3, <1>5 DEF IsCollector
<1>8. w = [st EXCEPT !.current = c, !.staked = u]
  BY <1>1, <1>2, <1>3, <1>4, <1>5, <1>6 DEF PaidUnder
<1>9. w = [staked |-> u, current |-> c, lost |-> old]
  BY <1>2, <1>8
<1>10. \A a \in DOMAIN sv : u[a] = IF a = c THEN x ELSE t[a]
  BY <1>3, <1>6
<1>11. DOMAIN ds = DOMAIN t[c].delegators
  BY <1>4
<1>12. ASSUME NEW z \in DOMAIN sv[c].delegators
       PROVE  ds[z].reward = IF z = d THEN n ELSE t[c].delegators[z].reward
  <2>1. z \in DOMAIN t[c].delegators
    BY <1>3
  <2>2. PICK y : y = t[c].delegators[z] /\ y = [final_amount |-> y.final_amount, amount |-> y.amount,
                                               reward |-> y.reward]
    BY <1>3, <2>1 DEF IsCollector
  <2>3. CASE z = d
    <3>1. ds[z] = [y EXCEPT !.reward = n]
      BY <1>4, <2>1, <2>2, <2>3
    <3>2. ds[z] = [final_amount |-> y.final_amount, amount |-> y.amount, reward |-> n]
      BY <2>2, <3>1
    <3> QED BY <2>3, <3>2
  <2>4. CASE z # d
    <3>1. ds[z] = y
      BY <1>4, <2>1, <2>2, <2>4
    <3> QED BY <2>2, <2>4, <3>1
  <2> QED BY <2>3, <2>4
<1>13. ASSUME NEW a \in DOMAIN sv
       PROVE  /\ u[a].rewardTotal = t[a].rewardTotal /\ u[a].rewardCollator = t[a].rewardCollator
              /\ \A z \in DOMAIN sv[a].delegators :
                    u[a].delegators[z].reward = IF a = c /\ z = d THEN n ELSE t[a].delegators[z].reward
  <2>1. CASE a = c
    <3>1. u[a] = x
      BY <1>10, <2>1
    <3> QED BY <1>7, <1>11, <1>12, <2>1, <3>1
  <2>2. CASE a # c
    BY <1>10, <2>2
  <2> QED BY <2>1, <2>2
<1>14. w.staked = u /\ w.current = c /\ w.lost = old
  BY <1>9
<1>15. CollatorsStay(sv, w, st)
  BY <1>1, <1>13, <1>14 DEF CollatorsStay
<1>16. OthersStay(sv, w, st, c, d, n)
  BY <1>1, <1>13, <1>14 DEF OthersStay
<1> QED BY <1>1, <1>14, <1>15, <1>16

\* What is known of the rewards of a block: owner tells which collator each is paid for.
\* There is a reward of that collator itself among them, and no two are of the same one.
Owned(rs, owner, sv) ==
    /\ \A j \in 1..Len(rs) :
          /\ rs[j].amount \in Nat /\ owner[j] \in DOMAIN sv
          /\ rs[j].account \in DOMAIN sv => rs[j].account = owner[j]
          /\ rs[j].account \notin DOMAIN sv => rs[j].account \in DOMAIN sv[owner[j]].delegators
          /\ rs[j].account \notin DOMAIN sv /\ specVersion \in {1001, 1002} => rs[j].collator = owner[j]
          /\ \E i \in 1..Len(rs) : owner[i] = owner[j] /\ rs[i].account = owner[j] /\ rs[i].amount > 0
    /\ \A i, j \in 1..Len(rs) :
          /\ owner[i] = owner[j] /\ rs[i].account = rs[j].account
          /\ rs[i].account \in DOMAIN sv \/ (rs[i].amount > 0 /\ rs[j].amount > 0)
          => i = j
    /\ specVersion > 1002 => \A i, j \in 1..Len(rs) : owner[i] = owner[j]

\* And of what is staked: entries are those of the storage.
Entered(sv, entries) ==
    /\ NoCollator \notin DOMAIN sv
    /\ \A c \in DOMAIN sv : \A d \in DOMAIN sv[c].delegators : d \in delegators
    /\ \A d \in delegators : d \notin DOMAIN sv
    /\ entries \in Seq(ToSet(entries)) /\ DOMAIN sv = {s.id : s \in ToSet(entries)}

\* The runtime leaves no doubt which collator d is paid for.
Clear(sv, d) ==
    specVersion <= 900 =>
        \A a, c \in DOMAIN sv : d \in DOMAIN sv[a].delegators /\ d \in DOMAIN sv[c].delegators => a = c

\* After the collators of the first n rewards.
CollatorsPaid(sv, st, rs, total, n) ==
    /\ Payments(sv, st) /\ ~ st.lost
    /\ \A c \in DOMAIN sv :
          /\ st.staked[c].delegators = sv[c].delegators
          /\ \A j \in 1..n : rs[j].account = c =>
                st.staked[c].rewardCollator = rs[j].amount /\ st.staked[c].rewardTotal = total
          /\ (\A j \in 1..n : rs[j].account # c) => st.staked[c].rewardTotal = sv[c].rewardTotal
    /\ \/ \A j \in 1..n : rs[j].account \notin DOMAIN sv
       \/ \E j \in 1..n : st.current = rs[j].account /\ rs[j].account \in DOMAIN sv

LEMMA CollatorsPaidNext ==
    ASSUME NEW sv, NEW rs, NEW owner, Owned(rs, owner, sv), NEW total \in Nat, NEW b, Len(rs) \in Nat,
           NEW n \in 1..Len(rs), NEW st, CollatorsPaid(sv, st, rs, total, n - 1)
    PROVE  CollatorsPaid(sv, PayCollator(total, b, st, rs[n]), rs, total, n)
<1>1. PICK r, w : r = rs[n] /\ w = PayCollator(total, b, st, r)
  OBVIOUS
<1>2. Payments(sv, st) /\ ~ st.lost /\ Payments(sv, w)
  BY <1>1, CollatorPayment DEF CollatorsPaid
<1>3. \A j \in 1..n : j \in 1..n - 1 \/ j = n
  OBVIOUS
<1>4. \A j \in 1..n - 1 : j \in 1..n /\ j \in 1..Len(rs)
  OBVIOUS
<1>5. n \in 1..n
  OBVIOUS
<1>6. CASE r.account \notin DOMAIN sv
  <2>1. w = st
    BY <1>1, <1>2, <1>6 DEF PayCollator, Payments, SameStake
  <2>2. \A c \in DOMAIN sv : r.account # c
    BY <1>6
  <2> QED BY <1>1, <1>3, <1>4, <1>6, <2>1, <2>2 DEF CollatorsPaid
<1>7. CASE r.account \in DOMAIN sv
  <2>1. /\ w.lost = st.lost /\ w.current = r.account
        /\ \A c \in DOMAIN sv :
              /\ w.staked[c].delegators = st.staked[c].delegators
              /\ c = r.account => w.staked[c].rewardTotal = total /\ w.staked[c].rewardCollator = r.amount
              /\ c # r.account => w.staked[c] = st.staked[c]
    BY <1>1, <1>2, <1>7, CollatorPaid
  <2>2. ASSUME NEW c \in DOMAIN sv
        PROVE  /\ w.staked[c].delegators = sv[c].delegators
               /\ \A j \in 1..n : rs[j].account = c =>
                     w.staked[c].rewardCollator = rs[j].amount /\ w.staked[c].rewardTotal = total
               /\ (\A j \in 1..n : rs[j].account # c) => w.staked[c].rewardTotal = sv[c].rewardTotal
    <3>1. w.staked[c].delegators = sv[c].delegators
      BY <2>1 DEF CollatorsPaid
    <3>2. CASE c = r.account
      <4>1. \A j \in 1..n : rs[j].account = c => j = n
        BY <1>1, <1>4, <1>3, <3>2 DEF Owned
      <4>2. rs[n].account = c
        BY <1>1, <3>2
      <4>3. w.staked[c].rewardTotal = total /\ w.staked[c].rewardCollator = rs[n].amount
        BY <1>1, <2>1, <3>2
      <4> QED BY <1>5, <3>1, <4>1, <4>2, <4>3
    <3>3. CASE c # r.account
      <4>1. w.staked[c] = st.staked[c]
        BY <2>1, <3>3
      <4>2. /\ \A j \in 1..n - 1 : rs[j].account = c =>
                  st.staked[c].rewardCollator = rs[j].amount /\ st.staked[c].rewardTotal = total
            /\ (\A j \in 1..n - 1 : rs[j].account # c) => st.staked[c].rewardTotal = sv[c].rewardTotal
        BY DEF CollatorsPaid
      <4> QED BY <1>1, <1>3, <1>4, <3>1, <3>3, <4>1, <4>2
    <3> QED BY <3>2, <3>3
  <2>3. ~ w.lost
    BY <1>2, <2>1
  <2>4. \E j \in 1..n : w.current = rs[j].account /\ rs[j].account \in DOMAIN sv
    BY <1>1, <1>5, <1>7, <2>1
  <2>5. CollatorsPaid(sv, w, rs, total, n)
    BY <1>2, <2>2, <2>3, <2>4 DEF CollatorsPaid
  <2> QED BY <1>1, <2>5
<1> QED BY <1>6, <1>7

IsFor(rs, owner, j, c, d) == owner[j] = c /\ rs[j].account = d /\ rs[j].amount > 0

\* What the delegators have after the first n rewards, and what came of the collators before.
DelegatorsCome(sv, st, rs, owner, n) ==
    \A c \in DOMAIN sv : \A d \in DOMAIN sv[c].delegators : Clear(sv, d) =>
        /\ \A j \in 1..n : IsFor(rs, owner, j, c, d) => st.staked[c].delegators[d].reward = rs[j].amount
        /\ (\A j \in 1..n : ~ IsFor(rs, owner, j, c, d)) =>
              st.staked[c].delegators[d].reward = sv[c].delegators[d].reward

Due(rs, d, j) == rs[j].account = d /\ rs[j].amount > 0

\* To each reward of d after the n-th there is a collator of its own that has d unpaid.
Matches(st, rs, n, d, phi) ==
    /\ \A j \in n + 1..Len(rs) : Due(rs, d, j) => IsUnpaid(st, phi[j], d)
    /\ \A i, j \in n + 1..Len(rs) : Due(rs, d, i) /\ Due(rs, d, j) /\ phi[i] = phi[j] => i = j

Matched(st, rs, n, d) == \E phi : Matches(st, rs, n, d, phi)

DelegatorsPaid(sv, st, base, rs, owner, n) ==
    /\ Payments(sv, st) /\ ~ st.lost
    /\ CollatorsStay(sv, st, base)
    /\ DelegatorsCome(sv, st, rs, owner, n)
    /\ specVersion > 1002 => \A j \in 1..Len(rs) : st.current = owner[j]
    /\ specVersion <= 900 => \A d \in delegators : Matched(st, rs, n, d)

\* Among the entries there is a first one that has d unpaid, if there is one.
LEMMA FirstUnpaidFound ==
    ASSUME NEW sv, Entered(sv, chain.stake[OriginalRound]), NEW st, Payments(sv, st), NEW d,
           NEW c, IsUnpaid(st, c, d)
    PROVE  IsUnpaid(st, FirstUnpaid(st, d), d)
<1>1. PICK entries : entries = chain.stake[OriginalRound]
  OBVIOUS
<1>2. c \in DOMAIN sv
  BY DEF IsUnpaid, Payments, SameStake
<1>3. entries \in Seq(ToSet(entries)) /\ \E s \in ToSet(entries) : s.id = c
  BY <1>1, <1>2 DEF Entered
<1>4. PICK m \in Nat : m = Len(entries) /\ DOMAIN entries = 1..m
  BY <1>3
<1>5. PICK i \in 1..m : entries[i].id = c
  BY <1>3, <1>4 DEF ToSet
<1> DEFINE T == {j \in Nat : j \in 1..m /\ IsUnpaid(st, entries[j].id, d)}
<1>6. T \subseteq Nat /\ i \in T
  BY <1>4, <1>5
<1>7. PICK j \in T : \A l \in T : <<l, j>> \notin OpToRel(<, Nat)
  <2> HIDE DEF T
  <2> QED BY <1>6, NatLessThanWellFounded, WFMin
<1>8. \A l \in 1..j - 1 : ~ IsUnpaid(st, entries[l].id, d)
  <2> SUFFICES ASSUME NEW l \in 1..j - 1, IsUnpaid(st, entries[l].id, d) PROVE FALSE
    OBVIOUS
  <2>3. j \in Nat /\ j \in 1..m
    BY <1>7
  <2>4. l \in Nat /\ l \in 1..m /\ l < j
    BY <1>4, <2>3
  <2>1. l \in T /\ l < j
    BY <2>4
  <2>2. <<l, j>> \in OpToRel(<, Nat)
    BY <2>1, <1>6 DEF OpToRel
  <2> QED BY <1>7, <2>1, <2>2
<1>9. j \in DOMAIN entries /\ IsUnpaid(st, entries[j].id, d)
  BY <1>4, <1>7
<1>10. PICK f : f = CHOOSE k \in DOMAIN entries : /\ IsUnpaid(st, entries[k].id, d)
                                                  /\ \A l \in 1..k - 1 : ~ IsUnpaid(st, entries[l].id, d)
  OBVIOUS
<1>11. IsUnpaid(st, entries[f].id, d)
  BY <1>8, <1>9, <1>10
<1>12. FirstUnpaid(st, d) = entries[f].id
  BY <1>1, <1>10 DEF FirstUnpaid
<1> QED BY <1>11, <1>12

\* A runtime the code can tell the collator of a delegator in.
CanTell == specVersion \in Nat \ 901..1000

LEMMA Runtimes ==
    ASSUME CanTell
    PROVE  /\ specVersion <= 900 \/ specVersion \in {1001, 1002} \/ specVersion > 1002
           /\ specVersion > 1002 => ~ (specVersion <= 900) /\ specVersion \notin {1001, 1002}
           /\ specVersion <= 900 => specVersion \notin {1001, 1002}
BY DEF CanTell

\* No two rewards of a delegator are for one collator.
LEMMA ForOneOnce ==
    ASSUME NEW sv, NEW rs, NEW owner, Owned(rs, owner, sv), NEW c, NEW d, NEW i \in 1..Len(rs), NEW j \in 1..Len(rs),
           IsFor(rs, owner, i, c, d), IsFor(rs, owner, j, c, d)
    PROVE  i = j
<1>1. owner[i] = owner[j] /\ rs[i].account = rs[j].account /\ rs[i].amount > 0 /\ rs[j].amount > 0
  BY DEF IsFor
<1> QED BY <1>1 DEF Owned

LEMMA CollatorsStayBoth ==
    ASSUME NEW sv, NEW w, NEW st, NEW base, CollatorsStay(sv, w, st), CollatorsStay(sv, st, base)
    PROVE  CollatorsStay(sv, w, base)
BY DEF CollatorsStay

LEMMA SameDomains ==
    ASSUME NEW sv, NEW st, Payments(sv, st)
    PROVE  /\ DOMAIN st.staked = DOMAIN sv
           /\ \A c \in DOMAIN sv : DOMAIN st.staked[c].delegators = DOMAIN sv[c].delegators
BY DEF Payments, SameStake, SameDelegations

\* The collator that the next reward is put under: the one it is paid for, where the runtime
\* leaves no doubt of it, and always one that has the delegator.
LEMMA CollatorFound ==
    ASSUME NEW sv, Entered(sv, chain.stake[OriginalRound]), NEW rs, NEW owner, Owned(rs, owner, sv), NEW base,
           NEW n \in 1..Len(rs), Len(rs) \in Nat, NEW st, DelegatorsPaid(sv, st, base, rs, owner, n - 1),
           CanTell,
           rs[n].account \in delegators, rs[n].amount > 0
    PROVE  LET c == CollatorOf(st, rs[n]) IN
           /\ c \in DOMAIN sv /\ rs[n].account \in DOMAIN sv[c].delegators
           /\ Clear(sv, rs[n].account) => c = owner[n]
           /\ specVersion <= 900 => IsUnpaid(st, c, rs[n].account)
<1>1. PICK r, d, c : r = rs[n] /\ d = r.account /\ c = CollatorOf(st, r)
  OBVIOUS
<1>2. d \in delegators /\ r.amount > 0 /\ d \notin DOMAIN sv
  BY <1>1 DEF Entered
<1>3. /\ owner[n] \in DOMAIN sv /\ d \in DOMAIN sv[owner[n]].delegators
      /\ specVersion \in {1001, 1002} => r.collator = owner[n]
  BY <1>1, <1>2 DEF Owned
<1>4. CASE specVersion \in {1001, 1002}
  <2>1. c = owner[n]
    BY <1>1, <1>3, <1>4 DEF CollatorOf
  <2>2. ~ (specVersion <= 900)
    BY <1>4
  <2> QED BY <1>1, <1>3, <2>1, <2>2
<1>5. CASE specVersion > 1002
  <2>1. ~ (specVersion <= 900) /\ specVersion \notin {1001, 1002}
    BY <1>5, Runtimes
  <2>2. c = st.current
    BY <1>1, <2>1 DEF CollatorOf
  <2>3. st.current = owner[n]
    BY <1>5 DEF DelegatorsPaid
  <2> QED BY <1>1, <1>3, <2>1, <2>2, <2>3
<1>6. CASE specVersion <= 900
  <2>12. Matched(st, rs, n - 1, d)
    BY <1>2, <1>6 DEF DelegatorsPaid
  <2>1. PICK phi : Matches(st, rs, n - 1, d, phi)
    BY <2>12 DEF Matched
  <2>2. n \in (n - 1) + 1..Len(rs) /\ Due(rs, d, n)
    BY <1>1, <1>2 DEF Due
  <2>3. IsUnpaid(st, phi[n], d)
    BY <2>1, <2>2 DEF Matches
  <2>4. Payments(sv, st)
    BY DEF DelegatorsPaid
  <2>5. IsUnpaid(st, FirstUnpaid(st, d), d)
    <3>1. PICK x : IsUnpaid(st, x, d)
      BY <2>3
    <3> QED BY <2>4, <3>1, FirstUnpaidFound
  <2>6. \E a \in DOMAIN st.staked : IsUnpaid(st, a, d)
    BY <2>3 DEF IsUnpaid
  <2>7. specVersion \notin {1001, 1002}
    BY <1>6
  <2>8. c = FirstUnpaid(st, d)
    BY <1>1, <1>6, <2>6, <2>7 DEF CollatorOf
  <2>9. IsUnpaid(st, c, d)
    BY <2>5, <2>8
  <2>10. c \in DOMAIN sv /\ d \in DOMAIN sv[c].delegators
    <3>1. c \in DOMAIN st.staked /\ d \in DOMAIN st.staked[c].delegators
      BY <2>9 DEF IsUnpaid
    <3>2. /\ DOMAIN st.staked = DOMAIN sv
          /\ \A a \in DOMAIN sv : DOMAIN st.staked[a].delegators = DOMAIN sv[a].delegators
      BY <2>4 DEF Payments, SameStake, SameDelegations
    <3> QED BY <3>1, <3>2
  <2>11. Clear(sv, d) => c = owner[n]
    BY <1>3, <1>6, <2>10 DEF Clear
  <2> QED BY <1>1, <2>9, <2>10, <2>11
<1>7. specVersion \in {1001, 1002} \/ specVersion > 1002 \/ specVersion <= 900
  BY Runtimes
<1> QED BY <1>4, <1>5, <1>6, <1>7

\* When it is paid, the collators that the others were to be put under change places.
LEMMA MatchedNext ==
    ASSUME NEW sv, NEW st, Payments(sv, st), NEW w, Payments(sv, w), CollatorsStay(sv, w, st),
           NEW rs, Len(rs) \in Nat, NEW n \in 1..Len(rs), NEW e, Due(rs, e, n), NEW c, NEW amount,
           OthersStay(sv, w, st, c, e, amount), NEW d, Matched(st, rs, n - 1, d)
    PROVE  Matched(w, rs, n, d)
<1>1. PICK phi : Matches(st, rs, n - 1, d, phi)
  BY DEF Matched
<1>2. ASSUME NEW a, IsUnpaid(st, a, d), a # c \/ d # e PROVE IsUnpaid(w, a, d)
  <2>1. a \in DOMAIN sv /\ d \in DOMAIN sv[a].delegators /\ a \in DOMAIN w.staked /\ d \in DOMAIN w.staked[a].delegators
    BY <1>2 DEF IsUnpaid, Payments, SameStake, SameDelegations
  <2>2. w.staked[a].delegators[d].reward = 0
    BY <1>2, <2>1 DEF IsUnpaid, OthersStay
  <2>3. w.staked[a].rewardCollator > 0
    BY <1>2, <2>1 DEF IsUnpaid, CollatorsStay
  <2> QED BY <2>1, <2>2, <2>3 DEF IsUnpaid
<1>3. \A j \in n + 1..Len(rs) : j \in (n - 1) + 1..Len(rs) /\ j # n
  OBVIOUS
<1>4. CASE d # e
  <2>1. Matches(w, rs, n, d, phi)
    BY <1>1, <1>2, <1>3, <1>4 DEF Matches
  <2> QED BY <2>1 DEF Matched
<1>5. CASE d = e
  <2>1. PICK psi : psi = [j \in n + 1..Len(rs) |-> IF phi[j] = c THEN phi[n] ELSE phi[j]]
    OBVIOUS
  <2>2. \A j \in n + 1..Len(rs) : psi[j] = IF phi[j] = c THEN phi[n] ELSE phi[j]
    BY <2>1
  <2>3. n \in (n - 1) + 1..Len(rs) /\ Due(rs, d, n)
    BY <1>5
  <2>4. ASSUME NEW j \in n + 1..Len(rs), Due(rs, d, j) PROVE IsUnpaid(st, psi[j], d) /\ psi[j] # c
    <3>1. IsUnpaid(st, phi[j], d) /\ IsUnpaid(st, phi[n], d) /\ phi[j] # phi[n]
      BY <1>1, <1>3, <2>3, <2>4 DEF Matches
    <3> QED BY <2>2, <3>1
  <2>5. ASSUME NEW i \in n + 1..Len(rs), NEW j \in n + 1..Len(rs), Due(rs, d, i), Due(rs, d, j), psi[i] = psi[j]
        PROVE  i = j
    <3>1. /\ phi[i] = phi[j] => i = j
          /\ phi[i] # phi[n] /\ phi[j] # phi[n]
      BY <1>1, <1>3, <2>3, <2>5 DEF Matches
    <3> QED BY <2>2, <2>5, <3>1
  <2>6. \A j \in n + 1..Len(rs) : Due(rs, d, j) => IsUnpaid(w, psi[j], d)
    BY <1>2, <2>4
  <2>7. Matches(w, rs, n, d, psi)
    BY <2>5, <2>6 DEF Matches
  <2> QED BY <2>7 DEF Matched
<1> QED BY <1>4, <1>5

\* Nothing is paid: one reward less is to come.
LEMMA MatchedStill ==
    ASSUME NEW st, NEW rs, Len(rs) \in Nat, NEW n \in 1..Len(rs), NEW d, Matched(st, rs, n - 1, d)
    PROVE  Matched(st, rs, n, d)
<1>1. PICK phi : Matches(st, rs, n - 1, d, phi)
  BY DEF Matched
<1>2. \A j \in n + 1..Len(rs) : j \in (n - 1) + 1..Len(rs)
  OBVIOUS
<1>3. Matches(st, rs, n, d, phi)
  BY <1>1, <1>2 DEF Matches
<1> QED BY <1>3 DEF Matched

LEMMA DelegatorsPaidNext ==
    ASSUME NEW sv, Entered(sv, chain.stake[OriginalRound]), NEW rs, NEW owner, Owned(rs, owner, sv), NEW base,
           NEW n \in 1..Len(rs), Len(rs) \in Nat, NEW st, DelegatorsPaid(sv, st, base, rs, owner, n - 1),
           CanTell
    PROVE  DelegatorsPaid(sv, PayDelegator(st, rs[n]), base, rs, owner, n)
<1>1. PICK r, d, c, w, amount : /\ r = rs[n] /\ d = r.account /\ c = CollatorOf(st, r) /\ w = PayDelegator(st, r)
                                /\ amount = r.amount
  OBVIOUS
<1>2. Payments(sv, st) /\ ~ st.lost /\ Payments(sv, w)
  BY <1>1, DelegatorPayment DEF DelegatorsPaid
<1>3. /\ \A j \in 1..n : j \in 1..n - 1 \/ j = n
      /\ \A j \in 1..n - 1 : j \in 1..n
      /\ n \in 1..n
  OBVIOUS
<1>4. CASE d \notin delegators \/ amount = 0 \/ (specVersion \in {1001, 1002} /\ r.collator = NoCollator)
  <2>1. w = st
    BY <1>1, <1>4 DEF PayDelegator
  <2>2. ASSUME NEW a \in DOMAIN sv, NEW z \in DOMAIN sv[a].delegators PROVE ~ IsFor(rs, owner, n, a, z)
    <3> SUFFICES ASSUME owner[n] = a, d = z, amount > 0 PROVE FALSE
      BY <1>1 DEF IsFor
    <3>1. d \in delegators /\ d \notin DOMAIN sv
      BY DEF Entered
    <3>2. amount \in Nat /\ owner[n] \in DOMAIN sv /\ (specVersion \in {1001, 1002} => r.collator = owner[n])
      BY <1>1, <3>1 DEF Owned
    <3>3. owner[n] # NoCollator
      BY <3>2 DEF Entered
    <3>4. amount # 0
      BY <3>2
    <3>5. specVersion \in {1001, 1002} /\ r.collator = NoCollator
      BY <1>4, <3>1, <3>4
    <3> QED BY <3>2, <3>3, <3>5
  <2>3. DelegatorsCome(sv, w, rs, owner, n)
    BY <1>3, <2>1, <2>2 DEF DelegatorsPaid, DelegatorsCome
  <2>4. specVersion <= 900 => \A z \in delegators : Matched(w, rs, n, z)
    <3>1. ASSUME specVersion <= 900, NEW z \in delegators PROVE Matched(w, rs, n, z)
      <4>1. Matched(st, rs, n - 1, z)
        BY <3>1 DEF DelegatorsPaid
      <4> QED BY <2>1, <4>1, MatchedStill
    <3> QED BY <3>1
  <2>5. DelegatorsPaid(sv, w, base, rs, owner, n)
    BY <1>2, <2>1, <2>3, <2>4 DEF DelegatorsPaid
  <2> QED BY <1>1, <2>5
<1>5. CASE ~ (d \notin delegators \/ amount = 0 \/ (specVersion \in {1001, 1002} /\ r.collator = NoCollator))
  <2>1. d \in delegators /\ amount > 0
    BY <1>1, <1>5 DEF Owned
  <2>2. /\ c \in DOMAIN sv /\ d \in DOMAIN sv[c].delegators
        /\ Clear(sv, d) => c = owner[n]
        /\ specVersion <= 900 => IsUnpaid(st, c, d)
    BY <1>1, <2>1, CollatorFound
  <2>3. c \in DOMAIN st.staked /\ d \in DOMAIN st.staked[c].delegators
    <3>1. /\ DOMAIN st.staked = DOMAIN sv
          /\ \A x \in DOMAIN sv : DOMAIN st.staked[x].delegators = DOMAIN sv[x].delegators
      BY <1>2, SameDomains
    <3> QED BY <2>2, <3>1
  <2>4. w = PaidUnder(st, c, d, amount)
    BY <1>1, <1>5, <2>3 DEF PayDelegator, PaidUnder
  <2>5. /\ w.lost = st.lost /\ w.current = c
        /\ CollatorsStay(sv, w, st) /\ OthersStay(sv, w, st, c, d, amount)
    BY <1>2, <2>2, <2>4, DelegatorPaid
  <2>6. CollatorsStay(sv, w, base)
    <3>1. CollatorsStay(sv, st, base)
      BY DEF DelegatorsPaid
    <3> QED BY <2>5, <3>1, CollatorsStayBoth
  <2>7. DelegatorsCome(sv, w, rs, owner, n)
    <3> SUFFICES ASSUME NEW a \in DOMAIN sv, NEW z \in DOMAIN sv[a].delegators, Clear(sv, z)
                 PROVE  /\ \A j \in 1..n : IsFor(rs, owner, j, a, z) => w.staked[a].delegators[z].reward = rs[j].amount
                        /\ (\A j \in 1..n : ~ IsFor(rs, owner, j, a, z)) =>
                              w.staked[a].delegators[z].reward = sv[a].delegators[z].reward
      BY DEF DelegatorsCome
    <3>1. /\ \A j \in 1..n - 1 : IsFor(rs, owner, j, a, z) => st.staked[a].delegators[z].reward = rs[j].amount
          /\ (\A j \in 1..n - 1 : ~ IsFor(rs, owner, j, a, z)) =>
                st.staked[a].delegators[z].reward = sv[a].delegators[z].reward
      BY DEF DelegatorsPaid, DelegatorsCome
    <3>2. ASSUME NEW j \in 1..n, IsFor(rs, owner, j, a, z)
          PROVE  w.staked[a].delegators[z].reward = rs[j].amount
      <4>1. CASE a = c /\ z = d
        <5>1. IsFor(rs, owner, n, a, z)
          BY <1>1, <2>1, <2>2, <4>1 DEF IsFor
        <5>2. j \in 1..Len(rs) /\ n \in 1..Len(rs)
          OBVIOUS
        <5>3. j = n
          BY <3>2, <5>1, <5>2, ForOneOnce
        <5>4. w.staked[a].delegators[z].reward = rs[n].amount
          BY <1>1, <2>5, <4>1 DEF OthersStay
        <5> QED BY <5>3, <5>4
      <4>2. CASE ~ (a = c /\ z = d)
        <5>1. j \in 1..n - 1
          <6>1. j # n
            BY <1>1, <2>2, <3>2, <4>2 DEF IsFor
          <6> QED BY <1>3, <6>1
        <5>2. st.staked[a].delegators[z].reward = rs[j].amount
          BY <3>1, <3>2, <5>1
        <5> QED BY <2>5, <4>2, <5>2 DEF OthersStay
      <4> QED BY <4>1, <4>2
    <3>3. ASSUME \A j \in 1..n : ~ IsFor(rs, owner, j, a, z)
          PROVE  w.staked[a].delegators[z].reward = sv[a].delegators[z].reward
      <4>1. ~ (a = c /\ z = d)
        <5>1. ~ IsFor(rs, owner, n, a, z)
          BY <1>3, <3>3
        <5> QED BY <1>1, <2>1, <2>2, <5>1 DEF IsFor
      <4>2. \A j \in 1..n - 1 : ~ IsFor(rs, owner, j, a, z)
        BY <1>3, <3>3
      <4>3. st.staked[a].delegators[z].reward = sv[a].delegators[z].reward
        BY <3>1, <4>2
      <4> QED BY <2>5, <4>1, <4>3 DEF OthersStay
    <3> QED BY <3>2, <3>3
  <2>8. ASSUME specVersion > 1002, NEW j \in 1..Len(rs) PROVE w.current = owner[j]
    <3>1. ~ (specVersion <= 900) /\ specVersion \notin {1001, 1002}
      BY <2>8, Runtimes
    <3>2. c = st.current
      BY <1>1, <3>1 DEF CollatorOf
    <3> QED BY <2>5, <2>8, <3>2 DEF DelegatorsPaid
  <2>9. ASSUME specVersion <= 900, NEW z \in delegators PROVE Matched(w, rs, n, z)
    <3>1. Due(rs, d, n)
      BY <1>1, <2>1 DEF Due
    <3>2. OthersStay(sv, w, st, c, d, amount)
      BY <2>5
    <3>3. Matched(st, rs, n - 1, z)
      BY <2>9 DEF DelegatorsPaid
    <3>4. Payments(sv, st) /\ Payments(sv, w) /\ CollatorsStay(sv, w, st)
      BY <1>2, <2>5
    <3> QED BY <3>1, <3>2, <3>3, <3>4, MatchedNext
  <2>10. DelegatorsPaid(sv, w, base, rs, owner, n)
    BY <1>2, <2>5, <2>6, <2>7, <2>8, <2>9 DEF DelegatorsPaid
  <2> QED BY <1>1, <2>10
<1> QED BY <1>4, <1>5

Fresh(sv) == \A c \in DOMAIN sv : \A d \in DOMAIN sv[c].delegators : sv[c].delegators[d].reward = 0

\* Every delegator's rewards have their collators, once these are paid.
LEMMA MatchedAtFirst ==
    ASSUME NEW sv, NEW rs, NEW owner, Owned(rs, owner, sv), Fresh(sv), Len(rs) \in Nat, NEW total,
           NEW st, CollatorsPaid(sv, st, rs, total, Len(rs)), NEW d, d \notin DOMAIN sv
    PROVE  Matched(st, rs, 0, d)
<1>1. ASSUME NEW j \in 1..Len(rs), Due(rs, d, j) PROVE IsUnpaid(st, owner[j], d)
  <2>1. PICK c : c = owner[j]
    OBVIOUS
  <2>2. c \in DOMAIN sv /\ d \in DOMAIN sv[c].delegators
    BY <1>1, <2>1 DEF Owned, Due
  <2>3. PICK i \in 1..Len(rs) : rs[i].account = c /\ rs[i].amount > 0
    BY <2>1 DEF Owned
  <2>4. st.staked[c].rewardCollator = rs[i].amount /\ st.staked[c].delegators = sv[c].delegators
    BY <2>2, <2>3 DEF CollatorsPaid
  <2>5. c \in DOMAIN st.staked
    BY <2>2 DEF CollatorsPaid, Payments, SameStake
  <2>6. sv[c].delegators[d].reward = 0
    BY <2>2 DEF Fresh
  <2> QED BY <2>1, <2>2, <2>3, <2>4, <2>5, <2>6 DEF IsUnpaid
<1>2. ASSUME NEW i \in 1..Len(rs), NEW j \in 1..Len(rs), Due(rs, d, i), Due(rs, d, j), owner[i] = owner[j]
      PROVE  i = j
  <2>1. rs[i].account = rs[j].account /\ rs[i].amount > 0 /\ rs[j].amount > 0
    BY <1>2 DEF Due
  <2> QED BY <1>2, <2>1 DEF Owned
<1>3. 0 + 1..Len(rs) = 1..Len(rs)
  OBVIOUS
<1>4. Matches(st, rs, 0, d, owner)
  BY <1>1, <1>2, <1>3 DEF Matches
<1> QED BY <1>4 DEF Matched

\* All the payments of a block, in a runtime that the code can tell collators in.
LEMMA BlockPaid ==
    ASSUME NEW b, NEW rs, rs = Rewards(b), Len(rs) \in Nat, Sum(rs) \in Nat, IsStaked(stakedValue),
           NEW owner, Owned(rs, owner, stakedValue), Entered(stakedValue, chain.stake[OriginalRound]),
           CanTell, specVersion <= 900 => Fresh(stakedValue)
    PROVE  \E base : /\ CollatorsPaid(stakedValue, base, rs, Sum(rs), Len(rs))
                     /\ DelegatorsPaid(stakedValue, Rewarded(b), base, rs, owner, Len(rs))
<1>1. PICK sv, total, m : sv = stakedValue /\ total = Sum(rs) /\ total \in Nat /\ m = Len(rs) /\ m \in Nat
  OBVIOUS
<1>2. PICK g, k : PaidInTurn(g, k, m, sv, rs, total, b) /\ Rewarded(b) = k[m]
  BY <1>1, PaymentsInTurn
<1>3. CollatorsPaid(sv, g[m], rs, total, m)
  <2> DEFINE S == {n \in 0..m : CollatorsPaid(sv, g[n], rs, total, n)}
  <2>1. 0 \in S
    <3>4. PICK st : st = g[0] /\ st = [staked |-> sv, current |-> NoCollator, lost |-> FALSE]
      BY <1>2 DEF PaidInTurn
    <3>5. SameStake(sv, sv)
      BY <1>1, StakeOfItself
    <3>1. st = g[0] /\ st.staked = sv /\ ~ st.lost /\ Payments(sv, st)
      BY <3>4, <3>5 DEF Payments
    <3>2. \A j \in 1..0 : FALSE
      OBVIOUS
    <3>3. CollatorsPaid(sv, st, rs, total, 0)
      BY <3>1, <3>2 DEF CollatorsPaid
    <3> QED BY <1>1, <3>1, <3>3
  <2>2. ASSUME NEW n \in 1..m, n - 1 \in S PROVE n \in S
    <3>1. CollatorsPaid(sv, g[n - 1], rs, total, n - 1) /\ n \in 1..Len(rs) /\ n \in 0..m
      BY <1>1, <2>2
    <3>2. Owned(rs, owner, sv)
      BY <1>1
    <3>5. total \in Nat
      BY <1>1
    <3>6. PICK x : x = g[n - 1] /\ CollatorsPaid(sv, x, rs, total, n - 1)
      BY <3>1
    <3>7. n \in 1..Len(rs)
      BY <3>1
    <3>8. CollatorsPaid(sv, PayCollator(total, b, x, rs[n]), rs, total, n)
      BY <3>2, <3>5, <3>6, <3>7, CollatorsPaidNext
    <3>3. CollatorsPaid(sv, PayCollator(total, b, g[n - 1], rs[n]), rs, total, n)
      BY <3>6, <3>8
    <3>4. g[n] = PayCollator(total, b, g[n - 1], rs[n])
      BY <1>2 DEF PaidInTurn
    <3> QED BY <3>1, <3>3, <3>4
  <2> HIDE DEF S
  <2>3. m \in S
    BY <1>1, <2>1, <2>2, InductionTo
  <2> QED BY <2>3 DEF S
<1>4. PICK base : base = g[m]
  OBVIOUS
<1>5. Owned(rs, owner, sv) /\ Entered(sv, chain.stake[OriginalRound])
  BY <1>1
<1>6. DelegatorsPaid(sv, k[m], base, rs, owner, m)
  <2> DEFINE S == {n \in 0..m : DelegatorsPaid(sv, k[n], base, rs, owner, n)}
  <2>1. 0 \in S
    <3>1. k[0] = base /\ CollatorsPaid(sv, base, rs, total, m) /\ \A j \in 1..0 : FALSE
      BY <1>2, <1>3, <1>4 DEF PaidInTurn
    <3>2. Payments(sv, base) /\ ~ base.lost
      BY <3>1 DEF CollatorsPaid
    <3>3. CollatorsStay(sv, base, base)
      BY DEF CollatorsStay
    <3>4. DelegatorsCome(sv, base, rs, owner, 0)
      <4>1. \A c \in DOMAIN sv : base.staked[c].delegators = sv[c].delegators
        BY <3>1 DEF CollatorsPaid
      <4> QED BY <3>1, <4>1 DEF DelegatorsCome
    <3>5. ASSUME specVersion > 1002, NEW j \in 1..Len(rs) PROVE base.current = owner[j]
      <4>4. owner[j] \in DOMAIN sv /\ \E i \in 1..Len(rs) : rs[i].account = owner[j]
        BY <1>5 DEF Owned
      <4>1. PICK i \in 1..m : rs[i].account = owner[j] /\ owner[j] \in DOMAIN sv
        BY <1>1, <4>4
      <4>2. PICK l \in 1..m : base.current = rs[l].account /\ rs[l].account \in DOMAIN sv
        BY <3>1, <4>1 DEF CollatorsPaid
      <4>5. l \in 1..Len(rs)
        BY <1>1
      <4>3. rs[l].account = owner[l] /\ owner[l] = owner[j]
        BY <1>5, <3>5, <4>2, <4>5 DEF Owned
      <4> QED BY <4>2, <4>3
    <3>6. ASSUME specVersion <= 900, NEW d \in delegators PROVE Matched(base, rs, 0, d)
      <4>1. d \notin DOMAIN sv
        BY <1>5 DEF Entered
      <4>2. Fresh(sv) /\ CollatorsPaid(sv, base, rs, total, Len(rs))
        BY <1>1, <3>1, <3>6
      <4> QED BY <1>5, <4>1, <4>2, MatchedAtFirst
    <3>7. DelegatorsPaid(sv, base, base, rs, owner, 0)
      BY <3>2, <3>3, <3>4, <3>5, <3>6 DEF DelegatorsPaid
    <3> QED BY <1>1, <3>1, <3>7
  <2>2. ASSUME NEW n \in 1..m, n - 1 \in S PROVE n \in S
    <3>1. DelegatorsPaid(sv, k[n - 1], base, rs, owner, n - 1) /\ n \in 1..Len(rs) /\ n \in 0..m
      BY <1>1, <2>2
    <3>2. DelegatorsPaid(sv, PayDelegator(k[n - 1], rs[n]), base, rs, owner, n)
      BY <1>5, <3>1, DelegatorsPaidNext
    <3>3. k[n] = PayDelegator(k[n - 1], rs[n])
      BY <1>2 DEF PaidInTurn
    <3> QED BY <3>1, <3>2, <3>3
  <2> HIDE DEF S
  <2>3. m \in S
    BY <1>1, <2>1, <2>2, InductionTo
  <2> QED BY <2>3 DEF S
<1> QED BY <1>1, <1>2, <1>3, <1>4, <1>6

-----------------------------------------------------------------------------
(* Whom the events of a block pay.                                          *)

\* What was read of the original round, delegators included.
Originals == chain.stake[OriginalRound]

ReadAtStart(sv, ds) ==
    /\ OriginalRound \in DOMAIN chain.rounds
    /\ DOMAIN sv = {s.id : s \in ToSet(Originals)}
    /\ \A c \in DOMAIN sv : \E s \in ToSet(Originals) :
          s.id = c /\ DOMAIN sv[c].delegators = TopDelegations(s, chain.rounds[OriginalRound].first - 1)
    /\ \A d \in ds : \E s \in ToSet(Originals) : d \in DOMAIN s.delegations

ReadyFor(b) ==
    /\ TypeOK /\ ReadAtStart(stakedValue, delegators)
    /\ specVersion = chain.rounds[NowRound].version
    /\ ~ OrbiterUnknown(b)

LEMMA ChainFacts ==
    ASSUME TypeOK
    PROVE  /\ chain \in Chains
           /\ RoundsInOrder(chain.rounds) /\ SnapshotsOfDelegations(chain) /\ chain.awarded \in Nat
           /\ PaymentsOfARound(chain)
           /\ \A b \in DOMAIN chain.events : EventsOfABlock(chain.events[b])
BY RoundAssumption DEF TypeOK

LEMMA RoundFacts ==
    ASSUME TypeOK
    PROVE  /\ NowRound \in Nat \ {0} /\ NowRound \in DOMAIN chain.rounds
           /\ DOMAIN chain.rounds = 1..NowRound /\ OriginalRound = NowRound - 2 /\ OriginalRound \in Int
           /\ PayoutBlock = chain.rounds[NowRound].first /\ PayoutBlock \in Nat
           /\ chain.rounds[NowRound].version \in Nat
           /\ PayoutBlock <= head /\ head \in Nat
<1>1. RoundsInOrder(chain.rounds)
  BY ChainFacts
<1>2. /\ NowRound \in Nat \ {0} /\ NowRound \in DOMAIN chain.rounds
      /\ DOMAIN chain.rounds = 1..NowRound /\ OriginalRound = NowRound - 2
      /\ PayoutBlock = chain.rounds[NowRound].first /\ PayoutBlock \in Nat
      /\ chain.rounds[NowRound].version \in Nat
  BY <1>1 DEF RoundsInOrder, NowRound, OriginalRound, RewardDelay, PayoutBlock
<1>3. PayoutBlock <= head /\ head \in Nat
  BY <1>2, RoundAssumption DEF TypeOK, LastBlock
<1> QED BY <1>2, <1>3

LEMMA EventsInABlock ==
    ASSUME TypeOK, NEW b
    PROVE  /\ EventsOfABlock(EventsAt(b))
           /\ b \notin DOMAIN chain.events => Len(EventsAt(b)) = 0
           /\ b \in DOMAIN chain.events => EventsAt(b) = chain.events[b]
<1>1. CASE b \in DOMAIN chain.events
  BY <1>1, ChainFacts DEF EventsAt
<1>2. CASE b \notin DOMAIN chain.events
  <2>1. PICK none : none = <<>>
    OBVIOUS
  <2>2. EventsAt(b) = none
    BY <1>2, <2>1 DEF EventsAt
  <2>3. DOMAIN none = {} /\ none \in Seq(ToSet(none)) /\ Len(none) = 0
    BY <2>1
  <2>4. ToSet(none) = {}
    BY <2>3 DEF ToSet
  <2> QED BY <1>2, <2>2, <2>3, <2>4 DEF EventsOfABlock
<1> QED BY <1>1, <1>2

LEMMA OriginalFacts ==
    ASSUME TypeOK, OriginalRound \in DOMAIN chain.rounds
    PROVE  /\ OriginalRound > 0 /\ OriginalRound = Len(chain.rounds) - 2
           /\ Originals \in Seq(ToSet(Originals))
           /\ \A s \in ToSet(Originals) : s.id # NoCollator
           /\ \A s, t \in ToSet(Originals) : t.id \notin DOMAIN s.delegations
<1>1. PICK k : k = OriginalRound /\ k > 0 /\ k = Len(chain.rounds) - 2
  BY RoundFacts DEF OriginalRound, NowRound, RewardDelay
<1>2. /\ chain.stake[k] \in Seq(ToSet(chain.stake[k]))
      /\ \A s \in ToSet(chain.stake[k]) : s.id # NoCollator
  BY <1>1, ChainFacts DEF SnapshotsOfDelegations
<1>3. \A s, t \in ToSet(chain.stake[k]) : t.id \notin DOMAIN s.delegations
  BY <1>1, ChainFacts DEF PaymentsOfARound
<1> QED BY <1>1, <1>2, <1>3 DEF Originals

LEMMA WhatWasRead ==
    ASSUME TypeOK, ReadAtStart(stakedValue, delegators)
    PROVE  Entered(stakedValue, chain.stake[OriginalRound])
<1>1. PICK E : E = Originals
  OBVIOUS
<1>2. /\ E \in Seq(ToSet(E)) /\ (\A s \in ToSet(E) : s.id # NoCollator)
      /\ \A s, t \in ToSet(E) : t.id \notin DOMAIN s.delegations
  BY <1>1, OriginalFacts DEF ReadAtStart
<1>3. DOMAIN stakedValue = {s.id : s \in ToSet(E)} /\ \A d \in delegators : \E s \in ToSet(E) : d \in DOMAIN s.delegations
  BY <1>1 DEF ReadAtStart
<1>4. NoCollator \notin DOMAIN stakedValue
  BY <1>2, <1>3
<1>5. \A d \in delegators : d \notin DOMAIN stakedValue
  BY <1>2, <1>3
<1>6. \A c \in DOMAIN stakedValue : \A d \in DOMAIN stakedValue[c].delegators : d \in delegators
  BY DEF TypeOK
<1> QED BY <1>1, <1>2, <1>3, <1>4, <1>5, <1>6 DEF Entered, Originals

\* One event: the collator it is paid for was read, and it pays that collator itself or
\* one of its delegators.
LEMMA EventPays ==
    ASSUME NEW b, ReadyFor(b), NEW e \in ToSet(EventsAt(b)), b \in DOMAIN chain.events, e.method \in RewardMethod
    PROVE  /\ IsReward(e)
           /\ e.payout \in DOMAIN stakedValue
           /\ PaysCollator(e) => Reward(e).account = e.payout
           /\ ~ PaysCollator(e) =>
                 /\ e.method # "OrbiterRewarded" /\ Reward(e).account = e.account
                 /\ e.account \in DOMAIN stakedValue[e.payout].delegators /\ e.account \notin DOMAIN stakedValue
                 /\ specVersion \in {1001, 1002} => Reward(e).collator = e.payout
<1>1. /\ TypeOK /\ ReadAtStart(stakedValue, delegators) /\ specVersion = chain.rounds[NowRound].version
      /\ ~ OrbiterUnknown(b)
  BY DEF ReadyFor
<1>2. OriginalRound \in DOMAIN chain.rounds
  BY <1>1 DEF ReadAtStart
<1>3. OriginalRound > 0 /\ OriginalRound = Len(chain.rounds) - 2 /\ NowRound = Len(chain.rounds)
  BY <1>1, <1>2, OriginalFacts DEF NowRound
<1>4. PICK E, first : E = Originals /\ E = chain.stake[OriginalRound] /\ first = chain.rounds[OriginalRound].first
  BY DEF Originals
<1>5. e \in ToSet(chain.events[b])
  BY <1>1, EventsInABlock
<1>6. PaysTheStaked(chain, b, e)
  BY <1>1, <1>5, ChainFacts DEF PaymentsOfARound
<1>7. PICK v : v = specVersion /\ v = chain.rounds[Len(chain.rounds)].version
  BY <1>1, <1>3
<1>8. \E s \in ToSet(E) : s.id = e.payout
  BY <1>3, <1>4, <1>6 DEF PaysTheStaked
<1>9. e.payout \in DOMAIN stakedValue
  BY <1>1, <1>4, <1>8 DEF ReadAtStart
<1>10. PICK s \in ToSet(E) : /\ s.id = e.payout
                             /\ DOMAIN stakedValue[e.payout].delegators = TopDelegations(s, first - 1)
  BY <1>1, <1>4, <1>9 DEF ReadAtStart
<1>11. Delegates(chain, s, e.account) => e.account \in TopDelegations(s, first - 1)
  BY <1>3, <1>4 DEF Delegates, TopDelegations, InTop
<1>12. (\A z \in ToSet(E) : z.id = e.payout => Delegates(chain, z, e.account))
           => e.account \in DOMAIN stakedValue[e.payout].delegators
  BY <1>10, <1>11
<1>13. e.method = "Rewarded" =>
          /\ e.account = e.payout \/ e.account \in DOMAIN stakedValue[e.payout].delegators
          /\ v \in {1001, 1002} => e.account = e.payout
  BY <1>3, <1>4, <1>6, <1>7, <1>12 DEF PaysTheStaked
<1>14. e.method = "DelegatorDueReward" =>
          /\ e.account \in DOMAIN stakedValue[e.payout].delegators
          /\ v \in {1001, 1002} => e.collator = e.payout
  BY <1>3, <1>4, <1>6, <1>7, <1>12 DEF PaysTheStaked
<1>15. e.method = "OrbiterRewarded" =>
          /\ v >= 2000
          /\ e.account \in DOMAIN chain.orbiter => chain.orbiter[e.account] = e.payout
  BY <1>3, <1>6, <1>7 DEF PaysTheStaked
<1>16. e.method = "OrbiterRewarded" => e.account \in DOMAIN chain.orbiter
  BY <1>1, <1>7, <1>15 DEF OrbiterUnknown
<1>17. IsReward(e)
  BY <1>7, <1>15 DEF IsReward, RewardMethod
<1>18. PaysCollator(e) => Reward(e).account = e.payout
  BY <1>15, <1>16 DEF PaysCollator, Reward
<1>19. ASSUME ~ PaysCollator(e)
       PROVE  /\ e.method # "OrbiterRewarded" /\ Reward(e).account = e.account
              /\ e.account \in DOMAIN stakedValue[e.payout].delegators /\ e.account \notin DOMAIN stakedValue
              /\ specVersion \in {1001, 1002} => Reward(e).collator = e.payout
  <2>1. e.method # "OrbiterRewarded" /\ e.account # e.payout
    BY <1>19 DEF PaysCollator
  <2>2. Reward(e).account = e.account /\ Reward(e).collator = e.collator
    BY <2>1 DEF Reward
  <2>3. e.method = "Rewarded" \/ e.method = "DelegatorDueReward"
    BY <2>1 DEF RewardMethod
  <2>4. e.account \in DOMAIN stakedValue[e.payout].delegators
    BY <1>13, <1>14, <2>1, <2>3
  <2>5. v \in {1001, 1002} => e.collator = e.payout
    BY <1>13, <1>14, <2>1, <2>3
  <2>6. e.account \in delegators
    BY <1>1, <1>9, <2>4 DEF TypeOK
  <2>7. e.account \notin DOMAIN stakedValue
    BY <1>1, <2>6, WhatWasRead DEF Entered
  <2> QED BY <1>7, <2>1, <2>2, <2>4, <2>5, <2>7
<1> QED BY <1>9, <1>17, <1>18, <1>19

LEMMA RewardsArePaid ==
    ASSUME NEW b, ReadyFor(b), NEW evs, evs = EventsAt(b), NEW i \in 1..Len(evs)
    PROVE  /\ b \in DOMAIN chain.events /\ evs = chain.events[b]
           /\ i \in DOMAIN evs /\ evs[i] \in ToSet(evs) /\ evs[i].amount \in Nat
           /\ IsReward(evs[i]) <=> evs[i].method \in RewardMethod
           /\ IsReward(evs[i]) <=> evs[i] \in RewardEvents
<1>1. TypeOK
  BY DEF ReadyFor
<1>2. EventsOfABlock(evs) /\ Len(evs) \in Nat
  BY <1>1, EventsInABlock, RewardFacts
<1>3. b \in DOMAIN chain.events /\ evs = chain.events[b]
  <2>1. Len(evs) # 0
    BY <1>2
  <2> QED BY <1>1, <2>1, EventsInABlock
<1>4. i \in DOMAIN evs /\ evs[i] \in ToSet(evs) /\ evs[i].amount \in Nat
  BY <1>2, RewardFacts DEF EventsOfABlock
<1>5. PICK e : e = evs[i]
  OBVIOUS
<1>6. IsReward(e) <=> e.method \in RewardMethod
  <2>1. IsReward(e) => e.method \in RewardMethod
    BY DEF IsReward, RewardMethod
  <2>2. e.method \in RewardMethod => IsReward(e)
    BY <1>3, <1>4, <1>5, EventPays
  <2> QED BY <2>1, <2>2
<1>7. e \in UNION {ToSet(chain.events[x]) : x \in DOMAIN chain.events}
  BY <1>3, <1>4, <1>5
<1>8. e \in RewardEvents <=> e.method \in RewardMethod
  BY <1>7 DEF RewardEvents
<1> QED BY <1>3, <1>4, <1>5, <1>6, <1>8

\* What an event with index i comes to: EventPays, in terms of the block's events.
Pays(evs, i, sv) ==
    /\ evs[i].payout \in DOMAIN sv
    /\ PaysCollator(evs[i]) => Reward(evs[i]).account = evs[i].payout
    /\ ~ PaysCollator(evs[i]) =>
          /\ evs[i].method # "OrbiterRewarded" /\ Reward(evs[i]).account = evs[i].account
          /\ evs[i].account \in DOMAIN sv[evs[i].payout].delegators /\ evs[i].account \notin DOMAIN sv
          /\ specVersion \in {1001, 1002} => Reward(evs[i]).collator = evs[i].payout

\* What holds of the events of a block together.
PaidOnce(evs, i) ==
    /\ \E j \in 1..Len(evs) : /\ IsReward(evs[j]) /\ evs[j].payout = evs[i].payout
                              /\ PaysCollator(evs[j]) /\ evs[j].amount > 0
    /\ \A j \in 1..Len(evs) : IsReward(evs[j]) =>
          /\ specVersion > 1002 => evs[j].payout = evs[i].payout
          /\ /\ evs[j].payout = evs[i].payout
             /\ \/ PaysCollator(evs[i]) /\ PaysCollator(evs[j])
                \/ evs[i].account = evs[j].account /\ evs[i].amount > 0 /\ evs[j].amount > 0
             => i = j

LEMMA BlockPays ==
    ASSUME NEW b, ReadyFor(b), NEW evs, evs = EventsAt(b), NEW i \in 1..Len(evs), IsReward(evs[i])
    PROVE  Pays(evs, i, stakedValue) /\ PaidOnce(evs, i)
<1>1. TypeOK /\ specVersion = chain.rounds[Len(chain.rounds)].version
  BY DEF ReadyFor, NowRound
<1>2. /\ b \in DOMAIN chain.events /\ evs = chain.events[b] /\ evs[i] \in ToSet(evs)
      /\ evs[i].method \in RewardMethod
  BY RewardsArePaid
<1>3. Pays(evs, i, stakedValue)
  <2>1. PICK e : e = evs[i] /\ e \in ToSet(EventsAt(b)) /\ b \in DOMAIN chain.events /\ e.method \in RewardMethod
    BY <1>2
  <2>2. /\ e.payout \in DOMAIN stakedValue
        /\ PaysCollator(e) => Reward(e).account = e.payout
        /\ ~ PaysCollator(e) =>
              /\ e.method # "OrbiterRewarded" /\ Reward(e).account = e.account
              /\ e.account \in DOMAIN stakedValue[e.payout].delegators /\ e.account \notin DOMAIN stakedValue
              /\ specVersion \in {1001, 1002} => Reward(e).collator = e.payout
    BY <2>1, EventPays
  <2> QED BY <2>1, <2>2 DEF Pays
<1>4. PaysOnce(chain, b)
  BY <1>1, <1>2, ChainFacts DEF PaymentsOfARound
<1>5. PICK paid : paid = {j \in DOMAIN evs : evs[j].method \in RewardMethod}
  OBVIOUS
<1>6. \A j \in 1..Len(evs) : IsReward(evs[j]) <=> j \in paid
  BY <1>5, RewardsArePaid
<1>7. \A j \in paid : j \in 1..Len(evs)
  <2>1. EventsOfABlock(evs)
    BY <1>1, EventsInABlock
  <2> QED BY <1>5, <2>1 DEF EventsOfABlock
<1>8. i \in paid
  BY <1>6
<1>9. /\ \E j \in paid : evs[j].payout = evs[i].payout /\ PaysCollator(evs[j]) /\ evs[j].amount > 0
      /\ specVersion > 1002 => \A j \in paid : evs[i].payout = evs[j].payout
      /\ \A j \in paid :
            /\ evs[i].payout = evs[j].payout
            /\ \/ PaysCollator(evs[i]) /\ PaysCollator(evs[j])
               \/ evs[i].account = evs[j].account /\ evs[i].amount > 0 /\ evs[j].amount > 0
            => i = j
  BY <1>1, <1>2, <1>4, <1>5, <1>8 DEF PaysOnce
<1>10. PaidOnce(evs, i)
  BY <1>6, <1>7, <1>9 DEF PaidOnce
<1> QED BY <1>3, <1>10

\* The rewards of a block, as they were read from its events.
AreRead(b, evs, rs, at, owner) ==
    /\ evs = EventsAt(b) /\ rs = Rewards(b)
    /\ Len(rs) \in Nat /\ Len(evs) \in Nat /\ Sum(rs) \in Nat
    /\ IsIndex(evs, rs, at, Len(evs))
    /\ \A j \in 1..Len(rs) : owner[j] = evs[at[j]].payout
    /\ \A i \in 1..Len(evs) : IsReward(evs[i]) => \E j \in 1..Len(rs) : rs[j] = Reward(evs[i])
    /\ Sum(rs) = SumOver(Len(evs), AllAmounts(evs))

LEMMA RewardsRead ==
    ASSUME TypeOK, NEW b
    PROVE  \E evs, rs, at, owner : AreRead(b, evs, rs, at, owner)
<1>1. PICK evs, rs : evs = EventsAt(b) /\ rs = Rewards(b)
  OBVIOUS
<1>2. EventsOfABlock(evs) /\ Len(evs) \in Nat /\ AreRewards(RewardsIn(evs))
  BY <1>1, EventsInABlock, RewardFacts
<1>3. /\ AreOf(evs, rs, Len(evs), AllAmounts(evs))
      /\ \A i \in 1..Len(evs) : IsReward(evs[i]) => \E j \in 1..Len(rs) : rs[j] = Reward(evs[i])
  BY <1>1, <1>2, RewardsOfBlock
<1>4. PICK at : IsIndex(evs, rs, at, Len(evs))
  BY <1>3 DEF AreOf
<1>5. rs \in Seq(RewardsIn(evs)) /\ Sum(rs) = SumOver(Len(evs), AllAmounts(evs))
  BY <1>3 DEF AreOf
<1>6. Len(rs) \in Nat /\ Sum(rs) \in Nat
  BY <1>2, <1>5, SumOfRewards
<1>7. PICK owner : owner = [j \in 1..Len(rs) |-> evs[at[j]].payout]
  OBVIOUS
<1>8. \A j \in 1..Len(rs) : owner[j] = evs[at[j]].payout
  BY <1>7
<1>9. AreRead(b, evs, rs, at, owner)
  BY <1>1, <1>2, <1>3, <1>4, <1>5, <1>6, <1>8 DEF AreRead
<1> QED BY <1>9

\* A reward and its event.
LEMMA RewardOfEvent ==
    ASSUME NEW b, ReadyFor(b), NEW evs, NEW rs, NEW at, NEW owner, AreRead(b, evs, rs, at, owner),
           NEW j \in 1..Len(rs)
    PROVE  /\ at[j] \in 1..Len(evs) /\ IsReward(evs[at[j]]) /\ evs[at[j]].amount \in Nat
           /\ rs[j] = Reward(evs[at[j]]) /\ rs[j].amount = evs[at[j]].amount
           /\ owner[j] = evs[at[j]].payout
           /\ Pays(evs, at[j], stakedValue) /\ PaidOnce(evs, at[j])
           /\ rs[j].account \in DOMAIN stakedValue <=> PaysCollator(evs[at[j]])
<1>1. /\ at[j] \in 1..Len(evs) /\ IsReward(evs[at[j]]) /\ rs[j] = Reward(evs[at[j]])
      /\ owner[j] = evs[at[j]].payout /\ evs = EventsAt(b)
  BY DEF AreRead, IsIndex
<1>2. EventsOfABlock(evs)
  BY <1>1, EventsInABlock DEF ReadyFor
<1>3. rs[j].amount = evs[at[j]].amount /\ evs[at[j]].amount \in Nat
  BY <1>1, <1>2, RewardFacts
<1>4. PICK i : i = at[j] /\ i \in 1..Len(evs) /\ IsReward(evs[i])
  BY <1>1
<1>5. Pays(evs, i, stakedValue) /\ PaidOnce(evs, i)
  BY <1>1, <1>4, BlockPays
<1>6. rs[j].account \in DOMAIN stakedValue <=> PaysCollator(evs[at[j]])
  BY <1>1, <1>4, <1>5 DEF Pays
<1> QED BY <1>1, <1>3, <1>4, <1>5, <1>6

LEMMA BlockOwned ==
    ASSUME NEW b, ReadyFor(b), NEW evs, NEW rs, NEW at, NEW owner, AreRead(b, evs, rs, at, owner)
    PROVE  Owned(rs, owner, stakedValue)
<1>1. PICK sv : sv = stakedValue
  OBVIOUS
<1>2. ASSUME NEW j \in 1..Len(rs)
      PROVE  /\ rs[j].amount \in Nat /\ owner[j] \in DOMAIN sv
             /\ rs[j].account \in DOMAIN sv => rs[j].account = owner[j]
             /\ rs[j].account \notin DOMAIN sv => rs[j].account \in DOMAIN sv[owner[j]].delegators
             /\ rs[j].account \notin DOMAIN sv /\ specVersion \in {1001, 1002} => rs[j].collator = owner[j]
             /\ \E i \in 1..Len(rs) : owner[i] = owner[j] /\ rs[i].account = owner[j] /\ rs[i].amount > 0
  <2>1. PICK n, e : n = at[j] /\ e = evs[n]
    OBVIOUS
  <2>2. /\ n \in 1..Len(evs) /\ e.amount \in Nat /\ rs[j] = Reward(e) /\ rs[j].amount = e.amount
        /\ owner[j] = e.payout /\ Pays(evs, n, sv) /\ PaidOnce(evs, n)
        /\ rs[j].account \in DOMAIN sv <=> PaysCollator(e)
    BY <1>1, <2>1, RewardOfEvent
  <2>3. /\ owner[j] \in DOMAIN sv
        /\ PaysCollator(e) => rs[j].account = owner[j]
        /\ ~ PaysCollator(e) =>
              /\ rs[j].account \in DOMAIN sv[owner[j]].delegators
              /\ specVersion \in {1001, 1002} => rs[j].collator = owner[j]
    BY <2>1, <2>2 DEF Pays
  <2>4. PICK k \in 1..Len(evs) : /\ IsReward(evs[k]) /\ evs[k].payout = owner[j]
                                 /\ PaysCollator(evs[k]) /\ evs[k].amount > 0
    BY <2>1, <2>2 DEF PaidOnce
  <2>5. PICK i \in 1..Len(rs) : rs[i] = Reward(evs[k])
    BY <2>4 DEF AreRead
  <2>6. evs = EventsAt(b)
    BY DEF AreRead
  <2>7. rs[i].account = owner[j]
    BY <2>4, <2>5, <2>6, BlockPays DEF Pays
  <2>8. rs[i].amount > 0
    BY <2>4, <2>5 DEF Reward
  <2>9. owner[i] = owner[j]
    <3>1. PICK l : l = at[i] /\ rs[i] = Reward(evs[l]) /\ owner[i] = evs[l].payout /\ Pays(evs, l, sv)
                   /\ (rs[i].account \in DOMAIN sv <=> PaysCollator(evs[l]))
      BY <1>1, RewardOfEvent
    <3> QED BY <2>3, <2>7, <3>1 DEF Pays
  <2> QED BY <2>2, <2>3, <2>7, <2>8, <2>9
<1>3. ASSUME NEW i \in 1..Len(rs), NEW j \in 1..Len(rs)
      PROVE  /\ specVersion > 1002 => owner[i] = owner[j]
             /\ /\ owner[i] = owner[j] /\ rs[i].account = rs[j].account
                /\ rs[i].account \in DOMAIN sv \/ (rs[i].amount > 0 /\ rs[j].amount > 0)
                => i = j
  <2>1. PICK m, n : m = at[i] /\ n = at[j]
    OBVIOUS
  <2>2. /\ m \in 1..Len(evs) /\ IsReward(evs[m]) /\ rs[i] = Reward(evs[m]) /\ rs[i].amount = evs[m].amount
        /\ owner[i] = evs[m].payout /\ Pays(evs, m, sv) /\ PaidOnce(evs, m)
        /\ rs[i].account \in DOMAIN sv <=> PaysCollator(evs[m])
    BY <1>1, <2>1, RewardOfEvent
  <2>3. /\ n \in 1..Len(evs) /\ IsReward(evs[n]) /\ rs[j] = Reward(evs[n]) /\ rs[j].amount = evs[n].amount
        /\ owner[j] = evs[n].payout /\ Pays(evs, n, sv)
        /\ rs[j].account \in DOMAIN sv <=> PaysCollator(evs[n])
    BY <1>1, <2>1, RewardOfEvent
  <2>4. specVersion > 1002 => owner[i] = owner[j]
    BY <2>2, <2>3 DEF PaidOnce
  <2>5. ASSUME owner[i] = owner[j], rs[i].account = rs[j].account,
               rs[i].account \in DOMAIN sv \/ (rs[i].amount > 0 /\ rs[j].amount > 0)
        PROVE  i = j
    <3>1. evs[n].payout = evs[m].payout
      BY <2>2, <2>3, <2>5
    <3>2. \/ PaysCollator(evs[m]) /\ PaysCollator(evs[n])
          \/ evs[m].account = evs[n].account /\ evs[m].amount > 0 /\ evs[n].amount > 0
      BY <2>2, <2>3, <2>5 DEF Pays
    <3>3. m = n
      BY <2>2, <2>3, <3>1, <3>2 DEF PaidOnce
    <3>4. IsIndex(evs, rs, at, Len(evs))
      BY DEF AreRead
    <3>5. at[i] = at[j]
      BY <2>1, <3>3
    <3> QED BY <3>4, <3>5 DEF IsIndex
  <2> QED BY <2>4, <2>5
<1> QED BY <1>1, <1>2, <1>3 DEF Owned

-----------------------------------------------------------------------------
(* What the events of the blocks come to.                                   *)

\* What the first n blocks paid by certain events.
ByBlock(events) == [i \in 1..PadTo + 1 |-> PaidIn(PayoutBlock + i - 1, events)]
PaidBy(n, events) == SumOver(n, ByBlock(events))

OfCollator(c) == {e \in RewardEvents : e.payout = c}
DueTo(c, d) == {e \in OfCollator(c) : e.method # "OrbiterRewarded" /\ e.account = d}

Doubtful(sv, d) ==
    /\ chain.rounds[NowRound].version <= 900
    /\ \E a, c \in DOMAIN sv : a # c /\ d \in DOMAIN sv[a].delegators /\ d \in DOMAIN sv[c].delegators

\* Every reward of the first n blocks is under its collator.
PaidUntil(sv, n) ==
    \A c \in DOMAIN sv :
        /\ \A d \in DOMAIN sv[c].delegators :
              Doubtful(sv, d) \/ sv[c].delegators[d].reward = PaidBy(n, DueTo(c, d))
        /\ chain.rounds[NowRound].version > 1002 => sv[c].rewardTotal = PaidBy(n, OfCollator(c))

AmountsIn(evs, events) == [i \in 1..Len(evs) |-> IF evs[i] \in events THEN evs[i].amount ELSE 0]

LEMMA PaidInABlock ==
    ASSUME TypeOK, NEW b, NEW events
    PROVE  /\ PaidIn(b, events) = SumOver(Len(EventsAt(b)), AmountsIn(EventsAt(b), events))
           /\ PaidIn(b, events) \in Nat
<1>1. PICK evs, f, n : evs = EventsAt(b) /\ f = AmountsIn(evs, events) /\ n = Len(evs)
  OBVIOUS
<1>2. n \in Nat /\ \A i \in 1..n : evs[i].amount \in Nat
  BY <1>1, EventsInABlock, RewardFacts
<1>3. \A i \in 1..n : f[i] \in Nat
  BY <1>1, <1>2 DEF AmountsIn
<1>4. PaidIn(b, events) = SumOver(n, f)
  BY <1>1 DEF PaidIn, AmountsIn
<1>5. SumOver(n, f) \in Nat
  BY <1>2, <1>3, SumOfNaturals
<1> QED BY <1>1, <1>4, <1>5

LEMMA NothingPaid ==
    ASSUME TypeOK, NEW b, NEW events,
           \A i \in 1..Len(EventsAt(b)) : EventsAt(b)[i] \in events => EventsAt(b)[i].amount = 0
    PROVE  PaidIn(b, events) = 0
<1>1. PICK evs, f, n : evs = EventsAt(b) /\ f = AmountsIn(evs, events) /\ n = Len(evs)
  OBVIOUS
<1>2. n \in Nat
  BY <1>1, EventsInABlock, RewardFacts
<1>3. \A i \in 1..n : f[i] = 0
  BY <1>1 DEF AmountsIn
<1>4. SumOver(n, f) = 0
  BY <1>2, <1>3, SumOfNothing
<1> QED BY <1>1, <1>4, PaidInABlock

LEMMA PaidByOne ==
    ASSUME TypeOK, NEW b, NEW events, NEW n \in 1..Len(EventsAt(b)), EventsAt(b)[n] \in events,
           \A i \in 1..Len(EventsAt(b)) :
               EventsAt(b)[i] \in events /\ EventsAt(b)[i].amount > 0 => i = n
    PROVE  PaidIn(b, events) = EventsAt(b)[n].amount
<1>1. PICK evs, f, m : evs = EventsAt(b) /\ f = AmountsIn(evs, events) /\ m = Len(evs)
  OBVIOUS
<1>2. m \in Nat /\ n \in 1..m /\ \A i \in 1..m : evs[i].amount \in Nat
  BY <1>1, EventsInABlock, RewardFacts
<1>3. f[n] = evs[n].amount /\ f[n] \in Nat
  BY <1>1, <1>2 DEF AmountsIn
<1>4. \A i \in 1..m : i # n => f[i] = 0
  BY <1>1, <1>2 DEF AmountsIn
<1>5. SumOver(m, f) = f[n]
  BY <1>2, <1>3, <1>4, SumOfOne
<1> QED BY <1>1, <1>3, <1>5, PaidInABlock

LEMMA EventFacts ==
    ASSUME TypeOK, NEW b, NEW i \in 1..Len(EventsAt(b))
    PROVE  /\ b \in DOMAIN chain.events /\ EventsAt(b) = chain.events[b]
           /\ i \in DOMAIN chain.events[b] /\ EventsAt(b)[i] \in ToSet(chain.events[b])
           /\ EventsAt(b)[i].amount \in Nat
<1>1. PICK evs : evs = EventsAt(b)
  OBVIOUS
<1>2. EventsOfABlock(evs) /\ Len(evs) \in Nat
  BY <1>1, EventsInABlock, RewardFacts
<1>3. b \in DOMAIN chain.events /\ evs = chain.events[b]
  <2>1. Len(evs) # 0
    BY <1>1, <1>2
  <2> QED BY <1>1, <2>1, EventsInABlock
<1>4. i \in DOMAIN evs /\ evs[i] \in ToSet(evs) /\ evs[i].amount \in Nat
  BY <1>1, <1>2, RewardFacts DEF EventsOfABlock
<1> QED BY <1>1, <1>3, <1>4

\* The code counts as rewards what the chain pays as such.
LEMMA RewardsKnown ==
    ASSUME TypeOK, specVersion = chain.rounds[NowRound].version, NEW b, NEW i \in 1..Len(EventsAt(b))
    PROVE  IsReward(EventsAt(b)[i]) <=> EventsAt(b)[i] \in RewardEvents
<1>1. PICK e : e = EventsAt(b)[i]
  OBVIOUS
<1>2. b \in DOMAIN chain.events /\ e \in ToSet(chain.events[b])
  BY <1>1, EventFacts
<1>3. e.method \in RewardMethod => PaysTheStaked(chain, b, e)
  BY <1>2, ChainFacts DEF PaymentsOfARound
<1>4. e.method = "OrbiterRewarded" => specVersion >= 2000
  BY <1>3 DEF PaysTheStaked, RewardMethod, NowRound
<1>5. e.method \in RewardMethod <=> IsReward(e)
  BY <1>4 DEF IsReward, RewardMethod
<1>6. e \in RewardEvents <=> e.method \in RewardMethod
  BY <1>2 DEF RewardEvents
<1> QED BY <1>1, <1>5, <1>6

\* The total of a block is what its events pay.
LEMMA BlockTotal ==
    ASSUME TypeOK, specVersion = chain.rounds[NowRound].version, NEW b
    PROVE  Sum(Rewards(b)) = PaidIn(b, RewardEvents)
<1>1. PICK evs, rs, at, owner : AreRead(b, evs, rs, at, owner)
  BY RewardsRead
<1>2. evs = EventsAt(b) /\ rs = Rewards(b) /\ Sum(rs) = SumOver(Len(evs), AllAmounts(evs))
  BY <1>1 DEF AreRead
<1>3. \A i \in 1..Len(evs) : IsReward(evs[i]) <=> evs[i] \in RewardEvents
  BY <1>2, RewardsKnown
<1>4. AllAmounts(evs) = AmountsIn(evs, RewardEvents)
  BY <1>3 DEF AllAmounts, AmountsIn
<1> QED BY <1>2, <1>4, PaidInABlock

\* What a collator is paid in a block that pays one collator.
LEMMA CollatorsShare ==
    ASSUME NEW b, ReadyFor(b), NEW evs, NEW rs, NEW at, NEW owner, AreRead(b, evs, rs, at, owner),
           specVersion > 1002, NEW c
    PROVE  IF \E j \in 1..Len(rs) : owner[j] = c THEN PaidIn(b, OfCollator(c)) = Sum(rs)
           ELSE PaidIn(b, OfCollator(c)) = 0
<1>1. evs = EventsAt(b) /\ rs = Rewards(b) /\ TypeOK
  BY DEF AreRead, ReadyFor
<1>2. \A i \in 1..Len(evs) : IsReward(evs[i]) <=> evs[i] \in RewardEvents
  BY <1>1, RewardsArePaid
<1>3. \A i \in 1..Len(evs) : evs[i] \in OfCollator(c) => IsReward(evs[i]) /\ evs[i].payout = c
  BY <1>2 DEF OfCollator
<1>4. ASSUME NEW j \in 1..Len(rs), owner[j] = c PROVE PaidIn(b, OfCollator(c)) = Sum(rs)
  <2>1. evs[at[j]].payout = c /\ PaidOnce(evs, at[j])
    BY <1>4, RewardOfEvent
  <2>2. \A i \in 1..Len(evs) : IsReward(evs[i]) => evs[i].payout = c
    BY <2>1 DEF PaidOnce
  <2>3. \A i \in 1..Len(evs) : IsReward(evs[i]) <=> evs[i] \in OfCollator(c)
    BY <1>2, <2>2 DEF OfCollator
  <2>4. AllAmounts(evs) = AmountsIn(evs, OfCollator(c))
    BY <2>3 DEF AllAmounts, AmountsIn
  <2>5. Sum(rs) = SumOver(Len(evs), AllAmounts(evs))
    BY DEF AreRead
  <2> QED BY <1>1, <2>4, <2>5, PaidInABlock
<1>5. ASSUME \A j \in 1..Len(rs) : owner[j] # c PROVE PaidIn(b, OfCollator(c)) = 0
  <2>1. ASSUME NEW i \in 1..Len(evs), evs[i] \in OfCollator(c) PROVE FALSE
    <3>1. IsReward(evs[i]) /\ evs[i].payout = c
      BY <1>3, <2>1
    <3>2. PICK j \in 1..Len(rs) : rs[j] = Reward(evs[i])
      BY <3>1 DEF AreRead
    <3>3. owner[j] = evs[at[j]].payout /\ PaidOnce(evs, at[j])
      BY RewardOfEvent
    <3>4. evs[i].payout = evs[at[j]].payout
      BY <3>1, <3>3 DEF PaidOnce
    <3> QED BY <1>5, <3>1, <3>3, <3>4
  <2> QED BY <1>1, <2>1, NothingPaid
<1> QED BY <1>4, <1>5

\* What a delegator is paid for a collator in a block: by one event at most.
LEMMA DelegatorsShare ==
    ASSUME NEW b, ReadyFor(b), NEW evs, NEW rs, NEW at, NEW owner, AreRead(b, evs, rs, at, owner),
           CanTell,
           NEW c \in DOMAIN stakedValue, NEW d \in DOMAIN stakedValue[c].delegators, Clear(stakedValue, d)
    PROVE  /\ \A j \in 1..Len(rs) : IsFor(rs, owner, j, c, d) => PaidIn(b, DueTo(c, d)) = rs[j].amount
           /\ (\A j \in 1..Len(rs) : ~ IsFor(rs, owner, j, c, d)) => PaidIn(b, DueTo(c, d)) = 0
<1>1. evs = EventsAt(b) /\ TypeOK /\ ReadAtStart(stakedValue, delegators)
  BY DEF AreRead, ReadyFor
<1>2. \A i \in 1..Len(evs) : IsReward(evs[i]) <=> evs[i] \in RewardEvents
  BY <1>1, RewardsArePaid
<1>3. d \notin DOMAIN stakedValue
  BY <1>1, WhatWasRead DEF Entered
<1>4. ASSUME NEW i \in 1..Len(evs), evs[i] \in DueTo(c, d)
      PROVE  /\ IsReward(evs[i]) /\ evs[i].payout = c /\ evs[i].account = d
             /\ Reward(evs[i]).account = d /\ ~ PaysCollator(evs[i])
             /\ Reward(evs[i]).amount = evs[i].amount
             /\ specVersion \in {1001, 1002} => Reward(evs[i]).collator = c
  <2>1. /\ IsReward(evs[i]) /\ evs[i].payout = c /\ evs[i].account = d
        /\ evs[i].method # "OrbiterRewarded"
    BY <1>2, <1>4 DEF DueTo, OfCollator
  <2>2. Pays(evs, i, stakedValue)
    BY <1>1, <2>1, BlockPays
  <2>3. ~ PaysCollator(evs[i])
    BY <1>3, <2>1, <2>2 DEF Pays, PaysCollator
  <2> QED BY <2>1, <2>2, <2>3 DEF Pays, Reward
<1>5. ASSUME NEW j \in 1..Len(rs), IsFor(rs, owner, j, c, d) PROVE PaidIn(b, DueTo(c, d)) = rs[j].amount
  <2>1. PICK n : n = at[j]
    OBVIOUS
  <2>2. /\ n \in 1..Len(evs) /\ IsReward(evs[n]) /\ rs[j] = Reward(evs[n]) /\ rs[j].amount = evs[n].amount
        /\ owner[j] = evs[n].payout /\ Pays(evs, n, stakedValue) /\ PaidOnce(evs, n)
        /\ rs[j].account \in DOMAIN stakedValue <=> PaysCollator(evs[n])
    BY <2>1, RewardOfEvent
  <2>3. owner[j] = c /\ rs[j].account = d /\ rs[j].amount > 0
    BY <1>5 DEF IsFor
  <2>4. evs[n].method # "OrbiterRewarded" /\ evs[n].account = d
    BY <1>3, <2>2, <2>3 DEF Pays
  <2>5. evs[n] \in DueTo(c, d)
    <3>1. PICK e : e = evs[n]
      OBVIOUS
    <3>2. e \in RewardEvents /\ e.payout = c
      BY <1>2, <2>2, <2>3, <3>1, ZenonT(30)
    <3>3. e \in OfCollator(c)
      BY <3>2 DEF OfCollator
    <3> QED BY <2>4, <3>1, <3>3 DEF DueTo
  <2>6. ASSUME NEW i \in 1..Len(evs), evs[i] \in DueTo(c, d), evs[i].amount > 0 PROVE i = n
    <3>1. IsReward(evs[i]) /\ evs[i].payout = evs[n].payout /\ evs[n].account = evs[i].account
      BY <1>4, <2>2, <2>3, <2>4, <2>6
    <3> QED BY <2>2, <2>3, <2>6, <3>1 DEF PaidOnce
  <2>7. PaidIn(b, DueTo(c, d)) = evs[n].amount
    BY <1>1, <2>2, <2>5, <2>6, PaidByOne
  <2> QED BY <2>2, <2>7
<1>6. ASSUME \A j \in 1..Len(rs) : ~ IsFor(rs, owner, j, c, d) PROVE PaidIn(b, DueTo(c, d)) = 0
  <2>1. ASSUME NEW i \in 1..Len(evs), evs[i] \in DueTo(c, d), evs[i].amount # 0 PROVE FALSE
    <3>1. /\ IsReward(evs[i]) /\ evs[i].payout = c /\ Reward(evs[i]).account = d
          /\ Reward(evs[i]).amount = evs[i].amount
          /\ specVersion \in {1001, 1002} => Reward(evs[i]).collator = c
      BY <1>4, <2>1
    <3>2. PICK j \in 1..Len(rs) : rs[j] = Reward(evs[i])
      <4>1. \A k \in 1..Len(evs) : IsReward(evs[k]) => \E j \in 1..Len(rs) : rs[j] = Reward(evs[k])
        BY DEF AreRead
      <4> QED BY <3>1, <4>1
    <3>3. PICK n : n = at[j]
      OBVIOUS
    <3>4. /\ n \in 1..Len(evs) /\ IsReward(evs[n]) /\ rs[j] = Reward(evs[n]) /\ rs[j].amount = evs[n].amount
          /\ evs[n].amount \in Nat
          /\ owner[j] = evs[n].payout /\ Pays(evs, n, stakedValue) /\ PaidOnce(evs, n)
          /\ rs[j].account \in DOMAIN stakedValue <=> PaysCollator(evs[n])
      BY <3>3, RewardOfEvent
    <3>5. rs[j].account = d /\ rs[j].amount > 0 /\ (specVersion \in {1001, 1002} => rs[j].collator = c)
      BY <2>1, <3>1, <3>2, <3>4
    <3>6. ~ PaysCollator(evs[n])
      BY <1>3, <3>4, <3>5
    <3>7. /\ owner[j] \in DOMAIN stakedValue /\ d \in DOMAIN stakedValue[owner[j]].delegators
          /\ specVersion \in {1001, 1002} => rs[j].collator = owner[j]
      BY <3>4, <3>5, <3>6 DEF Pays
    <3>8. owner[j] = c
      <4>1. CASE specVersion <= 900
        BY <3>7, <4>1 DEF Clear
      <4>2. CASE specVersion \in {1001, 1002}
        BY <3>5, <3>7, <4>2
      <4>3. CASE specVersion > 1002
        BY <3>1, <3>4, <4>3 DEF PaidOnce
      <4>4. specVersion <= 900 \/ specVersion \in {1001, 1002} \/ specVersion > 1002
        BY Runtimes
      <4> QED BY <4>1, <4>2, <4>3, <4>4
    <3> QED BY <1>6, <3>5, <3>8 DEF IsFor
  <2> QED BY <1>1, <2>1, NothingPaid
<1> QED BY <1>5, <1>6

\* A collator that is paid for in a block is paid for in no other.
LEMMA PaidNowhereElse ==
    ASSUME TypeOK, NEW b, NEW n \in 1..Len(EventsAt(b)), EventsAt(b)[n].method \in RewardMethod,
           NEW c, c = EventsAt(b)[n].payout, NEW x, x # b, NEW events, events \subseteq OfCollator(c)
    PROVE  PaidIn(x, events) = 0
<1>1. ASSUME NEW i \in 1..Len(EventsAt(x)), EventsAt(x)[i] \in events PROVE FALSE
  <2>1. PICK e : e = EventsAt(x)[i]
    OBVIOUS
  <2>2. x \in DOMAIN chain.events /\ e \in ToSet(chain.events[x])
    BY <2>1, EventFacts
  <2>3. e.method \in RewardMethod /\ e.payout = c
    BY <1>1, <2>1 DEF OfCollator, RewardEvents
  <2>4. b \in DOMAIN chain.events /\ EventsAt(b) = chain.events[b] /\ n \in DOMAIN chain.events[b]
    BY EventFacts
  <2>5. PaysOnce(chain, b)
    BY <2>4, ChainFacts DEF PaymentsOfARound
  <2>6. x = b
    BY <2>2, <2>3, <2>4, <2>5 DEF PaysOnce
  <2> QED BY <2>6
<1> QED BY <1>1, NothingPaid

\* No block pays but those the task is to look at.
LEMMA NothingAfter ==
    ASSUME TypeOK, NEW b, b \notin PayoutBlock..PayoutBlock + PayoutBlocks(chain) - 1,
           NEW events, events \subseteq RewardEvents
    PROVE  PaidIn(b, events) = 0
<1>1. ASSUME NEW i \in 1..Len(EventsAt(b)), EventsAt(b)[i] \in events PROVE FALSE
  <2>1. PICK e : e = EventsAt(b)[i]
    OBVIOUS
  <2>2. b \in DOMAIN chain.events /\ e \in ToSet(chain.events[b])
    BY <2>1, EventFacts
  <2>3. e.method \in RewardMethod
    BY <1>1, <2>1 DEF RewardEvents
  <2>4. PaysTheStaked(chain, b, e)
    BY <2>2, <2>3, ChainFacts DEF PaymentsOfARound
  <2> QED BY <2>4 DEF PaysTheStaked, PayoutBlock, NowRound
<1> QED BY <1>1, NothingPaid

LEMMA PaidByStep ==
    ASSUME TypeOK, NEW events, NEW n \in 0..PadTo
    PROVE  /\ PaidBy(0, events) = 0
           /\ PaidBy(n + 1, events) = PaidBy(n, events) + PaidIn(PayoutBlock + n, events)
<1>1. PICK f : f = ByBlock(events)
  OBVIOUS
<1>2. n \in Nat /\ n + 1 \in 1..PadTo + 1 /\ PayoutBlock \in Nat
  BY RoundAssumption, RoundFacts
<1>3. f[n + 1] = PaidIn(PayoutBlock + n, events)
  <2>1. f[n + 1] = PaidIn(PayoutBlock + (n + 1) - 1, events)
    BY <1>1, <1>2 DEF ByBlock
  <2>2. PayoutBlock + (n + 1) - 1 = PayoutBlock + n
    BY <1>2
  <2> QED BY <2>1, <2>2
<1>4. SumOver(0, f) = 0 /\ SumOver(n + 1, f) = SumOver(n, f) + f[n + 1]
  BY <1>2, SumOverStep
<1> QED BY <1>1, <1>3, <1>4 DEF PaidBy

LEMMA PaidByInNat ==
    ASSUME TypeOK, NEW events, NEW n \in 0..PadTo + 1
    PROVE  PaidBy(n, events) \in Nat
<1>1. PICK f : f = ByBlock(events)
  OBVIOUS
<1>2. n \in Nat /\ PadTo \in Nat
  BY RoundAssumption
<1>3. ASSUME NEW i \in 1..n PROVE f[i] \in Nat
  <2>1. f[i] = PaidIn(PayoutBlock + i - 1, events)
    BY <1>1, <1>2 DEF ByBlock
  <2> QED BY <2>1, PaidInABlock
<1>4. SumOver(n, f) \in Nat
  BY <1>2, <1>3, SumOfNaturals
<1> QED BY <1>1, <1>4 DEF PaidBy

LEMMA NothingPaidYet ==
    ASSUME TypeOK, NEW events, NEW n \in 0..PadTo + 1, \A i \in 0..n - 1 : PaidIn(PayoutBlock + i, events) = 0
    PROVE  PaidBy(n, events) = 0
<1>1. PICK f : f = ByBlock(events)
  OBVIOUS
<1>2. n \in Nat /\ PadTo \in Nat /\ PayoutBlock \in Nat
  BY RoundAssumption, RoundFacts
<1>3. ASSUME NEW i \in 1..n PROVE f[i] = 0
  <2>1. f[i] = PaidIn(PayoutBlock + i - 1, events)
    BY <1>1, <1>2 DEF ByBlock
  <2>2. PICK k \in 0..n - 1 : k = i - 1
    BY <1>2
  <2>3. PayoutBlock + i - 1 = PayoutBlock + k
    BY <1>2, <2>2
  <2> QED BY <2>1, <2>2, <2>3
<1>4. SumOver(n, f) = 0
  BY <1>2, <1>3, SumOfNothing
<1> QED BY <1>1, <1>4 DEF PaidBy

LEMMA NothingPaidAfter ==
    ASSUME TypeOK, NEW events, NEW n \in 0..PadTo + 1,
           \A i \in n..PadTo : PaidIn(PayoutBlock + i, events) = 0
    PROVE  PaidBy(n, events) = Paid(events)
<1>1. PICK m : m = PadTo + 1 - n /\ m \in Nat /\ n + m = PadTo + 1
  BY RoundAssumption
<1> DEFINE S == {i \in 0..m : PaidBy(n + i, events) = PaidBy(n, events)}
<1>2. 0 \in S
  BY <1>1
<1>3. ASSUME NEW i \in 1..m, i - 1 \in S PROVE i \in S
  <2>1. PICK k \in 0..PadTo : k = n + (i - 1) /\ k + 1 = n + i /\ k \in n..PadTo
    BY <1>1, RoundAssumption
  <2>2. PaidBy(k, events) = PaidBy(n, events)
    BY <1>3, <2>1
  <2>3. PaidIn(PayoutBlock + k, events) = 0
    BY <2>1
  <2>4. PaidBy(k + 1, events) = PaidBy(k, events) + PaidIn(PayoutBlock + k, events)
    BY PaidByStep
  <2>5. PaidBy(k, events) \in Nat
    <3>1. k \in 0..PadTo + 1
      BY RoundAssumption
    <3> QED BY <3>1, PaidByInNat
  <2>6. PaidBy(k + 1, events) = PaidBy(n, events)
    BY <2>2, <2>3, <2>4, <2>5
  <2> QED BY <2>1, <2>6
<1> HIDE DEF S
<1>4. m \in S
  BY <1>1, <1>2, <1>3, InductionTo
<1>5. PaidBy(PadTo + 1, events) = PaidBy(n, events)
  BY <1>1, <1>4 DEF S
<1>6. PaidBy(PadTo + 1, events) = Paid(events)
  BY DEF PaidBy, ByBlock, Paid
<1> QED BY <1>5, <1>6

\* When the task has looked at all the blocks, it has seen all there is.
LEMMA AllIsPaid ==
    ASSUME TypeOK, specVersion = chain.rounds[NowRound].version, MaxRoundChecks \in 0..PadTo + 1,
           NEW events, events \subseteq RewardEvents
    PROVE  PaidBy(MaxRoundChecks, events) = Paid(events)
<1>1. PICK n \in 0..PadTo + 1 : n = MaxRoundChecks
  OBVIOUS
<1>2. PayoutBlocks(chain) = n
  BY <1>1 DEF PayoutBlocks, MaxRoundChecks, NowRound
<1>3. ASSUME NEW i \in n..PadTo PROVE PaidIn(PayoutBlock + i, events) = 0
  <2>1. PICK b : b = PayoutBlock + i
    OBVIOUS
  <2>2. PayoutBlock \in Nat /\ PadTo \in Nat
    BY RoundFacts, RoundAssumption
  <2>3. b \notin PayoutBlock..PayoutBlock + PayoutBlocks(chain) - 1
    BY <1>2, <2>1, <2>2
  <2> QED BY <2>1, <2>3, NothingAfter
<1> QED BY <1>1, <1>3, NothingPaidAfter

-----------------------------------------------------------------------------
(* One block more.                                                          *)

\* Whoever is paid for in this block was not paid for before.
LEMMA NotPaidBefore ==
    ASSUME NEW b, ReadyFor(b), NEW n \in 0..PadTo, b = PayoutBlock + n,
           NEW evs, NEW rs, NEW at, NEW owner, AreRead(b, evs, rs, at, owner), NEW j \in 1..Len(rs),
           NEW c, c = owner[j], NEW events, events \subseteq OfCollator(c)
    PROVE  PaidBy(n, events) = 0
<1>1. TypeOK /\ evs = EventsAt(b)
  BY DEF ReadyFor, AreRead
<1>2. PICK l : l = at[j]
  OBVIOUS
<1>3. l \in 1..Len(evs) /\ IsReward(evs[l]) /\ evs[l].payout = c
  BY <1>2, RewardOfEvent
<1>4. evs[l].method \in RewardMethod
  BY <1>3 DEF IsReward, RewardMethod
<1>5. PayoutBlock \in Nat /\ PadTo \in Nat
  BY <1>1, RoundFacts, RoundAssumption
<1>6. ASSUME NEW i \in 0..n - 1 PROVE PaidIn(PayoutBlock + i, events) = 0
  <2>1. PICK x : x = PayoutBlock + i /\ x # b
    BY <1>5
  <2> QED BY <1>1, <1>3, <1>4, <2>1, PaidNowhereElse
<1>7. n \in 0..PadTo + 1
  BY <1>5
<1> QED BY <1>1, <1>6, <1>7, NothingPaidYet

\* What is under its collator stays so.
LEMMA PaidNext ==
    ASSUME NEW b, ReadyFor(b), CollatorsTold, IsStaked(stakedValue), NEW n \in 0..PadTo, b = PayoutBlock + n,
           PaidUntil(stakedValue, n), specVersion <= 900 => Fresh(stakedValue)
    PROVE  ~ Rewarded(b).lost /\ PaidUntil(Rewarded(b).staked, n + 1)
<1>1. /\ TypeOK /\ ReadAtStart(stakedValue, delegators) /\ specVersion = chain.rounds[NowRound].version
  BY DEF ReadyFor
<1>2. PICK evs, rs, at, owner : AreRead(b, evs, rs, at, owner)
  BY <1>1, RewardsRead
<1>3. rs = Rewards(b) /\ Len(rs) \in Nat /\ Sum(rs) \in Nat
  BY <1>2 DEF AreRead
<1>4. Owned(rs, owner, stakedValue)
  BY <1>2, BlockOwned
<1>5. Entered(stakedValue, chain.stake[OriginalRound])
  BY <1>1, WhatWasRead
<1>6. CanTell
  BY <1>1, RoundFacts DEF CollatorsTold, CanTell
<1>7. PICK base : /\ CollatorsPaid(stakedValue, base, rs, Sum(rs), Len(rs))
                  /\ DelegatorsPaid(stakedValue, Rewarded(b), base, rs, owner, Len(rs))
  BY <1>3, <1>4, <1>5, <1>6, BlockPaid
<1>8. PICK w, sv, t : w = Rewarded(b) /\ sv = stakedValue /\ t = w.staked
  OBVIOUS
<1>9. Payments(sv, w) /\ ~ w.lost /\ CollatorsStay(sv, w, base) /\ DelegatorsCome(sv, w, rs, owner, Len(rs))
  BY <1>7, <1>8 DEF DelegatorsPaid
<1>10. /\ DOMAIN t = DOMAIN sv
       /\ \A c \in DOMAIN sv : DOMAIN t[c].delegators = DOMAIN sv[c].delegators
  BY <1>8, <1>9 DEF Payments, SameStake, SameDelegations
<1>11. \A d : Doubtful(t, d) <=> Doubtful(sv, d)
  BY <1>10 DEF Doubtful
<1>12. \A d : ~ Doubtful(sv, d) => Clear(sv, d)
  BY <1>1 DEF Doubtful, Clear
<1>13. ASSUME NEW events
       PROVE  /\ PaidBy(n, events) \in Nat /\ PaidIn(b, events) \in Nat
              /\ PaidBy(n + 1, events) = PaidBy(n, events) + PaidIn(b, events)
  <2>1. n \in 0..PadTo + 1
    BY RoundAssumption
  <2> QED BY <1>1, <2>1, PaidByStep, PaidByInNat, PaidInABlock
<1>14. ASSUME NEW j \in 1..Len(rs), NEW events, events \subseteq OfCollator(owner[j])
       PROVE  PaidBy(n + 1, events) = PaidIn(b, events)
  <2>1. PICK c : c = owner[j]
    OBVIOUS
  <2>2. PaidBy(n, events) = 0
    BY <1>2, <1>14, <2>1, NotPaidBefore
  <2> QED BY <1>13, <2>2
<1>15. ASSUME NEW c \in DOMAIN sv, NEW d \in DOMAIN sv[c].delegators, ~ Doubtful(sv, d)
       PROVE  t[c].delegators[d].reward = PaidBy(n + 1, DueTo(c, d))
  <2>1. Clear(sv, d) /\ DueTo(c, d) \subseteq OfCollator(c)
    BY <1>12, <1>15 DEF DueTo
  <2>2. /\ \A j \in 1..Len(rs) : IsFor(rs, owner, j, c, d) => t[c].delegators[d].reward = rs[j].amount
        /\ (\A j \in 1..Len(rs) : ~ IsFor(rs, owner, j, c, d)) =>
              t[c].delegators[d].reward = sv[c].delegators[d].reward
    BY <1>8, <1>9, <2>1 DEF DelegatorsCome
  <2>3. /\ \A j \in 1..Len(rs) : IsFor(rs, owner, j, c, d) => PaidIn(b, DueTo(c, d)) = rs[j].amount
        /\ (\A j \in 1..Len(rs) : ~ IsFor(rs, owner, j, c, d)) => PaidIn(b, DueTo(c, d)) = 0
    BY <1>2, <1>6, <1>8, <2>1, DelegatorsShare
  <2>4. CASE \E j \in 1..Len(rs) : IsFor(rs, owner, j, c, d)
    <3>1. PICK j \in 1..Len(rs) : IsFor(rs, owner, j, c, d)
      BY <2>4
    <3>2. owner[j] = c
      BY <3>1 DEF IsFor
    <3>3. PaidBy(n + 1, DueTo(c, d)) = PaidIn(b, DueTo(c, d))
      BY <1>14, <2>1, <3>2
    <3> QED BY <2>2, <2>3, <3>1, <3>3
  <2>5. CASE \A j \in 1..Len(rs) : ~ IsFor(rs, owner, j, c, d)
    <3>1. sv[c].delegators[d].reward = PaidBy(n, DueTo(c, d))
      BY <1>8, <1>15 DEF PaidUntil
    <3>2. PaidIn(b, DueTo(c, d)) = 0 /\ t[c].delegators[d].reward = PaidBy(n, DueTo(c, d))
      BY <2>2, <2>3, <2>5, <3>1
    <3> QED BY <1>13, <3>2
  <2> QED BY <2>4, <2>5
<1>16. ASSUME NEW c \in DOMAIN sv, specVersion > 1002
       PROVE  t[c].rewardTotal = PaidBy(n + 1, OfCollator(c))
  <2>1. t[c].rewardTotal = base.staked[c].rewardTotal
    BY <1>8, <1>9 DEF CollatorsStay
  <2>2. IF \E j \in 1..Len(rs) : owner[j] = c THEN PaidIn(b, OfCollator(c)) = Sum(rs)
        ELSE PaidIn(b, OfCollator(c)) = 0
    BY <1>2, <1>16, CollatorsShare
  <2>3. CASE \E j \in 1..Len(rs) : owner[j] = c
    <3>1. PICK j \in 1..Len(rs) : owner[j] = c
      BY <2>3
    <3>2. PICK i \in 1..Len(rs) : rs[i].account = c
      BY <1>4, <3>1 DEF Owned
    <3>3. base.staked[c].rewardTotal = Sum(rs)
      BY <1>7, <1>8, <3>2 DEF CollatorsPaid
    <3>4. PaidBy(n + 1, OfCollator(c)) = PaidIn(b, OfCollator(c))
      BY <1>14, <3>1
    <3> QED BY <2>1, <2>2, <2>3, <3>3, <3>4
  <2>4. CASE \A j \in 1..Len(rs) : owner[j] # c
    <3>1. \A j \in 1..Len(rs) : rs[j].account # c
      BY <1>4, <1>8, <2>4 DEF Owned
    <3>2. base.staked[c].rewardTotal = sv[c].rewardTotal
      BY <1>7, <1>8, <3>1 DEF CollatorsPaid
    <3>3. sv[c].rewardTotal = PaidBy(n, OfCollator(c))
      BY <1>1, <1>8, <1>16 DEF PaidUntil
    <3>4. PaidIn(b, OfCollator(c)) = 0
      BY <2>2, <2>4
    <3> QED BY <1>13, <2>1, <3>2, <3>3, <3>4
  <2> QED BY <2>3, <2>4
<1>17. PaidUntil(t, n + 1)
  BY <1>1, <1>10, <1>11, <1>15, <1>16 DEF PaidUntil
<1> QED BY <1>8, <1>9, <1>17

-----------------------------------------------------------------------------
(* The invariant.                                                           *)

\* The search has come to the first block of the original round.
Found ==
    /\ OriginalRound \in DOMAIN chain.rounds /\ originalRoundBlock > 0
    /\ originalRoundBlock = chain.rounds[OriginalRound].first

\* It is always at the first block of a round that is not before that one.
AtARound ==
    \E k \in DOMAIN chain.rounds : OriginalRound <= k /\ originalRoundBlock = chain.rounds[k].first

SearchInv ==
    /\ pc \in {"find", "collect"} /\ Steady => AtARound
    /\ pc = "collect" /\ Steady /\ originalRoundBlock > 0 => Found

StakedAtStart(sv) ==
    LET at == chain.delegated[chain.rounds[OriginalRound].first - 1] IN
    /\ DOMAIN sv = {s.id : s \in ToSet(chain.stake[OriginalRound])}
    /\ chain.queries # {} => \A c \in DOMAIN sv :
          /\ DOMAIN sv[c].delegators = {d \in DOMAIN at : at[d][c] > 0}
          /\ \A d \in DOMAIN sv[c].delegators : sv[c].delegators[d].amount = at[d][c]

ReadInv ==
    pc \in {"wait", "sleep", "check", "commit"} =>
        /\ specVersion = chain.rounds[NowRound].version
        /\ pc # "commit" /\ Steady => Found /\ StakedAtStart(stakedValue)

RoundRow(row) ==
    /\ row.round_id = OriginalRound
    /\ row.start_block_id = chain.rounds[OriginalRound].first
    /\ StakedAtStart(row.collators)

RowsInv ==
    /\ pc # "commit" => trx.rewards = {}
    /\ Steady => \A row \in trx.rewards \union stored.rewards : RoundRow(row)

\* What is known of the blocks that are there.
BlocksInv ==
    /\ pc \notin {"check", "commit"} => checked = 0
    /\ pc \in {"find", "collect", "wait", "sleep", "check"} => latestBlockNumber \in PayoutBlock..head
    /\ pc \in {"sleep", "check"} => maxRoundChecks = MaxRoundChecks
    /\ pc = "check" /\ faults["stall"] = 0 /\ specVersion > 1002 => PayoutBlock + chain.awarded <= head + 1

\* What is known of the payments: those of the blocks that were looked at, and no other,
\* are in the total, and under their collators.
PaymentInv ==
    /\ pc # "commit" => totalRewardedAmount = PaidBy(checked, RewardEvents)
    /\ pc = "check" => PayoutBlock + checked <= head + 1
    /\ pc \in {"wait", "sleep", "check"} /\ Steady =>
          /\ ReadAtStart(stakedValue, delegators)
          /\ checked = 0 => Fresh(stakedValue)
          /\ CollatorsTold => PaidUntil(stakedValue, checked)

PaidRow(row) ==
    /\ row.total_reward = Paid(RewardEvents)
    /\ CollatorsTold => PaidUntil(row.collators, PadTo + 1)

RowsPaid == \A row \in trx.rewards \union stored.rewards : PaidRow(row)

RoundInv ==
    /\ TypeOK /\ IsStaked(stakedValue)
    /\ SearchInv /\ ReadInv /\ RowsInv /\ BlocksInv /\ FailuresHaveACause
    /\ PaymentInv /\ RowsPaid

\* What only the chain tells stays as it is.
LEMMA SameChain ==
    ASSUME chain' = chain
    PROVE  /\ NowRound' = NowRound /\ OriginalRound' = OriginalRound /\ PayoutBlock' = PayoutBlock
           /\ LastBlock' = LastBlock /\ (Steady' <=> Steady)
           /\ \A sv : StakedAtStart(sv)' <=> StakedAtStart(sv)
           /\ \A row : RoundRow(row)' <=> RoundRow(row)
BY DEF NowRound, OriginalRound, RewardDelay, PayoutBlock, LastBlock, Steady, StakedAtStart, RoundRow

LEMMA SamePayments ==
    ASSUME chain' = chain
    PROVE  /\ RewardEvents' = RewardEvents /\ (CollatorsTold' <=> CollatorsTold)
           /\ \A n, events : PaidBy(n, events)' = PaidBy(n, events)
           /\ \A sv, n : PaidUntil(sv, n)' <=> PaidUntil(sv, n)
           /\ \A sv, ds : ReadAtStart(sv, ds)' <=> ReadAtStart(sv, ds)
           /\ \A row : PaidRow(row)' <=> PaidRow(row)
<1>1. /\ NowRound' = NowRound /\ OriginalRound' = OriginalRound /\ PayoutBlock' = PayoutBlock
      /\ (Steady' <=> Steady)
  BY SameChain
<1>2. RewardEvents' = RewardEvents
  BY DEF RewardEvents
<1>3. CollatorsTold' <=> CollatorsTold
  BY <1>1 DEF CollatorsTold
<1>4. \A b, events : PaidIn(b, events)' = PaidIn(b, events)
  <2>1. \A b : EventsAt(b)' = EventsAt(b)
    BY DEF EventsAt
  <2>2. ASSUME NEW b, NEW events PROVE PaidIn(b, events)' = PaidIn(b, events)
    <3>1. PICK evs : evs = EventsAt(b) /\ evs = EventsAt(b)'
      BY <2>1
    <3>2. PaidIn(b, events) = SumOver(Len(evs), AmountsIn(evs, events))
      BY <3>1 DEF PaidIn, AmountsIn
    <3>3. PaidIn(b, events)' = SumOver(Len(evs), AmountsIn(evs, events))
      BY <3>1 DEF PaidIn, AmountsIn, SumOver
    <3> QED BY <3>2, <3>3
  <2> QED BY <2>2
<1>5. \A events : ByBlock(events)' = ByBlock(events)
  BY <1>1, <1>4 DEF ByBlock
<1>6. \A n, events : PaidBy(n, events)' = PaidBy(n, events)
  BY <1>5 DEF PaidBy, SumOver
<1>7. \A events : Paid(events)' = Paid(events)
  <2>1. \A events : Paid(events) = PaidBy(PadTo + 1, events)
    BY DEF Paid, PaidBy, ByBlock
  <2>2. \A events : Paid(events)' = PaidBy(PadTo + 1, events)'
    BY DEF Paid, PaidBy, ByBlock
  <2> QED BY <1>6, <2>1, <2>2
<1>8. \A c : OfCollator(c)' = OfCollator(c)
  BY <1>2 DEF OfCollator
<1>9. \A c, d : DueTo(c, d)' = DueTo(c, d)
  BY <1>8 DEF DueTo
<1>10. \A sv, d : Doubtful(sv, d)' <=> Doubtful(sv, d)
  BY <1>1 DEF Doubtful
<1>11. \A sv, n : PaidUntil(sv, n)' <=> PaidUntil(sv, n)
  BY <1>1, <1>6, <1>8, <1>9, <1>10 DEF PaidUntil
<1>12. \A s, prior : TopDelegations(s, prior)' = TopDelegations(s, prior)
  BY DEF TopDelegations, InTop
<1>13. \A sv, ds : ReadAtStart(sv, ds)' <=> ReadAtStart(sv, ds)
  BY <1>1, <1>12 DEF ReadAtStart, Originals
<1>14. \A row : PaidRow(row)' <=> PaidRow(row)
  BY <1>2, <1>3, <1>7, <1>11 DEF PaidRow
<1> QED BY <1>2, <1>3, <1>6, <1>11, <1>13, <1>14

\* A step that looks at no block and reads nothing of what is staked.
LEMMA PaymentsStay ==
    ASSUME PaymentInv, chain' = chain, UNCHANGED <<totalRewardedAmount, checked>>,
           pc' = "commit" \/ pc # "commit",
           pc' = "check" => PayoutBlock + checked <= head' + 1,
           pc' \in {"wait", "sleep", "check"} =>
              pc \in {"wait", "sleep", "check"} /\ UNCHANGED <<stakedValue, delegators>>
    PROVE  PaymentInv'
<1>1. PayoutBlock' = PayoutBlock /\ (Steady' <=> Steady)
  BY SameChain
<1>2. /\ RewardEvents' = RewardEvents /\ (CollatorsTold' <=> CollatorsTold)
      /\ \A n, events : PaidBy(n, events)' = PaidBy(n, events)
      /\ \A sv, n : PaidUntil(sv, n)' <=> PaidUntil(sv, n)
      /\ \A sv, ds : ReadAtStart(sv, ds)' <=> ReadAtStart(sv, ds)
  BY SamePayments
<1>3. pc' # "commit" => totalRewardedAmount' = PaidBy(checked, RewardEvents)'
  BY <1>2 DEF PaymentInv
<1>4. pc' = "check" => PayoutBlock' + checked' <= head' + 1
  BY <1>1
<1>5. ASSUME pc' \in {"wait", "sleep", "check"}, Steady
      PROVE  /\ ReadAtStart(stakedValue, delegators)'
             /\ checked' = 0 => Fresh(stakedValue)'
             /\ CollatorsTold' => PaidUntil(stakedValue, checked)'
  <2>1. pc \in {"wait", "sleep", "check"} /\ stakedValue' = stakedValue /\ delegators' = delegators
    BY <1>5
  <2>2. /\ ReadAtStart(stakedValue, delegators)
        /\ checked = 0 => Fresh(stakedValue)
        /\ CollatorsTold => PaidUntil(stakedValue, checked)
    BY <1>5, <2>1 DEF PaymentInv
  <2> QED BY <1>2, <2>1, <2>2 DEF Fresh
<1> QED BY <1>1, <1>3, <1>4, <1>5 DEF PaymentInv

\* A new object has counted nothing.
LEMMA NothingCounted ==
    ASSUME chain' = chain, totalRewardedAmount' = 0, checked' = 0,
           pc' \notin {"wait", "sleep", "check"}
    PROVE  PaymentInv'
<1>1. PaidBy(0, RewardEvents) = 0
  BY SumOverStep DEF PaidBy
<1>2. PaidBy(checked, RewardEvents)' = 0
  BY <1>1, SamePayments
<1> QED BY <1>2 DEF PaymentInv

LEMMA RoundOfFirst ==
    ASSUME TypeOK, NEW k \in DOMAIN chain.rounds
    PROVE  RoundAt(chain.rounds[k].first) = k
<1>1. PICK b : b = chain.rounds[k].first
  OBVIOUS
<1>2. /\ DOMAIN chain.rounds = 1..NowRound /\ NowRound \in Nat
      /\ \A j \in DOMAIN chain.rounds : chain.rounds[j].first \in Nat
      /\ \A i, j \in DOMAIN chain.rounds : i < j => chain.rounds[i].first < chain.rounds[j].first
  BY ChainFacts, RoundFacts DEF RoundsInOrder
<1>3. \A j \in DOMAIN chain.rounds : chain.rounds[j].first <= b => j <= k
  <2> SUFFICES ASSUME NEW j \in DOMAIN chain.rounds, k < j PROVE ~ (chain.rounds[j].first <= b)
    BY <1>2
  <2> QED BY <1>1, <1>2
<1>4. chain.rounds[k].first <= b
  BY <1>1, <1>2
<1>5. ASSUME NEW j \in DOMAIN chain.rounds, chain.rounds[j].first <= b,
             \A i \in DOMAIN chain.rounds : chain.rounds[i].first <= b => i <= j
      PROVE  j = k
  <2>1. j <= k /\ k <= j
    BY <1>3, <1>4, <1>5
  <2> QED BY <1>2, <2>1
<1> QED BY <1>1, <1>3, <1>4, <1>5 DEF RoundAt

\* Every block is in some round.
LEMMA RoundsReach ==
    ASSUME TypeOK, NEW b \in Nat
    PROVE  RoundAt(b) \in DOMAIN chain.rounds
<1>1. /\ DOMAIN chain.rounds = 1..NowRound /\ NowRound \in Nat \ {0} /\ chain.rounds[1].first = 0
  BY ChainFacts, RoundFacts DEF RoundsInOrder
<1> DEFINE S == {j \in DOMAIN chain.rounds : chain.rounds[j].first <= b}
<1>2. PICK k \in S : \A j \in S : j <= k
  <2> DEFINE T == {n \in Nat : NowRound - n \in S}
  <2>1. NowRound - 1 \in T
    BY <1>1
  <2> HIDE DEF S
  <2>2. T \subseteq Nat /\ T # {}
    BY <2>1
  <2>3. PICK n \in T : \A m \in T : <<m, n>> \notin OpToRel(<, Nat)
    <3> HIDE DEF T
    <3> QED BY <2>2, NatLessThanWellFounded, WFMin
  <2>4. ASSUME NEW j \in S PROVE j <= NowRound - n
    <3>1. j \in 1..NowRound
      BY <1>1 DEF S
    <3>2. PICK m : m = NowRound - j /\ m \in T
      BY <1>1, <2>4, <3>1
    <3>3. m \in Nat /\ n \in Nat
      BY <2>3, <3>2
    <3>4. <<m, n>> \notin OpToRel(<, Nat)
      BY <2>3, <3>2
    <3>5. ~ (m < n)
      BY <3>3, <3>4 DEF OpToRel
    <3> QED BY <1>1, <3>1, <3>2, <3>3, <3>5
  <2> QED BY <2>3, <2>4
<1> QED BY <1>2 DEF RoundAt

LEMMA RoundInvInit == Init => RoundInv
<1> SUFFICES ASSUME Init PROVE RoundInv
  OBVIOUS
<1>1. chain \in Chains /\ RoundsInOrder(chain.rounds) /\ NowRound \in DOMAIN chain.rounds
  BY RoundAssumption DEF Init, RoundsInOrder, NowRound
<1>2. PayoutBlock \in Nat
  BY <1>1 DEF RoundsInOrder, PayoutBlock
<1>3. head \in PayoutBlock..LastBlock
  BY <1>2, RoundAssumption DEF Init, LastBlock
<1>4. TypeOK
  BY <1>1, <1>3 DEF Init, TypeOK, Pc, Errors
<1>5. PaymentInv /\ RowsPaid
  <2>1. PaidBy(0, RewardEvents) = 0
    BY SumOverStep DEF PaidBy
  <2> QED BY <2>1 DEF Init, PaymentInv, RowsPaid, NoRows
<1> QED BY <1>4, <1>5 DEF Init, RoundInv, IsStaked, SearchInv, ReadInv, RowsInv, BlocksInv, FailuresHaveACause, NoRows

-----------------------------------------------------------------------------
(* An attempt that fails.                                                   *)

LEMMA ThrowKeeps ==
    ASSUME RoundInv, NEW why \in Errors, Throw(why), faults' \in [FaultKind -> Nat],
           faults["stall"] <= faults'["stall"],
           why = "missing_block" =>
              \/ faults["stall"] > 0
              \/ chain.rounds[NowRound].version >= 2000 /\ chain.awarded = PadFrom /\ PadFrom < PadTo,
           why = "first_rounds" => OriginalRound <= 1 \/ ~ Steady,
           why = "not_an_option" => chain.rounds[OriginalRound].version # chain.rounds[NowRound].version,
           why = "no_collator" => ~ CollatorsTold
    PROVE  RoundInv'
<1>1. chain' = chain /\ head' = head /\ stored' = stored /\ pc' = "idle" /\ error' = why
  BY DEF Throw
<1>2. /\ specVersion' = 0 /\ stakedValue' = <<>> /\ delegators' = {} /\ totalRewardedAmount' = 0
      /\ latestBlockNumber' = 0 /\ originalRoundBlock' = 0 /\ maxRoundChecks' = 0 /\ checked' = 0
  BY DEF Throw, NewObject
<1>3. PayoutBlock' = PayoutBlock /\ LastBlock' = LastBlock
  BY <1>1, SameChain
<1>4. TypeOK'
  BY <1>1, <1>2, <1>3 DEF RoundInv, TypeOK, Pc
<1>5. IsStaked(stakedValue)'
  BY <1>2 DEF IsStaked
<1>6. SearchInv' /\ ReadInv' /\ BlocksInv'
  BY <1>1, <1>2 DEF SearchInv, ReadInv, BlocksInv
<1>7. RowsInv'
  <2>1. trx'.rewards = {}
    BY DEF Throw, NoRows
  <2> QED BY <1>1, <2>1, SameChain DEF RoundInv, RowsInv
<1>8. FailuresHaveACause'
  <2>1. faults["stall"] \in Nat /\ faults'["stall"] \in Nat
    BY DEF RoundInv, TypeOK, FaultKind
  <2> QED BY <1>1, <2>1, SameChain, SamePayments DEF FailuresHaveACause
<1>9. PaymentInv'
  BY <1>1, <1>2, NothingCounted
<1>10. RowsPaid'
  <2>1. trx'.rewards = {}
    BY DEF Throw, NoRows
  <2> QED BY <1>1, <2>1, SamePayments DEF RoundInv, RowsPaid
<1> QED BY <1>4, <1>5, <1>6, <1>7, <1>8, <1>9, <1>10 DEF RoundInv

LEMMA FailKeeps == ASSUME RoundInv, Fail PROVE RoundInv'
<1>1. Throw("fault") /\ Fault("failure")
  BY DEF Fail
<1>2. faults' \in [FaultKind -> Nat] /\ faults["stall"] <= faults'["stall"]
  BY <1>1 DEF Fault, RoundInv, TypeOK, FaultKind
<1>3. "fault" \in Errors
  BY DEF Errors
<1> QED BY <1>1, <1>2, <1>3, ThrowKeeps

LEMMA StallsStay ==
    ASSUME RoundInv, UNCHANGED faults
    PROVE  faults' \in [FaultKind -> Nat] /\ faults["stall"] <= faults'["stall"]
BY DEF RoundInv, TypeOK, FaultKind

\* Only the first rounds are searched for in vain, while rounds keep their length.
LEMMA FirstRoundsKeeps == ASSUME RoundInv, FirstRounds PROVE RoundInv'
<1>1. pc = "collect" /\ originalRoundBlock = 0 /\ Throw("first_rounds") /\ UNCHANGED faults
  BY DEF FirstRounds
<1>2. OriginalRound <= 1 \/ ~ Steady
  <2> SUFFICES ASSUME Steady PROVE OriginalRound <= 1
    OBVIOUS
  <2>1. PICK k \in DOMAIN chain.rounds : OriginalRound <= k /\ chain.rounds[k].first = 0
    BY <1>1 DEF RoundInv, SearchInv, AtARound
  <2>2. /\ DOMAIN chain.rounds = 1..NowRound /\ NowRound \in Nat \ {0} /\ OriginalRound \in Int
        /\ chain.rounds[1].first = 0
        /\ 1 < k => chain.rounds[1].first < chain.rounds[k].first
    BY ChainFacts, RoundFacts DEF RoundInv, RoundsInOrder
  <2>3. k = 1
    BY <2>1, <2>2
  <2> QED BY <2>1, <2>3
<1>3. "first_rounds" \in Errors
  BY DEF Errors
<1> QED BY <1>1, <1>2, <1>3, StallsStay, ThrowKeeps

LEMMA NotReadableKeeps == ASSUME RoundInv, NotReadable PROVE RoundInv'
<1>1. NotAnOption(OriginalRound, originalRoundBlock) /\ Throw("not_an_option") /\ UNCHANGED faults
  BY DEF NotReadable
<1>2. PICK k : k = OriginalRound
  OBVIOUS
<1>3. chain.rounds[k].version < 2600 /\ chain.rounds[NowRound].version >= 2600
  BY <1>1, <1>2 DEF NotAnOption
<1>4. AtStake(k, originalRoundBlock) # <<>>
  BY <1>1, <1>2 DEF NotAnOption
<1>5. chain.rounds[k].version # chain.rounds[NowRound].version
  <2> SUFFICES ASSUME chain.rounds[k].version = chain.rounds[NowRound].version PROVE FALSE
    OBVIOUS
  <2>1. chain.rounds[NowRound].version \in Nat
    BY RoundFacts DEF RoundInv
  <2> QED BY <1>3, <2>1
<1>6. "not_an_option" \in Errors
  BY DEF Errors
<1> QED BY <1>1, <1>2, <1>5, <1>6, StallsStay, ThrowKeeps

\* The next block: what it pays is found under its collators, where the code can tell.
LEMMA BlockIsPaid ==
    ASSUME RoundInv, pc = "check", checked < maxRoundChecks, NextBlock <= head, ~ OrbiterUnknown(NextBlock)
    PROVE  /\ checked \in 0..PadTo /\ specVersion = chain.rounds[NowRound].version
           /\ Steady => ReadyFor(NextBlock)
           /\ CollatorsTold =>
                 ~ Rewarded(NextBlock).lost /\ PaidUntil(Rewarded(NextBlock).staked, checked + 1)
<1>1. PICK n, b : n = checked /\ b = NextBlock /\ b = PayoutBlock + n
  BY DEF NextBlock
<1>2. TypeOK /\ PayoutBlock \in Nat /\ PadTo \in Nat /\ head \in PayoutBlock..PayoutBlock + PadTo
  BY RoundFacts, RoundAssumption DEF RoundInv, TypeOK, LastBlock
<1>3. n \in 0..PadTo
  BY <1>1, <1>2 DEF TypeOK
<1>4. specVersion = chain.rounds[NowRound].version /\ maxRoundChecks = MaxRoundChecks /\ IsStaked(stakedValue)
  BY DEF RoundInv, ReadInv, BlocksInv
<1>5. ASSUME Steady PROVE ReadyFor(b)
  <2>1. ReadAtStart(stakedValue, delegators)
    BY <1>5 DEF RoundInv, PaymentInv
  <2> QED BY <1>1, <1>2, <1>4, <2>1 DEF ReadyFor
<1>6. ASSUME CollatorsTold PROVE ~ Rewarded(b).lost /\ PaidUntil(Rewarded(b).staked, n + 1)
  <2>1. Steady
    BY <1>6 DEF CollatorsTold
  <2>2. (n = 0 => Fresh(stakedValue)) /\ PaidUntil(stakedValue, n)
    BY <1>1, <1>6, <2>1 DEF RoundInv, PaymentInv
  <2>3. specVersion <= 900 => n = 0
    <3>1. specVersion \in Nat
      BY <1>2 DEF TypeOK
    <3>2. specVersion <= 900 => MaxRoundChecks = 1
      BY <3>1 DEF MaxRoundChecks
    <3> QED BY <1>1, <1>3, <1>4, <3>2
  <2>4. specVersion <= 900 => Fresh(stakedValue)
    BY <2>2, <2>3
  <2>5. ReadyFor(b)
    BY <1>5, <2>1
  <2>6. PaidUntil(stakedValue, n)
    BY <2>2
  <2> QED BY <1>1, <1>3, <1>4, <1>6, <2>4, <2>5, <2>6, PaidNext
<1> QED BY <1>1, <1>3, <1>4, <1>5, <1>6

\* A block that is not there yet is met only when the sleep was too short for it.
LEMMA FailBlockKeeps == ASSUME RoundInv, FailBlock PROVE RoundInv'
<1>1. pc = "check" /\ checked < maxRoundChecks /\ UNCHANGED faults
  BY DEF FailBlock, MoreToCheck
<1>2. CASE NextBlock > head /\ Throw("missing_block")
  <2>1. \/ faults["stall"] > 0
        \/ chain.rounds[NowRound].version >= 2000 /\ chain.awarded = PadFrom /\ PadFrom < PadTo
    <3> SUFFICES ASSUME faults["stall"] = 0
                 PROVE  chain.rounds[NowRound].version >= 2000 /\ chain.awarded = PadFrom /\ PadFrom < PadTo
      BY DEF RoundInv, TypeOK, FaultKind
    <3>1. PICK v, n, a, x, k, f : /\ v = chain.rounds[NowRound].version /\ n = maxRoundChecks
                                  /\ a = chain.awarded /\ x = head /\ k = checked /\ f = PayoutBlock
      OBVIOUS
    <3>2. v \in Nat /\ n \in Nat /\ a \in Nat /\ x \in Nat /\ k \in Nat /\ f \in Nat /\ f <= x
      BY <3>1, RoundFacts, ChainFacts DEF RoundInv, TypeOK
    <3>3. specVersion = v /\ maxRoundChecks = MaxRoundChecks
      BY <1>1, <3>1 DEF RoundInv, ReadInv, BlocksInv
    <3>4. n = IF v <= 1002 THEN 1 ELSE IF v >= 2000 /\ a = PadFrom THEN PadTo ELSE a
      BY <3>1, <3>3 DEF MaxRoundChecks
    <3>5. f + k > x /\ k < n
      BY <1>1, <1>2, <3>1 DEF NextBlock
    <3>6. v > 1002 => f + a <= x + 1
      BY <1>1, <3>1, <3>3 DEF RoundInv, BlocksInv
    <3>7. v > 1002
      BY <3>2, <3>4, <3>5
    <3>8. ~ (n <= a)
      BY <3>2, <3>5, <3>6, <3>7
    <3>9. v >= 2000 /\ a = PadFrom /\ n = PadTo
      BY <3>2, <3>4, <3>7, <3>8
    <3>10. PadFrom < PadTo
      BY <3>2, <3>8, <3>9, RoundAssumption
    <3> QED BY <3>1, <3>9, <3>10
  <2>2. "missing_block" \in Errors
    BY DEF Errors
  <2> QED BY <1>1, <1>2, <2>1, <2>2, StallsStay, ThrowKeeps
<1>3. CASE Throw("no_orbiter")
  <2>1. "no_orbiter" \in Errors
    BY DEF Errors
  <2> QED BY <1>1, <1>3, <2>1, StallsStay, ThrowKeeps
<1>4. CASE NextBlock <= head /\ ~ OrbiterUnknown(NextBlock) /\ Rewarded(NextBlock).lost /\ Throw("no_collator")
  <2>1. "no_collator" \in Errors
    BY DEF Errors
  <2>2. ~ CollatorsTold
    BY <1>1, <1>4, BlockIsPaid
  <2> QED BY <1>1, <1>4, <2>1, <2>2, StallsStay, ThrowKeeps
<1> QED BY <1>2, <1>3, <1>4 DEF FailBlock

-----------------------------------------------------------------------------
(* The steps of an attempt.                                                 *)

\* What a step has to say for itself when it goes on with the chain as it was, and
\* neither ends an attempt nor commits.
LEMMA GoesOn ==
    ASSUME RoundInv, UNCHANGED <<chain, stored>>, trx'.rewards = trx.rewards, pc # "commit", pc' # "commit",
           error' = error \/ error' = "none", faults' \in [FaultKind -> Nat],
           faults["stall"] <= faults'["stall"],
           TypeOK', IsStaked(stakedValue)', SearchInv', ReadInv', BlocksInv', PaymentInv'
    PROVE  RoundInv'
<1>1. RowsInv'
  <2>1. trx.rewards = {} /\ (Steady => \A row \in trx.rewards \union stored.rewards : RoundRow(row))
    BY DEF RoundInv, RowsInv
  <2> QED BY <2>1, SameChain DEF RowsInv
<1>2. FailuresHaveACause'
  <2>1. faults["stall"] \in Nat /\ faults'["stall"] \in Nat
    BY DEF RoundInv, TypeOK, FaultKind
  <2>2. FailuresHaveACause
    BY DEF RoundInv
  <2>3. CASE error' = "none"
    BY <2>3 DEF FailuresHaveACause
  <2>4. CASE error' = error
    BY <2>1, <2>2, <2>4, SameChain, SamePayments DEF FailuresHaveACause
  <2> QED BY <2>3, <2>4
<1>3. RowsPaid'
  BY SamePayments DEF RoundInv, RowsPaid
<1> QED BY <1>1, <1>2, <1>3 DEF RoundInv

LEMMA ProcessTaskMessageKeeps == ASSUME RoundInv, ProcessTaskMessage PROVE RoundInv'
<1>1. /\ pc = "idle" /\ pc' = "stake" /\ error' = "none"
      /\ UNCHANGED <<chain, head, object, locals, trx, stored, faults>>
  BY DEF ProcessTaskMessage, Goto
<1>2. PayoutBlock' = PayoutBlock /\ LastBlock' = LastBlock
  BY <1>1, SameChain
<1>3. TypeOK' /\ IsStaked(stakedValue)'
  BY <1>1, <1>2 DEF RoundInv, TypeOK, IsStaked, object, locals, Pc, Errors
<1>4. SearchInv' /\ ReadInv' /\ BlocksInv'
  BY <1>1 DEF RoundInv, SearchInv, ReadInv, BlocksInv, locals
<1>5. PaymentInv'
  BY <1>1, PaymentsStay DEF RoundInv, object, locals
<1> QED BY <1>1, <1>3, <1>4, <1>5, StallsStay, GoesOn

\* What was staked, as it was read: the delegations and amounts of one entry each.
ReadFrom(sv, entries, prior) ==
    /\ DOMAIN sv = {s.id : s \in entries}
    /\ \A c \in DOMAIN sv : \E s \in entries :
          /\ s.id = c
          /\ DOMAIN sv[c].delegators = TopDelegations(s, prior)
          /\ \A d \in TopDelegations(s, prior) : sv[c].delegators[d].amount = Amount(s, d, prior)

LEMMA StakeAsRead ==
    ASSUME NEW k, NEW b, NEW prior, GetCollatorsAndDelegators(k, b, prior)
    PROVE  /\ ReadFrom(stakedValue', ToSet(AtStake(k, b)), prior)
           /\ \A c \in DOMAIN stakedValue' : /\ IsCollector(stakedValue'[c])
                                             /\ DOMAIN stakedValue'[c].delegators \subseteq delegators'
                                             /\ stakedValue'[c].rewardTotal = 0
           /\ Fresh(stakedValue')
           /\ \A d \in delegators' : \E s \in ToSet(AtStake(k, b)) : d \in DOMAIN s.delegations
<1>1. PICK E, ids : E = ToSet(AtStake(k, b)) /\ ids = {s.id : s \in E}
  OBVIOUS
<1>2. /\ stakedValue' = [c \in ids |-> Collector(CHOOSE s \in E : s.id = c, prior)]
      /\ delegators' = UNION {TopDelegations(s, prior) : s \in E}
  BY <1>1 DEF GetCollatorsAndDelegators
<1>3. ASSUME NEW c \in ids
      PROVE  /\ IsCollector(stakedValue'[c])
             /\ DOMAIN stakedValue'[c].delegators \subseteq delegators'
             /\ stakedValue'[c].rewardTotal = 0
             /\ \A d \in DOMAIN stakedValue'[c].delegators : stakedValue'[c].delegators[d].reward = 0
             /\ \E s \in E : /\ s.id = c
                              /\ DOMAIN stakedValue'[c].delegators = TopDelegations(s, prior)
                              /\ \A d \in TopDelegations(s, prior) :
                                    stakedValue'[c].delegators[d].amount = Amount(s, d, prior)
  <2>1. PICK s : s = CHOOSE z \in E : z.id = c
    OBVIOUS
  <2>2. s \in E /\ s.id = c
    BY <1>1, <1>3, <2>1
  <2>3. PICK x : x = stakedValue'[c]
    OBVIOUS
  <2>4. x = Collector(s, prior)
    BY <1>2, <1>3, <2>1, <2>3
  <2>5. PICK T, ds : /\ T = TopDelegations(s, prior)
                     /\ ds = [d \in T |-> [final_amount |-> s.delegations[d],
                                           amount |-> Amount(s, d, prior), reward |-> 0]]
    OBVIOUS
  <2>6. x = [bond |-> s.bond, total |-> s.total, rewardTotal |-> 0, rewardCollator |-> 0, payoutBlockId |-> 0,
             delegators |-> ds]
    BY <2>4, <2>5 DEF Collector
  <2>7. IsCollector(x)
    BY <2>5, <2>6 DEF IsCollector
  <2>8. DOMAIN x.delegators = T /\ \A d \in T : x.delegators[d].amount = Amount(s, d, prior)
    BY <2>5, <2>6
  <2>9. T \subseteq delegators'
    BY <1>2, <2>2, <2>5
  <2>10. x.rewardTotal = 0 /\ \A d \in DOMAIN x.delegators : x.delegators[d].reward = 0
    BY <2>5, <2>6
  <2> QED BY <2>2, <2>3, <2>5, <2>7, <2>8, <2>9, <2>10
<1>4. DOMAIN stakedValue' = ids
  BY <1>2
<1>5. ReadFrom(stakedValue', E, prior)
  BY <1>1, <1>3, <1>4 DEF ReadFrom
<1>6. Fresh(stakedValue')
  BY <1>3, <1>4 DEF Fresh
<1>7. \A d \in delegators' : \E s \in E : d \in DOMAIN s.delegations
  BY <1>2 DEF TopDelegations
<1> QED BY <1>1, <1>3, <1>4, <1>5, <1>6, <1>7

LEMMA ProcessStakeRoundKeeps == ASSUME RoundInv, ProcessStakeRound PROVE RoundInv'
<1>1. /\ pc = "stake" /\ pc' = "head" /\ specVersion' = chain.rounds[NowRound].version
      /\ GetCollatorsAndDelegators(NowRound, PayoutBlock, PayoutBlock)
      /\ UNCHANGED <<chain, head, totalRewardedAmount, locals, stored, error, faults>>
  BY DEF ProcessStakeRound, Goto
<1>2. trx'.rewards = trx.rewards
  BY DEF ProcessStakeRound, RoundInv, TypeOK
<1>3. PayoutBlock' = PayoutBlock /\ LastBlock' = LastBlock
  BY <1>1, SameChain
<1>4. \A c \in DOMAIN stakedValue' : IsCollector(stakedValue'[c]) /\ DOMAIN stakedValue'[c].delegators \subseteq delegators'
  BY <1>1, StakeAsRead
<1>5. chain.rounds[NowRound].version \in Nat
  BY RoundFacts DEF RoundInv
<1>6. IsStaked(stakedValue)'
  BY <1>4 DEF IsStaked, IsCollector
<1>7. TypeOK'
  BY <1>1, <1>3, <1>4, <1>5 DEF RoundInv, TypeOK, locals, Pc, IsCollector
<1>8. SearchInv' /\ ReadInv' /\ BlocksInv'
  BY <1>1 DEF RoundInv, SearchInv, ReadInv, BlocksInv, locals
<1>9. PaymentInv'
  BY <1>1, PaymentsStay DEF RoundInv, locals
<1> QED BY <1>1, <1>2, <1>6, <1>7, <1>8, <1>9, StallsStay, GoesOn

LEMMA ReadHeadKeeps == ASSUME RoundInv, ReadHead PROVE RoundInv'
<1>1. /\ pc = "head" /\ pc' = "find" /\ NewObject /\ latestBlockNumber' = head /\ originalRoundBlock' = PayoutBlock
      /\ UNCHANGED <<chain, head, maxRoundChecks, checked, trx, stored, error, faults>>
  BY DEF ReadHead, Goto
<1>2. /\ PayoutBlock' = PayoutBlock /\ LastBlock' = LastBlock /\ OriginalRound' = OriginalRound
  BY <1>1, SameChain
<1>3. /\ NowRound \in DOMAIN chain.rounds /\ PayoutBlock = chain.rounds[NowRound].first
      /\ OriginalRound <= NowRound /\ PayoutBlock \in Nat /\ head \in Nat /\ PayoutBlock <= head
  BY RoundFacts DEF RoundInv
<1>4. stakedValue' = <<>> /\ delegators' = {} /\ specVersion' = 0 /\ totalRewardedAmount' = 0
  BY <1>1 DEF NewObject
<1>5. TypeOK' /\ IsStaked(stakedValue)'
  BY <1>1, <1>2, <1>3, <1>4 DEF RoundInv, TypeOK, Pc, IsStaked
<1>6. SearchInv'
  <2>1. NowRound \in DOMAIN chain'.rounds /\ OriginalRound' <= NowRound
        /\ originalRoundBlock' = chain'.rounds[NowRound].first
    BY <1>1, <1>2, <1>3
  <2>2. AtARound'
    BY <2>1 DEF AtARound
  <2> QED BY <1>1, <2>2 DEF SearchInv
<1>7. ReadInv' /\ BlocksInv'
  BY <1>1, <1>2, <1>3 DEF RoundInv, ReadInv, BlocksInv
<1>8. PaymentInv'
  <2>1. checked = 0
    BY <1>1 DEF RoundInv, BlocksInv
  <2> QED BY <1>1, <1>4, <2>1, NothingCounted
<1> QED BY <1>1, <1>5, <1>6, <1>7, <1>8, StallsStay, GoesOn

\* Back by the length of a round is back to the first block of the one before it.
LEMMA FindOriginalRoundKeeps == ASSUME RoundInv, FindOriginalRound PROVE RoundInv'
<1>1. PICK round, length : round = RoundAt(originalRoundBlock) /\ length = chain.rounds[round].length
  OBVIOUS
<1>2. /\ pc = "find"
      /\ UNCHANGED <<chain, head, object, latestBlockNumber, maxRoundChecks, checked, trx, stored, error, faults>>
      /\ \/ /\ round # OriginalRound /\ originalRoundBlock >= length
            /\ originalRoundBlock' = originalRoundBlock - length /\ pc' = "find"
         \/ /\ round = OriginalRound \/ originalRoundBlock < length
            /\ pc' = "collect" /\ originalRoundBlock' = originalRoundBlock
  BY <1>1 DEF FindOriginalRound
<1>3. /\ PayoutBlock' = PayoutBlock /\ LastBlock' = LastBlock /\ OriginalRound' = OriginalRound
      /\ (Steady' <=> Steady)
  BY <1>2, SameChain
<1>4. RoundAt(originalRoundBlock) \in DOMAIN chain.rounds
  <2>1. originalRoundBlock \in Nat
    BY DEF RoundInv, TypeOK
  <2> QED BY <2>1, RoundsReach DEF RoundInv
<1>5. length \in Nat \ {0} /\ originalRoundBlock \in Nat
  BY <1>1, <1>4, ChainFacts DEF RoundInv, RoundsInOrder, TypeOK
<1>6. originalRoundBlock' \in Nat
  BY <1>2, <1>5
<1>7. TypeOK' /\ IsStaked(stakedValue)'
  BY <1>2, <1>3, <1>6 DEF RoundInv, TypeOK, Pc, IsStaked, object
<1>8. ReadInv' /\ BlocksInv'
  BY <1>2, <1>3 DEF RoundInv, ReadInv, BlocksInv
<1>9. SearchInv'
  <2> SUFFICES ASSUME Steady PROVE AtARound' /\ (pc' = "collect" /\ originalRoundBlock' > 0 => Found')
    BY <1>3 DEF SearchInv
  <2>1. PICK k \in DOMAIN chain.rounds : OriginalRound <= k /\ originalRoundBlock = chain.rounds[k].first
    BY <1>2 DEF RoundInv, SearchInv, AtARound
  <2>2. round = k
    BY <1>1, <2>1, RoundOfFirst DEF RoundInv
  <2>3. /\ DOMAIN chain.rounds = 1..NowRound /\ NowRound \in Nat \ {0} /\ OriginalRound \in Int
        /\ chain.rounds[1].first = 0 /\ OriginalRound < NowRound /\ k \in Nat
    BY <2>1, ChainFacts, RoundFacts DEF RoundInv, RoundsInOrder
  <2>4. ASSUME k > 1, OriginalRound < k
        PROVE  chain.rounds[k].first = chain.rounds[k - 1].first + length
    <3>1. k - 1 \in DOMAIN chain.rounds /\ k - 1 \in OriginalRound..NowRound - 1 /\ (k - 1) + 1 = k
      BY <2>1, <2>3, <2>4
    <3>2. /\ chain.rounds[k - 1].length = chain.rounds[NowRound].length
          /\ chain.rounds[k].first = chain.rounds[k - 1].first + chain.rounds[k - 1].length
      BY <3>1 DEF Steady
    <3>3. chain.rounds[k].length = chain.rounds[NowRound].length
      <4>1. CASE k = NowRound
        BY <4>1
      <4>2. CASE k # NowRound
        <5>1. k \in OriginalRound..NowRound - 1
          BY <2>1, <2>3, <4>2
        <5> QED BY <2>1, <5>1 DEF Steady
      <4> QED BY <4>1, <4>2
    <3> QED BY <1>1, <2>2, <3>2, <3>3
  <2>5. CASE pc' = "find"
    <3>1. round # OriginalRound /\ originalRoundBlock >= length /\ originalRoundBlock' = originalRoundBlock - length
      BY <1>2, <2>5
    <3>2. k > 1
      BY <1>5, <2>1, <2>3, <3>1
    <3>3. OriginalRound < k
      BY <2>1, <2>2, <2>3, <3>1
    <3>4. k - 1 \in DOMAIN chain.rounds /\ OriginalRound <= k - 1
      BY <2>3, <3>2, <3>3, <2>1
    <3>5. chain.rounds[k - 1].first \in Nat
      BY <3>4, ChainFacts DEF RoundInv, RoundsInOrder
    <3>6. originalRoundBlock' = chain.rounds[k - 1].first
      BY <1>5, <2>1, <2>4, <3>1, <3>2, <3>3, <3>5
    <3>7. AtARound'
      BY <1>2, <1>3, <3>4, <3>6 DEF AtARound
    <3> QED BY <2>5, <3>7
  <2>6. CASE pc' = "collect"
    <3>1. originalRoundBlock' = originalRoundBlock /\ (round = OriginalRound \/ originalRoundBlock < length)
      BY <1>2, <2>6
    <3>2. AtARound'
      BY <1>2, <1>3, <2>1, <3>1 DEF AtARound
    <3>3. ASSUME originalRoundBlock > 0 PROVE k = OriginalRound
      <4> SUFFICES ASSUME k # OriginalRound PROVE FALSE
        OBVIOUS
      <4>1. OriginalRound < k /\ originalRoundBlock < length
        BY <2>1, <2>2, <2>3, <3>1
      <4>2. k > 1
        BY <2>1, <2>3, <3>3
      <4>3. chain.rounds[k - 1].first \in Nat
        <5>1. k - 1 \in DOMAIN chain.rounds
          BY <2>1, <2>3, <4>2
        <5> QED BY <5>1, ChainFacts DEF RoundInv, RoundsInOrder
      <4> QED BY <1>5, <2>1, <2>4, <4>1, <4>2, <4>3
    <3>4. originalRoundBlock > 0 => Found'
      BY <1>2, <1>3, <2>1, <3>1, <3>3 DEF Found
    <3> QED BY <3>1, <3>2, <3>4
  <2> QED BY <1>2, <2>5, <2>6
<1>10. PaymentInv'
  BY <1>2, PaymentsStay DEF RoundInv, object
<1> QED BY <1>2, <1>7, <1>8, <1>9, <1>10, StallsStay, GoesOn

\* The snapshot of the original round, with the delegations of the block before.
LEMMA CollectKeeps == ASSUME RoundInv, Collect PROVE RoundInv'
<1>1. /\ pc = "collect" /\ pc' = "wait" /\ originalRoundBlock > 0
      /\ specVersion' = chain.rounds[NowRound].version
      /\ GetCollatorsAndDelegators(OriginalRound, originalRoundBlock, originalRoundBlock - 1)
      /\ UNCHANGED <<chain, head, totalRewardedAmount, locals, trx, stored, error, faults>>
  BY DEF Collect, Goto
<1>2. /\ PayoutBlock' = PayoutBlock /\ LastBlock' = LastBlock /\ OriginalRound' = OriginalRound
      /\ NowRound' = NowRound /\ (Steady' <=> Steady)
  BY <1>1, SameChain
<1>3. \A c \in DOMAIN stakedValue' : IsCollector(stakedValue'[c]) /\ DOMAIN stakedValue'[c].delegators \subseteq delegators'
  BY <1>1, StakeAsRead
<1>4. chain.rounds[NowRound].version \in Nat
  BY RoundFacts DEF RoundInv
<1>5. IsStaked(stakedValue)'
  BY <1>3 DEF IsStaked, IsCollector
<1>6. TypeOK'
  BY <1>1, <1>2, <1>3, <1>4 DEF RoundInv, TypeOK, locals, Pc, IsCollector
<1>7. SearchInv' /\ BlocksInv'
  BY <1>1, <1>2 DEF RoundInv, SearchInv, BlocksInv, locals
<1>8. ASSUME Steady
      PROVE  Found' /\ StakedAtStart(stakedValue)' /\ ReadAtStart(stakedValue', delegators')
  <2>1. Found
    BY <1>1, <1>8 DEF RoundInv, SearchInv
  <2>2. PICK k, b, at : k = OriginalRound /\ b = originalRoundBlock /\ at = chain.delegated[b - 1]
    OBVIOUS
  <2>3. k \in DOMAIN chain.rounds /\ b = chain.rounds[k].first /\ b > 0
    BY <2>1, <2>2 DEF Found
  <2>4. k > 0 /\ k = Len(chain.rounds) - 2
    BY <2>2, <2>3, RoundFacts DEF RoundInv, OriginalRound, NowRound, RewardDelay
  <2>5. PICK E : E = ToSet(chain.stake[k]) /\ k \in DOMAIN chain.stake
    BY <2>4, ChainFacts DEF RoundInv, SnapshotsOfDelegations
  <2>6. AtStake(k, b) = chain.stake[k]
    <3>1. RoundAt(b) = k
      BY <2>3, RoundOfFirst DEF RoundInv
    <3> QED BY <2>3, <2>4, <2>5, <3>1, RoundFacts DEF RoundInv, AtStake
  <2>7. /\ DOMAIN stakedValue' = {s.id : s \in E}
        /\ \A c \in DOMAIN stakedValue' : \E s \in E :
              /\ s.id = c
              /\ DOMAIN stakedValue'[c].delegators = TopDelegations(s, b - 1)
              /\ \A d \in TopDelegations(s, b - 1) :
                    stakedValue'[c].delegators[d].amount = Amount(s, d, b - 1)
    <3>1. PICK prior : prior = b - 1
      OBVIOUS
    <3>2. GetCollatorsAndDelegators(k, b, prior)
      BY <1>1, <2>2, <3>1
    <3>3. ToSet(AtStake(k, b)) = E
      BY <2>5, <2>6
    <3>4. ReadFrom(stakedValue', ToSet(AtStake(k, b)), prior)
      BY <3>2, StakeAsRead
    <3>5. ReadFrom(stakedValue', E, b - 1)
      BY <3>1, <3>4, <3>3
    <3> QED BY <3>5 DEF ReadFrom
  <2>8. ASSUME chain.queries # {}, NEW c \in DOMAIN stakedValue'
        PROVE  /\ DOMAIN stakedValue'[c].delegators = {d \in DOMAIN at : at[d][c] > 0}
               /\ \A d \in DOMAIN stakedValue'[c].delegators : stakedValue'[c].delegators[d].amount = at[d][c]
    <3>1. PICK s \in E : /\ s.id = c
                        /\ DOMAIN stakedValue'[c].delegators = TopDelegations(s, b - 1)
                        /\ \A d \in TopDelegations(s, b - 1) :
                              stakedValue'[c].delegators[d].amount = Amount(s, d, b - 1)
      BY <2>7, <2>8
    <3>2. PICK D : D = {d \in DOMAIN at : at[d][c] > 0}
      OBVIOUS
    <3>3. /\ D \subseteq DOMAIN s.delegations
          /\ DOMAIN s.delegations \subseteq IF "topDelegations" \in chain.queries THEN DOMAIN at ELSE D
          /\ "topDelegations" \in chain.queries => "delegatorState" \in chain.queries
          /\ chain.queries \subseteq {"topDelegations", "delegatorState"}
      BY <2>2, <2>3, <2>4, <2>5, <2>8, <3>1, <3>2, ChainFacts DEF RoundInv, SnapshotsOfDelegations
    <3>4. TopDelegations(s, b - 1) = {d \in DOMAIN s.delegations : "topDelegations" \in chain.queries => at[d][c] > 0}
      BY <2>2, <3>1 DEF TopDelegations, InTop
    <3>5. TopDelegations(s, b - 1) = D
      BY <3>2, <3>3, <3>4
    <3>6. ASSUME NEW d \in D PROVE Amount(s, d, b - 1) = at[d][c]
      <4>1. at[d][c] > 0
        BY <3>2
      <4>2. "delegatorState" \in chain.queries
        BY <2>8, <3>3
      <4> QED BY <2>2, <3>1, <4>1, <4>2 DEF Amount
    <3> QED BY <3>1, <3>2, <3>5, <3>6
  <2>9. StakedAtStart(stakedValue')
    <3>1. PICK sv : sv = stakedValue'
      OBVIOUS
    <3>2. DOMAIN sv = {s.id : s \in ToSet(chain.stake[k])}
      BY <2>5, <2>7, <3>1
    <3>3. chain.queries # {} => \A c \in DOMAIN sv :
             /\ DOMAIN sv[c].delegators = {d \in DOMAIN at : at[d][c] > 0}
             /\ \A d \in DOMAIN sv[c].delegators : sv[c].delegators[d].amount = at[d][c]
      BY <2>8, <3>1
    <3>4. at = chain.delegated[chain.rounds[k].first - 1]
      BY <2>2, <2>3
    <3>5. StakedAtStart(sv)
      BY <2>2, <3>2, <3>3, <3>4 DEF StakedAtStart
    <3> QED BY <3>1, <3>5
  <2>10. Found'
    BY <1>1, <1>2, <2>1 DEF Found, locals
  <2>11. StakedAtStart(stakedValue)'
    BY <1>1, <1>2, <2>9 DEF StakedAtStart
  <2>12. \A d \in delegators' : \E s \in E : d \in DOMAIN s.delegations
    <3>1. PICK prior : prior = b - 1
      OBVIOUS
    <3>2. GetCollatorsAndDelegators(k, b, prior)
      BY <1>1, <2>2, <3>1
    <3>3. ToSet(AtStake(k, b)) = E
      BY <2>5, <2>6
    <3> QED BY <3>2, <3>3, StakeAsRead
  <2>13. ReadAtStart(stakedValue', delegators')
    BY <2>2, <2>3, <2>5, <2>7, <2>12 DEF ReadAtStart, Originals
  <2> QED BY <2>10, <2>11, <2>13
<1>9. ReadInv'
  BY <1>1, <1>2, <1>8 DEF ReadInv
<1>10. PaymentInv'
  <2>1. checked = 0 /\ checked' = 0
    BY <1>1 DEF RoundInv, BlocksInv, locals
  <2>2. totalRewardedAmount' = PaidBy(checked, RewardEvents)'
    BY <1>1, <2>1, SamePayments DEF RoundInv, PaymentInv
  <2>3. Fresh(stakedValue') /\ \A c \in DOMAIN stakedValue' : stakedValue'[c].rewardTotal = 0
    BY <1>1, StakeAsRead
  <2>4. \A events : PaidBy(0, events) = 0
    BY SumOverStep DEF PaidBy
  <2>5. PaidUntil(stakedValue', 0)
    BY <2>3, <2>4 DEF PaidUntil, Fresh
  <2>6. PaidUntil(stakedValue, checked)'
    BY <1>1, <2>1, <2>5, SamePayments
  <2>7. Steady => ReadAtStart(stakedValue, delegators)'
    BY <1>1, <1>8, SamePayments
  <2>8. Fresh(stakedValue)'
    BY <2>3 DEF Fresh
  <2> QED BY <1>1, <1>2, <2>2, <2>6, <2>7, <2>8 DEF PaymentInv
<1> QED BY <1>1, <1>5, <1>6, <1>7, <1>9, <1>10, StallsStay, GoesOn

LEMMA WaitKeeps == ASSUME RoundInv, Wait PROVE RoundInv'
<1>1. /\ pc = "wait" /\ maxRoundChecks' = MaxRoundChecks /\ pc' \in {"sleep", "check"}
      /\ pc' = IF specVersion > 1002 /\ chain.awarded > latestBlockNumber - PayoutBlock + 1
               THEN "sleep" ELSE "check"
      /\ UNCHANGED <<chain, head, object, latestBlockNumber, originalRoundBlock, checked, trx, stored, error, faults>>
  BY DEF Wait, Goto
<1>2. /\ PayoutBlock' = PayoutBlock /\ LastBlock' = LastBlock /\ OriginalRound' = OriginalRound
      /\ NowRound' = NowRound /\ (Steady' <=> Steady)
  BY <1>1, SameChain
<1>3. MaxRoundChecks \in Nat /\ chain.awarded \in Nat
  BY ChainFacts, RoundAssumption DEF RoundInv, MaxRoundChecks
<1>4. MaxRoundChecks' = MaxRoundChecks
  BY <1>1 DEF MaxRoundChecks, object
<1>5. /\ chain \in Chains /\ head \in PayoutBlock..LastBlock /\ specVersion \in Nat
      /\ \A c \in DOMAIN stakedValue : /\ stakedValue[c].rewardTotal \in Nat
                                       /\ DOMAIN stakedValue[c].delegators \subseteq delegators
      /\ totalRewardedAmount \in Nat /\ latestBlockNumber \in Nat /\ originalRoundBlock \in Nat
      /\ error \in Errors /\ faults \in [FaultKind -> Nat] /\ checked = 0
  BY <1>1 DEF RoundInv, TypeOK, BlocksInv
<1>6. TypeOK' /\ IsStaked(stakedValue)'
  BY <1>1, <1>2, <1>3, <1>5 DEF RoundInv, TypeOK, Pc, IsStaked, object
<1>7. SearchInv' /\ ReadInv'
  <2>1. Steady => Found' /\ StakedAtStart(stakedValue)'
    BY <1>1, <1>2 DEF RoundInv, ReadInv, Found, StakedAtStart, object
  <2> QED BY <1>1, <1>2, <2>1 DEF RoundInv, SearchInv, ReadInv, object
<1>8. BlocksInv'
  <2>1. latestBlockNumber \in PayoutBlock..head /\ PayoutBlock \in Nat /\ head \in Nat
    BY <1>1, RoundFacts DEF RoundInv, BlocksInv
  <2>2. ASSUME pc' = "check", specVersion > 1002 PROVE PayoutBlock + chain.awarded <= head + 1
    <3>1. ~ (chain.awarded > latestBlockNumber - PayoutBlock + 1)
      BY <1>1, <2>2
    <3> QED BY <1>3, <2>1, <3>1
  <2> QED BY <1>1, <1>2, <1>4, <1>5, <2>1, <2>2 DEF BlocksInv, object
<1>9. PaymentInv'
  <2>1. PayoutBlock + checked <= head' + 1
    BY <1>1, <1>5, RoundFacts DEF RoundInv
  <2> QED BY <1>1, <2>1, PaymentsStay DEF RoundInv, object
<1> QED BY <1>1, <1>6, <1>7, <1>8, <1>9, StallsStay, GoesOn

LEMMA EndSleepKeeps == ASSUME RoundInv, EndSleep PROVE RoundInv'
<1>1. /\ pc = "sleep" /\ pc' = "check"
      /\ UNCHANGED <<chain, head, object, locals, trx, stored, error>>
      /\ \/ head >= latestBlockNumber + chain.awarded /\ UNCHANGED faults
         \/ Fault("stall")
  BY DEF EndSleep, Goto
<1>2. /\ PayoutBlock' = PayoutBlock /\ LastBlock' = LastBlock /\ OriginalRound' = OriginalRound
      /\ NowRound' = NowRound /\ (Steady' <=> Steady)
  BY <1>1, SameChain
<1>3. /\ faults' \in [FaultKind -> Nat] /\ faults["stall"] <= faults'["stall"]
      /\ \/ head >= latestBlockNumber + chain.awarded
         \/ faults'["stall"] # 0
  BY <1>1 DEF Fault, RoundInv, TypeOK, FaultKind
<1>4. TypeOK' /\ IsStaked(stakedValue)'
  BY <1>1, <1>2, <1>3 DEF RoundInv, TypeOK, Pc, IsStaked, object, locals
<1>5. SearchInv' /\ ReadInv'
  <2>1. Steady => Found' /\ StakedAtStart(stakedValue)'
    BY <1>1, <1>2 DEF RoundInv, ReadInv, Found, StakedAtStart, object, locals
  <2> QED BY <1>1, <1>2, <2>1 DEF RoundInv, SearchInv, ReadInv, object
<1>6. BlocksInv'
  <2>1. latestBlockNumber \in PayoutBlock..head /\ PayoutBlock \in Nat /\ head \in Nat /\ chain.awarded \in Nat
    BY <1>1, RoundFacts, ChainFacts DEF RoundInv, BlocksInv
  <2>2. faults'["stall"] = 0 => PayoutBlock + chain.awarded <= head + 1
    BY <1>3, <2>1
  <2>3. maxRoundChecks' = MaxRoundChecks'
    BY <1>1 DEF RoundInv, BlocksInv, MaxRoundChecks, object, locals
  <2> QED BY <1>1, <1>2, <2>1, <2>2, <2>3 DEF BlocksInv, object, locals
<1>7. PaymentInv'
  <2>1. checked = 0
    BY <1>1 DEF RoundInv, BlocksInv
  <2>2. PayoutBlock + checked <= head' + 1
    BY <1>1, <2>1, RoundFacts DEF RoundInv
  <2> QED BY <1>1, <2>2, PaymentsStay DEF RoundInv, object, locals
<1> QED BY <1>1, <1>3, <1>4, <1>5, <1>6, <1>7, GoesOn

\* The payments of a block change no delegation.
LEMMA CheckBlockKeeps == ASSUME RoundInv, CheckBlock PROVE RoundInv'
<1>1. /\ pc = "check" /\ checked < maxRoundChecks
      /\ NextBlock <= head /\ ~ OrbiterUnknown(NextBlock)
      /\ stakedValue' = Rewarded(NextBlock).staked
      /\ totalRewardedAmount' = totalRewardedAmount + Sum(Rewards(NextBlock))
      /\ checked' = checked + 1
      /\ UNCHANGED <<chain, head, pc, specVersion, delegators, latestBlockNumber, originalRoundBlock,
                     maxRoundChecks, trx, stored, error, faults>>
  BY DEF CheckBlock, MoreToCheck
<1>2. /\ PayoutBlock' = PayoutBlock /\ LastBlock' = LastBlock /\ OriginalRound' = OriginalRound
      /\ NowRound' = NowRound /\ (Steady' <=> Steady)
  BY <1>1, SameChain
<1>3. PICK b : b = NextBlock
  OBVIOUS
<1>4. Len(Rewards(b)) \in Nat /\ Sum(Rewards(b)) \in Nat
  <2>1. PICK evs, rs, at, owner : AreRead(b, evs, rs, at, owner)
    BY RewardsRead DEF RoundInv
  <2> QED BY <2>1 DEF AreRead
<1>5. SameStake(stakedValue, stakedValue')
  <2>1. IsStaked(stakedValue)
    BY DEF RoundInv
  <2>2. SameStake(stakedValue, Rewarded(b).staked)
    BY <1>4, <2>1, BlockPayments
  <2> QED BY <1>1, <1>3, <2>2
<1>6. /\ DOMAIN stakedValue' = DOMAIN stakedValue
      /\ \A c \in DOMAIN stakedValue : /\ IsCollector(stakedValue'[c])
                                       /\ SameDelegations(stakedValue'[c], stakedValue[c])
  BY <1>5 DEF SameStake
<1>7. IsStaked(stakedValue)'
  BY <1>6 DEF IsStaked, IsCollector
<1>8. TypeOK'
  <2>1. ASSUME NEW c \in DOMAIN stakedValue'
        PROVE  /\ stakedValue'[c].rewardTotal \in Nat
               /\ DOMAIN stakedValue'[c].delegators \subseteq delegators'
    BY <1>1, <1>6, <2>1 DEF IsCollector, SameDelegations, RoundInv, TypeOK
  <2>2. totalRewardedAmount' \in Nat
    BY <1>1, <1>3, <1>4 DEF RoundInv, TypeOK
  <2>3. maxRoundChecks \in Nat /\ checked' \in 0..maxRoundChecks
    BY <1>1 DEF RoundInv, TypeOK
  <2> QED BY <1>1, <1>2, <2>1, <2>2, <2>3 DEF RoundInv, TypeOK
<1>9. SearchInv' /\ ReadInv'
  <2>1. ASSUME Steady PROVE Found' /\ StakedAtStart(stakedValue)'
    <3>1. Found /\ StakedAtStart(stakedValue)
      BY <1>1, <2>1 DEF RoundInv, ReadInv
    <3>2. Found'
      BY <1>1, <1>2, <3>1 DEF Found
    <3>3. StakedAtStart(stakedValue')
      <4>1. \A c \in DOMAIN stakedValue :
               /\ DOMAIN stakedValue'[c].delegators = DOMAIN stakedValue[c].delegators
               /\ \A d \in DOMAIN stakedValue[c].delegators :
                     stakedValue'[c].delegators[d].amount = stakedValue[c].delegators[d].amount
        BY <1>6 DEF SameDelegations
      <4>2. DOMAIN stakedValue' = DOMAIN stakedValue
        BY <1>6
      <4> QED BY <3>1, <4>1, <4>2, SMTT(30) DEF StakedAtStart
    <3>4. StakedAtStart(stakedValue)'
      BY <1>1, <1>2, <3>3 DEF StakedAtStart
    <3> QED BY <3>2, <3>4
  <2> QED BY <1>1, <1>2, <2>1 DEF RoundInv, SearchInv, ReadInv
<1>10. BlocksInv'
  <2>1. MaxRoundChecks' = MaxRoundChecks
    BY <1>1 DEF MaxRoundChecks
  <2> QED BY <1>1, <1>2, <2>1 DEF RoundInv, BlocksInv
<1>11. PaymentInv'
  <2>1. PICK n : n = checked /\ b = PayoutBlock + n
    BY <1>3 DEF NextBlock
  <2>2. /\ n \in 0..PadTo /\ specVersion = chain.rounds[NowRound].version
        /\ CollatorsTold => PaidUntil(stakedValue', n + 1)
    BY <1>1, <2>1, BlockIsPaid
  <2>3. totalRewardedAmount' = PaidBy(n + 1, RewardEvents)
    <3>1. totalRewardedAmount = PaidBy(n, RewardEvents)
      BY <1>1, <2>1 DEF RoundInv, PaymentInv
    <3>2. Sum(Rewards(b)) = PaidIn(b, RewardEvents)
      BY <2>2, BlockTotal DEF RoundInv
    <3>3. PaidBy(n + 1, RewardEvents) = PaidBy(n, RewardEvents) + PaidIn(PayoutBlock + n, RewardEvents)
      BY <2>2, PaidByStep DEF RoundInv
    <3> QED BY <1>1, <1>3, <2>1, <3>1, <3>2, <3>3
  <2>4. totalRewardedAmount' = PaidBy(checked, RewardEvents)'
    BY <1>1, <2>1, <2>3, SamePayments
  <2>5. PayoutBlock' + checked' <= head' + 1 /\ checked' # 0
    BY <1>1, <1>2, <1>3, <2>1, <2>2, RoundFacts DEF RoundInv
  <2>6. ASSUME Steady PROVE ReadAtStart(stakedValue, delegators)'
    <3>1. ReadAtStart(stakedValue, delegators)
      BY <1>1, <2>6 DEF RoundInv, PaymentInv
    <3>2. \A c \in DOMAIN stakedValue : DOMAIN stakedValue'[c].delegators = DOMAIN stakedValue[c].delegators
      BY <1>6 DEF SameDelegations
    <3>3. ReadAtStart(stakedValue', delegators)
      BY <1>6, <3>1, <3>2 DEF ReadAtStart
    <3> QED BY <1>1, <3>3, SamePayments
  <2>7. CollatorsTold' => PaidUntil(stakedValue, checked)'
    BY <1>1, <2>1, <2>2, SamePayments
  <2> QED BY <1>1, <1>2, <2>4, <2>5, <2>6, <2>7 DEF PaymentInv
<1> QED BY <1>1, <1>7, <1>8, <1>9, <1>10, <1>11, StallsStay, GoesOn

\* When all the blocks were looked at, nothing is left to be paid.
LEMMA PaidInFull ==
    ASSUME RoundInv, pc = "check", checked = maxRoundChecks
    PROVE  /\ totalRewardedAmount = Paid(RewardEvents)
           /\ CollatorsTold => PaidUntil(stakedValue, PadTo + 1)
<1>1. PICK n : n = checked
  OBVIOUS
<1>2. TypeOK /\ PayoutBlock \in Nat /\ PadTo \in Nat /\ head \in PayoutBlock..PayoutBlock + PadTo
  BY RoundFacts, RoundAssumption DEF RoundInv, TypeOK, LastBlock
<1>3. n \in 0..PadTo + 1
  BY <1>1, <1>2 DEF RoundInv, PaymentInv, TypeOK
<1>4. specVersion = chain.rounds[NowRound].version /\ MaxRoundChecks = n
  BY <1>1 DEF RoundInv, ReadInv, BlocksInv
<1>5. ASSUME NEW events, events \subseteq RewardEvents PROVE PaidBy(n, events) = PaidBy(PadTo + 1, events)
  <2>1. PaidBy(MaxRoundChecks, events) = Paid(events)
    BY <1>2, <1>3, <1>4, <1>5, AllIsPaid
  <2>2. PaidBy(PadTo + 1, events) = Paid(events)
    BY DEF PaidBy, ByBlock, Paid
  <2> QED BY <1>4, <2>1, <2>2
<1>6. totalRewardedAmount = Paid(RewardEvents)
  <2>1. totalRewardedAmount = PaidBy(n, RewardEvents)
    BY <1>1 DEF RoundInv, PaymentInv
  <2>2. PaidBy(MaxRoundChecks, RewardEvents) = Paid(RewardEvents)
    BY <1>2, <1>3, <1>4, AllIsPaid
  <2> QED BY <1>4, <2>1, <2>2
<1>7. ASSUME CollatorsTold PROVE PaidUntil(stakedValue, PadTo + 1)
  <2>1. PaidUntil(stakedValue, n)
    BY <1>1, <1>7 DEF RoundInv, PaymentInv, CollatorsTold
  <2>2. \A c, d : OfCollator(c) \subseteq RewardEvents /\ DueTo(c, d) \subseteq RewardEvents
    BY DEF OfCollator, DueTo
  <2>3. \A c, d : /\ PaidBy(n, OfCollator(c)) = PaidBy(PadTo + 1, OfCollator(c))
                  /\ PaidBy(n, DueTo(c, d)) = PaidBy(PadTo + 1, DueTo(c, d))
    BY <1>5, <2>2
  <2> QED BY <2>1, <2>3 DEF PaidUntil
<1> QED BY <1>6, <1>7

LEMMA SaveRewardsKeeps == ASSUME RoundInv, SaveRewards PROVE RoundInv'
<1>1. /\ pc = "check" /\ pc' = "commit" /\ checked = maxRoundChecks
      /\ UNCHANGED <<chain, head, object, locals, stored, error, faults>>
  BY DEF SaveRewards, Goto, AllChecked
<1>2. PICK row : /\ row = [round_id |-> OriginalRound, start_block_id |-> originalRoundBlock,
                          total_reward |-> totalRewardedAmount, collators |-> stakedValue]
                 /\ trx' = [trx EXCEPT !.rewards = {row}]
  BY DEF SaveRewards
<1>3. /\ PayoutBlock' = PayoutBlock /\ LastBlock' = LastBlock /\ OriginalRound' = OriginalRound
      /\ NowRound' = NowRound /\ (Steady' <=> Steady)
  BY <1>1, SameChain
<1>4. TypeOK' /\ IsStaked(stakedValue)'
  BY <1>1, <1>3 DEF RoundInv, TypeOK, Pc, IsStaked, object, locals
<1>5. SearchInv' /\ ReadInv' /\ BlocksInv'
  BY <1>1, <1>3 DEF RoundInv, SearchInv, ReadInv, BlocksInv, object
<1>6. RowsInv'
  <2> SUFFICES ASSUME Steady, NEW r \in trx'.rewards \union stored.rewards PROVE RoundRow(r)
    BY <1>1, <1>3, SameChain DEF RowsInv
  <2>1. r = row \/ r \in stored.rewards
    BY <1>2
  <2>2. RoundRow(row)
    BY <1>1, <1>2 DEF RoundInv, ReadInv, Found, RoundRow
  <2> QED BY <2>1, <2>2 DEF RoundInv, RowsInv
<1>7. FailuresHaveACause'
  BY <1>1, SameChain, SamePayments DEF RoundInv, FailuresHaveACause
<1>8. PaymentInv'
  BY <1>1, PaymentsStay DEF RoundInv, object, locals
<1>9. RowsPaid'
  <2> SUFFICES ASSUME NEW r \in trx'.rewards \union stored.rewards PROVE PaidRow(r)
    BY <1>1, SamePayments DEF RowsPaid
  <2>1. r = row \/ r \in stored.rewards
    BY <1>2
  <2>2. PaidRow(row)
    BY <1>1, <1>2, PaidInFull DEF PaidRow
  <2> QED BY <2>1, <2>2 DEF RoundInv, RowsPaid
<1> QED BY <1>4, <1>5, <1>6, <1>7, <1>8, <1>9 DEF RoundInv

LEMMA CommitKeeps == ASSUME RoundInv, Commit PROVE RoundInv'
<1>1. /\ pc = "commit" /\ pc' = "idle" /\ trx' = NoRows
      /\ stored' = [stake |-> stored.stake \union trx.stake, rewards |-> stored.rewards \union trx.rewards]
      /\ latestBlockNumber' = 0 /\ originalRoundBlock' = 0 /\ maxRoundChecks' = 0 /\ checked' = 0
      /\ UNCHANGED <<chain, head, error, faults>>
  BY DEF Commit
<1>2. stakedValue' = <<>> /\ delegators' = {} /\ specVersion' = 0 /\ totalRewardedAmount' = 0
  BY DEF Commit, NewObject
<1>3. /\ PayoutBlock' = PayoutBlock /\ LastBlock' = LastBlock /\ (Steady' <=> Steady)
  BY <1>1, SameChain
<1>4. TypeOK' /\ IsStaked(stakedValue)'
  BY <1>1, <1>2, <1>3 DEF RoundInv, TypeOK, Pc, IsStaked
<1>5. SearchInv' /\ ReadInv' /\ BlocksInv'
  BY <1>1 DEF SearchInv, ReadInv, BlocksInv
<1>6. RowsInv'
  <2>1. trx'.rewards = {} /\ stored'.rewards = stored.rewards \union trx.rewards
    BY <1>1 DEF NoRows
  <2> QED BY <1>1, <1>3, <2>1, SameChain DEF RoundInv, RowsInv
<1>7. FailuresHaveACause'
  BY <1>1, SameChain, SamePayments DEF RoundInv, FailuresHaveACause
<1>8. PaymentInv'
  BY <1>1, <1>2, NothingCounted
<1>9. RowsPaid'
  <2>1. trx'.rewards = {} /\ stored'.rewards = stored.rewards \union trx.rewards
    BY <1>1 DEF NoRows
  <2> QED BY <1>1, <2>1, SamePayments DEF RoundInv, RowsPaid
<1> QED BY <1>4, <1>5, <1>6, <1>7, <1>8, <1>9 DEF RoundInv

LEMMA NewBlockKeeps == ASSUME RoundInv, NewBlock PROVE RoundInv'
<1>1. /\ head < LastBlock /\ head' = head + 1
      /\ UNCHANGED <<chain, pc, object, locals, trx, stored, error, faults>>
  BY DEF NewBlock
<1>2. /\ PayoutBlock' = PayoutBlock /\ LastBlock' = LastBlock /\ OriginalRound' = OriginalRound
      /\ NowRound' = NowRound /\ (Steady' <=> Steady)
  BY <1>1, SameChain
<1>3. PayoutBlock \in Nat /\ head \in Nat /\ PayoutBlock <= head /\ LastBlock \in Nat /\ chain.awarded \in Nat
  BY RoundFacts, ChainFacts, RoundAssumption DEF RoundInv, LastBlock
<1>4. head' \in PayoutBlock..LastBlock
  BY <1>1, <1>3
<1>5. TypeOK' /\ IsStaked(stakedValue)'
  BY <1>1, <1>2, <1>4 DEF RoundInv, TypeOK, Pc, IsStaked, object, locals
<1>6. SearchInv'
  BY <1>1, <1>2 DEF RoundInv, SearchInv, AtARound, Found, locals
<1>7. ReadInv'
  <2>1. (Found' <=> Found) /\ (StakedAtStart(stakedValue)' <=> StakedAtStart(stakedValue))
    BY <1>1, <1>2 DEF Found, StakedAtStart, locals, object
  <2> QED BY <1>1, <1>2, <2>1 DEF RoundInv, ReadInv, object
<1>8. BlocksInv'
  <2>1. MaxRoundChecks' = MaxRoundChecks
    BY <1>1 DEF MaxRoundChecks, object
  <2>2. \A n \in PayoutBlock..head : n \in PayoutBlock..head'
    BY <1>1, <1>3
  <2>3. PayoutBlock + chain.awarded <= head + 1 => PayoutBlock + chain.awarded <= head' + 1
    BY <1>1, <1>3
  <2> QED BY <1>1, <1>2, <2>1, <2>2, <2>3 DEF RoundInv, BlocksInv, object, locals
<1>9. RowsInv' /\ FailuresHaveACause'
  BY <1>1, <1>2, SameChain, SamePayments DEF RoundInv, RowsInv, FailuresHaveACause
<1>10. PaymentInv'
  <2>1. pc = "check" => PayoutBlock + checked <= head' + 1
    <3>1. checked \in Nat
      BY DEF RoundInv, TypeOK
    <3> QED BY <1>1, <1>3, <3>1 DEF RoundInv, PaymentInv
  <2> QED BY <1>1, <2>1, PaymentsStay DEF RoundInv, object, locals
<1>11. RowsPaid'
  BY <1>1, SamePayments DEF RoundInv, RowsPaid
<1> QED BY <1>5, <1>6, <1>7, <1>8, <1>9, <1>10, <1>11 DEF RoundInv

LEMMA RoundInvStep == RoundInv /\ [Next]_vars => RoundInv'
<1> SUFFICES ASSUME RoundInv, [Next]_vars PROVE RoundInv'
  OBVIOUS
<1>1. CASE Task
  BY <1>1, ProcessTaskMessageKeeps, ProcessStakeRoundKeeps, ReadHeadKeeps, FindOriginalRoundKeeps,
     FirstRoundsKeeps, NotReadableKeeps, CollectKeeps, WaitKeeps, EndSleepKeeps, CheckBlockKeeps,
     FailBlockKeeps, SaveRewardsKeeps, CommitKeeps DEF Task
<1>2. CASE Fail
  BY <1>2, FailKeeps
<1>3. CASE NewBlock
  BY <1>3, NewBlockKeeps
<1>4. CASE UNCHANGED vars
  <2>1. UNCHANGED <<chain, head, pc, object, locals, trx, stored, error, faults>>
    BY <1>4 DEF vars
  <2>2. /\ PayoutBlock' = PayoutBlock /\ LastBlock' = LastBlock /\ OriginalRound' = OriginalRound
        /\ NowRound' = NowRound /\ (Steady' <=> Steady)
    BY <2>1, SameChain
  <2>3. TypeOK' /\ IsStaked(stakedValue)'
    BY <2>1, <2>2 DEF RoundInv, TypeOK, IsStaked, object, locals
  <2>4. SearchInv'
    BY <2>1, <2>2 DEF RoundInv, SearchInv, AtARound, Found, locals
  <2>5. ReadInv'
    <3>1. (Found' <=> Found) /\ (StakedAtStart(stakedValue)' <=> StakedAtStart(stakedValue))
      BY <2>1, <2>2 DEF Found, StakedAtStart, locals, object
    <3> QED BY <2>1, <2>2, <3>1 DEF RoundInv, ReadInv, object
  <2>6. BlocksInv'
    <3>1. MaxRoundChecks' = MaxRoundChecks
      BY <2>1 DEF MaxRoundChecks, object
    <3> QED BY <2>1, <2>2, <3>1 DEF RoundInv, BlocksInv, object, locals
  <2>7. RowsInv' /\ FailuresHaveACause'
    BY <2>1, <2>2, SameChain, SamePayments DEF RoundInv, RowsInv, FailuresHaveACause
  <2>8. PaymentInv'
    BY <2>1, PaymentsStay DEF RoundInv, PaymentInv, object, locals
  <2>9. RowsPaid'
    BY <2>1, SamePayments DEF RoundInv, RowsPaid
  <2> QED BY <2>3, <2>4, <2>5, <2>6, <2>7, <2>8, <2>9 DEF RoundInv
<1> QED BY <1>1, <1>2, <1>3, <1>4 DEF Next

-----------------------------------------------------------------------------
(* The theorems.                                                            *)

\* The invariant holds of every reachable state, for any chains.
THEOREM RoundInvariant == Spec => []RoundInv
BY RoundInvInit, RoundInvStep, PTL DEF Spec

\* Every reachable state has its type: the sums of amounts are numbers, and whoever is
\* among a collator's delegators is among those the payments are looked for.
THEOREM RoundTypeCorrect == Spec => []TypeOK
<1>1. RoundInv => TypeOK
  BY DEF RoundInv
<1> QED BY <1>1, RoundInvariant, PTL

\* What is stored of a round is what was staked at the block before it began, however
\* often the task failed and began again, while rounds keep their length.
THEOREM StakeStoredAsOfTheStart == Spec => []StakeIsOfTheRoundsStart
<1>1. RoundInv => StakeIsOfTheRoundsStart
  <2> SUFFICES ASSUME RoundInv, Steady, NEW row \in stored.rewards
               PROVE  LET first == chain.rounds[row.round_id].first
                          at == chain.delegated[first - 1] IN
                      /\ row.start_block_id = first
                      /\ DOMAIN row.collators = {s.id : s \in ToSet(chain.stake[row.round_id])}
                      /\ chain.queries # {} => \A c \in DOMAIN row.collators :
                            LET of == row.collators[c].delegators IN
                            /\ DOMAIN of = {d \in DOMAIN at : at[d][c] > 0}
                            /\ \A d \in DOMAIN of : of[d].amount = at[d][c]
    BY DEF StakeIsOfTheRoundsStart
  <2>1. RoundRow(row)
    BY DEF RoundInv, RowsInv
  <2> QED BY <2>1 DEF RoundRow, StakedAtStart
<1> QED BY <1>1, RoundInvariant, PTL

\* A round that is stored has all that was paid for it: no block that had not come yet, and
\* no attempt that failed half-way, leaves a reward out or counts one twice, for any number
\* of collators awarded and any blocks.
THEOREM StoredTotalIsWhole == Spec => []StoredRoundIsComplete
<1>1. RoundInv => StoredRoundIsComplete
  BY DEF RoundInv, RowsPaid, PaidRow, StoredRoundIsComplete
<1> QED BY <1>1, RoundInvariant, PTL

\* Each reward of a delegator is stored under the collator it was paid for, and each
\* collator of the later runtimes with the total of its payout, for any chain that pays as
\* assumed: but where the runtime leaves the collator open, and in runtimes 901 to 1000.
THEOREM RewardsStoredUnderTheirCollator == Spec => []RewardsUnderTheirCollator
<1>1. RoundInv => RewardsUnderTheirCollator
  <2> SUFFICES ASSUME RoundInv, CollatorsTold, NEW row \in stored.rewards, NEW c \in DOMAIN row.collators
               PROVE  LET r == row.collators[c]
                          of == {e \in RewardEvents : e.payout = c} IN
                      /\ \A d \in DOMAIN r.delegators :
                            \/ Ambiguous(row, d)
                            \/ r.delegators[d].reward =
                                  Paid({e \in of : e.method # "OrbiterRewarded" /\ e.account = d})
                      /\ chain.rounds[NowRound].version > 1002 => r.rewardTotal = Paid(of)
    BY DEF RewardsUnderTheirCollator
  <2>1. PICK sv : sv = row.collators
    OBVIOUS
  <2>2. PaidUntil(sv, PadTo + 1)
    BY <2>1 DEF RoundInv, RowsPaid, PaidRow
  <2>3. \A events : PaidBy(PadTo + 1, events) = Paid(events)
    BY DEF PaidBy, ByBlock, Paid
  <2>4. \A d \in DOMAIN sv[c].delegators : Doubtful(sv, d) \/ sv[c].delegators[d].reward = Paid(DueTo(c, d))
    BY <2>1, <2>2, <2>3 DEF PaidUntil
  <2>5. chain.rounds[NowRound].version > 1002 => sv[c].rewardTotal = Paid(OfCollator(c))
    BY <2>1, <2>2, <2>3 DEF PaidUntil
  <2>6. \A d : Doubtful(sv, d) => Ambiguous(row, d)
    <3> SUFFICES ASSUME NEW d, Doubtful(sv, d) PROVE Ambiguous(row, d)
      OBVIOUS
    <3>1. PICK a, b \in DOMAIN sv : a # b /\ d \in DOMAIN sv[a].delegators /\ d \in DOMAIN sv[b].delegators
      BY DEF Doubtful
    <3>2. chain.rounds[NowRound].version <= 900
      BY DEF Doubtful
    <3> QED BY <2>1, <3>1, <3>2 DEF Ambiguous
  <2> QED BY <2>1, <2>4, <2>5, <2>6 DEF DueTo, OfCollator
<1> QED BY <1>1, RoundInvariant, PTL

\* An attempt fails for a missing block only if the chain stood still while the task slept,
\* or the number of blocks was put up after the sleep was reckoned; it ends at block 0 for
\* the first rounds only; it cannot read a snapshot of another runtime only; and it finds
\* every delegator that is paid under a collator, if the original round was found and the
\* runtime is not one of 901 to 1000.
THEOREM FailuresExplained == Spec => []FailuresHaveACause
<1>1. RoundInv => FailuresHaveACause
  BY DEF RoundInv
<1> QED BY <1>1, RoundInvariant, PTL
=============================================================================
