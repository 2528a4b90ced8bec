------------------------------ MODULE BlockProofs ------------------------------
(***************************************************************************)
(* The disputes and the authorizations of a block, for every value of the  *)
(* constants: any reports, validators, verdicts, epochs and super-majority,*)
(* and any cores, queues, pools and used authorizers.                      *)
(***************************************************************************)
EXTENDS Disputes, Authorizations, FiniteSetTheorems, WellFoundedInduction, TLAPS

\* The reports of a sequence of verdicts, culprits or faults.
LEMMA Targets ==
  ASSUME NEW vs \in Verdicts, NEW cs \in Culprits, NEW fs \in Faults
  PROVE  /\ \A v \in registered(vs) : v.target \in Reports /\ v.target \notin judged
         /\ targets(cs) \subseteq Reports
         /\ targets(fs) \subseteq Reports
<1>1. vs \in Seq(Verdict) /\ cs \in Seq(Culprit) /\ fs \in Seq(Fault)
  BY ExtrinsicsAssumption DEF ExtrinsicsAssumption
<1>2. \A v \in Verdict : v.target \in Reports  BY DEF Verdict
<1>3. \A c \in Culprit : c.target \in Reports  BY DEF Culprit
<1>4. \A f \in Fault : f.target \in Reports  BY DEF Fault
<1>5. \A v \in registered(vs) : v \in Verdict /\ v.target \notin judged
  BY <1>1 DEF registered, Range
<1>6. \A i \in 1..Len(cs) : cs[i].target \in Reports  BY <1>1, <1>3
<1>7. \A i \in 1..Len(fs) : fs[i].target \in Reports  BY <1>1, <1>4
<1> QED  BY <1>2, <1>5, <1>6, <1>7 DEF targets

\* A verdict that is accepted puts its report into its set: a bad one through its
\* culprits, a good one through its fault.
LEMMA Recorded ==
  ASSUME NEW vs, NEW cs, NEW fs, outcomesValid(vs, cs, fs), NEW v \in registered(vs)
  PROVE  /\ outcome(v) = "good" => v.target \in targets(fs)
         /\ outcome(v) = "bad" => v.target \in targets(cs)
<1>1. ASSUME outcome(v) = "good"  PROVE v.target \in targets(fs)
  <2>1. against(fs, v.target) # {}  BY <1>1, Zenon DEF outcomesValid
  <2> QED  BY <2>1 DEF against, targets
<1>2. ASSUME outcome(v) = "bad"  PROVE v.target \in targets(cs)
  <2>1. Cardinality(against(cs, v.target)) >= 2
    BY <1>2, Zenon DEF outcomesValid, minCulprits
  <2>2. against(cs, v.target) # {}  BY <2>1, FS_EmptySet
  <2> QED  BY <2>2 DEF against, targets
<1> QED  BY <1>1, <1>2

\* A block moves no report from one set to another.
LEMMA NoChangeOfSides ==
  ASSUME NEW vs \in Verdicts, NEW cs \in Culprits, NEW fs \in Faults,
         culpritsFounded(vs, cs), faultsValid(fs), transition(vs, cs, fs)
  PROVE  /\ (good' \ good) \cap (bad \cup wonky) = {}
         /\ (bad' \ bad) \cap (good \cup wonky) = {}
         /\ (wonky' \ wonky) \cap (good \cup bad) = {}
<1>1. ASSUME NEW r \in targets(fs)  PROVE r \notin bad \cup wonky
  <2>1. PICK i \in 1..Len(fs) : fs[i].target = r  BY DEF targets
  <2>2. fs[i].target \notin wonky /\ contradicts(fs[i])  BY DEF faultsValid
  <2>3. ~fs[i].vote  BY DEF transition
  <2> QED  BY <2>1, <2>2, <2>3 DEF contradicts
<1>2. ASSUME NEW r \in targets(cs)  PROVE r \notin judged
  <2>1. PICK i \in 1..Len(cs) : cs[i].target = r  BY DEF targets
  <2>2. PICK v \in registered(vs) : v.target = r  BY <2>1, Zenon DEF culpritsFounded
  <2> QED  BY <2>2, Targets
<1>3. ASSUME NEW r \in wonky' \ wonky  PROVE r \notin judged
  <2>1. PICK v \in registered(vs) : v.target = r  BY DEF transition
  <2> QED  BY <2>1, Targets
<1>4. good' = good \cup targets(fs) /\ bad' = bad \cup targets(cs)  BY DEF transition
<1> QED  BY <1>1, <1>2, <1>3, <1>4 DEF judged

------------------------------------------------------------------------------
\* The sets hold reports, so that an idle core is clear whatever they hold.
DisputesInv ==
  /\ TypeOK
  /\ CoreIsClear
  /\ VerdictsRecorded

\* Nothing is judged at first.
LEMMA DisputesInvInit == Init => DisputesInv
BY DisputesAssumption
DEF Init, DisputesInv, TypeOK, CoreIsClear, VerdictsRecorded, DisputesAssumption

\* A block records what it judges and clears the core of it.
LEMMA DisputesInvTransition ==
  ASSUME DisputesInv, NEW vs \in Verdicts, NEW cs \in Culprits, NEW fs \in Faults,
         transition(vs, cs, fs)
  PROVE  DisputesInv'
<1>1. /\ good' = good \cup targets(fs)
      /\ bad' = bad \cup targets(cs)
      /\ wonky' = wonky \cup {v.target : v \in {u \in registered(vs) : outcome(u) = "wonky"}}
      /\ verdicts' = verdicts \cup {<<v.target, outcome(v)>> : v \in registered(vs)}
      /\ rho' = cleared(rho)
      /\ outcomesValid(vs, cs, fs)
      /\ UNCHANGED <<epoch, kappa, lambda>>
  BY DEF transition
<1>2. TypeOK'
  <2>1. good' \subseteq Reports /\ bad' \subseteq Reports /\ wonky' \subseteq Reports
    BY <1>1, Targets DEF DisputesInv, TypeOK
  <2> QED  BY <1>1, <2>1 DEF cleared, DisputesInv, TypeOK
<1>3. CoreIsClear'
  BY <1>1, <1>2, DisputesAssumption DEF cleared, CoreIsClear, TypeOK, DisputesAssumption
<1>4. VerdictsRecorded'
  <2>1. ASSUME NEW u \in verdicts'
        PROVE  /\ u[2] = "good" => u[1] \in good'
               /\ u[2] = "bad" => u[1] \in bad'
               /\ u[2] = "wonky" => u[1] \in wonky'
    <3>1. CASE u \in verdicts
      BY <1>1, <3>1 DEF DisputesInv, VerdictsRecorded
    <3>2. CASE u \notin verdicts
      <4>1. PICK v \in registered(vs) : u = <<v.target, outcome(v)>>  BY <1>1, <3>2
      <4>2. u[1] = v.target /\ u[2] = outcome(v)  BY <4>1
      <4>3. /\ outcome(v) = "good" => v.target \in targets(fs)
            /\ outcome(v) = "bad" => v.target \in targets(cs)
        BY <1>1, Recorded
      <4> QED  BY <1>1, <4>2, <4>3
    <3> QED  BY <3>1, <3>2
  <2> QED  BY <2>1 DEF VerdictsRecorded
<1> QED  BY <1>2, <1>3, <1>4 DEF DisputesInv

\* Every step keeps the invariant.
LEMMA DisputesInvNext == DisputesInv /\ [Next]_vars => DisputesInv'
<1> SUFFICES ASSUME DisputesInv, [Next]_vars PROVE DisputesInv'
  OBVIOUS
<1>1. ASSUME NEW vs \in Verdicts, NEW cs \in Culprits, NEW fs \in Faults,
             transition(vs, cs, fs)
      PROVE  DisputesInv'
  BY <1>1, DisputesInvTransition
<1>2. ASSUME NEW r \in Reports, report(r)  PROVE DisputesInv'
  BY <1>2 DEF report, DisputesInv, TypeOK, CoreIsClear, VerdictsRecorded
<1>3. ASSUME NEW k \in ValidatorSets, advance(k)  PROVE DisputesInv'
  <2>1. epoch' \in 0..MaxEpoch
    BY <1>3, DisputesAssumption DEF advance, DisputesInv, TypeOK, DisputesAssumption
  <2> QED  BY <1>3, <2>1 DEF advance, DisputesInv, TypeOK, CoreIsClear, VerdictsRecorded
<1>4. CASE UNCHANGED vars
  BY <1>4 DEF vars, DisputesInv, TypeOK, CoreIsClear, VerdictsRecorded
<1> QED  BY <1>1, <1>2, <1>3, <1>4 DEF Next

\* The state of the disputes keeps its type: only reports are judged or on the core.
THEOREM TypeCorrect == Spec => []TypeOK
<1>1. DisputesInv => TypeOK  BY DEF DisputesInv
<1> QED  BY <1>1, DisputesInvInit, DisputesInvNext, PTL DEF Spec

\* No accepted verdict gets lost between the loop that checks it and the loops over
\* culprits and faults that record it.
THEOREM VerdictsStay == Spec => []VerdictsRecorded
<1>1. DisputesInv => VerdictsRecorded  BY DEF DisputesInv
<1> QED  BY <1>1, DisputesInvInit, DisputesInvNext, PTL DEF Spec

\* Reports judged bad or uncertain are not on a core.
THEOREM JudgedLeaveCore == Spec => []CoreIsClear
<1>1. DisputesInv => CoreIsClear  BY DEF DisputesInv
<1> QED  BY <1>1, DisputesInvInit, DisputesInvNext, PTL DEF Spec

\* No block judges a report that an earlier one judged in another way.
THEOREM JudgementIsFinal == Spec => JudgedForGood
<1> DEFINE F == /\ (good' \ good) \cap (bad \cup wonky) = {}
                /\ (bad' \ bad) \cap (good \cup wonky) = {}
                /\ (wonky' \ wonky) \cap (good \cup bad) = {}
<1>1. [Next]_vars => [F]_vars
  <2> SUFFICES ASSUME Next PROVE F
    OBVIOUS
  <2>1. ASSUME NEW vs \in Verdicts, NEW cs \in Culprits, NEW fs \in Faults,
               culpritsFounded(vs, cs), faultsValid(fs), transition(vs, cs, fs)
        PROVE  F
    BY <2>1, NoChangeOfSides
  <2>2. ASSUME NEW r \in Reports, report(r)  PROVE F
    BY <2>2 DEF report
  <2>3. ASSUME NEW k \in ValidatorSets, advance(k)  PROVE F
    BY <2>3 DEF advance
  <2> HIDE DEF F
  <2> QED  BY <2>1, <2>2, <2>3 DEF Next
<1> QED  BY <1>1, PTL DEF Spec, JudgedForGood

------------------------------------------------------------------------------
\* The order of offenders is strict and, where keys differ, total.
LEMMA BeforeIsOrder ==
  ASSUME NEW T, \A e \in T : e.target \in Nat /\ e.key \in Nat,
         NEW p \in T, NEW q \in T, NEW r \in T
  PROVE  /\ ~before(p, p)
         /\ before(p, q) /\ before(q, r) => before(p, r)
         /\ p.key # q.key => before(p, q) \/ before(q, p)
BY DEF before

\* Sorting loses nothing: every place is taken by one of the offenders.
LEMMA KeysAreOf ==
  ASSUME NEW T, \A e \in T : e.target \in Nat /\ e.key \in Nat,
         NEW s \in Seq(T), \A i, j \in 1..Len(s) : s[i].key = s[j].key => i = j
  PROVE  \A n \in 1..Len(s) : \E i \in 1..Len(s) : keys(s)[n] = s[i].key
<1> DEFINE I == 1..Len(s)
           P(i) == {j \in I : before(s[j], s[i])}
           f == [i \in I |-> ahead(s, i) + 1]
<1>1. IsFiniteSet(I) /\ Cardinality(I) = Len(s) /\ \A i \in I : s[i] \in T
  <2>1. Len(s) \in Nat  OBVIOUS
  <2>2. IsFiniteSet(I) /\ Cardinality(I) = IF 1 > Len(s) THEN 0 ELSE Len(s) - 1 + 1
    BY <2>1, FS_Interval, SMTT(20)
  <2> QED  BY <2>1, <2>2
<1> HIDE DEF I
<1>2. ASSUME NEW i \in I  PROVE IsFiniteSet(P(i)) /\ ahead(s, i) = Cardinality(P(i))
                                /\ ahead(s, i) \in Nat /\ ahead(s, i) < Len(s)
  <2>1. P(i) \subseteq I \ {i}  BY <1>1, BeforeIsOrder
  <2>2. IsFiniteSet(I \ {i}) /\ Cardinality(I \ {i}) = Cardinality(I) - 1
    BY <1>1, FS_RemoveElement, Zenon
  <2>3. IsFiniteSet(P(i)) /\ Cardinality(P(i)) <= Cardinality(I \ {i})
    BY <2>1, <2>2, FS_Subset, Zenon
  <2>4. Cardinality(P(i)) \in Nat  BY <2>3, FS_CardinalityType, Zenon
  <2>5. ahead(s, i) = Cardinality(P(i))  BY DEF ahead, I
  <2>6. Len(s) \in Nat  OBVIOUS
  <2> HIDE DEF P
  <2> QED  BY <1>1, <2>2, <2>3, <2>4, <2>5, <2>6
<1>3. ASSUME NEW i \in I, NEW j \in I, before(s[i], s[j])  PROVE ahead(s, i) # ahead(s, j)
  <2>1. P(i) \subseteq P(j)  BY <1>1, <1>3, BeforeIsOrder
  <2>2. i \in P(j) /\ i \notin P(i)  BY <1>1, <1>3, BeforeIsOrder
  <2>3. P(i) # P(j)  BY <2>2, Zenon
  <2> HIDE DEF P
  <2> QED  BY <1>2, <2>1, <2>3, FS_Subset, Zenon
<1>10. \A i \in I : ahead(s, i) \in Nat /\ ahead(s, i) < Len(s)  BY <1>2, Zenon
<1>4. f \in Injection(I, I)
  <2>1. f \in [I -> I]
    <3>1. \A i \in I : ahead(s, i) + 1 \in I  BY <1>10 DEF I
    <3> QED  BY <3>1
  <2>2. ASSUME NEW i \in I, NEW j \in I, i # j  PROVE f[i] # f[j]
    <3>1. s[i].key # s[j].key  BY <2>2 DEF I
    <3>2. before(s[i], s[j]) \/ before(s[j], s[i])  BY <1>1, <3>1, BeforeIsOrder
    <3>3. ahead(s, i) # ahead(s, j)  BY <1>3, <3>2
    <3> QED  BY <1>10, <3>3
  <2> HIDE DEF f
  <2> QED  BY <2>1, <2>2 DEF Injection, IsInjective
<1>5. f \in Surjection(I, I)  BY <1>1, <1>4, FS_Injection, Zenon
<1> SUFFICES ASSUME NEW n \in I  PROVE \E i \in I : keys(s)[n] = s[i].key
  BY DEF I
<1>6. PICK i \in I : f[i] = n  BY <1>5, Zenon DEF Surjection
<1>7. ahead(s, i) = n - 1  BY <1>10, <1>6 DEF I
<1> DEFINE c == CHOOSE k \in I : ahead(s, k) = n - 1
<1>8. c \in I  BY <1>7, Zenon
<1>9. keys(s)[n] = s[c].key  BY DEF keys, I
<1> HIDE DEF c
<1> QED  BY <1>8, <1>9

\* An ascending list names nobody twice.
LEMMA AscendingIsDistinct ==
  ASSUME NEW s, Len(s) \in Nat, ascending([i \in 1..Len(s) |-> s[i].key]),
         \A i \in 1..Len(s) : s[i].key \in Nat
  PROVE  \A i, j \in 1..Len(s) : s[i].key = s[j].key => i = j
<1> DEFINE k == [i \in 1..Len(s) |-> s[i].key]
<1>1. Len(k) = Len(s) /\ \A i \in 1..Len(s) : k[i] = s[i].key  OBVIOUS
<1>2. \A i, j \in 1..Len(k) : i < j => k[i] < k[j]  BY DEF ascending
<1> HIDE DEF k
<1> QED  BY <1>1, <1>2

\* The mark of an accepted block names validators of this epoch whom no earlier block
\* named.
LEMMA MarkIsNew ==
  ASSUME NEW cs \in Culprits, NEW fs \in Faults, culpritsValid(cs), faultsValid(fs)
  PROVE  Range(keys(cs) \o keys(fs)) \subseteq Range(kappa) \ offenders
<1>1. cs \in Seq(Culprit) /\ fs \in Seq(Fault)
  BY ExtrinsicsAssumption DEF ExtrinsicsAssumption
<1>2. /\ \A e \in Culprit : e.target \in Nat /\ e.key \in Nat
      /\ \A e \in Fault : e.target \in Nat /\ e.key \in Nat
  BY DisputesAssumption, Zenon DEF DisputesAssumption, Culprit, Fault
<1>3. /\ \A i, j \in 1..Len(cs) : cs[i].key = cs[j].key => i = j
      /\ \A i, j \in 1..Len(fs) : fs[i].key = fs[j].key => i = j
  <2>1. /\ Len(cs) \in Nat /\ \A i \in 1..Len(cs) : cs[i].key \in Nat
        /\ Len(fs) \in Nat /\ \A i \in 1..Len(fs) : fs[i].key \in Nat
    BY <1>1, <1>2
  <2>2. /\ ascending([i \in 1..Len(cs) |-> cs[i].key])
        /\ ascending([i \in 1..Len(fs) |-> fs[i].key])
    BY DEF culpritsValid, faultsValid
  <2> QED  BY <2>1, <2>2, AscendingIsDistinct, Zenon
<1>4. /\ \A n \in 1..Len(cs) : \E i \in 1..Len(cs) : keys(cs)[n] = cs[i].key
      /\ \A n \in 1..Len(fs) : \E i \in 1..Len(fs) : keys(fs)[n] = fs[i].key
  <2>1. \A n \in 1..Len(cs) : \E i \in 1..Len(cs) : keys(cs)[n] = cs[i].key
    BY <1>1, <1>2, <1>3, KeysAreOf, Zenon
  <2>2. \A n \in 1..Len(fs) : \E i \in 1..Len(fs) : keys(fs)[n] = fs[i].key
    BY <1>1, <1>2, <1>3, KeysAreOf, Zenon
  <2> QED  BY <2>1, <2>2, Zenon
<1>5. /\ \A i \in 1..Len(cs) : cs[i].key \in Range(kappa) \ offenders
      /\ \A i \in 1..Len(fs) : fs[i].key \in Range(kappa) \ offenders
  BY DEF culpritsValid, faultsValid, isNew
<1> DEFINE N == Range(kappa) \ offenders
<1> HIDE DEF N
<1>6. keys(cs) \in Seq(N) /\ keys(fs) \in Seq(N)
  <2>1. \A n \in 1..Len(cs) : keys(cs)[n] \in N  BY <1>4, <1>5, Zenon DEF N
  <2>2. \A n \in 1..Len(fs) : keys(fs)[n] \in N  BY <1>4, <1>5, Zenon DEF N
  <2>3. keys(cs) \in [1..Len(cs) -> N]  BY <2>1, Zenon DEF keys
  <2>4. keys(fs) \in [1..Len(fs) -> N]  BY <2>2, Zenon DEF keys
  <2>5. Len(cs) \in Nat /\ Len(fs) \in Nat  BY <1>1
  <2> QED  BY <2>3, <2>4, <2>5
<1>7. keys(cs) \o keys(fs) \in Seq(N)  BY <1>6
<1> QED  BY <1>7 DEF Range, N

\* Every mark names new offenders of this epoch only, and the marks together are the
\* punish-set.
THEOREM OffendersMarkedOnce == Spec => MarksAreNew
<1> DEFINE M == offenders_mark' # offenders_mark =>
                  /\ Range(offenders_mark') \subseteq Range(kappa) \ offenders
                  /\ offenders' = offenders \cup Range(offenders_mark')
<1>1. [Next]_vars => [M]_vars
  <2> SUFFICES ASSUME Next PROVE M
    OBVIOUS
  <2>1. ASSUME NEW vs \in Verdicts, NEW cs \in Culprits, NEW fs \in Faults,
               culpritsValid(cs), faultsValid(fs), transition(vs, cs, fs)
        PROVE  M
    <3>1. Range(keys(cs) \o keys(fs)) \subseteq Range(kappa) \ offenders
      BY <2>1, MarkIsNew
    <3> QED  BY <2>1, <3>1, Zenon DEF transition
  <2>2. ASSUME NEW r \in Reports, report(r)  PROVE M
    BY <2>2 DEF report
  <2>3. ASSUME NEW k \in ValidatorSets, advance(k)  PROVE M
    BY <2>3 DEF advance
  <2> HIDE DEF M
  <2> QED  BY <2>1, <2>2, <2>3, Zenon DEF Next
<1> QED  BY <1>1, PTL DEF Spec, MarksAreNew

------------------------------------------------------------------------------
\* Induction over 0..n, for a set.
LEMMA InductionTo ==
  ASSUME NEW S, NEW n \in Nat, 0 \in S, \A m \in 0..n : m \in S /\ m < n => m + 1 \in S
  PROVE  \A m \in 0..n : m \in S
<1> DEFINE B == {m \in Nat : m <= n /\ m \notin S}
<1> SUFFICES ASSUME B # {} PROVE FALSE
  OBVIOUS
<1>1. B \subseteq Nat  OBVIOUS
<1> DEFINE R == {p \in Nat \X Nat : p[1] < p[2]}
<1>10. OpToRel(<, Nat) = R  BY Zenon DEF OpToRel
<1>2. IsWellFoundedOn(R, Nat)  BY <1>10, NatLessThanWellFounded, Zenon
<1>3. PICK m \in B : \A k \in B : ~(<<k, m>> \in R)
  <2> HIDE DEF R, B
  <2> QED  BY <1>1, <1>2, WFMin, Zenon
<1>4. \A k \in Nat : k < m => k \notin B  BY <1>1, <1>3, Zenon
<1> QED  BY <1>3, <1>4

\* R is a strict order in which any two of I are related.
Orders(R, I) ==
  /\ \A i \in I : <<i, i>> \notin R
  /\ \A i, j, k \in I : <<i, j>> \in R /\ <<j, k>> \in R => <<i, k>> \in R
  /\ \A i, j \in I : i # j => <<i, j>> \in R \/ <<j, i>> \in R

Before(R, I, i) == {j \in I : <<j, i>> \in R}

\* Every number below |I| is the number of elements before one of I.
LEMMA RankIsOnto ==
  ASSUME NEW I, IsFiniteSet(I), NEW R, Orders(R, I), NEW n \in 1..Cardinality(I)
  PROVE  \E i \in I : Cardinality(Before(R, I, i)) = n - 1
<1> DEFINE P(i) == Before(R, I, i)
           N == 1..Cardinality(I)
           f == [i \in I |-> Cardinality(P(i)) + 1]
<1>1. Cardinality(I) \in Nat  BY FS_CardinalityType, Zenon
<1>2. IsFiniteSet(N) /\ Cardinality(N) = Cardinality(I)
  <2>1. IsFiniteSet(N) /\ Cardinality(N) = IF 1 > Cardinality(I) THEN 0
                                           ELSE Cardinality(I) - 1 + 1
    BY <1>1, FS_Interval, SMTT(20)
  <2> QED  BY <1>1, <2>1
<1>3. ASSUME NEW i \in I
      PROVE  /\ IsFiniteSet(P(i))
             /\ Cardinality(P(i)) \in Nat
             /\ Cardinality(P(i)) + 1 \in N
  <2>1. P(i) \in SUBSET (I \ {i})  BY DEF Orders, Before
  <2>2. IsFiniteSet(I \ {i}) /\ Cardinality(I \ {i}) = Cardinality(I) - 1
    BY FS_RemoveElement, Zenon
  <2>3. IsFiniteSet(P(i)) /\ Cardinality(P(i)) <= Cardinality(I \ {i})
    BY <2>1, <2>2, FS_Subset, Zenon
  <2>4. Cardinality(P(i)) \in Nat  BY <2>3, FS_CardinalityType, Zenon
  <2> DEFINE x == Cardinality(P(i))
             y == Cardinality(I \ {i})
  <2> HIDE DEF P
  <2>5. x \in Nat /\ x <= y /\ y = Cardinality(I) - 1  BY <2>2, <2>3, <2>4
  <2> HIDE DEF x, y
  <2>6. x + 1 \in N  BY <1>1, <2>5
  <2> QED  BY <2>3, <2>4, <2>6 DEF x
<1>4. ASSUME NEW i \in I, NEW j \in I, <<i, j>> \in R
      PROVE  Cardinality(P(i)) # Cardinality(P(j))
  <2>1. P(i) \in SUBSET P(j)  BY <1>4 DEF Orders, Before
  <2>2. P(i) # P(j)  BY <1>4, Zenon DEF Orders, Before
  <2> HIDE DEF P
  <2> QED  BY <1>3, <2>1, <2>2, FS_Subset, Zenon
<1>5. f \in Injection(I, N)
  <2>1. f \in [I -> N]
    <3> HIDE DEF P, N
    <3> QED  BY <1>3
  <2>2. ASSUME NEW i \in I, NEW j \in I, i # j  PROVE f[i] # f[j]
    <3>1. Cardinality(P(i)) # Cardinality(P(j))  BY <1>4, <2>2, Zenon DEF Orders
    <3>2. Cardinality(P(i)) \in Nat /\ Cardinality(P(j)) \in Nat  BY <1>3
    <3> HIDE DEF P
    <3> QED  BY <3>1, <3>2
  <2> HIDE DEF f, N
  <2> QED  BY <2>1, <2>2 DEF Injection, IsInjective
<1>6. f \in Surjection(I, N)
  <2> HIDE DEF f, N
  <2> QED  BY <1>2, <1>5, FS_Injection, Zenon
<1>7. PICK i \in I : f[i] = n
  <2> HIDE DEF f
  <2> QED  BY <1>6 DEF Surjection
<1>8. Cardinality(P(i)) \in Nat  BY <1>3
<1>9. Cardinality(P(i)) = n - 1
  <2> HIDE DEF P
  <2> QED  BY <1>7, <1>8
<1> QED  BY <1>9

------------------------------------------------------------------------------
\* The places of a set of numbers are its elements in ascending order, and no later
\* than they would be if only the first ones were missing.
LEMMA PlacesInOrder ==
  ASSUME NEW m \in Nat, NEW I \in SUBSET (1..m)
  PROVE  /\ IsFiniteSet(I) /\ Cardinality(I) \in Nat /\ Cardinality(I) <= m
         /\ \A n \in 1..Cardinality(I) :
              nth(I, n) \in I /\ nth(I, n) <= m - (Cardinality(I) - n)
         /\ \A n, k \in 1..Cardinality(I) : n < k => nth(I, n) < nth(I, k)
<1> DEFINE R == {p \in I \X I : p[1] < p[2]}
           L(i) == {j \in I : j < i}
<1>1. IsFiniteSet(1..m) /\ Cardinality(1..m) = m
  <2>1. IsFiniteSet(1..m) /\ Cardinality(1..m) = IF 1 > m THEN 0 ELSE m - 1 + 1
    BY FS_Interval
  <2> QED  BY <2>1
<1>2. IsFiniteSet(I) /\ Cardinality(I) \in Nat /\ Cardinality(I) <= m
  BY <1>1, FS_Subset, FS_CardinalityType, Zenon
<1>3. ASSUME NEW n \in 1..Cardinality(I)
      PROVE  nth(I, n) \in I /\ Cardinality(L(nth(I, n))) = n - 1
  <2>1. \E i \in I : Cardinality(Before(R, I, i)) = n - 1
    <3>1. Orders(R, I)  BY DEF Orders
    <3> HIDE DEF R
    <3> QED  BY <1>2, <3>1, RankIsOnto, Zenon
  <2>2. \A i \in I : Before(R, I, i) = L(i)  BY DEF Before
  <2>3. \E i \in I : Cardinality({j \in I : j < i}) = n - 1  BY <2>1, <2>2, Zenon
  <2> QED  BY <2>3, Zenon DEF nth
<1>4. ASSUME NEW n \in 1..Cardinality(I), NEW k \in 1..Cardinality(I), n < k
      PROVE  nth(I, n) < nth(I, k)
  <2> DEFINE a == nth(I, n)
             b == nth(I, k)
  <2>1. a \in I /\ Cardinality(L(a)) = n - 1 /\ b \in I /\ Cardinality(L(b)) = k - 1
    BY <1>3
  <2> HIDE DEF a, b
  <2> SUFFICES ASSUME ~(a < b) PROVE FALSE
    BY DEF a, b
  <2>2. L(b) \in SUBSET L(a)
    <3>1. a \in I /\ b \in I  BY <2>1, Zenon
    <3>2. \A j \in I : j \in Int /\ a \in Int /\ b \in Int  BY <3>1
    <3>3. \A j \in I : j < b => j < a  BY <3>2
    <3> QED  BY <3>3, Zenon
  <2>3. L(a) \in SUBSET I  OBVIOUS
  <2>10. IsFiniteSet(L(a))  BY <1>2, <2>3, FS_Subset, Zenon
  <2> HIDE DEF L
  <2>4. Cardinality(L(b)) <= Cardinality(L(a))  BY <2>2, <2>10, FS_Subset, Zenon
  <2> QED  BY <1>2, <1>4, <2>1, <2>4
<1>5. ASSUME NEW n \in 1..Cardinality(I)
      PROVE  nth(I, n) <= m - (Cardinality(I) - n)
  <2> DEFINE a == nth(I, n)
             U == I \ (L(a) \cup {a})
  <2>1. a \in I /\ Cardinality(L(a)) = n - 1  BY <1>3
  <2> HIDE DEF a
  <2>2. a \in Nat /\ a \in 1..m  BY <2>1
  <2>3. L(a) \in SUBSET I /\ a \notin L(a) /\ (I \cap (L(a) \cup {a})) = L(a) \cup {a}
    BY <2>1, <2>2
  <2>4. U \in SUBSET (a + 1 .. m)
    <3>1. \A j \in I : ~(j < a) /\ j # a => j \in a + 1 .. m  BY <2>2
    <3>2. \A j \in U : j \in I /\ ~(j < a) /\ j # a  BY Zenon
    <3> QED  BY <3>1, <3>2, Zenon
  <2>5. IsFiniteSet(a + 1 .. m) /\ Cardinality(a + 1 .. m) = m - a
    <3>1. IsFiniteSet(a + 1 .. m)
          /\ Cardinality(a + 1 .. m) = IF a + 1 > m THEN 0 ELSE m - (a + 1) + 1
      BY <2>2, FS_Interval
    <3> QED  BY <2>2, <3>1
  <2> HIDE DEF L
  <2>6. IsFiniteSet(L(a))  BY <1>2, <2>3, FS_Subset, Zenon
  <2>7. IsFiniteSet(L(a) \cup {a}) /\ Cardinality(L(a) \cup {a}) = Cardinality(L(a)) + 1
    BY <2>3, <2>6, FS_AddElement, Zenon
  <2>8. Cardinality(U) = Cardinality(I) - Cardinality(L(a) \cup {a})
    BY <1>2, <2>3, FS_Difference, Zenon
  <2>9. Cardinality(U) <= m - a
    <3> HIDE DEF U
    <3> QED  BY <2>4, <2>5, FS_Subset, Zenon
  <2> HIDE DEF U
  <2>10. a <= m - (Cardinality(I) - n)  BY <1>2, <2>1, <2>2, <2>7, <2>8, <2>9
  <2> QED  BY <2>10 DEF a
<1> QED  BY <1>2, <1>3, <1>4, <1>5, Zenon

\* erase(): what is left is as long at most, and in order.
LEMMA ErasedInOrder ==
  ASSUME NEW pool \in Seq(Authorizers), NEW a
  PROVE  LET rest == erased(pool, a)
         IN  /\ rest \in Seq(Authorizers)
             /\ Len(rest) <= Len(pool)
             /\ \E h \in [1..Len(rest) -> 1..Len(pool)] :
                  /\ \A i, j \in 1..Len(rest) : i < j => h[i] < h[j]
                  /\ \A i \in 1..Len(rest) :
                       rest[i] = pool[h[i]] /\ h[i] <= Len(pool) - (Len(rest) - i)
<1> DEFINE I == others(pool, a)
           m == Len(pool)
           k == Cardinality(I)
           rest == erased(pool, a)
           h == [i \in 1..k |-> nth(I, i)]
<1>1. m \in Nat /\ I \in SUBSET (1..m)  BY DEF others
<1> HIDE DEF I, m
<1>2. /\ IsFiniteSet(I) /\ k \in Nat /\ k <= m
      /\ \A n \in 1..k : nth(I, n) \in I /\ nth(I, n) <= m - (k - n)
      /\ \A n, j \in 1..k : n < j => nth(I, n) < nth(I, j)
  BY <1>1, PlacesInOrder, Zenon
<1>3. rest = [i \in 1..k |-> pool[nth(I, i)]]  BY DEF erased, I
<1> HIDE DEF k, rest
<1>4. \A i \in 1..k : nth(I, i) \in 1..m /\ pool[nth(I, i)] \in Authorizers
  <2> TAKE i \in 1..k
  <2>1. nth(I, i) \in 1..m  BY <1>1, <1>2, Zenon
  <2> QED  BY <2>1 DEF m
<1>5. rest \in [1..k -> Authorizers]  BY <1>3, <1>4
<1>6. rest \in Seq(Authorizers) /\ Len(rest) = k  BY <1>2, <1>5
<1>7. h \in [1..k -> 1..m]  BY <1>4
<1>8. \A i, j \in 1..k : i < j => h[i] < h[j]  BY <1>2
<1>9. \A i \in 1..k : rest[i] = pool[h[i]] /\ h[i] <= m - (k - i)  BY <1>2, <1>3
<1> HIDE DEF h
<1> QED  BY <1>2, <1>6, <1>7, <1>8, <1>9, Zenon DEF m, rest

------------------------------------------------------------------------------
\* What the loop over the used authorizers has in its hands.
UsedState == [pools : [Cores -> Seq(Authorizers)], deleted : [Cores -> BOOLEAN],
              drawn : [Cores -> Nat]]

\* After some of them: pools have not grown, those that were refilled end with the
\* queue's entry, and what is left of the old pools comes first.
Used(s, st) ==
  /\ st \in UsedState
  /\ \A c \in Cores : Len(st.pools[c]) <= Len(pools[c])
  /\ \A c \in Cores :
       st.deleted[c] => /\ st.pools[c] # <<>>
                        /\ st.pools[c][Len(st.pools[c])] = queueEntry(c, s)
  /\ \A c \in Cores : keeps(st.pools[c], Len(st.pools[c]) - st.drawn[c], pools[c])

\* An entry of a queue is an authorizer.
LEMMA EntryType ==
  ASSUME AuthTypeOK, NEW c \in Cores, NEW s \in Nat
  PROVE  queueEntry(c, s) \in Authorizers /\ s % QueueSize \in 0..QueueSize - 1
<1>1. s % QueueSize \in 0..QueueSize - 1  BY AuthAssumption DEF AuthAssumption
<1> QED  BY <1>1, Zenon DEF queueEntry, AuthTypeOK

\* A pool keeps itself.
LEMMA KeepsAll ==
  ASSUME NEW p \in Seq(Authorizers)
  PROVE  keeps(p, Len(p), p)
<1> DEFINE g == [i \in 1..Len(p) |-> i]
<1>1. g \in [1..Len(p) -> 1..Len(p)]  OBVIOUS
<1>2. \A i, j \in 1..Len(p) : i < j => g[i] < g[j]  OBVIOUS
<1>3. \A i \in 1..Len(p) : p[i] = p[g[i]]  OBVIOUS
<1> HIDE DEF g
<1> QED  BY <1>1, <1>2, <1>3 DEF keeps

\* The first m of q are among the first n of p, in the same order.
Picks(q, m, p, n) ==
  \E h \in [1..m -> 1..n] : /\ \A i, j \in 1..m : i < j => h[i] < h[j]
                            /\ \A i \in 1..m : q[i] = p[h[i]]

\* What is picked from a pick is picked from the whole.
LEMMA PicksOfPicks ==
  ASSUME NEW q, NEW m, NEW p, NEW n, NEW old, Picks(q, m, p, n), keeps(p, n, old)
  PROVE  keeps(q, m, old)
<1>1. PICK g \in [1..n -> 1..Len(old)] : /\ \A i, j \in 1..n : i < j => g[i] < g[j]
                                         /\ \A i \in 1..n : p[i] = old[g[i]]
  BY Zenon DEF keeps
<1>2. PICK h \in [1..m -> 1..n] : /\ \A i, j \in 1..m : i < j => h[i] < h[j]
                                  /\ \A i \in 1..m : q[i] = p[h[i]]
  BY Zenon DEF Picks
<1> DEFINE f == [i \in 1..m |-> g[h[i]]]
<1>3. f \in [1..m -> 1..Len(old)]  OBVIOUS
<1>4. \A i, j \in 1..m : i < j => f[i] < f[j]
  <2>1. \A i \in 1..m : h[i] \in 1..n  OBVIOUS
  <2>2. \A i, j \in 1..m : i < j => g[h[i]] < g[h[j]]  BY <1>1, <1>2, <2>1, Zenon
  <2> QED  BY <2>2
<1>5. \A i \in 1..m : q[i] = old[f[i]]  BY <1>1, <1>2
<1> HIDE DEF f
<1> QED  BY <1>3, <1>4, <1>5, Zenon DEF keeps

\* One used authorizer keeps what Used says of the pools.
LEMMA UseKeeps ==
  ASSUME AuthTypeOK, NEW s \in Nat, NEW auth \in Auths, NEW st, Used(s, st)
  PROVE  Used(s, use(s, auth, st))
<1> DEFINE c == auth.core
           pool == st.pools[c]
           rest == erased(pool, auth.authorizer)
           e == queueEntry(c, s)
           new == Append(rest, e)
           d == st.drawn[c]
           n == use(s, auth, st)
<1>1. c \in Cores /\ st \in UsedState  BY DEF Auths, Used
<1>2. CASE Len(rest) = Len(pool)
  BY <1>2 DEF use
<1>3. CASE Len(rest) # Len(pool)
  <2>1. pool \in Seq(Authorizers) /\ d \in Nat /\ e \in Authorizers
    BY <1>1, EntryType, Zenon DEF UsedState
  <2>2. /\ rest \in Seq(Authorizers) /\ Len(rest) <= Len(pool)
        /\ \E h \in [1..Len(rest) -> 1..Len(pool)] :
             /\ \A i, j \in 1..Len(rest) : i < j => h[i] < h[j]
             /\ \A i \in 1..Len(rest) :
                  rest[i] = pool[h[i]] /\ h[i] <= Len(pool) - (Len(rest) - i)
    BY <2>1, ErasedInOrder, Zenon
  <2>3. n = [pools |-> [st.pools EXCEPT ![c] = new],
             deleted |-> [st.deleted EXCEPT ![c] = TRUE],
             drawn |-> [st.drawn EXCEPT ![c] = d + 1]]
    BY <1>3 DEF use
  <2> HIDE DEF c, rest, pool, e, d, n
  <2>4. /\ new \in Seq(Authorizers) /\ Len(new) = Len(rest) + 1
        /\ new[Len(new)] = e /\ new # <<>>
        /\ \A i \in 1..Len(rest) : new[i] = rest[i]
    <3>1. rest \in Seq(Authorizers) /\ e \in Authorizers  BY <2>1, <2>2
    <3>2. /\ new \in Seq(Authorizers) /\ Len(new) = Len(rest) + 1 /\ Len(rest) \in Nat
          /\ \A i \in 1..Len(rest) : new[i] = rest[i]
      BY <3>1
    <3>3. new[Len(rest) + 1] = e  BY <3>1
    <3>4. new # <<>>  BY <3>2
    <3> HIDE DEF new
    <3> QED  BY <3>2, <3>3, <3>4
  <2>5. keeps(new, Len(new) - (d + 1), pools[c])
    <3> DEFINE m == Len(new) - (d + 1)
               k == Len(pool) - d
    <3>1. PICK h \in [1..Len(rest) -> 1..Len(pool)] :
             /\ \A i, j \in 1..Len(rest) : i < j => h[i] < h[j]
             /\ \A i \in 1..Len(rest) :
                  rest[i] = pool[h[i]] /\ h[i] <= Len(pool) - (Len(rest) - i)
      BY <2>2, Zenon
    <3>2. m \in Int /\ k \in Int /\ m = Len(rest) - d /\ m <= Len(rest)
          /\ Len(rest) \in Nat /\ Len(pool) \in Nat
      BY <2>1, <2>2, <2>4
    <3>3. keeps(pool, k, pools[c])  BY <1>1, Zenon DEF Used, pool, d, c
    <3>4. Len(pools[c]) \in Nat  BY <1>1 DEF AuthTypeOK
    <3> HIDE DEF m, k, new
    <3> DEFINE f == [i \in 1..m |-> h[i]]
    <3>5. \A i \in 1..m : i \in 1..Len(rest) /\ h[i] \in 1..k
      <4> TAKE i \in 1..m
      <4>1. i \in 1..Len(rest)  BY <3>2
      <4>2. h[i] \in 1..Len(pool) /\ h[i] <= Len(pool) - (Len(rest) - i)  BY <3>1, <4>1, Zenon
      <4> QED  BY <3>2, <4>1, <4>2, <2>1 DEF k
    <3>6. f \in [1..m -> 1..k]  BY <3>5
    <3>7. \A i, j \in 1..m : i < j => f[i] < f[j]  BY <3>1, <3>5
    <3>8. \A i \in 1..m : new[i] = pool[f[i]]  BY <2>4, <3>1, <3>5
    <3> HIDE DEF f
    <3>9. Picks(new, m, pool, k)  BY <3>6, <3>7, <3>8, Zenon DEF Picks
    <3>10. keeps(new, m, pools[c])  BY <3>3, <3>9, PicksOfPicks, Zenon
    <3> QED  BY <3>10 DEF m
  <2>6. Len(new) <= Len(pools[c])
    <3>1. Len(pool) <= Len(pools[c])  BY <1>1 DEF Used, pool, c
    <3>2. Len(pools[c]) \in Nat  BY <1>1 DEF AuthTypeOK
    <3> QED  BY <1>3, <2>1, <2>2, <2>4, <3>1, <3>2
  <2> HIDE DEF new
  <2>7. n \in UsedState  BY <1>1, <2>1, <2>3, <2>4 DEF UsedState
  <2>8. /\ n.pools[c] = new /\ n.drawn[c] = d + 1
        /\ \A b \in Cores : b # c => /\ n.pools[b] = st.pools[b]
                                     /\ n.drawn[b] = st.drawn[b]
                                     /\ n.deleted[b] = st.deleted[b]
    BY <1>1, <2>3 DEF UsedState
  <2>9. Used(s, n)
    <3>1. \A b \in Cores : Len(n.pools[b]) <= Len(pools[b])
      BY <2>6, <2>8, Zenon DEF Used
    <3>2. \A b \in Cores :
            n.deleted[b] => n.pools[b] # <<>> /\ n.pools[b][Len(n.pools[b])] = queueEntry(b, s)
      BY <2>4, <2>8, Zenon DEF Used, e
    <3>3. \A b \in Cores : keeps(n.pools[b], Len(n.pools[b]) - n.drawn[b], pools[b])
      BY <2>5, <2>8, Zenon DEF Used
    <3> QED  BY <2>7, <3>1, <3>2, <3>3, Zenon DEF Used
  <2> QED  BY <2>9 DEF n
<1> QED  BY <1>2, <1>3

\* The loop over the used authorizers computes what useAll says.
LEMMA LoopOf ==
  ASSUME NEW s, NEW n \in Nat, NEW auths \in [1..n -> Auths]
  PROVE  \E u : /\ u = [m \in 0..n |-> IF m = 0 THEN used0 ELSE use(s, auths[m], u[m - 1])]
               /\ useAll(s, auths) = u[n]
<1> DEFINE upTo(u, k) == u = [m \in 0..k |-> IF m = 0 THEN used0
                                            ELSE use(s, auths[m], u[m - 1])]
           S == {k \in 0..n : \E u : upTo(u, k)}
<1>1. Len(auths) = n  OBVIOUS
<1>2. 0 \in S
  <2> DEFINE u == [m \in 0..0 |-> used0]
  <2>1. upTo(u, 0)  OBVIOUS
  <2> HIDE DEF u, upTo
  <2> QED  BY <2>1
<1>3. ASSUME NEW k \in 0..n, k \in S, k < n  PROVE k + 1 \in S
  <2>1. PICK u : upTo(u, k)  BY <1>3
  <2> DEFINE v == [m \in 0..k + 1 |-> IF m = k + 1 THEN use(s, auths[m], u[k]) ELSE u[m]]
  <2>2. \A m \in 0..k : u[m] = IF m = 0 THEN used0 ELSE use(s, auths[m], u[m - 1])
    BY <2>1
  <2>3. \A m \in 0..k : v[m] = u[m]  BY <1>3
  <2>4. \A m \in 0..k + 1 : v[m] = IF m = 0 THEN used0 ELSE use(s, auths[m], v[m - 1])
    <3> TAKE m \in 0..k + 1
    <3>1. CASE m = k + 1
      <4>1. m # 0 /\ m - 1 = k /\ k \in 0..k  BY <3>1
      <4>2. v[m] = use(s, auths[m], u[k])  BY <3>1
      <4> HIDE DEF v
      <4> QED  BY <2>3, <4>1, <4>2
    <3>2. CASE m \in 0..k
      <4>1. m # 0 => m - 1 \in 0..k  BY <3>2
      <4> HIDE DEF v
      <4> QED  BY <2>2, <2>3, <3>2, <4>1
    <3> QED  BY <1>3, <3>1, <3>2
  <2>5. v = [m \in 0..k + 1 |-> v[m]]  OBVIOUS
  <2> HIDE DEF v
  <2>6. upTo(v, k + 1)  BY <2>4, <2>5, Zenon
  <2> HIDE DEF upTo
  <2> QED  BY <1>3, <2>6
<1>4. n \in S
  <2> HIDE DEF S
  <2>1. \A k \in 0..n : k \in S  BY <1>2, <1>3, InductionTo, Zenon
  <2> QED  BY <2>1
<1>5. PICK w : w = [m \in 0..n |-> IF m = 0 THEN used0 ELSE use(s, auths[m], w[m - 1])]
  BY <1>4
<1> DEFINE u == CHOOSE g : g = [m \in 0..Len(auths) |-> IF m = 0 THEN used0
                                                       ELSE use(s, auths[m], g[m - 1])]
<1>6. u = [m \in 0..n |-> IF m = 0 THEN used0 ELSE use(s, auths[m], u[m - 1])]
  BY <1>1, <1>5, Zenon
<1>7. useAll(s, auths) = u[n]  BY <1>1 DEF useAll
<1> HIDE DEF u
<1> QED  BY <1>6, <1>7

\* All used authorizers of a block keep it.
LEMMA UsedAll ==
  ASSUME AuthTypeOK, NEW s \in Nat, NEW n \in Nat, NEW auths \in [1..n -> Auths]
  PROVE  Used(s, useAll(s, auths))
<1>1. PICK u : /\ u = [m \in 0..n |-> IF m = 0 THEN used0 ELSE use(s, auths[m], u[m - 1])]
               /\ useAll(s, auths) = u[n]
  BY LoopOf, Zenon
<1>2. u[0] = used0 /\ \A m \in 1..n : u[m] = use(s, auths[m], u[m - 1])
  BY <1>1
<1> DEFINE S == {m \in 0..n : Used(s, u[m])}
<1>3. 0 \in S
  <2>1. used0 \in UsedState  BY Zenon DEF used0, UsedState, AuthTypeOK
  <2>2. ASSUME NEW c \in Cores
        PROVE  /\ used0.pools[c] = pools[c] /\ ~used0.deleted[c] /\ used0.drawn[c] = 0
               /\ pools[c] \in Seq(Authorizers) /\ Len(pools[c]) \in Nat
               /\ Len(pools[c]) - 0 = Len(pools[c])
    BY DEF used0, AuthTypeOK
  <2>3. \A c \in Cores : keeps(pools[c], Len(pools[c]), pools[c])  BY <2>2, KeepsAll
  <2>4. Used(s, used0)
    <3>1. \A c \in Cores : Len(pools[c]) <= Len(pools[c])  BY <2>2
    <3> QED  BY <2>1, <2>2, <2>3, <3>1, Zenon DEF Used
  <2> QED  BY <1>2, <2>4
<1>4. ASSUME NEW m \in 0..n, m \in S, m < n  PROVE m + 1 \in S
  <2>1. m + 1 \in 1..n /\ m + 1 \in 0..n /\ (m + 1) - 1 = m  BY <1>4
  <2>2. Used(s, u[m])  BY <1>4
  <2>3. auths[m + 1] \in Auths /\ u[m + 1] = use(s, auths[m + 1], u[m])  BY <1>2, <2>1
  <2> QED  BY <2>1, <2>2, <2>3, UseKeeps
<1>5. n \in S
  <2> HIDE DEF S
  <2>1. \A k \in 0..n : k \in S  BY <1>3, <1>4, InductionTo, SMTT(20)
  <2> QED  BY <2>1
<1> QED  BY <1>1, <1>5

\* The rest of the block, for one core.
LEMMA FilledPool ==
  ASSUME AuthTypeOK, PoolBounded, NEW s \in Nat, NEW st, Used(s, st), NEW c \in Cores,
         NEW room, room = makeRoom(st.pools[c], st.deleted[c]),
         NEW pool, pool = fill(c, s, room),
         NEW d, d = st.drawn[c] + IF hasRoom(room) THEN 1 ELSE 0
  PROVE  /\ pool \in Seq(Authorizers) /\ d \in Nat
         /\ Len(pool) <= PoolMaxSize
         /\ pool # <<>> /\ pool[Len(pool)] = queueEntry(c, s)
         /\ keeps(pool, Len(pool) - d, pools[c])
<1> DEFINE p == st.pools[c]
           b == st.drawn[c]
           e == queueEntry(c, s)
<1>1. p \in Seq(Authorizers) /\ b \in Nat /\ e \in Authorizers /\ Len(p) \in Nat
  BY EntryType DEF Used, UsedState
<1>2. Len(p) <= PoolMaxSize /\ PoolMaxSize \in Nat /\ PoolMaxSize >= 1
  <2>1. Len(p) <= Len(pools[c])  BY Zenon DEF Used
  <2>2. Len(pools[c]) <= PoolMaxSize /\ Len(pools[c]) \in Nat  BY DEF PoolBounded, AuthTypeOK
  <2> QED  BY <1>1, <2>1, <2>2, AuthAssumption DEF AuthAssumption
<1>3. keeps(p, Len(p) - b, pools[c])  BY Zenon DEF Used
<1>4. st.deleted[c] => p # <<>> /\ p[Len(p)] = e  BY Zenon DEF Used
<1> HIDE DEF p, b, e
<1>5. /\ room \in Seq(Authorizers) /\ Len(room) \in Nat /\ Len(room) <= PoolMaxSize
      /\ keeps(room, Len(room) - b, pools[c])
      /\ Len(room) = PoolMaxSize => room # <<>> /\ room[Len(room)] = e
  <2>1. CASE ~st.deleted[c] /\ Len(p) = PoolMaxSize
    <3>1. room = Tail(p)  BY <2>1 DEF makeRoom, p
    <3>2. p # <<>>  BY <1>2, <2>1
    <3>3. /\ room \in Seq(Authorizers) /\ Len(room) = Len(p) - 1
          /\ \A i \in 1..Len(p) - 1 : room[i] = p[i + 1]
      BY <1>1, <3>1, <3>2
    <3> DEFINE m == Len(room) - b
               k == Len(p) - b
               h == [i \in 1..m |-> i + 1]
    <3>4. m \in Int /\ k = m + 1 /\ m <= Len(p) - 1  BY <1>1, <3>3
    <3> HIDE DEF m, k
    <3>5. h \in [1..m -> 1..k]  BY <3>4
    <3>6. \A i, j \in 1..m : i < j => h[i] < h[j]  BY <3>4
    <3>7. \A i \in 1..m : room[i] = p[h[i]]
      <4>1. \A i \in 1..m : i \in 1..Len(p) - 1  BY <1>1, <3>4
      <4> QED  BY <3>3, <4>1
    <3> HIDE DEF h
    <3>8. Picks(room, m, p, k)  BY <3>5, <3>6, <3>7, Zenon DEF Picks
    <3>9. keeps(room, m, pools[c])  BY <1>3, <3>8, PicksOfPicks, Zenon DEF k
    <3> QED  BY <1>1, <1>2, <2>1, <3>3, <3>9 DEF m
  <2>2. CASE ~(~st.deleted[c] /\ Len(p) = PoolMaxSize)
    <3>1. room = p  BY <2>2, SMTT(20) DEF makeRoom, p
    <3> QED  BY <1>1, <1>2, <1>3, <1>4, <2>2, <3>1, Zenon
  <2> QED  BY <2>1, <2>2, Zenon
<1>6. CASE Len(room) < PoolMaxSize
  <2>1. pool = Append(room, e) /\ d = b + 1  BY <1>6, Zenon DEF fill, hasRoom, e, b
  <2>2. /\ pool \in Seq(Authorizers) /\ Len(pool) = Len(room) + 1
        /\ \A i \in 1..Len(room) : pool[i] = room[i]
    BY <1>1, <1>5, <2>1, SMTT(20)
  <2>3. pool[Len(room) + 1] = e  BY <1>1, <1>5, <2>1
  <2>4. pool # <<>>  BY <1>5, <2>2
  <2> DEFINE m == Len(room) - b
             h == [i \in 1..m |-> i]
  <2>5. m \in Int /\ m <= Len(room) /\ Len(pool) - d = m
    <3>1. d = b + 1  BY <2>1
    <3> QED  BY <1>1, <1>5, <2>2, <3>1
  <2> HIDE DEF m
  <2>6. h \in [1..m -> 1..m]  BY <2>5
  <2>7. \A i, j \in 1..m : i < j => h[i] < h[j]  BY <2>5, Zenon
  <2>8. \A i \in 1..m : pool[i] = room[h[i]]
    <3>1. \A i \in 1..m : i \in 1..Len(room)  BY <1>5, <2>5
    <3> QED  BY <2>2, <3>1, Zenon
  <2> HIDE DEF h
  <2>9. Picks(pool, m, room, m)  BY <2>6, <2>7, <2>8, Zenon DEF Picks
  <2>10. keeps(pool, m, pools[c])  BY <1>5, <2>9, PicksOfPicks, Zenon DEF m
  <2>11. Len(pool) <= PoolMaxSize /\ d \in Nat /\ pool[Len(pool)] = e
    BY <1>1, <1>2, <1>5, <1>6, <2>1, <2>2, <2>3
  <2> QED  BY <2>2, <2>4, <2>5, <2>10, <2>11 DEF e
<1>7. CASE ~(Len(room) < PoolMaxSize)
  <2>1. pool = room /\ d = b  BY <1>1, <1>7 DEF fill, hasRoom, b
  <2>2. Len(room) = PoolMaxSize  BY <1>2, <1>5, <1>7
  <2> QED  BY <1>1, <1>5, <2>1, <2>2 DEF e
<1> QED  BY <1>6, <1>7

\* One block.
LEMMA BlockStep ==
  ASSUME AuthTypeOK, PoolBounded, NEW s \in Nat, NEW n \in Nat, NEW auths \in [1..n -> Auths],
         authorizations_transition(s, auths)
  PROVE  /\ AuthTypeOK' /\ PoolBounded'
         /\ \A c \in Cores : /\ pools'[c] # <<>>
                             /\ pools'[c][Len(pools'[c])] = queues[c][slot']
                             /\ keeps(pools'[c], Len(pools'[c]) - drawn'[c], pools[c])
<1> DEFINE st == useAll(s, auths)
           room == [c \in Cores |-> makeRoom(st.pools[c], st.deleted[c])]
<1>1. Used(s, st)  BY UsedAll, Zenon
<1> HIDE DEF st
<1>2. /\ pools' = [c \in Cores |-> fill(c, s, room[c])]
      /\ drawn' = [c \in Cores |-> st.drawn[c] + IF hasRoom(room[c]) THEN 1 ELSE 0]
      /\ slot' = s % QueueSize
      /\ queues' = queues
  BY Zenon DEF authorizations_transition, st
<1>3. ASSUME NEW c \in Cores
      PROVE  /\ pools'[c] \in Seq(Authorizers) /\ drawn'[c] \in Nat
             /\ Len(pools'[c]) <= PoolMaxSize
             /\ pools'[c] # <<>> /\ pools'[c][Len(pools'[c])] = queueEntry(c, s)
             /\ keeps(pools'[c], Len(pools'[c]) - drawn'[c], pools[c])
  <2>1. /\ room[c] = makeRoom(st.pools[c], st.deleted[c])
        /\ pools'[c] = fill(c, s, room[c])
        /\ drawn'[c] = st.drawn[c] + IF hasRoom(room[c]) THEN 1 ELSE 0
    BY <1>2, Zenon
  <2> HIDE DEF room
  <2> QED  BY <1>1, <2>1, FilledPool
<1>4. s % QueueSize \in 0..QueueSize - 1  BY AuthAssumption, SMTT(20) DEF AuthAssumption
<1>5. AuthTypeOK'
  <2>1. pools' \in [Cores -> Seq(Authorizers)]
    <3>1. pools' = [c \in Cores |-> pools'[c]]  BY <1>2, Zenon
    <3> QED  BY <1>3, <3>1, Zenon
  <2>2. drawn' \in [Cores -> Nat]
    <3>1. drawn' = [c \in Cores |-> drawn'[c]]  BY <1>2, Zenon
    <3> QED  BY <1>3, <3>1, Zenon
  <2> QED  BY <1>2, <1>4, <2>1, <2>2 DEF AuthTypeOK
<1>6. PoolBounded'  BY <1>3, Zenon DEF PoolBounded
<1>7. \A c \in Cores : queueEntry(c, s) = queues[c][slot']  BY <1>2 DEF queueEntry
<1> QED  BY <1>3, <1>5, <1>6, <1>7

------------------------------------------------------------------------------
\* Empty pools are bounded.
LEMMA PoolsInit == AuthInit => AuthTypeOK /\ PoolBounded
BY AuthAssumption DEF AuthInit, AuthTypeOK, PoolBounded, AuthAssumption

\* A new entry of a queue touches no pool.
LEMMA AssignStep ==
  ASSUME AuthTypeOK, PoolBounded, NEW c \in Cores, NEW i \in 0..QueueSize - 1,
         NEW a \in Authorizers, assign(c, i, a)
  PROVE  AuthTypeOK' /\ PoolBounded' /\ pools' = pools
BY DEF assign, AuthTypeOK, PoolBounded

\* Every step keeps the pools typed and bounded.
LEMMA PoolsNext ==
  AuthTypeOK /\ PoolBounded /\ [AuthNext]_authVars => AuthTypeOK' /\ PoolBounded'
<1> SUFFICES ASSUME AuthTypeOK, PoolBounded, [AuthNext]_authVars
             PROVE  AuthTypeOK' /\ PoolBounded'
  BY Zenon
<1>1. ASSUME NEW s \in 0..2 * QueueSize - 1, NEW n \in 0..MaxAuths,
             NEW auths \in [1..n -> Auths], authorizations_transition(s, auths)
      PROVE  AuthTypeOK' /\ PoolBounded'
  <2>1. s \in Nat /\ n \in Nat  BY AuthAssumption DEF AuthAssumption
  <2> QED  BY <1>1, <2>1, BlockStep
<1>2. ASSUME NEW c \in Cores, NEW i \in 0..QueueSize - 1, NEW a \in Authorizers,
             assign(c, i, a)
      PROVE  AuthTypeOK' /\ PoolBounded'
  BY <1>2, AssignStep
<1>3. CASE UNCHANGED authVars  BY <1>3 DEF authVars, AuthTypeOK, PoolBounded
<1> QED  BY <1>1, <1>2, <1>3, Zenon DEF AuthNext

------------------------------------------------------------------------------
\* No pool outgrows auth_pool_max_size, for any number of used authorizers.
THEOREM PoolsBounded == AuthSpec => []PoolsInv
<1>1. AuthTypeOK /\ PoolBounded => PoolsInv  BY DEF PoolsInv
<1> QED  BY <1>1, PoolsInit, PoolsNext, PTL DEF AuthSpec

\* Authorizers leave a pool in the order in which they were drawn, and every block adds
\* to every pool the queue's entry for its slot, however many authorizers it used.
THEOREM PoolsOrdered == AuthSpec => PoolsInOrder
<1> DEFINE N == pools' # pools =>
                  \A c \in Cores :
                    pools'[c] # <<>> /\ pools'[c][Len(pools'[c])] = queues[c][slot']
           O == pools' # pools =>
                  \A c \in Cores : keeps(pools'[c], Len(pools'[c]) - drawn'[c], pools[c])
<1>1. AuthTypeOK /\ PoolBounded /\ [AuthNext]_authVars => [N]_authVars /\ [O]_authVars
  <2> SUFFICES ASSUME AuthTypeOK, PoolBounded, AuthNext PROVE N /\ O
    BY Zenon
  <2>1. ASSUME NEW s \in 0..2 * QueueSize - 1, NEW n \in 0..MaxAuths,
               NEW auths \in [1..n -> Auths], authorizations_transition(s, auths)
        PROVE  N /\ O
    <3>1. s \in Nat /\ n \in Nat  BY AuthAssumption DEF AuthAssumption
    <3> QED  BY <2>1, <3>1, BlockStep
  <2>2. ASSUME NEW c \in Cores, NEW i \in 0..QueueSize - 1, NEW a \in Authorizers,
               assign(c, i, a)
        PROVE  N /\ O
    BY <2>2, AssignStep
  <2> HIDE DEF N, O
  <2> QED  BY <2>1, <2>2, Zenon DEF AuthNext
<1> QED
  BY <1>1, PoolsInit, PoolsNext, PTL
  DEF AuthSpec, PoolsInOrder, NewestDrawn, OldestFirst
==============================================================================
