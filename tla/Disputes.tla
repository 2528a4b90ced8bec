------------------------------- MODULE Disputes -------------------------------
(***************************************************************************)
(* disputes::transition: the verdicts, culprits and faults of one block.   *)
(*                                                                         *)
(* Data: reports and keys are numbers in the order of their bytes; a       *)
(* signature is the key that made it.  A block with an error leaves the    *)
(* state as it is, which is a stuttering step; the errors are not told     *)
(* apart.                                                                  *)
(***************************************************************************)
EXTENDS Integers, Sequences, FiniteSets, Functions

CONSTANTS Reports, Keys,
          ValidatorSets,         \* validator sets the epochs may have
          SuperMajority,         \* config.validators_super_majority
          MaxEpoch,              \* bound: the last epoch
          Verdicts, Culprits, Faults,  \* the extrinsics of the blocks
          NoReport               \* an idle core

ASSUME DisputesAssumption ==
  /\ Reports \subseteq Nat /\ Keys \subseteq Nat /\ NoReport \notin Reports
  /\ SuperMajority \in Nat \ {0} /\ MaxEpoch \in Nat

Judgement == [index : Nat, vote : BOOLEAN, signature : Keys]
Verdict == [target : Reports, age : Nat, votes : Seq(Judgement)]
Culprit == [target : Reports, key : Keys, signature : Keys]
Fault == [target : Reports, vote : BOOLEAN, key : Keys, signature : Keys]

ASSUME ExtrinsicsAssumption ==
  /\ \A vs \in Verdicts : vs \in Seq(Verdict)
  /\ \A cs \in Culprits : cs \in Seq(Culprit)
  /\ \A fs \in Faults : fs \in Seq(Fault)

VARIABLES
  good, bad, wonky,  \* psi
  offenders,
  rho,               \* the report pending on the core
  epoch,             \* tau / epoch_length
  kappa, lambda,     \* the validator sets of this and of the previous epoch
  offenders_mark,    \* output of the last block: the keys of new offenders
  verdicts           \* history: the verdicts of accepted blocks, with their outcome

vars == <<good, bad, wonky, offenders, rho, epoch, kappa, lambda, offenders_mark, verdicts>>

------------------------------------------------------------------------------
ascending(s) == \A i, j \in 1..Len(s) : i < j => s[i] < s[j]

judged == good \cup bad \cup wonky

\* The checks of one verdict: age, number, order, indices and signatures.
previousEpoch == IF epoch = 0 THEN 0 ELSE epoch - 1

validatorsOf(age) == IF age = epoch THEN kappa ELSE lambda

judgementValid(j, v) ==
  /\ j.index \in DOMAIN validatorsOf(v.age)
  /\ j.signature = validatorsOf(v.age)[j.index]

verdictValid(v) ==
  /\ v.age \in {epoch, previousEpoch}
  /\ Len(v.votes) >= SuperMajority
  /\ ascending([i \in 1..Len(v.votes) |-> v.votes[i].index])
  /\ \A i \in 1..Len(v.votes) : judgementValid(v.votes[i], v)

verdictsValid(vs) ==
  /\ ascending([i \in 1..Len(vs) |-> vs[i].target])
  /\ \A i \in 1..Len(vs) : verdictValid(vs[i])

\* A culprit guaranteed a report that is not yet known as bad.
notYetBad(r) == r \notin bad

isNew_Any(k) == TRUE
isNew(k) == k \notin offenders

culpritsValid(cs) ==
  /\ ascending([i \in 1..Len(cs) |-> cs[i].key])
  /\ \A i \in 1..Len(cs) :
       /\ cs[i].signature = cs[i].key
       /\ notYetBad(cs[i].target)
       /\ cs[i].key \in Range(kappa)
       /\ isNew(cs[i].key)

\* A fault contradicts what is known of its report.
contradicts_Good(f) == ~(f.vote /\ f.target \in good)
contradicts(f) == ~(~f.vote /\ f.target \in bad) /\ ~(f.vote /\ f.target \in good)

faultsValid(fs) ==
  /\ ascending([i \in 1..Len(fs) |-> fs[i].key])
  /\ \A i \in 1..Len(fs) :
       /\ fs[i].target \notin wonky
       /\ contradicts(fs[i])
       /\ fs[i].key \in Range(kappa)
       /\ fs[i].signature = fs[i].key
       /\ isNew(fs[i].key)

------------------------------------------------------------------------------
\* Verdicts on reports that were judged before are passed over.
registered(vs) == {v \in Range(vs) : v.target \notin judged}

votes(v, for) == Cardinality({i \in 1..Len(v.votes) : v.votes[i].vote = for})

outcome(v) ==
  CASE votes(v, FALSE) = SuperMajority -> "bad"
    [] votes(v, FALSE) # SuperMajority /\ votes(v, TRUE) = SuperMajority -> "good"
    [] /\ SuperMajority \notin {votes(v, TRUE), votes(v, FALSE)}
       /\ votes(v, TRUE) = SuperMajority \div 2
       /\ votes(v, FALSE) # 0 -> "wonky"
    [] OTHER -> "split"

against(s, r) == {i \in 1..Len(s) : s[i].target = r}

\* Every culprit's report has a verdict in this block with a vote against it.
culpritsFounded(vs, cs) ==
  \A i \in 1..Len(cs) :
    \E v \in registered(vs) : v.target = cs[i].target /\ votes(v, FALSE) > 0

\* A bad verdict needs two culprits, a good one a fault and no culprit.
minCulprits_None == 0
minCulprits == 2

outcomesValid(vs, cs, fs) ==
  \A v \in registered(vs) :
    CASE outcome(v) = "bad" -> Cardinality(against(cs, v.target)) >= minCulprits
      [] outcome(v) = "good" -> against(cs, v.target) = {} /\ against(fs, v.target) # {}
      [] outcome(v) = "wonky" -> TRUE
      [] outcome(v) = "split" -> FALSE

targets(s) == {s[i].target : i \in 1..Len(s)}

\* The keys of offenders, those of one report together: the n-th has n - 1 before it.
before(p, q) == p.target < q.target \/ (p.target = q.target /\ p.key < q.key)
ahead(s, i) == Cardinality({j \in 1..Len(s) : before(s[j], s[i])})
keys(s) == [n \in 1..Len(s) |-> s[CHOOSE i \in 1..Len(s) : ahead(s, i) = n - 1].key]

\* Reports judged bad or uncertain leave their core.
cleared_Bad(r) == IF r \in bad' THEN NoReport ELSE r
cleared(r) == IF r \in bad' \cup wonky' THEN NoReport ELSE r

\* What remains to be checked when each part of the block is valid by itself, and
\* the new state.
transition(vs, cs, fs) ==
  /\ outcomesValid(vs, cs, fs)
  /\ \A i \in 1..Len(fs) : ~fs[i].vote
  /\ wonky' = wonky \cup {v.target : v \in {u \in registered(vs) : outcome(u) = "wonky"}}
  /\ bad' = bad \cup targets(cs)
  /\ good' = good \cup targets(fs)
  /\ offenders_mark' = keys(cs) \o keys(fs)
  /\ offenders' = offenders \cup Range(offenders_mark')
  /\ rho' = cleared(rho)
  /\ verdicts' = verdicts \cup {<<v.target, outcome(v)>> : v \in registered(vs)}
  /\ UNCHANGED <<epoch, kappa, lambda>>

------------------------------------------------------------------------------
\* The rest of the chain: a report that is not judged is put on the idle core, and
\* epochs change the validators.
report(r) ==
  /\ rho = NoReport
  /\ r \notin bad \cup wonky
  /\ rho' = r
  /\ UNCHANGED <<good, bad, wonky, offenders, epoch, kappa, lambda, offenders_mark,
                 verdicts>>

advance(k) ==
  /\ epoch < MaxEpoch
  /\ epoch' = epoch + 1
  /\ lambda' = kappa
  /\ kappa' = k
  /\ UNCHANGED <<good, bad, wonky, offenders, rho, offenders_mark, verdicts>>

Init ==
  /\ good = {} /\ bad = {} /\ wonky = {}
  /\ offenders = {}
  /\ rho = NoReport
  /\ epoch = 0
  /\ kappa \in ValidatorSets /\ lambda = kappa
  /\ offenders_mark = <<>>
  /\ verdicts = {}

Next ==
  \/ \E vs \in {v \in Verdicts : verdictsValid(v)},
        cs \in {c \in Culprits : culpritsValid(c)},
        fs \in {f \in Faults : faultsValid(f)} :
       culpritsFounded(vs, cs) /\ transition(vs, cs, fs)
  \/ \E r \in Reports : report(r)
  \/ \E k \in ValidatorSets : advance(k)

Spec == Init /\ [][Next]_vars

------------------------------------------------------------------------------
TypeOK ==
  /\ good \subseteq Reports /\ bad \subseteq Reports /\ wonky \subseteq Reports
  /\ rho \in Reports \cup {NoReport}
  /\ epoch \in 0..MaxEpoch
  /\ kappa \in ValidatorSets /\ lambda \in ValidatorSets

\* Every verdict of an accepted block is in the set it calls for, through the
\* culprits or faults that must come with it.
VerdictsRecorded ==
  /\ \A v \in verdicts : v[2] = "good" => v[1] \in good
  /\ \A v \in verdicts : v[2] = "bad" => v[1] \in bad
  /\ \A v \in verdicts : v[2] = "wonky" => v[1] \in wonky

\* A report that an earlier block judged never changes sides.
JudgedForGood ==
  [][/\ (good' \ good) \cap (bad \cup wonky) = {}
     /\ (bad' \ bad) \cap (good \cup wonky) = {}
     /\ (wonky' \ wonky) \cap (good \cup bad) = {}]_vars

\* The mark names validators of this epoch that no earlier block named, and together the
\* marks are the punish-set.
MarksAreNew ==
  [][offenders_mark' # offenders_mark =>
       /\ Range(offenders_mark') \subseteq Range(kappa) \ offenders
       /\ offenders' = offenders \cup Range(offenders_mark')]_vars

\* No report that was judged bad or uncertain stays on its core.
CoreIsClear == rho \notin bad \cup wonky
==============================================================================
