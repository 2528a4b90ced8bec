------------------------------ MODULE NodeProofs ------------------------------
(***************************************************************************)
(* Proofs about what the node keeps: the metrics that it counts, and the   *)
(* database.  A registry creates exactly what its owner asks for and loses *)
(* no update, whatever is registered while a request is served; the spaces *)
(* of a live instance stay on the families of the disk, and RocksDb        *)
(* implements BufferStorage; for any sets of names, registries, spaces,    *)
(* keys and values and any bounds.                                         *)
(***************************************************************************)
EXTENDS Metrics, RocksDb, FiniteSetTheorems, TLAPS

------------------------------------------------------------------------------
\* The metrics: the types of everything, and that a series which nobody has added has
\* no updates, so that one that is added counts from zero.
MetricsTypes ==
  /\ families \in [Names -> Types \cup {None}]
  /\ series \in [Series -> Int \cup {None}]
  /\ updates \in [Series -> Nat]
  /\ family_ \in [Registries -> (SUBSET Names) \cup {None}]
  /\ metrics_ \in [Registries -> SUBSET (Series \X Types)]
  /\ error \in {None, "invalid_argument", "out_of_range", "bad_cast"}

NeverUpdated == \A x \in Series : series[x] = None => updates[x] = 0

\* While a request is served: what was there when it came is still there, and what counts
\* is at least what it was then, in the library and in what was read.
RequestInv ==
  \/ reading = None /\ before = nothing
  \/ /\ \E S \in SUBSET Series : reading \in [S -> Int]
     /\ \E S \in SUBSET known : before \in [S -> Int]
     /\ \A x \in DOMAIN before :
          monotone(x) => /\ before[x] <= series[x]
                         /\ x \in DOMAIN reading => before[x] <= reading[x]

MetricsIInv == MetricsTypes /\ NeverUpdated /\ MetricsTyped /\ CountsExact /\ RequestInv

\* Nothing is registered, counted or requested at the start.
LEMMA MetricsInit == Init => MetricsIInv
<1> SUFFICES ASSUME Init PROVE MetricsIInv
  OBVIOUS
<1> USE DEF Init
<1>1. MetricsTypes
  BY DEF MetricsTypes
<1>2. NeverUpdated /\ MetricsTyped
  BY DEF NeverUpdated, MetricsTyped
<1>3. CountsExact
  BY DEF CountsExact, known
<1>4. RequestInv
  BY DEF RequestInv
<1> QED
  BY <1>1, <1>2, <1>3, <1>4, SMTT(20) DEF MetricsIInv

\* The calls that leave the library alone.
LEMMA MetricsKept ==
  ASSUME MetricsIInv, UNCHANGED <<library, updates, request>>, metrics_' = metrics_,
         family_' \in [Registries -> (SUBSET Names) \cup {None}],
         \A r \in Registries : family_[r] # None => family_'[r] # None,
         error' \in {None, "invalid_argument", "out_of_range", "bad_cast"}
  PROVE  MetricsIInv'
<1>1. MetricsTypes' /\ NeverUpdated' /\ CountsExact' /\ RequestInv'
  BY DEF MetricsIInv, MetricsTypes, NeverUpdated, CountsExact, RequestInv, library, request,
         known, monotone
<1>2. MetricsTyped'
  BY DEF MetricsIInv, MetricsTypes, MetricsTyped, library
<1> QED
  BY <1>1, <1>2 DEF MetricsIInv

\* Every step of a registry keeps the invariant.
LEMMA RegistryStep ==
  ASSUME MetricsIInv, NEW r \in Registries, Registry(r)
  PROVE  MetricsIInv'
<1> USE MetricsAssumption
<1>0. Types # {} /\ Used \subseteq Types
  BY Zenon DEF Types
<1>1. CASE createRegistry(r)
  <2>1. family_' \in [Registries -> (SUBSET Names) \cup {None}]
    BY <1>1 DEF createRegistry, MetricsIInv, MetricsTypes
  <2>2. \A q \in Registries : family_[q] # None => family_'[q] # None
    BY <1>1 DEF createRegistry, MetricsIInv, MetricsTypes
  <2> QED
    BY <1>1, <2>1, <2>2, MetricsKept, SMTT(20) DEF createRegistry
<1>2. CASE destroyRegistry(r)
  <2>1. UNCHANGED <<families, series, updates, request>>
    BY <1>2, Zenon DEF destroyRegistry, outlive
  <2>2. MetricsTypes' /\ NeverUpdated' /\ CountsExact' /\ RequestInv'
    BY <1>2, <2>1, SMTT(20)
    DEF destroyRegistry, MetricsIInv, MetricsTypes, NeverUpdated, CountsExact, RequestInv,
        request, known, monotone
  <2>3. MetricsTyped'
    BY <1>2, <2>1 DEF destroyRegistry, MetricsIInv, MetricsTypes, MetricsTyped
  <2> QED
    BY <2>2, <2>3 DEF MetricsIInv
<1>3. ASSUME NEW t \in Used, NEW n \in Names, registerFamily(r, n, t)
      PROVE  MetricsIInv'
  <2>1. CASE ~refuses(n, t) /\ families' = [families EXCEPT ![n] = t]
               /\ family_' = [family_ EXCEPT ![r] = @ \cup {n}] /\ error' = None
               /\ UNCHANGED <<series, metrics_, updates, request>>
    <3>1. \A m \in Names : families'[m] = families[m] \/ families[m] = None
      BY <2>1, Zenon DEF refuses, MetricsIInv, MetricsTypes
    <3>2. MetricsTypes' /\ NeverUpdated'
      BY <2>1, <1>3, <1>0, SMTT(20) DEF registerFamily, MetricsIInv, MetricsTypes, NeverUpdated
    <3>3. CountsExact'
      <4>1. \A x \in Series : x[1] \in Names
        BY DEF Series
      <4>2. \A x \in Series : monotone(x)' => monotone(x)
        BY <3>1, <4>1, Zenon DEF monotone, Types
      <4> QED
        BY <2>1, <4>2 DEF MetricsIInv, CountsExact, known
    <3>4. RequestInv'
      BY <2>1, <1>3, Zenon DEF registerFamily, MetricsIInv, RequestInv, request, nothing, known
    <3>5. MetricsTyped'
      <4>1. ASSUME NEW q \in Registries, NEW m \in metrics_[q]
            PROVE  families'[m[1][1]] = families[m[1][1]]
        <5>1. m \in Series \X Types
          BY DEF MetricsIInv, MetricsTypes
        <5>2. m[1][1] \in Names /\ m[2] \in Types
          BY <5>1 DEF Series
        <5>3. families[m[1][1]] = m[2]
          BY Zenon DEF MetricsIInv, MetricsTyped
        <5> QED
          BY <3>1, <5>2, <5>3, SMTT(20)
      <4>2. \A q \in Registries : family_[q] # None => family_'[q] # None
        BY <2>1, <1>3, Zenon DEF registerFamily, MetricsIInv, MetricsTypes
      <4> QED
        BY <2>1, <4>1, <4>2, SMTT(20) DEF MetricsIInv, MetricsTyped
    <3> QED
      BY <3>2, <3>3, <3>4, <3>5, Zenon DEF MetricsIInv
  <2>2. CASE throw("invalid_argument")
    BY <2>2, MetricsKept, Zenon DEF throw, MetricsIInv, MetricsTypes
  <2> QED
    BY <1>3, <2>1, <2>2, SMTT(20) DEF registerFamily
<1>4. ASSUME NEW t \in Used, NEW x \in Series, registerMetric(r, x, t)
      PROVE  MetricsIInv'
  <2>1. CASE /\ found(r, x[1], t) = "found"
             /\ series' = [series EXCEPT ![x] = added(x)]
             /\ metrics_' = [metrics_ EXCEPT ![r] = @ \cup {<<x, t>>}]
             /\ error' = None
             /\ UNCHANGED <<families, family_, updates, request>>
    <3>1. families[x[1]] = t /\ t \in Types
      BY <2>1, <1>0, SMTT(20) DEF found
    <3>2. series[x] \in Int \cup {None} /\ added(x) \in Int
      BY DEF added, MetricsIInv, MetricsTypes
    <3>3. \A y \in Series : series'[y] = IF series[y] = None /\ y = x THEN 0 ELSE series[y]
      BY <2>1, Zenon DEF added, MetricsIInv, MetricsTypes
    <3>4. MetricsTypes'
      BY <2>1, <3>1, <3>2, SMTT(20) DEF MetricsIInv, MetricsTypes
    <3>5. NeverUpdated' /\ CountsExact'
      BY <2>1, <3>3, SMTT(20) DEF MetricsIInv, NeverUpdated, CountsExact, known, monotone
    <3>6. known \subseteq known'
      BY <3>3, Zenon DEF known
    <3>7. RequestInv'
      <4>1. \A y \in known : series'[y] = series[y]
        BY <3>3, Zenon DEF known
      <4> QED
        BY <2>1, <3>6, <4>1, Zenon DEF MetricsIInv, RequestInv, request, nothing, monotone
    <3>8. MetricsTyped'
      <4>1. ASSUME NEW q \in Registries, NEW m \in metrics_'[q]
            PROVE  m \in metrics_[q] \/ (q = r /\ m = <<x, t>>)
        BY <2>1, Zenon DEF MetricsIInv, MetricsTypes
      <4>2. \A q \in Registries : \A m \in metrics_[q] : m[1] \in Series
        BY DEF MetricsIInv, MetricsTypes
      <4>3. series'[x] # None
        BY <3>2, <3>3
      <4>4. ASSUME NEW q \in Registries, NEW m \in metrics_[q]
            PROVE  family_[q] # None /\ families[m[1][1]] = m[2] /\ series'[m[1]] # None
        BY <3>3, <4>2, Zenon DEF MetricsIInv, MetricsTyped
      <4> QED
        BY <1>4, <2>1, <3>1, <4>1, <4>3, <4>4, SMTT(20) DEF MetricsTyped, registerMetric
    <3> QED
      BY <3>4, <3>5, <3>7, <3>8, SMTT(20) DEF MetricsIInv
  <2>2. CASE found(r, x[1], t) # "found" /\ throw(found(r, x[1], t))
    BY <2>2, MetricsKept, Zenon DEF throw, found, MetricsIInv, MetricsTypes
  <2> QED
    BY <1>4, <2>1, <2>2, SMTT(20) DEF registerMetric
<1>5. ASSUME NEW t \in Used, NEW x \in Series, update(r, x, t)
      PROVE  MetricsIInv'
  <2>1. families[x[1]] = t /\ series[x] \in Int
    <3>1. <<x, t>> \in metrics_[r]
      BY <1>5, Zenon DEF update
    <3> QED
      BY <3>1 DEF MetricsIInv, MetricsTypes, MetricsTyped
  <2>2. PICK v \in updated(series[x], t) : set(x, v)
    BY <1>5, Zenon DEF update
  <2>3. v \in Int /\ (monotone(x) => v = series[x] + 1)
    BY <2>1, <2>2 DEF updated, monotone
  <2>4. /\ UNCHANGED <<families, family_, metrics_, request>>
        /\ series' = [series EXCEPT ![x] = v]
        /\ updates' = [updates EXCEPT ![x] = @ + 1]
        /\ error' = None
    BY <1>5, <2>2, Zenon DEF update, set
  <2>5. MetricsTypes'
    BY <2>3, <2>4 DEF MetricsIInv, MetricsTypes
  <2>6. NeverUpdated'
    BY <2>3, <2>4, Zenon DEF MetricsIInv, MetricsTypes, NeverUpdated
  <2>7. CountsExact'
    BY <2>1, <2>3, <2>4, Zenon DEF MetricsIInv, MetricsTypes, CountsExact, known, monotone
  <2>8. MetricsTyped'
    BY <2>3, <2>4 DEF MetricsIInv, MetricsTypes, MetricsTyped
  <2>9. RequestInv'
    <3>1. known \subseteq known'
      BY <2>3, <2>4, SMTT(20) DEF known, MetricsIInv, MetricsTypes
    <3>2. \A y \in known : monotone(y) => series[y] <= series'[y]
      BY <2>1, <2>3, <2>4, SMTT(20) DEF known, MetricsIInv, MetricsTypes
    <3>3. \A y \in known : series[y] \in Int /\ series'[y] \in Int
      BY <2>3, <2>4, Zenon DEF known, MetricsIInv, MetricsTypes
    <3>4. CASE reading = None
      BY <2>4, <3>4, Zenon DEF MetricsIInv, RequestInv, request, nothing
    <3>5. CASE reading # None
      <4>1. PICK S \in SUBSET known : before \in [S -> Int]
        BY <3>5, Zenon DEF MetricsIInv, RequestInv
      <4>2. \A y \in S : monotone(y) => before[y] <= series[y]
        BY <3>5, <4>1, SMTT(20) DEF MetricsIInv, RequestInv
      <4>3. \A y \in S : monotone(y) => before[y] <= series'[y]
        BY <3>2, <3>3, <4>1, <4>2, SMTT(20)
      <4> QED
        BY <2>4, <3>1, <3>5, <4>1, <4>3, SMTT(20) DEF MetricsIInv, RequestInv, request, monotone
    <3> QED
      BY <3>4, <3>5, Zenon
  <2> QED
    BY <2>5, <2>6, <2>7, <2>8, <2>9, SMTT(20) DEF MetricsIInv
<1> QED
  BY <1>1, <1>2, <1>3, <1>4, <1>5, SMTT(20) DEF Registry

\* So does every step of the handler.
LEMMA HandlerStep ==
  ASSUME MetricsIInv, Handler
  PROVE  MetricsIInv'
<1> USE MetricsAssumption
<1>1. UNCHANGED <<library, facade, updates>>
  BY Zenon DEF Handler, registerCollectable, onSessionRequest, collect, writeResponse
<1>2. MetricsTypes' /\ NeverUpdated' /\ MetricsTyped' /\ CountsExact'
  BY <1>1
  DEF MetricsIInv, MetricsTypes, NeverUpdated, MetricsTyped, CountsExact, library, facade,
      known, monotone
<1>3. RequestInv'
  <2>1. CASE registerCollectable
    BY <1>1, <2>1, SMTT(20)
    DEF registerCollectable, MetricsIInv, RequestInv, library, known, monotone, nothing
  <2>2. CASE onSessionRequest
    <3>1. \A x \in known : series[x] \in Int
      BY Zenon DEF known, MetricsIInv, MetricsTypes
    <3>2. reading' \in [{} -> Int] /\ before' \in [known -> Int]
      BY <2>2, <3>1, Zenon DEF onSessionRequest, nothing
    <3>3. known' = known /\ known \subseteq Series
      BY <1>1 DEF known, library
    <3>4. \A x \in DOMAIN before' : before'[x] = series[x]
      BY <2>2 DEF onSessionRequest
    <3> QED
      <4>1. \A x \in DOMAIN before' : before'[x] <= series'[x] /\ x \notin DOMAIN reading'
        BY <1>1, <3>1, <3>2, <3>4, SMTT(20) DEF library
      <4> QED
        BY <3>2, <3>3, <4>1, Zenon DEF RequestInv
  <2>3. ASSUME NEW x \in Series, collect(x) PROVE RequestInv'
    <3>1. PICK S \in SUBSET Series : reading \in [S -> Int]
      BY <2>3, Zenon DEF collect, MetricsIInv, RequestInv
    <3>2. series[x] \in Int /\ x \in known
      BY <2>3, Zenon DEF collect, known, MetricsIInv, MetricsTypes
    <3>3. reading' \in [S \cup {x} -> Int]
      BY <2>3, <3>1, <3>2, Zenon DEF collect
    <3>4. \A y \in DOMAIN before :
            monotone(y) => /\ before[y] <= series[y]
                           /\ y \in DOMAIN reading' => before[y] <= reading'[y]
      BY <2>3, <3>1, Zenon DEF collect, MetricsIInv, RequestInv
    <3>5. PICK B \in SUBSET known : before \in [B -> Int]
      BY <2>3, Zenon DEF collect, MetricsIInv, RequestInv
    <3>6. UNCHANGED <<before, series, families>> /\ known' = known
      BY <1>1, <2>3, SMTT(20) DEF collect, library, known
    <3> QED
      BY <3>3, <3>4, <3>5, <3>6, SMTT(20) DEF RequestInv, monotone
  <2>4. CASE writeResponse
    BY <2>4 DEF writeResponse, RequestInv, nothing
  <2> QED
    BY <2>1, <2>2, <2>3, <2>4, SMTT(20) DEF Handler
<1> QED
  BY <1>2, <1>3, Zenon DEF MetricsIInv

LEMMA MetricsInvariance == Spec => []MetricsIInv
<1>1. MetricsIInv /\ [Next]_vars => MetricsIInv'
  <2> SUFFICES ASSUME MetricsIInv, [Next]_vars PROVE MetricsIInv'
    BY Zenon
  <2>1. CASE UNCHANGED vars
    BY <2>1, MetricsKept, SMTT(20) DEF vars, facade, MetricsIInv, MetricsTypes
  <2> QED
    BY <2>1, RegistryStep, HandlerStep, Zenon DEF Next
<1> QED
  BY <1>1, MetricsInit, PTL DEF Spec

\* For any registries, names and labels: a metric that was handed out is one of the
\* library's with its type, whoever raced for the name, and a counter has counted every
\* update through any registry, one that is gone included.
THEOREM MetricsExact == Spec => []MetricsInv
<1>1. MetricsIInv => MetricsInv
  BY DEF MetricsIInv, MetricsInv, MetricsTypes, TypeOK, RequestInv, nothing, known
<1> QED
  BY <1>1, MetricsInvariance, PTL

\* A response has every metric that was there when its request came, none with less than
\* it had counted then, although values change while they are collected.
THEOREM ResponsesComplete == Spec => ResponseComplete
<1>1. MetricsIInv /\ [Next]_vars =>
        (reading # None /\ reading' = None =>
           \A x \in DOMAIN before :
             x \in DOMAIN reading /\ (monotone(x) => reading[x] >= before[x]))
  <2> SUFFICES ASSUME MetricsIInv, [Next]_vars, reading # None, reading' = None,
                      NEW x \in DOMAIN before
               PROVE  x \in DOMAIN reading /\ (monotone(x) => reading[x] >= before[x])
    BY Zenon
  <2>1. PICK S \in SUBSET Series : reading \in [S -> Int]
    BY Zenon DEF MetricsIInv, RequestInv
  <2>2. PICK B \in SUBSET known : before \in [B -> Int]
    BY Zenon DEF MetricsIInv, RequestInv
  <2>3. writeResponse
    <3>1. ASSUME NEW y \in Series, collect(y) PROVE FALSE
      <4>1. series[y] \in Int
        BY <3>1, Zenon DEF collect, known, MetricsIInv, MetricsTypes
      <4>2. reading' \in [S \cup {y} -> Int]
        BY <2>1, <3>1, <4>1, SMTT(20) DEF collect
      <4> QED
        BY <4>2, MetricsAssumption, Zenon
    <3>2. ASSUME NEW r \in Registries, Registry(r) PROVE FALSE
      BY <3>2, Zenon
      DEF Registry, createRegistry, destroyRegistry, registerFamily, registerMetric, update,
          throw, request
    <3> QED
      BY <3>1, <3>2, Zenon
      DEF Next, vars, request, Handler, registerCollectable, onSessionRequest
  <2>4. x \in DOMAIN reading
    BY <2>3, Zenon DEF writeResponse, complete
  <2> QED
    BY <2>1, <2>2, <2>4, Zenon DEF MetricsIInv, RequestInv
<1> QED
  BY <1>1, MetricsInvariance, PTL DEF Spec, ResponseComplete

------------------------------------------------------------------------------
\* What the proofs need of the types: which functions there are, and that the
\* identifiers are numbers.
DbTyped ==
  /\ rocks \in BOOLEAN
  /\ id \in [Spaces -> 0..MaxId]
  /\ column_family_handles_ \in [Spaces -> 0..MaxId]
  /\ space \in [Spaces -> {"none", "live", "gone"}]

\* SpacesAreLive is not inductive: getSpace() must find only handles of families
\* that are on disk.
HandlesAreCurrent ==
  rocks => \A s \in Spaces : handle(s) # 0 => handle(s) = id[s]

DbInv == DbTyped /\ SpacesAreLive /\ HandlesAreCurrent

\* The identifiers of the families of a new database are within the bound.
LEMMA MadeInBound ==
  ASSUME NEW made \in Injection(Spaces, 1..Cardinality(Spaces))
  PROVE  made \in [Spaces -> 0..MaxId]
<1>1. Cardinality(Spaces) \in Nat
  BY RocksDbAssumption, FS_CardinalityType, Zenon DEF RocksDbAssumption
<1>2. made \in [Spaces -> 1..Cardinality(Spaces)]
  BY DEF Injection
<1> QED
  BY <1>1, <1>2, RocksDbAssumption, SMTT(20) DEF RocksDbAssumption

\* A space is live only under a live instance, so a step that makes an instance
\* finds none; dropColumn() puts the new handle where the spaces refer to.
LEMMA DbInvStep == DbInv /\ [DbNext]_dbVars => DbInv'
<1> SUFFICES ASSUME DbInv, [DbNext]_dbVars PROVE DbInv'
  BY Zenon
<1> USE RocksDbAssumption
    DEF RocksDbAssumption, DbInv, DbTyped, SpacesAreLive, HandlesAreCurrent, handle
<1>1. CASE construct
  <2>1. \A s \in Spaces : space[s] # "live"
    BY <1>1, Zenon DEF construct
  <2>2. id' \in [Spaces -> 0..MaxId] /\ column_family_handles_' \in [Spaces -> 0..MaxId]
    <3>1. CASE opens
      BY <1>1, <3>1, MadeInBound, Zenon DEF construct
    <3>2. CASE ~opens
      BY <1>1, <3>2 DEF construct
    <3> QED
      BY <3>1, <3>2, Zenon
  <2>3. HandlesAreCurrent'
    BY <1>1, Zenon DEF construct
  <2> QED
    BY <1>1, <2>1, <2>2, <2>3, SMTT(20) DEF construct
<1>2. CASE constructFails
  BY <1>2, Zenon DEF constructFails
<1>3. CASE destruct
  BY <1>3, Zenon DEF destruct, disk, lost
<1>4. CASE crash
  BY <1>4, Zenon DEF crash, disk
<1>5. ASSUME NEW s \in Spaces, getSpace(s) PROVE DbInv'
  BY <1>5, Zenon DEF getSpace, disk
<1>6. ASSUME NEW s \in Spaces, newBatch(s) PROVE DbInv'
  BY <1>6, Zenon DEF newBatch, disk
<1>7. ASSUME NEW s \in Spaces, dropColumn(s) PROVE DbInv'
  <2>1. CASE s = Default
    BY <1>7, <2>1, Zenon DEF dropColumn, failure, disk
  <2>2. CASE s # Default
    <3>1. PICK n \in 1..MaxId : id' = [id EXCEPT ![s] = n]
      BY <1>7, <2>2, Zenon DEF dropColumn
    <3>2. column_family_handles_' = [column_family_handles_ EXCEPT ![s] = n]
      BY <1>7, <2>2, <3>1, Zenon DEF dropColumn, renewed
    <3>3. UNCHANGED <<rocks, space>>
      BY <1>7, <2>2, Zenon DEF dropColumn
    <3>4. DbTyped'
      BY <3>1, <3>2, <3>3, SMTT(20)
    <3>5. SpacesAreLive'
      BY <3>1, <3>2, <3>3, SMTT(20)
    <3>6. HandlesAreCurrent'
      BY <3>1, <3>2, <3>3, Zenon
    <3> QED
      BY <3>4, <3>5, <3>6, Zenon
  <2> QED
    BY <2>1, <2>2, Zenon
<1>8. ASSUME NEW s \in Spaces, NEW k \in Keys, NEW v \in Values \cup {NoValue},
             write(s, k, v) \/ batchPut(s, k, v)
      PROVE DbInv'
  BY <1>8 DEF write, batchPut, failure, disk
<1>9. CASE commit
  BY <1>9, SMTT(20) DEF commit, failure, disk
<1>12. ASSUME NEW s \in Spaces, NEW k \in Keys, contains(s, k) \/ get(s, k) \/ tryGet(s, k)
       PROVE DbInv'
  BY <1>12 DEF contains, get, tryGet, answers, failure, disk
<1>10. CASE clear
  BY <1>10, Zenon DEF clear, disk
<1>11. CASE UNCHANGED dbVars
  BY <1>11, Zenon DEF dbVars, disk
<1> QED
  BY <1>1, <1>2, <1>3, <1>4, <1>5, <1>6, <1>7, <1>8, <1>9, <1>10, <1>11, <1>12, Zenon DEF DbNext

LEMMA DbInvInit == DbInit => DbInv
<1> SUFFICES ASSUME DbInit PROVE DbInv
  OBVIOUS
<1>1. 0 \in 0..MaxId
  BY RocksDbAssumption DEF RocksDbAssumption
<1>2. DbTyped
  BY <1>1, Zenon DEF DbInit, DbTyped
<1>3. SpacesAreLive
  BY DEF DbInit, SpacesAreLive
<1>4. HandlesAreCurrent
  BY DEF DbInit, HandlesAreCurrent
<1> QED
  BY <1>2, <1>3, <1>4, SMTT(20) DEF DbInv

\* Spaces that clients hold of a live instance write to the family on disk, through
\* every sequence of drops, restarts and crashes.
THEOREM SpacesStayLive == DbSpec => []SpacesAreLive
<1>1. DbInv => SpacesAreLive
  BY Zenon DEF DbInv
<1> QED
  BY <1>1, DbInvInit, DbInvStep, PTL DEF DbSpec

------------------------------------------------------------------------------
\* Every step of the database is a step of the interfaces or leaves their state.
\* Making or ending an instance and getSpace() are not seen; a commit is a Commit
\* or an error; a crash discards the batch.  A read finds what the interfaces have because
\* the space refers to the family on disk.
LEMMA StepSimulation == DbInv /\ [DbNext]_dbVars => [Storage!Next]_(Storage!vars)
<1> SUFFICES ASSUME DbInv, [DbNext]_dbVars PROVE Storage!Next \/ UNCHANGED Storage!vars
  BY Zenon DEF Storage!vars
<1>1. CASE construct \/ constructFails \/ destruct \/ UNCHANGED dbVars
  BY <1>1, Zenon DEF construct, constructFails, destruct, dbVars, disk, client, Storage!vars
<1>2. CASE crash
  BY <1>2, Zenon DEF crash, disk, Storage!Next, Storage!Discard
<1>3. ASSUME NEW s \in Spaces, getSpace(s) PROVE UNCHANGED Storage!vars
  BY <1>3 DEF getSpace, disk, client, Storage!vars
<1>4. ASSUME NEW s \in Spaces, newBatch(s) PROVE Storage!Discard
  BY <1>4, Zenon DEF newBatch, disk, Storage!Discard
<1>5. CASE failure
  BY <1>5 DEF failure, disk, Storage!Next, Storage!Fail
<1>6. ASSUME NEW s \in Spaces, dropColumn(s) PROVE Storage!Erase(s) \/ failure
  BY <1>6, Zenon DEF dropColumn, Storage!Erase
<1>7. ASSUME NEW s \in Spaces, NEW k \in Keys, NEW v \in Values \cup {NoValue}
      PROVE  LET w == [space |-> s, key |-> k, value |-> v]
             IN  /\ w \in Storage!Writes
                 /\ write(s, k, v) => Storage!Write(w) \/ failure
                 /\ batchPut(s, k, v) => Storage!Collect(w)
  BY Zenon DEF write, target, batchPut, disk, Storage!Writes, Storage!Write, Storage!Collect
<1>8. CASE commit
  <2>1. Storage!Commit \/ failure
    BY <1>8, Zenon DEF commit, Storage!Commit
  <2> QED
    BY <2>1, <1>5, Zenon DEF Storage!Next
<1>9. CASE clear
  BY <1>9, Zenon DEF clear, disk, Storage!Next, Storage!Discard
<1>10. ASSUME NEW s \in Spaces, NEW k \in Keys
       PROVE  /\ contains(s, k) => Storage!Has(s, k) \/ failure
              /\ get(s, k) \/ tryGet(s, k) => Storage!Read(s, k) \/ failure
  <2>1. space[s] = "live" => Get(s, k) = data[s][k]
    BY DEF DbInv, SpacesAreLive, Get
  <2> QED
    BY <2>1 DEF contains, get, tryGet, answers, disk, Storage!Has, Storage!Read
<1> QED
  BY <1>1, <1>2, <1>3, <1>4, <1>5, <1>6, <1>7, <1>8, <1>9, <1>10, Zenon DEF DbNext, Storage!Next

\* The database, its restarts and crashes included, behaves as the storage interfaces
\* promise.
THEOREM Refinement == DbSpec => Implements
<1>1. DbInit => Storage!Init
  BY Zenon DEF DbInit, Storage!Init
<1> QED
  BY <1>1, DbInvInit, DbInvStep, StepSimulation, PTL DEF DbSpec, Implements, Storage!Spec
==============================================================================
