-------------------------------- MODULE Metrics --------------------------------
(***************************************************************************)
(* The metrics behind the HTTP server: the registries that components make *)
(* for themselves (PrometheusRegistry, also inside GaugeHelper and         *)
(* HistogramHelper), the one prometheus::Registry they share, and the      *)
(* handler that collects it for a request.                                 *)
(*                                                                         *)
(* The library is modelled by what the code relies on: it merges families  *)
(* and series of the same name, type and labels, refuses a name with       *)
(* another type, keeps both for good, and updates values atomically.  It   *)
(* holds its mutex while it collects, so that families wait, and values    *)
(* do not.  A registry is used by one thread at a time.                    *)
(***************************************************************************)
EXTENDS Integers, Sequences, FiniteSets, Functions

CONSTANTS
  Registries,   \* objects of PrometheusRegistry, each with its owner
  Names, Labels,
  Used,         \* the types of metrics that their owners register
  None,
  MaxUpdates    \* bound: updates of values

\* MetricInfo: the types of metrics.  Values of a gauge go up and down.
Types == {"Counter", "Gauge", "Histogram", "Summary"}
Series == Names \X Labels

\* None is no type, no value, no set of names and no collection of values.
ASSUME MetricsAssumption ==
  /\ Used \subseteq Types
  /\ None \notin Types /\ None \notin Int /\ (\A S \in SUBSET Names : None # S)
  /\ \A S \in SUBSET Series : None \notin [S -> Int]

VARIABLES
  families,      \* of the library, by name: a type, or None
  series,        \* of the library: the value (of counters the sum, of histograms and
                 \* summaries the number of observations), or None
  family_,       \* by registry: the names it has; None if there is no such object
  metrics_,      \* by registry: the metrics it has handed out, with their types
  error,         \* the exception that the last call on a registry threw, or None
  updates,       \* history: by series, updates so far
  collectables_,
  reading,       \* what the request under way has read; None if there is none
  before         \* history: what was there when it came

library == <<families, series>>
facade == <<family_, metrics_, error>>
request == <<collectables_, reading, before>>
vars == <<library, facade, updates, request>>

nothing == [x \in {} |-> 0]
known == {x \in Series : series[x] # None}
monotone(x) == families[x[1]] # "Gauge"

\* The static prometheus::Registry lives as long as the process.
registry == "registry"
expired(c) == c # registry

------------------------------------------------------------------------------
(* PrometheusRegistry *)

createRegistry(r) ==
  /\ family_[r] = None
  /\ family_' = [family_ EXCEPT ![r] = {}]
  /\ error' = None
  /\ UNCHANGED <<library, metrics_, updates, request>>

\* Its end, of a GaugeHelper in the middle of a statement already: the metrics it
\* handed out go with it, what they stand for stays with the library.
outlive_Not(r) ==
  [x \in Series |-> IF \E t \in Types : <<x, t>> \in metrics_[r] THEN None ELSE series[x]]
outlive(r) == series

destroyRegistry(r) ==
  /\ family_[r] # None
  /\ family_' = [family_ EXCEPT ![r] = None]
  /\ metrics_' = [metrics_ EXCEPT ![r] = {}]
  /\ error' = None
  /\ series' = outlive(r)
  /\ UNCHANGED <<families, updates, request>>

throw(e) ==
  /\ error' = e
  /\ UNCHANGED <<library, family_, metrics_, updates, request>>

\* prometheus::Registry::Add, which waits for a collection to end.
refuses(name, type) == families[name] \notin {None, type}

registerFamily(r, name, type) ==
  /\ family_[r] # None
  /\ reading = None
  /\ \/ /\ ~refuses(name, type)
        /\ families' = [families EXCEPT ![name] = type]
        /\ family_' = [family_ EXCEPT ![r] = @ \cup {name}]
        /\ error' = None
        /\ UNCHANGED <<series, metrics_, updates, request>>
     \/ refuses(name, type) /\ throw("invalid_argument")

\* family_.at(), the dynamic_cast, and Family::Add.
found(r, name, type) ==
  CASE name \notin family_[r] -> "out_of_range"
    [] families[name] # type -> "bad_cast"
    [] OTHER -> "found"

added(x) == IF series[x] = None THEN 0 ELSE series[x]

registerMetric(r, x, type) ==
  /\ family_[r] # None
  /\ \/ /\ found(r, x[1], type) = "found"
        /\ series' = [series EXCEPT ![x] = added(x)]
        /\ metrics_' = [metrics_ EXCEPT ![r] = @ \cup {<<x, type>>}]
        /\ error' = None
        /\ UNCHANGED <<families, family_, updates, request>>
     \/ /\ found(r, x[1], type) # "found"
        /\ throw(found(r, x[1], type))

\* inc() and observe(); a gauge also dec() and set().
updated(value, type) ==
  {value + 1} \cup (IF type = "Gauge" THEN {value - 1, 0, 1} ELSE {})

set(x, v) ==
  /\ series' = [series EXCEPT ![x] = v]
  /\ updates' = [updates EXCEPT ![x] = @ + 1]

update(r, x, type) ==
  /\ <<x, type>> \in metrics_[r]
  /\ SumFunction(updates) < MaxUpdates
  /\ \E v \in updated(series[x], type) : set(x, v)
  /\ error' = None
  /\ UNCHANGED <<families, family_, metrics_, request>>

------------------------------------------------------------------------------
(* PrometheusHandler *)

\* retain_if(), with the predicate of cleanupStalePointers(): those that still exist.
retained(s) == SelectSeq(s, LAMBDA c : ~expired(c))

\* setHandler(), by the exposer that is made at the start.
registerCollectable ==
  /\ collectables_ = <<>>
  /\ collectables_' = Append(retained(collectables_), registry)
  /\ UNCHANGED <<library, facade, updates, reading, before>>

\* onSessionRequest(), on the thread of the server: CollectMetrics() takes the values
\* one after the other, those that are added meanwhile or not.
collected == {c \in Range(collectables_) : ~expired(c)}

onSessionRequest ==
  /\ reading = None /\ collected # {}
  /\ reading' = nothing
  /\ before' = [x \in known |-> series[x]]
  /\ UNCHANGED <<library, facade, updates, collectables_>>

collect(x) ==
  /\ reading # None
  /\ x \in known \ DOMAIN reading
  /\ reading' = [y \in DOMAIN reading \cup {x} |-> IF y = x THEN series[x] ELSE reading[y]]
  /\ UNCHANGED <<library, facade, updates, collectables_, before>>

complete_First == TRUE
complete == DOMAIN before \subseteq DOMAIN reading

writeResponse ==
  /\ reading # None /\ complete
  /\ reading' = None
  /\ before' = nothing
  /\ UNCHANGED <<library, facade, updates, collectables_>>

------------------------------------------------------------------------------
Init ==
  /\ families = [n \in Names |-> None] /\ series = [x \in Series |-> None]
  /\ family_ = [r \in Registries |-> None]
  /\ metrics_ = [r \in Registries |-> {}]
  /\ error = None
  /\ updates = [x \in Series |-> 0]
  /\ collectables_ = <<>> /\ reading = None /\ before = nothing

Registry(r) ==
  \/ createRegistry(r) \/ destroyRegistry(r)
  \/ \E t \in Used : \/ \E n \in Names : registerFamily(r, n, t)
                     \/ \E x \in Series : registerMetric(r, x, t) \/ update(r, x, t)

Handler ==
  \/ registerCollectable \/ onSessionRequest \/ writeResponse
  \/ \E x \in Series : collect(x)

Next == (\E r \in Registries : Registry(r)) \/ Handler

Spec == Init /\ [][Next]_vars

------------------------------------------------------------------------------
TypeOK ==
  /\ families \in [Names -> Types \cup {None}]
  /\ \A r \in Registries : family_[r] = None \/ family_[r] \subseteq Names
  /\ \A r \in Registries : metrics_[r] \subseteq Series \X Types
  /\ error \in {None, "invalid_argument", "out_of_range", "bad_cast"}
  /\ DOMAIN before \subseteq Series

\* A metric that a registry handed out is one of the library's with that type, although
\* registries race to register the name, and some are refused (registerFamily(),
\* registerMetric()).
MetricsTyped ==
  \A r \in Registries : \A m \in metrics_[r] :
    family_[r] # None /\ families[m[1][1]] = m[2] /\ series[m[1]] # None

\* No update is lost: what counts, counts every update through any registry, also one
\* that is gone or that registered the metric again (GaugeHelper, registerMetric()).
CountsExact == \A x \in known : monotone(x) => series[x] = updates[x]

\* The response to a request has every metric that was there when it came, and none with
\* less than it had counted then (onSessionRequest(), CollectMetrics()).
ResponseComplete ==
  [][reading # None /\ reading' = None =>
       \A x \in DOMAIN before :
         x \in DOMAIN reading /\ (monotone(x) => reading[x] >= before[x])]_vars

\* The metrics: typed, and exact.
MetricsInv == TypeOK /\ MetricsTyped /\ CountsExact
==============================================================================
