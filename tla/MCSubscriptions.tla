---------------------------- MODULE MCSubscriptions ----------------------------
(***************************************************************************)
(* The event system for the model checker: the protected object, the       *)
(* subscription engine, the dispatcher, the manager, and the modules.      *)
(* Each layer uses what is checked of the one below, and no two of the     *)
(* models share a variable: a behaviour is one of one layer.               *)
(***************************************************************************)
EXTENDS MCEngine, MCDispatcher

CONSTANT Parts   \* the layers to explore

VARIABLE part    \* the layer

allVars == <<part, vars, dispatcher, manager, object, node>>

\* The libraries: good ones, and one for each way to fail.
good(id) == [opens |-> TRUE, loader_id |-> id, module_info |-> "given", instance |-> TRUE]

Broken ==
  {[good("ExampleLoader") EXCEPT !.opens = FALSE],
   [good("other") EXCEPT !.loader_id = "missing"],
   [good("other") EXCEPT !.loader_id = "null"],
   [good("other") EXCEPT !.module_info = "null"],
   [good("other") EXCEPT !.module_info = "missing"]}

Sound ==
  {good(id) : id \in {"ExampleLoader", "NetworkingLoader", "SynchronizerLoader", "other"}}
    \cup {[good("SynchronizerLoader") EXCEPT !.instance = FALSE]}

SomeLibraries == Sound \cup Broken

MCInit ==
  /\ part \in Parts
  /\ Init /\ M!Init /\ O!Init
  /\ L!Init /\ (part # "modules" => libraries = {})
  /\ D!Init

others == <<object, node>>

ofEngine(A) == part = "engine" /\ A /\ UNCHANGED <<part, dispatcher, manager, others>>

ofDispatcher(A) ==
  part = "dispatcher" /\ A /\ UNCHANGED <<part, vars, manager, others>> /\ withTemporaryThreads
ofBound(A) ==
  part = "bound" /\ A /\ UNCHANGED <<part, vars, manager, others>> /\ withBoundSchedulers

ofManager(A) == part = "manager" /\ A /\ UNCHANGED <<part, vars, dispatcher, others>>
ofObject(A) == part = "object" /\ A /\ UNCHANGED <<part, vars, dispatcher, manager, node>>
ofModules(A) ==
  part = "modules" /\ A /\ UNCHANGED <<part, vars, dispatcher, manager, object>>

MCNext ==
  \/ ofEngine(Next) \/ ofDispatcher(D!Next) \/ ofBound(D!Next) \/ ofManager(M!Next)
  \/ ofObject(O!Next) \/ ofModules(L!Next)

\* The fairness of each layer, for its own behaviours.
MCFairness ==
  /\ \A p \in Publishers : WF_allVars(ofEngine(notifyWalk(p)))
  /\ \A s \in Subscribers : WF_allVars(ofEngine(engineUnsubscribe(s) \/ unsubscribeEnd(s)))
  /\ WF_allVars(ofEngine(dispatch))
  /\ \A k \in Uploaders : WF_allVars(ofDispatcher(D!uploadToHandler(k)))
  /\ \A w \in D!Workers :
       WF_allVars(ofDispatcher(D!process(w))) /\ WF_allVars(ofDispatcher(D!elapse(w)))
  /\ WF_allVars(ofDispatcher(D!dispose))
  /\ WF_allVars(ofModules(\E l \in Libraries : L!load_module(l) \/ L!destroyLoader(l)))
  /\ WF_allVars(ofModules(L!loaded \/ L!register_loader \/ L!registered \/ L!dispose))
  /\ WF_allVars(ofModules(L!begin \/ L!callback))

MCSpec == MCInit /\ [][MCNext]_allVars
MCFairSpec == MCSpec /\ MCFairness

------------------------------------------------------------------------------
\* Every task uploaded before the dispatcher is disposed of runs, and dispose() returns,
\* unless a task on a temporary thread has thrown.
DispatcherProgress == part = "dispatcher" => D!EveryTaskRuns /\ D!DisposeReturns

\* While the node runs with both modules, every request gets its response.
RequestsAnswered == part = "modules" => L!RequestsAnswered
==============================================================================
