----------------------------- MODULE StateManager -----------------------------
(***************************************************************************)
(* StateManagerImpl: the life cycle of the application.  The main thread   *)
(* runs the stages and the callbacks registered for them; any thread, and  *)
(* the handler of a termination signal, may ask for the shutdown at any    *)
(* time.  Every load, store and compare-exchange of state_ is a step of    *)
(* its own; mutex_ is held by main through a stage, cv_mutex_ is a         *)
(* variable.  A callback is a number.                                      *)
(***************************************************************************)
EXTENDS Integers, Sequences, FiniteSets, Functions

CONSTANTS Requesters,    \* threads that call shutdown() once
          MaxCallbacks,  \* bound: callbacks ever registered
          SignalOnMain,  \* the kernel delivers the signal to the main thread
          None

ASSUME ManagerAssumption == MaxCallbacks \in Nat

States == <<"Init", "Prepare", "ReadyToStart", "Starting", "Works",
            "ShuttingDown", "ReadyToStop">>
rank(s) == CHOOSE i \in 1..Len(States) : States[i] = s

Stages == {"prepare", "launch", "shutdown"}
\* The state a stage starts from, the one it runs in, the one it ends in.
from(g) == [prepare |-> "Init", launch |-> "ReadyToStart", shutdown |-> "Works"][g]
during(g) == [prepare |-> "Prepare", launch |-> "Starting",
              shutdown |-> "ShuttingDown"][g]
after(g) == [prepare |-> "ReadyToStart", launch |-> "Works",
             shutdown |-> "ReadyToStop"][g]
nextPc(g) == [prepare |-> "enter", launch |-> "works?", shutdown |-> "final"][g]

SignalThread == "signal"
Askers == Requesters \cup {SignalThread}

VARIABLES
  state,      \* state_
  queue,      \* prepare_, launch_, shutdown_
  pc,         \* where run() is on the main thread
  stage,      \* the stage run() is in
  cvMutex,    \* who holds cv_mutex_
  req,        \* per thread: where its shutdown() is
  signals,    \* shutting_down_signals_enabled
  accepted,   \* history: the callbacks registered, with their stage
  calls,      \* history: the callbacks called, with their stage, in order
  failed      \* history: stages a callback of which failed

vars == <<state, queue, pc, stage, cvMutex, req, signals, accepted, calls, failed>>

\* The main thread does not move while it runs the signal handler.
mainRuns == SignalOnMain => req[SignalThread] \in {"idle", "done"}

------------------------------------------------------------------------------
\* atPrepare, atLaunch, atShutdown: refused once the stage is over.  During a stage
\* main holds mutex_, so that only the callback it runs can register.
register(g) ==
  /\ pc \notin {"loop", "wrongStage", "unexpectedStage"}
  /\ pc = "called" => mainRuns
  /\ Cardinality(accepted) < MaxCallbacks
  /\ rank(state) <= rank(during(g))
  /\ queue' = [queue EXCEPT ![g] = Append(@, Cardinality(accepted) + 1)]
  /\ accepted' = accepted \cup {<<g, Cardinality(accepted) + 1>>}
  /\ UNCHANGED <<state, pc, stage, cvMutex, req, signals, calls, failed>>

------------------------------------------------------------------------------
(* run(), on the main thread *)

start ==
  /\ pc = "new"
  /\ pc' = "enter"
  /\ stage' = "prepare"
  /\ UNCHANGED <<state, queue, cvMutex, req, signals, accepted, calls, failed>>

mayEnter(g) == state \in {from(g), "ShuttingDown"}

\* doShutdown drops what earlier stages have not called.
kept_Later(g) == Stages \ {"shutdown"}
kept(g) == IF g = "shutdown" THEN {"shutdown"} ELSE Stages

\* The compare-exchange that enters a stage.
enterStage ==
  /\ pc = "enter"
  /\ state' = IF state = from(stage) THEN during(stage) ELSE state
  /\ IF mayEnter(stage)
       THEN /\ pc' = "loop"
            /\ queue' = [g \in Stages |-> IF g \in kept(stage) THEN queue[g] ELSE <<>>]
       ELSE pc' = "wrongStage" /\ UNCHANGED queue
  /\ UNCHANGED <<stage, cvMutex, req, signals, accepted, calls, failed>>

\* A callback of an earlier stage is called only while the stage lasts.
isCalled(g) == g = "shutdown" \/ state = during(g)

callFront ==
  /\ pc = "loop" /\ queue[stage] # <<>>
  /\ IF isCalled(stage)
       THEN /\ calls' = Append(calls, <<stage, Head(queue[stage])>>)
            /\ pc' = "called"
            /\ UNCHANGED queue
       ELSE /\ queue' = [queue EXCEPT ![stage] = Tail(@)]
            /\ UNCHANGED <<calls, pc>>
  /\ UNCHANGED <<state, stage, cvMutex, req, signals, accepted, failed>>

\* The callback returns; a failure ends the stage, unless a shutdown did.
returnFront(ok) ==
  /\ pc = "called"
  /\ stage = "shutdown" => ok
  /\ state' = IF ~ok /\ state = during(stage) THEN "ShuttingDown" ELSE state
  /\ failed' = IF ok THEN failed ELSE failed \cup {stage}
  /\ queue' = [queue EXCEPT ![stage] = Tail(@)]
  /\ pc' = "loop"
  /\ UNCHANGED <<stage, cvMutex, req, signals, accepted, calls>>

\* The compare-exchange that leaves a stage.
leaveStage ==
  /\ pc = "loop" /\ queue[stage] = <<>>
  /\ state' = IF state = during(stage) THEN after(stage) ELSE state
  /\ pc' = nextPc(stage)
  /\ stage' = IF stage = "prepare" THEN "launch" ELSE stage
  /\ UNCHANGED <<queue, cvMutex, req, signals, accepted, calls, failed>>

\* Wait for a shutdown request if everything works.
testWorks ==
  /\ pc = "works?"
  /\ IF state = "Works" THEN pc' = "lock" /\ UNCHANGED stage
     ELSE pc' = "enter" /\ stage' = "shutdown"
  /\ UNCHANGED <<state, queue, cvMutex, req, signals, accepted, calls, failed>>

lockCv ==
  /\ pc = "lock"
  /\ cvMutex = None
  /\ cvMutex' = "main"
  /\ pc' = "waiting"
  /\ UNCHANGED <<state, queue, stage, req, signals, accepted, calls, failed>>

\* cv_.wait: leave if a shutdown was requested, else sleep without the mutex.
waitCv ==
  /\ pc = "waiting"
  /\ cvMutex' = None
  /\ IF state = "ShuttingDown" THEN pc' = "enter" /\ stage' = "shutdown"
     ELSE pc' = "asleep" /\ UNCHANGED stage
  /\ UNCHANGED <<state, queue, req, signals, accepted, calls, failed>>

\* run() ends: in stage 'ready to stop', or with a logic_error.
final ==
  /\ pc = "final"
  /\ pc' = IF state = "ReadyToStop" THEN "returned" ELSE "unexpectedStage"
  /\ UNCHANGED <<state, queue, stage, cvMutex, req, signals, accepted, calls, failed>>

run ==
  /\ mainRuns
  /\ \/ enterStage \/ callFront \/ returnFront(TRUE) \/ returnFront(FALSE)
     \/ leaveStage \/ testWorks \/ lockCv \/ waitCv \/ final

------------------------------------------------------------------------------
(* shutdown(), on any thread *)

\* Both entrances put the default signal handlers back first.
requestBegin(t) ==
  /\ req[t] = "idle"
  /\ req' = [req EXCEPT ![t] = "load1"]
  /\ signals' = FALSE
  /\ UNCHANGED <<state, queue, pc, stage, cvMutex, accepted, calls, failed>>

\* A signal is handled while the handlers are set; before run() has published the
\* manager the handler does nothing else.
signal ==
  /\ signals
  /\ req[SignalThread] = "idle"
  /\ signals' = FALSE
  /\ req' = [req EXCEPT ![SignalThread] = IF pc = "new" THEN "done" ELSE "load1"]
  /\ UNCHANGED <<state, queue, pc, stage, cvMutex, accepted, calls, failed>>

\* The two early returns, each with a load of its own.
requestLoad(t) ==
  /\ req[t] \in {"load1", "load2"}
  /\ req' = [req EXCEPT ![t] =
               IF req[t] = "load1"
               THEN IF state = "ReadyToStop" THEN "done" ELSE "load2"
               ELSE IF state = "ShuttingDown" THEN "done" ELSE "lock"]
  /\ UNCHANGED <<state, queue, pc, stage, cvMutex, signals, accepted, calls, failed>>

\* The mutex is not recursive: a handler that interrupted its owner never gets it.
requestLock(t) ==
  /\ req[t] = "lock"
  /\ cvMutex = None
  /\ cvMutex' = t
  /\ req' = [req EXCEPT ![t] = "store"]
  /\ UNCHANGED <<state, queue, pc, stage, signals, accepted, calls, failed>>

\* Store, notify, unlock: main wakes up if it sleeps.
wakeMain_Never == pc' = pc
wakeMain == pc' = IF pc = "asleep" THEN "lock" ELSE pc

requestStore(t) ==
  /\ req[t] = "store"
  /\ state' = "ShuttingDown"
  /\ cvMutex' = None
  /\ wakeMain
  /\ req' = [req EXCEPT ![t] = "done"]
  /\ UNCHANGED <<queue, stage, signals, accepted, calls, failed>>

shutdown(t) == requestLoad(t) \/ requestLock(t) \/ requestStore(t)

------------------------------------------------------------------------------
Init ==
  /\ state = "Init"
  /\ queue = [g \in Stages |-> <<>>]
  /\ pc = "new"
  /\ stage = "prepare"
  /\ cvMutex = None
  /\ req = [t \in Askers |-> "idle"]
  /\ signals = TRUE
  /\ accepted = {}
  /\ calls = <<>>
  /\ failed = {}

Next ==
  \/ \E g \in Stages : register(g)
  \/ start
  \/ run
  \/ \E t \in Requesters : requestBegin(t)
  \/ signal
  \/ \E t \in Askers : shutdown(t)

Spec == Init /\ [][Next]_vars

\* Threads run, callbacks return, and main() calls run(); nobody has to ask for
\* the shutdown.
Fairness ==
  /\ WF_vars(start) /\ WF_vars(run)
  /\ \A t \in Askers : WF_vars(shutdown(t))

FairSpec == Spec /\ Fairness

------------------------------------------------------------------------------
TypeOK ==
  /\ state \in Range(States)
  /\ queue \in [Stages -> Seq(1..MaxCallbacks)]
  /\ pc \in {"new", "enter", "loop", "called", "works?", "lock", "waiting", "asleep",
             "final", "returned", "wrongStage", "unexpectedStage"}
  /\ stage \in Stages
  /\ cvMutex \in Askers \cup {"main", None}
  /\ req \in [Askers -> {"idle", "load1", "load2", "lock", "store", "done"}]
  /\ signals \in BOOLEAN
  /\ accepted \subseteq Stages \X (1..MaxCallbacks)
  /\ calls \in Seq(Stages \X (1..MaxCallbacks))
  /\ failed \subseteq Stages

\* Components see the stages in order: no callback of a stage is called once one of
\* a later stage was, none after a callback of its own or an earlier stage failed,
\* except those of the shutdown.
StagesInOrder ==
  [][\A g \in Stages, c \in 1..MaxCallbacks :
       calls' = Append(calls, <<g, c>>) =>
         /\ \A i \in 1..Len(calls) :
              rank(during(calls[i][1])) <= rank(during(g))
         /\ g # "shutdown" => failed = {}]_vars

\* When run() returns, every callback that was accepted for the shutdown has been
\* called, once: a component that was told to stop later than it registered is
\* stopped all the same.
AllStopped ==
  [][pc = "final" /\ pc' = "returned" =>
       \A c \in accepted : c[1] = "shutdown" =>
         Cardinality({i \in 1..Len(calls) : calls[i] = c}) = 1]_vars

\* Components see the stages in order, and after a failure only the shutdown; when run()
\* returns, every callback accepted for the shutdown has been called, once.
StopsInOrder == StagesInOrder /\ AllStopped

\* A request ends the application: main wakes up wherever it was, finds every stage in
\* the state it may start from, runs the shutdown callbacks and returns.  The exception
\* is a signal that interrupts the main thread while it holds cv_mutex_: the handler then
\* waits for the lock of its own thread.
ShutdownEnds ==
  (\E t \in Askers : req[t] \in {"load1", "load2", "lock", "store"})
    ~> \/ pc \in {"returned", "unexpectedStage"}
       \/ SignalOnMain /\ req[SignalThread] = "lock" /\ cvMutex = "main"

\* What the exception at the end of run() asserts: it leaves in 'ready to stop'.
ReadyToStopAtEnd == pc # "unexpectedStage"
==============================================================================
