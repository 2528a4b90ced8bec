------------------------------ MODULE MCScheduler ------------------------------
(***************************************************************************)
(* The scheduler and the event that it sleeps on, for the model checker.   *)
(* The scheduler uses the event by its promise, so a behaviour is one of   *)
(* one of them.                                                            *)
(***************************************************************************)
EXTENDS Scheduler

CONSTANTS Waiters, Setters

VARIABLES part, flag_, wait_m_, at, timed, late

event == <<flag_, wait_m_, at, timed, late>>
allVars == <<part, vars, event>>

E == INSTANCE WaitForSingleObject WITH pc <- at

MCInit == part \in {"scheduler", "event"} /\ Init /\ E!Init

ofScheduler(A) == part = "scheduler" /\ A /\ UNCHANGED <<part, event>>
ofEvent(A) == part = "event" /\ A /\ UNCHANGED <<part, vars>>

MCNext == ofScheduler(Next) \/ ofEvent(E!Next)

\* A mutex does not starve who waits for it.
MCFairness ==
  /\ WF_allVars(ofScheduler(process)) /\ WF_allVars(ofScheduler(Tick))
  /\ WF_allVars(ofScheduler(disposeSignal \/ disposeJoin))
  /\ \A t \in Waiters : SF_allVars(ofEvent(E!waitLock(t))) /\ WF_allVars(ofEvent(E!waitTest(t)))
  /\ \A s \in Setters : WF_allVars(ofEvent(E!setFlag(s))) /\ WF_allVars(ofEvent(E!notify_one(s)))

MCSpec == MCInit /\ [][MCNext]_allVars /\ MCFairness

------------------------------------------------------------------------------
\* The event implements the one that the schedulers and the channel rely on.
ImplementsEvent == E!ImplementsEvent

\* Every task that a handler accepts is taken, dispose(true) returns, and a signal wakes
\* somebody who waits.
SchedulerProgress ==
  /\ part = "scheduler" => EveryTaskTaken /\ DisposeReturns
  /\ part = "event" => E!SignalWakes
==============================================================================
