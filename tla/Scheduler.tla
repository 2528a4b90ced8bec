------------------------------ MODULE Scheduler ------------------------------
(***************************************************************************)
(* One scheduler of the subscription engine: SchedulerBase, the event it   *)
(* sleeps on (WaitForSingleObject) and the thread that drives it           *)
(* (ThreadHandler).  The worker is a program counter over the loop of      *)
(* process(); clients upload tasks at any time, from any thread; one       *)
(* client disposes of the handler.                                         *)
(*                                                                         *)
(* Each section under tasks_cs_ is one step.  add() signals the event      *)
(* while it holds tasks_cs_, and the worker reads tasks_ only under that   *)
(* mutex, so inserting and signalling are one step as well.  dispose()     *)
(* takes no mutex: its two effects are two steps.                          *)
(*                                                                         *)
(* The clock counts ticks; high_resolution_clock (deadlines) and the clock *)
(* of wait_for (sleeping) are taken to advance together.                   *)
(***************************************************************************)
EXTENDS Integers, Sequences, FiniteSets, FiniteSetsExt

CONSTANTS Tasks,        \* the callables clients upload
          Timeouts,     \* the delays clients ask for, in clock ticks
          DefaultWait,  \* the sleep when no task is pending (10 minutes)
          MaxTime,      \* bound: the last tick of the clock
          MaxArrivals,  \* bound: calls of add(), repetitions included
          None          \* no current task

ASSUME SchedulerAssumption ==
  /\ Timeouts \subseteq Nat
  /\ DefaultWait \in Nat
  /\ MaxTime \in Nat
  /\ MaxArrivals \in Nat

VARIABLES
  tasks,      \* tasks_: the deque of TimedTask
  isBusy,     \* is_busy_
  signalled,  \* the event's state, ~flag_
  proceed,    \* proceed_
  now,        \* the clock
  pc,         \* where the worker is in process()
  current,    \* the TimedTask process() extracted, or None
  sleep,      \* what is left of the timeout given to event_.wait
  disposing,  \* how far dispose() is
  arrivals    \* history: the number of calls of add()

vars == <<tasks, isBusy, signalled, proceed, now, pc, current, sleep,
          disposing, arrivals>>

\* A TimedTask; rep: it has a predicate; seq: its arrival, for the properties.
TimedTask == [task : Tasks, created : Nat, timeout : Timeouts,
              rep : BOOLEAN, seq : Nat]

deadline(t) == t.created + t.timeout

------------------------------------------------------------------------------
\* WaitForSingleObject::set()
setEvent_Lost == UNCHANGED signalled
setEvent == signalled' = TRUE

\* What ends WaitForSingleObject::wait(timeout).
wakes == signalled \/ sleep = 0

\* std::upper_bound over the deadlines: the first position due after tp.
after(tp) ==
  Min({i \in 1..Len(tasks) : tp < deadline(tasks[i])} \cup {Len(tasks) + 1})

\* deque::insert before position i.
insert(i, t) ==
  [j \in 1..(Len(tasks) + 1) |->
     IF j < i THEN tasks[j] ELSE IF j = i THEN t ELSE tasks[j - 1]]

\* extractExpired: the deadline has come.
expired_Early(t) == deadline(t) <= now + 1
expired(t) == deadline(t) <= now

\* A task due at once makes the handler busy before the worker sees it.
busyAfter_Delayed(timeout) == isBusy \/ timeout > 0
busyAfter(timeout) == isBusy \/ timeout = 0

\* The time from now till the first task, or the default.
sleepTime ==
  IF tasks = <<>> THEN DefaultWait
  ELSE IF deadline(Head(tasks)) > now THEN deadline(Head(tasks)) - now ELSE 0

\* add(): insert by deadline, mark the handler busy if due at once, signal.
add(task, timeout, rep) ==
  LET t == [task |-> task, created |-> now, timeout |-> timeout,
            rep |-> rep, seq |-> arrivals]
  IN /\ arrivals < MaxArrivals
     /\ now + timeout <= MaxTime
     /\ isBusy' = busyAfter(timeout)
     /\ tasks' = insert(after(deadline(t)), t)
     /\ setEvent
     /\ arrivals' = arrivals + 1

------------------------------------------------------------------------------
(* Clients, on any thread *)

addDelayed(t, timeout) ==
  /\ add(t, timeout, FALSE)
  /\ UNCHANGED <<proceed, now, pc, current, sleep, disposing>>

repeat(t, timeout) ==
  /\ add(t, timeout, TRUE)
  /\ UNCHANGED <<proceed, now, pc, current, sleep, disposing>>

\* A busy handler hands the task back and nothing changes.
uploadIfFree(t, timeout) ==
  /\ ~isBusy
  /\ add(t, timeout, FALSE)
  /\ UNCHANGED <<proceed, now, pc, current, sleep, disposing>>

\* dispose(), first effect: the loop must not go on.
disposeClear ==
  /\ disposing = "no"
  /\ proceed' = FALSE
  /\ disposing' = "cleared"
  /\ UNCHANGED <<tasks, isBusy, signalled, now, pc, current, sleep, arrivals>>

\* dispose(), second effect: wake the worker.
disposeSignal ==
  /\ disposing = "cleared"
  /\ setEvent
  /\ disposing' = "joining"
  /\ UNCHANGED <<tasks, isBusy, proceed, now, pc, current, sleep, arrivals>>

\* ThreadHandler::dispose(true) returns once the worker has left process().
disposeJoin ==
  /\ disposing = "joining"
  /\ pc = "exited"
  /\ disposing' = "disposed"
  /\ UNCHANGED <<tasks, isBusy, signalled, proceed, now, pc, current, sleep,
                 arrivals>>

------------------------------------------------------------------------------
(* The worker: process() *)

\* extractExpired() finds the first task due and takes it.
extractTask ==
  /\ pc = "extract"
  /\ tasks # <<>>
  /\ expired(Head(tasks))
  /\ current' = Head(tasks)
  /\ tasks' = Tail(tasks)
  /\ isBusy' = TRUE
  /\ pc' = "run"
  /\ UNCHANGED <<signalled, proceed, now, sleep, disposing, arrivals>>

\* extractExpired() finds nothing due.
extractNothing ==
  /\ pc = "extract"
  /\ tasks # <<>> => ~expired(Head(tasks))
  /\ isBusy' = FALSE
  /\ pc' = "untilFirst"
  /\ UNCHANGED <<tasks, signalled, proceed, now, current, sleep, disposing,
                 arrivals>>

\* The task is over: it ran, was empty, threw, or its predicate said no.
finishTask ==
  /\ pc = "run"
  /\ current' = None
  /\ pc' = "check"
  /\ UNCHANGED <<tasks, isBusy, signalled, proceed, now, sleep, disposing,
                 arrivals>>

\* A task with a predicate that said yes ran, and is added again from now on.
repeatTask ==
  /\ pc = "run"
  /\ current.rep
  /\ add(current.task, current.timeout, TRUE)
  /\ current' = None
  /\ pc' = "check"
  /\ UNCHANGED <<proceed, now, sleep, disposing>>

\* untilFirst(): how long to sleep; the mutex is released before the wait.
untilFirst ==
  /\ pc = "untilFirst"
  /\ sleep' = sleepTime
  /\ pc' = "wait"
  /\ UNCHANGED <<tasks, isBusy, signalled, proceed, now, current, disposing,
                 arrivals>>

\* event_.wait(timeout) returns, signalled or not, and resets the event.
wait ==
  /\ pc = "wait"
  /\ wakes
  /\ signalled' = FALSE
  /\ sleep' = 0
  /\ pc' = "check"
  /\ UNCHANGED <<tasks, isBusy, proceed, now, current, disposing, arrivals>>

\* while (proceed_.test_and_set())
testProceed ==
  /\ pc = "check"
  /\ pc' = IF proceed THEN "extract" ELSE "exited"
  /\ proceed' = TRUE
  /\ UNCHANGED <<tasks, isBusy, signalled, now, current, sleep, disposing,
                 arrivals>>

------------------------------------------------------------------------------
\* Time passes, also for a worker that sleeps.
Tick ==
  /\ now < MaxTime
  /\ now' = now + 1
  /\ sleep' = IF pc = "wait" /\ sleep > 0 THEN sleep - 1 ELSE sleep
  /\ UNCHANGED <<tasks, isBusy, signalled, proceed, pc, current, disposing,
                 arrivals>>

Init ==
  /\ tasks = <<>>
  /\ isBusy = FALSE
  /\ signalled = FALSE
  /\ proceed = TRUE
  /\ now = 0
  /\ pc = "extract"
  /\ current = None
  /\ sleep = 0
  /\ disposing = "no"
  /\ arrivals = 0

Client ==
  \E t \in Tasks, d \in Timeouts :
    addDelayed(t, d) \/ repeat(t, d) \/ uploadIfFree(t, d)

dispose == disposeClear \/ disposeSignal \/ disposeJoin

process ==
  \/ extractTask \/ extractNothing
  \/ finishTask \/ repeatTask
  \/ untilFirst \/ wait \/ testProceed

Next == Client \/ dispose \/ process \/ Tick

Spec == Init /\ [][Next]_vars

\* The operating system runs the worker and the clock goes on; a client is
\* under no obligation, but a dispose() that was begun is carried through.
Fairness ==
  /\ WF_vars(process)
  /\ WF_vars(Tick)
  /\ WF_vars(disposeSignal \/ disposeJoin)

FairSpec == Spec /\ Fairness

------------------------------------------------------------------------------
\* The variables keep their types: in particular no computed sleep is negative
\* (scheduler_impl.hpp untilFirst) and a task is current exactly while it runs.
TypeOK ==
  /\ tasks \in Seq(TimedTask)
  /\ isBusy \in BOOLEAN
  /\ signalled \in BOOLEAN
  /\ proceed \in BOOLEAN
  /\ now \in Nat
  /\ pc \in {"extract", "run", "untilFirst", "wait", "check", "exited"}
  /\ IF pc = "run" THEN current \in TimedTask ELSE current = None
  /\ sleep \in Nat
  /\ disposing \in {"no", "cleared", "joining", "disposed"}
  /\ arrivals \in Nat

\* No lost wake-up: a worker asleep on an unsignalled event never sleeps past
\* the deadline of the first task, whatever was inserted after it computed its
\* timeout (untilFirst releases tasks_cs_ before event_.wait is entered).
NoOversleep ==
  pc = "wait" /\ ~signalled /\ tasks # <<>> =>
    now + sleep <= deadline(tasks[1]) \/ sleep = 0

\* is_busy_ can be trusted by uploadIfFree: a handler that runs a task, or
\* holds one uploaded without delay, says so; the pool never queues such a
\* task behind another one.
BusyIsHonest ==
  /\ pc = "run" => isBusy
  /\ (\E i \in 1..Len(tasks) : tasks[i].timeout = 0) => isBusy

\* The deque is strictly sorted by deadline and arrival and holds nothing from
\* the future, so its front is what extractExpired and untilFirst take it for:
\* the first task due (add inserts behind all tasks of the same deadline).
Promise == INSTANCE DeadlineQueue WITH pending <- {tasks[i] : i \in 1..Len(tasks)}
Ordered ==
  /\ \A i, j \in 1..Len(tasks) :
       i < j => Promise!goesBefore(tasks[i], tasks[j])
  /\ \A i \in 1..Len(tasks) :
       tasks[i].created <= now /\ tasks[i].seq < arrivals

\* Seen from outside the scheduler is a set of accepted tasks that are taken
\* once each, not before their deadline, in order of deadline and arrival:
\* upper_bound keeps the deque sorted and tasks of one deadline in order.
ImplementsDeadlineQueue == Promise!DQSpec

\* Every task accepted by a handler that is not being disposed of is taken in
\* the end: the worker never sleeps through work.
EveryTaskTaken ==
  \A s \in 0..(MaxArrivals - 1) :
    (\E i \in 1..Len(tasks) : tasks[i].seq = s)
      ~> \/ ~ \E i \in 1..Len(tasks) : tasks[i].seq = s
         \/ disposing # "no"

\* dispose(true) returns: the worker leaves process() although it may be
\* asleep for ten minutes when the flag is cleared.
DisposeReturns == disposing = "cleared" ~> disposing = "disposed"
==============================================================================
