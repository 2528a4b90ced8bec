-------------------------- MODULE WaitForSingleObject --------------------------
(***************************************************************************)
(* The event that the schedulers and the channel sleep on, at the level of *)
(* its mutex and its condition variable.  The layers above use it as       *)
(* AutoResetEvent, which it implements.                                    *)
(*                                                                         *)
(* The condition variable is modelled by what the standard says: a thread  *)
(* gives the mutex up and falls asleep in one step; it wakes up when it is *)
(* notified, when its time is up, or for no reason, and takes the mutex    *)
(* again before it goes on.                                                *)
(***************************************************************************)
EXTENDS FiniteSets

CONSTANTS Waiters,   \* threads that call wait()
          Setters,   \* threads that call set()
          None

VARIABLES
  flag_,     \* TRUE: not signalled
  wait_m_,   \* who holds the mutex
  pc,        \* by thread: where it is in wait() or set()
  timed,     \* by waiter: it called the overload with a timeout,
  late       \* and its time is up

vars == <<flag_, wait_m_, pc, timed, late>>

Threads == Waiters \cup Setters

lock(t) == wait_m_ = None /\ wait_m_' = t
unlock == wait_m_' = None
goto(t, place) == pc' = [pc EXCEPT ![t] = place]

------------------------------------------------------------------------------
\* wait(), with and without a timeout.
wait(t, withTimeout) ==
  /\ pc[t] = "idle"
  /\ goto(t, "lock")
  /\ timed' = [timed EXCEPT ![t] = withTimeout]
  /\ late' = [late EXCEPT ![t] = FALSE]
  /\ UNCHANGED <<flag_, wait_m_>>

waitLock(t) ==
  /\ pc[t] = "lock"
  /\ lock(t)
  /\ goto(t, "test")
  /\ UNCHANGED <<flag_, timed, late>>

\* The predicate, which takes the signal; after the timeout it is asked once more.
leaves(t) == ~flag_ \/ late[t]

taken_Not == flag_
taken == TRUE

waitTest(t) ==
  /\ pc[t] = "test"
  /\ flag_' = taken
  /\ goto(t, IF leaves(t) THEN "idle" ELSE "asleep")
  /\ unlock
  /\ UNCHANGED <<timed, late>>

\* The time is up.
expire(t) ==
  /\ pc[t] = "asleep" /\ timed[t]
  /\ late' = [late EXCEPT ![t] = TRUE]
  /\ goto(t, "lock")
  /\ UNCHANGED <<flag_, wait_m_, timed>>

spurious(t) ==
  /\ pc[t] = "asleep"
  /\ goto(t, "lock")
  /\ UNCHANGED <<flag_, wait_m_, timed, late>>

------------------------------------------------------------------------------
\* set()
set(s) ==
  /\ pc[s] = "idle"
  /\ lock(s)
  /\ goto(s, "store")
  /\ UNCHANGED <<flag_, timed, late>>

setFlag(s) ==
  /\ pc[s] = "store"
  /\ flag_' = FALSE
  /\ unlock
  /\ goto(s, "notify")
  /\ UNCHANGED <<timed, late>>

sleepers == {t \in Waiters : pc[t] = "asleep"}

woken_Nobody(s) == goto(s, "idle")
woken(s) ==
  \/ sleepers = {} /\ goto(s, "idle")
  \/ \E t \in sleepers : pc' = [pc EXCEPT ![s] = "idle", ![t] = "lock"]

notify_one(s) ==
  /\ pc[s] = "notify"
  /\ woken(s)
  /\ UNCHANGED <<flag_, wait_m_, timed, late>>

------------------------------------------------------------------------------
Init ==
  /\ flag_ = TRUE
  /\ wait_m_ = None
  /\ pc = [t \in Threads |-> "idle"]
  /\ timed = [t \in Waiters |-> FALSE] /\ late = [t \in Waiters |-> FALSE]

Next ==
  \/ \E t \in Waiters :
       \/ \E withTimeout \in BOOLEAN : wait(t, withTimeout)
       \/ waitLock(t) \/ waitTest(t) \/ expire(t) \/ spurious(t)
  \/ \E s \in Setters : set(s) \/ setFlag(s) \/ notify_one(s)

Spec == Init /\ [][Next]_vars

------------------------------------------------------------------------------
TypeOK ==
  /\ flag_ \in BOOLEAN
  /\ wait_m_ \in Threads \cup {None}
  /\ pc \in [Threads -> {"idle", "lock", "test", "asleep", "store", "notify"}]
  /\ timed \in [Waiters -> BOOLEAN] /\ late \in [Waiters -> BOOLEAN]

inWait == {t \in Waiters : pc[t] \in {"lock", "test", "asleep"}}

Event == INSTANCE AutoResetEvent WITH
           signalled <- ~flag_, waiting <- inWait

\* The event keeps its promise: a signal is taken by one wait(), never lost, not even by
\* a thread whose timeout passes as the signal comes, and nobody gives up on one.
ImplementsEvent == Event!Spec

\* A signal wakes somebody who waits: there is no moment between the test of the flag
\* and the sleep, nor between the store and the notification, in which it can be missed.
SignalWakes == (~flag_ /\ inWait # {}) ~> flag_
==============================================================================
