------------------------------- MODULE Watchdog -------------------------------
(***************************************************************************)
(* Watchdog and the thread that ApplicationImpl::run gives it.  Threads    *)
(* that run() an io_context ping after every handler; checkLoop() sleeps,  *)
(* then looks for a thread that has not pinged for longer than the timeout *)
(* and ends the process.                                                   *)
(*                                                                         *)
(* Time is discrete.  check() holds the mutex that add() takes and is one  *)
(* step; a ping while it runs counts as one just before or after it.  A    *)
(* thread id may be used again once its thread has ended.                  *)
(***************************************************************************)
EXTENDS Integers

CONSTANTS Threads,       \* std::thread::id
          Timeout,       \* kWatchdogDefaultTimeout
          Granularity,   \* granularity_
          Delay,         \* the check comes at most so late
          W,             \* Count has W values
          MaxTime        \* bound: the clock

ASSUME WatchdogAssumption ==
  /\ Timeout \in Nat /\ Granularity \in Nat \ {0} /\ Delay \in Nat /\ MaxTime \in Nat
  /\ W \in Nat \ {0}

VARIABLES
  now,        \* Clock::now()
  known,      \* the ids in threads_
  last_time, last_count, count,   \* their entries
  worker,     \* "out", "loop" or "handler": where in run() a thread is
  stopped_,
  checker,    \* "sleeping", "done" or "aborted"
  wake,       \* when the checker's sleep is over
  lastPing,   \* history: when the entry was made or pinged last
  pings       \* history: how often since the last check

workerVars == <<known, last_time, last_count, count, worker, lastPing, pings>>
watchdogVars == <<now, workerVars, stopped_, checker, wake>>

alive == checker # "aborted"

------------------------------------------------------------------------------
\* add(): an entry that is still there is used again as it is.
add(t) ==
  /\ alive
  /\ worker[t] = "out"
  /\ worker' = [worker EXCEPT ![t] = "loop"]
  /\ IF t \in known
     THEN UNCHANGED <<known, last_time, last_count, count, lastPing, pings>>
     ELSE /\ known' = known \cup {t}
          /\ last_time' = [last_time EXCEPT ![t] = now]
          /\ last_count' = [last_count EXCEPT ![t] = 0]
          /\ count' = [count EXCEPT ![t] = 0]
          /\ lastPing' = [lastPing EXCEPT ![t] = now]
          /\ pings' = [pings EXCEPT ![t] = 0]
  /\ UNCHANGED <<now, stopped_, checker, wake>>

\* run(): the test of its loop; the io_context may be gone at any time.
enter(t) ==
  /\ alive
  /\ worker[t] = "loop" /\ ~stopped_
  /\ worker' = [worker EXCEPT ![t] = "handler"]
  /\ UNCHANGED <<now, known, last_time, last_count, count, lastPing, pings, stopped_,
                 checker, wake>>

\* The Ping goes away with run().
leave(t) ==
  /\ alive
  /\ worker[t] = "loop"
  /\ worker' = [worker EXCEPT ![t] = "out"]
  /\ UNCHANGED <<now, known, last_time, last_count, count, lastPing, pings, stopped_,
                 checker, wake>>

\* Ping::operator(): the counter wraps.
next(c) == (c + 1) % W

\* run_one_for() is over, however long it took.  No thread handles W events between
\* two checks.
ping(t) ==
  /\ alive
  /\ worker[t] = "handler"
  /\ pings[t] < W - 1
  /\ worker' = [worker EXCEPT ![t] = "loop"]
  /\ count' = [count EXCEPT ![t] = next(count[t])]
  /\ lastPing' = [lastPing EXCEPT ![t] = now]
  /\ pings' = [pings EXCEPT ![t] = pings[t] + 1]
  /\ UNCHANGED <<now, known, last_time, last_count, stopped_, checker, wake>>

stop ==
  /\ alive
  /\ stopped_' = TRUE
  /\ UNCHANGED <<now, workerVars, checker, wake>>

\* use_count() == 1: the watchdog alone has the counter.
unused(t) == worker[t] = "out"

moved_Ahead(t) == last_count[t] < count[t]
moved(t) == last_count[t] # count[t]

late_Rounds(t) == now - last_time[t] > 2 * Timeout
late(t) == now - last_time[t] > Timeout

seen(t) == IF moved(t) THEN now ELSE last_time[t]

alarm == \E t \in known : ~unused(t) /\ ~moved(t) /\ late(t)

\* One round of checkLoop: check(), then the test of stopped_.
again == ~stopped_

check ==
  /\ checker = "sleeping" /\ now >= wake
  /\ IF alarm
     THEN /\ checker' = "aborted"
          /\ UNCHANGED <<workerVars, wake>>
     ELSE /\ known' = {t \in known : ~unused(t)}
          /\ last_time' = [t \in Threads |-> seen(t)]
          /\ last_count' = count
          /\ pings' = [t \in Threads |-> 0]
          /\ checker' = IF again THEN "sleeping" ELSE "done"
          /\ wake' = now + Granularity
          /\ UNCHANGED <<count, worker, lastPing>>
  /\ UNCHANGED <<now, stopped_>>

\* The clock does not wait for handlers, but the check is never later than Delay.
tick ==
  /\ alive
  /\ now < MaxTime
  /\ checker = "sleeping" => now < wake + Delay
  /\ now' = now + 1
  /\ UNCHANGED <<workerVars, stopped_, checker, wake>>

------------------------------------------------------------------------------
WatchdogInit ==
  /\ now = 0
  /\ known = {}
  /\ last_time = [t \in Threads |-> 0]
  /\ last_count = [t \in Threads |-> 0]
  /\ count = [t \in Threads |-> 0]
  /\ worker = [t \in Threads |-> "out"]
  /\ stopped_ = FALSE
  /\ checker = "sleeping"
  /\ wake = Granularity
  /\ lastPing = [t \in Threads |-> 0]
  /\ pings = [t \in Threads |-> 0]

WatchdogNext ==
  \/ \E t \in Threads : add(t) \/ enter(t) \/ leave(t) \/ ping(t)
  \/ stop
  \/ check
  \/ tick

\* The checker's sleep ends and its thread is scheduled.
WatchdogFairness == WF_watchdogVars(check) /\ WF_watchdogVars(tick)

WatchdogSpec == WatchdogInit /\ [][WatchdogNext]_watchdogVars /\ WatchdogFairness

------------------------------------------------------------------------------
WatchdogTypeOK ==
  /\ now \in Nat /\ wake \in Nat
  /\ known \subseteq Threads
  /\ last_time \in [Threads -> Nat] /\ lastPing \in [Threads -> Nat]
  /\ last_count \in [Threads -> 0..W - 1] /\ count \in [Threads -> 0..W - 1]
  /\ pings \in [Threads -> 0..W - 1]
  /\ worker \in [Threads -> {"out", "loop", "handler"}]
  /\ stopped_ \in BOOLEAN /\ checker \in {"sleeping", "done", "aborted"}

\* The process is ended only for a thread that is in run() and has not pinged for
\* longer than the timeout, wherever its counter has wrapped.
AlarmIsLate ==
  checker = "aborted" =>
    \E t \in known : worker[t] # "out" /\ now - lastPing[t] > Timeout

\* While the checker runs, every thread in run() is watched, and none is silent for
\* longer than the timeout and two rounds of the check.
StallDetected ==
  checker = "sleeping" =>
    \A t \in Threads :
      worker[t] # "out" =>
        t \in known /\ now - lastPing[t] <= Timeout + 2 * (Granularity + Delay)

\* After stop() the checker's thread ends, and run() can join it, or it finds a
\* thread that hangs.
StopEnds == stopped_ /\ wake + Delay <= MaxTime ~> checker # "sleeping"
==============================================================================
