---------------------------- MODULE MetricsWatcher ----------------------------
(***************************************************************************)
(* MetricsWatcher: a thread that measures the storage every half a minute, *)
(* from start() to stop() of the state manager.  The flag between them is  *)
(* volatile and not atomic: a read of it is one load of its last value.    *)
(***************************************************************************)
EXTENDS Integers, FiniteSetsExt

CONSTANTS MaxSlept   \* bound: the seconds that are counted

VARIABLES
  watcher,   \* the calls of the state manager: "made", "started", "stopping", "stopped"
  thread,    \* "none", where it is in its loop, or "ended"
  shutdown_requested_,
  slept      \* history: seconds slept since stop() was called

vars == <<watcher, thread, shutdown_requested_, slept>>

goto(place) == thread' = place

start ==
  /\ watcher = "made"
  /\ watcher' = "started"
  /\ goto("test")
  /\ UNCHANGED <<shutdown_requested_, slept>>

\* stop() sets the flag and joins the thread, if there is one.
stop ==
  /\ watcher \in {"made", "started"}
  /\ watcher' = "stopping"
  /\ shutdown_requested_' = TRUE
  /\ UNCHANGED <<thread, slept>>

joins == thread \in {"none", "ended"}

join ==
  /\ watcher = "stopping" /\ joins
  /\ watcher' = "stopped"
  /\ UNCHANGED <<thread, shutdown_requested_, slept>>

loopTest ==
  /\ thread = "test"
  /\ goto(IF shutdown_requested_ THEN "ended" ELSE "measure")
  /\ UNCHANGED <<watcher, shutdown_requested_, slept>>

\* measure_storage_size(): nothing sets storage_path_, so it is no directory, and the
\* gauge keeps its first value.
measure_storage_size ==
  /\ thread = "measure"
  /\ goto("sleep")
  /\ UNCHANGED <<watcher, shutdown_requested_, slept>>

\* Granulated waiting: a second, then the flag; after the last second, or once the flag
\* is set, back to the test.
wakes == IF shutdown_requested_ THEN {"test"} ELSE {"sleep", "test"}

sleep ==
  /\ thread = "sleep"
  /\ \E place \in wakes : goto(place)
  /\ slept' = IF shutdown_requested_ THEN Min({slept + 1, MaxSlept}) ELSE 0
  /\ UNCHANGED <<watcher, shutdown_requested_>>

Init == watcher = "made" /\ thread = "none" /\ shutdown_requested_ = FALSE /\ slept = 0

run == loopTest \/ measure_storage_size \/ sleep

Next == start \/ stop \/ join \/ run

Spec == Init /\ [][Next]_vars

------------------------------------------------------------------------------
\* When stop() has returned the thread is not running: it uses the gauge of a registry
\* that the watcher owns.  It sleeps one second at most before it sees the flag
\* (MetricsWatcher::start(), stop()).
WatcherStops ==
  /\ watcher = "stopped" => thread \in {"none", "ended"}
  /\ slept <= 1

\* stop() returns.
WatcherJoined == watcher = "stopping" ~> watcher = "stopped"
==============================================================================
