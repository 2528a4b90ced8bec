---------------------------- MODULE AutoResetEvent ----------------------------
(***************************************************************************)
(* What the users of an event rely on: a signal stays until one call of    *)
(* wait() takes it, and a call gives up only while there is none.          *)
(***************************************************************************)
CONSTANTS Waiters

VARIABLES
  signalled,
  waiting     \* the threads in wait()

vars == <<signalled, waiting>>

Wait(t) == t \notin waiting /\ waiting' = waiting \cup {t} /\ UNCHANGED signalled

Set == signalled' = TRUE /\ UNCHANGED waiting

\* wait() returns true.
Take(t) ==
  /\ t \in waiting /\ signalled
  /\ signalled' = FALSE
  /\ waiting' = waiting \ {t}

\* wait(timeout) returns false.
GiveUp(t) ==
  /\ t \in waiting /\ ~signalled
  /\ waiting' = waiting \ {t}
  /\ UNCHANGED signalled

Init == signalled = FALSE /\ waiting = {}

Next == Set \/ \E t \in Waiters : Wait(t) \/ Take(t) \/ GiveUp(t)

Spec == Init /\ [][Next]_vars
==============================================================================
