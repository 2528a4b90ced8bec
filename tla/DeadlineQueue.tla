---------------------------- MODULE DeadlineQueue ----------------------------
(***************************************************************************)
(* What a scheduler promises its clients, without threads, locks or        *)
(* events: a set of accepted tasks, each of which leaves the set at most   *)
(* once, never before its deadline, and always in the order of deadlines   *)
(* with ties broken by arrival.  Scheduler.tla implements this module.     *)
(***************************************************************************)
EXTENDS Integers

CONSTANTS Tasks,      \* the callables clients upload
          Timeouts    \* the delays clients ask for, in clock ticks

VARIABLES pending,    \* the accepted tasks that were not taken yet
          arrivals,   \* how many tasks were accepted so far
          now         \* the clock

dqVars == <<pending, arrivals, now>>

\* The time at which an accepted task is due.
due(t) == t.created + t.timeout

\* t goes before u: an earlier deadline, or the same one and an earlier arrival.
goesBefore(t, u) ==
  \/ due(t) < due(u)
  \/ due(t) = due(u) /\ t.seq < u.seq

DQInit == pending = {} /\ arrivals = 0 /\ now = 0

\* A task is accepted: it is the youngest arrival.
Accept ==
  \E t \in Tasks, d \in Timeouts, r \in BOOLEAN :
    /\ pending' = pending \cup
                    {[task |-> t, created |-> now, timeout |-> d,
                      rep |-> r, seq |-> arrivals]}
    /\ arrivals' = arrivals + 1
    /\ UNCHANGED now

\* The first task in order is taken, once its deadline has come.
Take ==
  \E t \in pending :
    /\ due(t) <= now
    /\ \A u \in pending \ {t} : goesBefore(t, u)
    /\ pending' = pending \ {t}
    /\ UNCHANGED <<arrivals, now>>

Elapse == now' > now /\ UNCHANGED <<pending, arrivals>>

DQNext == Accept \/ Take \/ Elapse

DQSpec == DQInit /\ [][DQNext]_dqVars
==============================================================================
