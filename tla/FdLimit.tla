-------------------------------- MODULE FdLimit --------------------------------
(***************************************************************************)
(* setFdLimit(): ask the system for a number of open files.  If it refuses *)
(* the number, a binary search looks for the greatest that it accepts, and *)
(* every number the search tries is set on the way.                        *)
(***************************************************************************)
EXTENDS Integers, FiniteSets, FiniteSetsExt

CONSTANTS MaxLimit   \* bound: the limits

VARIABLES
  limit,          \* asked for
  soft, hard,     \* the limits of the system
  current,        \* the soft limit that setFdLimit() found
  first, count,   \* the range that is left to std::upper_bound
  pc

vars == <<limit, soft, hard, current, first, count, pc>>

\* setrlimit() refuses what is above the hard limit.
accepts(n) == n <= hard
setrlimit(n) == soft' = IF accepts(n) THEN n ELSE soft

\* getrlimit() may fail.
unreadable ==
  /\ pc = "begin"
  /\ pc' = "failed"
  /\ UNCHANGED <<limit, soft, hard, current, first, count>>

setFdLimit ==
  /\ pc = "begin"
  /\ current' = soft
  /\ setrlimit(limit)
  /\ first' = soft
  /\ count' = IF limit > soft /\ ~accepts(limit) THEN limit - soft ELSE 0
  /\ pc' = "search"
  /\ UNCHANGED <<limit, hard>>

\* std::upper_bound over [current, limit): halve, try the middle, go right if it could
\* be set.
half == count \div 2
rest == count - half - 1

probe ==
  /\ pc = "search" /\ count > 0
  /\ setrlimit(first + half)
  /\ IF accepts(first + half)
     THEN first' = first + half + 1 /\ count' = rest
     ELSE count' = half /\ UNCHANGED first
  /\ UNCHANGED <<limit, hard, current, pc>>

finish ==
  /\ pc = "search" /\ count <= 0
  /\ pc' = "done"
  /\ UNCHANGED <<limit, soft, hard, current, first, count>>

Init ==
  /\ limit \in 0..MaxLimit /\ hard \in 0..MaxLimit /\ soft \in 0..hard
  /\ current = soft /\ first = 0 /\ count = 0 /\ pc = "begin"

Next == unreadable \/ setFdLimit \/ probe \/ finish

Spec == Init /\ [][Next]_vars

------------------------------------------------------------------------------
\* The search ends on the greatest number that the system grants, and the limit is never
\* between lower than it was and than was asked for.
LimitGranted ==
  /\ pc = "done" => soft = Min({limit, hard})
  /\ soft >= Min({limit, current}) /\ soft <= hard
==============================================================================
