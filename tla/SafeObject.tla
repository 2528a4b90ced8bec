------------------------------ MODULE SafeObject ------------------------------
(***************************************************************************)
(* SafeObject: an object behind a shared mutex, with exclusive, tried and  *)
(* shared access.  The function that a client passes is two steps, so that *)
(* another thread could come between them: it reads the object, and, with  *)
(* exclusive access, writes what it made of it.                            *)
(***************************************************************************)
EXTENDS Integers, FiniteSets

CONSTANTS Threads, None,
          MaxAccesses   \* bound: exclusive accesses

VARIABLES
  t_,        \* the object: a count
  writer,    \* cs_: who owns it alone,
  readers,   \* and who shares it
  call,      \* by thread: the call it is in, or None
  inside,    \* by thread: where it is in the function: "no", "begin" or "end"
  copy,      \* by thread: what the function has read
  accesses   \* history: exclusive functions that were run

vars == <<t_, writer, readers, call, inside, copy, accesses>>

Exclusive == {"exclusiveAccess", "try_exclusiveAccess"}
Calls == Exclusive \cup {"sharedAccess"}

\* std::unique_lock and std::shared_lock.
mayOwn_Shared(t) == writer = None
mayOwn(t) == writer = None /\ readers = {}
mayShare(t) == writer = None

enters(t, c) == inside' = [inside EXCEPT ![t] = "begin"] /\ call' = [call EXCEPT ![t] = c]

------------------------------------------------------------------------------
begin(t, c) ==
  /\ call[t] = None
  /\ accesses < MaxAccesses
  /\ call' = [call EXCEPT ![t] = c]
  /\ UNCHANGED <<t_, writer, readers, inside, copy, accesses>>

acquire(t) ==
  /\ call[t] \in Exclusive /\ inside[t] = "no"
  /\ mayOwn(t)
  /\ writer' = t
  /\ enters(t, call[t])
  /\ UNCHANGED <<t_, readers, copy, accesses>>

\* try_exclusiveAccess() returns an empty optional if the mutex is taken.
giveUp(t) ==
  /\ call[t] = "try_exclusiveAccess" /\ inside[t] = "no"
  /\ ~mayOwn(t)
  /\ call' = [call EXCEPT ![t] = None]
  /\ UNCHANGED <<t_, writer, readers, inside, copy, accesses>>

share(t) ==
  /\ call[t] = "sharedAccess" /\ inside[t] = "no"
  /\ mayShare(t)
  /\ readers' = readers \cup {t}
  /\ enters(t, call[t])
  /\ UNCHANGED <<t_, writer, copy, accesses>>

\* The function.
read(t) ==
  /\ inside[t] = "begin"
  /\ copy' = [copy EXCEPT ![t] = t_]
  /\ inside' = [inside EXCEPT ![t] = "end"]
  /\ UNCHANGED <<t_, writer, readers, call, accesses>>

\* Its end, and the end of the lock's scope.
leave(t) ==
  /\ inside[t] = "end"
  /\ IF call[t] \in Exclusive
     THEN t_' = copy[t] + 1 /\ accesses' = accesses + 1
     ELSE UNCHANGED <<t_, accesses>>
  /\ writer' = IF writer = t THEN None ELSE writer
  /\ readers' = readers \ {t}
  /\ inside' = [inside EXCEPT ![t] = "no"]
  /\ call' = [call EXCEPT ![t] = None]
  /\ UNCHANGED copy

------------------------------------------------------------------------------
Init ==
  /\ t_ = 0 /\ writer = None /\ readers = {}
  /\ call = [t \in Threads |-> None] /\ inside = [t \in Threads |-> "no"]
  /\ copy = [t \in Threads |-> 0] /\ accesses = 0

access(t) == acquire(t) \/ share(t) \/ giveUp(t) \/ read(t) \/ leave(t)

Next == \E t \in Threads : access(t) \/ \E c \in Calls : begin(t, c)

Spec == Init /\ [][Next]_vars

------------------------------------------------------------------------------
TypeOK ==
  /\ t_ \in Nat /\ accesses \in Nat
  /\ writer \in Threads \cup {None} /\ readers \subseteq Threads
  /\ call \in [Threads -> Calls \cup {None}]
  /\ inside \in [Threads -> {"no", "begin", "end"}]
  /\ copy \in [Threads -> Nat]

\* A function sees an object that nobody else changes until it returns, and no change
\* is lost: the models above take what is done under one of these calls as one step.
Isolated ==
  /\ t_ = accesses
  /\ \A t \in Threads : inside[t] = "end" => copy[t] = t_
==============================================================================
