---------------------------- MODULE MCDispatcher ----------------------------
(***************************************************************************)
(* The dispatcher for the model checker, with names that no other layer of *)
(* the event system has.  It is explored twice, with temporary threads and *)
(* with schedulers that clients bind, under bounds for each.               *)
(***************************************************************************)
EXTENDS Integers, Sequences, FiniteSets

CONSTANTS
  HandlersCount, PoolSize, Uploaders,
  MaxTasks,                       \* with temporary threads
  Schedulers, MaxBinds,           \* or with schedulers that clients bind
  BoundUploaders, MaxBoundTasks,
  Nothing

\* The sizes and bounds of the dispatcher are numbers.
ASSUME DispatcherAssumption ==
  HandlersCount \in Nat /\ PoolSize \in Nat /\ MaxTasks \in Nat /\ MaxBinds \in Nat

VARIABLES
  isDisposed, counter, bound, offset, queue, busy, stop, state, body, call, disposer,
  calls, given, done, leaked

dispatcher == <<isDisposed, counter, bound, offset, queue, busy, stop, state, body, call,
                disposer, calls, given, done, leaked>>

D == INSTANCE AsyncDispatcher WITH
       contexts <- bound, Callers <- Uploaders, MaxCalls <- MaxTasks, MayThrow <- TRUE,
       None <- Nothing

\* Several callers, or schedulers that are bound.
uploads(callers, tids) ==
  \A k \in Uploaders : call'[k] = D!idle \/ (k \in callers /\ call'[k].task.tid \in tids)

withTemporaryThreads ==
  UNCHANGED offset /\ uploads(Uploaders, 0 .. (HandlersCount - 1) \cup {D!InPool})

withBoundSchedulers ==
  /\ calls' <= MaxBoundTasks /\ uploads(BoundUploaders, HandlersCount .. D!InPool)
  /\ \A k \in Uploaders : call'[k] # D!idle /\ call'[k].task.delayed => call'[k].task.id = 1

------------------------------------------------------------------------------
\* The dispatcher, with temporary threads or bound schedulers: nothing runs after
\* dispose(), no immediate task waits behind another, no task reaches a stranger.
DispatcherInv == D!DispatcherInv
==============================================================================
