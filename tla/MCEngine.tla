------------------------------ MODULE MCEngine ------------------------------
(***************************************************************************)
(* The subscription engine for the model checker, with the layers below    *)
(* and above it, under names that none of them shares: the object that     *)
(* protects its table, the manager that makes it, and the modules that     *)
(* talk through it.                                                        *)
(***************************************************************************)
EXTENDS SubscriptionEngine, Sequences

CONSTANTS
  Threads, MaxAccesses,               \* of the protected object
  EngineIds, Callers, MaxCalls,       \* of the manager
  Libraries, MaxFinished              \* of the modules of the node

VARIABLES
  engines, made, withDispatcher, disposed, stopped, pc, managerCalls, got,
  t_, writer, readers, access, inside, copy, accesses,
  stage, libraries, dir, modules, loaders, pending, handling, n, announced, answered

manager == <<engines, made, withDispatcher, disposed, stopped, pc, managerCalls, got>>
object == <<t_, writer, readers, access, inside, copy, accesses>>
node == <<stage, libraries, dir, modules, loaders, pending, handling, n, announced, answered>>

M == INSTANCE SubscriptionManager WITH
       attached <- withDispatcher, calls <- managerCalls

O == INSTANCE SafeObject WITH call <- access

L == INSTANCE Modules WITH
       pc <- stage, given <- libraries, queue <- pending, running <- handling

\* None is nobody and nothing of what it stands beside.
ASSUME PartsAssumption ==
  /\ None \notin Threads /\ None \notin O!Calls
  /\ None \notin Nat /\ IsFiniteSet(EngineIds) /\ MaxCalls \in Nat

------------------------------------------------------------------------------
\* Callers that race in getEngine() for one argument list get the engine in the map, and
\* racing calls of dispose() stop the dispatcher once.
ManagerInv == M!ManagerInv

\* A function that runs on a protected object sees nobody else's changes, and none is lost.
ObjectInv == O!TypeOK /\ O!Isolated

\* The modules are there all or none, and no block request is lost, doubled or mixed up.
ModulesInv == L!ModulesInv
==============================================================================
