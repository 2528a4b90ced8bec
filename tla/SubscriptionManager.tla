------------------------- MODULE SubscriptionManager -------------------------
(***************************************************************************)
(* SubscriptionManager: engines made on demand, found by the hash of their *)
(* argument types, notified, and detached from the dispatcher by           *)
(* dispose().  Callers run on any thread; a section under engines_cs_ is   *)
(* one step, shared or exclusive.  An engine is the number it was made     *)
(* with; what happens inside it is SubscriptionEngine.tla.                 *)
(***************************************************************************)
EXTENDS Integers, FiniteSets

CONSTANTS EngineIds,   \* the hashes of the argument lists in use
          Callers,     \* threads
          MaxCalls,    \* bound: calls of the manager
          None

VARIABLES
  engines,     \* engines_: id -> engine or None
  made,        \* the number of engines made
  attached,    \* the engines whose dispatcher_ is set
  disposed,    \* disposed_
  stopped,     \* how often dispatcher_->dispose() was called
  pc,          \* per caller: where it is
  calls,       \* history: the number of calls
  got          \* history: the engines getEngine returned, with their ids

vars == <<engines, made, attached, disposed, stopped, pc, calls, got>>

idle == [at |-> "idle", id |-> None]

\* A caller enters one of the methods.
enter(c, at, id) ==
  /\ pc[c] = idle
  /\ calls < MaxCalls
  /\ calls' = calls + 1
  /\ pc' = [pc EXCEPT ![c] = [at |-> at, id |-> id]]
  /\ UNCHANGED <<engines, made, attached, disposed, stopped, got>>

------------------------------------------------------------------------------
\* getEngine, under the shared lock.
getEngineShared(c) ==
  LET id == pc[c].id
  IN /\ pc[c].at = "shared"
     /\ IF engines[id] # None
          THEN /\ got' = got \cup {<<id, engines[id]>>}
               /\ pc' = [pc EXCEPT ![c] = idle]
          ELSE /\ pc' = [pc EXCEPT ![c].at = "exclusive"]
               /\ UNCHANGED got
     /\ UNCHANGED <<engines, made, attached, disposed, stopped, calls>>

\* The map is read again under the exclusive lock, as someone may have been first.
found_Stale(id) == FALSE
found(id) == engines[id] # None

getEngineExclusive(c) ==
  LET id == pc[c].id
  IN /\ pc[c].at = "exclusive"
     /\ IF found(id)
          THEN /\ got' = got \cup {<<id, engines[id]>>}
               /\ UNCHANGED <<engines, made, attached>>
          ELSE /\ engines' = [engines EXCEPT ![id] = made]
               /\ attached' = attached \cup {made}
               /\ made' = made + 1
               /\ got' = got \cup {<<id, made>>}
     /\ pc' = [pc EXCEPT ![c] = idle]
     /\ UNCHANGED <<disposed, stopped, calls>>

\* notifyDelayed: look the engine up, then use it without the lock.
notifyFind(c) ==
  LET id == pc[c].id
  IN /\ pc[c].at = "notify"
     /\ pc' = [pc EXCEPT ![c] = IF engines[id] = None THEN idle
                                ELSE [at |-> "engine", id |-> engines[id]]]
     /\ UNCHANGED <<engines, made, attached, disposed, stopped, calls, got>>

\* The engine hands tasks over if its dispatcher_ is still set (SubscriptionEngine).
notifyEngine(c) ==
  /\ pc[c].at = "engine"
  /\ pc' = [pc EXCEPT ![c] = idle]
  /\ UNCHANGED <<engines, made, attached, disposed, stopped, calls, got>>

\* dispose: the first caller goes on, the others return at once.
testAndSet == disposed' = TRUE

disposeBegin(c) ==
  /\ pc[c].at = "dispose"
  /\ testAndSet
  /\ pc' = [pc EXCEPT ![c] = IF disposed THEN idle ELSE [@ EXCEPT !.at = "detach"]]
  /\ UNCHANGED <<engines, made, attached, stopped, calls, got>>

\* Every engine in the map is detached, under the shared lock.
detached == {engines[id] : id \in EngineIds}

disposeEngines(c) ==
  /\ pc[c].at = "detach"
  /\ attached' = attached \ detached
  /\ pc' = [pc EXCEPT ![c].at = "stop"]
  /\ UNCHANGED <<engines, made, disposed, stopped, calls, got>>

disposeDispatcher(c) ==
  /\ pc[c].at = "stop"
  /\ stopped' = stopped + 1
  /\ pc' = [pc EXCEPT ![c] = idle]
  /\ UNCHANGED <<engines, made, attached, disposed, calls, got>>

------------------------------------------------------------------------------
Init ==
  /\ engines = [id \in EngineIds |-> None]
  /\ made = 0
  /\ attached = {}
  /\ disposed = FALSE
  /\ stopped = 0
  /\ pc = [c \in Callers |-> idle]
  /\ calls = 0
  /\ got = {}

Next ==
  \E c \in Callers :
    \/ \E id \in EngineIds : enter(c, "shared", id) \/ enter(c, "notify", id)
    \/ enter(c, "dispose", None)
    \/ getEngineShared(c) \/ getEngineExclusive(c)
    \/ notifyFind(c) \/ notifyEngine(c)
    \/ disposeBegin(c) \/ disposeEngines(c) \/ disposeDispatcher(c)

Spec == Init /\ [][Next]_vars

------------------------------------------------------------------------------
\* The engines made so far are those in the map, each under one id; the
\* dispatcher is stopped at most once, by whichever dispose() came first.
TypeOK ==
  /\ engines \in [EngineIds -> 0..(made - 1) \cup {None}]
  /\ made \in 0..Cardinality(EngineIds)
  /\ attached \subseteq 0..(made - 1)
  /\ disposed \in BOOLEAN
  /\ stopped \in 0..1
  /\ calls \in 0..MaxCalls

\* Callers that race in getEngine for one argument list get the same engine, and
\* it is the one in the map: a subscriber and a publisher always meet.
OneEnginePerId == \A g \in got : engines[g[1]] = g[2]

\* Racing calls of getEngine() and dispose() are as good as one.
ManagerInv == TypeOK /\ OneEnginePerId
==============================================================================
