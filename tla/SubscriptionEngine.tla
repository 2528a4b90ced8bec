------------------------- MODULE SubscriptionEngine --------------------------
(***************************************************************************)
(* SubscriptionEngine and the SubscriberImpl objects attached to it.  The  *)
(* engine keeps, per event key, a list of entries with weak pointers to    *)
(* subscribers; a subscriber keeps iterators into those lists.  Publishers *)
(* notify, clients subscribe, unsubscribe and let subscribers go, threads  *)
(* of the dispatcher run the queued callbacks.                             *)
(*                                                                         *)
(* An iterator is the handle of the list node it points to.  The order of  *)
(* the entries of one key is not told apart: a list is a set of entries.   *)
(* A section under subscribers_map_cs_ is one step, and so is a method     *)
(* under subscriptions_cs_ that enters the engine once; unsubscribing a    *)
(* set, or everything, enters it once per key, one step each.  A           *)
(* subscriber whose last reference goes while notify walks a list counts   *)
(* as gone before or after the walk.                                       *)
(***************************************************************************)
EXTENDS Integers, FiniteSets

CONSTANTS Keys,         \* event keys
          Subscribers,  \* SubscriberImpl objects
          SetIds,       \* subscription set ids
          Publishers,   \* threads that notify
          MaxHandles,   \* bound: list nodes ever made
          MaxEvents,    \* bound: notifications
          None

ASSUME EngineAssumption ==
  MaxHandles \in Nat /\ MaxEvents \in Nat /\ None \notin Keys

VARIABLES
  list,      \* subscribers_map_: the entries of every key
  contexts,  \* the keys that have a SubscriptionContext
  subs,      \* per subscriber: subscriptions_sets_
  owned,     \* per subscriber: a client holds a reference
  erasing,   \* per subscriber: what unsubscribe still has to erase, under
             \* subscriptions_cs_
  dropping,  \* per subscriber: what unsubscribe forgets at its end
  notifier,  \* per publisher: the key and event it is about to notify, or None
  attached,  \* dispatcher_ is set
  accepts,   \* the dispatcher takes tasks
  queued,    \* callbacks handed over to the dispatcher
  running,   \* callbacks that locked their subscriber and run
  handles,   \* the number of nodes made so far
  events,    \* the number of notifications so far
  delivered  \* history: the events and handles on_notify was called for

vars == <<list, contexts, subs, owned, erasing, dropping, notifier, attached,
          accepts, queued, running, handles, events, delivered>>

Entry == [handle : Nat, sub : Subscribers, set : SetIds]
Subscription == [handle : Nat, key : Keys, set : SetIds]
Callback == [sub : Subscribers, set : SetIds, key : Keys, handle : Nat, event : Nat]

\* The node that engine->subscribe makes for a subscription.
entryOf(s, x) == [handle |-> x.handle, sub |-> s, set |-> x.set]

\* weak_ptr::lock succeeds: a client or a running callback holds a reference.
alive(s) == owned[s] \/ \E c \in running : c.sub = s
expired_NotOwned(s) == ~owned[s]
expired(s) == ~alive(s)

\* subscriptions_cs_ of s is free.
unlocked(s) == erasing[s] = {} /\ dropping[s] = {}

------------------------------------------------------------------------------
(* SubscriberImpl, called by whoever holds a reference *)

\* The local table refuses a pair it already has.
known_Never(s, id, key) == FALSE
known(s, id, key) == \E x \in subs[s] : x.set = id /\ x.key = key

subscribe(s, id, key) ==
  LET x == [handle |-> handles, key |-> key, set |-> id]
  IN /\ alive(s) /\ unlocked(s)
     /\ ~known(s, id, key)
     /\ handles < MaxHandles
     /\ handles' = handles + 1
     /\ contexts' = contexts \cup {key}
     /\ list' = [list EXCEPT ![key] = @ \cup {entryOf(s, x)}]
     /\ subs' = [subs EXCEPT ![s] = @ \cup {x}]
     /\ UNCHANGED <<owned, erasing, dropping, notifier, attached, accepts, queued,
                    running, events, delivered>>

\* unsubscribe(id, key), unsubscribe(id) or unsubscribe(): which subscriptions go.
unsubscribe(s) ==
  \E x \in subs[s] :
    \E which \in {{x}, {y \in subs[s] : y.set = x.set}, subs[s]} :
      /\ alive(s) /\ unlocked(s)
      /\ erasing' = [erasing EXCEPT ![s] = which]
      /\ dropping' = [dropping EXCEPT ![s] = which]
      /\ UNCHANGED <<list, contexts, subs, owned, notifier, attached, accepts,
                     queued, running, handles, events, delivered>>

\* SubscriptionEngine::unsubscribe: erase the node; an empty list goes.
remainingContexts(key, entries) ==
  IF entries = {} THEN contexts \ {key} ELSE contexts

engineUnsubscribe(s) ==
  \E x \in erasing[s] :
    LET left == list[x.key] \ {entryOf(s, x)}
    IN /\ IF x.key \in contexts
            THEN /\ list' = [list EXCEPT ![x.key] = left]
                 /\ contexts' = remainingContexts(x.key, left)
            ELSE UNCHANGED <<list, contexts>>
       /\ erasing' = [erasing EXCEPT ![s] = @ \ {x}]
       /\ UNCHANGED <<subs, owned, dropping, notifier, attached, accepts, queued,
                      running, handles, events, delivered>>

unsubscribeEnd(s) ==
  /\ erasing[s] = {} /\ dropping[s] # {}
  /\ subs' = [subs EXCEPT ![s] = @ \ dropping[s]]
  /\ dropping' = [dropping EXCEPT ![s] = {}]
  /\ UNCHANGED <<list, contexts, owned, erasing, notifier, attached, accepts, queued,
                 running, handles, events, delivered>>

\* The client lets its reference go; ~SubscriberImpl does not unsubscribe.
release(s) ==
  /\ owned[s] /\ unlocked(s)
  /\ owned' = [owned EXCEPT ![s] = FALSE]
  /\ UNCHANGED <<list, contexts, subs, erasing, dropping, notifier, attached,
                 accepts, queued, running, handles, events, delivered>>

------------------------------------------------------------------------------
(* Publishers and the dispatcher's threads *)

\* notifyDelayed copies dispatcher_ without a lock; a null one ends the call.
notifyBegin(p, key) ==
  /\ notifier[p] = None
  /\ attached
  /\ events < MaxEvents
  /\ notifier' = [notifier EXCEPT ![p] = [key |-> key, event |-> events]]
  /\ events' = events + 1
  /\ UNCHANGED <<list, contexts, subs, owned, erasing, dropping, attached, accepts,
                 queued, running, handles, delivered>>

\* The walk over the key's list: live subscribers get a callback queued, dead
\* ones are erased; the context stays even if the list is empty.
reached_UpToDead(key) ==
  IF \E e \in list[key] : expired(e.sub) THEN {} ELSE list[key]
reached(key) == {e \in list[key] : ~expired(e.sub)}

notifyWalk(p) ==
  LET key == notifier[p].key
  IN /\ notifier[p] # None
     /\ list' = [list EXCEPT ![key] = {e \in @ : ~expired(e.sub)}]
     /\ queued' = IF accepts
                  THEN queued \cup {[sub |-> e.sub, set |-> e.set, key |-> key,
                                     handle |-> e.handle,
                                     event |-> notifier[p].event] : e \in reached(key)}
                  ELSE queued
     /\ notifier' = [notifier EXCEPT ![p] = None]
     /\ UNCHANGED <<contexts, subs, owned, erasing, dropping, attached, accepts,
                    running, handles, events, delivered>>

\* A thread runs a queued lambda: the weak pointer is locked, or nothing happens.
begin(c) ==
  /\ accepts
  /\ queued' = queued \ {c}
  /\ IF alive(c.sub)
       THEN /\ running' = running \cup {c}
            /\ delivered' = delivered \cup {<<c.event, c.handle>>}
       ELSE UNCHANGED <<running, delivered>>
  /\ UNCHANGED <<list, contexts, subs, owned, erasing, dropping, notifier, attached,
                 accepts, handles, events>>

\* on_notify returns; it was perhaps the last reference.
finish(c) ==
  /\ \/ owned[c.sub] \/ unlocked(c.sub)
     \/ \E d \in running : d.sub = c.sub /\ d # c
  /\ running' = running \ {c}
  /\ UNCHANGED <<list, contexts, subs, owned, erasing, dropping, notifier, attached,
                 accepts, queued, handles, events, delivered>>

\* The manager's dispose(): the engine's dispatcher_ is reset ...
detach ==
  /\ attached
  /\ attached' = FALSE
  /\ UNCHANGED <<list, contexts, subs, owned, erasing, dropping, notifier, accepts,
                 queued, running, handles, events, delivered>>

\* ... then the dispatcher is disposed of: what is queued is dropped, what runs
\* has ended when it returns.
disposeDispatcher ==
  /\ ~attached /\ accepts /\ running = {}
  /\ accepts' = FALSE
  /\ queued' = {}
  /\ UNCHANGED <<list, contexts, subs, owned, erasing, dropping, notifier, attached,
                 running, handles, events, delivered>>

------------------------------------------------------------------------------
Init ==
  /\ list = [k \in Keys |-> {}]
  /\ contexts = {}
  /\ subs = [s \in Subscribers |-> {}]
  /\ owned = [s \in Subscribers |-> TRUE]
  /\ erasing = [s \in Subscribers |-> {}]
  /\ dropping = [s \in Subscribers |-> {}]
  /\ notifier = [p \in Publishers |-> None]
  /\ attached = TRUE
  /\ accepts = TRUE
  /\ queued = {}
  /\ running = {}
  /\ handles = 0
  /\ events = 0
  /\ delivered = {}

dispatch == (\E c \in queued : begin(c)) \/ (\E c \in running : finish(c))

Next ==
  \/ \E s \in Subscribers :
       \/ \E id \in SetIds, key \in Keys : subscribe(s, id, key)
       \/ unsubscribe(s) \/ engineUnsubscribe(s) \/ unsubscribeEnd(s)
       \/ release(s)
  \/ \E p \in Publishers :
       \/ \E key \in Keys : notifyBegin(p, key)
       \/ notifyWalk(p)
  \/ dispatch
  \/ detach
  \/ disposeDispatcher

Spec == Init /\ [][Next]_vars

\* Calls that were begun go on, and the dispatcher's threads take what is queued
\* (AsyncDispatcher: EveryTaskRuns).
Fairness ==
  /\ \A p \in Publishers : WF_vars(notifyWalk(p))
  /\ \A s \in Subscribers : WF_vars(engineUnsubscribe(s) \/ unsubscribeEnd(s))
  /\ WF_vars(dispatch)

FairSpec == Spec /\ Fairness

------------------------------------------------------------------------------
TypeOK ==
  /\ list \in [Keys -> SUBSET Entry]
  /\ contexts \subseteq Keys
  /\ subs \in [Subscribers -> SUBSET Subscription]
  /\ owned \in [Subscribers -> BOOLEAN]
  /\ erasing \in [Subscribers -> SUBSET Subscription]
  /\ dropping \in [Subscribers -> SUBSET Subscription]
  /\ notifier \in [Publishers -> [key : Keys, event : Nat] \cup {None}]
  /\ attached \in BOOLEAN
  /\ accepts \in BOOLEAN
  /\ queued \subseteq Callback
  /\ running \subseteq Callback
  /\ handles \in Nat
  /\ events \in Nat
  /\ delivered \subseteq Nat \X Nat

\* Every iterator that a subscriber still alive may hand to the engine points to
\* a node of the list of its key, made for this subscriber and set, and that key
\* has its context: list::erase never gets a dangling iterator, and unsubscribe
\* never misses a node, although notify erases nodes on its own.
IteratorsValid ==
  \A s \in Subscribers : alive(s) =>
    \A x \in (subs[s] \ dropping[s]) \cup erasing[s] :
      x.key \in contexts /\ entryOf(s, x) \in list[x.key]

\* A list holds no node twice over for one subscription: a subscriber gets one
\* callback per set and key, however often it subscribes.
OneEntryPerSubscription ==
  \A k \in Keys : \A e, f \in list[k] :
    e.sub = f.sub /\ e.set = f.set /\ alive(e.sub) => e = f

\* The subscription with handle h, of a subscriber some client holds, that no one
\* is cancelling.
stands(h, key) ==
  \E s \in Subscribers :
    owned[s] /\ \E x \in subs[s] \ dropping[s] : x.handle = h /\ x.key = key

\* A notification reaches every subscription that stands and goes on standing,
\* whoever else comes, goes or dies meanwhile, unless the engine is detached.
NotificationsArrive ==
  \A n \in 0..(MaxEvents - 1), h \in 0..(MaxHandles - 1), k \in Keys :
    (stands(h, k) /\ \E p \in Publishers : notifier[p] = [key |-> k, event |-> n])
      ~> <<n, h>> \in delivered \/ ~stands(h, k) \/ ~attached
==============================================================================
