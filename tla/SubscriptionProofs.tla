-------------------------- MODULE SubscriptionProofs --------------------------
(***************************************************************************)
(* The engine for any keys, subscribers, sets and publishers, the          *)
(* protected object for any threads, and the manager for any callers and   *)
(* engines.                                                                *)
(***************************************************************************)
EXTENDS MCEngine, FiniteSetTheorems, TLAPS

\* The subscriptions whose node must still be in the engine.
held(s) == (subs[s] \ dropping[s]) \cup erasing[s]

\* What unsubscribe works on is part of what it will forget, and of the table.
Locked == \A s \in Subscribers : erasing[s] \subseteq dropping[s] /\ dropping[s] \subseteq subs[s]

\* A node of a live subscriber is one of those the subscriber holds.
EntriesKnown ==
  \A k \in Keys : \A e \in list[k] :
    alive(e.sub) => \E x \in held(e.sub) : x.key = k /\ entryOf(e.sub, x) = e

\* The local table is a map from set and key.
TableIsMap ==
  \A s \in Subscribers : \A x, y \in subs[s] :
    x.set = y.set /\ x.key = y.key => x = y

IInv == TypeOK /\ Locked /\ IteratorsValid /\ EntriesKnown /\ TableIsMap

------------------------------------------------------------------------------
\* Two subscriptions with the same node and key are the same.
LEMMA EntryInjective ==
  ASSUME NEW s \in Subscribers, NEW t \in Subscribers,
         NEW x \in Subscription, NEW y \in Subscription,
         x.key = y.key, entryOf(s, x) = entryOf(t, y)
  PROVE  s = t /\ x = y
  BY DEF entryOf, Subscription

LEMMA EntryType ==
  ASSUME NEW s \in Subscribers, NEW x \in Subscription
  PROVE  entryOf(s, x) \in Entry /\ entryOf(s, x).sub = s /\ entryOf(s, x).set = x.set
  BY DEF entryOf, Subscription, Entry

LEMMA InitInv == Init => IInv
  BY DEF Init, IInv, TypeOK, Locked, IteratorsValid, EntriesKnown, TableIsMap, held

\* subscribe: a fresh node and a fresh subscription.
LEMMA SubscribeInv ==
  ASSUME IInv, NEW s \in Subscribers, NEW id \in SetIds, NEW key \in Keys,
         subscribe(s, id, key)
  PROVE  IInv'
<1> DEFINE x == [handle |-> handles, key |-> key, set |-> id]
<1>1. x \in Subscription /\ x.key = key /\ x.set = id
  BY DEF IInv, TypeOK, Subscription
<1>2. entryOf(s, x) \in Entry /\ entryOf(s, x).sub = s
  BY <1>1, EntryType
<1>3. /\ alive(s) /\ erasing[s] = {} /\ dropping[s] = {}
      /\ ~ known(s, id, key)
      /\ handles' = handles + 1
      /\ contexts' = contexts \cup {key}
      /\ list' = [list EXCEPT ![key] = @ \cup {entryOf(s, x)}]
      /\ subs' = [subs EXCEPT ![s] = @ \cup {x}]
      /\ UNCHANGED <<owned, erasing, dropping, notifier, attached, accepts, queued,
                     running, events, delivered>>
  BY DEF subscribe, unlocked
<1> HIDE DEF x
<1>4. TypeOK'
  BY <1>1, <1>2, <1>3 DEF IInv, TypeOK
<1>5. \A t \in Subscribers : alive(t)' <=> alive(t)
  BY <1>3 DEF alive
<1>6. /\ \A t \in Subscribers : subs'[t] = IF t = s THEN subs[s] \cup {x} ELSE subs[t]
      /\ \A k \in Keys : list'[k] = IF k = key THEN list[k] \cup {entryOf(s, x)} ELSE list[k]
  BY <1>3, Zenon DEF IInv, TypeOK
<1>7. \A t \in Subscribers : held(t)' = IF t = s THEN held(s) \cup {x} ELSE held(t)
  BY <1>3, <1>6 DEF held
<1>8. Locked'
  BY <1>3, <1>6 DEF IInv, Locked
<1>9. IteratorsValid'
  <2>1. ASSUME NEW t \in Subscribers, alive(t)', NEW y \in held(t)'
        PROVE  y.key \in contexts' /\ entryOf(t, y) \in list'[y.key]
    <3>1. CASE t = s /\ y = x
      BY <1>1, <1>3, <1>6, <3>1
    <3>2. CASE y \in held(t)
      <4>1. y.key \in contexts /\ entryOf(t, y) \in list[y.key]
        BY <1>5, <2>1, <3>2 DEF IInv, IteratorsValid, held
      <4>2. y.key \in Keys
        BY <4>1 DEF IInv, TypeOK
      <4> QED
        BY <1>3, <1>6, <4>1, <4>2
    <3> QED
      BY <1>7, <2>1, <3>1, <3>2
  <2> QED
    BY <2>1 DEF IteratorsValid, held, entryOf
<1>10. EntriesKnown'
  <2>1. ASSUME NEW k \in Keys, NEW e \in list'[k], alive(e.sub)'
        PROVE  \E y \in held(e.sub)' : y.key = k /\ entryOf(e.sub, y) = e
    <3>1. CASE k = key /\ e = entryOf(s, x)
      BY <1>1, <1>2, <1>7, <3>1
    <3>2. CASE e \in list[k]
      <4>1. e.sub \in Subscribers
        BY <3>2 DEF IInv, TypeOK, Entry
      <4> QED
        BY <1>5, <1>7, <2>1, <3>2, <4>1 DEF IInv, EntriesKnown
    <3> QED
      BY <1>6, <2>1, <3>1, <3>2, Zenon
  <2> QED
    BY <2>1 DEF EntriesKnown, held, entryOf
<1>11. TableIsMap'
  <2>1. \A y \in subs[s] : ~ (y.set = x.set /\ y.key = x.key)
    BY <1>1, <1>3 DEF known
  <2> QED
    BY <1>6, <2>1 DEF IInv, TableIsMap
<1> QED
  BY <1>4, <1>8, <1>9, <1>10, <1>11 DEF IInv

\* engine->unsubscribe: one node goes, and with the last one the context.
LEMMA EngineUnsubscribeInv ==
  ASSUME IInv, NEW s \in Subscribers, engineUnsubscribe(s)
  PROVE  IInv'
<1>1. PICK x \in erasing[s] :
        LET left == list[x.key] \ {entryOf(s, x)}
        IN /\ IF x.key \in contexts
                THEN /\ list' = [list EXCEPT ![x.key] = left]
                     /\ contexts' = remainingContexts(x.key, left)
                ELSE UNCHANGED <<list, contexts>>
           /\ erasing' = [erasing EXCEPT ![s] = @ \ {x}]
           /\ UNCHANGED <<subs, owned, dropping, notifier, attached, accepts, queued,
                          running, handles, events, delivered>>
  BY Zenon DEF engineUnsubscribe
<1> DEFINE left == list[x.key] \ {entryOf(s, x)}
<1>2. x \in Subscription /\ x.key \in Keys /\ x \in dropping[s]
  BY DEF IInv, TypeOK, Locked, Subscription
<1>3. /\ \A k \in Keys : list'[k] = IF k = x.key /\ x.key \in contexts THEN left ELSE list[k]
      /\ \A t \in Subscribers : erasing'[t] = IF t = s THEN erasing[s] \ {x} ELSE erasing[t]
      /\ contexts' \subseteq contexts
      /\ contexts \ {x.key} \subseteq contexts'
      /\ left # {} => contexts' = contexts
  BY <1>1, <1>2, Zenon DEF IInv, TypeOK, remainingContexts
<1>4. TypeOK'
  BY <1>1, <1>2, <1>3, SMTT(20) DEF IInv, TypeOK, remainingContexts
<1>5. \A t \in Subscribers : alive(t)' <=> alive(t)
  BY <1>1 DEF alive
<1>6. \A t \in Subscribers : held(t)' = IF t = s THEN held(s) \ {x} ELSE held(t)
  BY <1>1, <1>2, <1>3 DEF held
<1>7. \A t \in Subscribers : held(t) \subseteq Subscription
  BY DEF IInv, TypeOK, held
<1>8. Locked'
  BY <1>1, <1>3 DEF IInv, Locked
<1>9. IteratorsValid'
  <2>1. ASSUME NEW t \in Subscribers, alive(t)', NEW y \in held(t)'
        PROVE  y.key \in contexts' /\ entryOf(t, y) \in list'[y.key]
    <3>1. y \in held(t) /\ ~ (t = s /\ y = x) /\ y \in Subscription
      BY <1>6, <1>7, <2>1, Zenon
    <3>2. y.key \in contexts /\ entryOf(t, y) \in list[y.key] /\ y.key \in Keys
      BY <1>5, <2>1, <3>1 DEF IInv, TypeOK, IteratorsValid, held
    <3>3. CASE y.key = x.key
      <4>1. entryOf(t, y) # entryOf(s, x)
        BY <1>2, <3>1, <3>3, EntryInjective, SMTT(20)
      <4> QED
        BY <1>3, <3>2, <3>3, <4>1, Zenon
    <3>4. CASE y.key # x.key
      BY <1>3, <3>2, <3>4
    <3> QED
      BY <3>3, <3>4
  <2> QED
    BY <2>1 DEF IteratorsValid, held, entryOf
<1>10. EntriesKnown'
  <2>1. ASSUME NEW k \in Keys, NEW e \in list'[k], alive(e.sub)'
        PROVE  \E y \in held(e.sub)' : y.key = k /\ entryOf(e.sub, y) = e
    <3>1. e \in list[k] /\ e.sub \in Subscribers
      BY <1>3, <2>1 DEF IInv, TypeOK, Entry
    <3>2. PICK y \in held(e.sub) : y.key = k /\ entryOf(e.sub, y) = e
      BY <1>5, <2>1, <3>1 DEF IInv, EntriesKnown
    <3>3. CASE e.sub = s /\ y = x
      <4>1. s \in Subscribers /\ alive(s) /\ x \in held(s)
        BY <1>5, <2>1, <3>1, <3>3, Zenon DEF held
      <4>2. x.key \in contexts
        BY <4>1 DEF IInv, IteratorsValid, held
      <4> QED
        BY <1>3, <2>1, <3>2, <3>3, <4>2
    <3>4. CASE ~ (e.sub = s /\ y = x)
      BY <1>6, <3>1, <3>2, <3>4, Zenon
    <3> QED
      BY <3>3, <3>4, Zenon
  <2> QED
    BY <2>1 DEF EntriesKnown, held, entryOf
<1>11. TableIsMap'
  BY <1>1 DEF IInv, TableIsMap
<1> QED
  BY <1>4, <1>8, <1>9, <1>10, <1>11 DEF IInv

\* notify: only nodes of the dead go.
LEMMA NotifyWalkInv ==
  ASSUME IInv, NEW p \in Publishers, notifyWalk(p)
  PROVE  IInv'
<1> DEFINE key == notifier[p].key
           new == {[sub |-> e.sub, set |-> e.set, key |-> key, handle |-> e.handle,
                    event |-> notifier[p].event] : e \in reached(key)}
<1>1. /\ notifier[p] # None
      /\ list' = [list EXCEPT ![key] = {e \in @ : ~expired(e.sub)}]
      /\ queued' = IF accepts THEN queued \cup new ELSE queued
      /\ notifier' = [notifier EXCEPT ![p] = None]
      /\ UNCHANGED <<contexts, subs, owned, erasing, dropping, attached, accepts,
                     running, handles, events, delivered>>
  BY DEF notifyWalk
<1>2. key \in Keys /\ notifier[p].event \in Nat
  BY <1>1 DEF IInv, TypeOK
<1> HIDE DEF key
<1>3. \A e \in list[key] : e.sub \in Subscribers /\ e.set \in SetIds /\ e.handle \in Nat
  BY <1>2 DEF IInv, TypeOK, Entry
<1>4. new \subseteq Callback
  BY <1>2, <1>3 DEF Callback, reached
<1> HIDE DEF new
<1>5. TypeOK'
  BY <1>1, <1>2, <1>4 DEF IInv, TypeOK
<1>6. \A k \in Keys : list'[k] = IF k = key THEN {e \in list[k] : alive(e.sub)} ELSE list[k]
  BY <1>1, <1>2, Zenon DEF IInv, TypeOK, expired
<1>7. \A t : (alive(t)' <=> alive(t)) /\ held(t)' = held(t)
  BY <1>1 DEF alive, held
<1>8. Locked' /\ TableIsMap'
  BY <1>1 DEF IInv, Locked, TableIsMap
<1>9. IteratorsValid'
  <2>1. ASSUME NEW t \in Subscribers, alive(t), NEW y \in held(t)
        PROVE  y.key \in contexts' /\ entryOf(t, y) \in list'[y.key]
    <3>1. y \in Subscription
      BY DEF IInv, TypeOK, held
    <3>2. y.key \in contexts /\ entryOf(t, y) \in list[y.key] /\ y.key \in Keys
      BY <2>1 DEF IInv, TypeOK, IteratorsValid, held
    <3>3. entryOf(t, y).sub = t
      BY <3>1, EntryType
    <3>4. alive(entryOf(t, y).sub)
      BY <2>1, <3>3
    <3>5. CASE y.key = key
      <4>1. entryOf(t, y) \in {e \in list[y.key] : alive(e.sub)}
        BY <3>2, <3>4, Zenon
      <4>2. list'[y.key] = {e \in list[y.key] : alive(e.sub)}
        BY <1>6, <3>2, <3>5, Zenon
      <4> QED
        BY <1>1, <3>2, <4>1, <4>2, Zenon
    <3>6. CASE y.key # key
      BY <1>1, <1>6, <3>2, <3>6
    <3> QED
      BY <3>5, <3>6
  <2> QED
    BY <1>7, <2>1 DEF IteratorsValid, held, entryOf
<1>10. EntriesKnown'
  <2>1. ASSUME NEW k \in Keys, NEW e \in list'[k], alive(e.sub)
        PROVE  \E y \in held(e.sub) : y.key = k /\ entryOf(e.sub, y) = e
    BY <1>6, <2>1, Zenon DEF IInv, EntriesKnown
  <2> QED
    BY <1>7, <2>1 DEF EntriesKnown, entryOf
<1> QED
  BY <1>5, <1>8, <1>9, <1>10, Zenon DEF IInv

\* A step that leaves the lists and what is held of them alone, and brings no one
\* back to life, keeps what relates the two.
LEMMA NodesKept ==
  ASSUME IInv, UNCHANGED <<list, contexts>>,
         \A t \in Subscribers : held(t)' = held(t) /\ (alive(t)' => alive(t))
  PROVE  IteratorsValid' /\ EntriesKnown'
<1>1. IteratorsValid'
  <2>1. ASSUME NEW t \in Subscribers, alive(t), NEW y \in held(t)
        PROVE  y.key \in contexts /\ entryOf(t, y) \in list[y.key]
    BY <2>1 DEF IInv, IteratorsValid, held
  <2> QED
    BY <2>1 DEF IteratorsValid, held, entryOf
<1>2. EntriesKnown'
  <2>1. ASSUME NEW k \in Keys, NEW e \in list[k], alive(e.sub)'
        PROVE  \E y \in held(e.sub)' : y.key = k /\ entryOf(e.sub, y) = e
    <3>1. e.sub \in Subscribers
      BY DEF IInv, TypeOK, Entry
    <3>2. alive(e.sub) /\ held(e.sub)' = held(e.sub)
      BY <2>1, <3>1
    <3>3. \E y \in held(e.sub) : y.key = k /\ entryOf(e.sub, y) = e
      BY <3>2 DEF IInv, EntriesKnown
    <3> QED
      BY <3>2, <3>3
  <2> QED
    BY <2>1 DEF EntriesKnown, entryOf
<1> QED
  BY <1>1, <1>2, Zenon

\* The begin and the end of unsubscribe move subscriptions between the tables,
\* and no node is held more or less.
LEMMA UnsubscribeInv ==
  ASSUME IInv, NEW s \in Subscribers, unsubscribe(s) \/ unsubscribeEnd(s)
  PROVE  IInv'
<1>1. CASE unsubscribe(s)
  <2>1. PICK which \in SUBSET subs[s] :
          /\ erasing[s] = {} /\ dropping[s] = {}
          /\ erasing' = [erasing EXCEPT ![s] = which]
          /\ dropping' = [dropping EXCEPT ![s] = which]
          /\ UNCHANGED <<list, contexts, subs, owned, notifier, attached, accepts,
                         queued, running, handles, events, delivered>>
    BY <1>1, Zenon DEF unsubscribe, unlocked
  <2>2. TypeOK' /\ Locked'
    BY <2>1 DEF IInv, TypeOK, Locked
  <2>3. \A t \in Subscribers : held(t)' = held(t) /\ (alive(t)' <=> alive(t))
    BY <2>1, Zenon DEF IInv, TypeOK, held, alive
  <2>4. IteratorsValid' /\ EntriesKnown'
    BY <2>1, <2>3, NodesKept, SMTT(20)
  <2>5. TableIsMap'
    BY <2>1 DEF IInv, TableIsMap
  <2> QED
    BY <2>2, <2>4, <2>5 DEF IInv
<1>2. CASE unsubscribeEnd(s)
  <2>1. /\ erasing[s] = {}
        /\ subs' = [subs EXCEPT ![s] = @ \ dropping[s]]
        /\ dropping' = [dropping EXCEPT ![s] = {}]
        /\ UNCHANGED <<list, contexts, owned, erasing, notifier, attached, accepts,
                       queued, running, handles, events, delivered>>
    BY <1>2 DEF unsubscribeEnd
  <2>2. TypeOK' /\ Locked'
    BY <2>1 DEF IInv, TypeOK, Locked
  <2>3. \A t \in Subscribers : held(t)' = held(t) /\ (alive(t)' <=> alive(t))
    BY <2>1, Zenon DEF IInv, TypeOK, held, alive
  <2>4. TableIsMap'
    BY <2>1 DEF IInv, TypeOK, TableIsMap
  <2>5. IteratorsValid' /\ EntriesKnown'
    BY <2>1, <2>3, NodesKept, Zenon
  <2> QED
    BY <2>2, <2>4, <2>5, ZenonT(30) DEF IInv
<1> QED
  BY <1>1, <1>2, Zenon

\* Every step keeps the invariant.
LEMMA NextInv == IInv /\ [Next]_vars => IInv'
<1> SUFFICES ASSUME IInv, [Next]_vars PROVE IInv'
  BY Zenon
<1>0. ASSUME TypeOK', UNCHANGED <<list, contexts, subs, erasing, dropping>>,
             \A t : alive(t)' => alive(t)
      PROVE  IInv'
  <2>1. \A t \in Subscribers : held(t)' = held(t) /\ (alive(t)' => alive(t))
    BY <1>0 DEF held
  <2>2. IteratorsValid' /\ EntriesKnown'
    BY <1>0, <2>1, NodesKept
  <2> QED
    BY <1>0, <2>2 DEF IInv, Locked, TableIsMap
<1>1. ASSUME NEW s \in Subscribers, release(s)
      PROVE  IInv'
  <2>1. TypeOK' /\ \A t : alive(t)' => alive(t)
    BY <1>1 DEF release, IInv, TypeOK, alive
  <2> QED
    BY <1>0, <1>1, <2>1, Zenon DEF release
<1>2. ASSUME NEW p \in Publishers, NEW key \in Keys, notifyBegin(p, key)
      PROVE  IInv'
  <2>1. [key |-> key, event |-> events] \in [key : Keys, event : Nat]
    BY Zenon DEF IInv, TypeOK
  <2>2. TypeOK' /\ \A t : alive(t)' => alive(t)
    BY <1>2, <2>1 DEF notifyBegin, IInv, TypeOK, alive
  <2> QED
    BY <1>0, <1>2, <2>2 DEF notifyBegin
<1>3. ASSUME NEW c \in queued, begin(c)
      PROVE  IInv'
  <2>1. c \in Callback
    BY DEF IInv, TypeOK
  <2>2. c.event \in Nat /\ c.handle \in Nat
    BY <2>1, Zenon DEF Callback
  <2>3. TypeOK'
    BY <1>3, <2>1, <2>2 DEF begin, IInv, TypeOK
  <2>4. ASSUME NEW t, alive(t)' PROVE alive(t)
    <3>1. CASE alive(c.sub)
      <4>1. running' = running \cup {c} /\ owned' = owned
        BY <1>3, <3>1 DEF begin
      <4>2. owned[t] \/ (\E d \in running : d.sub = t) \/ c.sub = t
        BY <2>4, <4>1, Zenon DEF alive
      <4> QED
        BY <3>1, <4>2, Zenon DEF alive
    <3>2. CASE ~ alive(c.sub)
      BY <1>3, <2>4, <3>2, Zenon DEF begin, alive
    <3> QED
      BY <3>1, <3>2
  <2> QED
    BY <1>0, <1>3, <2>3, <2>4, Zenon DEF begin
<1>4. ASSUME NEW c \in running, finish(c)
      PROVE  IInv'
  <2>1. TypeOK' /\ \A t : alive(t)' => alive(t)
    BY <1>4 DEF finish, IInv, TypeOK, alive
  <2> QED
    BY <1>0, <1>4, <2>1, Zenon DEF finish
<1>5. CASE detach
  <2>1. TypeOK' /\ \A t : alive(t)' => alive(t)
    BY <1>5, Zenon DEF detach, IInv, TypeOK, alive
  <2> QED
    BY <1>0, <1>5, <2>1 DEF detach
<1>6. CASE disposeDispatcher
  <2>1. TypeOK' /\ \A t : alive(t)' => alive(t)
    BY <1>6, Zenon DEF disposeDispatcher, IInv, TypeOK, alive
  <2> QED
    BY <1>0, <1>6, <2>1 DEF disposeDispatcher
<1>7. CASE UNCHANGED vars
  <2>1. TypeOK' /\ \A t : alive(t)' => alive(t)
    BY <1>7 DEF vars, IInv, TypeOK, alive
  <2> QED
    BY <1>0, <1>7, <2>1 DEF vars
<1> QED
  BY <1>1, <1>2, <1>3, <1>4, <1>5, <1>6, <1>7, SubscribeInv, UnsubscribeInv,
     EngineUnsubscribeInv, NotifyWalkInv, Zenon DEF Next, dispatch

------------------------------------------------------------------------------
LEMMA Invariance == Spec => []IInv
  BY InitInv, NextInv, PTL DEF Spec

\* Type correctness of the engine and its subscribers.
THEOREM TypeCorrect == Spec => []TypeOK
<1>1. IInv => TypeOK
  BY DEF IInv
<1> QED
  BY <1>1, Invariance, PTL

\* list::erase and the lookup before it always find the node they are given.
THEOREM IteratorsAlwaysValid == Spec => []IteratorsValid
<1>1. IInv => IteratorsValid
  BY DEF IInv
<1> QED
  BY <1>1, Invariance, PTL

\* A live subscriber has one node per set and key: one callback per event.
THEOREM NoDoubleSubscription == Spec => []OneEntryPerSubscription
<1>1. ASSUME IInv PROVE OneEntryPerSubscription
  <2> SUFFICES ASSUME NEW k \in Keys, NEW e \in list[k], NEW f \in list[k],
                      e.sub = f.sub, e.set = f.set, alive(e.sub)
               PROVE  e = f
    BY Zenon DEF OneEntryPerSubscription
  <2>1. PICK x \in held(e.sub) : x.key = k /\ entryOf(e.sub, x) = e
    BY <1>1, Zenon DEF IInv, EntriesKnown
  <2>2. PICK y \in held(e.sub) : y.key = k /\ entryOf(e.sub, y) = f
    BY <1>1 DEF IInv, EntriesKnown
  <2>3. e.sub \in Subscribers
    BY <1>1 DEF IInv, TypeOK, Entry
  <2>4. x \in subs[e.sub] /\ y \in subs[e.sub] /\ x \in Subscription /\ y \in Subscription
    BY <1>1, <2>1, <2>2, <2>3, Zenon DEF IInv, TypeOK, Locked, held
  <2>5. x.set = e.set /\ y.set = f.set
    BY <2>1, <2>2, <2>3, <2>4, EntryType
  <2>6. x = y
    BY <1>1, <2>1, <2>2, <2>3, <2>4, <2>5, Zenon DEF IInv, TableIsMap
  <2> QED
    BY <2>1, <2>2, <2>6, Zenon
<1> QED
  BY <1>1, Invariance, PTL

------------------------------------------------------------------------------
\* The protected object: who is inside its function holds the mutex, alone or shared.
MutexHeld ==
  /\ \A t \in Threads : inside[t] # "no" =>
       IF access[t] \in O!Exclusive THEN writer = t /\ readers = {}
       ELSE access[t] = "sharedAccess" /\ t \in readers
  /\ writer # None => readers = {}

ObjectIInv == O!TypeOK /\ O!Isolated /\ MutexHeld

LEMMA ObjectInit == O!Init => ObjectIInv
BY PartsAssumption DEF O!Init, ObjectIInv, O!TypeOK, O!Isolated, MutexHeld

\* Every step of a thread keeps what the mutex is for.
LEMMA ObjectStep == ObjectIInv /\ [O!Next]_(O!vars) => ObjectIInv'
<1> SUFFICES ASSUME ObjectIInv, [O!Next]_(O!vars) PROVE ObjectIInv'
  OBVIOUS
<1> USE PartsAssumption DEF ObjectIInv, O!TypeOK, O!Isolated, MutexHeld, O!Exclusive, O!Calls
<1>1. ASSUME NEW t \in Threads, NEW c \in O!Calls, O!begin(t, c) PROVE ObjectIInv'
  BY <1>1, Zenon DEF O!begin
<1>2. ASSUME NEW t \in Threads, O!acquire(t) PROVE ObjectIInv'
  BY <1>2, Zenon DEF O!acquire, O!mayOwn, O!enters
<1>3. ASSUME NEW t \in Threads, O!share(t) PROVE ObjectIInv'
  BY <1>3, Zenon DEF O!share, O!mayShare, O!enters
<1>4. ASSUME NEW t \in Threads, O!giveUp(t) PROVE ObjectIInv'
  BY <1>4, Zenon DEF O!giveUp
<1>5. ASSUME NEW t \in Threads, O!read(t) PROVE ObjectIInv'
  BY <1>5, Zenon DEF O!read
<1>6. ASSUME NEW t \in Threads, O!leave(t) PROVE ObjectIInv'
  BY <1>6, SMTT(30) DEF O!leave
<1>7. CASE UNCHANGED O!vars
  BY <1>7 DEF O!vars
<1> QED
  BY <1>1, <1>2, <1>3, <1>4, <1>5, <1>6, <1>7, Zenon DEF O!Next, O!access

\* For any number of threads: what a function sees of the object nobody else changes until
\* it returns, and no change is lost.
THEOREM ObjectProtected == O!Spec => []ObjectInv
<1>1. ObjectIInv => ObjectInv
  BY Zenon DEF ObjectIInv, ObjectInv
<1> QED
  BY <1>1, ObjectInit, ObjectStep, PTL DEF O!Spec

------------------------------------------------------------------------------
\* The cardinality that the manager's model means.
LEMMA CardinalityOfM == \A S : M!Cardinality(S) = Cardinality(S)
BY DEF M!Cardinality, Cardinality, M!IsFiniteSet, IsFiniteSet

\* The manager: as many engines were made as ids have one, callers are in a method with
\* an id where it needs one, and at most one of them is past the test of disposed_.
Places == {"idle", "shared", "exclusive", "notify", "engine", "dispose", "detach", "stop"}
withEngine == {id \in EngineIds : engines[id] # None}
disposing(c) == pc[c].at \in {"detach", "stop"}

ManagerTypes ==
  /\ engines \in [EngineIds -> 0..(made - 1) \cup {None}]
  /\ made = Cardinality(withEngine)
  /\ withDispatcher \subseteq 0..(made - 1)
  /\ disposed \in BOOLEAN /\ stopped \in 0..1 /\ managerCalls \in 0..MaxCalls
  /\ DOMAIN pc = Callers
  /\ \A c \in Callers :
       /\ pc[c] = [at |-> pc[c].at, id |-> pc[c].id] /\ pc[c].at \in Places
       /\ pc[c].at \in {"shared", "exclusive", "notify"} => pc[c].id \in EngineIds

GotKnown == \A g \in got : g[1] \in EngineIds /\ g[2] # None /\ engines[g[1]] = g[2]

StoppedOnce ==
  /\ \A c, d \in Callers : disposing(c) /\ disposing(d) => c = d
  /\ \A c \in Callers : disposing(c) => disposed /\ stopped = 0
  /\ stopped = 1 => disposed

ManagerIInv == ManagerTypes /\ GotKnown /\ StoppedOnce

LEMMA ManagerInit == M!Init => ManagerIInv
<1> SUFFICES ASSUME M!Init PROVE ManagerIInv
  OBVIOUS
<1>1. withEngine = {}
  BY DEF M!Init, withEngine
<1>2. Cardinality(withEngine) = 0
  BY <1>1, FS_EmptySet, Zenon
<1>3. ManagerTypes
  <2>1. \A c \in Callers : pc[c] = [at |-> "idle", id |-> None]
    BY DEF M!Init, M!idle
  <2>2. engines \in [EngineIds -> {None}] /\ 0 \in 0..MaxCalls
    BY PartsAssumption DEF M!Init
  <2> QED
    <3>1. engines \in [EngineIds -> 0..(made - 1) \cup {None}]
      BY <2>2, Zenon
    <3>2. \A c \in Callers : /\ pc[c] = [at |-> pc[c].at, id |-> pc[c].id]
                              /\ pc[c].at \in Places /\ pc[c].at = "idle"
      BY <2>1 DEF Places
    <3>3. withDispatcher \subseteq 0..(made - 1) /\ stopped \in 0..1 /\ managerCalls \in 0..MaxCalls
      BY <2>2 DEF M!Init
    <3>4. disposed \in BOOLEAN /\ DOMAIN pc = Callers /\ made = Cardinality(withEngine)
      BY <1>2, Zenon DEF M!Init
    <3> QED
      BY <3>1, <3>2, <3>3, <3>4 DEF ManagerTypes
<1>4. GotKnown /\ StoppedOnce
  BY SMTT(30) DEF M!Init, M!idle, GotKnown, StoppedOnce, disposing
<1> QED
  BY <1>3, <1>4 DEF ManagerIInv

\* The steps that make no engine.
LEMMA ManagerKept ==
  ASSUME ManagerIInv, UNCHANGED <<engines, made>>, withDispatcher' \subseteq withDispatcher,
         NEW c \in Callers, NEW at \in Places, NEW id,
         at \in {"shared", "exclusive", "notify"} => id \in EngineIds,
         pc' = [pc EXCEPT ![c] = [at |-> at, id |-> id]],
         managerCalls' \in 0..MaxCalls, GotKnown', disposed' \in BOOLEAN, stopped' \in 0..1,
         StoppedOnce'
  PROVE  ManagerIInv'
BY Zenon DEF ManagerIInv, ManagerTypes, withEngine

\* Every step of a caller keeps the invariant.
LEMMA ManagerStep == ManagerIInv /\ [M!Next]_(M!vars) => ManagerIInv'
<1> SUFFICES ASSUME ManagerIInv, [M!Next]_(M!vars) PROVE ManagerIInv'
  OBVIOUS
<1> USE PartsAssumption
<1>1. ASSUME NEW c \in Callers, NEW at \in {"shared", "notify", "dispose"}, NEW id,
             at # "dispose" => id \in EngineIds, M!enter(c, at, id)
      PROVE  ManagerIInv'
  <2>1. GotKnown'
    BY <1>1, Zenon DEF M!enter, ManagerIInv, GotKnown
  <2>2. StoppedOnce'
    BY <1>1, Zenon DEF M!enter, M!idle, ManagerIInv, ManagerTypes, StoppedOnce, disposing
  <2>3. managerCalls' \in 0..MaxCalls
    BY <1>1 DEF M!enter, ManagerIInv, ManagerTypes
  <2> QED
    BY <1>1, <2>1, <2>2, <2>3, ManagerKept, Zenon DEF M!enter, ManagerIInv, ManagerTypes, Places
<1>2. ASSUME NEW c \in Callers, M!getEngineShared(c) PROVE ManagerIInv'
  <2>1. pc[c].id \in EngineIds
          /\ UNCHANGED <<engines, made, withDispatcher, disposed, stopped, managerCalls>>
    BY <1>2 DEF M!getEngineShared, ManagerIInv, ManagerTypes
  <2>2. CASE engines[pc[c].id] # None
    <3>1. got' = got \cup {<<pc[c].id, engines[pc[c].id]>>}
            /\ pc' = [pc EXCEPT ![c] = [at |-> "idle", id |-> None]]
      BY <1>2, <2>2 DEF M!getEngineShared, M!idle
    <3>2. GotKnown'
      <4>1. \A g \in got : g[1] \in EngineIds /\ g[2] # None /\ engines[g[1]] = g[2]
        BY Zenon DEF ManagerIInv, GotKnown
      <4>2. \A g \in got' : g[1] \in EngineIds /\ g[2] # None /\ engines[g[1]] = g[2]
        BY <2>1, <2>2, <3>1, <4>1, SMTT(30)
      <4> QED
        BY <2>1, <4>2, Zenon DEF GotKnown
    <3>3. StoppedOnce'
      BY <2>1, <3>1 DEF ManagerIInv, ManagerTypes, StoppedOnce, disposing
    <3> QED
      BY <2>1, <3>1, <3>2, <3>3, ManagerKept, Zenon DEF ManagerIInv, ManagerTypes, Places
  <2>3. CASE engines[pc[c].id] = None
    <3>1. got' = got /\ pc' = [pc EXCEPT ![c] = [at |-> "exclusive", id |-> pc[c].id]]
      BY <1>2, <2>3, Zenon DEF M!getEngineShared, ManagerIInv, ManagerTypes
    <3>2. GotKnown'
      BY <2>1, <3>1, Zenon DEF ManagerIInv, GotKnown
    <3>3. StoppedOnce'
      BY <2>1, <3>1, Zenon DEF ManagerIInv, ManagerTypes, StoppedOnce, disposing
    <3> QED
      BY <2>1, <3>1, <3>2, <3>3, ManagerKept, Zenon DEF ManagerIInv, ManagerTypes, Places
  <2> QED
    BY <2>2, <2>3
<1>3. ASSUME NEW c \in Callers, M!getEngineExclusive(c) PROVE ManagerIInv'
  <2> DEFINE id == pc[c].id
  <2>1. /\ id \in EngineIds /\ UNCHANGED <<disposed, stopped, managerCalls>>
        /\ pc' = [pc EXCEPT ![c] = [at |-> "idle", id |-> None]]
    BY <1>3, Zenon DEF M!getEngineExclusive, M!idle, ManagerIInv, ManagerTypes
  <2>2. StoppedOnce'
    BY <2>1 DEF ManagerIInv, ManagerTypes, StoppedOnce, disposing
  <2>3. CASE engines[id] # None
    <3>1. got' = got \cup {<<id, engines[id]>>} /\ UNCHANGED <<engines, made, withDispatcher>>
      BY <1>3, <2>3, Zenon DEF M!getEngineExclusive, M!found
    <3>2. GotKnown'
      BY <2>1, <2>3, <3>1 DEF ManagerIInv, GotKnown
    <3> QED
      BY <2>1, <2>2, <3>1, <3>2, ManagerKept, Zenon DEF ManagerIInv, ManagerTypes, Places
  <2>4. CASE engines[id] = None
    <3>1. /\ engines' = [engines EXCEPT ![id] = made] /\ made' = made + 1
          /\ withDispatcher' = withDispatcher \cup {made} /\ got' = got \cup {<<id, made>>}
      BY <1>3, <2>4, Zenon DEF M!getEngineExclusive, M!found
    <3>2. IsFiniteSet(withEngine) /\ made \in Nat
      BY FS_Subset, FS_CardinalityType, Zenon DEF withEngine, ManagerIInv, ManagerTypes
    <3>3. withEngine' = withEngine \cup {id} /\ id \notin withEngine
      BY <2>1, <2>4, <3>1, <3>2, Zenon DEF withEngine, ManagerIInv, ManagerTypes
    <3>4. made' = Cardinality(withEngine')
      BY <3>1, <3>2, <3>3, FS_AddElement, Zenon DEF ManagerIInv, ManagerTypes
    <3>5. GotKnown'
      BY <2>1, <2>4, <3>1, <3>2 DEF ManagerIInv, ManagerTypes, GotKnown
    <3>6. engines' \in [EngineIds -> 0..(made' - 1) \cup {None}]
            /\ withDispatcher' \subseteq 0..(made' - 1)
      <4>1. \A i \in EngineIds : engines'[i] = IF i = id THEN made ELSE engines[i]
        BY <2>1, <3>1, Zenon DEF ManagerIInv, ManagerTypes
      <4>2. \A i \in EngineIds : engines[i] \in 0..(made - 1) \cup {None}
        BY Zenon DEF ManagerIInv, ManagerTypes
      <4>3. \A i \in EngineIds : engines'[i] \in 0..(made' - 1) \cup {None}
        BY <3>1, <3>2, <4>1, <4>2
      <4>4. DOMAIN engines' = EngineIds /\ engines' = [i \in EngineIds |-> engines'[i]]
        BY <3>1, Zenon DEF ManagerIInv, ManagerTypes
      <4>5. withDispatcher' \subseteq 0..(made' - 1)
        <5>1. withDispatcher \subseteq 0..(made - 1)
          BY Zenon DEF ManagerIInv, ManagerTypes
        <5> QED
          BY <3>1, <3>2, <5>1
      <4> QED
        BY <4>3, <4>4, <4>5, Zenon
    <3>7. ManagerTypes'
      BY <2>1, <3>4, <3>6, Zenon DEF ManagerIInv, ManagerTypes, Places
    <3> QED
      BY <2>2, <3>5, <3>7, Zenon DEF ManagerIInv
  <2> QED
    BY <2>3, <2>4, Zenon
<1>4. ASSUME NEW c \in Callers, M!notifyFind(c) \/ M!notifyEngine(c) PROVE ManagerIInv'
  <2>1. /\ UNCHANGED <<engines, made, withDispatcher, disposed, stopped, managerCalls, got>>
        /\ \/ pc' = [pc EXCEPT ![c] = [at |-> "idle", id |-> None]]
           \/ pc' = [pc EXCEPT ![c] = [at |-> "engine", id |-> engines[pc[c].id]]]
    BY <1>4, Zenon DEF M!notifyFind, M!notifyEngine, M!idle
  <2>2. GotKnown'
    BY <2>1, Zenon DEF ManagerIInv, GotKnown
  <2>3. StoppedOnce'
    <3>1. \A d \in Callers : disposing(d)' => disposing(d)
      BY <2>1 DEF ManagerIInv, ManagerTypes, disposing
    <3> QED
      BY <2>1, <3>1, Zenon DEF ManagerIInv, StoppedOnce
  <2>4. /\ withDispatcher' \subseteq withDispatcher /\ managerCalls' \in 0..MaxCalls
        /\ disposed' \in BOOLEAN /\ stopped' \in 0..1
    BY <2>1, Zenon DEF ManagerIInv, ManagerTypes
  <2>5. "idle" \in Places /\ "engine" \in Places
    BY DEF Places
  <2> QED
    BY <2>1, <2>2, <2>3, <2>4, <2>5, ManagerKept, Zenon
<1>5. ASSUME NEW c \in Callers, M!disposeBegin(c) PROVE ManagerIInv'
  <2>1. /\ UNCHANGED <<engines, made, withDispatcher, stopped, managerCalls, got>>
             /\ disposed' = TRUE
        /\ pc' = [pc EXCEPT ![c] = IF disposed THEN [at |-> "idle", id |-> None]
                                    ELSE [at |-> "detach", id |-> pc[c].id]]
    <3>1. pc[c] = [at |-> pc[c].at, id |-> pc[c].id]
      BY DEF ManagerIInv, ManagerTypes
    <3>2. [pc[c] EXCEPT !.at = "detach"] = [at |-> "detach", id |-> pc[c].id]
      BY <3>1
    <3> QED
      BY <1>5, <3>2, Zenon DEF M!disposeBegin, M!testAndSet, M!idle
  <2>2. GotKnown'
    BY <2>1 DEF ManagerIInv, GotKnown
  <2>3. StoppedOnce'
    <3>1. CASE disposed
      <4>1. \A d \in Callers : disposing(d)' => disposing(d)
        BY <2>1, <3>1 DEF ManagerIInv, ManagerTypes, disposing
      <4> QED
        BY <2>1, <4>1, Zenon DEF ManagerIInv, StoppedOnce
    <3>2. CASE ~disposed
      <4>1. \A d \in Callers : d # c => (disposing(d)' => disposing(d))
        BY <2>1, <3>2, SMTT(30) DEF ManagerIInv, ManagerTypes, disposing
      <4>2. stopped = 0
        BY <3>2 DEF ManagerIInv, ManagerTypes, StoppedOnce
      <4>3. \A d \in Callers : ~disposing(d)
        BY <3>2, ZenonT(30) DEF ManagerIInv, StoppedOnce
      <4> QED
        BY <2>1, <4>1, <4>2, <4>3, Zenon DEF StoppedOnce
    <3> QED
      BY <3>1, <3>2
  <2> QED
    BY <2>1, <2>2, <2>3, ManagerKept, Zenon DEF ManagerIInv, ManagerTypes, Places
<1>6. ASSUME NEW c \in Callers, M!disposeEngines(c) \/ M!disposeDispatcher(c) PROVE ManagerIInv'
  <2>1. /\ UNCHANGED <<engines, made, disposed, managerCalls, got>>
        /\ withDispatcher' \subseteq withDispatcher /\ disposing(c)
        /\ \/ pc' = [pc EXCEPT ![c] = [at |-> "stop", id |-> pc[c].id]] /\ stopped' = stopped
           \/ pc' = [pc EXCEPT ![c] = [at |-> "idle", id |-> None]] /\ stopped' = stopped + 1
    BY <1>6, Zenon DEF M!disposeEngines, M!disposeDispatcher, M!idle, disposing, ManagerIInv,
       ManagerTypes
  <2>2. GotKnown'
    BY <2>1 DEF ManagerIInv, GotKnown
  <2>3. StoppedOnce' /\ stopped' \in 0..1
    <3>1. \A d \in Callers : disposing(d)' => disposing(d) /\ (d = c => stopped' = stopped)
      BY <2>1 DEF ManagerIInv, ManagerTypes, disposing
    <3>2. disposed /\ stopped = 0 /\ \A d \in Callers : disposing(d) => d = c
      BY <2>1, Zenon DEF ManagerIInv, StoppedOnce
    <3>3. stopped' \in 0..1
      BY <2>1, <3>2
    <3> QED
      BY <2>1, <3>1, <3>2, <3>3, Zenon DEF StoppedOnce
  <2> QED
    BY <2>1, <2>2, <2>3, ManagerKept DEF ManagerIInv, ManagerTypes, Places
<1>7. CASE UNCHANGED M!vars
  BY <1>7, Zenon DEF M!vars, ManagerIInv, ManagerTypes, GotKnown, StoppedOnce, disposing,
     withEngine
<1> QED
  BY <1>1, <1>2, <1>3, <1>4, <1>5, <1>6, <1>7, SMTT(20) DEF M!Next

\* For any argument lists and callers: who races in getEngine() for one list gets the engine
\* that is in the map, and racing calls of dispose() stop the dispatcher once.
THEOREM ManagerRaces == M!Spec => []ManagerInv
<1>1. ManagerIInv => ManagerInv
  <2> SUFFICES ASSUME ManagerIInv PROVE ManagerInv
    OBVIOUS
  <2>1. Cardinality(withEngine) \in Nat /\ Cardinality(withEngine) <= Cardinality(EngineIds)
    BY PartsAssumption, FS_Subset, FS_CardinalityType, Zenon DEF withEngine
  <2>2. Cardinality(EngineIds) \in Nat /\ M!Cardinality(EngineIds) = Cardinality(EngineIds)
    BY PartsAssumption, FS_CardinalityType, CardinalityOfM, SMTT(30)
  <2>3. made \in 0..M!Cardinality(EngineIds)
    BY <2>1, <2>2 DEF ManagerIInv, ManagerTypes
  <2> QED
    BY <2>3, Zenon DEF ManagerIInv, ManagerTypes, GotKnown, ManagerInv, M!ManagerInv, M!TypeOK,
                       M!OneEnginePerId
<1> QED
  BY <1>1, ManagerInit, ManagerStep, PTL DEF M!Spec
==============================================================================
