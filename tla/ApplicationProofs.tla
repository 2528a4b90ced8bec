-------------------------- MODULE ApplicationProofs --------------------------
(***************************************************************************)
(* The services that have threads of their own, for all values of their    *)
(* constants: the watchdog, the channel, the state manager with any number *)
(* of callbacks and of threads that ask for the shutdown, and the          *)
(* application that the state manager controls.                            *)
(***************************************************************************)
EXTENDS Watchdog, Channel, Application, FiniteSetTheorems, TLAPS

------------------------------------------------------------------------------
(* The watchdog *)

\* WatchdogTypeOK without the two flags.
WatchdogTypes ==
  /\ now \in Nat /\ wake \in Nat
  /\ known \subseteq Threads
  /\ last_time \in [Threads -> Nat] /\ lastPing \in [Threads -> Nat]
  /\ last_count \in [Threads -> 0..W - 1] /\ count \in [Threads -> 0..W - 1]
  /\ pings \in [Threads -> 0..W - 1]
  /\ worker \in [Threads -> {"out", "loop", "handler"}]

\* What an entry says of its thread.  The counter has moved exactly if there was a
\* ping since the last check, at wake - Granularity; last_time is then one round
\* behind at most, and the last check would have raised the alarm on an older one.
Entry(t) ==
  /\ count[t] = (last_count[t] + pings[t]) % W
  /\ lastPing[t] <= now /\ last_time[t] <= now
  /\ pings[t] = 0 => lastPing[t] <= last_time[t]
  /\ pings[t] > 0 => lastPing[t] >= wake - Granularity
  /\ last_time[t] <= lastPing[t] + Granularity + Delay
  /\ wake - Granularity - last_time[t] <= Timeout

\* A thread that is in run() is watched.
RunnersWatched == \A t \in Threads : worker[t] # "out" => t \in known

WatchdogIInv ==
  /\ WatchdogTypes
  /\ \A t \in known : Entry(t)
  /\ RunnersWatched
  /\ wake <= now + Granularity
  /\ checker = "sleeping" => now <= wake + Delay
  /\ AlarmIsLate

\* A counter that is back where it was has not been moved less than W times.
LEMMA CounterWraps ==
  ASSUME NEW w \in Nat \ {0}, NEW c \in 0..w - 1, NEW n \in 0..w - 1, (c + n) % w = c
  PROVE  n = 0
<1>1. CASE c + n < w
  <2>1. (c + n) % w = c + n  BY <1>1
  <2> QED  BY <2>1
<1>2. CASE c + n >= w
  <2>1. c + n - w \in 0..w - 1  BY <1>2
  <2>2. (c + n) % w = c + n - w  BY <1>2, <2>1
  <2> QED  BY <2>2
<1> QED  BY <1>1, <1>2

\* One more ping.
LEMMA OnePing ==
  ASSUME NEW w \in Nat \ {0}, NEW c \in 0..w - 1, NEW n \in 0..w - 1, n < w - 1
  PROVE  ((((c + n) % w) + 1) % w) = ((c + (n + 1)) % w)
<1>1. CASE c + n + 1 < w
  <2>1. (c + n) % w = c + n  BY <1>1
  <2> QED  BY <2>1
<1>2. CASE c + n + 1 = w
  <2>1. (c + n) % w = c + n  BY <1>2
  <2> QED  BY <2>1
<1>3. CASE c + n >= w
  <2>1. c + n - w \in 0..w - 1 /\ c + n + 1 - w \in 0..w - 1  BY <1>3
  <2>2. (c + n) % w = c + n - w  BY <1>3, <2>1
  <2>3. (c + (n + 1)) % w = c + n + 1 - w  BY <1>3, <2>1
  <2>4. (c + n - w + 1) % w = c + n + 1 - w  BY <2>1
  <2> QED  BY <2>2, <2>3, <2>4
<1> QED  BY <1>1, <1>2, <1>3

LEMMA Reset ==
  ASSUME NEW w \in Nat \ {0}, NEW c \in 0..w - 1
  PROVE  ((c + 0) % w) = c
OBVIOUS

\* If the counter has not moved there was no ping since the last check.
LEMMA NotMoved ==
  ASSUME WatchdogIInv, NEW t \in known, ~moved(t)
  PROVE  pings[t] = 0
<1>1. /\ W \in Nat \ {0} /\ last_count[t] \in 0..W - 1 /\ pings[t] \in 0..W - 1
  BY WatchdogAssumption DEF WatchdogAssumption, WatchdogIInv, WatchdogTypes
<1>2. (last_count[t] + pings[t]) % W = last_count[t]
  BY DEF WatchdogIInv, Entry, moved
<1> QED  BY <1>1, <1>2, CounterWraps, Zenon

LEMMA WatchdogInitial == WatchdogInit => WatchdogIInv
BY WatchdogAssumption
DEF WatchdogInit, WatchdogIInv, WatchdogTypes, RunnersWatched, AlarmIsLate, WatchdogAssumption

LEMMA AddPreserves == ASSUME WatchdogIInv, NEW t \in Threads, add(t) PROVE WatchdogIInv'
<1> USE WatchdogAssumption DEF WatchdogAssumption
<1>1. WatchdogTypes'  BY DEF WatchdogIInv, WatchdogTypes, add
<1>2. ASSUME NEW u \in known' PROVE Entry(u)'
  <2>1. CASE u \in known
    <3>1. UNCHANGED <<count[u], last_count[u], pings[u], last_time[u], lastPing[u], now, wake>>
      BY <2>1 DEF add, WatchdogIInv, WatchdogTypes
    <3> QED  BY <2>1, <3>1 DEF WatchdogIInv, Entry
  <2>2. CASE u \notin known
    <3>1. /\ u = t
          /\ count'[t] = 0 /\ last_count'[t] = 0 /\ pings'[t] = 0
          /\ last_time'[t] = now /\ lastPing'[t] = now
          /\ now' = now /\ wake' = wake
      BY <2>2 DEF add, WatchdogIInv, WatchdogTypes
    <3>2. (0 + 0) % W = 0  BY Reset
    <3> QED  BY <3>1, <3>2 DEF WatchdogIInv, WatchdogTypes, Entry
  <2> QED  BY <2>1, <2>2
<1>3. RunnersWatched'  BY DEF WatchdogIInv, WatchdogTypes, RunnersWatched, add
<1>4. checker' # "aborted"  BY DEF add, alive
<1> QED  BY <1>1, <1>2, <1>3, <1>4 DEF WatchdogIInv, AlarmIsLate, add

\* enter and leave move the worker only.
LEMMA WorkerPreserves ==
  ASSUME WatchdogIInv, NEW t \in Threads, enter(t) \/ leave(t) PROVE WatchdogIInv'
<1>1. /\ UNCHANGED <<now, known, last_time, last_count, count, lastPing, pings, checker, wake>>
      /\ checker # "aborted"
      /\ \E p \in {"handler", "out"} : worker' = [worker EXCEPT ![t] = p]
      /\ worker[t] = "loop"
  BY DEF enter, leave, alive
<1>2. WatchdogTypes'  BY <1>1 DEF WatchdogIInv, WatchdogTypes
<1>3. \A u \in known' : Entry(u)'  BY <1>1 DEF WatchdogIInv, Entry
<1>4. RunnersWatched'  BY <1>1 DEF WatchdogIInv, WatchdogTypes, RunnersWatched
<1> QED  BY <1>1, <1>2, <1>3, <1>4 DEF WatchdogIInv, AlarmIsLate

LEMMA PingPreserves == ASSUME WatchdogIInv, NEW t \in Threads, ping(t) PROVE WatchdogIInv'
<1> USE WatchdogAssumption DEF WatchdogAssumption
<1>0. /\ W \in Nat \ {0} /\ last_count[t] \in 0..W - 1 /\ pings[t] \in 0..W - 1
      /\ count[t] \in 0..W - 1 /\ pings[t] < W - 1 /\ t \in known
  BY DEF WatchdogIInv, WatchdogTypes, ping, RunnersWatched
<1>1. next(count[t]) \in 0..W - 1  BY <1>0 DEF next
<1>2. WatchdogTypes'  BY <1>0, <1>1 DEF WatchdogIInv, WatchdogTypes, ping
<1>3. ASSUME NEW u \in known' PROVE Entry(u)'
  <2>1. CASE u # t
    <3>1. UNCHANGED <<count[u], last_count[u], pings[u], last_time[u], lastPing[u], now, wake>>
      BY <2>1 DEF ping, WatchdogIInv, WatchdogTypes
    <3>2. Entry(u)  BY <1>3 DEF WatchdogIInv, ping
    <3> QED  BY <3>1, <3>2 DEF Entry
  <2>2. CASE u = t
    <3>1. /\ count'[t] = next(count[t]) /\ pings'[t] = pings[t] + 1 /\ lastPing'[t] = now
          /\ UNCHANGED <<last_count, last_time, now, wake>>
      BY DEF ping, WatchdogIInv, WatchdogTypes
    <3>2. count[t] = (last_count[t] + pings[t]) % W  BY <1>0 DEF WatchdogIInv, Entry
    <3>3. count'[t] = (last_count'[t] + pings'[t]) % W
      BY <1>0, <3>1, <3>2, OnePing, Zenon DEF next
    <3>4. /\ now \in Nat /\ last_time[t] \in Nat /\ wake \in Nat /\ last_time[t] <= now
          /\ wake <= now + Granularity /\ wake - Granularity - last_time[t] <= Timeout
      BY <1>0 DEF WatchdogIInv, WatchdogTypes, Entry
    <3> QED  BY <1>0, <2>2, <3>1, <3>3, <3>4 DEF Entry
  <2> QED  BY <2>1, <2>2
<1>4. RunnersWatched'  BY DEF WatchdogIInv, WatchdogTypes, RunnersWatched, ping
<1> QED  BY <1>2, <1>3, <1>4 DEF WatchdogIInv, AlarmIsLate, ping, alive

LEMMA CheckPreserves == ASSUME WatchdogIInv, check PROVE WatchdogIInv'
<1> USE WatchdogAssumption DEF WatchdogAssumption
<1>1. CASE alarm
  <2>1. /\ UNCHANGED <<now, workerVars, wake>> /\ checker' = "aborted"
    BY <1>1 DEF check
  <2>2. PICK t \in known : ~unused(t) /\ ~moved(t) /\ late(t)  BY <1>1 DEF alarm
  <2>3. pings[t] = 0  BY <2>2, NotMoved
  <2>4. now - lastPing[t] > Timeout
    BY <2>2, <2>3 DEF WatchdogIInv, WatchdogTypes, Entry, late
  <2>5. AlarmIsLate'  BY <2>1, <2>2, <2>4 DEF AlarmIsLate, unused, workerVars
  <2> QED  BY <2>1, <2>5 DEF WatchdogIInv, WatchdogTypes, Entry, RunnersWatched, workerVars
<1>2. CASE ~alarm
  <2>1. /\ known' = {t \in known : ~unused(t)}
        /\ last_time' = [t \in Threads |-> seen(t)]
        /\ last_count' = count /\ count' = count
        /\ pings' = [t \in Threads |-> 0]
        /\ wake' = now + Granularity /\ now' = now
        /\ UNCHANGED <<worker, lastPing>>
        /\ checker = "sleeping" /\ checker' # "aborted"
    BY <1>2 DEF check
  <2>2. WatchdogTypes'  BY <2>1 DEF WatchdogIInv, WatchdogTypes, seen
  <2>3. ASSUME NEW u \in known' PROVE Entry(u)'
    <3>1. u \in known /\ u \in Threads /\ ~unused(u) /\ Entry(u)
      BY <2>1 DEF WatchdogIInv, WatchdogTypes
    <3>2. /\ now \in Nat /\ wake \in Nat /\ lastPing[u] \in Nat /\ last_time[u] \in Nat
          /\ pings[u] \in 0..W - 1 /\ count[u] \in 0..W - 1 /\ now <= wake + Delay
      BY <2>1, <3>1 DEF WatchdogIInv, WatchdogTypes
    <3>3. (count[u] + 0) % W = count[u]  BY <3>2, Reset, Zenon
    <3>4. CASE moved(u)
      <4>1. pings[u] > 0
        <5> SUFFICES ASSUME pings[u] = 0 PROVE FALSE  BY <3>2
        <5>1. count[u] = (last_count[u] + 0) % W  BY <3>1 DEF Entry
        <5>2. last_count[u] \in 0..W - 1  BY <3>1 DEF WatchdogIInv, WatchdogTypes
        <5>3. (last_count[u] + 0) % W = last_count[u]  BY <5>2, Reset
        <5> QED  BY <3>4, <5>1, <5>3 DEF moved
      <4> QED  BY <2>1, <3>1, <3>2, <3>3, <3>4, <4>1 DEF Entry, seen
    <3>5. CASE ~moved(u)
      <4>1. pings[u] = 0  BY <3>1, <3>5, NotMoved
      <4>2. ~late(u)  BY <1>2, <3>1, <3>5 DEF alarm
      <4> QED  BY <2>1, <3>1, <3>2, <3>3, <3>5, <4>1, <4>2 DEF Entry, seen, late
    <3> QED  BY <3>4, <3>5
  <2>4. RunnersWatched'  BY <2>1 DEF WatchdogIInv, RunnersWatched, unused
  <2> QED  BY <2>1, <2>2, <2>3, <2>4 DEF WatchdogIInv, WatchdogTypes, AlarmIsLate
<1> QED  BY <1>1, <1>2

LEMMA TickPreserves == ASSUME WatchdogIInv, tick PROVE WatchdogIInv'
<1> USE WatchdogAssumption DEF WatchdogAssumption
<1>1. /\ now' = now + 1 /\ UNCHANGED <<workerVars, wake, checker>> /\ checker # "aborted"
      /\ checker = "sleeping" => now < wake + Delay
  BY DEF tick, alive
<1>2. WatchdogTypes'  BY <1>1 DEF WatchdogIInv, WatchdogTypes, workerVars
<1>3. \A u \in known' : Entry(u)'  BY <1>1 DEF WatchdogIInv, WatchdogTypes, Entry, workerVars
<1> QED
  BY <1>1, <1>2, <1>3 DEF WatchdogIInv, WatchdogTypes, RunnersWatched, AlarmIsLate, workerVars

LEMMA WatchdogStep == WatchdogIInv /\ [WatchdogNext]_watchdogVars => WatchdogIInv'
<1> SUFFICES ASSUME WatchdogIInv, [WatchdogNext]_watchdogVars PROVE WatchdogIInv'
  OBVIOUS
<1>1. ASSUME NEW t \in Threads, add(t) \/ enter(t) \/ leave(t) \/ ping(t)  PROVE WatchdogIInv'
  BY <1>1, AddPreserves, WorkerPreserves, PingPreserves
<1>2. CASE stop
  BY <1>2 DEF stop, WatchdogIInv, WatchdogTypes, Entry, RunnersWatched, AlarmIsLate, workerVars
<1>3. CASE check  BY <1>3, CheckPreserves
<1>4. CASE tick  BY <1>4, TickPreserves
<1>5. CASE UNCHANGED watchdogVars
  BY <1>5 DEF watchdogVars, WatchdogIInv, WatchdogTypes, Entry, RunnersWatched, AlarmIsLate,
     workerVars
<1> QED  BY <1>1, <1>2, <1>3, <1>4, <1>5 DEF WatchdogNext

WatchdogFlags == stopped_ \in BOOLEAN /\ checker \in {"sleeping", "done", "aborted"}

LEMMA FlagsStep == WatchdogFlags /\ [WatchdogNext]_watchdogVars => WatchdogFlags'
<1> SUFFICES ASSUME WatchdogFlags, [WatchdogNext]_watchdogVars PROVE WatchdogFlags'
  OBVIOUS
<1>1. CASE stopped_' = stopped_ /\ checker' = checker  BY <1>1, Zenon DEF WatchdogFlags
<1>2. CASE stop
  <2>1. stopped_' = TRUE /\ checker' = checker  BY <1>2 DEF stop
  <2> QED  BY <2>1, Zenon DEF WatchdogFlags
<1>3. CASE check
  <2>1. stopped_' = stopped_ /\ checker' \in {"sleeping", "done", "aborted"}  BY <1>3 DEF check
  <2> QED  BY <2>1, Zenon DEF WatchdogFlags
<1>4. ASSUME NEW t \in Threads, add(t) \/ enter(t) \/ leave(t) \/ ping(t)
      PROVE  stopped_' = stopped_ /\ checker' = checker
  BY <1>4 DEF add, enter, leave, ping
<1>5. CASE tick \/ UNCHANGED watchdogVars  BY <1>1, <1>5 DEF tick, watchdogVars
<1> QED  BY <1>1, <1>2, <1>3, <1>4, <1>5 DEF WatchdogNext

\* The entries, the counters and the flags keep their types.
THEOREM WatchdogTyped == WatchdogSpec => []WatchdogTypeOK
<1>1. WatchdogInit => WatchdogFlags  BY Zenon DEF WatchdogInit, WatchdogFlags
<1>2. WatchdogIInv /\ WatchdogFlags => WatchdogTypeOK
  BY Zenon DEF WatchdogIInv, WatchdogTypes, WatchdogFlags, WatchdogTypeOK
<1> QED  BY <1>1, <1>2, FlagsStep, WatchdogInitial, WatchdogStep, PTL DEF WatchdogSpec

\* The watchdog ends the process only when a thread has been silent for longer than
\* the timeout.
THEOREM AlarmsAreDue == WatchdogSpec => []AlarmIsLate
<1>1. WatchdogIInv => AlarmIsLate  BY DEF WatchdogIInv
<1> QED  BY <1>1, WatchdogInitial, WatchdogStep, PTL DEF WatchdogSpec

\* And it watches every thread in run(), and lets none be silent for longer than the
\* timeout and two rounds of the check.
THEOREM HangsAreSeen == WatchdogSpec => []StallDetected
<1>1. WatchdogIInv => StallDetected
  <2> SUFFICES ASSUME WatchdogIInv, checker = "sleeping", NEW t \in known
               PROVE  now - lastPing[t] <= Timeout + 2 * (Granularity + Delay)
    BY DEF StallDetected, WatchdogIInv, RunnersWatched
  <2>1. /\ now \in Nat /\ wake \in Nat /\ lastPing[t] \in Nat /\ last_time[t] \in Nat
        /\ now <= wake + Delay /\ Entry(t)
    BY DEF WatchdogIInv, WatchdogTypes
  <2> QED  BY <2>1, WatchdogAssumption DEF WatchdogAssumption, Entry
<1> QED  BY <1>1, WatchdogInitial, WatchdogStep, PTL DEF WatchdogSpec

------------------------------------------------------------------------------
(* The channel *)

\* Who holds a mutex: the sender its own through an operation, the receiver its own while
\* it tries the sender's.
MutexesHeld ==
  /\ \A o \in Senders : sLocked[o] <=> o = sNow /\ sPc # "idle"
  /\ \A o \in Receivers : rLocked[o] <=> o = rNow /\ rPc \in {"dieTry", "moveTry"}

\* An object that an endpoint was moved away from points nowhere.
OldObjectsAlone ==
  /\ \A o \in Senders : o # sNow => sOpp[o] = Null
  /\ \A o \in Receivers : o # rNow => rOpp[o] = Null

\* What the places of the two threads say: of the peer, of the endpoint's end, and of
\* the bounds.
Places ==
  /\ sPc = "setSignal" => sOpp[sNow] # Null
  /\ sPc = "dieSignal" => sOpp[sNow] # Null /\ rOpp[rNow] = Null
  /\ sDead => sPc = "idle" /\ sOpp[sNow] = Null
  /\ rDead => rPc = "idle" /\ rOpp[rNow] = Null
  /\ sPc \in {"set", "setSignal"} => sent >= 1
  /\ sPc = "move" => sNow < SenderMoves
  /\ rPc \in {"move", "moveTry"} => rNow < ReceiverMoves

ChannelIInv == ChannelTypeOK /\ PeersAgree /\ MutexesHeld /\ OldObjectsAlone /\ Places

LEMMA ChannelInitial == ChannelInit => ChannelIInv
<1> SUFFICES ASSUME ChannelInit PROVE ChannelIInv
  OBVIOUS
<1>1. 0 \in Senders /\ 0 \in Receivers /\ Null # 0
  BY ChannelAssumption DEF ChannelAssumption, Senders, Receivers
<1>2. ChannelTypeOK
  BY <1>1, ChannelAssumption DEF ChannelInit, ChannelTypeOK, ChannelAssumption
<1>3. PeersAgree /\ MutexesHeld /\ OldObjectsAlone /\ Places
  BY <1>1 DEF ChannelInit, PeersAgree, MutexesHeld, OldObjectsAlone, Places
<1> QED
  BY <1>2, <1>3 DEF ChannelIInv

\* The sender's steps.
LEMMA SenderStep ==
  ASSUME ChannelIInv, (\E op \in {"set", "move", "die"} : senderEnter(op)) \/ sender
  PROVE  ChannelIInv'
<1> USE ChannelAssumption DEF ChannelAssumption, Senders, Receivers, senderVars, receiverVars,
        ChannelIInv
<1>1. ASSUME NEW op \in {"set", "move", "die"}, senderEnter(op) PROVE ChannelIInv'
  <2>1. /\ sPc = "idle" /\ ~sDead /\ sPc' = op /\ sLocked' = [sLocked EXCEPT ![sNow] = TRUE]
        /\ op = "set" => sent < MaxSets /\ sent' = sent + 1
        /\ op # "set" => sent' = sent
        /\ op = "move" => sNow < SenderMoves
        /\ UNCHANGED <<sOpp, rOpp, rLocked, data, event, sNow, sDead, rNow, rDead, rPc, got>>
    <3>1. CASE op = "set"
      BY <1>1, <3>1 DEF senderEnter
    <3>2. CASE op = "move"
      BY <1>1, <3>2 DEF senderEnter
    <3>3. CASE op = "die"
      BY <1>1, <3>3, Zenon DEF senderEnter
    <3> QED
      BY <1>1, <3>1, <3>2, <3>3
  <2>2. ChannelTypeOK'
    BY <1>1, <2>1 DEF ChannelTypeOK
  <2>3. PeersAgree' /\ MutexesHeld' /\ OldObjectsAlone' /\ Places'
    BY <1>1, <2>1 DEF ChannelTypeOK, PeersAgree, MutexesHeld, OldObjectsAlone, Places
  <2> QED
    BY <2>2, <2>3
<1>2. CASE senderAlone
  <2>1. ChannelTypeOK'
    BY <1>2, SMTT(20) DEF senderAlone, senderLeave, ChannelTypeOK, Places
  <2>2. PeersAgree' /\ MutexesHeld' /\ OldObjectsAlone' /\ Places'
    BY <1>2 DEF senderAlone, senderLeave, ChannelTypeOK, PeersAgree, MutexesHeld,
                OldObjectsAlone, Places
  <2> QED
    BY <2>1, <2>2, Zenon
<1>3. CASE senderTouch
  <2>1. sOpp[sNow] = rNow /\ rOpp[rNow] = sNow
    BY <1>3 DEF senderTouch, PeersAgree
  <2>2. CASE sPc = "set"
    <3>1. /\ rOpp' = [rOpp EXCEPT ![rNow] = sNow] /\ data' = [data EXCEPT ![rNow] = sent]
          /\ sPc' = "setSignal"
          /\ UNCHANGED <<sOpp, sLocked, sNow, sDead, rLocked, event, sent, receiverVars>>
      BY <1>3, <2>1, <2>2, Zenon DEF senderTouch, storedIn, newPeer
    <3> QED
      BY <2>1, <2>2, <3>1 DEF ChannelTypeOK, PeersAgree, MutexesHeld, OldObjectsAlone, Places
  <2>3. CASE sPc = "die"
    <3>1. /\ rOpp' = [rOpp EXCEPT ![rNow] = Null] /\ data' = data
          /\ sPc' = "dieSignal"
          /\ UNCHANGED <<sOpp, sLocked, sNow, sDead, rLocked, event, sent, receiverVars>>
      BY <1>3, <2>1, <2>3 DEF senderTouch, storedIn, newPeer
    <3> QED
      BY <2>1, <2>3, <3>1 DEF ChannelTypeOK, PeersAgree, MutexesHeld, OldObjectsAlone, Places
  <2>4. CASE sPc = "move"
    <3>1. /\ rOpp' = [rOpp EXCEPT ![rNow] = sNow + 1] /\ data' = data
          /\ senderLeave("move", rNow)
          /\ UNCHANGED <<rLocked, event, sent, receiverVars>>
      BY <1>3, <2>1, <2>4 DEF senderTouch, storedIn, newPeer
    <3>2. /\ sNow' = sNow + 1 /\ sNow + 1 \in Senders /\ sPc' = "idle" /\ sDead' = FALSE
          /\ sLocked' = [sLocked EXCEPT ![sNow] = FALSE]
          /\ sOpp' = [[sOpp EXCEPT ![sNow] = Null] EXCEPT ![sNow + 1] = rNow]
      BY <2>4, <3>1 DEF senderLeave, ChannelTypeOK, Places
    <3>3. ChannelTypeOK'
      BY <3>1, <3>2, Zenon DEF ChannelTypeOK
    <3>4. PeersAgree' /\ MutexesHeld' /\ OldObjectsAlone' /\ Places'
      BY <2>1, <2>4, <3>1, <3>2
         DEF ChannelTypeOK, PeersAgree, MutexesHeld, OldObjectsAlone, Places
    <3> QED
      BY <3>3, <3>4
  <2> QED
    BY <1>3, <2>2, <2>3, <2>4, Zenon DEF senderTouch
<1>4. CASE senderSignal
  <2>1. ChannelTypeOK'
    BY <1>4, Zenon DEF senderSignal, senderLeave, signalled, ChannelTypeOK, Places
  <2>2. PeersAgree' /\ MutexesHeld' /\ OldObjectsAlone' /\ Places'
    BY <1>4 DEF senderSignal, senderLeave, ChannelTypeOK, PeersAgree, MutexesHeld,
                OldObjectsAlone, Places
  <2> QED
    BY <2>1, <2>2
<1> QED
  BY <1>1, <1>2, <1>3, <1>4 DEF sender

\* The receiver's steps.
LEMMA ReceiverStep ==
  ASSUME ChannelIInv, (\E op \in {"wait", "move", "die"} : receiverBegin(op)) \/ receiver
  PROVE  ChannelIInv'
<1> USE ChannelAssumption DEF ChannelAssumption, Senders, Receivers, senderVars, receiverVars,
        ChannelIInv
<1>1. ASSUME NEW op \in {"wait", "move", "die"}, receiverBegin(op) PROVE ChannelIInv'
  <2>1. ChannelTypeOK'
    BY <1>1, Zenon DEF receiverBegin, ChannelTypeOK
  <2>2. PeersAgree' /\ MutexesHeld' /\ OldObjectsAlone' /\ Places'
    BY <1>1 DEF receiverBegin, ChannelTypeOK, PeersAgree, MutexesHeld, OldObjectsAlone, Places
  <2> QED
    BY <2>1, <2>2, Zenon
<1>2. CASE waitEvent \/ readData
  <2>1. ChannelTypeOK'
    <3>1. CASE waitEvent
      BY <3>1, Zenon DEF waitEvent, ChannelTypeOK
    <3>2. CASE readData
      <4>1. data[rNow] \in 1..MaxSets \cup {Null} /\ got' = Append(got, data[rNow])
        BY <3>2 DEF readData, ChannelTypeOK
      <4>2. got' \in Seq(1..MaxSets \cup {Null})
        BY <4>1 DEF ChannelTypeOK
      <4> QED
        BY <3>2, <4>2 DEF readData, ChannelTypeOK
    <3> QED
      BY <1>2, <3>1, <3>2, Zenon
  <2>2. PeersAgree' /\ MutexesHeld' /\ OldObjectsAlone' /\ Places'
    BY <1>2, SMTT(20) DEF waitEvent, readData, ChannelTypeOK, PeersAgree, MutexesHeld,
       OldObjectsAlone, Places
  <2> QED
    BY <2>1, <2>2
<1>3. CASE receiverLock \/ receiverRetry
  <2>1. ChannelTypeOK'
    BY <1>3, Zenon DEF receiverLock, receiverRetry, ChannelTypeOK
  <2>2. PeersAgree' /\ MutexesHeld' /\ OldObjectsAlone' /\ Places'
    BY <1>3, SMTT(20) DEF receiverLock, receiverRetry, ChannelTypeOK, PeersAgree, MutexesHeld,
                OldObjectsAlone, Places
  <2> QED
    BY <2>1, <2>2
<1>4. CASE receiverLeave
  <2>1. ChannelTypeOK'
    BY <1>4, SMTT(20) DEF receiverLeave, tryFails, ChannelTypeOK, Places
  <2>2. PeersAgree' /\ MutexesHeld' /\ OldObjectsAlone' /\ Places'
    BY <1>4 DEF receiverLeave, tryFails, ChannelTypeOK, PeersAgree, MutexesHeld,
                OldObjectsAlone, Places
  <2> QED
    BY <2>1, <2>2
<1> QED
  BY <1>1, <1>2, <1>3, <1>4 DEF receiver

\* However the ends of a channel are moved and destroyed while values are sent, they
\* point at each other or at nothing, and the sender stores only into a receiver that is
\* there (Endpoint, Sender::set(), unregister_opp()).
THEOREM EndpointsAgree == ChannelSpec => []ChannelInv
<1>1. ChannelIInv => ChannelInv
  BY ChannelAssumption, SMTT(20) DEF ChannelIInv, ChannelInv, ChannelTypeOK, PeersAgree,
     SetTouchesLive, Places, ChannelAssumption, Senders, Receivers
<1>2. ChannelIInv /\ [ChannelNext]_channelVars => ChannelIInv'
  <2> SUFFICES ASSUME ChannelIInv, [ChannelNext]_channelVars PROVE ChannelIInv'
    OBVIOUS
  <2>1. CASE UNCHANGED channelVars
    BY <2>1 DEF channelVars, ChannelIInv, ChannelTypeOK, PeersAgree, MutexesHeld,
       OldObjectsAlone, Places
  <2> QED
    BY <2>1, SenderStep, ReceiverStep DEF ChannelNext
<1> QED
  BY <1>1, <1>2, ChannelInitial, PTL DEF ChannelSpec

------------------------------------------------------------------------------
(* The state manager, and the application *)

\* Where run() is says what stage and state it may be in; only a request for the shutdown
\* and a failure lead away from the usual ones.
Progress ==
  /\ pc = "new" => stage = "prepare" /\ state \in {"Init", "ShuttingDown"}
  /\ pc = "enter" =>
       \/ stage \in {"prepare", "launch"} /\ state \in {from(stage), "ShuttingDown"}
       \/ stage = "shutdown" /\ state = "ShuttingDown"
  /\ pc \in {"loop", "called"} => state \in {during(stage), "ShuttingDown"}
  /\ pc \in {"works?", "lock", "waiting", "asleep"} =>
       stage = "launch" /\ state \in {"Works", "ShuttingDown"}
  /\ pc \in {"final", "returned", "unexpectedStage"} =>
       stage = "shutdown" /\ state \in {"ReadyToStop", "ShuttingDown"}
  /\ pc # "wrongStage"
  /\ failed # {} => state \in {"ShuttingDown", "ReadyToStop"}

\* No stage was called that comes after the present one.
CallsBehind == \A i \in 1..Len(calls) : rank(during(calls[i][1])) <= rank(during(stage))

\* Callbacks have numbers of their own.
Numbered == IsFiniteSet(accepted) /\ \A c \in accepted : c[2] <= Cardinality(accepted)

waitingStop == queue["shutdown"]
stopping == pc = "called" /\ stage = "shutdown"
calledIn(cs, c) == \E k \in 1..Len(cs) : cs[k] = c

\* A callback for the shutdown is in the queue q, once, or was called, once; the one at
\* the front is both while it runs.
Once(q, cs, registered, running) ==
  /\ \A i, j \in 1..Len(q) : q[i] = q[j] => i = j
  /\ \A i \in 1..Len(q) : <<"shutdown", q[i]>> \in registered
  /\ \A i \in 1..Len(q) : calledIn(cs, <<"shutdown", q[i]>>) <=> i = 1 /\ running
  /\ \A k, l \in 1..Len(cs) : cs[k] = cs[l] /\ cs[k][1] = "shutdown" => k = l
  /\ \A k \in 1..Len(cs) : cs[k][1] = "shutdown" => cs[k] \in registered
  /\ \A c \in registered : c[1] = "shutdown" =>
       calledIn(cs, c) \/ \E i \in 1..Len(q) : q[i] = c[2]

OnceEach == Once(waitingStop, calls, accepted, stopping)

\* A callback that runs is still in its queue, and the end comes with none left.
Ends ==
  /\ pc = "called" => queue[stage] # <<>>
  /\ pc = "final" /\ state = "ReadyToStop" => waitingStop = <<>>

LifeCycleInv == TypeOK /\ Progress /\ CallsBehind /\ Numbered /\ OnceEach /\ Ends

\* The tables of the stages, and their order.
LEMMA StageFacts ==
  /\ from("prepare") = "Init" /\ from("launch") = "ReadyToStart" /\ from("shutdown") = "Works"
  /\ during("prepare") = "Prepare" /\ during("launch") = "Starting"
  /\ during("shutdown") = "ShuttingDown"
  /\ after("prepare") = "ReadyToStart" /\ after("launch") = "Works"
  /\ after("shutdown") = "ReadyToStop"
  /\ nextPc("prepare") = "enter" /\ nextPc("launch") = "works?" /\ nextPc("shutdown") = "final"
BY DEF from, during, after, nextPc

LEMMA Ranks ==
  /\ rank("Prepare") = 2 /\ rank("Starting") = 4 /\ rank("ShuttingDown") = 6
  /\ rank("ReadyToStop") = 7
<1>1. /\ Len(States) = 7
      /\ States[1] = "Init" /\ States[2] = "Prepare" /\ States[3] = "ReadyToStart"
      /\ States[4] = "Starting" /\ States[5] = "Works" /\ States[6] = "ShuttingDown"
      /\ States[7] = "ReadyToStop"
  BY DEF States
<1>2. \A i \in 1..Len(States) : i \in {1, 2, 3, 4, 5, 6, 7}
  BY <1>1
<1> HIDE DEF States
<1>3. \A i \in 1..Len(States) : States[i] = "Prepare" => i = 2
  BY <1>1, <1>2
<1>4. \A i \in 1..Len(States) : States[i] = "Starting" => i = 4
  BY <1>1, <1>2
<1>5. \A i \in 1..Len(States) : States[i] = "ShuttingDown" => i = 6
  BY <1>1, <1>2
<1>6. \A i \in 1..Len(States) : States[i] = "ReadyToStop" => i = 7
  BY <1>1, <1>2
<1>7. {2, 4, 6, 7} \subseteq 1..Len(States)
  BY <1>1
<1>8. rank("Prepare") = 2
  BY <1>1, <1>3, <1>7 DEF rank
<1>9. rank("Starting") = 4
  BY <1>1, <1>4, <1>7 DEF rank
<1>10. rank("ShuttingDown") = 6
  BY <1>1, <1>5, <1>7 DEF rank
<1>11. rank("ReadyToStop") = 7
  BY <1>1, <1>6, <1>7 DEF rank
<1> QED
  BY <1>8, <1>9, <1>10, <1>11

LEMMA AtMostTransitive ==
  ASSUME NEW a \in Nat, NEW b \in Nat, NEW c \in Nat, a <= b, b <= c PROVE a <= c
OBVIOUS

\* The stages that the main thread leaves behind.
LEMMA StageOrder ==
  /\ Stages = {"prepare", "launch", "shutdown"}
  /\ rank(during("prepare")) = 2 /\ rank(during("launch")) = 4 /\ rank(during("shutdown")) = 6
BY StageFacts, Ranks DEF Stages

LEMMA ManagerInitial == Init => LifeCycleInv
<1> SUFFICES ASSUME Init PROVE LifeCycleInv
  OBVIOUS
<1>1. TypeOK
  BY StageOrder DEF Init, TypeOK, States, Range
<1>2. Progress /\ CallsBehind /\ Ends
  BY DEF Init, Progress, CallsBehind, Ends
<1>3. Numbered
  BY FS_EmptySet DEF Init, Numbered
<1>4. OnceEach
  <2>1. waitingStop = <<>> /\ calls = <<>> /\ accepted = {}
    BY StageOrder DEF Init, waitingStop
  <2> QED
    BY <2>1 DEF OnceEach, Once, calledIn
<1> QED
  BY <1>1, <1>2, <1>3, <1>4 DEF LifeCycleInv

\* A step that neither registers nor calls, and does not begin or end a shutdown callback.
LEMMA QuietStep ==
  ASSUME OnceEach, waitingStop' = waitingStop, calls' = calls, accepted' = accepted,
         stopping' <=> stopping
  PROVE  OnceEach'
BY Zenon DEF OnceEach

\* Those who ask for the shutdown change the state to 'shutting down' and wake main up.
LEMMA AskerStep ==
  ASSUME LifeCycleInv,
         \/ \E t \in Requesters : requestBegin(t)
         \/ signal
         \/ \E t \in Askers : shutdown(t)
  PROVE  LifeCycleInv'
<1>1. /\ queue' = queue /\ stage' = stage /\ accepted' = accepted /\ calls' = calls
      /\ failed' = failed
      /\ pc' = pc \/ (pc = "asleep" /\ pc' = "lock")
      /\ state' = state \/ state' = "ShuttingDown"
  BY DEF requestBegin, signal, shutdown, requestLoad, requestLock, requestStore, wakeMain
<1>2. TypeOK'
  <2>1. "ShuttingDown" \in Range(States)
    BY DEF States, Range
  <2>2. /\ state' \in Range(States)
        /\ pc' \in {"new", "enter", "loop", "called", "works?", "lock", "waiting", "asleep",
                    "final", "returned", "wrongStage", "unexpectedStage"}
    BY <1>1, <2>1, Zenon DEF LifeCycleInv, TypeOK
  <2>3. signals' \in BOOLEAN /\ cvMutex' \in Askers \cup {"main", None}
    BY Zenon DEF LifeCycleInv, TypeOK, requestBegin, signal, shutdown, requestLoad, requestLock,
           requestStore
  <2>4. req' \in [Askers -> {"idle", "load1", "load2", "lock", "store", "done"}]
    BY Zenon DEF LifeCycleInv, TypeOK, requestBegin, signal, shutdown, requestLoad, requestLock,
           requestStore
  <2> QED
    BY <1>1, <2>2, <2>3, <2>4 DEF LifeCycleInv, TypeOK
<1>3. Progress'
  BY <1>1 DEF LifeCycleInv, Progress, TypeOK
<1>4. CallsBehind' /\ Numbered' /\ Ends'
  BY <1>1, <1>3 DEF LifeCycleInv, CallsBehind, Numbered, Ends, waitingStop
<1>5. OnceEach'
  BY <1>1, QuietStep DEF LifeCycleInv, waitingStop, stopping
<1> QED
  BY <1>2, <1>3, <1>4, <1>5 DEF LifeCycleInv

\* The steps of run() from stage to stage.
LEMMA StageStep ==
  ASSUME LifeCycleInv,
         start \/ enterStage \/ leaveStage \/ testWorks \/ lockCv \/ waitCv \/ final
  PROVE  LifeCycleInv'
<1> USE StageFacts
<1>1. /\ accepted' = accepted /\ calls' = calls /\ failed' = failed /\ req' = req
      /\ signals' = signals
  BY Zenon DEF start, enterStage, leaveStage, testWorks, lockCv, waitCv, final
<1>2. pc \notin {"called", "asleep"} /\ pc' # "called" /\ pc' # "wrongStage" /\ stage \in Stages
  BY StageOrder, Zenon DEF LifeCycleInv, TypeOK, Progress, start, enterStage, leaveStage,
     testWorks, lockCv, waitCv, final, mayEnter
<1>3. waitingStop' = waitingStop
  BY <1>2, StageOrder DEF LifeCycleInv, TypeOK, start, enterStage, leaveStage, testWorks,
     lockCv, waitCv, final, waitingStop, kept
<1>4. TypeOK'
  <2>1. state' \in Range(States)
    <3>1. {"Prepare", "ReadyToStart", "Starting", "Works", "ShuttingDown", "ReadyToStop"}
             \subseteq Range(States)
      BY DEF States, Range
    <3> QED
      BY <1>2, <3>1, StageOrder DEF LifeCycleInv, TypeOK, start, enterStage, leaveStage,
         testWorks, lockCv, waitCv, final
  <2>2. queue' \in [Stages -> Seq(1..MaxCallbacks)]
    <3>1. CASE enterStage
      <4>1. <<>> \in Seq(1..MaxCallbacks)
        BY SMTT(20)
      <4> QED
        BY <3>1, <4>1, Zenon DEF LifeCycleInv, TypeOK, enterStage
    <3> QED
      BY <3>1, Zenon DEF LifeCycleInv, TypeOK, start, leaveStage, testWorks, lockCv, waitCv,
         final
  <2>3. /\ pc' \in {"new", "enter", "loop", "called", "works?", "lock", "waiting", "asleep",
                    "final", "returned", "wrongStage", "unexpectedStage"}
        /\ stage' \in Stages /\ cvMutex' \in Askers \cup {"main", None}
    BY <1>2, StageOrder, SMTT(20) DEF LifeCycleInv, TypeOK, start, enterStage, leaveStage,
       testWorks, lockCv, waitCv, final
  <2> QED
    BY <1>1, <2>1, <2>2, <2>3, Zenon DEF LifeCycleInv, TypeOK
<1>5. Progress'
  BY <1>1, <1>2, StageOrder DEF LifeCycleInv, Progress, start, enterStage, leaveStage,
     testWorks, lockCv, waitCv, final, mayEnter
<1>6. CallsBehind'
  <2>1. stage' = stage \/ stage = "prepare" \/ stage' = "shutdown"
    BY Zenon DEF LifeCycleInv, Progress, start, enterStage, leaveStage, testWorks, lockCv,
       waitCv, final
  <2>2. /\ stage \in {"prepare", "launch", "shutdown"}
        /\ stage' \in {"prepare", "launch", "shutdown"}
    BY <1>2, <1>4, StageOrder, Zenon DEF TypeOK
  <2>3. rank(during(stage)) <= rank(during(stage'))
    <3>1. CASE stage' = stage
      BY <2>2, <3>1, StageOrder
    <3>2. CASE stage = "prepare"
      BY <2>2, <3>2, StageOrder
    <3>3. CASE stage' = "shutdown"
      BY <2>2, <3>3, StageOrder
    <3> QED
      BY <2>1, <3>1, <3>2, <3>3, Zenon
  <2>4. \A i \in 1..Len(calls) : rank(during(calls[i][1])) \in Nat
    <3>1. \A i \in 1..Len(calls) : calls[i] \in Stages \X (1..MaxCallbacks)
      BY DEF LifeCycleInv, TypeOK
    <3>2. \A i \in 1..Len(calls) : calls[i][1] \in {"prepare", "launch", "shutdown"}
      BY <3>1, StageOrder
    <3>3. \A g \in {"prepare", "launch", "shutdown"} : rank(during(g)) \in Nat
      BY StageOrder
    <3> QED
      BY <3>2, <3>3, Zenon
  <2>5. rank(during(stage)) \in Nat /\ rank(during(stage')) \in Nat
    BY <2>2, StageOrder
  <2>6. ASSUME NEW i \in 1..Len(calls)
        PROVE  rank(during(calls[i][1])) <= rank(during(stage'))
    <3>1. rank(during(calls[i][1])) <= rank(during(stage))
      BY Zenon DEF LifeCycleInv, CallsBehind
    <3> QED
      BY <2>3, <2>4, <2>5, <3>1, AtMostTransitive, Zenon
  <2>7. calls' = calls
    BY <1>1, Zenon
  <2> QED
    BY <2>6, <2>7, Zenon DEF CallsBehind
<1>7. Numbered'
  BY <1>1 DEF LifeCycleInv, Numbered
<1>8. OnceEach'
  BY <1>1, <1>2, <1>3, QuietStep, SMTT(20) DEF LifeCycleInv, stopping
<1>9. Ends'
  BY <1>2, <1>3, StageOrder DEF LifeCycleInv, Progress, Ends, start, enterStage, leaveStage,
     testWorks, lockCv, waitCv, final, waitingStop
<1> QED
  BY <1>4, <1>5, <1>6, <1>7, <1>8, <1>9 DEF LifeCycleInv

\* A callback is registered, under a number that none has.
LEMMA RegisterStep ==
  ASSUME LifeCycleInv, NEW g \in Stages, register(g)
  PROVE  LifeCycleInv'
<1> DEFINE n == Cardinality(accepted) + 1
<1>1. /\ queue' = [queue EXCEPT ![g] = Append(queue[g], n)]
      /\ accepted' = accepted \cup {<<g, n>>} /\ Cardinality(accepted) < MaxCallbacks
      /\ rank(state) <= rank(during(g))
      /\ state' = state /\ pc' = pc /\ stage' = stage /\ calls' = calls /\ failed' = failed
      /\ UNCHANGED <<cvMutex, req, signals>>
  BY DEF register
<1>2. n \in 1..MaxCallbacks /\ Cardinality(accepted) \in Nat
  BY <1>1, FS_CardinalityType, ManagerAssumption DEF LifeCycleInv, Numbered, ManagerAssumption
<1>3. /\ accepted \subseteq Stages \X (1..MaxCallbacks)
      /\ queue \in [Stages -> Seq(1..MaxCallbacks)]
      /\ calls \in Seq(Stages \X (1..MaxCallbacks)) /\ stage \in Stages
      /\ \A c \in accepted : c[2] \in Nat /\ c[2] < n
  <2>1. \A c \in accepted : c[2] <= Cardinality(accepted)
    BY DEF LifeCycleInv, Numbered
  <2>2. /\ accepted \subseteq Stages \X (1..MaxCallbacks)
        /\ queue \in [Stages -> Seq(1..MaxCallbacks)]
        /\ calls \in Seq(Stages \X (1..MaxCallbacks)) /\ stage \in Stages
    BY DEF LifeCycleInv, TypeOK
  <2>3. \A c \in accepted : c[2] \in Nat
    BY <2>2
  <2> QED
    BY <1>2, <2>1, <2>2, <2>3
<1> HIDE DEF n
<1>4. <<g, n>> \notin accepted
  BY <1>2, <1>3
<1>5. TypeOK'
  <2>1. queue' \in [Stages -> Seq(1..MaxCallbacks)]
    BY <1>1, <1>2, <1>3
  <2>2. accepted' \subseteq Stages \X (1..MaxCallbacks)
    BY <1>1, <1>2, <1>3, SMTT(20)
  <2> QED
    BY <1>1, <2>1, <2>2 DEF LifeCycleInv, TypeOK
<1>6. Progress' /\ CallsBehind'
  BY <1>1 DEF LifeCycleInv, Progress, CallsBehind
<1>7. Numbered'
  <2>1. IsFiniteSet(accepted') /\ Cardinality(accepted') = n
    BY <1>1, <1>4, FS_AddElement, Zenon DEF LifeCycleInv, Numbered, n
  <2>2. \A c \in accepted' : c[2] <= n
    BY <1>1, <1>2, <1>3
  <2> QED
    BY <2>1, <2>2, Zenon DEF Numbered
<1>8. queue'[stage] # <<>> \/ queue[stage] = <<>>
  <2>1. CASE stage = g
    <3>1. queue[g] \in Seq(1..MaxCallbacks) /\ queue'[g] = Append(queue[g], n)
      BY <1>1, <1>3, Zenon
    <3>2. Len(queue'[g]) = Len(queue[g]) + 1 /\ Len(queue[g]) \in Nat
      BY <1>2, <3>1
    <3> QED
      BY <2>1, <3>2
  <2>2. CASE stage # g
    BY <1>1, <1>3, <2>2
  <2> QED
    BY <2>1, <2>2, Zenon
<1>9. CASE g # "shutdown"
  <2>1. waitingStop' = waitingStop
    BY <1>1, <1>3, <1>9, StageOrder DEF waitingStop
  <2>2. OnceEach'
    <3>1. Once(waitingStop, calls, accepted', stopping)
      <4>1. \A c \in accepted' : c[1] = "shutdown" => c \in accepted
        BY <1>1, <1>9
      <4>2. accepted \subseteq accepted'
        BY <1>1
      <4> QED
        BY <4>1, <4>2, Zenon DEF LifeCycleInv, OnceEach, Once
    <3>2. stopping' <=> stopping
      BY <1>1 DEF stopping
    <3> QED
      BY <1>1, <2>1, <3>1, <3>2, Zenon DEF OnceEach
  <2>3. Ends'
    BY <1>1, <1>8, <2>1 DEF LifeCycleInv, Ends
  <2> QED
    BY <1>5, <1>6, <1>7, <2>2, <2>3, SMTT(20) DEF LifeCycleInv
<1>10. CASE g = "shutdown"
  <2> DEFINE q == waitingStop
             p == waitingStop'
  <2>1. /\ q \in Seq(1..MaxCallbacks) /\ p = Append(q, n)
    BY <1>1, <1>3, <1>10, Zenon DEF waitingStop
  <2> HIDE DEF q, p
  <2>2. /\ Len(p) = Len(q) + 1 /\ Len(q) \in Nat /\ p[Len(q) + 1] = n
        /\ \A i \in 1..Len(q) : p[i] = q[i]
    BY <1>2, <2>1
  <2>3. state # "ReadyToStop"
    BY <1>1, <1>10, StageOrder, Ranks
  <2>4. Ends'
    BY <1>1, <1>8, <2>3 DEF LifeCycleInv, Ends
  <2>5. Once(q, calls, accepted, stopping)
    BY Zenon DEF LifeCycleInv, OnceEach, q
  <2>6. \A i \in 1..Len(p) : i \in 1..Len(q) \/ i = Len(q) + 1
    BY <2>2
  <2>7. \A i \in 1..Len(q) : q[i] # n
    BY <1>4, <1>10, <2>5, Zenon DEF Once
  <2>8. ~calledIn(calls, <<"shutdown", n>>)
    BY <1>4, <1>10, <2>5 DEF Once, calledIn
  <2>9. stopping => Len(q) # 0
    BY <1>3 DEF LifeCycleInv, Ends, stopping, waitingStop, q
  <2>10. Once(p, calls, accepted', stopping)
    <3>1. \A i, j \in 1..Len(p) : p[i] = p[j] => i = j
      BY <2>2, <2>5, <2>6, <2>7 DEF Once
    <3>2. \A i \in 1..Len(p) : <<"shutdown", p[i]>> \in accepted'
      BY <1>1, <1>10, <2>2, <2>5, <2>6, Zenon DEF Once
    <3>3. \A i \in 1..Len(p) : calledIn(calls, <<"shutdown", p[i]>>) <=> i = 1 /\ stopping
      BY <2>2, <2>5, <2>6, <2>8, <2>9, SMTT(20) DEF Once
    <3>4. \A c \in accepted' : c[1] = "shutdown" =>
            calledIn(calls, c) \/ \E i \in 1..Len(p) : p[i] = c[2]
      BY <1>1, <1>10, <2>2, <2>5 DEF Once
    <3>5. \A k \in 1..Len(calls) : calls[k][1] = "shutdown" => calls[k] \in accepted'
      BY <1>1, <2>5, Zenon DEF Once
    <3>6. \A k, l \in 1..Len(calls) : calls[k] = calls[l] /\ calls[k][1] = "shutdown" => k = l
      BY <2>5 DEF Once
    <3> QED
      BY <3>1, <3>2, <3>3, <3>4, <3>5, <3>6, Zenon DEF Once
  <2>11. stopping' <=> stopping
    BY <1>1 DEF stopping
  <2>12. OnceEach'
    BY <1>1, <2>10, <2>11, Zenon DEF OnceEach, p
  <2> QED
    BY <1>5, <1>6, <1>7, <2>4, <2>12, Zenon DEF LifeCycleInv
<1> QED
  BY <1>9, <1>10

\* The first of a sequence.
LEMMA HeadOf ==
  ASSUME NEW S, NEW q \in Seq(S), q # <<>>
  PROVE  Len(q) \in Nat /\ Len(q) >= 1 /\ 1 \in 1..Len(q) /\ Head(q) = q[1] /\ q[1] \in S
<1>1. Len(q) \in Nat /\ Len(q) >= 1 /\ Head(q) = q[1]
  OBVIOUS
<1>2. 1 \in 1..Len(q)
  BY <1>1, SMTT(20)
<1> QED
  BY <1>1, <1>2

\* The first of a queue.
LEMMA FrontFacts ==
  ASSUME LifeCycleInv, queue[stage] # <<>>
  PROVE  /\ stage \in Stages /\ queue[stage] \in Seq(1..MaxCallbacks)
         /\ Len(queue[stage]) \in Nat /\ Len(queue[stage]) >= 1
         /\ Head(queue[stage]) = queue[stage][1] /\ Head(queue[stage]) \in 1..MaxCallbacks
         /\ Tail(queue[stage]) \in Seq(1..MaxCallbacks)
         /\ Len(Tail(queue[stage])) = Len(queue[stage]) - 1
         /\ \A i \in 1..Len(Tail(queue[stage])) : Tail(queue[stage])[i] = queue[stage][i + 1]
<1>1. stage \in Stages /\ queue[stage] \in Seq(1..MaxCallbacks)
  BY DEF LifeCycleInv, TypeOK
<1> DEFINE q == queue[stage]
<1> HIDE DEF q
<1>2. q \in Seq(1..MaxCallbacks) /\ q # <<>>
  BY <1>1 DEF q
<1>3. Len(q) \in Nat /\ Len(q) >= 1 /\ Head(q) = q[1] /\ Head(q) \in 1..MaxCallbacks
  BY <1>2, HeadOf, Zenon
<1>4. Tail(q) \in Seq(1..MaxCallbacks) /\ Len(Tail(q)) = Len(q) - 1
  BY <1>2
<1>5. \A i \in 1..Len(Tail(q)) : Tail(q)[i] = q[i + 1]
  BY <1>2, <1>4
<1> QED
  BY <1>1, <1>3, <1>4, <1>5 DEF q

\* A callback for the shutdown is called when it is the first that waits.
LEMMA CallOnce ==
  ASSUME NEW q, NEW cs \in Seq(Stages \X (1..MaxCallbacks)), NEW registered,
         Once(q, cs, registered, FALSE),
         q \in Seq(1..MaxCallbacks), q # <<>>
  PROVE  Once(q, Append(cs, <<"shutdown", q[1]>>), registered, TRUE)
<1> DEFINE c == <<"shutdown", q[1]>>
           ds == Append(cs, c)
<1>1. Len(q) \in Nat /\ Len(q) >= 1 /\ 1 \in 1..Len(q) /\ q[1] \in 1..MaxCallbacks
  BY HeadOf, Zenon
<1>2. c \in Stages \X (1..MaxCallbacks) /\ c[1] = "shutdown"
  BY <1>1, StageOrder
<1>3. c \in registered /\ ~calledIn(cs, c)
  BY <1>1 DEF Once
<1>4. ds = Append(cs, c)
  OBVIOUS
<1>5. \A i \in 1..Len(q) : <<"shutdown", q[i]>> = c => i = 1
  BY <1>1 DEF Once
<1> HIDE DEF c, ds
<1>6. /\ Len(cs) \in Nat /\ Len(ds) = Len(cs) + 1 /\ ds[Len(cs) + 1] = c
      /\ \A k \in 1..Len(cs) : ds[k] = cs[k]
  BY <1>2, <1>4
<1>7. \A k \in 1..Len(ds) : k \in 1..Len(cs) \/ k = Len(cs) + 1
  BY <1>6
<1>8. \A d : calledIn(ds, d) <=> calledIn(cs, d) \/ d = c
  <2> TAKE d
  <2>1. calledIn(cs, d) => calledIn(ds, d)
    BY <1>6 DEF calledIn
  <2>2. d = c => calledIn(ds, d)
    BY <1>6 DEF calledIn
  <2>3. calledIn(ds, d) => calledIn(cs, d) \/ d = c
    BY <1>6, <1>7, Zenon DEF calledIn
  <2> QED
    BY <2>1, <2>2, <2>3
<1>9. \A i \in 1..Len(q) : calledIn(ds, <<"shutdown", q[i]>>) <=> i = 1
  BY <1>5, <1>8 DEF Once, c
<1>10. \A k, l \in 1..Len(ds) : ds[k] = ds[l] /\ ds[k][1] = "shutdown" => k = l
  <2>1. \A k \in 1..Len(cs) : cs[k] # c
    BY <1>3 DEF calledIn
  <2> QED
    BY <1>6, <1>7, <2>1, SMTT(20) DEF Once
<1>11. \A k \in 1..Len(ds) : ds[k][1] = "shutdown" => ds[k] \in registered
  BY <1>3, <1>6, <1>7, Zenon DEF Once
<1>12. \A d \in registered : d[1] = "shutdown" =>
         calledIn(ds, d) \/ \E i \in 1..Len(q) : q[i] = d[2]
  BY <1>8, Zenon DEF Once
<1>13. Once(q, ds, registered, TRUE)
  BY <1>9, <1>10, <1>11, <1>12 DEF Once
<1> QED
  BY <1>13, Zenon DEF ds, c

\* A callback of another stage is called.
LEMMA CallOther ==
  ASSUME NEW q, NEW cs \in Seq(Stages \X (1..MaxCallbacks)), NEW registered,
         Once(q, cs, registered, FALSE),
         NEW g \in Stages, g # "shutdown", NEW n \in 1..MaxCallbacks
  PROVE  Once(q, Append(cs, <<g, n>>), registered, FALSE)
<1> DEFINE c == <<g, n>>
           ds == Append(cs, c)
<1>1. c \in Stages \X (1..MaxCallbacks) /\ c[1] # "shutdown" /\ ds = Append(cs, c)
  OBVIOUS
<1> HIDE DEF c, ds
<1>2. /\ Len(cs) \in Nat /\ Len(ds) = Len(cs) + 1 /\ ds[Len(cs) + 1] = c
      /\ \A k \in 1..Len(cs) : ds[k] = cs[k]
  BY <1>1
<1>3. \A k \in 1..Len(ds) : k \in 1..Len(cs) \/ k = Len(cs) + 1
  BY <1>2
<1>4. \A d : d[1] = "shutdown" => (calledIn(ds, d) <=> calledIn(cs, d))
  <2> SUFFICES ASSUME NEW d, d[1] = "shutdown" PROVE calledIn(ds, d) <=> calledIn(cs, d)
    BY Zenon
  <2>1. calledIn(cs, d) => calledIn(ds, d)
    BY <1>2 DEF calledIn
  <2>2. calledIn(ds, d) => calledIn(cs, d)
    BY <1>1, <1>2, <1>3 DEF calledIn
  <2> QED
    BY <2>1, <2>2
<1>5. \A i \in 1..Len(q) : <<"shutdown", q[i]>>[1] = "shutdown"
  BY Zenon
<1>6. Once(q, ds, registered, FALSE)
  BY <1>1, <1>2, <1>3, <1>4, <1>5 DEF Once
<1> QED
  BY <1>6, Zenon DEF ds, c

\* The callback at the front returns.
LEMMA ReturnOnce ==
  ASSUME NEW q, NEW cs, NEW registered \in SUBSET (Stages \X (1..MaxCallbacks)),
         Once(q, cs, registered, TRUE), q \in Seq(1..MaxCallbacks), q # <<>>
  PROVE  Once(Tail(q), cs, registered, FALSE)
<1> DEFINE p == Tail(q)
<1>1. /\ Len(q) \in Nat /\ Len(q) >= 1 /\ Len(p) = Len(q) - 1 /\ 1 \in 1..Len(q)
      /\ \A i \in 1..Len(p) : p[i] = q[i + 1]
  OBVIOUS
<1> HIDE DEF p
<1>2. \A i \in 1..Len(p) : i + 1 \in 1..Len(q) /\ i + 1 # 1 /\ i \in Nat
  BY <1>1
<1>3. \A i, j \in 1..Len(p) : p[i] = p[j] => i = j
  <2> SUFFICES ASSUME NEW i \in 1..Len(p), NEW j \in 1..Len(p), p[i] = p[j] PROVE i = j
    OBVIOUS
  <2>1. q[i + 1] = q[j + 1]
    BY <1>1
  <2>2. i + 1 = j + 1
    BY <1>2, <2>1, Zenon DEF Once
  <2> QED
    BY <1>2, <2>2
<1>4. \A i \in 1..Len(p) : /\ <<"shutdown", p[i]>> \in registered
                           /\ ~calledIn(cs, <<"shutdown", p[i]>>)
  BY <1>1, <1>2 DEF Once
<1>5. \A c \in registered : c[1] = "shutdown" =>
        calledIn(cs, c) \/ \E i \in 1..Len(p) : p[i] = c[2]
  <2> SUFFICES ASSUME NEW c \in registered, c[1] = "shutdown", ~calledIn(cs, c)
               PROVE  \E i \in 1..Len(p) : p[i] = c[2]
    BY Zenon
  <2>1. PICK i \in 1..Len(q) : q[i] = c[2]
    BY Zenon DEF Once
  <2>2. c = <<"shutdown", q[i]>>
    BY <2>1
  <2>3. i # 1
    BY <2>2, Zenon DEF Once
  <2>4. i - 1 \in 1..Len(p) /\ (i - 1) + 1 = i
    BY <1>1, <2>3
  <2>5. p[i - 1] = q[i]
    BY <1>1, <2>4, Zenon
  <2> QED
    BY <2>1, <2>4, <2>5, Zenon
<1>6. Once(p, cs, registered, FALSE)
  BY <1>3, <1>4, <1>5 DEF Once
<1> QED
  BY <1>6, Zenon DEF p

\* The callback at the front is called, or dropped when the stage is over.
LEMMA CallStep ==
  ASSUME LifeCycleInv, callFront
  PROVE  LifeCycleInv'
<1> DEFINE h == Head(queue[stage])
<1>1. /\ pc = "loop" /\ queue[stage] # <<>>
      /\ state' = state /\ stage' = stage /\ accepted' = accepted /\ failed' = failed
      /\ UNCHANGED <<cvMutex, req, signals>>
  BY DEF callFront
<1>2. /\ stage \in Stages /\ h \in 1..MaxCallbacks /\ h = queue[stage][1]
      /\ queue \in [Stages -> Seq(1..MaxCallbacks)]
      /\ queue[stage] \in Seq(1..MaxCallbacks) /\ Tail(queue[stage]) \in Seq(1..MaxCallbacks)
      /\ calls \in Seq(Stages \X (1..MaxCallbacks))
  BY <1>1, FrontFacts DEF LifeCycleInv, TypeOK
<1>3. Once(waitingStop, calls, accepted, FALSE)
  <2>1. stopping = FALSE
    BY <1>1, Zenon DEF stopping
  <2> QED
    BY <2>1, Zenon DEF LifeCycleInv, OnceEach
<1> HIDE DEF h
<1>4. CASE isCalled(stage)
  <2>1. calls' = Append(calls, <<stage, h>>) /\ pc' = "called" /\ queue' = queue
    BY <1>4 DEF callFront, h
  <2>2. <<stage, h>> \in Stages \X (1..MaxCallbacks) /\ <<stage, h>>[1] = stage
    BY <1>2
  <2>3. /\ calls' \in Seq(Stages \X (1..MaxCallbacks)) /\ Len(calls') = Len(calls) + 1
        /\ Len(calls) \in Nat
        /\ calls'[Len(calls) + 1] = <<stage, h>>
        /\ \A k \in 1..Len(calls) : calls'[k] = calls[k]
    <3> DEFINE c == <<stage, h>>
    <3> HIDE DEF c
    <3>1. calls' = Append(calls, c) /\ c \in Stages \X (1..MaxCallbacks)
      BY <2>1, <2>2, Zenon DEF c
    <3> QED
      BY <1>2, <3>1 DEF c
  <2>4. TypeOK'
    BY <1>1, <2>1, <2>3 DEF LifeCycleInv, TypeOK
  <2>5. Progress'
    BY <1>1, <2>1, Zenon DEF LifeCycleInv, Progress
  <2>6. CallsBehind'
    <3> SUFFICES ASSUME NEW k \in 1..Len(calls')
                 PROVE  rank(during(calls'[k][1])) <= rank(during(stage))
      BY <1>1, Zenon DEF CallsBehind
    <3>1. CASE k \in 1..Len(calls)
      <4>1. calls'[k] = calls[k]
        BY <2>3, <3>1
      <4> QED
        BY <3>1, <4>1, Zenon DEF LifeCycleInv, CallsBehind
    <3>2. CASE k = Len(calls) + 1
      <4>1. calls'[k][1] = stage
        BY <2>2, <2>3, <3>2, Zenon
      <4>2. rank(during(stage)) \in Nat
        BY <1>2, StageOrder
      <4>3. rank(during(stage)) <= rank(during(stage))
        BY <4>2
      <4> QED
        BY <4>1, <4>3, Zenon
    <3> QED
      BY <2>3, <3>1, <3>2
  <2>7. Numbered' /\ Ends'
    BY <1>1, <2>1 DEF LifeCycleInv, Numbered, Ends
  <2>8. OnceEach'
    <3>1. CASE stage = "shutdown"
      <4>1. waitingStop' = waitingStop /\ h = waitingStop[1] /\ waitingStop # <<>>
            /\ waitingStop \in Seq(1..MaxCallbacks)
        BY <1>1, <1>2, <2>1, <3>1 DEF waitingStop
      <4>2. Once(waitingStop, calls', accepted, TRUE)
        BY <1>2, <1>3, <2>1, <3>1, <4>1, CallOnce, Zenon
      <4>3. stopping' = TRUE
        BY <1>1, <2>1, <3>1 DEF stopping
      <4> QED
        BY <1>1, <4>1, <4>2, <4>3, Zenon DEF OnceEach
    <3>2. CASE stage # "shutdown"
      <4>1. waitingStop' = waitingStop
        BY <2>1 DEF waitingStop
      <4>2. Once(waitingStop, calls', accepted, FALSE)
        BY <1>2, <1>3, <2>1, <3>2, CallOther, Zenon
      <4>3. stopping' = FALSE
        BY <1>1, <2>1, <3>2 DEF stopping
      <4> QED
        BY <1>1, <4>1, <4>2, <4>3, Zenon DEF OnceEach
    <3> QED
      BY <3>1, <3>2
  <2> QED
    BY <2>4, <2>5, <2>6, <2>7, <2>8 DEF LifeCycleInv
<1>5. CASE ~isCalled(stage)
  <2>1. calls' = calls /\ pc' = pc /\ queue' = [queue EXCEPT ![stage] = Tail(queue[stage])]
    BY <1>5 DEF callFront
  <2>2. stage # "shutdown"
    BY <1>5, Zenon DEF isCalled
  <2>3. TypeOK'
    BY <1>1, <1>2, <2>1, Zenon DEF LifeCycleInv, TypeOK
  <2>4. Progress' /\ CallsBehind' /\ Numbered'
    BY <1>1, <2>1 DEF LifeCycleInv, Progress, CallsBehind, Numbered
  <2>5. waitingStop' = waitingStop
    BY <1>2, <2>1, <2>2, StageOrder DEF waitingStop
  <2>6. Ends'
    BY <1>1, <2>1 DEF Ends
  <2>7. stopping' <=> stopping
    BY <1>1, <2>1 DEF stopping
  <2>8. OnceEach'
    BY <1>1, <2>1, <2>5, <2>7, QuietStep DEF LifeCycleInv
  <2> QED
    BY <2>3, <2>4, <2>6, <2>8 DEF LifeCycleInv
<1> QED
  BY <1>4, <1>5

\* It returns; a failure ends the stage.
LEMMA ReturnStep ==
  ASSUME LifeCycleInv, NEW ok \in BOOLEAN, returnFront(ok)
  PROVE  LifeCycleInv'
<1>1. /\ pc = "called" /\ pc' = "loop" /\ (stage = "shutdown" => ok)
      /\ state' = (IF ~ok /\ state = during(stage) THEN "ShuttingDown" ELSE state)
      /\ failed' = (IF ok THEN failed ELSE failed \cup {stage})
      /\ queue' = [queue EXCEPT ![stage] = Tail(queue[stage])]
      /\ stage' = stage /\ accepted' = accepted /\ calls' = calls
      /\ UNCHANGED <<cvMutex, req, signals>>
  BY DEF returnFront
<1>2. queue[stage] # <<>>
  BY <1>1, Zenon DEF LifeCycleInv, Ends
<1>3. /\ stage \in Stages /\ queue \in [Stages -> Seq(1..MaxCallbacks)]
      /\ queue[stage] \in Seq(1..MaxCallbacks) /\ Tail(queue[stage]) \in Seq(1..MaxCallbacks)
  BY <1>2, FrontFacts, Zenon DEF LifeCycleInv, TypeOK
<1>4. TypeOK'
  <2>1. state' \in Range(States)
    <3>1. "ShuttingDown" \in Range(States)
      BY DEF States, Range
    <3> QED
      BY <1>1, <3>1 DEF LifeCycleInv, TypeOK
  <2>2. queue' \in [Stages -> Seq(1..MaxCallbacks)] /\ failed' \subseteq Stages
    BY <1>1, <1>3, Zenon DEF LifeCycleInv, TypeOK
  <2> QED
    BY <1>1, <2>1, <2>2, Zenon DEF LifeCycleInv, TypeOK
<1>5. Progress'
  BY <1>1, <1>3, StageOrder, StageFacts, Zenon DEF LifeCycleInv, Progress
<1>6. CallsBehind' /\ Numbered' /\ Ends'
  BY <1>1, Zenon DEF LifeCycleInv, CallsBehind, Numbered, Ends
<1>7. OnceEach'
  <2>1. stopping' = FALSE
    BY <1>1 DEF stopping
  <2>2. CASE stage = "shutdown"
    <3>1. waitingStop' = Tail(waitingStop) /\ waitingStop # <<>>
          /\ waitingStop \in Seq(1..MaxCallbacks)
      BY <1>1, <1>2, <1>3, <2>2 DEF waitingStop
    <3>2. stopping = TRUE
      BY <1>1, <2>2 DEF stopping
    <3>3. Once(waitingStop, calls, accepted, TRUE)
      BY <3>2, Zenon DEF LifeCycleInv, OnceEach
    <3>4. accepted \in SUBSET (Stages \X (1..MaxCallbacks))
      BY DEF LifeCycleInv, TypeOK
    <3>5. Once(waitingStop', calls, accepted, FALSE)
      BY <3>1, <3>3, <3>4, ReturnOnce, Zenon
    <3> QED
      BY <1>1, <2>1, <3>5, Zenon DEF OnceEach
  <2>3. CASE stage # "shutdown"
    <3>1. waitingStop' = waitingStop
      BY <1>1, <1>3, <2>3, StageOrder DEF waitingStop
    <3>2. stopping = FALSE
      BY <2>3, Zenon DEF stopping
    <3> QED
      BY <1>1, <2>1, <3>1, <3>2, Zenon DEF LifeCycleInv, OnceEach
  <2> QED
    BY <2>2, <2>3
<1> QED
  BY <1>4, <1>5, <1>6, <1>7 DEF LifeCycleInv

LEMMA ManagerStep == LifeCycleInv /\ [Next]_vars => LifeCycleInv'
<1> SUFFICES ASSUME LifeCycleInv, [Next]_vars PROVE LifeCycleInv'
  OBVIOUS
<1>1. CASE UNCHANGED vars
  BY <1>1, Zenon DEF vars, LifeCycleInv, TypeOK, Progress, CallsBehind, Numbered, OnceEach,
     Ends, waitingStop, stopping
<1> QED
  BY <1>1, AskerStep, StageStep, RegisterStep, CallStep, ReturnStep, Zenon DEF Next, run

\* What a step calls comes in order, and what is not called before run() returns was not
\* accepted for the shutdown.
LEMMA StepsInOrder ==
  ASSUME LifeCycleInv, Next
  PROVE  /\ \A g \in Stages, c \in 1..MaxCallbacks : calls' = Append(calls, <<g, c>>) =>
              /\ \A i \in 1..Len(calls) : rank(during(calls[i][1])) <= rank(during(g))
              /\ g # "shutdown" => failed = {}
         /\ pc = "final" /\ pc' = "returned" =>
              \A c \in accepted : c[1] = "shutdown" =>
                Cardinality({i \in 1..Len(calls) : calls[i] = c}) = 1
<1>1. ASSUME NEW g \in Stages, NEW c \in 1..MaxCallbacks, calls' = Append(calls, <<g, c>>)
      PROVE  /\ \A i \in 1..Len(calls) : rank(during(calls[i][1])) <= rank(during(g))
             /\ g # "shutdown" => failed = {}
  <2> DEFINE e == <<g, c>>
  <2>1. calls \in Seq(Stages \X (1..MaxCallbacks)) /\ e \in Stages \X (1..MaxCallbacks)
    BY DEF LifeCycleInv, TypeOK
  <2>2. e[1] = g /\ calls' = Append(calls, e)
    BY <1>1, Zenon
  <2> HIDE DEF e
  <2>3. Len(calls') = Len(calls) + 1 /\ Len(calls) \in Nat /\ calls'[Len(calls) + 1] = e
    BY <2>1, <2>2
  <2>4. calls' # calls
    BY <2>3
  <2>5. callFront
    BY <2>4, Zenon DEF Next, run, register, start, enterStage, returnFront, leaveStage,
       testWorks, lockCv, waitCv, final, requestBegin, signal, shutdown, requestLoad,
       requestLock, requestStore
  <2>6. /\ pc = "loop" /\ isCalled(stage) /\ queue[stage] # <<>>
        /\ calls' = Append(calls, <<stage, Head(queue[stage])>>)
    BY <2>4, <2>5, Zenon DEF callFront
  <2>7. g = stage
    <3> DEFINE d == <<stage, Head(queue[stage])>>
    <3>1. d \in Stages \X (1..MaxCallbacks) /\ d[1] = stage
      BY <2>6, FrontFacts, Zenon
    <3>2. calls' = Append(calls, d)
      BY <2>6, Zenon
    <3> HIDE DEF d
    <3>3. calls'[Len(calls) + 1] = d
      BY <2>1, <3>1, <3>2
    <3> QED
      BY <2>2, <2>3, <3>1, <3>3, Zenon
  <2>8. stage # "shutdown" => failed = {}
    BY <2>6, StageFacts, StageOrder, Zenon DEF LifeCycleInv, TypeOK, Progress, isCalled
  <2> QED
    BY <2>7, <2>8, Zenon DEF LifeCycleInv, CallsBehind
<1>2. ASSUME pc = "final", pc' = "returned", NEW c \in accepted, c[1] = "shutdown"
      PROVE  Cardinality({i \in 1..Len(calls) : calls[i] = c}) = 1
  <2>1. state = "ReadyToStop"
    BY <1>2, StageFacts, Zenon DEF Next, run, register, start, enterStage, callFront,
       returnFront, leaveStage, testWorks, lockCv, waitCv, final, requestBegin, signal,
       shutdown, requestLoad, requestLock, requestStore, wakeMain
  <2>2. waitingStop = <<>>
    BY <1>2, <2>1 DEF LifeCycleInv, Ends
  <2>3. Len(waitingStop) = 0
    BY <2>2
  <2>4. Once(waitingStop, calls, accepted, stopping)
    BY Zenon DEF LifeCycleInv, OnceEach
  <2>5. calledIn(calls, c)
    BY <1>2, <2>3, <2>4 DEF Once
  <2>6. PICK k \in 1..Len(calls) : calls[k] = c
    BY <2>5 DEF calledIn
  <2>7. {i \in 1..Len(calls) : calls[i] = c} = {k}
    BY <1>2, <2>4, <2>6, Zenon DEF Once
  <2> QED
    BY <2>7, FS_Singleton, Zenon
<1> QED
  BY <1>1, <1>2, Zenon

\* For any number of callbacks and of threads that ask for the shutdown at any time: the
\* stages come in order, none after a failure but the shutdown, and no callback that was
\* accepted for the shutdown is forgotten (StateManagerImpl::run(), doPrepare(),
\* doLaunch(), doShutdown(), atShutdown()).
THEOREM AllStoppedInOrder == Spec => StopsInOrder
<1>1. LifeCycleInv /\ [Next]_vars =>
        [\A g \in Stages, c \in 1..MaxCallbacks :
           calls' = Append(calls, <<g, c>>) =>
             /\ \A i \in 1..Len(calls) :
                  rank(during(calls[i][1])) <= rank(during(g))
             /\ g # "shutdown" => failed = {}]_vars
  BY StepsInOrder, Zenon
<1>2. LifeCycleInv /\ [Next]_vars =>
        [pc = "final" /\ pc' = "returned" =>
           \A c \in accepted : c[1] = "shutdown" =>
             Cardinality({i \in 1..Len(calls) : calls[i] = c}) = 1]_vars
  BY StepsInOrder, Zenon
<1> QED
  BY <1>1, <1>2, ManagerInitial, ManagerStep, PTL DEF Spec, StopsInOrder, StagesInOrder,
     AllStopped

------------------------------------------------------------------------------
\* The values of the application's own variables.
PartsTyped ==
  /\ enabled \in BOOLEAN /\ told \in BOOLEAN /\ watchdogStopped \in BOOLEAN
  /\ app \in {"made", "thread", "register", "run", "join", "returned", "terminated"}
  /\ server \in {"made", "prepared", "failed", "running", "ended"}
  /\ watchdog \in {"none", "running", "ended"}

\* Until the application calls run() of the state manager nothing is called.
NotYet ==
  /\ app = "made" => queue = [g \in Stages |-> <<>>] /\ accepted = {}
  /\ app \in {"made", "thread", "register"} => pc = "new" /\ calls = <<>> /\ server = "made"

\* The exposer's callbacks: prepare() is pending or done, or a shutdown came in between,
\* and start() is pending only after a prepare() that succeeded, or it will be dropped.
ExposerInTurn ==
  /\ ~enabled => server = "made"
  /\ enabled /\ app # "made" =>
       /\ stage = "prepare" =>
            /\ queue["launch"] = <<2>>
            /\ \/ queue["prepare"] = <<1>> /\ server = "made"
               \/ queue["prepare"] = <<>> /\ (server = "prepared" \/ state = "ShuttingDown")
       /\ stage = "launch" =>
            \/ queue["launch"] = <<>>
            \/ /\ queue["launch"] = <<2>>
               /\ server = "prepared" \/ (state = "ShuttingDown" /\ pc # "called")

stopOfExposer == <<"shutdown", 3>>
exposerStops == stopping /\ waitingStop[1] = 3

\* Its stop() is accepted, is called before run() returns, tells the thread to end and
\* waits for it.
ExposerStopped ==
  enabled /\ app # "made" =>
    /\ stopOfExposer \in accepted
    /\ pc = "returned" => calledIn(calls, stopOfExposer)
    /\ calledIn(calls, stopOfExposer) => told
    /\ calledIn(calls, stopOfExposer) /\ ~exposerStops => server # "running"

\* The end of run().
Joined ==
  /\ app \in {"join", "returned"} => pc = "returned"
  /\ app = "returned" => watchdog = "ended"

AppParts == PartsTyped /\ NotYet /\ ExposerInTurn /\ ExposerStopped /\ Joined
AppIInv == LifeCycleInv /\ AppParts

LEMMA AppInitial == AppInit => AppIInv
<1> SUFFICES ASSUME AppInit PROVE AppIInv
  OBVIOUS
<1>1. LifeCycleInv
  BY ManagerInitial, Zenon DEF AppInit
<1>2. AppParts
  BY Zenon DEF AppInit, Init, AppParts, PartsTyped, NotYet, ExposerInTurn, ExposerStopped,
     Joined
<1> QED
  BY <1>1, <1>2 DEF AppIInv

\* The queues as a record.
LEMMA ThreeQueues ==
  ASSUME NEW S, NEW a \in S, NEW b \in S, NEW c \in S
  PROVE  [prepare |-> a, launch |-> b, shutdown |-> c]
           \in [{"prepare", "launch", "shutdown"} -> S]
BY SMT

\* When the exposer registers nothing has happened yet.
LEMMA ControlLife ==
  ASSUME AppIInv, takeControl
  PROVE  LifeCycleInv'
<1>1. /\ pc = "new" /\ calls = <<>> /\ queue = [g \in Stages |-> <<>>] /\ accepted = {}
  BY Zenon DEF AppIInv, AppParts, NotYet, takeControl
<1>2. /\ state' = state /\ pc' = pc /\ stage' = stage /\ cvMutex' = cvMutex /\ req' = req
      /\ signals' = signals /\ calls' = calls /\ failed' = failed
  BY DEF takeControl
<1>3. CASE ~enabled
  <2>1. queue' = queue /\ accepted' = accepted
    BY <1>3, Zenon DEF takeControl
  <2>2. UNCHANGED vars
    BY <1>2, <2>1, Zenon DEF vars
  <2> QED
    BY <2>2, ManagerStep, Zenon DEF AppIInv
<1>4. CASE enabled
  <2>1. /\ queue' = [prepare |-> <<1>>, launch |-> <<2>>, shutdown |-> <<3>>]
        /\ accepted' = {<<"prepare", 1>>, <<"launch", 2>>, <<"shutdown", 3>>}
    BY <1>4 DEF takeControl
  <2>2. 1 \in 1..MaxCallbacks /\ 2 \in 1..MaxCallbacks /\ 3 \in 1..MaxCallbacks
    BY ManagerAssumption, ApplicationAssumption DEF ManagerAssumption, ApplicationAssumption
  <2>3. TypeOK'
    <3>1. queue' \in [Stages -> Seq(1..MaxCallbacks)]
      <4>1. /\ <<1>> \in Seq(1..MaxCallbacks) /\ <<2>> \in Seq(1..MaxCallbacks)
            /\ <<3>> \in Seq(1..MaxCallbacks)
        BY <2>2
      <4>2. Stages = {"prepare", "launch", "shutdown"}
        BY StageOrder, Zenon
      <4> QED
        BY <2>1, <4>1, <4>2, ThreeQueues, Zenon
    <3>2. accepted' \subseteq Stages \X (1..MaxCallbacks)
      BY <2>1, <2>2, StageOrder
    <3> QED
      BY <1>2, <3>1, <3>2, Zenon DEF AppIInv, LifeCycleInv, TypeOK
  <2>4. Progress'
    BY <1>2, Zenon DEF AppIInv, LifeCycleInv, Progress
  <2>5. CallsBehind'
    BY <1>2, Zenon DEF AppIInv, LifeCycleInv, CallsBehind
  <2>6. Numbered'
    <3> DEFINE A == {<<"prepare", 1>>}
               B == A \cup {<<"launch", 2>>}
               C == B \cup {<<"shutdown", 3>>}
    <3>1. IsFiniteSet(A) /\ Cardinality(A) = 1
      BY FS_Singleton, Zenon
    <3>2. <<"launch", 2>> \notin A /\ <<"shutdown", 3>> \notin B
      OBVIOUS
    <3> HIDE DEF A
    <3>3. IsFiniteSet(B) /\ Cardinality(B) = 2
      BY <3>1, <3>2, FS_AddElement
    <3> HIDE DEF B
    <3>4. IsFiniteSet(C) /\ Cardinality(C) = 3
      BY <3>2, <3>3, FS_AddElement
    <3>5. accepted' = C
      BY <2>1, Zenon DEF A, B
    <3>6. \A c \in accepted' : c[2] <= 3
      BY <2>1
    <3> HIDE DEF C
    <3> QED
      BY <3>4, <3>5, <3>6 DEF Numbered
  <2>7. OnceEach'
    <3>1. waitingStop' = <<3>> /\ calls' = <<>> /\ stopping' = FALSE
      BY <1>1, <1>2, <2>1, Zenon DEF waitingStop, stopping
    <3>2. Once(<<3>>, <<>>, accepted', FALSE)
      <4>1. Len(<<3>>) = 1 /\ <<3>>[1] = 3 /\ Len(<<>>) = 0
        OBVIOUS
      <4>2. \A i \in 1..1 : i = 1
        OBVIOUS
      <4>3. ~ \E k \in 1..0 : TRUE
        OBVIOUS
      <4>4. /\ <<"shutdown", 3>> \in accepted'
            /\ \A c \in accepted' : c[1] = "shutdown" => c[2] = 3
        BY <2>1
      <4>5. \A c : ~calledIn(<<>>, c)
        BY <4>1, <4>3, Zenon DEF calledIn
      <4>6. 1 \in 1..1
        OBVIOUS
      <4> QED
        BY <4>1, <4>2, <4>3, <4>4, <4>5, <4>6, Zenon DEF Once
    <3> QED
      BY <3>1, <3>2, Zenon DEF OnceEach
  <2>8. Ends'
    BY <1>1, <1>2 DEF Ends
  <2> QED
    BY <2>3, <2>4, <2>5, <2>6, <2>7, <2>8, Zenon DEF LifeCycleInv
<1> QED
  BY <1>3, <1>4, Zenon DEF AppIInv, AppParts, PartsTyped

\* Every other step is one of the state manager, or none of its.
LEMMA AppSteps ==
  ASSUME AppNext
  PROVE  takeControl \/ Next \/ UNCHANGED vars
<1>1. CASE main
  <2>1. CASE manage
    <3>1. CASE start \/ enterStage \/ leaveStage \/ testWorks \/ lockCv \/ waitCv \/ final
      BY <1>1, <3>1, Zenon DEF main, Next, run
    <3>2. CASE call
      BY <1>1, <3>2, Zenon DEF main, call, Next, run
    <3>3. ASSUME NEW ok \in BOOLEAN, return(ok)
          PROVE  Next
      <4>1. returnFront(ok)
        BY <3>3 DEF return
      <4>2. ok = TRUE \/ ok = FALSE
        OBVIOUS
      <4>3. returnFront(TRUE) \/ returnFront(FALSE)
        BY <4>1, <4>2, Zenon
      <4> QED
        BY <1>1, <4>3, Zenon DEF main, Next, run
    <3> QED
      BY <2>1, <3>1, <3>2, <3>3, Zenon DEF manage
  <2>2. CASE atShutdown
    <3>1. "shutdown" \in Stages
      BY StageOrder
    <3> QED
      BY <2>2, <3>1, Zenon DEF atShutdown, Next
  <2>3. CASE startThread \/ stopWatchdog \/ join \/ throws
    BY <2>3, Zenon DEF startThread, stopWatchdog, join, throws, vars
  <2> QED
    BY <1>1, <2>1, <2>2, <2>3, Zenon DEF main
<1>2. CASE serverEnds \/ watchdogEnds
  BY <1>2 DEF serverEnds, watchdogEnds, vars
<1>3. CASE asks \/ \E t \in Askers : answers(t)
  BY <1>3, Zenon DEF asks, answers, Next
<1> QED
  BY <1>1, <1>2, <1>3, Zenon DEF AppNext

\* The application's own steps: nothing of the state manager changes.
LEMMA OwnSteps ==
  ASSUME AppIInv,
         startThread \/ stopWatchdog \/ join \/ throws \/ serverEnds \/ watchdogEnds
  PROVE  AppParts'
<1>1. /\ state' = state /\ queue' = queue /\ pc' = pc /\ stage' = stage
      /\ accepted' = accepted /\ calls' = calls /\ enabled' = enabled /\ told' = told
  BY Zenon DEF startThread, stopWatchdog, join, throws, serverEnds, watchdogEnds, vars
<1>2. PartsTyped'
  BY Zenon DEF AppIInv, AppParts, PartsTyped, startThread, stopWatchdog, join, throws,
     serverEnds, watchdogEnds
<1>3. NotYet' /\ Joined'
  BY <1>1, Zenon DEF AppIInv, AppParts, NotYet, Joined, PartsTyped, startThread, stopWatchdog,
     join, throws, serverEnds, watchdogEnds
<1>4. /\ app = "made" <=> app' = "made"
      /\ server' = server \/ (server = "running" /\ server' = "ended")
  BY Zenon DEF startThread, stopWatchdog, join, throws, serverEnds, watchdogEnds
<1>5. ExposerInTurn'
  BY <1>1, <1>4, Zenon DEF AppIInv, AppParts, ExposerInTurn
<1>6. ExposerStopped'
  <2>1. exposerStops' <=> exposerStops
    BY <1>1, Zenon DEF exposerStops, stopping, waitingStop
  <2> QED
    BY <1>1, <1>4, <2>1, Zenon DEF AppIInv, AppParts, ExposerStopped, calledIn, stopOfExposer
<1> QED
  BY <1>2, <1>3, <1>5, <1>6, Zenon DEF AppParts

\* The exposer registers.
LEMMA ControlParts ==
  ASSUME AppIInv, takeControl
  PROVE  AppParts'
<1>1. /\ pc = "new" /\ calls = <<>> /\ server = "made" /\ stage = "prepare"
      /\ pc' = pc /\ calls' = calls /\ server' = server /\ stage' = stage
      /\ app' = "thread" /\ enabled' = enabled /\ told' = told /\ watchdog' = watchdog
      /\ watchdogStopped' = watchdogStopped
  BY Zenon DEF AppIInv, AppParts, NotYet, takeControl, LifeCycleInv, Progress
<1>2. PartsTyped' /\ NotYet' /\ Joined'
  BY <1>1, Zenon DEF AppIInv, AppParts, PartsTyped, NotYet, Joined
<1>3. enabled => /\ queue'["prepare"] = <<1>> /\ queue'["launch"] = <<2>>
                 /\ stopOfExposer \in accepted'
  BY DEF takeControl, stopOfExposer
<1>4. ExposerInTurn'
  BY <1>1, <1>3, Zenon DEF ExposerInTurn
<1>5. ~calledIn(calls', stopOfExposer)
  BY <1>1 DEF calledIn
<1>6. ExposerStopped'
  BY <1>1, <1>3, <1>5, Zenon DEF ExposerStopped, stopOfExposer
<1> QED
  BY <1>2, <1>4, <1>6, Zenon DEF AppParts

\* The callback of the watchdog is registered.
LEMMA AtShutdownParts ==
  ASSUME AppIInv, atShutdown
  PROVE  AppParts'
<1>1. /\ app = "register" /\ pc = "new" /\ calls = <<>> /\ server = "made"
      /\ app' = "run" /\ stage = "prepare"
  BY Zenon DEF AppIInv, AppParts, NotYet, atShutdown, LifeCycleInv, Progress
<1>2. /\ state' = state /\ pc' = pc /\ stage' = stage /\ calls' = calls /\ enabled' = enabled
      /\ server' = server /\ told' = told /\ watchdog' = watchdog
      /\ watchdogStopped' = watchdogStopped
      /\ accepted \subseteq accepted'
      /\ queue' = [queue EXCEPT !["shutdown"] = Append(@, Cardinality(accepted) + 1)]
  BY Zenon DEF atShutdown, register
<1>3. PartsTyped' /\ NotYet' /\ Joined'
  BY <1>1, <1>2, Zenon DEF AppIInv, AppParts, PartsTyped, NotYet, Joined
<1>4. queue'["prepare"] = queue["prepare"] /\ queue'["launch"] = queue["launch"]
  BY <1>2, StageOrder, Zenon DEF AppIInv, LifeCycleInv, TypeOK
<1>5. ExposerInTurn'
  BY <1>1, <1>2, <1>4, Zenon DEF AppIInv, AppParts, ExposerInTurn
<1>6. ~calledIn(calls', stopOfExposer)
  BY <1>1, <1>2 DEF calledIn
<1>7. ExposerStopped'
  <2>1. enabled => stopOfExposer \in accepted'
    BY <1>1, <1>2, Zenon DEF AppIInv, AppParts, ExposerStopped
  <2>2. pc' # "returned"
    BY <1>1, <1>2, Zenon
  <2> QED
    BY <1>2, <1>6, <2>1, <2>2, Zenon DEF ExposerStopped, stopOfExposer
<1> QED
  BY <1>3, <1>5, <1>7 DEF AppParts

\* Somebody asks for the shutdown.
LEMMA AskingParts ==
  ASSUME AppIInv, asks \/ \E t \in Askers : answers(t)
  PROVE  AppParts'
<1>1. /\ queue' = queue /\ stage' = stage /\ accepted' = accepted /\ calls' = calls
      /\ pc' = pc \/ (pc = "asleep" /\ pc' = "lock")
      /\ state' = state \/ state' = "ShuttingDown"
  BY Zenon DEF asks, answers, requestBegin, signal, shutdown, requestLoad, requestLock,
     requestStore, wakeMain
<1>2. /\ enabled' = enabled /\ app' = app /\ server' = server /\ told' = told
      /\ watchdog' = watchdog /\ watchdogStopped' = watchdogStopped
  BY Zenon DEF asks, answers, parts
<1>3. PartsTyped' /\ NotYet' /\ Joined'
  BY <1>1, <1>2, Zenon DEF AppIInv, AppParts, PartsTyped, NotYet, Joined
<1>4. ExposerInTurn'
  BY <1>1, <1>2, Zenon DEF AppIInv, AppParts, ExposerInTurn
<1>5. ExposerStopped'
  <2>1. exposerStops' <=> exposerStops
    BY <1>1, Zenon DEF exposerStops, stopping, waitingStop
  <2>2. pc' = "returned" => pc = "returned"
    BY <1>1, Zenon
  <2> QED
    BY <1>1, <1>2, <2>1, <2>2, Zenon DEF AppIInv, AppParts, ExposerStopped, stopOfExposer
<1> QED
  BY <1>3, <1>4, <1>5, Zenon DEF AppParts

\* run() goes from stage to stage.
LEMMA StageParts ==
  ASSUME AppIInv, app = "run", UNCHANGED parts,
         start \/ enterStage \/ leaveStage \/ testWorks \/ lockCv \/ waitCv \/ final
  PROVE  AppParts'
<1>1. /\ enabled' = enabled /\ app' = app /\ server' = server /\ told' = told
      /\ watchdog' = watchdog /\ watchdogStopped' = watchdogStopped
  BY Zenon DEF parts
<1>2. accepted' = accepted /\ calls' = calls
  BY Zenon DEF start, enterStage, leaveStage, testWorks, lockCv, waitCv, final
<1>3. pc # "called" /\ pc' # "called"
  BY StageFacts, StageOrder, Zenon DEF AppIInv, LifeCycleInv, TypeOK, start, enterStage,
     leaveStage, testWorks, lockCv, waitCv, final
<1>4. PartsTyped' /\ NotYet' /\ Joined'
  BY <1>1, Zenon DEF AppIInv, AppParts, PartsTyped, NotYet, Joined
<1>5. queue \in [Stages -> Seq(1..MaxCallbacks)] /\ stage \in {"prepare", "launch", "shutdown"}
  BY StageOrder, Zenon DEF AppIInv, LifeCycleInv, TypeOK
<1>6. ExposerInTurn'
  <2>1. CASE start
    BY <1>1, <2>1, Zenon DEF AppIInv, AppParts, ExposerInTurn, LifeCycleInv, Progress, start
  <2>2. CASE enterStage
    <3>1. /\ stage' = stage
          /\ stage # "shutdown" => /\ queue'["prepare"] = queue["prepare"]
                                   /\ queue'["launch"] = queue["launch"]
      BY <1>5, <2>2, StageOrder, Zenon DEF enterStage, kept
    <3>2. state = "ShuttingDown" => state' = "ShuttingDown"
      BY <1>5, <2>2, StageFacts, Zenon DEF enterStage
    <3> QED
      BY <1>1, <1>3, <1>5, <3>1, <3>2, Zenon DEF AppIInv, AppParts, ExposerInTurn
  <2>3. CASE leaveStage
    <3>1. /\ queue[stage] = <<>> /\ queue' = queue
          /\ stage' = (IF stage = "prepare" THEN "launch" ELSE stage)
      BY <2>3, Zenon DEF leaveStage
    <3>2. state = "ShuttingDown" /\ stage # "shutdown" => state' = "ShuttingDown"
      BY <1>5, <2>3, StageFacts, Zenon DEF leaveStage
    <3>3. CASE stage = "prepare"
      BY <1>1, <1>3, <3>1, <3>2, <3>3 DEF AppIInv, AppParts, ExposerInTurn
    <3>4. CASE stage # "prepare"
      BY <1>1, <1>3, <1>5, <3>1, <3>2, <3>4, Zenon DEF AppIInv, AppParts, ExposerInTurn
    <3> QED
      BY <3>3, <3>4, Zenon
  <2>4. CASE testWorks \/ waitCv
    <3>1. queue' = queue /\ state' = state /\ (stage' = stage \/ stage' = "shutdown")
      BY <2>4, Zenon DEF testWorks, waitCv
    <3> QED
      BY <1>1, <1>3, <3>1, Zenon DEF AppIInv, AppParts, ExposerInTurn
  <2>5. CASE lockCv \/ final
    <3>1. queue' = queue /\ state' = state /\ stage' = stage
      BY <2>5 DEF lockCv, final
    <3> QED
      BY <1>1, <1>3, <3>1, Zenon DEF AppIInv, AppParts, ExposerInTurn
  <2> QED
    BY <2>1, <2>2, <2>3, <2>4, <2>5, Zenon
<1>7. ExposerStopped'
  <2>1. ~exposerStops
    BY <1>3, Zenon DEF exposerStops, stopping
  <2>2. ASSUME enabled, pc' = "returned"
        PROVE  calledIn(calls, stopOfExposer)
    <3>1. pc = "final" /\ state = "ReadyToStop"
      BY <2>2, StageFacts, StageOrder, Zenon DEF AppIInv, LifeCycleInv, TypeOK, start,
         enterStage, leaveStage, testWorks, lockCv, waitCv, final
    <3>2. Len(waitingStop) = 0
      BY <3>1 DEF AppIInv, LifeCycleInv, Ends
    <3>3. Once(waitingStop, calls, accepted, stopping)
      BY Zenon DEF AppIInv, LifeCycleInv, OnceEach
    <3>4. stopOfExposer \in accepted /\ stopOfExposer[1] = "shutdown"
      BY <2>2, Zenon DEF AppIInv, AppParts, ExposerStopped, stopOfExposer
    <3> QED
      BY <3>2, <3>3, <3>4 DEF Once
  <2> QED
    BY <1>1, <1>2, <2>1, <2>2, Zenon DEF AppIInv, AppParts, ExposerStopped, stopOfExposer
<1> QED
  BY <1>4, <1>6, <1>7, Zenon DEF AppParts

\* A callback is called, or dropped.
LEMMA CallParts ==
  ASSUME AppIInv, app = "run", call
  PROVE  AppParts'
<1> DEFINE h == Head(queue[stage])
<1>1. /\ enabled' = enabled /\ app' = app /\ server' = server /\ watchdog' = watchdog
      /\ told' = (told \/ (calling /\ tells(front)))
      /\ watchdogStopped' = (watchdogStopped \/ (calling /\ ~ofExposer(front)))
  BY Zenon DEF call
<1>2. /\ pc = "loop" /\ queue[stage] # <<>> /\ accepted' = accepted /\ stage' = stage
      /\ state' = state
  BY Zenon DEF call, callFront
<1>3. PartsTyped'
  BY <1>1, Zenon DEF AppIInv, AppParts, PartsTyped
<1>4. NotYet'
  BY <1>1, Zenon DEF NotYet
<1>5. Joined'
  BY <1>1, Zenon DEF Joined
<1>6. /\ queue \in [Stages -> Seq(1..MaxCallbacks)]
      /\ stage \in {"prepare", "launch", "shutdown"}
      /\ calls \in Seq(Stages \X (1..MaxCallbacks)) /\ h \in 1..MaxCallbacks
      /\ h = queue[stage][1] /\ stage \in Stages
  BY <1>2, FrontFacts, StageOrder, Zenon DEF AppIInv, LifeCycleInv, TypeOK
<1> HIDE DEF h
<1>7. ~exposerStops
  BY <1>2, Zenon DEF exposerStops, stopping
<1>8. CASE isCalled(stage)
  <2>1. calls' = Append(calls, <<stage, h>>) /\ pc' = "called" /\ queue' = queue
    BY <1>8, Zenon DEF call, callFront, h
  <2>2. ExposerInTurn'
    <3>1. stage = "launch" => state = "Starting"
      BY <1>8, StageFacts, Zenon DEF isCalled
    <3> QED
      BY <1>1, <1>2, <2>1, <3>1, Zenon DEF AppIInv, AppParts, ExposerInTurn
  <2>3. <<stage, h>> \in Stages \X (1..MaxCallbacks)
    BY <1>6, Zenon
  <2>4. /\ Len(calls') = Len(calls) + 1 /\ Len(calls) \in Nat
        /\ calls'[Len(calls) + 1] = <<stage, h>>
        /\ \A k \in 1..Len(calls) : calls'[k] = calls[k]
    <3> DEFINE c == <<stage, h>>
    <3> HIDE DEF c
    <3>1. calls' = Append(calls, c) /\ c \in Stages \X (1..MaxCallbacks)
      BY <2>1, <2>3, Zenon DEF c
    <3> QED
      BY <1>6, <3>1 DEF c
  <2>5. calling
    BY <2>4 DEF calling
  <2>6. calledIn(calls', stopOfExposer) =>
          calledIn(calls, stopOfExposer) \/ <<stage, h>> = stopOfExposer
    <3>1. \A k \in 1..Len(calls') : k \in 1..Len(calls) \/ k = Len(calls) + 1
      BY <2>4
    <3> QED
      BY <2>4, <3>1, Zenon DEF calledIn
  <2>7. ExposerStopped'
    <3> SUFFICES ASSUME enabled
                 PROVE  /\ stopOfExposer \in accepted
                        /\ calledIn(calls', stopOfExposer) => told'
                        /\ calledIn(calls', stopOfExposer) /\ ~exposerStops' =>
                             server # "running"
      BY <1>1, <1>2, <2>1, Zenon DEF ExposerStopped, stopOfExposer
    <3>1. /\ stopOfExposer \in accepted
          /\ calledIn(calls, stopOfExposer) => told /\ server # "running"
      BY <1>7, Zenon DEF AppIInv, AppParts, ExposerStopped
    <3>2. <<stage, h>> = stopOfExposer => told' /\ exposerStops'
      <4> SUFFICES ASSUME <<stage, h>> = stopOfExposer PROVE told' /\ exposerStops'
        OBVIOUS
      <4>1. stage = "shutdown" /\ h = 3
        BY Zenon DEF stopOfExposer
      <4>2. tells(front)
        BY <4>1 DEF tells, ofExposer, front, h
      <4>3. told' = TRUE
        BY <1>1, <2>5, <4>2, Zenon DEF AppIInv, AppParts, PartsTyped
      <4>4. exposerStops'
        BY <1>2, <1>6, <2>1, <4>1 DEF exposerStops, stopping, waitingStop
      <4> QED
        BY <4>3, <4>4
    <3>3. told => told'
      BY <1>1, Zenon
    <3> QED
      BY <2>6, <3>1, <3>2, <3>3, Zenon
  <2> QED
    BY <1>3, <1>4, <1>5, <2>2, <2>7, Zenon DEF AppParts
<1>9. CASE ~isCalled(stage)
  <2>1. calls' = calls /\ pc' = pc /\ queue' = [queue EXCEPT ![stage] = Tail(queue[stage])]
    BY <1>9 DEF call, callFront
  <2>2. /\ stage \in {"prepare", "launch"} /\ state = "ShuttingDown"
    BY <1>2, <1>6, <1>9, StageFacts, Zenon DEF isCalled, AppIInv, LifeCycleInv, Progress
  <2>3. ExposerInTurn'
    <3>1. CASE stage = "prepare"
      <4>1. queue'["launch"] = queue["launch"] /\ queue'["prepare"] = Tail(queue["prepare"])
        BY <1>6, <2>1, <3>1, StageOrder, Zenon
      <4>2. Tail(<<1>>) = <<>>
        OBVIOUS
      <4> QED
        BY <1>1, <1>2, <2>2, <3>1, <4>1, <4>2, Zenon DEF AppIInv, AppParts, ExposerInTurn
    <3>2. CASE stage = "launch"
      <4>1. queue'["launch"] = Tail(queue["launch"])
        BY <1>6, <2>1, <3>2, StageOrder, Zenon
      <4>2. Tail(<<2>>) = <<>>
        OBVIOUS
      <4> QED
        BY <1>1, <1>2, <2>2, <3>2, <4>1, <4>2, Zenon DEF AppIInv, AppParts, ExposerInTurn
    <3> QED
      BY <2>2, <3>1, <3>2, Zenon
  <2>4. ExposerStopped'
    <3>1. told => told'
      BY <1>1, Zenon
    <3> QED
      BY <1>1, <1>2, <1>7, <2>1, <3>1, Zenon DEF AppIInv, AppParts, ExposerStopped,
         stopOfExposer
  <2> QED
    BY <1>3, <1>4, <1>5, <2>3, <2>4 DEF AppParts
<1> QED
  BY <1>8, <1>9, Zenon

\* A callback returns: prepare() of the exposer opens the way for its start(), and its
\* stop() has joined the thread.
LEMMA ReturnParts ==
  ASSUME AppIInv, app = "run", NEW ok \in BOOLEAN, return(ok)
  PROVE  AppParts'
<1>1. /\ enabled' = enabled /\ app' = app /\ told' = told /\ watchdog' = watchdog
      /\ watchdogStopped' = watchdogStopped
      /\ ofExposer(front) /\ stage = "shutdown" => joins
      /\ ~ok => ofExposer(front) /\ stage = "prepare"
  BY DEF return
<1>2. /\ pc = "called" /\ pc' = "loop" /\ accepted' = accepted /\ calls' = calls
      /\ stage' = stage
      /\ state' = (IF ~ok /\ state = during(stage) THEN "ShuttingDown" ELSE state)
      /\ queue' = [queue EXCEPT ![stage] = Tail(queue[stage])]
  BY Zenon DEF return, returnFront
<1>3. /\ queue \in [Stages -> Seq(1..MaxCallbacks)]
      /\ stage \in {"prepare", "launch", "shutdown"}
      /\ stage \in Stages /\ queue[stage] # <<>>
  BY <1>2, StageOrder, Zenon DEF AppIInv, LifeCycleInv, TypeOK, Ends
<1>4. /\ ~ofExposer(front) \/ stage = "shutdown" => server' = server
      /\ ofExposer(front) /\ stage = "prepare" => server' = IF ok THEN "prepared" ELSE "failed"
      /\ ofExposer(front) /\ stage = "launch" => server' = "running"
  <2>1. server' = CASE ofExposer(front) /\ stage = "prepare" ->
                         IF ok THEN "prepared" ELSE "failed"
                    [] ofExposer(front) /\ stage = "launch" -> "running"
                    [] OTHER -> server
    BY DEF return
  <2>2. CASE ~ofExposer(front) \/ stage = "shutdown"
    BY <2>1, <2>2, Zenon
  <2>3. CASE ofExposer(front) /\ stage = "prepare"
    BY <2>1, <2>3
  <2>4. CASE ofExposer(front) /\ stage = "launch"
    BY <2>1, <2>4, Zenon
  <2> QED
    BY <2>2, <2>3, <2>4, Zenon
<1>5. PartsTyped' /\ NotYet' /\ Joined'
  <2>1. server' \in {"made", "prepared", "failed", "running", "ended"}
    BY <1>3, <1>4, Zenon DEF AppIInv, AppParts, PartsTyped
  <2> QED
    BY <1>1, <2>1, Zenon DEF AppIInv, AppParts, PartsTyped, NotYet, Joined
<1>6. ~enabled => server' = server
  BY <1>4, Zenon DEF ofExposer
<1>7. ExposerInTurn'
  <2>1. CASE stage = "prepare"
    <3>1. queue'["launch"] = queue["launch"] /\ queue'["prepare"] = Tail(queue["prepare"])
      BY <1>2, <1>3, <2>1, StageOrder, Zenon
    <3>2. enabled => queue["prepare"] = <<1>> /\ queue["launch"] = <<2>>
      BY <1>2, <1>3, <2>1, Zenon DEF AppIInv, AppParts, ExposerInTurn, NotYet
    <3>3. Tail(<<1>>) = <<>> /\ Head(<<1>>) = 1
      OBVIOUS
    <3>4. enabled => ofExposer(front)
      BY <2>1, <3>2, <3>3 DEF ofExposer, front
    <3>5. ~ok => state' = "ShuttingDown"
      BY <1>2, Zenon DEF AppIInv, LifeCycleInv, Progress
    <3> QED
      BY <1>1, <1>2, <1>4, <1>6, <2>1, <3>1, <3>2, <3>3, <3>4, <3>5, Zenon
         DEF AppIInv, AppParts, ExposerInTurn
  <2>2. CASE stage = "launch"
    <3>1. queue'["launch"] = Tail(queue["launch"])
      BY <1>2, <1>3, <2>2, StageOrder, Zenon
    <3>2. Tail(<<2>>) = <<>>
      OBVIOUS
    <3> QED
      BY <1>1, <1>2, <1>3, <1>6, <2>2, <3>1, <3>2, Zenon DEF AppIInv, AppParts, ExposerInTurn
  <2>3. CASE stage = "shutdown"
    BY <1>1, <1>2, <1>6, <2>3, Zenon DEF AppIInv, AppParts, ExposerInTurn
  <2> QED
    BY <1>3, <2>1, <2>2, <2>3, Zenon
<1>8. ExposerStopped'
  <2> SUFFICES ASSUME enabled, calledIn(calls, stopOfExposer)
               PROVE  server' # "running"
    BY <1>1, <1>2, Zenon DEF AppIInv, AppParts, ExposerStopped, stopOfExposer
  <2>1. stage = "shutdown"
    <3>1. PICK k \in 1..Len(calls) : calls[k] = <<"shutdown", 3>>
      BY Zenon DEF calledIn, stopOfExposer
    <3>2. rank(during("shutdown")) <= rank(during(stage))
      <4>1. calls[k][1] = "shutdown"
        BY <3>1
      <4> QED
        BY <4>1, Zenon DEF AppIInv, LifeCycleInv, CallsBehind
    <3> QED
      BY <1>3, <3>2, StageOrder
  <2>2. server' = server
    BY <1>4, <2>1, Zenon
  <2>3. CASE exposerStops
    <3>1. Head(queue[stage]) = 3
      BY <1>2, <1>3, <2>1, <2>3, FrontFacts, Zenon DEF AppIInv, exposerStops, waitingStop
    <3>2. ofExposer(front)
      BY <3>1 DEF ofExposer, front
    <3> QED
      BY <1>1, <2>1, <2>2, <3>2, Zenon DEF joins
  <2>4. CASE ~exposerStops
    BY <1>1, <2>2, <2>4 DEF AppIInv, AppParts, ExposerStopped
  <2> QED
    BY <2>3, <2>4
<1> QED
  BY <1>5, <1>7, <1>8 DEF AppParts

LEMMA AppStep == AppIInv /\ [AppNext]_appVars => AppIInv'
<1> SUFFICES ASSUME AppIInv, [AppNext]_appVars PROVE AppIInv'
  OBVIOUS
<1>1. CASE UNCHANGED appVars
  <2>1. /\ UNCHANGED vars /\ state' = state /\ queue' = queue /\ pc' = pc /\ stage' = stage
        /\ accepted' = accepted /\ calls' = calls
        /\ enabled' = enabled /\ app' = app /\ server' = server /\ told' = told
        /\ watchdog' = watchdog /\ watchdogStopped' = watchdogStopped
    BY <1>1, Zenon DEF appVars, parts, vars
  <2>2. LifeCycleInv'
    BY <2>1, ManagerStep, Zenon DEF AppIInv
  <2>3. AppParts'
    <3>1. PartsTyped' /\ NotYet' /\ Joined'
      BY <2>1, Zenon DEF AppIInv, AppParts, PartsTyped, NotYet, Joined
    <3>2. exposerStops' <=> exposerStops
      BY <2>1 DEF exposerStops, stopping, waitingStop
    <3>3. ExposerStopped'
      BY <2>1, <3>2, Zenon DEF AppIInv, AppParts, ExposerStopped, stopOfExposer
    <3>4. ExposerInTurn'
      BY <2>1, Zenon DEF AppIInv, AppParts, ExposerInTurn
    <3> QED
      BY <3>1, <3>3, <3>4 DEF AppParts
  <2> QED
    BY <2>2, <2>3, Zenon DEF AppIInv
<1>2. CASE AppNext
  <2>1. LifeCycleInv'
    BY <1>2, AppSteps, ControlLife, ManagerStep, Zenon DEF AppIInv
  <2>2. manage => AppParts'
    BY StageParts, CallParts, ReturnParts, Zenon DEF manage
  <2>3. main => AppParts'
    BY <2>2, OwnSteps, ControlParts, AtShutdownParts, Zenon DEF main
  <2>4. AppParts'
    BY <1>2, <2>3, OwnSteps, AskingParts, Zenon DEF AppNext
  <2> QED
    BY <2>1, <2>4 DEF AppIInv
<1> QED
  BY <1>1, <1>2, Zenon

LEMMA AppSafe == AppIInv => ApplicationInv
<1> SUFFICES ASSUME AppIInv PROVE NodeInv
  BY Zenon DEF AppIInv, LifeCycleInv, ApplicationInv
<1>1. ASSUME pc = "called", front[1] = "launch", ofExposer(front)
      PROVE  server = "prepared"
  <2>1. stage = "launch" /\ enabled
    BY <1>1, Zenon DEF front, ofExposer
  <2>2. queue["launch"] # <<>>
    BY <1>1, <2>1, Zenon DEF AppIInv, LifeCycleInv, Ends
  <2> QED
    BY <1>1, <2>1, <2>2, Zenon DEF AppIInv, AppParts, NotYet, ExposerInTurn
<1>2. ASSUME app = "returned"
      PROVE  server # "running" /\ watchdog = "ended" /\ (enabled => told)
  <2>1. pc = "returned" /\ watchdog = "ended"
    BY <1>2, Zenon DEF AppIInv, AppParts, Joined
  <2>2. ~exposerStops
    BY <2>1 DEF exposerStops, stopping
  <2> QED
    BY <1>2, <2>1, <2>2, Zenon DEF AppIInv, AppParts, ExposerInTurn, ExposerStopped
<1> QED
  BY <1>1, <1>2, Zenon DEF NodeInv

\* Whoever asks for the shutdown and whenever, and whether the exposer's prepare() fails:
\* its start() is called only after a prepare() that succeeded, and when run() of the
\* application returns its thread and that of the watchdog have ended (ApplicationImpl::run(),
\* ExposerImpl::prepare(), start(), stop()).
THEOREM NoThreadLeft == AppSpec => []ApplicationInv
<1> QED
  BY AppInitial, AppStep, AppSafe, PTL DEF AppSpec

\* The application keeps the state manager's promise to the components it controls.
THEOREM ApplicationStopsAll == AppSpec => StopsInOrder
<1>1. AppIInv /\ [AppNext]_appVars =>
        [\A g \in Stages, c \in 1..MaxCallbacks :
           calls' = Append(calls, <<g, c>>) =>
             /\ \A i \in 1..Len(calls) :
                  rank(during(calls[i][1])) <= rank(during(g))
             /\ g # "shutdown" => failed = {}]_vars
  <2> SUFFICES ASSUME AppIInv, [AppNext]_appVars, NEW g \in Stages,
                      NEW c \in 1..MaxCallbacks, calls' = Append(calls, <<g, c>>)
               PROVE  /\ \A i \in 1..Len(calls) :
                           rank(during(calls[i][1])) <= rank(during(g))
                      /\ g # "shutdown" => failed = {}
    BY Zenon
  <2>1. calls' # calls
    <3> DEFINE e == <<g, c>>
    <3>1. calls \in Seq(Stages \X (1..MaxCallbacks)) /\ e \in Stages \X (1..MaxCallbacks)
      BY Zenon DEF AppIInv, LifeCycleInv, TypeOK
    <3> HIDE DEF e
    <3>2. Len(Append(calls, e)) = Len(calls) + 1 /\ Len(calls) \in Nat
      BY <3>1
    <3>3. Append(calls, e) # calls
      BY <3>2
    <3> QED
      BY <3>3, Zenon DEF e
  <2>2. AppNext /\ ~UNCHANGED vars /\ ~takeControl
    BY <2>1, Zenon DEF appVars, vars, takeControl
  <2>3. Next
    BY <2>2, AppSteps, Zenon
  <2> QED
    BY <2>3, StepsInOrder, Zenon DEF AppIInv
<1>2. AppIInv /\ [AppNext]_appVars =>
        [pc = "final" /\ pc' = "returned" =>
           \A c \in accepted : c[1] = "shutdown" =>
             Cardinality({i \in 1..Len(calls) : calls[i] = c}) = 1]_vars
  <2> SUFFICES ASSUME AppIInv, [AppNext]_appVars, pc = "final", pc' = "returned"
               PROVE  \A c \in accepted : c[1] = "shutdown" =>
                        Cardinality({i \in 1..Len(calls) : calls[i] = c}) = 1
    BY Zenon
  <2>1. AppNext /\ ~UNCHANGED vars /\ ~takeControl
    BY Zenon DEF appVars, vars, takeControl
  <2>2. Next
    BY <2>1, AppSteps
  <2> QED
    BY <2>2, StepsInOrder, Zenon DEF AppIInv
<1> QED
  BY <1>1, <1>2, AppInitial, AppStep, PTL DEF AppSpec, StopsInOrder, StagesInOrder, AllStopped
==============================================================================
