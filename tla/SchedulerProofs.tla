--------------------------- MODULE SchedulerProofs ---------------------------
(***************************************************************************)
(* Proofs about Scheduler, for any set of tasks, delays and bounds, and    *)
(* about the event that it sleeps on, for any threads that wait and set.   *)
(***************************************************************************)
EXTENDS MCScheduler, TLAPS, SequenceTheorems, WellFoundedInduction

\* The inductive invariant.  BusyIsHonest needs Ordered (nothing behind a front
\* that is not due is due), everything needs TypeOK.
IInv == TypeOK /\ Ordered /\ NoOversleep /\ BusyIsHonest

------------------------------------------------------------------------------
\* A nonempty set of naturals has a least element, and Min is it.
LEMMA MinOfNats ==
  ASSUME NEW S \in SUBSET Nat, S # {}
  PROVE  Min(S) \in S /\ \A y \in S : Min(S) <= y
<1> DEFINE R == {p \in Nat \X Nat : p[1] < p[2]}
<1>1. OpToRel(<, Nat) = R
  BY Zenon DEF OpToRel
<1>2. IsWellFoundedOn(R, Nat)
  BY <1>1, NatLessThanWellFounded, Zenon
<1>3. PICK x \in S : \A y \in S : ~ (<<y, x>> \in R)
  BY <1>2, WFMin, Zenon
<1>4. ASSUME NEW y \in S
      PROVE  x <= y
  <2>1. <<y, x>> \in R <=> y < x
    OBVIOUS
  <2> QED
    BY <1>3, <2>1
<1> QED
  BY <1>4, Zenon DEF Min

\* A deadline is a point in time.
LEMMA DeadlineType ==
  ASSUME NEW t \in TimedTask
  PROVE  t.created \in Nat /\ t.timeout \in Nat /\ t.seq \in Nat /\ deadline(t) \in Nat
<1>1. t.created \in Nat /\ t.timeout \in Timeouts /\ t.seq \in Nat
  BY DEF TimedTask
<1>2. t.timeout \in Nat
  BY <1>1, SchedulerAssumption, Zenon DEF SchedulerAssumption
<1> QED
  BY <1>1, <1>2 DEF deadline

\* upper_bound: where a task due at tp goes in a sorted deque.
LEMMA AfterPosition ==
  ASSUME TypeOK, Ordered, NEW tp \in Nat
  PROVE  /\ after(tp) \in 1..(Len(tasks) + 1)
         /\ \A j \in 1..Len(tasks) : j < after(tp) => deadline(tasks[j]) <= tp
         /\ \A j \in 1..Len(tasks) : j >= after(tp) => tp < deadline(tasks[j])
<1> DEFINE S == {i \in 1..Len(tasks) : tp < deadline(tasks[i])} \cup {Len(tasks) + 1}
<1>1. Len(tasks) \in Nat /\ \A i \in 1..Len(tasks) : tasks[i] \in TimedTask
  BY DEF TypeOK
<1>2. \A i \in 1..Len(tasks) : deadline(tasks[i]) \in Nat
  BY <1>1, DeadlineType
<1>3. S \in SUBSET Nat /\ S # {}
  BY <1>1
<1>4. after(tp) \in S /\ \A y \in S : after(tp) <= y
  BY <1>3, MinOfNats, Zenon DEF after
<1>5. \A j \in 1..Len(tasks) : j < after(tp) => deadline(tasks[j]) <= tp
  BY <1>1, <1>2, <1>4
<1>6. ASSUME NEW j \in 1..Len(tasks), j >= after(tp)
      PROVE  tp < deadline(tasks[j])
  <2>1. after(tp) \in 1..Len(tasks) /\ tp < deadline(tasks[after(tp)])
    BY <1>1, <1>4, <1>6
  <2>2. CASE j = after(tp)
    BY <2>1, <2>2
  <2>3. CASE j > after(tp)
    <3>1. deadline(tasks[after(tp)]) <= deadline(tasks[j])
      BY <1>2, <2>1, <2>3 DEF Ordered, Promise!goesBefore, Promise!due, deadline
    <3> QED
      BY <1>2, <2>1, <3>1
  <2> QED
    BY <1>1, <1>4, <1>6, <2>2, <2>3
<1> QED
  BY <1>1, <1>4, <1>5, <1>6

\* The task that add() makes of its arguments.
newTask(task, timeout, rep) ==
  [task |-> task, created |-> now, timeout |-> timeout, rep |-> rep,
   seq |-> arrivals]

\* add(): the deque stays sorted and holds the old tasks and the new one.
LEMMA AddStep ==
  ASSUME TypeOK, Ordered,
         NEW task \in Tasks, NEW timeout \in Timeouts, NEW rep \in BOOLEAN,
         add(task, timeout, rep), now' = now
  PROVE  /\ tasks' \in Seq(TimedTask)
         /\ isBusy' \in BOOLEAN /\ signalled' = TRUE
         /\ arrivals' = arrivals + 1
         /\ Ordered'
         /\ {tasks'[i] : i \in 1..Len(tasks')} =
              {tasks[i] : i \in 1..Len(tasks)} \cup {newTask(task, timeout, rep)}
         /\ isBusy => isBusy'
         /\ timeout = 0 => isBusy'
<1> DEFINE t == newTask(task, timeout, rep)
           k == after(deadline(t))
           n == Len(tasks)
<1>1. t \in TimedTask /\ t.created = now /\ t.seq = arrivals
  BY DEF newTask, TimedTask, TypeOK
<1>2. n \in Nat /\ (\A i \in 1..n : tasks[i] \in TimedTask) /\ arrivals \in Nat
      /\ now \in Nat
  BY DEF TypeOK
<1>3. deadline(t) \in Nat
  BY <1>1, DeadlineType
<1>4. /\ k \in 1..(n + 1)
      /\ \A j \in 1..n : j < k => deadline(tasks[j]) <= deadline(t)
      /\ \A j \in 1..n : j >= k => deadline(t) < deadline(tasks[j])
  BY <1>3, AfterPosition, Zenon
<1>5. /\ tasks' = insert(k, t) /\ arrivals' = arrivals + 1
      /\ isBusy' = (isBusy \/ timeout = 0) /\ signalled' = TRUE
  BY DEF add, newTask, setEvent, busyAfter
<1> HIDE DEF t, k, n
<1>6. tasks' = [j \in 1..(n + 1) |->
                  IF j < k THEN tasks[j] ELSE IF j = k THEN t ELSE tasks[j - 1]]
  BY <1>5 DEF insert, n
<1>7. \A j \in 1..(n + 1) :
        (IF j < k THEN tasks[j] ELSE IF j = k THEN t ELSE tasks[j - 1]) \in TimedTask
  BY <1>1, <1>2, <1>4
<1>8. tasks' \in Seq(TimedTask) /\ Len(tasks') = n + 1
  BY <1>2, <1>6, <1>7
<1>9. \A i \in 1..(n + 1) : /\ i < k => i \in 1..n /\ tasks'[i] = tasks[i]
                            /\ i = k => tasks'[i] = t
                            /\ i > k => i - 1 \in 1..n /\ tasks'[i] = tasks[i - 1]
  BY <1>2, <1>4, <1>6
<1>10. ASSUME NEW i \in 1..(n + 1), NEW j \in 1..(n + 1), i < j
       PROVE  Promise!goesBefore(tasks'[i], tasks'[j])
  <2>1. \A a, b \in 1..n : a < b => Promise!goesBefore(tasks[a], tasks[b])
    BY DEF Ordered, n
  <2>2. \A a \in 1..n : tasks[a].seq < t.seq
    BY <1>1 DEF Ordered, n
  <2>3. CASE j < k
    BY <1>2, <1>4, <1>9, <1>10, <2>1, <2>3
  <2>4. CASE j = k
    <3>1. i \in 1..n /\ tasks'[i] = tasks[i] /\ tasks'[j] = t
      BY <1>2, <1>4, <1>9, <1>10, <2>4
    <3>2. deadline(tasks[i]) <= deadline(t) /\ tasks[i].seq < t.seq
      BY <3>1, <1>4, <1>10, <2>2, <2>4
    <3>3. deadline(tasks[i]) \in Nat
      BY <3>1, <1>2, DeadlineType
    <3> QED
      BY <1>3, <3>1, <3>2, <3>3 DEF Promise!goesBefore, Promise!due, deadline
  <2>5. CASE i < k /\ j > k
    BY <1>2, <1>4, <1>9, <1>10, <2>1, <2>5
  <2>6. CASE i = k
    <3>1. j - 1 \in 1..n /\ tasks'[j] = tasks[j - 1] /\ tasks'[i] = t /\ j - 1 >= k
      BY <1>2, <1>4, <1>9, <1>10, <2>6
    <3>2. deadline(t) < deadline(tasks[j - 1])
      BY <3>1, <1>4
    <3> QED
      BY <3>1, <3>2 DEF Promise!goesBefore, Promise!due, deadline
  <2>7. CASE i > k
    <3>1. /\ i - 1 \in 1..n /\ tasks'[i] = tasks[i - 1]
          /\ j - 1 \in 1..n /\ tasks'[j] = tasks[j - 1]
          /\ i - 1 < j - 1
      BY <1>2, <1>4, <1>9, <1>10, <2>7
    <3> QED
      BY <3>1, <2>1
  <2> QED
    BY <1>4, <1>10, <2>3, <2>4, <2>5, <2>6, <2>7
<1>11. ASSUME NEW i \in 1..(n + 1)
       PROVE  tasks'[i].created <= now /\ tasks'[i].seq < arrivals + 1
  <2>1. \A a \in 1..n : /\ tasks[a].created <= now /\ tasks[a].seq < arrivals
                        /\ tasks[a].seq \in Nat
    BY <1>2, DeadlineType DEF Ordered, n
  <2> QED
    BY <1>1, <1>2, <1>4, <1>9, <2>1
<1>12. Ordered'
  BY <1>5, <1>8, <1>10, <1>11 DEF Ordered, Promise!goesBefore, Promise!due
<1>13. {tasks'[i] : i \in 1..(n + 1)} = {tasks[i] : i \in 1..n} \cup {t}
  <2>1. ASSUME NEW i \in 1..(n + 1)
        PROVE  tasks'[i] \in {tasks[a] : a \in 1..n} \cup {t}
    BY <1>2, <1>4, <1>9
  <2>2. ASSUME NEW a \in 1..n
        PROVE  tasks[a] \in {tasks'[i] : i \in 1..(n + 1)}
    <3>1. CASE a < k
      BY <1>2, <1>4, <1>9, <3>1
    <3>2. CASE a >= k
      <4>1. a + 1 \in 1..(n + 1) /\ a + 1 > k
        BY <1>2, <1>4, <3>2
      <4>2. tasks'[a + 1] = tasks[a]
        BY <1>2, <1>4, <1>9, <4>1
      <4> QED
        BY <4>1, <4>2
    <3> QED
      BY <1>2, <1>4, <3>1, <3>2
  <2>3. t \in {tasks'[i] : i \in 1..(n + 1)}
    BY <1>4, <1>9
  <2> QED
    BY <2>1, <2>2, <2>3
<1> QED
  BY <1>5, <1>8, <1>12, <1>13, Zenon DEF TypeOK, t, n

\* What taking the front leaves: the rest, still sorted.
LEMMA TailStep ==
  ASSUME TypeOK, Ordered, tasks # <<>>, tasks' = Tail(tasks),
         now' = now, arrivals' = arrivals
  PROVE  /\ Head(tasks) \in TimedTask
         /\ tasks' \in Seq(TimedTask)
         /\ Ordered'
         /\ {tasks'[i] : i \in 1..Len(tasks')} =
              {tasks[i] : i \in 1..Len(tasks)} \ {Head(tasks)}
         /\ \A u \in {tasks'[i] : i \in 1..Len(tasks')} :
              Promise!goesBefore(Head(tasks), u)
<1> DEFINE n == Len(tasks)
<1>1. n \in Nat \ {0} /\ \A i \in 1..n : tasks[i] \in TimedTask
  BY EmptySeq DEF TypeOK
<1>2. /\ Head(tasks) = tasks[1] /\ tasks' \in Seq(TimedTask) /\ Len(tasks') = n - 1
      /\ \A i \in 1..(n - 1) : tasks'[i] = tasks[i + 1]
  BY HeadTailProperties DEF TypeOK
<1>3. \A i, j \in 1..n : i < j => Promise!goesBefore(tasks[i], tasks[j])
  BY DEF Ordered
<1>4. Ordered'
  <2>1. ASSUME NEW i \in 1..(n - 1), NEW j \in 1..(n - 1), i < j
        PROVE  Promise!goesBefore(tasks'[i], tasks'[j])
    <3>1. i + 1 \in 1..n /\ j + 1 \in 1..n /\ i + 1 < j + 1
      BY <1>1, <2>1
    <3> QED
      BY <1>2, <1>3, <3>1
  <2>2. ASSUME NEW i \in 1..(n - 1)
        PROVE  tasks'[i].created <= now /\ tasks'[i].seq < arrivals
    <3>1. i + 1 \in 1..n
      BY <1>1
    <3> QED
      BY <1>2, <3>1 DEF Ordered
  <2> QED
    BY <1>1, <1>2, <2>1, <2>2 DEF Ordered, Promise!goesBefore, Promise!due
<1>5. ASSUME NEW i \in 1..(n - 1)
      PROVE  /\ tasks'[i] \in {tasks[a] : a \in 1..n}
             /\ Promise!goesBefore(tasks[1], tasks'[i])
  <2>1. i + 1 \in 1..n /\ 1 \in 1..n /\ 1 < i + 1
    BY <1>1
  <2> QED
    BY <1>2, <1>3, <2>1
<1>6. ASSUME NEW i \in 1..(n - 1)
      PROVE  tasks'[i] # tasks[1]
  <2>1. deadline(tasks[1]) \in Nat /\ tasks[1].seq \in Nat
    BY <1>1, DeadlineType
  <2> QED
    BY <1>5, <2>1 DEF Promise!goesBefore, Promise!due, deadline
<1>7. ASSUME NEW a \in 2..n
      PROVE  tasks[a] \in {tasks'[i] : i \in 1..(n - 1)}
  <2>1. a - 1 \in 1..(n - 1) /\ tasks'[a - 1] = tasks[a]
    BY <1>1, <1>2
  <2> QED
    BY <2>1
<1>8. {tasks'[i] : i \in 1..(n - 1)} = {tasks[i] : i \in 1..n} \ {tasks[1]}
  <2>1. ASSUME NEW a \in 1..n, tasks[a] # tasks[1]
        PROVE  a \in 2..n
    BY <1>1, <2>1
  <2> QED
    BY <1>5, <1>6, <1>7, <2>1, Zenon
<1>9. Head(tasks) \in TimedTask
  BY <1>1, <1>2
<1>10. {tasks'[i] : i \in 1..Len(tasks')} = {tasks[i] : i \in 1..n} \ {Head(tasks)}
  BY <1>2, <1>8, Zenon
<1>11. \A u \in {tasks'[i] : i \in 1..Len(tasks')} : Promise!goesBefore(Head(tasks), u)
  BY <1>2, <1>5, Zenon
<1> QED
  BY <1>2, <1>4, <1>9, <1>10, <1>11, Zenon

------------------------------------------------------------------------------
\* A step that leaves the deque alone, and neither turns the clock nor the
\* arrivals back, keeps it ordered.
LEMMA OrderedKept ==
  ASSUME TypeOK, Ordered, UNCHANGED <<tasks, arrivals>>, now' \in Nat, now' >= now
  PROVE  Ordered'
<1>1. \A i \in 1..Len(tasks) : tasks[i].created \in Nat /\ tasks[i].created <= now'
  BY DeadlineType DEF TypeOK, Ordered
<1> QED
  BY <1>1 DEF Ordered, Promise!goesBefore, Promise!due

\* The invariant holds when the thread of a handler starts.
LEMMA InitInv == Init => IInv
<1> SUFFICES ASSUME Init PROVE IInv
  OBVIOUS
<1>1. tasks \in Seq(TimedTask) /\ Len(tasks) = 0
  BY EmptySeq DEF Init
<1>2. TypeOK
  BY <1>1, Zenon DEF Init, TypeOK
<1>3. Ordered
  BY <1>1 DEF Ordered
<1>4. NoOversleep /\ BusyIsHonest
  BY <1>1 DEF Init, NoOversleep, BusyIsHonest
<1> QED
  BY <1>2, <1>3, <1>4 DEF IInv

\* A call of add(), by a client or by the worker, keeps the parts of the
\* invariant that are about the deque.
LEMMA AddInv ==
  ASSUME IInv,
         NEW task \in Tasks, NEW timeout \in Timeouts, NEW rep \in BOOLEAN,
         add(task, timeout, rep), now' = now
  PROVE  /\ tasks' \in Seq(TimedTask) /\ isBusy' \in BOOLEAN
         /\ signalled' = TRUE /\ arrivals' \in Nat
         /\ Ordered'
         /\ isBusy => isBusy'
         /\ (\E i \in 1..Len(tasks') : tasks'[i].timeout = 0) => isBusy'
<1>1. TypeOK /\ Ordered /\ BusyIsHonest
  BY DEF IInv
<1>2. /\ tasks' \in Seq(TimedTask) /\ isBusy' \in BOOLEAN
      /\ signalled' = TRUE /\ arrivals' = arrivals + 1
      /\ Ordered'
      /\ {tasks'[i] : i \in 1..Len(tasks')} =
           {tasks[i] : i \in 1..Len(tasks)} \cup {newTask(task, timeout, rep)}
      /\ isBusy => isBusy'
      /\ timeout = 0 => isBusy'
  BY <1>1, AddStep, Zenon
<1>3. ASSUME NEW i \in 1..Len(tasks'), tasks'[i].timeout = 0
      PROVE  isBusy'
  <2>1. tasks'[i] \in {tasks[a] : a \in 1..Len(tasks)} \cup {newTask(task, timeout, rep)}
    BY <1>2, Zenon
  <2>2. CASE tasks'[i] = newTask(task, timeout, rep)
    BY <1>2, <1>3, <2>2 DEF newTask
  <2>3. CASE tasks'[i] \in {tasks[a] : a \in 1..Len(tasks)}
    <3>1. PICK a \in 1..Len(tasks) : tasks'[i] = tasks[a]
      BY <2>3
    <3> QED
      BY <1>1, <1>2, <1>3, <3>1 DEF BusyIsHonest
  <2> QED
    BY <2>1, <2>2, <2>3, Zenon
<1> QED
  BY <1>1, <1>2, <1>3 DEF TypeOK

\* Every step of every thread keeps the invariant.
LEMMA NextInv == IInv /\ [Next]_vars => IInv'
<1> SUFFICES ASSUME IInv, [Next]_vars PROVE IInv'
  OBVIOUS
<1> USE DEF IInv
<1>1. ASSUME NEW t \in Tasks, NEW d \in Timeouts, NEW r \in BOOLEAN, add(t, d, r),
             UNCHANGED <<proceed, now, pc, current, sleep, disposing>>
      PROVE  IInv'
  <2>1. /\ tasks' \in Seq(TimedTask) /\ isBusy' \in BOOLEAN
        /\ signalled' = TRUE /\ arrivals' \in Nat /\ Ordered' /\ (isBusy => isBusy')
        /\ (\E i \in 1..Len(tasks') : tasks'[i].timeout = 0) => isBusy'
    BY <1>1, AddInv, Zenon
  <2>2. TypeOK'
    BY <1>1, <2>1 DEF TypeOK
  <2>3. NoOversleep' /\ BusyIsHonest'
    BY <1>1, <2>1 DEF NoOversleep, BusyIsHonest
  <2> QED
    BY <2>1, <2>2, <2>3
<1>2. CASE Client
  BY <1>1, <1>2, Zenon DEF Client, addDelayed, repeat, uploadIfFree
<1>3. ASSUME UNCHANGED <<tasks, now, arrivals>> PROVE Ordered'
  BY <1>3, OrderedKept DEF TypeOK
<1>4. CASE dispose
  <2>1. TypeOK' /\ UNCHANGED <<tasks, now, arrivals>>
    BY <1>4, Zenon DEF dispose, disposeClear, disposeSignal, disposeJoin, setEvent, TypeOK
  <2>2. NoOversleep' /\ BusyIsHonest'
    BY <1>4 DEF dispose, disposeClear, disposeSignal, disposeJoin, setEvent,
                NoOversleep, BusyIsHonest
  <2> QED
    BY <1>3, <2>1, <2>2
<1>5. CASE extractTask
  <2>1. Head(tasks) \in TimedTask /\ tasks' \in Seq(TimedTask) /\ Ordered'
    BY <1>5, TailStep DEF extractTask
  <2>2. TypeOK'
    BY <1>5, <2>1 DEF extractTask, TypeOK
  <2>3. NoOversleep' /\ BusyIsHonest'
    BY <1>5 DEF extractTask, NoOversleep, BusyIsHonest
  <2> QED
    BY <2>1, <2>2, <2>3
<1>6. CASE extractNothing
  <2>1. TypeOK' /\ UNCHANGED <<tasks, now, arrivals>>
    BY <1>6, Zenon DEF extractNothing, TypeOK
  <2>2. NoOversleep'
    BY <1>6 DEF extractNothing, NoOversleep
  <2>3. ASSUME NEW i \in 1..Len(tasks), tasks[i].timeout = 0
        PROVE  FALSE
    <3>1. /\ tasks \in Seq(TimedTask) /\ tasks # <<>> /\ 1 \in 1..Len(tasks)
          /\ Head(tasks) = tasks[1] /\ now \in Nat /\ Len(tasks) \in Nat
      BY <2>3 DEF TypeOK
    <3>2. /\ deadline(tasks[1]) \in Nat /\ deadline(tasks[i]) \in Nat
          /\ tasks[i].created \in Nat
      BY <3>1, DeadlineType
    <3>3. deadline(tasks[1]) > now
      BY <1>6, <3>1, <3>2 DEF extractNothing, expired
    <3>4. deadline(tasks[1]) <= deadline(tasks[i])
      <4>1. CASE i = 1
        BY <3>2, <4>1
      <4>2. CASE 1 < i
        BY <3>1, <3>2, <4>2 DEF Ordered, Promise!goesBefore, Promise!due, deadline
      <4> QED
        BY <3>1, <4>1, <4>2
    <3>5. deadline(tasks[i]) = tasks[i].created /\ tasks[i].created <= now
      BY <2>3, <3>2 DEF Ordered, deadline
    <3> QED
      BY <3>1, <3>2, <3>3, <3>4, <3>5
  <2>4. BusyIsHonest'
    BY <1>6, <2>3 DEF extractNothing, BusyIsHonest
  <2> QED
    BY <1>3, <2>1, <2>2, <2>4
<1>7. CASE finishTask
  <2>1. TypeOK' /\ UNCHANGED <<tasks, now, arrivals>>
    BY <1>7 DEF finishTask, TypeOK
  <2>2. NoOversleep' /\ BusyIsHonest'
    BY <1>7 DEF finishTask, NoOversleep, BusyIsHonest
  <2> QED
    BY <1>3, <2>1, <2>2
<1>8. CASE repeatTask
  <2>1. current \in TimedTask
    BY <1>8 DEF repeatTask, TypeOK
  <2>2. current.task \in Tasks /\ current.timeout \in Timeouts
    BY <2>1 DEF TimedTask
  <2>3. /\ tasks' \in Seq(TimedTask) /\ isBusy' \in BOOLEAN
        /\ signalled' = TRUE /\ arrivals' \in Nat /\ Ordered'
        /\ (\E i \in 1..Len(tasks') : tasks'[i].timeout = 0) => isBusy'
    BY <1>8, <2>2, AddInv, Zenon DEF repeatTask
  <2>4. TypeOK'
    BY <1>8, <2>3 DEF repeatTask, TypeOK
  <2>5. NoOversleep' /\ BusyIsHonest'
    BY <1>8, <2>3 DEF repeatTask, NoOversleep, BusyIsHonest
  <2> QED
    BY <2>3, <2>4, <2>5
<1>9. CASE untilFirst
  <2>1. tasks # <<>> => Head(tasks) = tasks[1] /\ deadline(tasks[1]) \in Nat
    <3>1. tasks # <<>> => 1 \in 1..Len(tasks) /\ Head(tasks) = tasks[1]
      BY DEF TypeOK
    <3> QED
      BY <3>1, DeadlineType DEF TypeOK
  <2>2. sleepTime \in Nat /\ (tasks # <<>> => now + sleepTime <= deadline(tasks[1])
                                            \/ sleepTime = 0)
    BY <2>1, SchedulerAssumption DEF sleepTime, TypeOK, SchedulerAssumption
  <2>3. TypeOK' /\ UNCHANGED <<tasks, now, arrivals>>
    BY <1>9, <2>2 DEF untilFirst, TypeOK
  <2>4. NoOversleep' /\ BusyIsHonest'
    BY <1>9, <2>2 DEF untilFirst, NoOversleep, BusyIsHonest
  <2> QED
    BY <1>3, <2>3, <2>4
<1>10. CASE wait
  <2>1. TypeOK' /\ UNCHANGED <<tasks, now, arrivals>>
    BY <1>10, Zenon DEF wait, TypeOK
  <2>2. NoOversleep' /\ BusyIsHonest'
    BY <1>10 DEF wait, NoOversleep, BusyIsHonest
  <2> QED
    BY <1>3, <2>1, <2>2
<1>11. CASE testProceed
  <2>1. TypeOK' /\ UNCHANGED <<tasks, now, arrivals>>
    BY <1>11 DEF testProceed, TypeOK
  <2>2. NoOversleep' /\ BusyIsHonest'
    BY <1>11 DEF testProceed, NoOversleep, BusyIsHonest
  <2> QED
    BY <1>3, <2>1, <2>2
<1>12. CASE Tick
  <2>1. TypeOK' /\ UNCHANGED <<tasks, arrivals>> /\ now' = now + 1 /\ now \in Nat
    BY <1>12 DEF Tick, TypeOK
  <2>2. Ordered'
    BY <2>1, OrderedKept
  <2>3. tasks # <<>> => deadline(tasks[1]) \in Nat
    BY DeadlineType DEF TypeOK
  <2>4. NoOversleep' /\ BusyIsHonest'
    BY <1>12, <2>3 DEF Tick, TypeOK, NoOversleep, BusyIsHonest
  <2> QED
    BY <2>1, <2>2, <2>4
<1>13. CASE UNCHANGED vars
  <2>1. TypeOK' /\ UNCHANGED <<tasks, now, arrivals>>
    BY <1>13 DEF vars, TypeOK
  <2>2. NoOversleep' /\ BusyIsHonest'
    BY <1>13 DEF vars, NoOversleep, BusyIsHonest
  <2> QED
    BY <1>3, <2>1, <2>2
<1> QED
  BY <1>2, <1>4, <1>5, <1>6, <1>7, <1>8, <1>9, <1>10, <1>11, <1>12, <1>13
  DEF Next, process

\* The invariant holds in every state of every behaviour.
LEMMA Invariance == Spec => []IInv
  BY InitInv, NextInv, PTL DEF Spec

\* The deque is sorted and the variables keep their types, for any clients.
THEOREM TypeCorrect == Spec => []TypeOK
<1>1. IInv => TypeOK
  BY DEF IInv
<1> QED
  BY <1>1, Invariance, PTL

\* The front of the deque is always the first task due.
THEOREM DequeOrdered == Spec => []Ordered
<1>1. IInv => Ordered
  BY DEF IInv
<1> QED
  BY <1>1, Invariance, PTL

\* No wake-up is lost between untilFirst and event_.wait.
THEOREM WorkerNeverOversleeps == Spec => []NoOversleep
<1>1. IInv => NoOversleep
  BY DEF IInv
<1> QED
  BY <1>1, Invariance, PTL

\* is_busy_ is honest whenever uploadIfFree can read it.
THEOREM BusyFlagHonest == Spec => []BusyIsHonest
<1>1. IInv => BusyIsHonest
  BY DEF IInv
<1> QED
  BY <1>1, Invariance, PTL

------------------------------------------------------------------------------
\* Every step of the scheduler is a step of the abstract queue, or none.
LEMMA StepSimulation ==
  IInv /\ [Next]_vars => [Promise!DQNext]_(Promise!dqVars)
<1> SUFFICES ASSUME IInv, [Next]_vars
             PROVE  Promise!DQNext \/ UNCHANGED Promise!dqVars
  OBVIOUS
<1> DEFINE P == {tasks[i] : i \in 1..Len(tasks)}
<1>0. TypeOK /\ Ordered
  BY DEF IInv
<1>1. ASSUME NEW t \in Tasks, NEW d \in Timeouts, NEW r \in BOOLEAN, add(t, d, r),
             UNCHANGED now
      PROVE  Promise!Accept
  <2>1. P' = P \cup {newTask(t, d, r)} /\ arrivals' = arrivals + 1
    BY <1>0, <1>1, AddStep, Zenon
  <2> QED
    BY <1>1, <2>1 DEF Promise!Accept, newTask
<1>2. CASE Client
  BY <1>1, <1>2, Zenon DEF Client, addDelayed, repeat, uploadIfFree, Promise!DQNext
<1>3. CASE repeatTask
  <2>1. current \in TimedTask
    BY <1>0, <1>3 DEF repeatTask, TypeOK
  <2>2. current.task \in Tasks /\ current.timeout \in Timeouts
    BY <2>1 DEF TimedTask
  <2> QED
    BY <1>1, <1>3, <2>2, Zenon DEF repeatTask, Promise!DQNext
<1>4. CASE extractTask
  <2>1. /\ P' = P \ {Head(tasks)}
        /\ \A u \in P' : Promise!goesBefore(Head(tasks), u)
    BY <1>0, <1>4, TailStep, Zenon DEF extractTask
  <2>2. Head(tasks) \in P
    BY <1>0, <1>4 DEF extractTask, TypeOK
  <2>3. Promise!due(Head(tasks)) <= now
    BY <1>4 DEF extractTask, expired, deadline, Promise!due
  <2>4. UNCHANGED <<arrivals, now>>
    BY <1>4 DEF extractTask
  <2>5. Promise!Take
    BY <2>1, <2>2, <2>3, <2>4, Zenon DEF Promise!Take
  <2> QED
    BY <2>5, Zenon DEF Promise!DQNext
<1>5. CASE Tick
  BY <1>0, <1>5 DEF Tick, TypeOK, Promise!DQNext, Promise!Elapse
<1>6. ASSUME UNCHANGED <<tasks, arrivals, now>>
      PROVE  UNCHANGED Promise!dqVars
  BY <1>6 DEF Promise!dqVars
<1>7. CASE dispose
  BY <1>6, <1>7 DEF dispose, disposeClear, disposeSignal, disposeJoin
<1>8. CASE extractNothing \/ finishTask \/ untilFirst \/ wait \/ testProceed
  <2>1. CASE extractNothing \/ finishTask
    BY <1>6, <2>1 DEF extractNothing, finishTask
  <2>2. CASE untilFirst \/ wait \/ testProceed
    BY <1>6, <2>2 DEF untilFirst, wait, testProceed
  <2> QED
    BY <1>8, <2>1, <2>2
<1>9. CASE UNCHANGED vars
  BY <1>6, <1>9 DEF vars
<1> QED
  BY <1>2, <1>3, <1>4, <1>5, <1>7, <1>8, <1>9 DEF Next, process

\* The scheduler implements the deadline queue: each accepted task is taken at
\* most once, not before its deadline, in order of deadline and arrival.
THEOREM SchedulerImplementsQueue == Spec => ImplementsDeadlineQueue
<1>1. Init => Promise!DQInit
  <2>1. ASSUME Init PROVE {tasks[i] : i \in 1..Len(tasks)} = {}
    BY <2>1 DEF Init
  <2> QED
    BY <2>1 DEF Init, Promise!DQInit
<1> QED
  BY <1>1, StepSimulation, Invariance, PTL
  DEF Spec, ImplementsDeadlineQueue, Promise!DQSpec

------------------------------------------------------------------------------
\* The part of the types that the mapping rests on: where every thread is.
Places ==
  /\ flag_ \in BOOLEAN
  /\ at \in [E!Threads -> {"idle", "lock", "test", "asleep", "store", "notify"}]

\* Nobody is in wait() before the start, and the flag is down.
LEMMA EventInit == E!Init => Places /\ E!Event!Init
BY DEF E!Init, Places, E!inWait, E!Event!Init, E!Threads

\* Every step leaves the threads somewhere in wait() or set().
LEMMA PlacesStep == Places /\ [E!Next]_(E!vars) => Places'
<1> SUFFICES ASSUME Places, [E!Next]_(E!vars) PROVE Places'
  OBVIOUS
<1> USE DEF Places, E!Threads, E!goto
<1>1. ASSUME NEW t \in Waiters,
             \/ \E withTimeout \in BOOLEAN : E!wait(t, withTimeout)
             \/ E!waitLock(t) \/ E!waitTest(t) \/ E!expire(t) \/ E!spurious(t)
      PROVE  Places'
  BY <1>1, Zenon DEF E!wait, E!waitLock, E!waitTest, E!taken, E!expire, E!spurious
<1>2. ASSUME NEW s \in Setters, E!set(s) \/ E!setFlag(s) PROVE Places'
  BY <1>2, Zenon DEF E!set, E!setFlag
<1>3. ASSUME NEW s \in Setters, E!notify_one(s) PROVE Places'
  <2>1. flag_' = flag_
    BY <1>3 DEF E!notify_one
  <2>2. CASE E!goto(s, "idle")
    BY <2>1, <2>2
  <2>3. ASSUME NEW t \in E!sleepers, at' = [at EXCEPT ![s] = "idle", ![t] = "lock"]
        PROVE  Places'
    BY <2>1, <2>3 DEF E!sleepers
  <2> QED
    BY <1>3, <2>2, <2>3 DEF E!notify_one, E!woken
<1>4. CASE UNCHANGED E!vars
  BY <1>4 DEF E!vars
<1> QED
  BY <1>1, <1>2, <1>3, <1>4 DEF E!Next

\* A step inside wait() or set() is a stutter; the test of the flag is where a signal is
\* taken or a timed wait gives up, the store is where it is given.
LEMMA EventStep == Places /\ [E!Next]_(E!vars) => [E!Event!Next]_(E!Event!vars)
<1> SUFFICES ASSUME Places, [E!Next]_(E!vars) PROVE [E!Event!Next]_(E!Event!vars)
  OBVIOUS
<1> USE DEF Places, E!Threads, E!goto, E!inWait, E!Event!vars
<1>1. ASSUME NEW t \in Waiters, NEW withTimeout \in BOOLEAN, E!wait(t, withTimeout)
      PROVE  E!Event!Wait(t)
  BY <1>1 DEF E!wait, E!Event!Wait
<1>2. ASSUME NEW t \in Waiters, E!waitLock(t) \/ E!expire(t) \/ E!spurious(t)
      PROVE  UNCHANGED E!Event!vars
  BY <1>2 DEF E!waitLock, E!expire, E!spurious
<1>3. ASSUME NEW t \in Waiters, E!waitTest(t)
      PROVE  E!Event!Take(t) \/ E!Event!GiveUp(t) \/ UNCHANGED E!Event!vars
  <2> USE <1>3 DEF E!waitTest, E!taken
  <2>1. CASE E!leaves(t)
    <3>1. E!inWait' = E!inWait \ {t} /\ t \in E!inWait
      BY <2>1
    <3>2. CASE flag_
      BY <3>1, <3>2 DEF E!Event!GiveUp
    <3>3. CASE ~flag_
      BY <3>1, <3>3 DEF E!Event!Take
    <3> QED
      BY <3>2, <3>3
  <2>2. CASE ~E!leaves(t)
    BY <2>2 DEF E!leaves
  <2> QED
    BY <2>1, <2>2
<1>4. ASSUME NEW s \in Setters, E!set(s) PROVE UNCHANGED E!Event!vars
  BY <1>4 DEF E!set
<1>5. ASSUME NEW s \in Setters, E!setFlag(s) PROVE E!Event!Set
  BY <1>5 DEF E!setFlag, E!Event!Set
<1>6. ASSUME NEW s \in Setters, E!notify_one(s) PROVE UNCHANGED E!Event!vars
  <2>1. flag_' = flag_ /\ at[s] = "notify"
    BY <1>6 DEF E!notify_one
  <2>2. CASE E!goto(s, "idle")
    BY <2>1, <2>2
  <2>3. ASSUME NEW t \in E!sleepers, at' = [at EXCEPT ![s] = "idle", ![t] = "lock"]
        PROVE  E!inWait' = E!inWait
    <3>1. t # s /\ t \in E!Threads /\ at[t] = "asleep"
      BY <2>1, <2>3 DEF E!sleepers
    <3> QED
      BY <2>1, <2>3, <3>1
  <2> QED
    BY <1>6, <2>1, <2>2, <2>3 DEF E!notify_one, E!woken
<1>7. CASE UNCHANGED E!vars
  BY <1>7 DEF E!vars
<1> QED
  BY <1>1, <1>2, <1>3, <1>4, <1>5, <1>6, <1>7, Zenon DEF E!Next, E!Event!Next

\* The event keeps its promise: a signal is taken by one wait(), never lost, not even by
\* a thread whose timeout passes as the signal comes, and nobody gives up on one.
THEOREM EventRefinement == E!Spec => ImplementsEvent
BY EventInit, PlacesStep, EventStep, PTL
DEF E!Spec, ImplementsEvent, E!ImplementsEvent, E!Event!Spec
==============================================================================
