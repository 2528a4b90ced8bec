-------------------------- MODULE DispatcherProofs --------------------------
(***************************************************************************)
(* The dispatcher keeps DispatcherInv, for any handlers, pool, callers and *)
(* schedulers.                                                             *)
(***************************************************************************)
EXTENDS MCDispatcher, FiniteSetTheorems, WellFoundedInduction, TLAPS

\* The dispatcher: what a call under way may be.
CallStates ==
  {D!idle}
    \cup [pc : {"handler", "find", "count", "temp"}, task : D!Task]
    \cup [pc : {"context"}, task : D!Task, to : Schedulers]
    \cup [pc : {"pool"}, task : D!Task, i : Nat]

CallsTyped ==
  /\ call \in [Uploaders -> CallStates]
  /\ calls \in 0..MaxTasks
  /\ given \in [D!Tids -> SUBSET Schedulers]
  /\ \A k \in Uploaders : call[k] # D!idle =>
       /\ call[k].task.id <= calls /\ call[k].task.due = ~call[k].task.delayed
       /\ call[k].pc = "handler" => call[k].task.tid < HandlersCount

\* Calls have tasks of their own, and the temporary thread for one is not born before.
CallsApart ==
  /\ \A k, l \in Uploaders : call[k] # D!idle /\ call[l] # D!idle
       /\ call[k].task.id = call[l].task.id => k = l
  /\ \A k \in Uploaders : call[k] # D!idle /\ call[k].pc # "temp"
       => state[<<"temp", call[k].task.id>>] = "unborn"
  /\ \A c \in D!Calls : c > calls => state[<<"temp", c>>] = "unborn"

\* The counter counts the temporary threads that were started and not let go.
counted == {w \in D!TempIds : state[w] # "unborn" /\ ~stop[w]}
CounterExact ==
  /\ counter = Cardinality(counted)
  /\ \A w \in D!TempIds : stop[w] => state[w] \in {"check", "exited"}

\* A queue has the tasks that are due first, and those without delay are.
QueueSorted(q) ==
  \A i \in 1..Len(q) : /\ ~q[i].delayed => q[i].due
                       /\ q[i].due => \A j \in 1..i : q[j].due
QueuesSorted == \A w \in D!Workers : QueueSorted(queue[w])

\* A thread has a task in hand between taking and forgetting it, and one that is not busy
\* has only delayed tasks.
AtMostOne(q, b) ==
  /\ \A i, j \in 1..Len(q) : ~q[i].delayed /\ ~q[j].delayed => i = j
  /\ b # Nothing /\ ~b.delayed => \A i \in 1..Len(q) : q[i].delayed
PoolHonest(w) ==
  /\ ~busy[w] => body[w] = Nothing /\ \A i \in 1..Len(queue[w]) : queue[w][i].delayed
  /\ AtMostOne(queue[w], body[w])
BusyHonest ==
  /\ \A w \in D!Workers : state[w] \in {"unborn", "ready", "check"} => body[w] = Nothing
  /\ \A w \in D!PoolIds : PoolHonest(w)

\* A tid is given to one scheduler, and what is bound, or found to be, is that one.
BoundOnce ==
  /\ \A tid \in D!Tids : bound[tid] # Nothing => given[tid] = {bound[tid]}
  /\ \A tid \in D!Tids : tid >= HandlersCount + offset => given[tid] = {}
  /\ \A k \in Uploaders : call[k] # D!idle /\ call[k].pc = "context"
       => given[call[k].task.tid] = {call[k].to}

\* dispose() joins the threads one after the other, and they stay where they are.
Joined ==
  /\ disposer > 0 => isDisposed
  /\ \A i \in 1..Len(D!joinOrder) : i < disposer => state[D!joinOrder[i]] = "exited"
  /\ disposer = D!disposed => \A w \in D!TempIds : state[w] # "running"

DInv == /\ D!TypeOK /\ CallsTyped /\ CallsApart /\ CounterExact /\ QueuesSorted /\ BusyHonest
        /\ BoundOnce /\ D!TidsAreNotReused /\ Joined

------------------------------------------------------------------------------
\* A nonempty set of naturals has a least element, and Min is it.
LEMMA MinOfNats ==
  ASSUME NEW S \in SUBSET Nat, S # {}
  PROVE  D!Min(S) \in S /\ \A y \in S : D!Min(S) <= y
<1> DEFINE R == {p \in Nat \X Nat : p[1] < p[2]}
<1>1. OpToRel(<, Nat) = R
  BY Zenon DEF OpToRel
<1>2. IsWellFoundedOn(R, Nat)
  BY <1>1, NatLessThanWellFounded, Zenon
<1>3. PICK x \in S : \A y \in S : ~ (<<y, x>> \in R)
  BY <1>2, WFMin, Zenon
<1>4. ASSUME NEW y \in S
      PROVE  x <= y
  <2>1. <<y, x>> \in R <=> y < x
    OBVIOUS
  <2> QED
    BY <1>3, <2>1
<1> QED
  BY <1>4, Zenon DEF D!Min

\* add(): a task gets a place behind those that are due.
LEMMA InsertPlace ==
  ASSUME NEW q \in Seq(D!Task), NEW t \in D!Task, QueueSorted(q), t.due = ~t.delayed
  PROVE  /\ D!insert(q, t) \in Seq(D!Task) /\ Len(D!insert(q, t)) = Len(q) + 1
         /\ QueueSorted(D!insert(q, t))
         /\ \E p \in 1..(Len(q) + 1) : \A j \in 1..(Len(q) + 1) :
              D!insert(q, t)[j] = IF j < p THEN q[j] ELSE IF j = p THEN t ELSE q[j - 1]
<1> DEFINE n == Len(q)
           S == {i \in 1..n : ~q[i].due} \cup {n + 1}
           p == IF t.delayed THEN n + 1 ELSE D!after(q)
           r == D!insert(q, t)
<1>1. n \in Nat /\ \A i \in 1..n : q[i] \in D!Task
  OBVIOUS
<1>2. D!after(q) \in S /\ \A y \in S : D!after(q) <= y
  <2>1. S \in SUBSET Nat /\ S # {}
    BY <1>1
  <2> QED
    BY <2>1, MinOfNats, Zenon DEF D!after
<1>3. /\ p \in 1..(n + 1)
      /\ \A j \in 1..n : j < p /\ ~t.delayed => q[j].due
      /\ \A j \in 1..n : j >= p => ~q[j].due
  <2>1. ASSUME NEW j \in 1..n, j >= p PROVE ~q[j].due
    <3>1. p \in 1..n /\ p = D!after(q) /\ ~q[p].due
      BY <1>1, <1>2, <2>1
    <3> QED
      BY <1>1, <2>1, <3>1 DEF QueueSorted
  <2>2. p \in 1..(n + 1)
    BY <1>1, <1>2
  <2>3. ASSUME NEW j \in 1..n, j < p, ~t.delayed, ~q[j].due PROVE FALSE
    <3>1. j \in S
      BY <2>3
    <3> QED
      BY <1>2, <2>3, <3>1
  <2> QED
    BY <2>1, <2>2, <2>3
<1>4. r = [j \in 1..(n + 1) |-> IF j < p THEN q[j] ELSE IF j = p THEN t ELSE q[j - 1]]
  BY DEF D!insert
<1> HIDE DEF n, S, p, r
<1>5. \A j \in 1..(n + 1) : r[j] = IF j < p THEN q[j] ELSE IF j = p THEN t ELSE q[j - 1]
  BY <1>4
<1>6. \A j \in 1..(n + 1) : /\ j < p => j \in 1..n /\ r[j] = q[j]
                            /\ j = p => r[j] = t
                            /\ j > p => j - 1 \in 1..n /\ r[j] = q[j - 1]
  BY <1>1, <1>3, <1>5
<1>7. \A j \in 1..(n + 1) : (IF j < p THEN q[j] ELSE IF j = p THEN t ELSE q[j - 1]) \in D!Task
  BY <1>1, <1>3
<1>8. r \in Seq(D!Task) /\ Len(r) = n + 1
  BY <1>1, <1>4, <1>7
<1>9. QueueSorted(r)
  <2>1. \A i \in 1..n : /\ ~q[i].delayed => q[i].due
                        /\ q[i].due => \A j \in 1..i : q[j].due
    BY DEF QueueSorted, n
  <2>2. ASSUME NEW i \in 1..(n + 1) PROVE ~r[i].delayed => r[i].due
    <3>1. CASE i < p
      BY <1>6, <2>1, <3>1
    <3>2. CASE i = p
      BY <1>6, <3>2, Zenon
    <3>3. CASE i > p
      BY <1>6, <2>1, <3>3
    <3> QED
      BY <1>3, <3>1, <3>2, <3>3
  <2>3. ASSUME NEW i \in 1..(n + 1), r[i].due, NEW j \in 1..i PROVE r[j].due
    <3>1. i <= p
      <4>1. ASSUME i > p PROVE FALSE
        <5>1. i - 1 \in 1..n /\ r[i] = q[i - 1] /\ i - 1 >= p
          BY <1>1, <1>3, <1>6, <4>1
        <5> QED
          BY <1>3, <2>3, <5>1
      <4> QED
        BY <1>3, <4>1
    <3>2. CASE i < p
      <4>1. j \in 1..(n + 1) /\ j < p /\ i \in 1..n /\ r[i] = q[i] /\ r[j] = q[j]
        BY <1>1, <1>3, <1>6, <3>2
      <4> QED
        BY <2>1, <2>3, <4>1
    <3>3. CASE i = p
      <4>1. CASE j = p
        BY <2>3, <3>3, <4>1
      <4>2. CASE j # p
        <5>1. j \in 1..n /\ j < p /\ r[j] = q[j] /\ r[i] = t
          BY <1>1, <1>3, <1>6, <3>3, <4>2
        <5> QED
          BY <1>3, <2>3, <5>1, Zenon
      <4> QED
        BY <4>1, <4>2
    <3> QED
      BY <1>3, <3>1, <3>2, <3>3
  <2> QED
    BY <1>8, <2>2, <2>3 DEF QueueSorted
<1> QED
  BY <1>3, <1>5, <1>8, <1>9, Zenon DEF n, r, p

\* The threads have ids of their own.
LEMMA ThreadIds ==
  /\ \A w \in D!TempIds : w \notin D!HandlerIds /\ w \notin D!PoolIds /\ w \notin D!BoundIds
  /\ \A w \in D!PoolIds : w \notin D!HandlerIds /\ w \notin D!BoundIds
  /\ \A w \in D!HandlerIds : w \notin D!BoundIds
  /\ D!HandlerIds \subseteq D!Workers /\ D!PoolIds \subseteq D!Workers
       /\ D!TempIds \subseteq D!Workers
  /\ D!BoundIds \subseteq D!Workers
  /\ \A i \in 1..Len(D!joinOrder) : D!joinOrder[i] \in D!HandlerIds \cup D!PoolIds
  /\ \A w \in D!HandlerIds \cup D!PoolIds : \E i \in 1..Len(D!joinOrder) : D!joinOrder[i] = w
  /\ Len(D!joinOrder) = HandlersCount + PoolSize
<1>1. Len(D!joinOrder) = HandlersCount + PoolSize
        /\ DOMAIN D!joinOrder = 1..(HandlersCount + PoolSize)
  <2>1. HandlersCount + PoolSize \in Nat
    BY DispatcherAssumption
  <2>2. D!joinOrder \in Seq(D!HandlerIds \cup D!PoolIds)
    <3>1. \A i \in 1..(HandlersCount + PoolSize) :
            /\ i <= HandlersCount => i - 1 \in 0..(HandlersCount - 1)
            /\ ~(i <= HandlersCount) => i - HandlersCount \in 1..PoolSize
      BY DispatcherAssumption
    <3>2. D!joinOrder \in [1..(HandlersCount + PoolSize) -> D!HandlerIds \cup D!PoolIds]
      BY <3>1 DEF D!joinOrder, D!HandlerIds, D!PoolIds
    <3> QED
      BY <2>1, <3>2
  <2>3. DOMAIN D!joinOrder = 1..(HandlersCount + PoolSize)
    BY DEF D!joinOrder
  <2> QED
    BY <2>1, <2>2, <2>3
<1>2. ASSUME NEW i \in 1..(HandlersCount + PoolSize)
      PROVE  D!joinOrder[i] \in D!HandlerIds \cup D!PoolIds
  <2>1. CASE i <= HandlersCount
    <3>1. i - 1 \in 0..(HandlersCount - 1) /\ D!joinOrder[i] = <<"handler", i - 1>>
      BY <2>1, DispatcherAssumption DEF D!joinOrder
    <3> QED
      BY <3>1 DEF D!HandlerIds
  <2>2. CASE ~(i <= HandlersCount)
    <3>1. i - HandlersCount \in 1..PoolSize /\ D!joinOrder[i] = <<"pool", i - HandlersCount>>
      BY <2>2, DispatcherAssumption DEF D!joinOrder
    <3> QED
      BY <3>1 DEF D!PoolIds
  <2> QED
    BY <2>1, <2>2
<1>3. ASSUME NEW w \in D!HandlerIds
      PROVE  \E i \in 1..(HandlersCount + PoolSize) : D!joinOrder[i] = w
  <2>1. PICK n \in 0..(HandlersCount - 1) : w = <<"handler", n>>
    BY DEF D!HandlerIds
  <2>2. n + 1 \in 1..(HandlersCount + PoolSize) /\ n + 1 <= HandlersCount /\ (n + 1) - 1 = n
    BY DispatcherAssumption
  <2>3. D!joinOrder[n + 1] = w
    BY <2>1, <2>2 DEF D!joinOrder
  <2> QED
    BY <2>2, <2>3
<1>4. ASSUME NEW w \in D!PoolIds
      PROVE  \E i \in 1..(HandlersCount + PoolSize) : D!joinOrder[i] = w
  <2>1. PICK n \in 1..PoolSize : w = <<"pool", n>>
    BY DEF D!PoolIds
  <2>2. /\ n + HandlersCount \in 1..(HandlersCount + PoolSize)
        /\ ~(n + HandlersCount <= HandlersCount) /\ (n + HandlersCount) - HandlersCount = n
    BY DispatcherAssumption
  <2>3. D!joinOrder[n + HandlersCount] = w
    BY <2>1, <2>2 DEF D!joinOrder
  <2> QED
    BY <2>2, <2>3
<1>5. /\ \A w \in D!TempIds : w \notin D!HandlerIds /\ w \notin D!PoolIds /\ w \notin D!BoundIds
      /\ \A w \in D!PoolIds : w \notin D!HandlerIds /\ w \notin D!BoundIds
      /\ \A w \in D!HandlerIds : w \notin D!BoundIds
  BY DEF D!TempIds, D!HandlerIds, D!PoolIds, D!BoundIds
<1> QED
  BY <1>1, <1>2, <1>3, <1>4, <1>5 DEF D!Workers, D!Owned

LEMMA JoinLength == Len(D!joinOrder) \in Nat
<1>1. Len(D!joinOrder) = HandlersCount + PoolSize
  BY ThreadIds, Zenon
<1> QED
  BY <1>1, DispatcherAssumption

\* upload(): one thread's queue gets the task, at some place.
LEMMA UploadStep ==
  ASSUME D!TypeOK, QueuesSorted, NEW w \in D!Workers, NEW t \in D!Task,
         t.due = ~t.delayed, D!upload(w, t)
  PROVE  /\ queue' \in [D!Workers -> Seq(D!Task)] /\ busy' \in [D!Workers -> BOOLEAN]
              /\ QueuesSorted'
         /\ \A v \in D!Workers : v # w => queue'[v] = queue[v] /\ busy'[v] = busy[v]
         /\ busy'[w] = (busy[w] \/ ~t.delayed)
         /\ Len(queue'[w]) = Len(queue[w]) + 1
         /\ \E p \in 1..(Len(queue[w]) + 1) : \A j \in 1..(Len(queue[w]) + 1) :
              queue'[w][j] = IF j < p THEN queue[w][j] ELSE IF j = p THEN t ELSE queue[w][j - 1]
<1> DEFINE q == queue[w]
           r == D!insert(q, t)
<1>1. q \in Seq(D!Task) /\ QueueSorted(q) /\ queue \in [D!Workers -> Seq(D!Task)]
  BY DEF D!TypeOK, QueuesSorted
<1>2. /\ r \in Seq(D!Task) /\ Len(r) = Len(q) + 1 /\ QueueSorted(r)
      /\ \E p \in 1..(Len(q) + 1) : \A j \in 1..(Len(q) + 1) :
           r[j] = IF j < p THEN q[j] ELSE IF j = p THEN t ELSE q[j - 1]
  BY <1>1, InsertPlace
<1>3. queue' = [queue EXCEPT ![w] = r]
  BY DEF D!upload
<1> HIDE DEF r
<1>4. queue'[w] = r /\ queue' \in [D!Workers -> Seq(D!Task)] /\ \A v \in D!Workers : v # w
        => queue'[v] = queue[v]
  BY <1>1, <1>2, <1>3
<1>5. QueuesSorted'
  BY <1>2, <1>4, Zenon DEF QueuesSorted
<1>6. /\ busy' \in [D!Workers -> BOOLEAN] /\ busy'[w] = (busy[w] \/ ~t.delayed)
      /\ \A v \in D!Workers : v # w => busy'[v] = busy[v]
  BY DEF D!upload, D!TypeOK, D!Task
<1> QED
  BY <1>2, <1>4, <1>5, <1>6, Zenon

\* elapse(): the first task that is not due becomes so.
LEMMA ElapseStep ==
  ASSUME D!TypeOK, QueuesSorted, NEW w \in D!Workers, D!elapse(w)
  PROVE  /\ queue' \in [D!Workers -> Seq(D!Task)] /\ QueuesSorted'
         /\ \A v \in D!Workers : v # w => queue'[v] = queue[v]
         /\ Len(queue'[w]) = Len(queue[w])
         /\ \A j \in 1..Len(queue[w]) : /\ queue'[w][j].delayed = queue[w][j].delayed
                                        /\ queue'[w][j].tid = queue[w][j].tid
<1> DEFINE q == queue[w]
           r == queue'[w]
<1>1. PICK i \in 1..Len(q) : /\ ~q[i].due /\ \A j \in 1..(i - 1) : q[j].due
                             /\ queue' = [queue EXCEPT ![w] = [q EXCEPT ![i].due = TRUE]]
  BY Zenon DEF D!elapse
<1>2. q \in Seq(D!Task) /\ QueueSorted(q) /\ queue \in [D!Workers -> Seq(D!Task)]
  BY DEF D!TypeOK, QueuesSorted
<1>3. r = [q EXCEPT ![i] = [q[i] EXCEPT !.due = TRUE]] /\ \A v \in D!Workers : v # w
        => queue'[v] = queue[v]
  BY <1>1, <1>2
<1>4. q[i] \in D!Task
  BY <1>2
<1>5. /\ [q[i] EXCEPT !.due = TRUE] \in D!Task /\ [q[i] EXCEPT !.due = TRUE].due
      /\ [q[i] EXCEPT !.due = TRUE].delayed = q[i].delayed
           /\ [q[i] EXCEPT !.due = TRUE].tid = q[i].tid
  BY <1>4, Zenon DEF D!Task
<1>6. /\ r \in Seq(D!Task) /\ Len(r) = Len(q) /\ \A j \in 1..Len(q) : j # i => r[j] = q[j]
      /\ r[i].due /\ r[i].delayed = q[i].delayed /\ r[i].tid = q[i].tid
  BY <1>2, <1>3, <1>5
<1>7. QueueSorted(r)
  <2>1. ASSUME NEW m \in 1..Len(q) PROVE ~r[m].delayed => r[m].due
    <3>1. CASE m = i
      BY <1>6, <3>1
    <3>2. CASE m # i
      BY <1>2, <1>6, <3>2 DEF QueueSorted
    <3> QED
      BY <3>1, <3>2
  <2>2. ASSUME NEW m \in 1..Len(q), r[m].due, NEW j \in 1..m PROVE r[j].due
    <3>0. j \in 1..Len(q) /\ Len(q) \in Nat
      BY <1>2
    <3>1. CASE j = i
      BY <1>6, <3>1
    <3>2. CASE j # i /\ m = i
      <4>1. j \in 1..(i - 1)
        BY <3>2, <3>0
      <4> QED
        BY <1>1, <1>6, <3>0, <3>2, <4>1
    <3>3. CASE j # i /\ m # i
      BY <1>2, <1>6, <2>2, <3>0, <3>3 DEF QueueSorted
    <3> QED
      BY <3>1, <3>2, <3>3
  <2> QED
    BY <1>6, <2>1, <2>2 DEF QueueSorted
<1>8. queue' \in [D!Workers -> Seq(D!Task)]
  <2>1. [q EXCEPT ![i].due = TRUE] \in Seq(D!Task)
    BY <1>3, <1>6, <1>1, <1>2
  <2> QED
    BY <1>1, <1>2, <2>1
<1>9. QueuesSorted'
  BY <1>2, <1>3, <1>7 DEF QueuesSorted
<1> QED
  BY <1>3, <1>6, <1>8, <1>9

\* take(): the first task leaves the queue.
LEMMA TakeStep ==
  ASSUME D!TypeOK, QueuesSorted, NEW w \in D!Workers, D!take(w)
  PROVE  /\ queue' \in [D!Workers -> Seq(D!Task)] /\ QueuesSorted'
         /\ \A v \in D!Workers : v # w
              => queue'[v] = queue[v] /\ body'[v] = body[v] /\ busy'[v] = busy[v]
         /\ Len(queue[w]) > 0 /\ Len(queue'[w]) = Len(queue[w]) - 1
         /\ \A j \in 1..Len(queue'[w]) : j + 1 \in 1..Len(queue[w])
              /\ queue'[w][j] = queue[w][j + 1]
         /\ body'[w] = queue[w][1] /\ body'[w] \in D!Task /\ busy'[w]
<1> DEFINE q == queue[w]
           r == Tail(q)
<1>1. q \in Seq(D!Task) /\ QueueSorted(q) /\ queue \in [D!Workers -> Seq(D!Task)] /\ q # <<>>
  BY DEF D!TypeOK, QueuesSorted, D!take
<1>2. /\ r \in Seq(D!Task) /\ Len(q) \in Nat /\ Len(q) > 0 /\ Len(r) = Len(q) - 1 /\ Head(q) = q[1]
      /\ Head(q) \in D!Task /\ \A j \in 1..Len(r) : j + 1 \in 1..Len(q) /\ r[j] = q[j + 1]
  BY <1>1
<1>3. queue' = [queue EXCEPT ![w] = r]
  BY DEF D!take
<1> HIDE DEF r
<1>4. queue'[w] = r /\ queue' \in [D!Workers -> Seq(D!Task)] /\ \A v \in D!Workers : v # w
        => queue'[v] = queue[v]
  BY <1>1, <1>2, <1>3
<1>5. QueueSorted(r)
  <2>1. ASSUME NEW m \in 1..Len(r) PROVE ~r[m].delayed => r[m].due
    BY <1>1, <1>2 DEF QueueSorted
  <2>2. ASSUME NEW m \in 1..Len(r), r[m].due, NEW j \in 1..m PROVE r[j].due
    <3>1. /\ j \in 1..Len(r) /\ r[m] = q[m + 1] /\ r[j] = q[j + 1]
          /\ m + 1 \in 1..Len(q) /\ j + 1 \in 1..(m + 1)
      BY <1>2
    <3> QED
      BY <1>1, <2>2, <3>1 DEF QueueSorted
  <2> QED
    BY <2>1, <2>2 DEF QueueSorted
<1>6. QueuesSorted'
  BY <1>1, <1>4, <1>5, Zenon DEF QueuesSorted
<1>7. /\ body'[w] = Head(q) /\ busy'[w]
      /\ \A v \in D!Workers : v # w => body'[v] = body[v] /\ busy'[v] = busy[v]
  BY DEF D!take, D!TypeOK
<1> QED
  BY <1>2, <1>4, <1>6, <1>7

------------------------------------------------------------------------------
\* What a call under way has in hand.
LEMMA CallFacts ==
  ASSUME CallsTyped, NEW k \in Uploaders, call[k].pc # "idle"
  PROVE  /\ call[k] # D!idle /\ call[k].task \in D!Task /\ call[k].task.due = ~call[k].task.delayed
         /\ call[k].task.id \in D!Calls /\ call[k].task.id <= calls
         /\ <<"temp", call[k].task.id>> \in D!TempIds
         /\ call[k].pc = "handler" => <<"handler", call[k].task.tid>> \in D!HandlerIds
         /\ call[k].pc = "context" => call[k].to \in Schedulers
         /\ call[k].pc = "pool" =>
              call[k].i \in Nat /\ call[k] = [pc |-> "pool", task |-> call[k].task, i |-> call[k].i]
         /\ call[k].pc \in {"handler", "find", "count", "temp"} =>
              call[k] = [pc |-> call[k].pc, task |-> call[k].task]
<1>1. call[k] # D!idle /\ call[k] \in CallStates
  BY DEF CallsTyped, D!idle
<1>2. /\ call[k].task \in D!Task
      /\ call[k].pc = "context" => call[k].to \in Schedulers
      /\ call[k].pc = "pool" =>
           call[k].i \in Nat /\ call[k] = [pc |-> "pool", task |-> call[k].task, i |-> call[k].i]
      /\ call[k].pc \in {"handler", "find", "count", "temp"} =>
           call[k] = [pc |-> call[k].pc, task |-> call[k].task]
  BY <1>1 DEF CallStates
<1>3. /\ call[k].task.due = ~call[k].task.delayed /\ call[k].task.id <= calls
      /\ call[k].pc = "handler" => call[k].task.tid < HandlersCount
  BY <1>1 DEF CallsTyped
<1>4. call[k].task.id \in D!Calls /\ call[k].task.tid \in D!Tids
  BY <1>2 DEF D!Task
<1>5. <<"temp", call[k].task.id>> \in D!TempIds
  BY <1>4 DEF D!TempIds
<1>6. ASSUME call[k].pc = "handler"
      PROVE  <<"handler", call[k].task.tid>> \in D!HandlerIds
  <2>1. call[k].task.tid \in 0..(HandlersCount - 1)
    BY <1>3, <1>4, <1>6, DispatcherAssumption DEF D!Tids, D!InPool
  <2> QED
    BY <2>1 DEF D!HandlerIds
<1> QED
  BY <1>1, <1>2, <1>3, <1>4, <1>5, <1>6, Zenon

\* A call ends when its task is handed over: to a thread of the pool that is free, or to
\* the scheduler the call has found.
HandsOver(k, w) ==
  /\ call[k].pc # "idle"
  /\ D!upload(w, call[k].task)
  /\ call' = [call EXCEPT ![k] = D!idle]
  /\ UNCHANGED <<isDisposed, counter, D!bounds, stop, state, body, disposer, calls, done, leaked>>
  /\ w \in D!PoolIds => ~busy[w]
  /\ w \in D!BoundIds => call[k].pc = "context" /\ w = <<"bound", call[k].to>>

\* The thread of the pool asked is busy.
Refused(k) ==
  /\ call[k].pc = "pool"
  /\ call' = [call EXCEPT ![k] = IF call[k].i < PoolSize THEN [@ EXCEPT !.i = call[k].i + 1]
                                 ELSE D!afterPool(call[k].task)]
  /\ UNCHANGED <<isDisposed, counter, D!bounds, D!threads, disposer, calls, done, leaked>>

OfCaller(k) == \/ D!enter(k) \/ D!findContext(k) \/ Refused(k) \/ D!startTemp(k)
               \/ \E w \in D!Workers : HandsOver(k, w)
OfThread(w) == \/ D!take(w) \/ D!rest(w) \/ D!check(w) \/ D!start(w) \/ D!finish(w) \/ D!throw(w)
               \/ D!release(w) \/ D!elapse(w)
OfBinding == (\E s \in Schedulers : D!bind(s)) \/ (\E tid \in D!Tids : D!unbind(tid))
OfDispose == D!disposeBegin \/ D!disposeStop \/ D!disposeJoin \/ D!disposeEnd

\* The steps, by what they do.
LEMMA StepCases ==
  ASSUME D!TypeOK, CallsTyped, [D!Next]_(D!vars)
  PROVE  \/ \E k \in Uploaders : OfCaller(k)
         \/ \E w \in D!Workers : OfThread(w)
         \/ OfBinding \/ OfDispose \/ UNCHANGED D!vars
<1>1. ASSUME NEW k \in Uploaders, D!uploadToHandler(k)
      PROVE  OfCaller(k)
  <2>1. CASE D!toHandler(k)
    <3>1. call[k].pc = "handler" /\ call[k].pc # "idle"
      BY <2>1 DEF D!toHandler
    <3>2. <<"handler", call[k].task.tid>> \in D!HandlerIds
      BY <3>1, CallFacts, Zenon
    <3>3. HandsOver(k, <<"handler", call[k].task.tid>>)
      BY <2>1, <3>1, <3>2, ThreadIds DEF D!toHandler, HandsOver
    <3> QED
      BY <3>2, <3>3, ThreadIds DEF OfCaller
  <2>2. CASE D!toContext(k)
    <3>1. call[k].pc = "context" /\ call[k].pc # "idle"
      BY <2>2 DEF D!toContext
    <3>2. <<"bound", call[k].to>> \in D!BoundIds
      BY <3>1, CallFacts, Zenon DEF D!BoundIds
    <3>3. HandsOver(k, <<"bound", call[k].to>>)
      BY <2>2, <3>1, <3>2, ThreadIds DEF D!toContext, HandsOver
    <3> QED
      BY <3>2, <3>3, ThreadIds DEF OfCaller
  <2>3. CASE D!toTemp(k)
    <3>1. call[k].pc = "temp" /\ call[k].pc # "idle"
      BY <2>3 DEF D!toTemp
    <3>2. <<"temp", call[k].task.id>> \in D!TempIds
      BY <3>1, CallFacts, Zenon
    <3>3. HandsOver(k, <<"temp", call[k].task.id>>)
      BY <2>3, <3>1, <3>2, ThreadIds DEF D!toTemp, HandsOver
    <3> QED
      BY <3>2, <3>3, ThreadIds DEF OfCaller
  <2>4. CASE D!tryPool(k)
    <3>1. call[k].pc = "pool" /\ call[k].pc # "idle"
      BY <2>4 DEF D!tryPool
    <3>2. CASE call[k].i \in 1..PoolSize /\ D!free(<<"pool", call[k].i>>)
      <4>1. <<"pool", call[k].i>> \in D!PoolIds
        BY <3>2 DEF D!PoolIds
      <4>2. HandsOver(k, <<"pool", call[k].i>>)
        BY <2>4, <3>1, <3>2, <4>1, ThreadIds DEF D!tryPool, HandsOver, D!free
      <4> QED
        BY <4>1, <4>2, ThreadIds DEF OfCaller
    <3>3. CASE ~(call[k].i \in 1..PoolSize /\ D!free(<<"pool", call[k].i>>))
      <4>1. Refused(k)
        BY <2>4, <3>1, <3>3 DEF D!tryPool, Refused, D!threads
      <4> QED
        BY <4>1 DEF OfCaller
    <3> QED
      BY <3>2, <3>3
  <2> QED
    BY <1>1, <2>1, <2>2, <2>3, <2>4, Zenon DEF D!uploadToHandler, OfCaller
<1> QED
  BY <1>1, Zenon DEF D!Next, D!process, D!dispose, OfCaller, OfThread, OfBinding, OfDispose

\* The calls keep their types.
LEMMA CallsTypedStep ==
  ASSUME D!TypeOK, CallsTyped, [D!Next]_(D!vars)
  PROVE  CallsTyped'
<1>1. ASSUME NEW k \in Uploaders, OfCaller(k)
      PROVE  CallsTyped'
  <2>1. CASE D!enter(k)
    <3>1. PICK tid \in D!Tids, delayed \in BOOLEAN :
            /\ calls < MaxTasks /\ calls' = calls + 1
            /\ call' = [call EXCEPT ![k] =
                          IF isDisposed THEN D!idle
                          ELSE [pc |-> IF tid < HandlersCount THEN "handler" ELSE "find",
                                task |-> [id |-> calls + 1, tid |-> tid, delayed |-> delayed,
                                          due |-> ~delayed]]]
            /\ given' = given
      BY <2>1, Zenon DEF D!enter, D!bounds
    <3> DEFINE t == [id |-> calls + 1, tid |-> tid, delayed |-> delayed, due |-> ~delayed]
               c == [pc |-> IF tid < HandlersCount THEN "handler" ELSE "find", task |-> t]
    <3>2. calls' \in 0..MaxTasks /\ calls + 1 \in D!Calls /\ calls \in Nat
      BY <3>1, DispatcherAssumption DEF CallsTyped, D!Calls
    <3>3. t \in D!Task /\ t.id = calls + 1 /\ t.due = ~t.delayed /\ t.tid = tid
      BY <3>2 DEF D!Task
    <3>4. c \in CallStates /\ c.task = t /\ (c.pc = "handler" => tid < HandlersCount)
      BY <3>3 DEF CallStates
    <3>5. call' = [call EXCEPT ![k] = IF isDisposed THEN D!idle ELSE c]
      BY <3>1
    <3> HIDE DEF c, t
    <3>6. D!idle \in CallStates
      BY DEF CallStates
    <3>7. call' \in [Uploaders -> CallStates]
      BY <3>4, <3>5, <3>6 DEF CallsTyped
    <3>8. ASSUME NEW l \in Uploaders, call'[l] # D!idle
          PROVE  /\ call'[l].task.id <= calls' /\ call'[l].task.due = ~call'[l].task.delayed
                 /\ call'[l].pc = "handler" => call'[l].task.tid < HandlersCount
      <4>1. CASE l = k
        <5>1. call'[l] = c
          BY <3>5, <3>8, <4>1, Zenon DEF CallsTyped
        <5> QED
          BY <3>1, <3>2, <3>3, <3>4, <5>1
      <4>2. CASE l # k
        <5>1. call'[l] = call[l]
          BY <3>5, <4>2 DEF CallsTyped
        <5>2. call[l].pc # "idle" /\ call[l] # D!idle
          BY <3>8, <5>1 DEF CallsTyped, CallStates, D!idle
        <5>3. call[l].task.id \in Nat
          <6>1. call[l].task.id \in D!Calls
            BY <5>2, CallFacts, Zenon
          <6> QED
            BY <6>1, DispatcherAssumption DEF D!Calls
        <5> QED
          BY <3>1, <3>2, <3>8, <5>1, <5>3 DEF CallsTyped
      <4> QED
        BY <4>1, <4>2
    <3> QED
      BY <3>1, <3>2, <3>7, <3>8 DEF CallsTyped
  <2>2. CASE D!findContext(k)
    <3> DEFINE t == call[k].task
               c == IF t.tid < D!InPool /\ bound[t.tid] # Nothing
                    THEN [pc |-> "context", task |-> t, to |-> bound[t.tid]]
                    ELSE [pc |-> "pool", task |-> t, i |-> 1]
    <3>1. /\ call[k].pc # "idle" /\ call' = [call EXCEPT ![k] = c] /\ calls' = calls
               /\ given' = given
      BY <2>2 DEF D!findContext, D!bounds
    <3>2. t \in D!Task /\ t.tid \in D!Tids /\ t.id <= calls /\ t.due = ~t.delayed
      BY <3>1, CallFacts, Zenon DEF D!Task
    <3>3. bound[t.tid] # Nothing => bound[t.tid] \in Schedulers
      BY <3>2 DEF D!TypeOK
    <3>4. c \in CallStates /\ c.task = t /\ c.pc # "handler"
      BY <3>2, <3>3 DEF CallStates
    <3> HIDE DEF c, t
    <3>5. /\ call' \in [Uploaders -> CallStates] /\ call'[k] = c
          /\ \A l \in Uploaders : l # k => call'[l] = call[l]
      BY <3>1, <3>4 DEF CallsTyped
    <3> QED
      BY <3>1, <3>2, <3>4, <3>5 DEF CallsTyped
  <2>3. CASE Refused(k)
    <3> DEFINE t == call[k].task
               c == IF call[k].i < PoolSize THEN [call[k] EXCEPT !.i = call[k].i + 1]
                    ELSE D!afterPool(t)
    <3>1. /\ call[k].pc = "pool" /\ call' = [call EXCEPT ![k] = c] /\ calls' = calls
               /\ given' = given
      BY <2>3 DEF Refused, D!bounds
    <3>2. /\ t \in D!Task /\ t.id <= calls /\ t.due = ~t.delayed
          /\ call[k].i \in Nat /\ call[k] = [pc |-> "pool", task |-> t, i |-> call[k].i]
      BY <3>1, CallFacts, Zenon
    <3>3. [call[k] EXCEPT !.i = call[k].i + 1] = [pc |-> "pool", task |-> t, i |-> call[k].i + 1]
      BY <3>2
    <3>4. c \in CallStates /\ c.task = t /\ c.pc # "handler"
      BY <3>2, <3>3 DEF CallStates, D!afterPool
    <3> HIDE DEF c, t
    <3>5. /\ call' \in [Uploaders -> CallStates] /\ call'[k] = c
          /\ \A l \in Uploaders : l # k => call'[l] = call[l]
      BY <3>1, <3>4 DEF CallsTyped
    <3> QED
      BY <3>1, <3>2, <3>4, <3>5 DEF CallsTyped
  <2>4. CASE D!startTemp(k)
    <3> DEFINE t == call[k].task
               c == [call[k] EXCEPT !.pc = "temp"]
    <3>1. /\ call[k].pc = "count" /\ call' = [call EXCEPT ![k] = c] /\ calls' = calls
               /\ given' = given
      BY <2>4 DEF D!startTemp, D!bounds
    <3>2. t \in D!Task /\ t.id <= calls /\ t.due = ~t.delayed
            /\ call[k] = [pc |-> "count", task |-> t]
      BY <3>1, CallFacts, Zenon
    <3>3. c = [pc |-> "temp", task |-> t]
      BY <3>2
    <3>4. c \in CallStates /\ c.task = t /\ c.pc # "handler"
      BY <3>2, <3>3 DEF CallStates
    <3> HIDE DEF c, t
    <3>5. /\ call' \in [Uploaders -> CallStates] /\ call'[k] = c
          /\ \A l \in Uploaders : l # k => call'[l] = call[l]
      BY <3>1, <3>4 DEF CallsTyped
    <3> QED
      BY <3>1, <3>2, <3>4, <3>5 DEF CallsTyped
  <2>5. CASE \E w \in D!Workers : HandsOver(k, w)
    <3>1. call' = [call EXCEPT ![k] = D!idle] /\ calls' = calls /\ given' = given
      BY <2>5 DEF HandsOver, D!bounds
    <3>2. D!idle \in CallStates
      BY DEF CallStates
    <3>3. /\ call' \in [Uploaders -> CallStates] /\ call'[k] = D!idle
          /\ \A l \in Uploaders : l # k => call'[l] = call[l]
      BY <3>1, <3>2 DEF CallsTyped
    <3> QED
      BY <3>1, <3>3 DEF CallsTyped
  <2> QED
    BY <1>1, <2>1, <2>2, <2>3, <2>4, <2>5, Zenon DEF OfCaller
<1>2. ASSUME NEW w \in D!Workers, OfThread(w)
      PROVE  UNCHANGED <<call, calls, given>>
  BY <1>2 DEF OfThread, D!take, D!rest, D!check, D!start, D!finish, D!throw, D!release,
     D!elapse, D!bounds
<1>3. ASSUME OfBinding
      PROVE  CallsTyped'
  <2>1. CASE \E tid \in D!Tids : D!unbind(tid)
    BY <2>1 DEF D!unbind, CallsTyped
  <2>2. ASSUME NEW s \in Schedulers, D!bind(s)
        PROVE  CallsTyped'
    <3>1. /\ call' = call /\ calls' = calls /\ HandlersCount + offset \in D!Tids
          /\ given' = [given EXCEPT ![HandlersCount + offset] = @ \cup {s}]
      BY <2>2, DispatcherAssumption DEF D!bind, D!TypeOK, D!Tids, D!InPool
    <3>2. given' \in [D!Tids -> SUBSET Schedulers]
      BY <3>1 DEF CallsTyped
    <3> QED
      BY <3>1, <3>2 DEF CallsTyped
  <2> QED
    BY <1>3, <2>1, <2>2, SMTT(20) DEF OfBinding
<1>4. ASSUME OfDispose
      PROVE  UNCHANGED <<call, calls, given>>
  BY <1>4 DEF OfDispose, D!disposeBegin, D!disposeStop, D!disposeJoin, D!disposeEnd, D!bounds
<1>5. ASSUME UNCHANGED <<call, calls, given>>
      PROVE  CallsTyped'
  BY <1>5 DEF CallsTyped
<1>6. CASE UNCHANGED D!vars
  BY <1>5, <1>6 DEF D!vars
<1> QED
  BY <1>1, <1>2, <1>3, <1>4, <1>5, <1>6, StepCases

\* Everything else keeps its types, and the queues stay sorted.
LEMMA TypeStep ==
  ASSUME D!TypeOK, CallsTyped, QueuesSorted, counter' \in Nat, [D!Next]_(D!vars)
  PROVE  D!TypeOK' /\ QueuesSorted'
<1>1. ASSUME NEW k \in Uploaders, OfCaller(k)
      PROVE  D!TypeOK' /\ QueuesSorted'
  <2>1. CASE D!enter(k) \/ D!findContext(k) \/ Refused(k)
    BY <2>1 DEF D!enter, D!findContext, Refused, D!bounds, D!threads, D!TypeOK, QueuesSorted,
       D!disposed
  <2>2. CASE D!startTemp(k)
    BY <2>2, Zenon DEF D!startTemp, D!bounds, D!TypeOK, QueuesSorted, D!disposed
  <2>3. ASSUME NEW w \in D!Workers, HandsOver(k, w)
        PROVE  D!TypeOK' /\ QueuesSorted'
    <3>1. call[k].task \in D!Task /\ call[k].task.due = ~call[k].task.delayed
            /\ D!upload(w, call[k].task)
      BY <2>3, CallFacts, Zenon DEF HandsOver
    <3>2. queue' \in [D!Workers -> Seq(D!Task)] /\ busy' \in [D!Workers -> BOOLEAN] /\ QueuesSorted'
      BY <3>1, UploadStep, Zenon
    <3> QED
      BY <2>3, <3>2, Zenon DEF HandsOver, D!bounds, D!TypeOK, D!disposed
  <2> QED
    BY <1>1, <2>1, <2>2, <2>3 DEF OfCaller
<1>2. ASSUME NEW w \in D!Workers, OfThread(w)
      PROVE  D!TypeOK' /\ QueuesSorted'
  <2>1. CASE D!take(w)
    <3>1. queue' \in [D!Workers -> Seq(D!Task)] /\ QueuesSorted' /\ body'[w] \in D!Task
      BY <2>1, TakeStep
    <3>2. Head(queue[w]) \in D!Task
      BY <2>1, <3>1 DEF D!take, D!TypeOK
    <3> QED
      BY <2>1, <3>1, <3>2 DEF D!take, D!bounds, D!TypeOK, D!disposed
  <2>2. CASE D!elapse(w)
    <3>1. queue' \in [D!Workers -> Seq(D!Task)] /\ QueuesSorted'
      BY <2>2, ElapseStep, Zenon
    <3> QED
      BY <2>2, <3>1 DEF D!elapse, D!bounds, D!TypeOK, D!disposed
  <2>3. CASE D!rest(w) \/ D!start(w) \/ D!finish(w)
    BY <2>3, Zenon DEF D!rest, D!start, D!finish, D!bounds, D!TypeOK, QueuesSorted, D!disposed
  <2>4. CASE D!check(w)
    BY <2>4, Zenon DEF D!check, D!bounds, D!TypeOK, QueuesSorted, D!disposed
  <2>5. CASE D!throw(w)
    BY <2>5 DEF D!throw, D!bounds, D!TypeOK, QueuesSorted, D!disposed
  <2>6. CASE D!release(w)
    BY <2>6, Zenon DEF D!release, D!bounds, D!TypeOK, QueuesSorted, D!disposed
  <2> QED
    BY <1>2, <2>1, <2>2, <2>3, <2>4, <2>5, <2>6 DEF OfThread
<1>3. ASSUME OfBinding
      PROVE  D!TypeOK' /\ QueuesSorted'
  <2>1. ASSUME NEW s \in Schedulers, D!bind(s)
        PROVE  D!TypeOK' /\ QueuesSorted'
    <3>1. offset' \in 0..MaxBinds
      BY <2>1, DispatcherAssumption DEF D!bind, D!nextOffset, D!TypeOK
    <3> QED
      BY <2>1, <3>1, Zenon DEF D!bind, D!threads, D!TypeOK, QueuesSorted, D!disposed
  <2>2. ASSUME NEW tid \in D!Tids, D!unbind(tid)
        PROVE  D!TypeOK' /\ QueuesSorted'
    BY <2>2 DEF D!unbind, D!threads, D!TypeOK, QueuesSorted, D!disposed
  <2> QED
    BY <1>3, <2>1, <2>2 DEF OfBinding
<1>4. ASSUME OfDispose
      PROVE  D!TypeOK' /\ QueuesSorted'
  <2>1. Len(D!joinOrder) \in Nat /\ \A i \in 1..Len(D!joinOrder) : D!joinOrder[i] \in D!Workers
    BY ThreadIds, JoinLength, Zenon
  <2>2. CASE D!disposeBegin
    BY <2>1, <2>2 DEF D!disposeBegin, D!bounds, D!threads, D!TypeOK, QueuesSorted, D!disposed
  <2>3. CASE D!disposeStop
    BY <2>1, <2>3, Zenon DEF D!disposeStop, D!bounds, D!TypeOK, QueuesSorted, D!disposed
  <2>4. CASE D!disposeJoin
    BY <2>1, <2>4 DEF D!disposeJoin, D!bounds, D!threads, D!TypeOK, QueuesSorted, D!disposed
  <2>5. CASE D!disposeEnd
    BY <2>1, <2>5 DEF D!disposeEnd, D!bounds, D!threads, D!TypeOK, QueuesSorted, D!disposed
  <2> QED
    BY <1>4, <2>2, <2>3, <2>4, <2>5 DEF OfDispose
<1>5. CASE UNCHANGED D!vars
  BY <1>5 DEF D!vars, D!TypeOK, QueuesSorted, D!disposed
<1> QED
  BY <1>1, <1>2, <1>3, <1>4, <1>5, StepCases

\* The temporary threads counted are finitely many.
LEMMA CountedFinite == IsFiniteSet(counted)
<1>1. IsFiniteSet(D!Calls)
  BY FS_Interval, DispatcherAssumption DEF D!Calls
<1> DEFINE f == [c \in D!Calls |-> <<"temp", c>>]
<1>2. f \in Surjection(D!Calls, D!TempIds)
  BY DEF Surjection, D!TempIds
<1>3. IsFiniteSet(D!TempIds)
  BY <1>1, <1>2, FS_Surjection, Zenon
<1> QED
  BY <1>3, FS_Subset DEF counted

\* Calls keep their tasks apart, and the counter is exact.
LEMMA CountStep ==
  ASSUME D!TypeOK, CallsTyped, CallsApart, CounterExact, [D!Next]_(D!vars)
  PROVE  CallsApart' /\ CounterExact' /\ counter' \in Nat
<1>1. IsFiniteSet(counted) /\ counter = Cardinality(counted) /\ counter \in Nat
  BY CountedFinite, Zenon DEF CounterExact, D!TypeOK
<1>2. \A k \in Uploaders : call[k] # D!idle <=> call[k].pc # "idle"
  BY DEF CallsTyped, CallStates, D!idle
<1>3. \A k \in Uploaders : call'[k] # D!idle <=> call'[k].pc # "idle"
  BY CallsTypedStep DEF CallsTyped, CallStates, D!idle
<1>4. ASSUME counter' = counter, counted' = counted,
             \A w \in D!TempIds : stop'[w] => state'[w] \in {"check", "exited"}
      PROVE  CounterExact' /\ counter' \in Nat
  BY <1>1, <1>4, Zenon DEF CounterExact
<1>5. ASSUME UNCHANGED <<counter, state, stop>>
      PROVE  CounterExact' /\ counter' \in Nat
  BY <1>1, <1>4, <1>5, Zenon DEF CounterExact, counted
<1>6. ASSUME calls' = calls, call' = call, \A w \in D!TempIds : state[w] = "unborn"
               => state'[w] = "unborn"
      PROVE  CallsApart'
  <2>1. ASSUME NEW c \in D!Calls, c > calls PROVE state'[<<"temp", c>>] = "unborn"
    BY <1>6, <2>1, Zenon DEF CallsApart, D!TempIds
  <2>2. ASSUME NEW k \in Uploaders, call[k] # D!idle, call[k].pc # "temp"
        PROVE  state'[<<"temp", call[k].task.id>>] = "unborn"
    BY <1>2, <1>6, <2>2, CallFacts, Zenon DEF CallsApart
  <2> QED
    BY <1>6, <2>1, <2>2, Zenon DEF CallsApart
<1>7. ASSUME NEW k \in Uploaders, OfCaller(k)
      PROVE  CallsApart' /\ CounterExact' /\ counter' \in Nat
  <2>1. CASE D!enter(k)
    <3>1. /\ UNCHANGED <<counter, state, stop>> /\ calls' = calls + 1 /\ call[k] = D!idle
          /\ \A l \in Uploaders : l # k => call'[l] = call[l]
          /\ call'[k] # D!idle => call'[k].task.id = calls + 1
          /\ calls \in Nat /\ calls + 1 \in D!Calls
      <4>1. PICK tid \in D!Tids, delayed \in BOOLEAN :
              /\ calls < MaxTasks /\ calls' = calls + 1 /\ call[k] = D!idle
              /\ call' = [call EXCEPT ![k] =
                            IF isDisposed THEN D!idle
                            ELSE [pc |-> IF tid < HandlersCount THEN "handler" ELSE "find",
                                  task |-> [id |-> calls + 1, tid |-> tid, delayed |-> delayed,
                                            due |-> ~delayed]]]
              /\ UNCHANGED <<counter, state, stop>>
        BY <2>1, Zenon DEF D!enter, D!threads
      <4>2. /\ call'[k] = IF isDisposed THEN D!idle
                          ELSE [pc |-> IF tid < HandlersCount THEN "handler" ELSE "find",
                                task |-> [id |-> calls + 1, tid |-> tid, delayed |-> delayed,
                                          due |-> ~delayed]]
            /\ \A l \in Uploaders : l # k => call'[l] = call[l]
        BY <4>1, Zenon DEF CallsTyped
      <4>3. calls \in Nat /\ calls + 1 \in D!Calls
        BY <4>1, DispatcherAssumption DEF CallsTyped, D!Calls
      <4> QED
        BY <4>1, <4>2, <4>3
    <3>2. \A l \in Uploaders : call[l] # D!idle
            => call[l].task.id \in Nat /\ call[l].task.id <= calls
      <4>1. \A l \in Uploaders : call[l] # D!idle
              => call[l].task.id \in D!Calls /\ call[l].task.id <= calls
        BY <1>2, CallFacts, Zenon
      <4> QED
        BY <4>1, DispatcherAssumption DEF D!Calls
    <3>3. ASSUME NEW l \in Uploaders, NEW m \in Uploaders, call'[l] # D!idle, call'[m] # D!idle,
                 call'[l].task.id = call'[m].task.id
          PROVE  l = m
      <4>1. CASE l = k /\ m # k
        BY <3>1, <3>2, <3>3, <4>1
      <4>2. CASE l # k /\ m = k
        BY <3>1, <3>2, <3>3, <4>2
      <4>3. CASE l # k /\ m # k
        BY <3>1, <3>3, <4>3 DEF CallsApart
      <4> QED
        BY <4>1, <4>2, <4>3, Zenon
    <3>4. ASSUME NEW l \in Uploaders, call'[l] # D!idle, call'[l].pc # "temp"
          PROVE  state'[<<"temp", call'[l].task.id>>] = "unborn"
      <4>1. CASE l = k
        <5>1. calls + 1 > calls
          BY <3>1
        <5> QED
          BY <3>1, <3>4, <4>1, <5>1 DEF CallsApart
      <4>2. CASE l # k
        BY <3>1, <3>4, <4>2 DEF CallsApart
      <4> QED
        BY <4>1, <4>2, Zenon
    <3>5. ASSUME NEW c \in D!Calls, c > calls'
          PROVE  state'[<<"temp", c>>] = "unborn"
      <4>1. c > calls
        BY <3>1, <3>5, DispatcherAssumption DEF D!Calls
      <4> QED
        BY <3>1, <4>1 DEF CallsApart
    <3> QED
      BY <1>5, <3>1, <3>3, <3>4, <3>5, Zenon DEF CallsApart
  <2>2. CASE D!findContext(k) \/ Refused(k)
    <3>1. /\ call[k] # D!idle /\ call[k].pc # "temp"
          /\ UNCHANGED <<counter, state, stop, calls>>
          /\ \A l \in Uploaders : l # k => call'[l] = call[l]
      BY <1>2, <2>2, Zenon DEF D!findContext, Refused, D!threads, CallsTyped
    <3>2. call'[k].task = call[k].task
      <4>1. CASE D!findContext(k)
        BY <4>1 DEF D!findContext, CallsTyped
      <4>2. CASE Refused(k)
        <5>1. call[k] = [pc |-> "pool", task |-> call[k].task, i |-> call[k].i]
          BY <4>2, CallFacts, Zenon DEF Refused
        <5>2. [call[k] EXCEPT !.i = call[k].i + 1].task = call[k].task
          BY <5>1, Zenon
        <5> QED
          BY <4>2, <5>2 DEF Refused, D!afterPool, CallsTyped
      <4> QED
        BY <2>2, <4>1, <4>2, Zenon
    <3>3. ASSUME NEW l \in Uploaders, NEW m \in Uploaders, call'[l] # D!idle, call'[m] # D!idle,
                 call'[l].task.id = call'[m].task.id
          PROVE  l = m
      BY <3>1, <3>2, <3>3 DEF CallsApart
    <3>4. ASSUME NEW l \in Uploaders, call'[l] # D!idle, call'[l].pc # "temp"
          PROVE  state'[<<"temp", call'[l].task.id>>] = "unborn"
      BY <3>1, <3>2, <3>4, Zenon DEF CallsApart
    <3> QED
      BY <1>5, <3>1, <3>3, <3>4, Zenon DEF CallsApart
  <2>3. CASE D!startTemp(k)
    <3> DEFINE w == <<"temp", call[k].task.id>>
    <3>1. /\ call[k].pc = "count" /\ call[k] # D!idle /\ UNCHANGED <<stop, calls>>
               /\ counter' = counter + 1
          /\ state' = [state EXCEPT ![w] = "ready"]
          /\ call' = [call EXCEPT ![k] = [call[k] EXCEPT !.pc = "temp"]]
      BY <1>2, <2>3 DEF D!startTemp, D!countIn
    <3>2. /\ w \in D!TempIds /\ w \in D!Workers /\ call[k].task.id <= calls
               /\ call[k].task.id \in D!Calls
          /\ call[k] = [pc |-> "count", task |-> call[k].task]
      <4>1. call[k].pc # "idle"
        BY <3>1
      <4>2. /\ w \in D!TempIds /\ call[k].task.id <= calls /\ call[k].task.id \in D!Calls
            /\ call[k].pc \in {"handler", "find", "count", "temp"} =>
                 call[k] = [pc |-> call[k].pc, task |-> call[k].task]
        <5> HIDE DEF w
        <5>1. w = <<"temp", call[k].task.id>>
          BY DEF w
        <5> QED
          BY <4>1, <5>1, CallFacts, Zenon
      <4>3. call[k].pc \in {"handler", "find", "count", "temp"}
        BY <3>1
      <4>4. call[k] = [pc |-> "count", task |-> call[k].task]
        BY <3>1, <4>2, <4>3, Zenon
      <4>5. w \in D!Workers
        BY <4>2, ThreadIds, Zenon
      <4> QED
        BY <4>2, <4>4, <4>5, Zenon
    <3>3. /\ call'[k].pc = "temp" /\ call'[k].task = call[k].task
          /\ \A l \in Uploaders : l # k => call'[l] = call[l]
      BY <3>1, <3>2 DEF CallsTyped
    <3>4. state[w] = "unborn" /\ ~stop[w]
      BY <3>1, <3>2, Zenon DEF CallsApart, CounterExact
    <3>5. state'[w] = "ready" /\ \A v \in D!Workers : v # w => state'[v] = state[v]
      BY <3>1, <3>2 DEF D!TypeOK
    <3>6. counted' = counted \cup {w} /\ w \notin counted
      BY <3>1, <3>2, <3>4, <3>5, ThreadIds DEF counted
    <3>7. counter' = Cardinality(counted') /\ counter' \in Nat
      <4>1. Cardinality(counted \cup {w}) = Cardinality(counted) + 1
        BY <1>1, <3>6, FS_AddElement, Zenon
      <4> QED
        BY <1>1, <3>1, <3>6, <4>1
    <3>8. \A v \in D!TempIds : stop'[v] => state'[v] \in {"check", "exited"}
      BY <3>1, <3>4, <3>5, ThreadIds, Zenon DEF CounterExact
    <3>9. ASSUME NEW l \in Uploaders, NEW m \in Uploaders, call'[l] # D!idle, call'[m] # D!idle,
                 call'[l].task.id = call'[m].task.id
          PROVE  l = m
      BY <3>1, <3>3, <3>9 DEF CallsApart
    <3>10. ASSUME NEW l \in Uploaders, call'[l] # D!idle, call'[l].pc # "temp"
           PROVE  state'[<<"temp", call'[l].task.id>>] = "unborn"
      <4>1. l # k /\ call'[l] = call[l] /\ call[l].task.id # call[k].task.id
        BY <3>1, <3>3, <3>10, Zenon DEF CallsApart
      <4>2. <<"temp", call[l].task.id>> \in D!Workers /\ <<"temp", call[l].task.id>> # w
        BY <1>2, <3>10, <4>1, CallFacts, ThreadIds, Zenon
      <4> QED
        BY <3>5, <3>10, <4>1, <4>2 DEF CallsApart
    <3>11. ASSUME NEW c \in D!Calls, c > calls'
           PROVE  state'[<<"temp", c>>] = "unborn"
      <4>1. c # call[k].task.id
        BY <3>1, <3>2, <3>11, DispatcherAssumption DEF D!Calls, CallsTyped
      <4>2. <<"temp", c>> # w /\ <<"temp", c>> \in D!Workers
        BY <4>1, ThreadIds, Zenon DEF D!TempIds
      <4> QED
        BY <3>1, <3>5, <3>11, <4>2 DEF CallsApart
    <3> QED
      BY <3>7, <3>8, <3>9, <3>10, <3>11, Zenon DEF CallsApart, CounterExact
  <2>4. ASSUME NEW w \in D!Workers, HandsOver(k, w)
        PROVE  CallsApart' /\ CounterExact' /\ counter' \in Nat
    <3>1. /\ UNCHANGED <<counter, state, stop, calls>> /\ call'[k] = D!idle
          /\ \A l \in Uploaders : l # k => call'[l] = call[l]
      BY <2>4 DEF HandsOver, CallsTyped
    <3> QED
      BY <1>5, <3>1 DEF CallsApart
  <2> QED
    BY <1>7, <2>1, <2>2, <2>3, <2>4, Zenon DEF OfCaller
<1>8. ASSUME NEW w \in D!Workers, OfThread(w)
      PROVE  CallsApart' /\ CounterExact' /\ counter' \in Nat
  <2>1. /\ UNCHANGED <<call, calls>>
        /\ \A v \in D!Workers : v # w => state'[v] = state[v]
        /\ state[w] = "unborn" <=> state'[w] = "unborn"
    BY <1>8, Zenon DEF OfThread, D!take, D!rest, D!check, D!start, D!finish, D!throw,
       D!release, D!elapse, D!TypeOK
  <2>2. CallsApart'
    BY <1>6, <2>1, ThreadIds
  <2>3. CASE D!release(w) /\ w \in D!TempIds
    <3>1. /\ state[w] = "ran" /\ counter' = counter - 1 /\ stop' = [stop EXCEPT ![w] = TRUE]
          /\ state' = [state EXCEPT ![w] = "check"]
      BY <2>3 DEF D!release, D!countOut
    <3>2. stop'[w] /\ state'[w] = "check" /\ \A v \in D!Workers : v # w => stop'[v] = stop[v]
      BY <3>1, Zenon DEF D!TypeOK
    <3>3. w \in counted /\ counted' = counted \ {w}
      BY <2>1, <2>3, <3>1, <3>2, ThreadIds DEF counted, CounterExact
    <3>4. counter' = Cardinality(counted') /\ counter' \in Nat
      <4>1. Cardinality(counted \ {w}) = Cardinality(counted) - 1 /\ IsFiniteSet(counted \ {w})
        BY <1>1, <3>3, FS_RemoveElement, Zenon
      <4>2. Cardinality(counted \ {w}) \in Nat
        BY <4>1, FS_CardinalityType, Zenon
      <4> QED
        BY <1>1, <3>1, <3>3, <4>1, <4>2, Zenon
    <3>5. \A v \in D!TempIds : stop'[v] => state'[v] \in {"check", "exited"}
      BY <2>1, <3>2, ThreadIds DEF CounterExact
    <3> QED
      BY <2>2, <3>4, <3>5 DEF CounterExact
  <2>4. CASE ~(D!release(w) /\ w \in D!TempIds)
    <3>1. UNCHANGED <<counter, stop>>
      BY <1>8, <2>4 DEF OfThread, D!take, D!rest, D!check, D!start, D!finish, D!throw,
         D!release, D!elapse
    <3>2. counted' = counted
      BY <2>1, <3>1, ThreadIds DEF counted
    <3>3. w \in D!TempIds /\ stop[w] => state'[w] \in {"check", "exited"}
      <4>1. w \in D!TempIds /\ stop[w] => state[w] \in {"check", "exited"}
        BY DEF CounterExact
      <4> QED
        BY <1>8, <4>1 DEF OfThread, D!take, D!rest, D!check, D!start, D!finish, D!throw,
           D!release, D!elapse, D!TypeOK
    <3>4. \A v \in D!TempIds : stop'[v] => state'[v] \in {"check", "exited"}
      BY <2>1, <3>1, <3>3, ThreadIds DEF CounterExact
    <3> QED
      BY <1>4, <2>2, <3>1, <3>2, <3>4, Zenon
  <2> QED
    BY <2>3, <2>4, Zenon
<1>9. ASSUME OfBinding \/ UNCHANGED D!vars
      PROVE  CallsApart' /\ CounterExact' /\ counter' \in Nat
  <2>1. UNCHANGED <<counter, state, stop, call, calls>>
    BY <1>9, Zenon DEF OfBinding, D!bind, D!unbind, D!threads, D!vars
  <2> QED
    BY <1>5, <1>6, <2>1, Zenon
<1>10. ASSUME OfDispose
       PROVE  CallsApart' /\ CounterExact' /\ counter' \in Nat
  <2>1. UNCHANGED <<counter, state, call, calls>>
    BY <1>10 DEF OfDispose, D!disposeBegin, D!disposeStop, D!disposeJoin, D!disposeEnd,
       D!threads
  <2>2. \A v \in D!TempIds : stop'[v] = stop[v]
    BY <1>10, ThreadIds DEF OfDispose, D!disposeBegin, D!disposeStop, D!disposeJoin,
       D!disposeEnd, D!threads, D!TypeOK
  <2>3. counted' = counted
    BY <2>1, <2>2 DEF counted
  <2>4. \A w \in D!TempIds : stop'[w] => state'[w] \in {"check", "exited"}
    BY <2>1, <2>2 DEF CounterExact
  <2> QED
    BY <1>4, <1>6, <2>1, <2>3, <2>4, Zenon
<1> QED
  BY <1>7, <1>8, <1>9, <1>10, StepCases

\* A thread of the pool that is not busy has only delayed tasks, and one task without delay
\* at a time.
LEMMA BusyStep ==
  ASSUME D!TypeOK, CallsTyped, CallsApart, QueuesSorted, BusyHonest, [D!Next]_(D!vars)
  PROVE  BusyHonest'
<1>1. /\ \A w \in D!Workers : state[w] \in {"unborn", "ready", "check"} => body[w] = Nothing
      /\ \A w \in D!PoolIds : PoolHonest(w)
  BY Zenon DEF BusyHonest
<1>2. ASSUME NEW w \in D!Workers,
             \A v \in D!Workers : v # w => /\ state'[v] = state[v] /\ body'[v] = body[v]
                                           /\ queue'[v] = queue[v] /\ busy'[v] = busy[v],
             state'[w] \in {"unborn", "ready", "check"} => body'[w] = Nothing,
             w \in D!PoolIds => PoolHonest(w)'
      PROVE  BusyHonest'
  <2>1. ASSUME NEW v \in D!PoolIds PROVE PoolHonest(v)'
    <3>1. CASE v = w
      BY <1>2, <3>1
    <3>2. CASE v # w
      <4>1. queue'[v] = queue[v] /\ busy'[v] = busy[v] /\ body'[v] = body[v]
        BY <1>2, <3>2, ThreadIds, Zenon
      <4> QED
        BY <1>1, <4>1, Zenon DEF PoolHonest
    <3> QED
      BY <3>1, <3>2, Zenon
  <2>2. \A v \in D!Workers : state'[v] \in {"unborn", "ready", "check"} => body'[v] = Nothing
    BY <1>1, <1>2, SMTT(30)
  <2> QED
    BY <2>1, <2>2 DEF BusyHonest
<1>3. ASSUME UNCHANGED <<state, body, queue, busy>>
      PROVE  BusyHonest'
  BY <1>3 DEF BusyHonest, PoolHonest
<1>4. ASSUME NEW k \in Uploaders, OfCaller(k)
      PROVE  BusyHonest'
  <2>1. CASE D!enter(k) \/ D!findContext(k) \/ Refused(k)
    BY <1>3, <2>1, Zenon DEF D!enter, D!findContext, Refused, D!threads
  <2>2. CASE D!startTemp(k)
    <3> DEFINE w == <<"temp", call[k].task.id>>
    <3>1. /\ call[k].pc = "count" /\ call[k].pc # "idle" /\ state' = [state EXCEPT ![w] = "ready"]
          /\ UNCHANGED <<queue, busy, body>>
      BY <2>2 DEF D!startTemp
    <3>2. w \in D!TempIds /\ w \in D!Workers /\ w \notin D!PoolIds /\ call[k] # D!idle
      BY <3>1, CallFacts, ThreadIds, Zenon
    <3>3. body[w] = Nothing
      BY <1>1, <3>1, <3>2, SMTT(30) DEF CallsApart
    <3> QED
      BY <1>2, <3>1, <3>2, <3>3, Zenon DEF D!TypeOK
  <2>3. ASSUME NEW w \in D!Workers, HandsOver(k, w)
        PROVE  BusyHonest'
    <3> DEFINE t == call[k].task
               n == Len(queue[w])
    <3>1. /\ t \in D!Task /\ t.due = ~t.delayed /\ D!upload(w, t) /\ state' = state /\ body' = body
          /\ w \in D!PoolIds => ~busy[w]
      BY <2>3, CallFacts, Zenon DEF HandsOver
    <3>2. /\ \A v \in D!Workers : v # w => queue'[v] = queue[v] /\ busy'[v] = busy[v]
          /\ busy'[w] = (busy[w] \/ ~t.delayed) /\ Len(queue'[w]) = n + 1
          /\ \E p \in 1..(n + 1) : \A j \in 1..(n + 1) :
               queue'[w][j] = IF j < p THEN queue[w][j] ELSE IF j = p THEN t ELSE queue[w][j - 1]
      BY <3>1, UploadStep, Zenon
    <3>3. n \in Nat
      BY DEF D!TypeOK
    <3>4. ASSUME w \in D!PoolIds PROVE PoolHonest(w)'
      <4>1. body[w] = Nothing /\ \A i \in 1..n : queue[w][i].delayed
        BY <1>1, <3>1, <3>4, Zenon DEF PoolHonest
      <4>2. PICK p \in 1..(n + 1) : \A j \in 1..(n + 1) :
              queue'[w][j] = IF j < p THEN queue[w][j] ELSE IF j = p THEN t ELSE queue[w][j - 1]
        BY <3>2, Zenon
      <4>3. ASSUME NEW j \in 1..(n + 1), j # p
            PROVE  queue'[w][j].delayed
        <5>1. CASE j < p
          BY <3>3, <4>1, <4>2, <5>1
        <5>2. CASE j > p
          <6>1. j - 1 \in 1..n /\ queue'[w][j] = queue[w][j - 1]
            BY <3>3, <4>2, <5>2
          <6> QED
            BY <4>1, <6>1, Zenon
        <5> QED
          BY <4>3, <5>1, <5>2
      <4>4. ~busy'[w] => \A j \in 1..(n + 1) : queue'[w][j].delayed
        <5>1. queue'[w][p] = t
          BY <3>3, <4>2
        <5>2. ~busy'[w] => t.delayed
          BY <3>2, Zenon
        <5> QED
          BY <4>3, <5>1, <5>2
      <4>5. AtMostOne(queue'[w], body'[w])
        BY <3>1, <3>2, <4>1, <4>3 DEF AtMostOne
      <4> QED
        BY <3>1, <3>2, <4>1, <4>4, <4>5, Zenon DEF PoolHonest
    <3> QED
      BY <1>1, <1>2, <3>1, <3>2, <3>4
  <2> QED
    BY <1>4, <2>1, <2>2, <2>3 DEF OfCaller
<1>5. ASSUME NEW w \in D!Workers, OfThread(w)
      PROVE  BusyHonest'
  <2>0. w \in D!PoolIds => PoolHonest(w)
    BY <1>1, Zenon
  <2>1. CASE D!take(w)
    <3> DEFINE q == queue[w]
               r == queue'[w]
    <3>1. /\ \A v \in D!Workers : v # w
               => queue'[v] = queue[v] /\ body'[v] = body[v] /\ busy'[v] = busy[v]
          /\ Len(q) > 0 /\ Len(r) = Len(q) - 1 /\ body'[w] = q[1] /\ busy'[w]
          /\ \A j \in 1..Len(r) : j + 1 \in 1..Len(q) /\ r[j] = q[j + 1]
      BY <2>1, TakeStep, Zenon
    <3>2. state'[w] = "taken" /\ \A v \in D!Workers : v # w => state'[v] = state[v]
      BY <2>1 DEF D!take, D!TypeOK
    <3>3. Len(q) \in Nat
      BY DEF D!TypeOK
    <3>4. ASSUME w \in D!PoolIds PROVE AtMostOne(r, body'[w])
      <4>1. \A i, j \in 1..Len(q) : ~q[i].delayed /\ ~q[j].delayed => i = j
        BY <1>1, <3>4, Zenon DEF AtMostOne, PoolHonest
      <4>2. ASSUME NEW i \in 1..Len(r), NEW j \in 1..Len(r), ~r[i].delayed, ~r[j].delayed
            PROVE  i = j
        <5>1. i + 1 = j + 1
          BY <3>1, <4>1, <4>2, Zenon
        <5> QED
          BY <3>3, <3>1, <5>1
      <4>3. ASSUME ~q[1].delayed, NEW i \in 1..Len(r)
            PROVE  r[i].delayed
        <5>1. 1 \in 1..Len(q) /\ i + 1 \in 1..Len(q) /\ i + 1 # 1 /\ r[i] = q[i + 1]
          BY <3>1, <3>3
        <5> QED
          BY <4>1, <4>3, <5>1, Zenon
      <4> QED
        BY <3>1, <4>2, <4>3, Zenon DEF AtMostOne
    <3>5. w \in D!PoolIds => PoolHonest(w)'
      BY <3>1, <3>4, Zenon DEF PoolHonest
    <3> QED
      BY <1>2, <3>1, <3>2, <3>5, Zenon
  <2>2. CASE D!rest(w)
    <3> DEFINE q == queue[w]
    <3>1. /\ state[w] = "ready" /\ (q # <<>> => ~Head(q).due) /\ busy' = [busy EXCEPT ![w] = FALSE]
          /\ UNCHANGED <<state, body, queue>>
      BY <2>2 DEF D!rest
    <3>2. body[w] = Nothing
      BY <1>1, <3>1
    <3>3. q \in Seq(D!Task) /\ QueueSorted(q)
      BY Zenon DEF D!TypeOK, QueuesSorted
    <3>4. ASSUME NEW i \in 1..Len(q) PROVE q[i].delayed
      <4>1. q # <<>> /\ Head(q) = q[1] /\ 1 \in 1..i
        BY <3>3
      <4> QED
        BY <3>1, <3>3, <4>1, Zenon DEF QueueSorted
    <3>5. w \in D!PoolIds => PoolHonest(w)'
      BY <2>0, <3>1, <3>2, <3>4, Zenon DEF PoolHonest
    <3>6. \A v \in D!Workers : v # w => busy'[v] = busy[v]
      BY <3>1, Zenon DEF D!TypeOK
    <3> QED
      BY <1>1, <1>2, <3>1, <3>5, <3>6, Zenon
  <2>3. CASE D!elapse(w)
    <3> DEFINE q == queue[w]
               r == queue'[w]
    <3>1. /\ \A v \in D!Workers : v # w => queue'[v] = queue[v]
          /\ Len(r) = Len(q) /\ \A j \in 1..Len(q) : r[j].delayed = q[j].delayed
      BY <2>3, ElapseStep
    <3>2. UNCHANGED <<state, body, busy>>
      BY <2>3, Zenon DEF D!elapse
    <3>3. ASSUME w \in D!PoolIds PROVE PoolHonest(w)'
      <4>1. /\ ~busy[w] => body[w] = Nothing /\ \A i \in 1..Len(q) : q[i].delayed
            /\ AtMostOne(q, body[w])
        BY <1>1, <3>3, Zenon DEF PoolHonest
      <4>2. AtMostOne(r, body[w])
        BY <3>1, <4>1, Zenon DEF AtMostOne
      <4> QED
        BY <3>1, <3>2, <4>1, <4>2, Zenon DEF PoolHonest
    <3> QED
      BY <1>1, <1>2, <3>1, <3>2, <3>3, Zenon
  <2>4. CASE D!check(w)
    <3>1. /\ UNCHANGED <<queue, busy, body>> /\ state[w] \in {"ready", "check"}
          /\ \A v \in D!Workers : v # w => state'[v] = state[v]
      BY <2>4 DEF D!check, D!TypeOK
    <3>2. w \in D!PoolIds => PoolHonest(w)'
      BY <2>0, <3>1, Zenon DEF PoolHonest
    <3> QED
      BY <1>1, <1>2, <3>1, <3>2, Zenon
  <2>5. CASE D!start(w) \/ D!finish(w)
    <3>1. /\ UNCHANGED <<queue, busy, body>> /\ state'[w] \in {"running", "ran"}
          /\ \A v \in D!Workers : v # w => state'[v] = state[v]
      BY <2>5, Zenon DEF D!start, D!finish, D!TypeOK
    <3>2. w \in D!PoolIds => PoolHonest(w)'
      BY <2>0, <3>1, Zenon DEF PoolHonest
    <3> QED
      BY <1>1, <1>2, <3>1, <3>2, Zenon
  <2>6. CASE D!throw(w) \/ D!release(w)
    <3>1. /\ UNCHANGED <<queue, busy>> /\ body'[w] = Nothing
          /\ \A v \in D!Workers : v # w => state'[v] = state[v] /\ body'[v] = body[v]
      BY <2>6 DEF D!throw, D!release, D!TypeOK
    <3>2. ASSUME w \in D!PoolIds PROVE AtMostOne(queue[w], Nothing)
      BY <2>0, <3>2, Zenon DEF AtMostOne, PoolHonest
    <3>3. w \in D!PoolIds => PoolHonest(w)'
      BY <2>0, <3>1, <3>2, Zenon DEF PoolHonest
    <3> QED
      BY <1>1, <1>2, <3>1, <3>3, Zenon
  <2> QED
    BY <1>5, <2>1, <2>2, <2>3, <2>4, <2>5, <2>6 DEF OfThread
<1>6. ASSUME OfBinding \/ OfDispose \/ UNCHANGED D!vars
      PROVE  BusyHonest'
  <2>1. CASE OfBinding
    BY <1>3, <2>1, Zenon DEF OfBinding, D!bind, D!unbind, D!threads
  <2>2. CASE OfDispose
    BY <1>3, <2>2, Zenon DEF OfDispose, D!disposeBegin, D!disposeStop, D!disposeJoin,
       D!disposeEnd, D!threads
  <2>3. CASE UNCHANGED D!vars
    BY <1>3, <2>3, Zenon DEF D!vars
  <2> QED
    BY <1>6, <2>1, <2>2, <2>3, Zenon
<1> QED
  BY <1>4, <1>5, <1>6, StepCases, Zenon

\* What reaches a bound scheduler's queue carries a tid given to it and to no one else.
LEMMA BoundStep ==
  ASSUME D!TypeOK, CallsTyped, QueuesSorted, BoundOnce, D!TidsAreNotReused, [D!Next]_(D!vars)
  PROVE  BoundOnce' /\ D!TidsAreNotReused'
<1>1. ASSUME UNCHANGED <<bound, offset, given, call>>
      PROVE  BoundOnce'
  BY <1>1 DEF BoundOnce
<1>2. ASSUME given' = given, \A w \in D!BoundIds : queue'[w] = queue[w]
      PROVE  D!TidsAreNotReused'
  <2>1. ASSUME NEW s \in Schedulers, NEW i \in 1..Len(queue'[<<"bound", s>>])
        PROVE  given'[queue'[<<"bound", s>>][i].tid] = {s}
    <3>1. queue'[<<"bound", s>>] = queue[<<"bound", s>>]
      BY <1>2 DEF D!BoundIds
    <3> QED
      BY <1>2, <3>1, Zenon DEF D!TidsAreNotReused
  <2> QED
    BY <2>1, Zenon DEF D!TidsAreNotReused
<1>3. ASSUME given' = given, NEW w \in D!Workers, \A v \in D!Workers : v # w
               => queue'[v] = queue[v],
             \A s \in Schedulers : w = <<"bound", s>> =>
               \A i \in 1..Len(queue'[w]) : given[queue'[w][i].tid] = {s}
      PROVE  D!TidsAreNotReused'
  <2>1. ASSUME NEW s \in Schedulers, NEW i \in 1..Len(queue'[<<"bound", s>>])
        PROVE  given'[queue'[<<"bound", s>>][i].tid] = {s}
    <3>1. <<"bound", s>> \in D!Workers
      BY ThreadIds DEF D!BoundIds
    <3>2. CASE w = <<"bound", s>>
      <4>1. \A j \in 1..Len(queue'[w]) : given[queue'[w][j].tid] = {s}
        BY <1>3, <3>2, Zenon
      <4> QED
        BY <1>3, <2>1, <3>2, <4>1, Zenon
    <3>3. CASE w # <<"bound", s>>
      <4>1. queue'[<<"bound", s>>] = queue[<<"bound", s>>]
        BY <1>3, <3>1, <3>3, Zenon
      <4> QED
        BY <1>3, <2>1, <4>1, Zenon DEF D!TidsAreNotReused
    <3> QED
      BY <3>2, <3>3, Zenon
  <2> QED
    BY <2>1, Zenon DEF D!TidsAreNotReused
<1>4. ASSUME NEW k \in Uploaders, OfCaller(k)
      PROVE  BoundOnce' /\ D!TidsAreNotReused'
  <2>1. CASE D!enter(k) \/ Refused(k) \/ D!startTemp(k)
    <3>1. UNCHANGED <<bound, offset, given, queue>> /\ \A l \in Uploaders : l # k
            => call'[l] = call[l]
      BY <2>1 DEF D!enter, Refused, D!startTemp, D!bounds, D!threads, CallsTyped
    <3>2. call'[k] = D!idle \/ call'[k].pc # "context"
      <4>1. CASE D!enter(k)
        BY <4>1 DEF D!enter, CallsTyped
      <4>2. CASE Refused(k)
        <5>1. call[k] = [pc |-> "pool", task |-> call[k].task, i |-> call[k].i]
          BY <4>2, CallFacts, Zenon DEF Refused
        <5>2. [call[k] EXCEPT !.i = call[k].i + 1].pc = "pool"
          BY <5>1
        <5> QED
          BY <4>2, <5>2 DEF Refused, D!afterPool, CallsTyped
      <4>3. CASE D!startTemp(k)
        <5>1. call[k] = [pc |-> "count", task |-> call[k].task]
          BY <4>3, CallFacts, Zenon DEF D!startTemp
        <5> QED
          BY <4>3, <5>1 DEF D!startTemp, CallsTyped
      <4> QED
        BY <2>1, <4>1, <4>2, <4>3, SMTT(30)
    <3> QED
      BY <1>2, <3>1, <3>2 DEF BoundOnce
  <2>2. CASE D!findContext(k)
    <3> DEFINE t == call[k].task
    <3>1. /\ UNCHANGED <<bound, offset, given, queue>> /\ call[k].pc # "idle"
          /\ \A l \in Uploaders : l # k => call'[l] = call[l]
          /\ call'[k] = IF t.tid < D!InPool /\ bound[t.tid] # Nothing
                        THEN [pc |-> "context", task |-> t, to |-> bound[t.tid]]
                        ELSE [pc |-> "pool", task |-> t, i |-> 1]
      BY <2>2 DEF D!findContext, D!bounds, D!threads, CallsTyped
    <3>2. t.tid \in D!Tids
      BY <3>1, CallFacts, Zenon DEF D!Task
    <3> HIDE DEF t
    <3>3. ASSUME call'[k].pc = "context"
          PROVE  given[call'[k].task.tid] = {call'[k].to}
      <4>1. /\ bound[t.tid] # Nothing
            /\ call'[k] = [pc |-> "context", task |-> t, to |-> bound[t.tid]]
        BY <3>1, <3>3, SMTT(30)
      <4>2. given[t.tid] = {bound[t.tid]}
        BY <3>2, <4>1 DEF BoundOnce
      <4> QED
        BY <4>1, <4>2, SMTT(30)
    <3> QED
      BY <1>2, <3>1, <3>3, SMTT(30) DEF BoundOnce
  <2>3. ASSUME NEW w \in D!Workers, HandsOver(k, w)
        PROVE  BoundOnce' /\ D!TidsAreNotReused'
    <3> DEFINE t == call[k].task
               n == Len(queue[w])
    <3>1. /\ UNCHANGED <<bound, offset, given>> /\ call'[k] = D!idle /\ call[k].pc # "idle"
          /\ \A l \in Uploaders : l # k => call'[l] = call[l]
          /\ t \in D!Task /\ t.due = ~t.delayed /\ D!upload(w, t) /\ call[k] # D!idle
          /\ w \in D!BoundIds => call[k].pc = "context" /\ w = <<"bound", call[k].to>>
      BY <2>3, CallFacts, Zenon DEF HandsOver, D!bounds, CallsTyped
    <3>2. BoundOnce'
      BY <3>1, ZenonT(30) DEF BoundOnce
    <3>3. /\ \A v \in D!Workers : v # w => queue'[v] = queue[v]
          /\ Len(queue'[w]) = n + 1
          /\ \E p \in 1..(n + 1) : \A j \in 1..(n + 1) :
               queue'[w][j] = IF j < p THEN queue[w][j] ELSE IF j = p THEN t ELSE queue[w][j - 1]
      BY <3>1, UploadStep, Zenon
    <3>4. n \in Nat
      BY DEF D!TypeOK
    <3>5. ASSUME NEW s \in Schedulers, w = <<"bound", s>>, NEW j \in 1..(n + 1)
          PROVE  given[queue'[w][j].tid] = {s}
      <4>1. w \in D!BoundIds
        BY <3>5 DEF D!BoundIds
      <4>2. given[t.tid] = {s}
        BY <3>1, <3>5, <4>1, Zenon DEF BoundOnce
      <4>3. \A i \in 1..n : given[queue[w][i].tid] = {s}
        BY <3>5, Zenon DEF D!TidsAreNotReused
      <4>4. queue'[w][j] = t \/ \E i \in 1..n : queue'[w][j] = queue[w][i]
        <5>1. PICK p \in 1..(n + 1) :
                queue'[w][j] = IF j < p THEN queue[w][j] ELSE IF j = p THEN t ELSE queue[w][j - 1]
          BY <3>3, Zenon
        <5>2. CASE j < p
          BY <3>4, <5>1, <5>2
        <5>3. CASE j = p
          BY <5>1, <5>3
        <5>4. CASE j > p
          <6>1. j - 1 \in 1..n
            BY <3>4, <5>4
          <6> QED
            BY <5>1, <5>4, <6>1
        <5>5. j < p \/ j = p \/ j > p
          BY <3>4, SMTT(30)
        <5> QED
          BY <5>2, <5>3, <5>4, <5>5, Zenon
      <4> QED
        BY <4>2, <4>3, <4>4, Zenon
    <3>6. D!TidsAreNotReused'
      BY <1>3, <3>1, <3>3, <3>5
    <3> QED
      BY <3>2, <3>6
  <2> QED
    BY <1>4, <2>1, <2>2, <2>3, Zenon DEF OfCaller
<1>5. ASSUME NEW w \in D!Workers, OfThread(w)
      PROVE  BoundOnce' /\ D!TidsAreNotReused'
  <2>1. UNCHANGED <<bound, offset, given, call>>
    BY <1>5, Zenon DEF OfThread, D!take, D!rest, D!check, D!start, D!finish, D!throw,
       D!release, D!elapse, D!bounds
  <2>2. CASE D!take(w)
    <3>1. /\ \A v \in D!Workers : v # w => queue'[v] = queue[v]
          /\ \A j \in 1..Len(queue'[w]) : j + 1 \in 1..Len(queue[w])
               /\ queue'[w][j] = queue[w][j + 1]
      BY <2>2, TakeStep, Zenon
    <3>2. ASSUME NEW s \in Schedulers, w = <<"bound", s>>, NEW j \in 1..Len(queue'[w])
          PROVE  given[queue'[w][j].tid] = {s}
      <4>1. \A i \in 1..Len(queue[w]) : given[queue[w][i].tid] = {s}
        BY <3>2, Zenon DEF D!TidsAreNotReused
      <4>2. j + 1 \in 1..Len(queue[w]) /\ queue'[w][j] = queue[w][j + 1]
        BY <3>1, <3>2, Zenon
      <4> QED
        BY <4>1, <4>2, Zenon
    <3> QED
      BY <1>1, <1>3, <2>1, <3>1, <3>2, Zenon
  <2>3. CASE D!elapse(w)
    <3>1. /\ \A v \in D!Workers : v # w => queue'[v] = queue[v]
          /\ Len(queue'[w]) = Len(queue[w])
          /\ \A j \in 1..Len(queue[w]) : queue'[w][j].tid = queue[w][j].tid
      BY <2>3, ElapseStep, Zenon
    <3>2. ASSUME NEW s \in Schedulers, w = <<"bound", s>>, NEW j \in 1..Len(queue'[w])
          PROVE  given[queue'[w][j].tid] = {s}
      BY <3>1, <3>2, ZenonT(30) DEF D!TidsAreNotReused
    <3> QED
      BY <1>1, <1>3, <2>1, <3>1, <3>2, Zenon
  <2>4. CASE D!rest(w) \/ D!check(w) \/ D!start(w) \/ D!finish(w) \/ D!throw(w) \/ D!release(w)
    <3>1. queue' = queue
      BY <2>4 DEF D!rest, D!check, D!start, D!finish, D!throw, D!release
    <3> QED
      BY <1>1, <1>2, <2>1, <3>1
  <2> QED
    BY <1>5, <2>2, <2>3, <2>4, Zenon DEF OfThread
<1>6. ASSUME NEW s \in Schedulers, D!bind(s)
      PROVE  BoundOnce' /\ D!TidsAreNotReused'
  <2> DEFINE b == HandlersCount + offset
  <2>1. /\ bound' = [bound EXCEPT ![b] = s] /\ offset' = offset + 1 /\ offset \in Nat
        /\ given' = [given EXCEPT ![b] = @ \cup {s}] /\ UNCHANGED <<queue, call>> /\ b \in D!Tids
    BY <1>6, DispatcherAssumption DEF D!bind, D!nextOffset, D!threads, D!TypeOK, D!Tids,
       D!InPool
  <2>2. given[b] = {}
    <3>1. b >= HandlersCount + offset
      BY <2>1, DispatcherAssumption
    <3> QED
      BY <2>1, <3>1, Zenon DEF BoundOnce
  <2> HIDE DEF b
  <2>3. /\ bound'[b] = s /\ given'[b] = {s}
        /\ \A tid \in D!Tids : tid # b => bound'[tid] = bound[tid] /\ given'[tid] = given[tid]
    BY <2>1, <2>2, Zenon DEF D!TypeOK, CallsTyped
  <2>4. \A tid \in D!Tids : bound'[tid] # Nothing => given'[tid] = {bound'[tid]}
    BY <2>3, Zenon DEF BoundOnce
  <2>5. ASSUME NEW tid \in D!Tids, tid >= HandlersCount + offset'
        PROVE  given'[tid] = {}
    <3>1. tid # b /\ tid >= HandlersCount + offset
      BY <2>1, <2>5, DispatcherAssumption DEF b, D!Tids, D!InPool
    <3> QED
      BY <2>3, <3>1, Zenon DEF BoundOnce
  <2>6. ASSUME NEW k \in Uploaders, call[k] # D!idle, call[k].pc = "context"
        PROVE  given'[call[k].task.tid] = {call[k].to}
    <3>1. call[k].task.tid \in D!Tids /\ given[call[k].task.tid] = {call[k].to}
      BY <2>6, CallFacts, Zenon DEF D!Task, BoundOnce
    <3> QED
      BY <2>2, <2>3, <3>1, Zenon
  <2>7. ASSUME NEW r \in Schedulers, NEW i \in 1..Len(queue[<<"bound", r>>])
        PROVE  given'[queue[<<"bound", r>>][i].tid] = {r}
    <3>1. <<"bound", r>> \in D!Workers
      BY ThreadIds, SMTT(20) DEF D!BoundIds
    <3>2. queue[<<"bound", r>>][i].tid \in D!Tids
      <4>1. queue[<<"bound", r>>] \in Seq(D!Task)
        BY <3>1, Zenon DEF D!TypeOK
      <4>2. queue[<<"bound", r>>][i] \in D!Task
        BY <4>1
      <4> QED
        BY <4>2 DEF D!Task
    <3>3. given[queue[<<"bound", r>>][i].tid] = {r}
      BY Zenon DEF D!TidsAreNotReused
    <3> QED
      BY <2>2, <2>3, <3>2, <3>3, Zenon
  <2> QED
    BY <2>1, <2>4, <2>5, <2>6, <2>7, Zenon DEF BoundOnce, D!TidsAreNotReused
<1>7. ASSUME NEW tid \in D!Tids, D!unbind(tid)
      PROVE  BoundOnce' /\ D!TidsAreNotReused'
  <2>1. /\ bound' = [bound EXCEPT ![tid] = Nothing] /\ UNCHANGED <<offset, given, queue, call>>
    BY <1>7, Zenon DEF D!unbind, D!threads
  <2>2. \A b \in D!Tids : bound'[b] # Nothing => given'[b] = {bound'[b]}
    BY <2>1 DEF BoundOnce, D!TypeOK
  <2> QED
    BY <1>2, <2>1, <2>2 DEF BoundOnce
<1>8. ASSUME OfDispose \/ UNCHANGED D!vars
      PROVE  BoundOnce' /\ D!TidsAreNotReused'
  <2>1. UNCHANGED <<bound, offset, given, call, queue>>
    BY <1>8, Zenon DEF OfDispose, D!disposeBegin, D!disposeStop, D!disposeJoin, D!disposeEnd,
       D!threads, D!bounds, D!vars
  <2> QED
    BY <1>1, <1>2, <2>1
<1> QED
  BY <1>4, <1>5, <1>6, <1>7, <1>8, StepCases, Zenon DEF OfBinding

\* A thread that was joined has exited for good; once dispose() has returned no temporary
\* thread is in a task, and none starts one.
LEMMA JoinedStep ==
  ASSUME D!TypeOK, CallsTyped, CounterExact, Joined, [D!Next]_(D!vars)
  PROVE  Joined'
<1>1. ASSUME isDisposed => isDisposed', disposer' = disposer,
             \A w \in D!HandlerIds \cup D!PoolIds : state[w] = "exited" => state'[w] = "exited",
             isDisposed => \A w \in D!TempIds : state[w] # "running" => state'[w] # "running"
      PROVE  Joined'
  <2>1. ASSUME NEW i \in 1..Len(D!joinOrder), i < disposer
        PROVE  state'[D!joinOrder[i]] = "exited"
    <3>1. state[D!joinOrder[i]] = "exited" /\ D!joinOrder[i] \in D!HandlerIds \cup D!PoolIds
      BY <2>1, ThreadIds, Zenon DEF Joined
    <3> QED
      BY <1>1, <3>1, Zenon
  <2>2. disposer > 0 => isDisposed
    BY DEF Joined
  <2>3. ASSUME disposer = D!disposed
        PROVE  \A w \in D!TempIds : state'[w] # "running"
    <3>1. disposer > 0 /\ \A w \in D!TempIds : state[w] # "running"
      BY <2>3, ThreadIds, DispatcherAssumption DEF D!disposed, Joined
    <3> QED
      BY <1>1, <2>2, <3>1, Zenon
  <2> QED
    BY <1>1, <2>1, <2>2, <2>3, Zenon DEF Joined, D!disposed
<1>2. ASSUME NEW k \in Uploaders, OfCaller(k)
      PROVE  Joined'
  <2>1. CASE D!startTemp(k)
    <3>1. call[k].pc # "idle" /\ state' = [state EXCEPT ![<<"temp", call[k].task.id>>] = "ready"]
          /\ UNCHANGED <<isDisposed, disposer>>
      BY <2>1 DEF D!startTemp
    <3>2. <<"temp", call[k].task.id>> \in D!TempIds
      BY <3>1, CallFacts, Zenon
    <3> QED
      BY <1>1, <3>1, <3>2, ThreadIds, Zenon DEF D!TypeOK
  <2>2. CASE ~D!startTemp(k)
    <3>1. UNCHANGED <<isDisposed, disposer, state>>
      BY <1>2, <2>2, Zenon DEF OfCaller, D!enter, D!findContext, Refused, HandsOver, D!threads
    <3> QED
      BY <1>1, <3>1
  <2> QED
    BY <2>1, <2>2
<1>3. ASSUME NEW w \in D!Workers, OfThread(w)
      PROVE  Joined'
  <2>1. /\ UNCHANGED <<isDisposed, disposer>> /\ \A v \in D!Workers : v # w => state'[v] = state[v]
        /\ state[w] = "exited" => state'[w] = "exited"
        /\ w \in D!TempIds /\ isDisposed /\ state[w] # "running" => state'[w] # "running"
    BY <1>3 DEF OfThread, D!take, D!rest, D!check, D!start, D!finish, D!throw, D!release,
       D!elapse, D!TypeOK, D!mayRun
  <2> QED
    BY <1>1, <2>1, ThreadIds
<1>4. ASSUME OfBinding \/ UNCHANGED D!vars
      PROVE  Joined'
  <2>1. UNCHANGED <<isDisposed, disposer, state>>
    BY <1>4 DEF OfBinding, D!bind, D!unbind, D!threads, D!vars
  <2> QED
    BY <1>1, <2>1, Zenon
<1>5. ASSUME OfDispose
      PROVE  Joined'
  <2>0. Len(D!joinOrder) \in Nat /\ disposer \in Nat
    BY JoinLength DEF D!TypeOK, D!disposed
  <2>1. CASE D!disposeBegin
    BY <2>0, <2>1 DEF D!disposeBegin, D!threads, Joined, D!disposed
  <2>2. CASE D!disposeStop
    BY <1>1, <2>2, Zenon DEF D!disposeStop
  <2>3. CASE D!disposeJoin
    <3>1. /\ disposer \in 1..Len(D!joinOrder) /\ state[D!joinOrder[disposer]] = "exited"
          /\ disposer' = disposer + 1 /\ isDisposed' = isDisposed /\ state' = state
      BY <2>3, SMTT(20) DEF D!disposeJoin, D!threads
    <3>2. isDisposed'
      BY <3>1, SMTT(20) DEF Joined
    <3>3. \A i \in 1..Len(D!joinOrder) : i < disposer' => i < disposer \/ i = disposer
      BY <2>0, <3>1
    <3>4. \A i \in 1..Len(D!joinOrder) : i < disposer' => state'[D!joinOrder[i]] = "exited"
      BY <3>1, <3>3, Zenon DEF Joined
    <3>5. disposer' # Len(D!joinOrder) + 2
      BY <2>0, <3>1
    <3> QED
      BY <3>2, <3>4, <3>5, ZenonT(30) DEF Joined, D!disposed
  <2>4. CASE D!disposeEnd
    <3>1. /\ disposer = Len(D!joinOrder) + 1 /\ counter = 0 /\ disposer' = D!disposed
          /\ UNCHANGED <<isDisposed, state>>
      BY <2>4 DEF D!disposeEnd, D!threads
    <3>2. \A w \in D!TempIds : state[w] # "running"
      <4>1. ASSUME NEW w \in D!TempIds, state[w] = "running" PROVE FALSE
        <5>1. w \in counted
          BY <4>1 DEF counted, CounterExact
        <5>2. Cardinality(counted) = 0
          BY <3>1 DEF CounterExact
        <5>3. IsFiniteSet(counted)
          BY CountedFinite
        <5> QED
          BY <5>1, <5>2, <5>3, FS_EmptySet, Zenon
      <4> QED
        BY <4>1
    <3> QED
      BY <2>0, <3>1, <3>2 DEF Joined
  <2> QED
    BY <1>5, <2>1, <2>2, <2>3, <2>4, Zenon DEF OfDispose
<1> QED
  BY <1>2, <1>3, <1>4, <1>5, StepCases

\* The instance's Cardinality is the one of the theorems.
LEMMA CardinalityOfD == \A S : D!Cardinality(S) = Cardinality(S)
  BY DEF D!Cardinality, Cardinality, D!IsFiniteSet, IsFiniteSet

\* What DispatcherInv asks for follows.
LEMMA DInvImplies == DInv => D!DispatcherInv
<1> SUFFICES ASSUME DInv PROVE D!DispatcherInv
  OBVIOUS
<1>1. D!QuietAfterDispose
  <2>1. ASSUME disposer = D!disposed, NEW w \in D!Owned PROVE state[w] # "running"
    <3>1. CASE w \in D!TempIds
      BY <2>1, <3>1 DEF DInv, Joined
    <3>2. CASE w \in D!HandlerIds \cup D!PoolIds
      <4>1. PICK i \in 1..Len(D!joinOrder) : D!joinOrder[i] = w
        BY <3>2, ThreadIds
      <4>2. i < disposer
        BY <2>1, ThreadIds, DispatcherAssumption DEF D!disposed
      <4> QED
        BY <4>1, <4>2 DEF DInv, Joined
    <3> QED
      BY <3>1, <3>2 DEF D!Owned
  <2> QED
    BY <2>1 DEF D!QuietAfterDispose
<1>2. D!OneImmediatePerPoolThread
  <2> SUFFICES ASSUME NEW w \in D!PoolIds
               PROVE  Cardinality({i \in 1..Len(queue[w]) : ~queue[w][i].delayed})
                        + (IF body[w] # Nothing /\ ~body[w].delayed THEN 1 ELSE 0) <= 1
    BY CardinalityOfD, Zenon DEF D!OneImmediatePerPoolThread
  <2> DEFINE S == {i \in 1..Len(queue[w]) : ~queue[w][i].delayed}
  <2>1. AtMostOne(queue[w], body[w])
    BY DEF DInv, BusyHonest, PoolHonest
  <2>2. CASE S = {}
    <3>1. Cardinality(S) = 0
      BY <2>2, FS_EmptySet, Zenon
    <3> QED
      BY <3>1
  <2>3. CASE S # {}
    <3>1. PICK x : x \in S
      BY <2>3, Zenon
    <3>2. S = {x}
      BY <2>1, <3>1, Zenon DEF AtMostOne
    <3>3. Cardinality(S) = 1
      BY <3>2, FS_Singleton, Zenon
    <3>4. ~(body[w] # Nothing /\ ~body[w].delayed)
      BY <2>1, <3>1, Zenon DEF AtMostOne
    <3> QED
      BY <3>3, <3>4
  <2> QED
    BY <2>2, <2>3, Zenon
<1> QED
  BY <1>1, <1>2 DEF DInv, D!DispatcherInv

\* The dispatcher keeps DispatcherInv.
THEOREM DispatcherSafe == D!Spec => []DispatcherInv
<1>1. D!Init => DInv
  <2> SUFFICES ASSUME D!Init PROVE DInv
    OBVIOUS
  <2>1. D!TypeOK
    <3>1. Len(D!joinOrder) \in Nat
      BY JoinLength, Zenon
    <3> QED
      <4>1. queue \in [D!Workers -> Seq(D!Task)]
        BY DEF D!Init
      <4>2. /\ busy \in [D!Workers -> BOOLEAN] /\ stop \in [D!Workers -> BOOLEAN]
            /\ isDisposed \in BOOLEAN
        BY Zenon DEF D!Init
      <4>3. state \in [D!Workers -> {"unborn", "ready", "taken", "running", "ran", "check",
                                     "exited"}]
        BY Zenon DEF D!Init
      <4>4. body \in [D!Workers -> D!Task \cup {Nothing}]
              /\ bound \in [D!Tids -> Schedulers \cup {Nothing}]
        BY DEF D!Init
      <4>5. counter \in Nat /\ offset \in 0..MaxBinds /\ disposer \in 0..D!disposed
        BY <3>1, DispatcherAssumption DEF D!Init, D!disposed
      <4> QED
        BY <4>1, <4>2, <4>3, <4>4, <4>5 DEF D!TypeOK
  <2>2. CallsTyped
    BY DispatcherAssumption DEF D!Init, CallsTyped, CallStates
  <2>3. CallsApart
    BY ThreadIds, Zenon DEF D!Init, CallsApart, D!TempIds
  <2>4. CounterExact
    <3>1. counted = {}
      BY ThreadIds, Zenon DEF D!Init, counted
    <3> QED
      BY <3>1, FS_EmptySet, ThreadIds, Zenon DEF D!Init, CounterExact
  <2>5. QueuesSorted /\ BusyHonest
    <3>1. \A w \in D!Workers : queue[w] = <<>> /\ body[w] = Nothing /\ Len(queue[w]) = 0
      BY Zenon DEF D!Init
    <3>2. QueuesSorted
      BY <3>1, SMTT(20) DEF QueuesSorted, QueueSorted
    <3>3. \A w \in D!PoolIds : PoolHonest(w)
      BY <3>1, ThreadIds DEF PoolHonest, AtMostOne
    <3> QED
      BY <3>1, <3>2, <3>3 DEF BusyHonest
  <2>6. BoundOnce /\ D!TidsAreNotReused
    <3>1. BoundOnce
      BY Zenon DEF D!Init, BoundOnce
    <3>2. ASSUME NEW s \in Schedulers PROVE Len(queue[<<"bound", s>>]) = 0
      <4>1. <<"bound", s>> \in D!Workers
        BY ThreadIds, SMTT(20) DEF D!BoundIds
      <4> QED
        BY <4>1, Zenon DEF D!Init
    <3>3. D!TidsAreNotReused
      BY <3>2 DEF D!TidsAreNotReused
    <3> QED
      BY <3>1, <3>3
  <2>7. Joined
    BY ThreadIds DEF D!Init, Joined
  <2> QED
    BY <2>1, <2>2, <2>3, <2>4, <2>5, <2>6, <2>7 DEF DInv
<1>2. DInv /\ [D!Next]_(D!vars) => DInv'
  BY CallsTypedStep, TypeStep, CountStep, BusyStep, BoundStep, JoinedStep, Zenon DEF DInv
<1>3. DInv => DispatcherInv
  BY DInvImplies DEF DispatcherInv
<1> QED
  BY <1>1, <1>2, <1>3, PTL DEF D!Spec
==============================================================================
