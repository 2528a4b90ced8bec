--------------------------- MODULE AsyncDispatcher ---------------------------
(***************************************************************************)
(* AsyncDispatcher: callers on any thread hand tasks over to fixed         *)
(* handler threads, to schedulers bound by clients, to a pool, or, when    *)
(* the whole pool is busy, to a temporary thread that runs one task; one   *)
(* caller disposes of the dispatcher.                                      *)
(*                                                                         *)
(* A thread is what Scheduler.tla promises of it: its queue holds due      *)
(* tasks first, is_busy_ is honest, and no task is slept through; so the   *)
(* sleep is not a state of its own: a thread between two tasks is "ready". *)
(* Each call of a scheduler, each atomic and each section under the lock   *)
(* of bound_ is one step of its caller.                                    *)
(***************************************************************************)
EXTENDS Integers, Sequences, FiniteSets, FiniteSetsExt

CONSTANTS HandlersCount,  \* kHandlersCount
          PoolSize,       \* kPoolSize
          Schedulers,     \* the schedulers clients may bind
          Callers,        \* the threads that upload
          MaxCalls,       \* bound: calls of uploadToHandler
          MaxBinds,       \* bound: calls of bind
          MayThrow,       \* tasks may throw
          None

Calls == 1..MaxCalls
HandlerIds == {<<"handler", i>> : i \in 0..(HandlersCount - 1)}
PoolIds == {<<"pool", i>> : i \in 1..PoolSize}
TempIds == {<<"temp", c>> : c \in Calls}
BoundIds == {<<"bound", s>> : s \in Schedulers}
Owned == HandlerIds \cup PoolIds \cup TempIds
Workers == Owned \cup BoundIds
InPool == HandlersCount + MaxBinds   \* kExecuteInPool, a tid never bound
Tids == 0..InPool

VARIABLES
  isDisposed,  \* is_disposed_
  counter,     \* temporary_handlers_tasks_counter_
  contexts,    \* bound_.contexts: tid -> scheduler or None
  offset,      \* bound_.next_tid_offset
  queue,       \* per thread: tasks_, the due ones first
  busy,        \* per thread: is_busy_
  stop,        \* per thread: dispose() cleared proceed_
  state,       \* per thread: where its loop is
  body,        \* per thread: the task it took, or None
  call,        \* per caller: where it is in uploadToHandler, and with what
  disposer,    \* where dispose() is
  calls,       \* history: the number of calls
  given,       \* history: the scheduler a tid was given for
  done,        \* history: the tasks that ran
  leaked       \* history: temporary threads whose task threw

vars == <<isDisposed, counter, contexts, offset, queue, busy, stop, state, body,
          call, disposer, calls, given, done, leaked>>

threads == <<queue, busy, stop, state, body>>
bounds == <<contexts, offset, given>>

Task == [id : Calls, tid : Tids, delayed : BOOLEAN, due : BOOLEAN]
idle == [pc |-> "idle"]

------------------------------------------------------------------------------
(* A thread's scheduler, as its callers see it *)

\* add(): behind the tasks that are due; a delayed one goes last.
after(q) == Min({i \in 1..Len(q) : ~q[i].due} \cup {Len(q) + 1})

insert(q, t) ==
  LET p == IF t.delayed THEN Len(q) + 1 ELSE after(q)
  IN [j \in 1..(Len(q) + 1) |-> IF j < p THEN q[j] ELSE IF j = p THEN t ELSE q[j - 1]]

upload(w, t) ==
  /\ queue' = [queue EXCEPT ![w] = insert(@, t)]
  /\ busy' = [busy EXCEPT ![w] = @ \/ ~t.delayed]

\* The deadline of the first delayed task passes.
elapse(w) ==
  \E i \in 1..Len(queue[w]) :
    /\ ~queue[w][i].due
    /\ \A j \in 1..(i - 1) : queue[w][j].due
    /\ queue' = [queue EXCEPT ![w][i].due = TRUE]
    /\ UNCHANGED <<isDisposed, counter, bounds, busy, stop, state, body, call,
                   disposer, calls, done, leaked>>

\* extractExpired() with a task that is due.
take(w) ==
  /\ state[w] = "ready"
  /\ queue[w] # <<>> /\ Head(queue[w]).due
  /\ body' = [body EXCEPT ![w] = Head(queue[w])]
  /\ queue' = [queue EXCEPT ![w] = Tail(@)]
  /\ busy' = [busy EXCEPT ![w] = TRUE]
  /\ state' = [state EXCEPT ![w] = "taken"]
  /\ UNCHANGED <<isDisposed, counter, bounds, stop, call, disposer, calls, done,
                 leaked>>

\* extractExpired() with none; the thread goes to sleep.
rest(w) ==
  /\ state[w] = "ready"
  /\ queue[w] # <<>> => ~Head(queue[w]).due
  /\ busy[w]
  /\ busy' = [busy EXCEPT ![w] = FALSE]
  /\ UNCHANGED <<isDisposed, counter, bounds, queue, stop, state, body, call,
                 disposer, calls, done, leaked>>

\* while (proceed_.test_and_set()), after a task or after the sleep.
check(w) ==
  /\ \/ state[w] = "check" /\ state' = [state EXCEPT ![w] = IF stop[w] THEN "exited"
                                                          ELSE "ready"]
     \/ state[w] = "ready" /\ stop[w] /\ state' = [state EXCEPT ![w] = "exited"]
  /\ UNCHANGED <<isDisposed, counter, bounds, queue, busy, stop, body, call,
                 disposer, calls, done, leaked>>

\* What the lambda of a temporary thread does before the task: nothing if the
\* dispatcher was disposed of.
mayRun_Always(w) == TRUE
mayRun(w) == w \in TempIds => ~isDisposed

\* The task's body starts, or the lambda skips it.
start(w) ==
  /\ state[w] = "taken"
  /\ state' = [state EXCEPT ![w] = IF mayRun(w) THEN "running" ELSE "ran"]
  /\ UNCHANGED <<isDisposed, counter, bounds, queue, busy, stop, body, call,
                 disposer, calls, done, leaked>>

\* The task's body returns.
finish(w) ==
  /\ state[w] = "running"
  /\ done' = done \cup {body[w].id}
  /\ state' = [state EXCEPT ![w] = "ran"]
  /\ UNCHANGED <<isDisposed, counter, bounds, queue, busy, stop, body, call,
                 disposer, calls, leaked>>

\* The task's body throws: process() swallows it, and what the lambda of a
\* temporary thread does after the task is not done.
throw(w) ==
  /\ MayThrow
  /\ state[w] = "running"
  /\ done' = done \cup {body[w].id}
  /\ state' = [state EXCEPT ![w] = "check"]
  /\ body' = [body EXCEPT ![w] = None]
  /\ leaked' = IF w \in TempIds THEN leaked \cup {w} ELSE leaked
  /\ UNCHANGED <<isDisposed, counter, bounds, queue, busy, stop, call, disposer,
                 calls>>

\* After the task; the lambda of a temporary thread counts it out first and
\* lets the thread go.
countOut_UnlessDisposed == counter' = IF isDisposed THEN counter ELSE counter - 1
countOut == counter' = counter - 1

release(w) ==
  /\ state[w] = "ran"
  /\ IF w \in TempIds
       THEN countOut /\ stop' = [stop EXCEPT ![w] = TRUE]
       ELSE UNCHANGED <<counter, stop>>
  /\ body' = [body EXCEPT ![w] = None]
  /\ state' = [state EXCEPT ![w] = "check"]
  /\ UNCHANGED <<isDisposed, bounds, queue, busy, call, disposer, calls, done,
                 leaked>>

------------------------------------------------------------------------------
(* uploadToHandler, on a caller's thread *)

\* add() or addDelayed() with any tid; the test of is_disposed_ comes first.
enter(k) ==
  \E tid \in Tids, delayed \in BOOLEAN :
    LET t == [id |-> calls + 1, tid |-> tid, delayed |-> delayed, due |-> ~delayed]
    IN /\ call[k] = idle
       /\ calls < MaxCalls
       /\ calls' = calls + 1
       /\ call' = [call EXCEPT ![k] =
                     IF isDisposed THEN idle
                     ELSE [pc |-> IF tid < HandlersCount THEN "handler" ELSE "find",
                           task |-> t]]
       /\ UNCHANGED <<isDisposed, counter, bounds, threads, disposer, done, leaked>>

toHandler(k) ==
  /\ call[k].pc = "handler"
  /\ upload(<<"handler", call[k].task.tid>>, call[k].task)
  /\ call' = [call EXCEPT ![k] = idle]
  /\ UNCHANGED <<isDisposed, counter, bounds, stop, state, body, disposer, calls,
                 done, leaked>>

\* The context is copied under the shared lock and used after it.
findContext(k) ==
  LET t == call[k].task
  IN /\ call[k].pc = "find"
     /\ call' = [call EXCEPT ![k] =
                   IF t.tid < InPool /\ contexts[t.tid] # None
                   THEN [pc |-> "context", task |-> t, to |-> contexts[t.tid]]
                   ELSE [pc |-> "pool", task |-> t, i |-> 1]]
     /\ UNCHANGED <<isDisposed, counter, bounds, threads, disposer, calls, done,
                    leaked>>

toContext(k) ==
  /\ call[k].pc = "context"
  /\ upload(<<"bound", call[k].to>>, call[k].task)
  /\ call' = [call EXCEPT ![k] = idle]
  /\ UNCHANGED <<isDisposed, counter, bounds, stop, state, body, disposer, calls,
                 done, leaked>>

\* After the last thread of the pool refused.
afterPool(t) == [pc |-> "count", task |-> t]

\* uploadIfFree on the next thread of the pool, under that thread's mutex.
free(w) == ~busy[w]

tryPool(k) ==
  LET t == call[k].task
      i == call[k].i
  IN /\ call[k].pc = "pool"
     /\ IF i \in 1..PoolSize /\ free(<<"pool", i>>)
          THEN /\ upload(<<"pool", i>>, t)
               /\ call' = [call EXCEPT ![k] = idle]
          ELSE /\ call' = [call EXCEPT ![k] =
                             IF i < PoolSize THEN [@ EXCEPT !.i = i + 1]
                             ELSE afterPool(t)]
               /\ UNCHANGED <<queue, busy>>
     /\ UNCHANGED <<isDisposed, counter, bounds, stop, state, body, disposer, calls,
                    done, leaked>>

\* A temporary thread starts and its task is counted in ...
countIn == counter' = counter + 1

startTemp(k) ==
  LET w == <<"temp", call[k].task.id>>
  IN /\ call[k].pc = "count"
     /\ state' = [state EXCEPT ![w] = "ready"]
     /\ countIn
     /\ call' = [call EXCEPT ![k].pc = "temp"]
     /\ UNCHANGED <<isDisposed, bounds, queue, busy, stop, body, disposer, calls,
                    done, leaked>>

\* ... and then the lambda is added.
toTemp(k) ==
  /\ call[k].pc = "temp"
  /\ upload(<<"temp", call[k].task.id>>, call[k].task)
  /\ call' = [call EXCEPT ![k] = idle]
  /\ UNCHANGED <<isDisposed, counter, bounds, stop, state, body, disposer, calls,
                 done, leaked>>

------------------------------------------------------------------------------
(* bind, unbind, dispose *)

nextOffset == offset + 1

bind(s) ==
  LET tid == HandlersCount + offset
  IN /\ offset < MaxBinds
     /\ contexts' = [contexts EXCEPT ![tid] = s]
     /\ offset' = nextOffset
     /\ given' = [given EXCEPT ![tid] = @ \cup {s}]
     /\ UNCHANGED <<isDisposed, counter, threads, call, disposer, calls, done, leaked>>

unbind(tid) ==
  /\ contexts[tid] # None
  /\ contexts' = [contexts EXCEPT ![tid] = None]
  /\ UNCHANGED <<isDisposed, counter, offset, given, threads, call, disposer, calls,
                 done, leaked>>

\* The threads dispose() stops and joins, one by one.
joinOrder == [i \in 1..(HandlersCount + PoolSize) |->
                IF i <= HandlersCount THEN <<"handler", i - 1>>
                ELSE <<"pool", i - HandlersCount>>]

disposeBegin ==
  /\ disposer = 0
  /\ isDisposed' = TRUE
  /\ disposer' = 1
  /\ UNCHANGED <<counter, bounds, threads, call, calls, done, leaked>>

disposeStop ==
  /\ disposer \in 1..Len(joinOrder)
  /\ ~stop[joinOrder[disposer]]
  /\ stop' = [stop EXCEPT ![joinOrder[disposer]] = TRUE]
  /\ UNCHANGED <<isDisposed, counter, bounds, queue, busy, state, body, call,
                 disposer, calls, done, leaked>>

disposeJoin ==
  /\ disposer \in 1..Len(joinOrder)
  /\ stop[joinOrder[disposer]]
  /\ state[joinOrder[disposer]] = "exited"
  /\ disposer' = disposer + 1
  /\ UNCHANGED <<isDisposed, counter, bounds, threads, call, calls, done, leaked>>

\* The spin on the counter ends, and dispose() returns.
disposed == Len(joinOrder) + 2
disposeEnd ==
  /\ disposer = Len(joinOrder) + 1
  /\ counter = 0
  /\ disposer' = disposed
  /\ UNCHANGED <<isDisposed, counter, bounds, threads, call, calls, done, leaked>>

------------------------------------------------------------------------------
Init ==
  /\ isDisposed = FALSE
  /\ counter = 0
  /\ contexts = [tid \in Tids |-> None]
  /\ offset = 0
  /\ queue = [w \in Workers |-> <<>>]
  /\ busy = [w \in Workers |-> FALSE]
  /\ stop = [w \in Workers |-> FALSE]
  /\ state = [w \in Workers |-> IF w \in TempIds THEN "unborn" ELSE "ready"]
  /\ body = [w \in Workers |-> None]
  /\ call = [k \in Callers |-> idle]
  /\ disposer = 0
  /\ calls = 0
  /\ given = [tid \in Tids |-> {}]
  /\ done = {}
  /\ leaked = {}

uploadToHandler(k) ==
  \/ toHandler(k) \/ findContext(k) \/ toContext(k)
  \/ tryPool(k) \/ startTemp(k) \/ toTemp(k)

process(w) ==
  take(w) \/ rest(w) \/ check(w) \/ start(w) \/ finish(w) \/ throw(w) \/ release(w)

dispose == disposeStop \/ disposeJoin \/ disposeEnd

Next ==
  \/ \E k \in Callers : enter(k) \/ uploadToHandler(k)
  \/ \E w \in Workers : process(w) \/ elapse(w)
  \/ \E s \in Schedulers : bind(s)
  \/ \E tid \in Tids : unbind(tid)
  \/ disposeBegin
  \/ dispose

Spec == Init /\ [][Next]_vars

\* Threads are scheduled, deadlines pass, and a call that was begun goes on; no
\* one has to call anything.
Fairness ==
  /\ \A k \in Callers : WF_vars(uploadToHandler(k))
  /\ \A w \in Workers : WF_vars(process(w)) /\ WF_vars(elapse(w))
  /\ WF_vars(dispose)

FairSpec == Spec /\ Fairness

------------------------------------------------------------------------------
TypeOK ==
  /\ isDisposed \in BOOLEAN
  /\ counter \in Nat
  /\ contexts \in [Tids -> Schedulers \cup {None}]
  /\ offset \in 0..MaxBinds
  /\ queue \in [Workers -> Seq(Task)]
  /\ busy \in [Workers -> BOOLEAN]
  /\ stop \in [Workers -> BOOLEAN]
  /\ state \in [Workers -> {"unborn", "ready", "taken", "running", "ran", "check",
                            "exited"}]
  /\ body \in [Workers -> Task \cup {None}]
  /\ disposer \in 0..disposed

\* Once dispose() has returned no task runs on a thread of the dispatcher, not
\* even one uploaded by a caller that had passed the test of is_disposed_ before:
\* a temporary thread tests it again, and is counted before it can start.
QuietAfterDispose ==
  disposer = disposed => \A w \in Owned : state[w] # "running"

\* The pool never queues a task without delay behind another one: such a task
\* finds a free thread or gets a temporary one.
OneImmediatePerPoolThread ==
  \A w \in PoolIds :
    Cardinality({i \in 1..Len(queue[w]) : ~queue[w][i].delayed})
      + (IF body[w] # None /\ ~body[w].delayed THEN 1 ELSE 0) <= 1

\* A tid is bound once: a task uploaded under a tid that was unbound, perhaps
\* while the call was on its way, never reaches the scheduler of someone else.
TidsAreNotReused ==
  \A s \in Schedulers : \A i \in 1..Len(queue[<<"bound", s>>]) :
    given[queue[<<"bound", s>>][i].tid] = {s}

\* Every task uploaded before the dispatcher is disposed of runs.
EveryTaskRuns ==
  \A c \in Calls : calls = c ~> c \in done \/ isDisposed

\* dispose() returns: no thread of the pool, no temporary thread and no late
\* caller keeps it waiting, unless a task on a temporary thread has thrown (its
\* count is then never taken back).
DisposeReturns == isDisposed ~> disposer = disposed \/ leaked # {}

\* The dispatcher, whatever is uploaded, bound and disposed of: the count of temporary
\* tasks is a natural number, nothing runs after dispose(), no immediate task waits in
\* the pool behind another, and no task reaches a stranger.
DispatcherInv ==
  /\ TypeOK
  /\ QuietAfterDispose
  /\ OneImmediatePerPoolThread
  /\ TidsAreNotReused
==============================================================================
