-------------------------------- MODULE Exposer --------------------------------
(***************************************************************************)
(* The HTTP server of the metrics: ExposerImpl, which the state manager    *)
(* prepares, starts and stops, its thread, and the sessions it accepts.    *)
(*                                                                         *)
(* The io_context is modelled by what it promises: an operation that was   *)
(* started completes once, its handler runs on the one thread of the       *)
(* context, and none runs after the context is stopped.  A session lives   *)
(* as long as it is new_session_ or has an operation under way.            *)
(***************************************************************************)
EXTENDS Integers, FiniteSets, FiniteSetsExt

CONSTANTS
  Sessions,      \* bound: sessions alive at a time
  None,
  Port, Tolerance, PortMax,
  MaxRequests    \* bound: requests on a connection

VARIABLES
  enabled,       \* config_->metrics().enabled
  phase,         \* where the calls of the state manager have got
  inUse,         \* ports that other programs have
  port,          \* of acceptor_; None if there is no acceptor
  new_session_,
  op,            \* by session, its operations: "none", "pending", "ok" or "error"
  stopped,       \* context_ is
  thread_,       \* "none", "running" or "ended"
  connected, shut,      \* by session: it has a client; it shut the connection down
  requests, responses   \* by session: received, and delivered

server == <<enabled, phase, inUse, port>>
peer == <<connected, shut, requests, responses>>
vars == <<server, new_session_, op, stopped, thread_, peer>>

Kinds == {"accept", "read", "write"}
idle == [k \in Kinds |-> "none"]
with(s, k, status) == [op EXCEPT ![s][k] = status]
free(s) == s # new_session_ /\ op[s] = idle

------------------------------------------------------------------------------
\* acceptOnFreePort(): the number of a port wraps around, and with zero the system
\* picks one.
attempt(k) == (Port + k) % (PortMax + 1)
available(k) == attempt(k) = 0 \/ attempt(k) \notin inUse
attempts == {k \in 0..Tolerance : available(k)}

prepare ==
  /\ phase = "made" /\ enabled
  /\ \/ /\ attempts # {}
        /\ port' = attempt(Min(attempts))
        /\ phase' \in {"prepared", "failed"}   \* set_option() may fail
     \/ phase' = "failed" /\ UNCHANGED port
  /\ UNCHANGED <<enabled, inUse, new_session_, op, stopped, thread_, peer>>

\* acceptOnce(): a new session waits for a client.
acceptOnce(ops, s) ==
  /\ new_session_' = s
  /\ op' = [ops EXCEPT ![s]["accept"] = "pending"]
  /\ connected' = [connected EXCEPT ![s] = FALSE]
  /\ shut' = [shut EXCEPT ![s] = FALSE]
  /\ requests' = [requests EXCEPT ![s] = 0]
  /\ responses' = [responses EXCEPT ![s] = 0]

start ==
  /\ phase = "prepared"
  /\ \E s \in Sessions : acceptOnce(op, s)
  /\ thread_' = "running"
  /\ phase' = "started"
  /\ UNCHANGED <<enabled, inUse, port, stopped>>

\* stop(): cancel, stop the context, join.  The state manager calls it also when the
\* start failed, of this component or of one before it.
cancel ==
  /\ phase \in {"made", "prepared", "failed", "started"} /\ enabled
  /\ phase' = "cancelled"
  /\ op' = [s \in Sessions |-> IF op[s]["accept"] = "pending"
                               THEN with(s, "accept", "error")[s] ELSE op[s]]
  /\ UNCHANGED <<enabled, inUse, port, new_session_, stopped, thread_, peer>>

stops == TRUE

stopContext ==
  /\ phase = "cancelled"
  /\ phase' = "joining"
  /\ stopped' = stops
  /\ UNCHANGED <<enabled, inUse, port, new_session_, op, thread_, peer>>

joined == thread_ # "running"

join ==
  /\ phase = "joining"
  /\ joined
  /\ phase' = "stopped"
  /\ UNCHANGED <<enabled, inUse, port, new_session_, op, stopped, thread_, peer>>

------------------------------------------------------------------------------
\* Operations complete.  A read ends with a request, or with an error: the client is
\* gone, the request is malformed or too large, or the time is up.
connects(s) ==
  /\ op[s]["accept"] = "pending"
  /\ op' = with(s, "accept", "ok")
  /\ connected' = [connected EXCEPT ![s] = TRUE]
  /\ UNCHANGED <<server, new_session_, stopped, thread_, shut, requests, responses>>

request(s) ==
  /\ op[s]["read"] = "pending" /\ ~shut[s]
  /\ requests[s] < MaxRequests
  /\ op' = with(s, "read", "ok")
  /\ requests' = [requests EXCEPT ![s] = @ + 1]
  /\ UNCHANGED <<server, new_session_, stopped, thread_, connected, shut, responses>>

delivered(s) ==
  /\ op[s]["write"] = "pending" /\ ~shut[s]
  /\ op' = with(s, "write", "ok")
  /\ responses' = [responses EXCEPT ![s] = @ + 1]
  /\ UNCHANGED <<server, new_session_, stopped, thread_, connected, shut, requests>>

fails(s, k) ==
  /\ op[s][k] = "pending"
  /\ op' = with(s, k, "error")
  /\ UNCHANGED <<server, new_session_, stopped, thread_, peer>>

------------------------------------------------------------------------------
\* The thread runs handlers until the context is stopped.
runs(s, k) == thread_ = "running" /\ ~stopped /\ op[s][k] \in {"ok", "error"}

\* The session that is started is new_session_, and only then the next one is made.
started(s) == IF op[s]["accept"] = "ok" THEN {new_session_} ELSE {}

\* cancel() does not close the acceptor, so it is always open here.
continues(s) == port # None

on_accept(s) ==
  /\ runs(s, "accept")
  /\ IF continues(s)
     THEN \E n \in Sessions :
            /\ free(n) /\ n # s
            /\ acceptOnce([t \in Sessions |->
                 [op[t] EXCEPT !["accept"] = IF t = s THEN "none" ELSE @,
                               !["read"] = IF t \in started(s) THEN "pending" ELSE @]], n)
     ELSE /\ op' = with(s, "accept", "none")
          /\ UNCHANGED <<new_session_, peer>>
  /\ UNCHANGED <<server, stopped, thread_>>

\* handleRequest() answers also what could not be read.
closes(s, k) == op[s][k] = "error"
closing_Never(s, k) == shut
closing(s, k) == [shut EXCEPT ![s] = @ \/ closes(s, k)]

answering(s) == [op[s] EXCEPT !["read"] = "none", !["write"] = "pending"]

onRead(s) ==
  /\ runs(s, "read")
  /\ shut' = closing(s, "read")
  /\ op' = [op EXCEPT ![s] = answering(s)]
  /\ UNCHANGED <<server, new_session_, stopped, thread_, connected, requests, responses>>

\* The responses ask to keep the connection, so only an error ends the session.
reads(s) == IF closes(s, "write") THEN "none" ELSE "pending"

onWrite(s) ==
  /\ runs(s, "write")
  /\ shut' = closing(s, "write")
  /\ op' = [op EXCEPT ![s]["write"] = "none", ![s]["read"] = reads(s)]
  /\ UNCHANGED <<server, new_session_, stopped, thread_, connected, requests, responses>>

\* run() returns when the context is stopped or has nothing to wait for.
threadEnds ==
  /\ thread_ = "running"
  /\ stopped \/ \A s \in Sessions : op[s] = idle
  /\ thread_' = "ended"
  /\ UNCHANGED <<server, new_session_, op, stopped, peer>>

------------------------------------------------------------------------------
Init ==
  /\ enabled \in BOOLEAN
  /\ phase = "made"
  /\ inUse \in SUBSET (1..PortMax)
  /\ port = None
  /\ new_session_ = None
  /\ op = [s \in Sessions |-> idle]
  /\ stopped = FALSE
  /\ thread_ = "none"
  /\ connected = [s \in Sessions |-> FALSE] /\ shut = [s \in Sessions |-> FALSE]
  /\ requests = [s \in Sessions |-> 0] /\ responses = [s \in Sessions |-> 0]

Stop == cancel \/ stopContext \/ join
Handle(s) == on_accept(s) \/ onRead(s) \/ onWrite(s)
Complete(s) == connects(s) \/ request(s) \/ delivered(s) \/ \E k \in Kinds : fails(s, k)

Next ==
  \/ prepare \/ start \/ Stop \/ threadEnds
  \/ \E s \in Sessions : Handle(s) \/ Complete(s)

Spec == Init /\ [][Next]_vars

\* The thread runs; reads and writes end, if only with the timeout that asyncRead()
\* sets; and stop() goes on once it began.
FairSpec ==
  /\ Spec
  /\ WF_vars(stopContext) /\ WF_vars(join) /\ WF_vars(threadEnds)
  /\ \A s \in Sessions :
       /\ WF_vars(onRead(s)) /\ WF_vars(onWrite(s))
       /\ WF_vars(fails(s, "read")) /\ WF_vars(fails(s, "write"))

------------------------------------------------------------------------------
TypeOK ==
  /\ enabled \in BOOLEAN
  /\ phase \in {"made", "prepared", "failed", "started", "cancelled", "joining", "stopped"}
  /\ inUse \subseteq 1..PortMax
  /\ port \in 0..PortMax \cup {None}
  /\ new_session_ \in Sessions \cup {None}
  /\ op \in [Sessions -> [Kinds -> {"none", "pending", "ok", "error"}]]
  /\ stopped \in BOOLEAN
  /\ thread_ \in {"none", "running", "ended"}
  /\ connected \in [Sessions -> BOOLEAN] /\ shut \in [Sessions -> BOOLEAN]
  /\ requests \in [Sessions -> 0..MaxRequests]
  /\ responses \in [Sessions -> 0..MaxRequests]

\* The server listens on the first port from the configured one on that is free.
FirstFreePort ==
  port \notin {None, 0} =>
    port >= Port /\ port \notin inUse /\ Port..(port - 1) \subseteq inUse

\* A session never has two operations under way, whatever fails: it reads a request,
\* or writes the response.
OneOperation ==
  \A s \in Sessions : Cardinality({k \in Kinds : op[s][k] # "none"}) <= 1

\* No client gets a response it did not ask for, although onRead() hands a request to
\* the handler after an error as well: the connection is shut down by then.
ResponsesMatch == \A s \in Sessions : responses[s] <= requests[s]

\* No client that was accepted is left alone: until its connection is shut down
\* somebody reads from it or writes to it.
ClientsServed ==
  \A s \in Sessions :
    connected[s] /\ ~shut[s] => \E k \in Kinds : op[s][k] # "none"

\* As long as the thread serves, the server waits for the next client, after errors
\* too.
KeepsListening ==
  thread_ = "running" => new_session_ # None /\ op[new_session_]["accept"] # "none"

\* After stop() no handler runs: they use the exposer's handler without owning it.
QuietAfterStop == phase = "stopped" => thread_ # "running"

\* stop() returns, whatever the sessions do.
StopReturns == phase = "cancelled" ~> phase = "stopped"

\* A session whose connection was shut down ends, unless the server stops before.
ShutSessionsEnd == \A s \in Sessions : shut[s] ~> (free(s) \/ ~shut[s] \/ stopped)

\* The metrics server: it listens on the first free port and goes on listening, whoever
\* was accepted is served, nobody gets what was not asked for, and nothing runs after
\* stop().
ExposerInv ==
  /\ TypeOK
  /\ FirstFreePort
  /\ OneOperation /\ ResponsesMatch
  /\ ClientsServed /\ KeepsListening
  /\ QuietAfterStop

\* stop() of the server and sessions that were shut down come to their end.
ExposerProgress == StopReturns /\ ShutSessionsEnd
==============================================================================
