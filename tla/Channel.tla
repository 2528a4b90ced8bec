-------------------------------- MODULE Channel --------------------------------
(***************************************************************************)
(* Channel<T>: a sender and a receiver endpoint that point at each other.  *)
(* Each endpoint has a mutex over its context (the peer's address and, for *)
(* the receiver, the value); the receiver has an event besides.  One       *)
(* thread owns the sender, another the receiver; either may move its       *)
(* endpoint to a new object or destroy it at any time.  To keep the two    *)
(* from waiting for each other the receiver only tries the sender's mutex. *)
(***************************************************************************)
EXTENDS Integers, Sequences

CONSTANTS MaxSets,        \* bound: values sent, numbered from 1
          SenderMoves,    \* bound: moves of the sender endpoint
          ReceiverMoves,  \* bound: moves of the receiver endpoint
          Null

\* The bounds are numbers, and the null pointer is none.
ASSUME ChannelAssumption ==
  /\ MaxSets \in Nat /\ SenderMoves \in Nat /\ ReceiverMoves \in Nat
  /\ Null \notin Nat

\* The objects an endpoint lives in, one after another.
Senders == 0..SenderMoves
Receivers == 0..ReceiverMoves

VARIABLES
  sOpp, rOpp,      \* opp_ of every endpoint object, Null for nullptr
  sLocked, rLocked,\* the mutexes of context_
  data,            \* data_ of every receiver object, Null for nullopt
  event,           \* event_ of every receiver object
  sNow, rNow,      \* the objects the endpoints live in now
  sDead, rDead,    \* the endpoint was destroyed
  sPc, rPc,        \* what the two threads are doing
  sent,            \* history: the number of values sent
  got              \* history: what wait() returned

channelVars == <<sOpp, rOpp, sLocked, rLocked, data, event, sNow, rNow, sDead, rDead,
                 sPc, rPc, sent, got>>
senderVars == <<sNow, sDead, sent>>
receiverVars == <<rNow, rDead, rPc, got>>

------------------------------------------------------------------------------
(* The sender's thread *)

\* set, ~Endpoint and the move each start by locking the sender's own context.
senderEnter(op) ==
  /\ sPc = "idle" /\ ~sDead /\ ~sLocked[sNow]
  /\ CASE op = "set" -> sent < MaxSets
       [] op = "move" -> sNow < SenderMoves
       [] op = "die" -> TRUE
  /\ sLocked' = [sLocked EXCEPT ![sNow] = TRUE]
  /\ sPc' = op
  /\ sent' = IF op = "set" THEN sent + 1 ELSE sent
  /\ UNCHANGED <<sOpp, rOpp, rLocked, data, event, sNow, sDead, receiverVars>>

\* The end of an operation: the context is unlocked; a move or a destruction ends
\* the object.
senderLeave(op, opp) ==
  /\ sPc' = "idle"
  /\ sDead' = (op = "die")
  /\ sNow' = IF op = "move" THEN sNow + 1 ELSE sNow
  /\ sLocked' = [sLocked EXCEPT ![sNow] = FALSE]
  /\ sOpp' = IF op = "set" THEN sOpp ELSE [[sOpp EXCEPT ![sNow] = Null] EXCEPT ![sNow'] = opp]

senderAlone ==
  /\ sPc \in {"set", "move", "die"} /\ sOpp[sNow] = Null
  /\ senderLeave(sPc, Null)
  /\ UNCHANGED <<rOpp, rLocked, data, event, sent, receiverVars>>

\* What the sender changes in the receiver's context, under the receiver's mutex.
storedIn(o) == IF sPc = "set" THEN [data EXCEPT ![o] = sent] ELSE data

newPeer(op) == CASE op = "move" -> sNow + 1 [] op = "die" -> Null [] op = "set" -> sNow

senderTouch ==
  /\ sPc \in {"set", "move", "die"} /\ sOpp[sNow] # Null
  /\ ~rLocked[sOpp[sNow]]
  /\ data' = storedIn(sOpp[sNow])
  /\ rOpp' = [rOpp EXCEPT ![sOpp[sNow]] = newPeer(sPc)]
  /\ IF sPc = "move"
       THEN senderLeave("move", sOpp[sNow])
       ELSE /\ sPc' = IF sPc = "set" THEN "setSignal" ELSE "dieSignal"
            /\ UNCHANGED <<sOpp, sLocked, sNow, sDead>>
  /\ UNCHANGED <<rLocked, event, sent, receiverVars>>

\* event_.set() of the receiver, with the sender's mutex only.
signalled(o) == [event EXCEPT ![o] = TRUE]

senderSignal ==
  /\ sPc \in {"setSignal", "dieSignal"}
  /\ event' = signalled(sOpp[sNow])
  /\ senderLeave(IF sPc = "setSignal" THEN "set" ELSE "die", Null)
  /\ UNCHANGED <<rOpp, rLocked, data, sent, receiverVars>>

sender == senderAlone \/ senderTouch \/ senderSignal

------------------------------------------------------------------------------
(* The receiver's thread *)

receiverBegin(op) ==
  /\ rPc = "idle" /\ ~rDead
  /\ op = "move" => rNow < ReceiverMoves
  /\ rPc' = op
  /\ UNCHANGED <<sOpp, rOpp, sLocked, rLocked, data, event, senderVars, sPc, rNow, rDead,
                 got>>

\* wait(): consume the event, then read the value under the mutex.  std::move of the
\* optional leaves it engaged.
waitEvent ==
  /\ rPc = "wait" /\ event[rNow]
  /\ event' = [event EXCEPT ![rNow] = FALSE]
  /\ rPc' = "read"
  /\ UNCHANGED <<sOpp, rOpp, sLocked, rLocked, data, senderVars, sPc, rNow, rDead, got>>

readData ==
  /\ rPc = "read" /\ ~rLocked[rNow]
  /\ got' = Append(got, data[rNow])
  /\ rPc' = "idle"
  /\ UNCHANGED <<sOpp, rOpp, sLocked, rLocked, data, event, senderVars, sPc, rNow, rDead>>

\* ~Endpoint and the move lock the receiver's context ...
receiverLock ==
  /\ rPc \in {"die", "move"} /\ ~rLocked[rNow]
  /\ rLocked' = [rLocked EXCEPT ![rNow] = TRUE]
  /\ rPc' = IF rPc = "die" THEN "dieTry" ELSE "moveTry"
  /\ UNCHANGED <<sOpp, rOpp, sLocked, data, event, senderVars, sPc, rNow, rDead, got>>

\* ... and try the sender's; when it is taken they unlock and start again.
tryFails_Never == FALSE
tryFails == rOpp[rNow] # Null /\ sLocked[rOpp[rNow]]

receiverRetry_Block == FALSE /\ UNCHANGED channelVars
receiverRetry ==
  /\ rPc \in {"dieTry", "moveTry"} /\ tryFails
  /\ rLocked' = [rLocked EXCEPT ![rNow] = FALSE]
  /\ rPc' = IF rPc = "dieTry" THEN "die" ELSE "move"
  /\ UNCHANGED <<sOpp, rOpp, sLocked, data, event, senderVars, sPc, rNow, rDead, got>>

receiverLeave ==
  /\ rPc \in {"dieTry", "moveTry"} /\ ~tryFails
  /\ rLocked' = [rLocked EXCEPT ![rNow] = FALSE]
  /\ rPc' = "idle"
  /\ rDead' = (rPc = "dieTry")
  /\ rNow' = IF rPc = "moveTry" THEN rNow + 1 ELSE rNow
  /\ sOpp' = IF rOpp[rNow] = Null THEN sOpp
             ELSE [sOpp EXCEPT ![rOpp[rNow]] = IF rDead' THEN Null ELSE rNow']
  /\ rOpp' = [[rOpp EXCEPT ![rNow] = Null]
                EXCEPT ![rNow'] = IF rDead' THEN Null ELSE rOpp[rNow]]
  /\ UNCHANGED <<sLocked, data, event, senderVars, sPc, got>>

receiver == waitEvent \/ readData \/ receiverLock \/ receiverRetry \/ receiverLeave

------------------------------------------------------------------------------
\* create_channel: each end registered with the other.
ChannelInit ==
  /\ sOpp = [o \in Senders |-> IF o = 0 THEN 0 ELSE Null]
  /\ rOpp = [o \in Receivers |-> IF o = 0 THEN 0 ELSE Null]
  /\ sLocked = [o \in Senders |-> FALSE]
  /\ rLocked = [o \in Receivers |-> FALSE]
  /\ data = [o \in Receivers |-> Null]
  /\ event = [o \in Receivers |-> FALSE]
  /\ sNow = 0 /\ rNow = 0
  /\ sDead = FALSE /\ rDead = FALSE
  /\ sPc = "idle" /\ rPc = "idle"
  /\ sent = 0 /\ got = <<>>

ChannelNext ==
  \/ \E op \in {"set", "move", "die"} : senderEnter(op)
  \/ sender
  \/ \E op \in {"wait", "move", "die"} : receiverBegin(op)
  \/ receiver

ChannelSpec == ChannelInit /\ [][ChannelNext]_channelVars

\* Threads run, and a mutex that is free again and again is granted at last.
ChannelFairness ==
  SF_channelVars(sender) /\ WF_channelVars(receiver) /\ SF_channelVars(receiverLeave)

FairChannelSpec == ChannelSpec /\ ChannelFairness

------------------------------------------------------------------------------
ChannelTypeOK ==
  /\ sOpp \in [Senders -> Receivers \cup {Null}]
  /\ rOpp \in [Receivers -> Senders \cup {Null}]
  /\ sLocked \in [Senders -> BOOLEAN] /\ rLocked \in [Receivers -> BOOLEAN]
  /\ data \in [Receivers -> 1..MaxSets \cup {Null}]
  /\ event \in [Receivers -> BOOLEAN]
  /\ sNow \in Senders /\ rNow \in Receivers
  /\ sDead \in BOOLEAN /\ rDead \in BOOLEAN
  /\ sPc \in {"idle", "set", "move", "die", "setSignal", "dieSignal"}
  /\ rPc \in {"idle", "wait", "read", "die", "move", "dieTry", "moveTry"}
  /\ sent \in 0..MaxSets
  /\ got \in Seq(1..MaxSets \cup {Null})

\* The assertions in unregister_opp: outside the sender's destructor the two
\* endpoints point at each other, or neither points at anything.
PeersAgree ==
  sPc # "dieSignal" =>
    \/ sOpp[sNow] = rNow /\ rOpp[rNow] = sNow
    \/ sOpp[sNow] = Null /\ rOpp[rNow] = Null

\* A sender that is between storing a value and setting the event, or about to
\* store it, holds the address of a receiver that still exists.
SetTouchesLive ==
  \/ sPc = "setSignal"
  \/ sPc \in {"set", "move", "die"} /\ sOpp[sNow] # Null
  => ~rDead /\ sOpp[sNow] = rNow

\* wait() returns when its object holds a value it has not returned yet.  (A move takes
\* neither the value nor the event along: what was sent before stays in the old object.)
ValueArrives ==
  (rPc = "wait" /\ data[rNow] # Null /\ \A i \in 1..Len(got) : got[i] # data[rNow])
    ~> (rPc # "wait")

\* Destroying the sender wakes a receiver that waits, unless the receiver was moved
\* after the sender had let go of it: the event set is that of the old object.
SenderDeathWakes == (rPc = "wait" /\ sPc = "dieSignal" /\ sOpp[sNow] = rNow) ~> (rPc # "wait")

\* No thread is stuck in an operation other than wait().
OperationsEnd ==
  /\ (sPc # "idle") ~> (sPc = "idle")
  /\ (rPc \in {"die", "move"}) ~> (rPc = "idle")

\* The ends of a channel, in every interleaving of sending, moving and destroying.
ChannelInv == ChannelTypeOK /\ PeersAgree /\ SetTouchesLive

\* Nobody waits for what has happened: not the receiver for a value or for the sender's
\* death, and not one end for the mutex of the other.
ChannelProgress == ValueArrives /\ SenderDeathWakes /\ OperationsEnd
==============================================================================
