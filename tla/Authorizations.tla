---------------------------- MODULE Authorizations ----------------------------
(***************************************************************************)
(* authorizations::transition: the pool of authorizers of each core is     *)
(* refilled from the core's queue, at the place the slot points to, once   *)
(* per block.  Authorizers that the block used leave the pool first.       *)
(***************************************************************************)
EXTENDS Integers, Sequences, FiniteSets

CONSTANTS Cores, Authorizers,
          PoolMaxSize,  \* config.auth_pool_max_size
          QueueSize,    \* config.auth_queue_size
          MaxAuths      \* bound: authorizers used by one block

ASSUME AuthAssumption ==
  PoolMaxSize \in Nat \ {0} /\ QueueSize \in Nat \ {0} /\ MaxAuths \in Nat

VARIABLES pools, queues,
          slot,   \* the slot of the last block, modulo QueueSize
          drawn   \* history: how many authorizers the last block drew, by core

authVars == <<pools, queues, slot, drawn>>

------------------------------------------------------------------------------
queueEntry(c, s) == queues[c][s % QueueSize]

\* One used authorizer: all of its occurrences go, the others close up, and one is
\* drawn instead.
others(pool, a) == {i \in 1..Len(pool) : pool[i] # a}
nth(I, n) == CHOOSE i \in I : Cardinality({j \in I : j < i}) = n - 1
erased(pool, a) ==
  LET I == others(pool, a) IN [n \in 1..Cardinality(I) |-> pool[nth(I, n)]]

use(s, auth, st) ==
  LET c == auth.core
      rest == erased(st.pools[c], auth.authorizer)
  IN  IF Len(rest) = Len(st.pools[c]) THEN st
      ELSE [pools |-> [st.pools EXCEPT ![c] = Append(rest, queueEntry(c, s))],
            deleted |-> [st.deleted EXCEPT ![c] = TRUE],
            drawn |-> [st.drawn EXCEPT ![c] = @ + 1]]

used0 ==
  [pools |-> pools, deleted |-> [c \in Cores |-> FALSE], drawn |-> [c \in Cores |-> 0]]

useAll(s, auths) ==
  LET used[n \in 0..Len(auths)] == IF n = 0 THEN used0 ELSE use(s, auths[n], used[n - 1])
  IN  used[Len(auths)]

\* A full pool of which nothing was used loses its oldest authorizer.
makeRoom_Never(pool, deleted) == pool
makeRoom(pool, deleted) ==
  IF ~deleted /\ Len(pool) = PoolMaxSize THEN Tail(pool) ELSE pool

\* There is a free place in the pool.
hasRoom_Over(pool) == Len(pool) <= PoolMaxSize
hasRoom(pool) == Len(pool) < PoolMaxSize

fill(c, s, pool) == IF hasRoom(pool) THEN Append(pool, queueEntry(c, s)) ELSE pool

authorizations_transition(s, auths) ==
  LET st == useAll(s, auths)
      room == [c \in Cores |-> makeRoom(st.pools[c], st.deleted[c])]
  IN  /\ pools' = [c \in Cores |-> fill(c, s, room[c])]
      /\ drawn' = [c \in Cores |-> st.drawn[c] + IF hasRoom(room[c]) THEN 1 ELSE 0]
      /\ slot' = s % QueueSize
      /\ UNCHANGED queues

\* The accumulation of an earlier stage replaces an entry of a queue.
assign(c, i, a) ==
  /\ queues' = [queues EXCEPT ![c][i] = a]
  /\ UNCHANGED <<pools, slot, drawn>>

AuthInit ==
  /\ pools = [c \in Cores |-> <<>>]
  /\ queues \in [Cores -> [0..QueueSize - 1 -> Authorizers]]
  /\ slot = 0
  /\ drawn = [c \in Cores |-> 0]

Auths == [core : Cores, authorizer : Authorizers]

AuthNext ==
  \/ \E s \in 0..2 * QueueSize - 1, n \in 0..MaxAuths :
       \E auths \in [1..n -> Auths] : authorizations_transition(s, auths)
  \/ \E c \in Cores, i \in 0..QueueSize - 1, a \in Authorizers : assign(c, i, a)

AuthSpec == AuthInit /\ [][AuthNext]_authVars

------------------------------------------------------------------------------
AuthTypeOK ==
  /\ pools \in [Cores -> Seq(Authorizers)]
  /\ queues \in [Cores -> [0..QueueSize - 1 -> Authorizers]]
  /\ slot \in 0..QueueSize - 1
  /\ drawn \in [Cores -> Nat]

\* What the next block asserts of every pool, however many authorizers of a core the
\* blocks before it used.
PoolBounded == \A c \in Cores : Len(pools[c]) <= PoolMaxSize

\* The pools keep their type, and none is larger than auth_pool_max_size, which the next
\* block asserts, however many authorizers of a core the blocks before it used.
PoolsInv == AuthTypeOK /\ PoolBounded

\* After a block the newest authorizer of every pool is the queue's entry for the
\* block's slot: no core misses its turn, not even one whose pool is full.
NewestDrawn ==
  [][pools' # pools =>
       \A c \in Cores :
         pools'[c] # <<>> /\ pools'[c][Len(pools'[c])] = queues[c][slot']]_authVars

\* The first n of a pool are authorizers of the old pool, in the old order.
keeps(pool, n, old) ==
  \E g \in [1..n -> 1..Len(old)] :
    /\ \A i, j \in 1..n : i < j => g[i] < g[j]
    /\ \A i \in 1..n : pool[i] = old[g[i]]

\* Authorizers stay in the order in which they were drawn: what is left of the old
\* pool, a subsequence, comes before what was drawn.
OldestFirst ==
  [][pools' # pools =>
       \A c \in Cores : keeps(pools'[c], Len(pools'[c]) - drawn'[c], pools[c])]_authVars

\* Pools stay in order and no core misses its turn.
PoolsInOrder == NewestDrawn /\ OldestFirst
==============================================================================
