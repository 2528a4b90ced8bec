---------------------------- MODULE InMemoryStorage ----------------------------
(***************************************************************************)
(* InMemoryStorage, with one InMemoryBatch and one InMemoryCursor on it.   *)
(*                                                                         *)
(* Data: keys are numbers in the order of their bytes, which their hex     *)
(* strings share; a value is its size in bytes.                            *)
(***************************************************************************)
EXTENDS Integers, Sequences, FiniteSets, FiniteSetsExt, Functions

CONSTANTS Keys, Sizes,
          MaxOps   \* bound: operations between two clears of the batch

VARIABLES
  storage_,   \* a function on the keys that are there
  size_,
  entries,    \* InMemoryBatch
  kv,         \* InMemoryCursor: an optional pair, as a sequence
  ops,        \* history: what the batch was asked to do since it was cleared
  walk,       \* history: the cursor went from seekFirst() by next() alone
  visited,    \* history: the keys it has been at since
  stable,     \* history: the keys that were there all the time since
  sought      \* history: the keys that a seekReverse() just made had to choose from

vars == <<storage_, size_, entries, kv, ops, walk, visited, stable, sought>>
cursorVars == <<kv, walk, visited, sought>>

empty == [k \in {} |-> 0]
set(f, k, v) == [j \in DOMAIN f \cup {k} |-> IF j = k THEN v ELSE f[j]]
unset(f, k) == Restrict(f, DOMAIN f \ {k})

------------------------------------------------------------------------------
\* InMemoryStorage::put on a storage and its size.
old(s, k) == IF k \in DOMAIN s.map THEN s.map[k] ELSE 0
stored(s, k, v) == [map |-> set(s.map, k, v), size |-> s.size - old(s, k) + v]

put(k, v) ==
  LET s == stored([map |-> storage_, size |-> size_], k, v)
  IN  /\ storage_' = s.map
      /\ size_' = s.size
      /\ UNCHANGED <<entries, ops, stable, cursorVars>>

freed(k) == IF k \in DOMAIN storage_ THEN storage_[k] ELSE 0

remove(k) ==
  /\ storage_' = unset(storage_, k)
  /\ size_' = size_ - freed(k)
  /\ stable' = stable \ {k}
  /\ UNCHANGED <<entries, ops, cursorVars>>

------------------------------------------------------------------------------
batchPut(k, v) ==
  /\ Len(ops) < MaxOps
  /\ entries' = set(entries, k, v)
  /\ ops' = Append(ops, [key |-> k, value |-> <<v>>])
  /\ UNCHANGED <<storage_, size_, stable, cursorVars>>

\* Takes back what the batch would put.
batchRemove(k) ==
  /\ Len(ops) < MaxOps
  /\ entries' = unset(entries, k)
  /\ ops' = Append(ops, [key |-> k, value |-> <<>>])
  /\ UNCHANGED <<storage_, size_, stable, cursorVars>>

\* commit(): one put after the other.
commit ==
  LET s == FoldFunctionOnSet(
             LAMBDA e, acc : stored(acc, e[1], e[2]),
             [map |-> storage_, size |-> size_],
             [k \in DOMAIN entries |-> <<k, entries[k]>>], DOMAIN entries)
  IN  /\ storage_' = s.map
      /\ size_' = s.size
      /\ UNCHANGED <<entries, ops, stable, cursorVars>>

clear ==
  /\ entries' = empty
  /\ ops' = <<>>
  /\ UNCHANGED <<storage_, size_, stable, cursorVars>>

------------------------------------------------------------------------------
\* The positions of the cursor: a set with one key, or none at the end.
first(S) == IF S = {} THEN {} ELSE {Min(S)}
last(S) == IF S = {} THEN {} ELSE {Max(S)}
lower_bound(k) == first({j \in DOMAIN storage_ : j >= k})
upper_bound_Skip(k) ==
  LET p == lower_bound(k) IN IF p = {} THEN {} ELSE first({j \in DOMAIN storage_ : j > Max(p)})
upper_bound(k) == first({j \in DOMAIN storage_ : j > k})
before(k) == last({j \in DOMAIN storage_ : j < k})

at(p) == kv' = IF p = {} THEN <<>> ELSE LET k == Max(p) IN <<[key |-> k, value |-> storage_[k]]>>

unchangedMap == UNCHANGED <<storage_, size_, entries, ops>>

\* A seek ends the walk that went before.
noWalk == walk' = FALSE /\ visited' = {} /\ stable' = {}

seekFirst ==
  /\ at(first(DOMAIN storage_))
  /\ walk' = TRUE
  /\ visited' = first(DOMAIN storage_)
  /\ stable' = DOMAIN storage_
  /\ sought' = <<>>
  /\ unchangedMap

seekLast ==
  /\ at(last(DOMAIN storage_))
  /\ noWalk /\ sought' = <<>> /\ unchangedMap

seek(k) ==
  /\ at(lower_bound(k))
  /\ noWalk /\ sought' = <<>> /\ unchangedMap

\* MapCursor::seekReverse: seek(), then seekLast() or prev().
floor(k) ==
  IF lower_bound(k) = {} THEN last(DOMAIN storage_)
  ELSE IF Max(lower_bound(k)) > k THEN before(Max(lower_bound(k)))
  ELSE lower_bound(k)

seekReverse(k) ==
  /\ at(floor(k))
  /\ sought' = <<{j \in DOMAIN storage_ : j <= k}>>
  /\ noWalk /\ unchangedMap

\* next() and prev() go from the key, which may no longer be there.
next ==
  /\ kv # <<>>
  /\ at(upper_bound(kv[1].key))
  /\ visited' = IF walk THEN visited \cup upper_bound(kv[1].key) ELSE {}
  /\ sought' = <<>>
  /\ UNCHANGED <<walk, stable>>
  /\ unchangedMap

prev ==
  /\ kv # <<>>
  /\ at(before(kv[1].key))
  /\ noWalk /\ sought' = <<>> /\ unchangedMap

------------------------------------------------------------------------------
Init ==
  /\ storage_ = empty /\ size_ = 0 /\ entries = empty /\ kv = <<>>
  /\ ops = <<>> /\ walk = FALSE /\ visited = {} /\ stable = {} /\ sought = <<>>

Next ==
  \/ \E k \in Keys, v \in Sizes : put(k, v) \/ batchPut(k, v)
  \/ \E k \in Keys : remove(k) \/ batchRemove(k) \/ seek(k) \/ seekReverse(k)
  \/ commit \/ clear
  \/ seekFirst \/ seekLast \/ next \/ prev

Spec == Init /\ [][Next]_vars

------------------------------------------------------------------------------
TypeOK ==
  /\ DOMAIN storage_ \subseteq Keys /\ Range(storage_) \subseteq Sizes
  /\ DOMAIN entries \subseteq Keys /\ Range(entries) \subseteq Sizes
  /\ size_ \in Nat
  /\ Len(kv) <= 1
  /\ stable \subseteq Keys /\ visited \subseteq Keys

\* byteSizeHint() is the size of all values, whatever was overwritten, removed or
\* committed; put() asserts half of that.
SizeIsExact == size_ = SumFunction(storage_)

\* A walk by next() visits every key that is there all the time, although others come
\* and go between its steps and the key it stands on may be removed.
WalkIsComplete ==
  walk => \A k \in stable : kv = <<>> \/ k <= kv[1].key => k \in visited

\* seekReverse() finds the greatest key up to the one given, as the table in the
\* comment on it shows.
FloorFound ==
  sought # <<>> =>
    IF sought[1] = {} THEN kv = <<>> ELSE kv # <<>> /\ kv[1].key = Max(sought[1])

\* The last operation of the batch on a key.
LastOp(k) == Max({i \in 1..Len(ops) : ops[i].key = k})

\* What the comment on commit() says: it executes all accumulated operations.
CommitExecutesAll ==
  [][commit =>
       \A k \in {ops[i].key : i \in 1..Len(ops)} :
         IF ops[LastOp(k)].value = <<>> THEN k \notin DOMAIN storage_'
         ELSE k \in DOMAIN storage_' /\ storage_'[k] = ops[LastOp(k)].value[1]]_vars
==============================================================================
