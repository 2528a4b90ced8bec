----------------------------- MODULE RocksDbCursor -----------------------------
(***************************************************************************)
(* RocksDBCursor over a space that is written at the same time, and the    *)
(* search from above that MapCursor builds on it.                          *)
(*                                                                         *)
(* The iterator of the library is modelled by what the code relies on: it  *)
(* sees the space as it was when the iterator was made.  A step from an    *)
(* iterator that points nowhere is undefined, and no client makes it.      *)
(* Data: keys are numbers in the order of their bytes.                     *)
(***************************************************************************)
EXTENDS Integers, Sequences, FiniteSets, FiniteSetsExt, Functions, SequencesExt

CONSTANTS Keys

VARIABLES
  content,    \* the keys in the space
  rocks,      \* there is an instance of RocksDb
  snapshot,   \* the keys the iterator sees; <<>> if there is no cursor
  i_,         \* where it points: a set with one key, or none
  walk,       \* history: it goes "up" from seekFirst(), "down" from seekLast(), or "no"
  visited,    \* history: the keys the walk was at, in its order
  sought      \* history: the key of a seekReverse() just made

vars == <<content, rocks, snapshot, i_, walk, visited, sought>>

seen == IF snapshot = <<>> THEN {} ELSE snapshot[1]
first(S) == IF S = {} THEN {} ELSE {Min(S)}
last(S) == IF S = {} THEN {} ELSE {Max(S)}

------------------------------------------------------------------------------
\* The space is written while the cursor is used.
change ==
  /\ rocks
  /\ content' \in SUBSET Keys
  /\ UNCHANGED <<rocks, snapshot, i_, walk, visited, sought>>

noWalk == walk' = "no" /\ visited' = <<>> /\ sought' = {}

\* cursor() throws when the database is gone.
cursor ==
  \/ /\ rocks
     /\ snapshot' = <<content>> /\ i_' = {} /\ noWalk
     /\ UNCHANGED <<content, rocks>>
  \/ ~rocks /\ UNCHANGED vars

\* The cursor does not keep the database, so that its owner destroys it first.
destruct ==
  /\ rocks
  /\ rocks' = FALSE
  /\ snapshot' = <<>> /\ i_' = {} /\ noWalk
  /\ UNCHANGED content

------------------------------------------------------------------------------
pointsTo(p) == snapshot # <<>> /\ i_' = p /\ UNCHANGED <<content, rocks, snapshot>>

seekFirst ==
  /\ pointsTo(first(seen))
  /\ walk' = "up" /\ visited' = SetToSeq(first(seen)) /\ sought' = {}

seekLast ==
  /\ pointsTo(last(seen))
  /\ walk' = "down" /\ visited' = SetToSeq(last(seen)) /\ sought' = {}

Seek(k) == first({j \in seen : j >= k})
seek(k) == pointsTo(Seek(k)) /\ noWalk

Next_(k) == first({j \in seen : j > k})
Prev(k) == last({j \in seen : j < k})

\* A step; the walk goes on if the step is in its direction.
steps(p, way) ==
  /\ pointsTo(p)
  /\ walk' = IF walk = way THEN way ELSE "no"
  /\ visited' = IF walk = way THEN visited \o SetToSeq(p) ELSE <<>>
  /\ sought' = {}

next == \E k \in i_ : steps(Next_(k), "up")
prev == \E k \in i_ : steps(Prev(k), "down")

\* MapCursor::seekReverse: where seek() comes to nothing the last key is it.
floor(k) ==
  IF Seek(k) = {} THEN last(seen)
  ELSE UNION {IF j > k THEN Prev(j) ELSE {j} : j \in Seek(k)}

seekReverse(k) ==
  /\ pointsTo(floor(k))
  /\ walk' = "no" /\ visited' = <<>> /\ sought' = {k}

------------------------------------------------------------------------------
Init ==
  /\ content \in SUBSET Keys /\ rocks = TRUE
  /\ snapshot = <<>> /\ i_ = {} /\ walk = "no" /\ visited = <<>> /\ sought = {}

Next ==
  \/ change \/ cursor \/ destruct
  \/ seekFirst \/ seekLast \/ next \/ prev
  \/ \E k \in Keys : seek(k) \/ seekReverse(k)

------------------------------------------------------------------------------
\* A walk by next() from seekFirst(), or by prev() from seekLast(), comes to its end
\* after every key that the space had when the cursor was made, in order and once each,
\* and after no other, whatever was written in between.
WalkOfSnapshot ==
  i_ = {} =>
    /\ walk = "up" => visited = SetToSortSeq(seen, <)
    /\ walk = "down" => visited = SetToSortSeq(seen, >)

\* seekReverse() finds the greatest key of the snapshot up to the one given, as the
\* examples in map_cursor.hpp say.
FloorOfSnapshot == \A k \in sought : i_ = last({j \in seen : j <= k})
==============================================================================
