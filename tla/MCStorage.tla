------------------------------ MODULE MCStorage ------------------------------
(***************************************************************************)
(* The two back ends of the storage interfaces, for the model checker: a   *)
(* behaviour is one of RocksDb, one of its cursor or one of                *)
(* InMemoryStorage.                                                        *)
(***************************************************************************)
EXTENDS RocksDb, TLC

VARIABLES
  part,   \* the back end
  storage_, size_, entries, kv, ops, walk, visited, stable, sought,
  content, opened, snapshot, i_, way, passed, asked

inMemory == <<storage_, size_, entries, kv, ops, walk, visited, stable, sought>>
cursorOfRocksDb == <<content, opened, snapshot, i_, way, passed, asked>>
allVars == <<part, dbVars, inMemory, cursorOfRocksDb>>

M == INSTANCE InMemoryStorage WITH Keys <- 1..3, Sizes <- {0, 2}
C == INSTANCE RocksDbCursor WITH
       Keys <- 1..3, rocks <- opened, walk <- way, visited <- passed, sought <- asked

\* One content to start with; change() reaches the others.
MCInit ==
  part \in {"rocksdb", "in_memory", "cursor"} /\ DbInit /\ M!Init /\ C!Init /\ content = {}

MCNext ==
  \/ part = "rocksdb" /\ DbNext /\ UNCHANGED <<part, inMemory, cursorOfRocksDb>>
  \/ part = "in_memory" /\ M!Next /\ UNCHANGED <<part, dbVars, cursorOfRocksDb>>
  \/ part = "cursor" /\ C!Next /\ UNCHANGED <<part, dbVars, inMemory>>

MCSpec == MCInit /\ [][MCNext]_allVars

\* Nothing tells the keys of RocksDb apart.
Symmetry == Permutations(Keys)

------------------------------------------------------------------------------
\* Both back ends keep their types.  Of the storage in memory: byteSizeHint() is the size
\* of all values, a walk by next() visits every key that is there all the time, and
\* seekReverse() finds the greatest key up to the one given.  Of a cursor of RocksDb: a
\* walk in either direction visits the keys that were there when the cursor was made, and
\* seekReverse() finds the greatest of them up to the one given.
StorageInv ==
  /\ DbTypeOK /\ M!TypeOK
  /\ M!SizeIsExact /\ M!WalkIsComplete /\ M!FloorFound
  /\ C!WalkOfSnapshot /\ C!FloorOfSnapshot
==============================================================================
