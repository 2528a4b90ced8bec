-------------------------------- MODULE RocksDb --------------------------------
(***************************************************************************)
(* RocksDb, its spaces and one RocksDbBatch, over the life of several      *)
(* processes.                                                              *)
(*                                                                         *)
(* The library is modelled by what the code relies on: a column family has *)
(* an identifier of its own; a write batch is applied as a whole, and not  *)
(* at all if a family it names was dropped; what is written survives the   *)
(* process.                                                                *)
(***************************************************************************)
EXTENDS Integers, Sequences, FiniteSets, Functions

CONSTANTS Spaces, Default, Keys, Values, NoValue,
          MaxOps,   \* bound: writes in a batch
          MaxId     \* bound: column families ever made

ASSUME RocksDbAssumption ==
  /\ Default \in Spaces
  /\ IsFiniteSet(Spaces)
  /\ MaxOps \in Nat /\ MaxId \in Nat /\ Cardinality(Spaces) <= MaxId

VARIABLES
  exists,      \* the directory
  id,          \* the families on disk: their identifiers, 0 if there is none
  data,        \* and what they hold
  rocks,       \* there is an instance of RocksDb
  column_family_handles_,  \* by space; 0 if there is none
  space,       \* what the clients hold of each space: "none", "live" or "gone"
  batch,       \* the writes of the batch,
  column,      \* the identifiers of their families,
  of,          \* and the space it is for, or NoValue
  answer       \* the last call that returned and what it said

disk == <<exists, id, data>>
client == <<batch, column, of, answer>>
dbVars == <<disk, rocks, column_family_handles_, space, client>>

Storage == INSTANCE BufferStorage WITH store <- data

\* The identifiers of new families grow.
fresh(n) == \A s \in Spaces : id[s] < n

------------------------------------------------------------------------------
\* The constructor opens the database only if there was no directory before it
\* made one.
opens == ~exists

construct ==
  /\ ~rocks
  /\ rocks' = TRUE
  /\ exists' = TRUE
  /\ IF opens
     THEN \E made \in Injection(Spaces, 1..Cardinality(Spaces)) :
            id' = made /\ column_family_handles_' = made
     ELSE /\ column_family_handles_' = [s \in Spaces |-> 0]
          /\ UNCHANGED id
  /\ UNCHANGED <<data, space, client>>

\* It fails after it made the directory.
constructFails ==
  /\ ~rocks
  /\ exists' = TRUE
  /\ UNCHANGED <<id, data, rocks, column_family_handles_, space, client>>

\* The spaces that clients still hold have a weak pointer to the instance.
lost(s) == IF space[s] = "live" THEN "gone" ELSE space[s]

destruct ==
  /\ rocks
  /\ rocks' = FALSE
  /\ space' = [s \in Spaces |-> lost(s)]
  /\ UNCHANGED <<disk, column_family_handles_, client>>

crash ==
  /\ rocks' = FALSE
  /\ space' = [s \in Spaces |-> "none"]
  /\ batch' = <<>> /\ column' = <<>> /\ of' = NoValue
  /\ answer' = <<"discarded">>
  /\ UNCHANGED <<disk, column_family_handles_>>

\* getSpace() throws if no handle has the name of the space.
getSpace(s) ==
  /\ rocks
  /\ column_family_handles_[s] # 0
  /\ space' = [space EXCEPT ![s] = "live"]
  /\ UNCHANGED <<disk, rocks, column_family_handles_, client>>

\* A space holds a reference to the handle, not a copy of it.
handle(s) == column_family_handles_[s]

failure ==
  /\ answer' = <<"error">>
  /\ UNCHANGED <<disk, rocks, column_family_handles_, space, batch, column, of>>

\* put() and remove(); without an instance they return STORAGE_GONE.
target_Default(s) == Default
target(s) == s

write(s, k, v) ==
  \/ /\ space[s] = "live"
     /\ data' = Storage!write(data, [space |-> target(s), key |-> k, value |-> v])
     /\ answer' = <<"written", [space |-> s, key |-> k, value |-> v]>>
     /\ UNCHANGED <<exists, id, rocks, column_family_handles_, space, batch, column, of>>
  \/ space[s] = "gone" /\ failure

\* What the library finds in the family of the handle; a handle of a family that was
\* dropped would find the old values, which the model does not keep.
Get(s, k) == IF handle(s) = id[s] THEN data[s][k] ELSE NoValue

answers(a) ==
  /\ answer' = a
  /\ UNCHANGED <<disk, rocks, column_family_handles_, space, batch, column, of>>

contains(s, k) ==
  \/ space[s] = "live" /\ answers(<<"contains", s, k, Get(s, k) # NoValue>>)
  \/ space[s] = "gone" /\ failure

\* get() of a key that is not there is an error, tryGet() is not.
get(s, k) ==
  \/ space[s] = "live" /\ Get(s, k) # NoValue /\ answers(<<"read", s, k, Get(s, k)>>)
  \/ space[s] = "live" /\ Get(s, k) = NoValue /\ failure
  \/ space[s] = "gone" /\ failure

tryGet(s, k) ==
  \/ space[s] = "live" /\ answers(<<"read", s, k, Get(s, k)>>)
  \/ space[s] = "gone" /\ failure

newBatch(s) ==
  /\ space[s] # "none"
  /\ of' = s /\ batch' = <<>> /\ column' = <<>>
  /\ answer' = <<"discarded">>
  /\ UNCHANGED <<disk, rocks, column_family_handles_, space>>

\* The batch notes the family that the space has now.
batchPut(s, k, v) ==
  /\ of = s
  /\ space[s] = "live"
  /\ Len(batch) < MaxOps
  /\ batch' = Append(batch, [space |-> s, key |-> k, value |-> v])
  /\ column' = Append(column, handle(s))
  /\ answer' = <<"collected">>
  /\ UNCHANGED <<disk, rocks, column_family_handles_, space, of>>

\* DB::Write fails if a family that the batch names was dropped.
writable == \A i \in 1..Len(batch) : column[i] = id[of]

commit ==
  /\ of # NoValue
  /\ \/ /\ space[of] = "live" /\ writable
        /\ data' = Storage!writeAll(data, batch)
        /\ answer' = <<"committed">>
        /\ UNCHANGED <<exists, id, rocks, column_family_handles_, space, batch, column, of>>
     \/ ~(space[of] = "live" /\ writable) /\ failure

clear ==
  /\ of # NoValue
  /\ batch' = <<>> /\ column' = <<>>
  /\ answer' = <<"discarded">>
  /\ UNCHANGED <<disk, rocks, column_family_handles_, space, of>>

\* dropColumn(): drop, destroy the handle, create anew.
renewed_Old(s) == column_family_handles_
renewed(s) == [column_family_handles_ EXCEPT ![s] = id'[s]]

\* The library refuses to drop the default family.
dropColumn(s) ==
  /\ rocks
  /\ column_family_handles_[s] # 0
  /\ \/ /\ s # Default
        /\ \E n \in 1..MaxId : fresh(n) /\ id' = [id EXCEPT ![s] = n]
        /\ data' = [data EXCEPT ![s] = Storage!Empty]
        /\ column_family_handles_' = renewed(s)
        /\ answer' = <<"erased", s>>
        /\ UNCHANGED <<exists, rocks, space, batch, column, of>>
     \/ s = Default /\ failure

------------------------------------------------------------------------------
DbInit ==
  /\ exists = FALSE
  /\ id = [s \in Spaces |-> 0]
  /\ data = [s \in Spaces |-> Storage!Empty]
  /\ rocks = FALSE
  /\ column_family_handles_ = [s \in Spaces |-> 0]
  /\ space = [s \in Spaces |-> "none"]
  /\ batch = <<>> /\ column = <<>> /\ of = NoValue /\ answer = <<"discarded">>

DbNext ==
  \/ construct \/ constructFails \/ destruct \/ crash
  \/ \E s \in Spaces : getSpace(s) \/ newBatch(s) \/ dropColumn(s)
  \/ \E s \in Spaces, k \in Keys, v \in Values \cup {NoValue} :
       write(s, k, v) \/ batchPut(s, k, v)
  \/ \E s \in Spaces, k \in Keys : contains(s, k) \/ get(s, k) \/ tryGet(s, k)
  \/ commit \/ clear

DbSpec == DbInit /\ [][DbNext]_dbVars

------------------------------------------------------------------------------
DbTypeOK ==
  /\ exists \in BOOLEAN /\ rocks \in BOOLEAN
  /\ id \in [Spaces -> 0..MaxId]
  /\ data \in [Spaces -> [Keys -> Values \cup {NoValue}]]
  /\ column_family_handles_ \in [Spaces -> 0..MaxId]
  /\ space \in [Spaces -> {"none", "live", "gone"}]
  /\ batch \in Seq(Storage!Writes) /\ column \in Seq(1..MaxId)
  /\ Len(batch) = Len(column)
  /\ of \in Spaces \cup {NoValue}

\* Every space that a client holds of a live instance writes to the family on disk,
\* also after the family was dropped and made anew.
SpacesAreLive ==
  \A s \in Spaces : space[s] = "live" => rocks /\ handle(s) = id[s] /\ id[s] # 0

\* The database keeps the promises of the interfaces: isolated spaces, batches that
\* are written as a whole or not at all, and nothing lost with the process.
Implements == Storage!Spec
==============================================================================
