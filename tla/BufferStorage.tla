----------------------------- MODULE BufferStorage -----------------------------
(***************************************************************************)
(* What the interfaces SpacedStorage, BufferStorage and BufferBatch        *)
(* promise: isolated maps that outlive the process, and batches that are   *)
(* applied as a whole or not at all.                                       *)
(***************************************************************************)
EXTENDS Integers, Sequences, SequencesExt

CONSTANTS Spaces, Keys, Values,
          NoValue   \* the value of a key that is not there

VARIABLES
  store,
  batch,
  answer   \* the last call that returned and what it said

vars == <<store, batch, answer>>

\* A write is a space, a key and the new value; it removes the key with NoValue.
Writes == [space : Spaces, key : Keys, value : Values \cup {NoValue}]

write(st, w) == [st EXCEPT ![w.space] = [@ EXCEPT ![w.key] = w.value]]
writeAll(st, ws) == FoldLeft(write, st, ws)

Empty == [k \in Keys |-> NoValue]

------------------------------------------------------------------------------
\* put() and remove().
Write(w) == store' = write(store, w) /\ answer' = <<"written", w>> /\ UNCHANGED batch

Collect(w) == batch' = Append(batch, w) /\ answer' = <<"collected">> /\ UNCHANGED store

\* commit() keeps the writes.
Commit == store' = writeAll(store, batch) /\ answer' = <<"committed">> /\ UNCHANGED batch

\* contains(), get() and tryGet().
Has(s, k) ==
  answer' = <<"contains", s, k, store[s][k] # NoValue>> /\ UNCHANGED <<store, batch>>

Read(s, k) == answer' = <<"read", s, k, store[s][k]>> /\ UNCHANGED <<store, batch>>

\* A call that returns an error has done nothing.
Fail == answer' = <<"error">> /\ UNCHANGED <<store, batch>>

\* clear(), a new batch, or the end of the process.
Discard == batch' = <<>> /\ answer' = <<"discarded">> /\ UNCHANGED store

\* RocksDb::dropColumn.
Erase(s) ==
  store' = [store EXCEPT ![s] = Empty] /\ answer' = <<"erased", s>> /\ UNCHANGED batch

Init == store = [s \in Spaces |-> Empty] /\ batch = <<>> /\ answer = <<"discarded">>

Next ==
  \/ \E w \in Writes : Write(w) \/ Collect(w)
  \/ Commit
  \/ \E s \in Spaces, k \in Keys : Has(s, k) \/ Read(s, k)
  \/ Fail
  \/ Discard
  \/ \E s \in Spaces : Erase(s)

Spec == Init /\ [][Next]_vars
==============================================================================
