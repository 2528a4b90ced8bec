------------------------------- MODULE MCBlock -------------------------------
(***************************************************************************)
(* The two small transitions of a block, the recent history and the        *)
(* authorizations, for the model checker: they share no state, and a       *)
(* behaviour is one of either.                                             *)
(***************************************************************************)
EXTENDS History, Authorizations

VARIABLE part  \* the part that the behaviour is of

allVars == <<part, historyVars, authVars>>

MCInit == part \in {"history", "authorizations"} /\ HistoryInit /\ AuthInit

MCNext ==
  \/ part = "history" /\ HistoryNext /\ UNCHANGED <<part, authVars>>
  \/ part = "authorizations" /\ AuthNext /\ UNCHANGED <<part, historyVars>>

MCSpec == MCInit /\ [][MCNext]_allVars

==============================================================================
