-------------------------------- MODULE MCNode --------------------------------
(***************************************************************************)
(* What the node starts with, for the model checker: its configuration,    *)
(* the opening of its database, the limit of open files, and its metrics.  *)
(* They share no state, so a behaviour is one of one of them.              *)
(***************************************************************************)
EXTENDS Metrics

CONSTANTS Inputs, UINT64_MAX

VARIABLES
  part,   \* the one that runs
  given, place, config, cache_size, enabled, file_has_error_, result,
  path, no_db_presented, max_open_files, column_cache_sizes, memory_budget,
  existing_families, all_families, cache, step, opened,
  limit, soft, hard, current, first, count, search

configurator == <<given, place, config, cache_size, enabled, file_has_error_, result>>
database == <<path, no_db_presented, max_open_files, column_cache_sizes, memory_budget,
              existing_families, all_families, cache, step, opened>>
files == <<limit, soft, hard, current, first, count, search>>
allVars == <<part, vars, configurator, database, files>>

C == INSTANCE MCConfigurator WITH pc <- place

D == INSTANCE RocksDbOpen WITH
       pc <- step, result <- opened, Required <- {"default", "block"}, Obsolete <- {"old"},
       Shares <- {30, 50}, Special <- {"block", "gone"}, Budgets <- {0, 7, 100},
       Limits <- {0, 5}

F == INSTANCE FdLimit WITH pc <- search, MaxLimit <- 7

\* The inputs do not depend on the constant that they are the value of.
I == INSTANCE MCConfigurator WITH pc <- place, Inputs <- {}
MCInputs == I!MCInputs

MCInit ==
  /\ part \in {"metrics", "config", "database", "files"}
  /\ Init
  /\ C!Init /\ (part # "config" => given = I!Start(I!Paths, {}))
  /\ D!Init /\ (part # "database" => /\ path = "absent" /\ memory_budget = 0
                                     /\ column_cache_sizes = D!none)
  /\ F!Init /\ (part # "files" => limit = 0 /\ hard = 0)

ofMetrics(A) == part = "metrics" /\ A /\ UNCHANGED <<part, configurator, database, files>>
ofConfig(A) == part = "config" /\ A /\ UNCHANGED <<part, vars, database, files>>
ofDatabase(A) == part = "database" /\ A /\ UNCHANGED <<part, vars, configurator, files>>
ofFiles(A) == part = "files" /\ A /\ UNCHANGED <<part, vars, configurator, database>>

MCNext == ofMetrics(Next) \/ ofConfig(C!Next) \/ ofDatabase(D!Next) \/ ofFiles(F!Next)

MCSpec == MCInit /\ [][MCNext]_allVars

------------------------------------------------------------------------------
\* The node runs with what the command line and the file say, and it divides the memory
\* and the files that it is given among the families of its database as they were meant.
StartInv == C!ConfigInv /\ D!BudgetKept /\ D!OpensAsAsked /\ F!LimitGranted
==============================================================================
