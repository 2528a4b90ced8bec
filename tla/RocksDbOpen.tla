------------------------------ MODULE RocksDbOpen ------------------------------
(***************************************************************************)
(* What the constructor of RocksDb asks of the system, in its order: the   *)
(* limit of open files, the directory, the families that are there, the    *)
(* memory for each family, and the database.  RocksDb has the whole as one *)
(* step, and goes on from there.                                           *)
(*                                                                         *)
(* Shares of the memory are in percent.  Bytes are numbers.                *)
(***************************************************************************)
EXTENDS Integers, FiniteSets, FiniteSetsExt, Functions

CONSTANTS
  Required,   \* the names of the spaces
  Obsolete,   \* names of families that an older version may have made
  Shares,     \* percentages that families may be given,
  Special,    \* and the names that may have one
  Budgets,    \* app_config->database().cache_size
  Limits      \* soft limits of open files

VARIABLES
  path,                 \* "absent", "directory" or "file"
  no_db_presented,
  max_open_files,
  column_cache_sizes,   \* a share for some names
  memory_budget,
  existing_families, all_families,
  cache,                \* of the column_family_descriptors: bytes by family
  pc,
  result

input == <<column_cache_sizes, memory_budget>>
families == <<existing_families, all_families>>
vars == <<path, no_db_presented, max_open_files, input, families, cache, pc, result>>

none == [f \in {} |-> 0]
total(f) == SumFunction(f)

raise(e) == result' = e /\ pc' = "done"
goto(label) == pc' = label /\ UNCHANGED result

------------------------------------------------------------------------------
\* getFdLimit(): half of it is for the database.
readLimit ==
  /\ pc = "limit"
  /\ \/ /\ \E soft_limit \in Limits : max_open_files' = soft_limit \div 2
        /\ goto("directory")
     \/ raise("UNKNOWN") /\ UNCHANGED max_open_files
  /\ UNCHANGED <<path, no_db_presented, input, families, cache>>

\* create_directories() and createDirectory(), after the test whether there was one.
createDirectory ==
  /\ pc = "directory"
  /\ no_db_presented' = (path = "absent")
  /\ \/ path # "file" /\ path' = "directory" /\ goto("list")
     \/ path # "directory" /\ raise("IO_ERROR") /\ UNCHANGED path
  /\ UNCHANGED <<max_open_files, input, families, cache>>

\* ListColumnFamilies(): families that nobody uses must be opened all the same.
listColumnFamilies ==
  /\ pc = "list"
  /\ \/ /\ existing_families' \in SUBSET (Required \cup Obsolete)
        /\ no_db_presented => existing_families' = {}
        /\ all_families' = Required \cup existing_families'
        /\ goto("configure")
     \/ raise("IO_ERROR") /\ UNCHANGED families
  /\ UNCHANGED <<path, no_db_presented, max_open_files, input, cache>>

\* configureColumnFamilies(): some families may have a share of their own, the others
\* have equal parts of the rest.  The constructor names no shares at present.
special == DOMAIN column_cache_sizes \cap all_families
distributed_cache_part == total(Restrict(column_cache_sizes, special))
others == Cardinality(all_families) - Cardinality(special)

part(n, percent) == (n * percent) \div 100

other_spaces_cache_size ==
  IF others > 0 THEN (memory_budget * (100 - distributed_cache_part)) \div (100 * others) ELSE 0

configureColumnFamilies ==
  /\ pc = "configure"
  /\ cache' = [f \in all_families |->
                 IF f \in DOMAIN column_cache_sizes
                 THEN part(memory_budget, column_cache_sizes[f]) ELSE other_spaces_cache_size]
  /\ goto("open")
  /\ UNCHANGED <<path, no_db_presented, max_open_files, input, families>>

\* openDatabaseWithTTL(), for a directory that was not there.
openDatabaseWithTTL ==
  /\ pc = "open"
  /\ \/ raise(IF no_db_presented THEN "opened" ELSE "not opened")
     \/ no_db_presented /\ raise("IO_ERROR")
  /\ UNCHANGED <<path, no_db_presented, max_open_files, input, families, cache>>

------------------------------------------------------------------------------
\* The shares of the families that may be there are not more than the whole, as the code
\* asserts.
Init ==
  /\ path \in {"absent", "directory", "file"}
  /\ no_db_presented = FALSE /\ max_open_files = 0
  /\ \E names \in SUBSET Special : column_cache_sizes \in [names -> Shares]
  /\ total(column_cache_sizes) <= 100
  /\ memory_budget \in Budgets
  /\ existing_families = {} /\ all_families = {} /\ cache = none
  /\ pc = "limit" /\ result = "constructing"

Next ==
  \/ readLimit \/ createDirectory \/ listColumnFamilies
  \/ configureColumnFamilies \/ openDatabaseWithTTL

Spec == Init /\ [][Next]_vars

------------------------------------------------------------------------------
configured == pc = "open" \/ result \in {"opened", "not opened"}

\* The memory that the families get is what was configured, but for the rounding of each,
\* unless they all have shares of their own, and never more (configureColumnFamilies()).
BudgetKept ==
  configured =>
    /\ total(cache) <= memory_budget
    /\ others > 0 => memory_budget - total(cache) <= Cardinality(all_families)

\* Memory is given to every space and to every family of the directory, also one that
\* nobody uses any more: the library opens all of them or none.  A database is opened only
\* where there was nothing (the constructor of RocksDb).
OpensAsAsked ==
  /\ configured => DOMAIN cache = Required \cup existing_families
  /\ result = "opened" => existing_families = {}
==============================================================================
