----------------------------- MODULE Configurator -----------------------------
(***************************************************************************)
(* The start of the node up to its configuration: main() reads the command *)
(* line and the configuration file with Configurator, which takes every    *)
(* setting from the command line, else from the file, else by default.     *)
(*                                                                         *)
(* A value is abstracted to where it comes from, and to whether the checks *)
(* on it refuse it.  The size of the database cache, which has units, is   *)
(* kept as a number.                                                       *)
(***************************************************************************)
EXTENDS Integers, Sequences, FiniteSets, Functions

CONSTANTS
  Inputs,      \* what the node may be started with
  UINT64_MAX   \* bound: the largest number of bytes

Sections == {"general", "database", "metrics"}

settings ==
  [general |-> {"name", "base_path", "spec_file", "modules_dir"},
   database |-> {"directory", "cache_size"},
   metrics |-> {"host", "port"}]

Settings == UNION {settings[s] : s \in Sections}
Paths == {"base_path", "spec_file", "modules_dir"}

\* The options that the constructor registers, by setting.
option ==
  [name |-> "name", base_path |-> "base_path", spec_file |-> "spec_file",
   modules_dir |-> "modules_dir", directory |-> "db_path", cache_size |-> "db_cache_size",
   host |-> "prometheus_host", port |-> "prometheus_port"]

Options == {option[x] : x \in Settings} \cup {"prometheus_disable"}

\* The command line is empty, asks for help, ends early, has an option that nobody knows,
\* begins with a word, or is one to run the node.
\* In the file a setting is absent, a scalar that the checks accept ("good"), one they
\* refuse ("bad"), or no scalar ("node").
Input ==
  [command : {"nothing", "help", "incomplete", "unknown", "word", "run"},
   config : {"none", "unreadable", "read"},
   section : [Sections -> {"absent", "scalar", "map"}],
   file : [Settings -> {"absent", "good", "bad", "node"}],
   enabled : {"absent", "true", "false", "bad", "node"},   \* also in the file
   cli : [Options -> {"absent", "good", "bad"}],
   number : Nat, suffix : STRING,   \* cache_size in the file
   mib : Nat]                       \* and as an option

VARIABLES
  given,            \* the command line and the file
  pc,
  config,           \* config_: where each setting comes from
  cache_size,       \* config_->database_.cache_size
  enabled,          \* config_->metrics_.enabled: "unset", "on" or "off"
  file_has_error_,
  result

vars == <<given, pc, config, cache_size, enabled, file_has_error_, result>>

------------------------------------------------------------------------------
\* parseByteQuantity() compares the suffix of each unit with
\* itself: the loop's variable hides the suffix that was read.
unit(suffix, multiplier) == [suffix |-> suffix, multiplier |-> multiplier]

units ==
  <<unit("b", 1), unit("k", 1024), unit("kib", 1024), unit("kb", 1000),
    unit("m", 1048576), unit("mib", 1048576), unit("mb", 1000000)>>

matches(u, suffix) == u.suffix = u.suffix

\* NoQuantity if the number of bytes does not fit, or no unit matches.
NoQuantity == -1

scaled(number, u) ==
  IF number > UINT64_MAX \div u.multiplier THEN NoQuantity ELSE number * u.multiplier

overflows(number) == number > UINT64_MAX

parseByteQuantity(number, suffix) ==
  LET found == SelectSeq(units, LAMBDA u : matches(u, suffix))
  IN  IF overflows(number) THEN NoQuantity
      ELSE IF suffix = "" THEN number
      ELSE IF found = <<>> THEN NoQuantity
      ELSE scaled(number, Head(found))

------------------------------------------------------------------------------
\* find_argument(): an option that is not registered is never found.
find_argument(o) == o \in DOMAIN given.cli /\ given.cli[o] # "absent"

\* What the file says of a setting.
inFile(s) == given.config = "read" /\ given.section[s] = "map"
entry(s, x) == IF inFile(s) THEN given.file[x] ELSE "absent"

quantity == parseByteQuantity(given.number, given.suffix)

\* The entries of the file that the code takes over.
taken(s, x) ==
  CASE x = "cache_size" -> entry(s, x) = "good" /\ quantity # NoQuantity
    [] x \in {"host", "port"} -> entry(s, x) = "good"
    [] OTHER -> entry(s, x) \in {"good", "bad"}

\* The entries that set file_has_error_; a bad cache_size or host is only noted.
wrong(s, x) ==
  \/ entry(s, x) = "node"
  \/ x = "port" /\ entry(s, x) = "bad"

hasErrors(s) ==
  \/ given.config = "read" /\ given.section[s] = "scalar"
  \/ \E x \in settings[s] : wrong(s, x)

fromFile(s) == [x \in Settings |-> IF x \in settings[s] /\ taken(s, x) THEN "file" ELSE config[x]]

\* Adjust by CLI arguments.
adjusted_First(s) ==
  [x \in Settings |-> IF x \in settings[s] /\ find_argument(option[x]) /\ ~taken(s, x)
                      THEN "cli" ELSE fromFile(s)[x]]
adjusted(s) ==
  [x \in Settings |-> IF x \in settings[s] /\ find_argument(option[x])
                      THEN "cli" ELSE fromFile(s)[x]]

\* A path is refused if it is not given, or not what it should be.
refused(c, x) ==
  CASE c[x] = "default" -> TRUE
    [] c[x] = "file" -> given.file[x] = "bad"
    [] OTHER -> given.cli[option[x]] = "bad"

finish(r) == result' = r /\ pc' = "done"
goto(label) == pc' = label /\ UNCHANGED result

------------------------------------------------------------------------------
\* main() needs an argument.
main ==
  /\ pc = "main"
  /\ IF given.command = "nothing" THEN finish("wrong_usage") ELSE goto("step1")
  /\ UNCHANGED <<given, config, cache_size, enabled, file_has_error_>>

\* Help and version end the node.
step1 ==
  /\ pc = "step1"
  /\ CASE given.command = "incomplete" -> finish("CliArgsParseFailed")
       [] given.command = "help" -> finish("exit")
       [] given.config = "unreadable" -> finish("ConfigFileParseFailed")
       [] OTHER -> goto("logging")
  /\ UNCHANGED <<given, config, cache_size, enabled, file_has_error_>>

\* getLoggingConfig() reads the file without asking whether there is one: then it may
\* do anything, which is to crash, or to find no logging section.  The logging system
\* may refuse what it finds.
getLoggingConfig ==
  /\ pc = "logging"
  /\ \/ goto("step2")
     \/ finish("exit")
     \/ given.config = "none" /\ finish("undefined")
  /\ UNCHANGED <<given, config, cache_size, enabled, file_has_error_>>

step2 ==
  /\ pc = "step2"
  /\ IF given.command = "unknown" THEN finish("CliArgsParseFailed") ELSE goto("general")
  /\ UNCHANGED <<given, config, cache_size, enabled, file_has_error_>>

\* The end of initGeneralConfig() and initDatabaseConfig(), where errors are reported.
report(next) == IF file_has_error_' THEN finish("ConfigFileParseFailed") ELSE next

initGeneralConfig ==
  /\ pc = "general"
  /\ file_has_error_' = (file_has_error_ \/ hasErrors("general"))
  /\ config' = IF file_has_error_' THEN fromFile("general") ELSE adjusted("general")
  /\ report(IF \E x \in Paths : refused(config', x)
            THEN finish("InvalidValue") ELSE goto("database"))
  /\ UNCHANGED <<given, cache_size, enabled>>

\* The size in bytes; the number of the option is taken as it is.
bytes(c) ==
  CASE c["cache_size"] = "cli" -> given.mib
    [] c["cache_size"] = "file" -> quantity
    [] OTHER -> cache_size

initDatabaseConfig ==
  /\ pc = "database"
  /\ file_has_error_' = (file_has_error_ \/ hasErrors("database"))
  /\ config' = IF file_has_error_' THEN fromFile("database") ELSE adjusted("database")
  /\ cache_size' = bytes(config')
  /\ report(goto("metrics"))
  /\ UNCHANGED <<given, enabled>>

\* An endpoint turns the metrics on unless something was said before.
on(e, said) == IF e = "unset" /\ said THEN "on" ELSE e

stated == IF inFile("metrics") THEN given.enabled ELSE "absent"

inFileEnabled ==
  CASE stated = "true" -> "on" [] stated = "false" -> "off" [] OTHER -> "unset"

endpointInFile == \E x \in {"host", "port"} : taken("metrics", x)
endpointOption == \E x \in {"host", "port"} : find_argument(option[x])
badOption == \E x \in {"host", "port"} : given.cli[option[x]] = "bad"

calculated ==
  LET e == on(on(inFileEnabled, endpointInFile), endpointOption)
  IN  IF find_argument("prometheus_disabled") \/ e = "unset" THEN "off" ELSE e

\* The errors of the section are noted; nothing looks at them.  After a refused option
\* nothing looks at the configuration either.
initOpenMetricsConfig ==
  /\ pc = "metrics"
  /\ file_has_error_' = (hasErrors("metrics") \/ stated \in {"bad", "node"})
  /\ config' = adjusted("metrics")
  /\ enabled' = calculated
  /\ IF badOption THEN finish("CliArgsParseFailed") ELSE goto("run")
  /\ UNCHANGED <<given, cache_size>>

\* The first argument has to begin with a dash; main() looks at it only now.
isOption == given.command # "word"

run_node ==
  /\ pc = "run"
  /\ finish(IF isOption THEN "success" ELSE "wrong_usage")
  /\ UNCHANGED <<given, config, cache_size, enabled, file_has_error_>>

Init ==
  /\ given \in Inputs
  /\ pc = "main"
  /\ config = [x \in Settings |-> "default"]
  /\ cache_size = 512 * 1048576
  /\ enabled = "unset"
  /\ file_has_error_ = FALSE
  /\ result = "running"

Next ==
  \/ main \/ step1 \/ getLoggingConfig \/ step2
  \/ initGeneralConfig \/ initDatabaseConfig \/ initOpenMetricsConfig \/ run_node

Spec == Init /\ [][Next]_vars

------------------------------------------------------------------------------
TypeOK ==
  /\ given \in Input
  /\ pc \in {"main", "step1", "logging", "step2", "general", "database", "metrics", "run", "done"}
  /\ config \in [Settings -> {"default", "file", "cli"}]
  /\ cache_size \in 0..UINT64_MAX
  /\ enabled \in {"unset", "on", "off"}
  /\ file_has_error_ \in BOOLEAN
  /\ result \in {"running", "exit", "CliArgsParseFailed", "ConfigFileParseFailed",
                 "InvalidValue", "wrong_usage", "success", "undefined"}

\* The node runs with the strongest source of every setting: the command line over
\* the file over the default, whatever else is set.
StrongestWins ==
  result = "success" =>
    \A s \in Sections : \A x \in settings[s] :
      config[x] = CASE find_argument(option[x]) -> "cli"
                    [] taken(s, x) -> "file"
                    [] OTHER -> "default"

\* The node never runs with a value that the checks refuse, from either source: a
\* refused path or endpoint ends the start or leaves the weaker source in place.
NoBadValue ==
  result = "success" =>
    /\ \A x \in Settings :
         /\ config[x] = "cli" => given.cli[option[x]] = "good"
         /\ config[x] = "file" => given.file[x] = "good"
    /\ \A x \in Paths : config[x] # "default"

\* An error in one of the first two sections of the file ends the start, even if the
\* command line replaces the entry.
FileErrorsEnd ==
  result = "success" => ~hasErrors("general") /\ ~hasErrors("database")

\* Metrics are served if the file says so, or says nothing and an endpoint is given
\* in the file or on the command line; never against a "false" in the file.
MetricsAsAsked ==
  result = "success" =>
    (enabled = "on" <=>
       \/ stated = "true"
       \/ stated # "false" /\ \E x \in {"host", "port"} : config[x] # "default")

\* The node runs only for a command line that begins with an option and that it can
\* read (main(), step1(), step2()).
Understood == result = "success" => given.command = "run"

\* A size in the file is what the documentation of parseByteQuantity() says of its
\* suffix: "b", "k", "kib", "kb", "m" and so on stand for different numbers of bytes.
multiplier(suffix) ==
  IF suffix = "" THEN 1
  ELSE (CHOOSE u \in Range(units) : u.suffix = suffix).multiplier

SuffixHonoured ==
  result = "success" /\ config["cache_size"] = "file"
      /\ given.suffix \in {""} \cup {u.suffix : u \in Range(units)} =>
    cache_size = given.number * multiplier(given.suffix)

\* What the node runs with, whatever the command line and the file say.
ConfigInv ==
  /\ TypeOK
  /\ StrongestWins /\ NoBadValue
  /\ FileErrorsEnd
  /\ MetricsAsAsked
  /\ Understood
==============================================================================
