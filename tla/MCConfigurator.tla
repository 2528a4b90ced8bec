---------------------------- MODULE MCConfigurator ----------------------------
(***************************************************************************)
(* The inputs that differ in at most two places from one of four starts:   *)
(* with the paths in the file or on the command line, with everything in   *)
(* the file, and with everything in both.                                  *)
(***************************************************************************)
EXTENDS Configurator

Start(file, cli) ==
  [command |-> "run", config |-> "read",
   section |-> [s \in Sections |-> "map"],
   file |-> [x \in Settings |-> IF x \in file THEN "good" ELSE "absent"],
   enabled |-> "absent",
   cli |-> [o \in Options |-> IF o \in cli THEN "good" ELSE "absent"],
   number |-> 3, suffix |-> "", mib |-> 64]

Starts == {Start(Paths, {}), Start({}, Paths), Start(Settings, {}), Start(Settings, Options)}

\* Only paths and the endpoint can be refused on the command line, and everything but
\* the names in the file.
BadInFile(x) == x \notin {"name", "directory"}
BadOption(o) == o \in Paths \cup {"prometheus_host", "prometheus_port"}

Changes(i) ==
  {[i EXCEPT !.command = c] : c \in {"nothing", "help", "incomplete", "unknown", "word"}}
    \cup {[i EXCEPT !.config = c] : c \in {"none", "unreadable"}}
    \cup {[i EXCEPT !.section[s] = k] : s \in Sections, k \in {"absent", "scalar"}}
    \cup {[i EXCEPT !.file[x] = k] : x \in Settings, k \in {"absent", "good", "node"}}
    \cup {[i EXCEPT !.file[x] = "bad"] : x \in {x \in Settings : BadInFile(x)}}
    \cup {[i EXCEPT !.enabled = k] : k \in {"true", "false", "bad", "node"}}
    \cup {[i EXCEPT !.cli[o] = k] : o \in Options, k \in {"absent", "good"}}
    \cup {[i EXCEPT !.cli[o] = "bad"] : o \in {o \in Options : BadOption(o)}}
    \cup {[i EXCEPT !.suffix = u] : u \in {"k", "mb", "x"}}
    \cup {[i EXCEPT !.number = UINT64_MAX + 1]}

Changed(I) == I \cup UNION {Changes(i) : i \in I}

MCInputs == Changed(Changed(Starts))
==============================================================================
