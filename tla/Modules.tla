-------------------------------- MODULE Modules --------------------------------
(***************************************************************************)
(* The modules of the node: run_node() loads the libraries of a directory, *)
(* gives each its loader, runs the application and ends; the loaders pass  *)
(* events to the modules and back, on the thread of one event handler.     *)
(* The networking and the synchronizer module exchange block requests.     *)
(*                                                                         *)
(* The event system is used by its promise (SubscriptionEngine): an event  *)
(* is put in the queue of the handler for each subscriber that lives then, *)
(* and is dropped if the subscriber is gone when its turn comes.           *)
(***************************************************************************)
EXTENDS Integers, Sequences, FiniteSets, Functions

CONSTANTS
  Libraries,   \* what may be in the directory: records as in Library
  None,
  MaxFinished  \* bound: how often another part says that the loading is finished

Supported == {"ExampleLoader", "NetworkingLoader", "SynchronizerLoader"}

Library ==
  [opens : BOOLEAN,
   loader_id : Supported \cup {"other", "null", "missing"},
   module_info : {"given", "null", "missing"},
   instance : BOOLEAN]    \* exports query_module_instance()

VARIABLES
  pc,          \* of run_node()
  given,       \* the libraries of the directory,
  dir,         \* and those that are still to be loaded
  modules,     \* loaded, in this order
  loaders,     \* the modules whose loader lives
  queue,       \* of the handler kTest: events for subscribers
  running,     \* the event whose callback runs; None if there is none
  n,           \* requests that the synchronizer made
  announced,   \* LoadingIsFinished, as often as it was said
  answered     \* requests whose response got to the synchronizer

main == <<pc, given, dir, modules>>
exchange == <<n, announced, answered>>
vars == <<main, loaders, queue, running, exchange>>

------------------------------------------------------------------------------
\* load_module().  The check on module_info() looks at the other function, so that
\* one that is missing is called all the same.
outcome(l) ==
  CASE ~l.opens -> "OpenLibraryFailed"
    [] l.loader_id = "missing" -> "NoLoaderIdExport"
    [] l.loader_id = "null" -> "UnexpectedLoaderId"
    [] l.module_info = "missing" -> "crash"
    [] l.module_info = "null" -> "UnexpectedModuleInfo"
    [] OTHER -> "success"

\* recursive_search(), in the order of the file system; the first failure ends it.
load_module(l) ==
  /\ pc = "load" /\ l \in dir
  /\ dir' = dir \ {l}
  /\ IF outcome(l) = "success"
     THEN modules' = Append(modules, l) /\ UNCHANGED pc
     ELSE pc' = outcome(l) /\ UNCHANGED modules
  /\ UNCHANGED <<given, loaders, queue, running, exchange>>

loaded ==
  /\ pc = "load" /\ dir = {}
  /\ pc' = "register"
  /\ UNCHANGED <<given, dir, modules, loaders, queue, running, exchange>>

\* The events that a loader subscribes to, and the one that says it is loaded.
subscriptions_Unasked(l) ==
  CASE l.loader_id = "NetworkingLoader" -> {"LoadingIsFinished"}
    [] l.loader_id = "SynchronizerLoader" -> {"BlockAnnounceReceived", "BlockResponse"}
    [] OTHER -> {}
subscriptions(l) ==
  CASE ~l.instance -> {}
    [] l.loader_id = "ExampleLoader" -> {"ExampleModuleIsLoaded", "LoadingIsFinished"}
    [] l.loader_id = "NetworkingLoader" ->
         {"NetworkingIsLoaded", "LoadingIsFinished", "BlockRequest"}
    [] OTHER -> {"SynchronizerIsLoaded", "BlockAnnounceReceived", "BlockResponse"}

isLoaded(l) ==
  CASE l.loader_id = "ExampleLoader" -> "ExampleModuleIsLoaded"
    [] l.loader_id = "NetworkingLoader" -> "NetworkingIsLoaded"
    [] OTHER -> "SynchronizerIsLoaded"

\* notify(): an event for each subscriber.
event(l, name, rid) == [to |-> l, name |-> name, rid |-> rid]

inSomeOrder(S) == CHOOSE s \in Bijection(1 .. Cardinality(S), S) : TRUE

notified(q, ls, name, rid) ==
  q \o inSomeOrder({event(l, name, rid) : l \in {l \in ls : name \in subscriptions(l)}})

\* register_loader(), which skips modules that no loader is for, and start() of the
\* loader.
accepted(l) == l.loader_id \in Supported

register_loader ==
  /\ pc = "register" /\ modules # <<>>
  /\ LET l == Head(modules)
     IN  /\ modules' = Tail(modules)
         /\ loaders' = IF accepted(l) THEN loaders \cup {l} ELSE loaders
         /\ queue' = IF accepted(l) /\ l.instance
                     THEN notified(queue, loaders', isLoaded(l), 0) ELSE queue
  /\ UNCHANGED <<pc, given, dir, running, exchange>>

\* "Notify about all modules are loaded": the call is commented out.
registered ==
  /\ pc = "register" /\ modules = <<>>
  /\ pc' = "run"
  /\ UNCHANGED <<given, dir, modules, loaders, queue, running, exchange>>

\* Another part of the node may say it; at present none does.
loadingIsFinished ==
  /\ pc = "run" /\ announced < MaxFinished
  /\ announced' = announced + 1
  /\ queue' = notified(queue, loaders, "LoadingIsFinished", 0)
  /\ UNCHANGED <<main, loaders, running, n, answered>>

\* The application ends; then the loaders go, and with each its library, while the
\* event system, which outlives them, still runs.
applicationEnds ==
  /\ pc = "run"
  /\ pc' = "destroy"
  /\ UNCHANGED <<given, dir, modules, loaders, queue, running, exchange>>

destroyLoader(l) ==
  /\ pc = "destroy" /\ l \in loaders
  /\ loaders' = loaders \ {l}
  /\ UNCHANGED <<main, queue, running, exchange>>

\* The event system goes last.
dispose ==
  /\ pc = "destroy" /\ loaders = {} /\ running = None
  /\ pc' = "exit"
  /\ queue' = <<>>
  /\ UNCHANGED <<given, dir, modules, loaders, running, exchange>>

------------------------------------------------------------------------------
\* The handler takes the next event; it runs the callback if the subscriber lives.
alive(e) == e.to \in loaders

begin ==
  /\ pc # "exit" /\ running = None /\ queue # <<>>
  /\ queue' = Tail(queue)
  /\ running' = IF alive(Head(queue)) THEN Head(queue) ELSE None
  /\ UNCHANGED <<main, loaders, exchange>>

\* on_loading_is_finished() of the networking module announces a block.
on_loading_is_finished(e) ==
  /\ e.name = "LoadingIsFinished"
  /\ queue' = IF e.to.loader_id = "NetworkingLoader"
              THEN notified(queue, loaders, "BlockAnnounceReceived", 0) ELSE queue
  /\ UNCHANGED <<n, announced, answered>>

\* on_block_announce(): the request gets a new identifier.  Its callback is not kept.
next_Same == 1
next == n + 1

on_block_announce(e) ==
  /\ e.name = "BlockAnnounceReceived"
  /\ n' = next
  /\ queue' = notified(queue, loaders, "BlockRequest", next)
  /\ UNCHANGED <<announced, answered>>

\* on_block_request(): the response has the context of the request.
rid(e) == e.rid

on_block_request(e) ==
  /\ e.name = "BlockRequest"
  /\ queue' = notified(queue, loaders, "BlockResponse", rid(e))
  /\ UNCHANGED exchange

\* on_block_response() finds no callback for the request and only says so.
on_block_response(e) ==
  /\ e.name = "BlockResponse"
  /\ answered' = answered \cup {e.rid}
  /\ UNCHANGED <<queue, n, announced>>

\* on_loaded_success() only logs.
on_loaded_success(e) ==
  /\ e.name \in {"ExampleModuleIsLoaded", "NetworkingIsLoaded", "SynchronizerIsLoaded"}
  /\ UNCHANGED <<queue, exchange>>

callback ==
  /\ running # None
  /\ \/ on_loading_is_finished(running)
     \/ on_block_announce(running)
     \/ on_block_request(running)
     \/ on_block_response(running)
     \/ on_loaded_success(running)
  /\ running' = None
  /\ UNCHANGED <<main, loaders>>
------------------------------------------------------------------------------
\* One library for each loader: its module may have one instance.
Init ==
  /\ given \in {ls \in SUBSET Libraries :
                  \A k, l \in ls : k.loader_id = l.loader_id
                                     /\ k.loader_id \in Supported => k = l}
  /\ pc = "load" /\ dir = given /\ modules = <<>>
  /\ loaders = {} /\ queue = <<>> /\ running = None
  /\ n = 0 /\ announced = 0 /\ answered = {}

Next ==
  \/ \E l \in Libraries : load_module(l) \/ destroyLoader(l)
  \/ loaded \/ register_loader \/ registered
  \/ loadingIsFinished \/ applicationEnds \/ dispose
  \/ begin \/ callback

\* The main thread and the handler's keep going; nobody has to end the application.
Fairness ==
  /\ WF_vars(\E l \in Libraries : load_module(l) \/ destroyLoader(l))
  /\ WF_vars(loaded \/ register_loader \/ registered \/ dispose)
  /\ WF_vars(begin \/ callback)

Spec == Init /\ [][Next]_vars /\ Fairness

------------------------------------------------------------------------------
Events == {"ExampleModuleIsLoaded", "NetworkingIsLoaded", "SynchronizerIsLoaded",
           "LoadingIsFinished", "BlockAnnounceReceived", "BlockRequest", "BlockResponse"}

Event == [to : Libraries, name : Events, rid : 0 .. MaxFinished]

TypeOK ==
  /\ pc \in {"load", "register", "run", "destroy", "exit", "crash", "OpenLibraryFailed",
             "NoLoaderIdExport", "UnexpectedLoaderId", "UnexpectedModuleInfo"}
  /\ dir \subseteq given /\ given \subseteq Libraries \cap Library /\ loaders \subseteq given
  /\ Range(modules) \subseteq given
  /\ Range(queue) \subseteq Event
  /\ running \in Event \cup {None}
  /\ n \in 0 .. MaxFinished /\ announced \in 0 .. MaxFinished
  /\ answered \subseteq 1 .. MaxFinished

\* The node runs only when every library of the directory could be loaded and says
\* what it is, whatever their order, and then each library that a loader is for has one
\* (run_node(), recursive_search(), register_loader()).
AllOrNothing ==
  pc = "run" =>
    /\ \A l \in given : l.opens /\ l.loader_id \notin {"null", "missing"}
                                /\ l.module_info = "given"
    /\ loaders = {l \in given : l.loader_id \in Supported}

\* Every request that the synchronizer made is in one place at most: it waits for the
\* networking module, or its response waits for the synchronizer, or it was answered.
\* Events in flight never carry the identifier of another request (on_block_announce(),
\* on_block_request(), on_block_response()).
pending == (IF running = None THEN <<>> ELSE <<running>>) \o queue

places(r) ==
  Cardinality({i \in DOMAIN pending : /\ pending[i].name \in {"BlockRequest", "BlockResponse"}
                                      /\ pending[i].rid = r})
  + (IF r \in answered THEN 1 ELSE 0)

RequestInOnePlace ==
  /\ places(0) = 0
  /\ \A r \in 1 .. n : places(r) <= 1
  /\ \A i \in DOMAIN pending : pending[i].rid <= n

has(id) == \E l \in loaders : l.loader_id = id /\ l.instance

\* While the node runs with both modules, every request gets its response, and so does
\* an announcement that the loading is finished lead to a request
\* (on_loading_is_finished(), on_block_announce(), on_block_request()).
RequestsAnswered ==
  \A r \in 1 .. MaxFinished :
    (pc = "run" /\ announced >= r /\ has("NetworkingLoader") /\ has("SynchronizerLoader"))
      ~> (r \in answered \/ pc # "run")

\* The modules are there all or none, and no block request is lost, doubled or mixed up
\* with another one on its way through the events.
ModulesInv == TypeOK /\ AllOrNothing /\ RequestInOnePlace
==============================================================================
