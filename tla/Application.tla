----------------------------- MODULE Application -----------------------------
(***************************************************************************)
(* ApplicationImpl: the state manager with the components that it really   *)
(* controls, the exposer of the metrics and the watchdog, and with their   *)
(* threads.  The two components are used by their promise (Exposer,        *)
(* Watchdog): a thread ends some time after it was told to.                *)
(***************************************************************************)
EXTENDS StateManager

VARIABLES
  enabled,    \* config_->metrics().enabled
  app,        \* where the application is: "made", or a step of run()
  server,     \* the exposer: "made", "prepared", "failed", "running" or "ended"
  told,       \* context_->stop() was called
  watchdog,   \* its thread: "none", "running" or "ended"
  watchdogStopped    \* watchdog_->stop() was called

\* The exposer and the watchdog find room.
ASSUME ApplicationAssumption == MaxCallbacks >= 4

parts == <<enabled, app, server, told, watchdog, watchdogStopped>>
appVars == <<vars, parts>>

------------------------------------------------------------------------------
\* The exposer registers its three callbacks when the application is made.
takeControl ==
  /\ app = "made"
  /\ app' = "thread"
  /\ IF enabled
     THEN /\ queue' = [prepare |-> <<1>>, launch |-> <<2>>, shutdown |-> <<3>>]
          /\ accepted' = {<<"prepare", 1>>, <<"launch", 2>>, <<"shutdown", 3>>}
     ELSE UNCHANGED <<queue, accepted>>
  /\ UNCHANGED <<state, pc, stage, cvMutex, req, signals, calls, failed,
                 enabled, server, told, watchdog, watchdogStopped>>

ofExposer(c) == enabled /\ c[2] <= 3

\* run(): the thread of the watchdog, its callback, and the state manager.
startThread ==
  /\ app = "thread"
  /\ app' = "register"
  /\ watchdog' = "running"
  /\ UNCHANGED <<vars, enabled, server, told, watchdogStopped>>

atShutdown ==
  /\ app = "register"
  /\ register("shutdown")
  /\ app' = "run"
  /\ UNCHANGED <<enabled, server, told, watchdog, watchdogStopped>>

\* The callback at the front is called.
calling == calls' # calls
front == <<stage, Head(queue[stage])>>

tells(c) == ofExposer(c) /\ c[1] = "shutdown"

call ==
  /\ callFront
  /\ told' = (told \/ (calling /\ tells(front)))
  /\ watchdogStopped' = (watchdogStopped \/ (calling /\ ~ofExposer(front)))
  /\ UNCHANGED <<enabled, app, server, watchdog>>

\* It returns: prepare() may fail, start() starts the thread, stop() joins it.
joins_NotWaited == TRUE
joins == server # "running"

return(ok) ==
  /\ returnFront(ok)
  /\ ~ok => ofExposer(front) /\ stage = "prepare"
  /\ ofExposer(front) /\ stage = "shutdown" => joins
  /\ server' = CASE ofExposer(front) /\ stage = "prepare" ->
                      IF ok THEN "prepared" ELSE "failed"
                 [] ofExposer(front) /\ stage = "launch" -> "running"
                 [] OTHER -> server
  /\ UNCHANGED <<enabled, app, told, watchdog, watchdogStopped>>

manage ==
  /\ app = "run"
  /\ \/ (start \/ enterStage \/ leaveStage \/ testWorks \/ lockCv \/ waitCv \/ final)
        /\ UNCHANGED parts
     \/ call
     \/ \E ok \in BOOLEAN : return(ok)

\* After the state manager: stop() once more, and join.
stopWatchdog ==
  /\ app = "run" /\ pc = "returned"
  /\ app' = "join"
  /\ watchdogStopped' = TRUE
  /\ UNCHANGED <<vars, enabled, server, told, watchdog>>

join ==
  /\ app = "join" /\ watchdog = "ended"
  /\ app' = "returned"
  /\ UNCHANGED <<vars, enabled, server, told, watchdog, watchdogStopped>>

\* An exception of the state manager leaves run() with a thread that was not joined.
throws ==
  /\ app = "run" /\ pc \in {"wrongStage", "unexpectedStage"}
  /\ app' = "terminated"
  /\ UNCHANGED <<vars, enabled, server, told, watchdog, watchdogStopped>>

main ==
  /\ mainRuns
  /\ takeControl \/ startThread \/ atShutdown \/ manage \/ stopWatchdog \/ join \/ throws

------------------------------------------------------------------------------
\* The threads.
serverEnds ==
  /\ server = "running" /\ told
  /\ server' = "ended"
  /\ UNCHANGED <<vars, enabled, app, told, watchdog, watchdogStopped>>

watchdogEnds ==
  /\ watchdog = "running" /\ watchdogStopped
  /\ watchdog' = "ended"
  /\ UNCHANGED <<vars, enabled, app, server, told, watchdogStopped>>

\* Any thread, and the handler of a signal, may ask for the shutdown.
asks ==
  /\ \/ \E t \in Requesters : requestBegin(t)
     \/ signal
  /\ UNCHANGED parts

answers(t) == shutdown(t) /\ UNCHANGED parts

AppInit ==
  /\ Init
  /\ enabled \in BOOLEAN
  /\ app = "made" /\ server = "made" /\ told = FALSE
  /\ watchdog = "none" /\ watchdogStopped = FALSE

AppNext == main \/ serverEnds \/ watchdogEnds \/ asks \/ \E t \in Askers : answers(t)

AppSpec == AppInit /\ [][AppNext]_appVars

------------------------------------------------------------------------------
\* What the components rely on the state manager for.  The exposer is started only after
\* its prepare() succeeded, as the assertion on acceptor_ in start() says.  When run()
\* returns no thread is left: the exposer was told to stop and joined its thread if it
\* had one, and so was the watchdog.
NodeInv ==
  /\ pc = "called" /\ front[1] = "launch" /\ ofExposer(front) => server = "prepared"
  /\ app = "returned" =>
       /\ server # "running" /\ watchdog = "ended"
       /\ enabled => told

\* The types of the state manager, and what its components rely on.
ApplicationInv == TypeOK /\ NodeInv

\* A request for the shutdown ends the application with all its threads, at whatever point
\* of the start it comes.  The exceptions are the ones of the state manager: a signal that
\* interrupts the main thread while it holds cv_mutex_, and the end of run() in a stage
\* other than 'ready to stop', which terminates the process.
NodeEnds ==
  (\E t \in Askers : req[t] \in {"load1", "load2", "lock", "store"})
    ~> \/ app \in {"returned", "terminated"}
       \/ SignalOnMain /\ req[SignalThread] = "lock" /\ cvMutex = "main"
==============================================================================
