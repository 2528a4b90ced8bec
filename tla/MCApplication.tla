----------------------------- MODULE MCApplication -----------------------------
(***************************************************************************)
(* The application, for the model checker: the services that have threads  *)
(* of their own, each by itself (the watchdog, the state manager, the      *)
(* metrics exposer, the watcher of the storage and the channel), and the   *)
(* application that puts the first three together.  A behaviour is one of  *)
(* one of these parts.                                                     *)
(***************************************************************************)
EXTENDS Watchdog, Channel, Application

CONSTANTS Sessions,
          ManagerCallbacks   \* bound: callbacks registered with the state manager alone

VARIABLES
  part,   \* the service, or "application"
  phase, inUse, port, new_session_, op, stopped, thread_, connected, shut, requests, responses,
  watcher, thread, shutdown_requested_, slept

exposer == <<phase, inUse, port, new_session_, op, stopped, thread_, connected, shut,
             requests, responses>>
metrics == <<watcher, thread, shutdown_requested_, slept>>
allVars == <<part, watchdogVars, channelVars, appVars, exposer, metrics>>

X == INSTANCE Exposer WITH Port <- 1, Tolerance <- 2, PortMax <- 2, MaxRequests <- 1

M == INSTANCE MetricsWatcher WITH MaxSlept <- 2

MCInit ==
  /\ part \in {"watchdog", "stateManager", "exposer", "channel", "metrics", "application"}
  /\ WatchdogInit /\ ChannelInit /\ M!Init
  /\ X!Init /\ (part # "exposer" => inUse = {})
  /\ AppInit /\ (part \notin {"exposer", "application"} => ~enabled)

watchdogStep(a) ==
  part = "watchdog" /\ a /\ UNCHANGED <<part, channelVars, appVars, exposer, metrics>>
channelStep(a) ==
  part = "channel" /\ a /\ UNCHANGED <<part, watchdogVars, appVars, exposer, metrics>>
exposerStep(a) ==
  /\ part = "exposer" /\ a
  /\ UNCHANGED <<part, watchdogVars, channelVars, vars, app, server, told, watchdog,
                 watchdogStopped, metrics>>
metricsStep(a) ==
  part = "metrics" /\ a /\ UNCHANGED <<part, watchdogVars, channelVars, appVars, exposer>>
managerStep(a) ==
  /\ part = "stateManager" /\ a
  /\ Cardinality(accepted') <= ManagerCallbacks
  /\ UNCHANGED <<part, watchdogVars, channelVars, parts, exposer, metrics>>
applicationStep(a) ==
  part = "application" /\ a /\ UNCHANGED <<part, watchdogVars, channelVars, exposer, metrics>>

MCNext ==
  \/ watchdogStep(WatchdogNext) \/ channelStep(ChannelNext)
  \/ exposerStep(X!Next) \/ metricsStep(M!Next)
  \/ managerStep(Next) \/ applicationStep(AppNext)

\* The fairness of each service, for its own behaviours.
MCFairness ==
  /\ WF_allVars(watchdogStep(check)) /\ WF_allVars(watchdogStep(tick))
  /\ SF_allVars(channelStep(sender)) /\ WF_allVars(channelStep(receiver))
  /\ SF_allVars(channelStep(receiverLeave))
  /\ WF_allVars(exposerStep(X!stopContext)) /\ WF_allVars(exposerStep(X!join))
  /\ WF_allVars(exposerStep(X!threadEnds))
  /\ \A s \in Sessions :
       /\ WF_allVars(exposerStep(X!onRead(s))) /\ WF_allVars(exposerStep(X!onWrite(s)))
       /\ WF_allVars(exposerStep(X!fails(s, "read")))
       /\ WF_allVars(exposerStep(X!fails(s, "write")))
  /\ WF_allVars(metricsStep(M!join)) /\ WF_allVars(metricsStep(M!run))
  /\ WF_allVars(managerStep(start)) /\ WF_allVars(managerStep(run))
  /\ \A t \in Askers : WF_allVars(managerStep(shutdown(t)))
  /\ WF_allVars(applicationStep(main))
  /\ WF_allVars(applicationStep(serverEnds)) /\ WF_allVars(applicationStep(watchdogEnds))
  /\ \A t \in Askers : WF_allVars(applicationStep(answers(t)))

MCSpec == MCInit /\ [][MCNext]_allVars /\ MCFairness

------------------------------------------------------------------------------
\* The metrics server listens, serves who was accepted, and is quiet after stop(); so is
\* the watcher of the storage, which sees within a second that it has to stop.
MetricsServedInv == X!ExposerInv /\ M!WatcherStops

\* A request for the shutdown ends run() of the state manager, and of the application with
\* its threads, unless it is a signal that interrupts the main thread while it holds
\* cv_mutex_.  What the application takes for granted is so: the threads end when they
\* are told to, that of the watchdog, that of the metrics server, whose sessions end when
\* they were shut down, and that of the watcher.
ApplicationEnds ==
  /\ part = "stateManager" => ShutdownEnds
  /\ part = "watchdog" => StopEnds
  /\ part = "exposer" => X!ExposerProgress
  /\ part = "metrics" => M!WatcherJoined
  /\ part = "application" => NodeEnds
==============================================================================
