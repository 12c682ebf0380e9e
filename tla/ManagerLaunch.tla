------------------------------ MODULE ManagerLaunch ------------------------------
(***************************************************************************)
(* A recoverable Control-Plane component (access-manager, outbound-proxy): *)
(* the EnvironmentRunner of Bootstrap starts its supervisor, restarts it   *)
(* when it exits and gives it up after some attempts; the supervisor asks  *)
(* the launch broker of Stage 0 for the manager itself, which runs under   *)
(* another user, and watches it.  The two brokers have the same steps.     *)
(***************************************************************************)
EXTENDS Naturals

CONSTANTS
  Attempts,     \* recoveryDelaysMs: attempts of one recovery
  MaxCrashes,   \* bound: processes that exit by themselves or are killed
  EarlyKills    \* whether a supervisor may be killed before its component is ready

VARIABLES
  operation,   \* what the runner's queue performs: none, start, recover, stop
  at,          \* where it is: launch, health, undo, terminate
  attempt,     \* of the recovery
  listed,      \* the component in running: no, starting, ready
  recovery,    \* componentRecoveries has it
  stopping,    \* stop was asked for
  isolated,    \* given up
  supervisor,  \* none, posting, watching, stopping, exited, killed
  manager,     \* the broker's child: none, spawned, ready, dying
  managers,    \* manager processes alive
  launching,   \* a start call of the broker waits for readiness
  crashes

runnerVars == <<operation, at, attempt, listed, recovery, stopping, isolated>>
launchVars == <<manager, managers, launching>>
managerVars == <<runnerVars, supervisor, launchVars, crashes>>

ManagerInit ==
  /\ operation = "start" /\ at = "launch" /\ attempt = 0 /\ listed = "no"
  /\ recovery = FALSE /\ stopping = FALSE /\ isolated = FALSE
  /\ supervisor = "none" /\ manager = "none" /\ managers = 0 /\ launching = FALSE /\ crashes = 0

SupervisorAlive == supervisor \in {"posting", "watching", "stopping"}
Running == manager # "none"
ComponentReady == manager = "ready"

------------------------------------------------------------------------------
(* The runner.                                                             *)
LaunchSupervisor ==
  /\ at = "launch" /\ at' = "health"
  /\ listed' = "starting" /\ supervisor' = "posting"
  /\ UNCHANGED <<operation, attempt, recovery, stopping, isolated, launchVars, crashes>>
(* waitForHealth asks the broker; only an exit code tells it of an exit.   *)
Healthy ==
  /\ at = "health" /\ supervisor # "exited" /\ ComponentReady
  /\ listed' = "ready" /\ operation' = "none" /\ at' = "idle"
  /\ recovery' = (recovery /\ operation # "recover")
  /\ UNCHANGED <<attempt, stopping, isolated, supervisor, launchVars, crashes>>
Unhealthy ==
  /\ at = "health" /\ (supervisor = "exited" \/ ~ComponentReady)
  /\ at' = "undo" /\ listed' = "no"
  /\ UNCHANGED <<operation, attempt, recovery, stopping, isolated, supervisor, launchVars, crashes>>
(* terminate: a supervisor that has not installed its handlers just dies.  *)
Terminated == CASE supervisor = "posting" -> "killed"
                [] supervisor = "watching" -> "stopping"
                [] OTHER -> supervisor
Terminate ==
  /\ at \in {"undo", "terminate"} /\ supervisor \in {"posting", "watching"}
  /\ supervisor' = Terminated
  /\ UNCHANGED <<runnerVars, launchVars, crashes>>
(* The start failed: at boot it is left to a recovery, in a recovery the   *)
(* next attempt follows, unless the runner stops or none is left.          *)
Last == attempt + 1 = Attempts
StartFailed ==
  /\ at = "undo" /\ ~SupervisorAlive
  /\ IF operation = "start"
     THEN /\ operation' = "none" /\ at' = "idle" /\ recovery' = TRUE
          /\ UNCHANGED <<attempt, isolated>>
     ELSE IF stopping \/ Last
       THEN /\ operation' = "none" /\ at' = "idle" /\ recovery' = FALSE /\ attempt' = 0
            /\ isolated' = (isolated \/ ~stopping)
       ELSE /\ at' = "launch" /\ attempt' = attempt + 1
            /\ UNCHANGED <<operation, recovery, isolated>>
  /\ UNCHANGED <<listed, stopping, supervisor, launchVars, crashes>>
Recover ==
  /\ operation = "none" /\ recovery
  /\ IF stopping THEN recovery' = FALSE /\ UNCHANGED <<operation, at, attempt, listed>>
     ELSE /\ operation' = "recover" /\ at' = "launch" /\ attempt' = 0 /\ listed' = "no"
          /\ UNCHANGED recovery
  /\ UNCHANGED <<stopping, isolated, supervisor, launchVars, crashes>>
AskStop ==
  /\ ~stopping /\ stopping' = TRUE
  /\ UNCHANGED <<operation, at, attempt, listed, recovery, isolated, supervisor, launchVars, crashes>>
StopComponents ==
  /\ operation = "none" /\ stopping /\ ~recovery /\ listed # "no"
  /\ operation' = "stop" /\ at' = "terminate" /\ listed' = "no"
  /\ UNCHANGED <<attempt, recovery, stopping, isolated, supervisor, launchVars, crashes>>
Stopped ==
  /\ at = "terminate" /\ ~SupervisorAlive
  /\ operation' = "none" /\ at' = "idle"
  /\ UNCHANGED <<attempt, listed, recovery, stopping, isolated, supervisor, launchVars, crashes>>
(* The exit event of the supervisor: a recovery follows if it was ready.   *)
DefectNoticed == recovery' = recovery
Noticed == recovery' = (recovery \/ (listed = "ready" /\ ~stopping))
SupervisorExits(how) ==
  /\ supervisor' = how /\ Noticed
  /\ UNCHANGED <<operation, at, attempt, listed, stopping, isolated>>

------------------------------------------------------------------------------
(* The supervisor and the broker.                                          *)
BrokerStart ==
  /\ supervisor = "posting" /\ ~launching
  /\ IF Running THEN supervisor' = "watching" /\ UNCHANGED launchVars
     ELSE /\ manager' = "spawned" /\ managers' = managers + 1 /\ launching' = TRUE
          /\ UNCHANGED supervisor
  /\ UNCHANGED <<runnerVars, crashes>>
(* A second start while one waits for readiness is answered at once.       *)
BrokerStartAgain ==
  /\ supervisor = "posting" /\ launching /\ Running /\ supervisor' = "watching"
  /\ UNCHANGED <<runnerVars, launchVars, crashes>>
ManagerReady ==
  /\ manager = "spawned" /\ launching
  /\ manager' = "ready" /\ launching' = FALSE
  /\ supervisor' = IF supervisor = "posting" THEN "watching" ELSE supervisor
  /\ UNCHANGED <<runnerVars, managers, crashes>>
ReadinessTimesOut ==
  /\ manager = "spawned" /\ launching /\ manager' = "dying"
  /\ UNCHANGED <<runnerVars, supervisor, managers, launching, crashes>>
(* A poll of the supervisor finds no manager.                              *)
Poll ==
  /\ supervisor = "watching" /\ ~Running /\ SupervisorExits("exited")
  /\ UNCHANGED <<launchVars, crashes>>
BrokerStop ==
  /\ supervisor = "stopping" /\ manager \in {"spawned", "ready"}
  /\ manager' = "dying"
  /\ UNCHANGED <<runnerVars, supervisor, managers, launching, crashes>>
StopAnswered ==
  /\ supervisor = "stopping" /\ ~Running /\ SupervisorExits("exited")
  /\ UNCHANGED <<launchVars, crashes>>
(* A manager exits; the start call that waits for it fails, and with it    *)
(* the supervisor that made it.                                            *)
ManagerExits ==
  /\ Running /\ manager' = "none" /\ managers' = managers - 1 /\ launching' = FALSE
  /\ IF launching /\ supervisor = "posting" THEN SupervisorExits("exited")
     ELSE UNCHANGED <<runnerVars, supervisor>>
Die == manager = "dying" /\ ManagerExits /\ UNCHANGED crashes
ProcessCrash ==
  /\ crashes < MaxCrashes /\ crashes' = crashes + 1
  /\ \/ manager \in {"spawned", "ready"} /\ ManagerExits
     \/ /\ SupervisorAlive /\ (listed = "ready" \/ EarlyKills)
        /\ SupervisorExits("killed") /\ UNCHANGED launchVars

RunnerActs == LaunchSupervisor \/ Healthy \/ Terminate \/ StartFailed \/ Recover \/ StopComponents \/ Stopped
BrokerActs ==
  BrokerStart \/ BrokerStartAgain \/ ManagerReady \/ Poll \/ BrokerStop \/ StopAnswered \/ Die
ManagerNext == RunnerActs \/ BrokerActs \/ Unhealthy \/ AskStop \/ ReadinessTimesOut \/ ProcessCrash
ManagerSpec == ManagerInit /\ [][ManagerNext]_managerVars

------------------------------------------------------------------------------
(* There is one manager process at a time: two would answer on the same    *)
(* sockets and write the same files.                                       *)
OneManager == managers <= 1 /\ (manager # "none" <=> managers = 1)

(* A component shown as ready is supervised, or a recovery is on its way.  *)
Supervised == listed = "ready" => SupervisorAlive \/ recovery \/ stopping

(* One manager, and somebody who notices when it is gone.                  *)
ManagerSupervised == OneManager /\ Supervised
==============================================================================
