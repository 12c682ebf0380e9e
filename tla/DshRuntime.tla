----------------------------- MODULE DshRuntime -----------------------------
(***************************************************************************)
(* How Bootstrap keeps DSH running: the queue of EnvironmentRunner         *)
(* (bootstrap/lib/lifecycle.mjs), the operations and the automatic         *)
(* recovery of BootstrapRuntime (runtime.mjs), the requests of control.mjs *)
(* and the launch session that makes DSH public (dsh-lifecycle.mjs).  Two  *)
(* actors ask the runner for work: a client, one request at a time, and    *)
(* the recovery of a DSH that exited.                                      *)
(***************************************************************************)
EXTENDS Naturals

CONSTANTS MaxDshExits, MaxDshRequests

VARIABLES
  dsh,        \* none; starting; ready; dead: exited, the runner still lists it; stopping
  launch,    \* its session: none, starting, ready, verified
  published,  \* the generation is public
  lifecycle,  \* dshLifecycle.state
  recoveryMode,
  reported,   \* the deployment status shows a recovery mode
  holder,     \* whose operation the runner performs
  at,         \* [client, recovery]: what each is about to do
  request,    \* what the client asked for
  tries,      \* further starts the request may make
  attempt,    \* of the recovery
  fatals,     \* exits not handled yet
  owned,      \* a deployment transaction has a journal
  deferred,   \* an exit was left to the owner
  startup,    \* startupComplete
  down,       \* Bootstrap gave up
  quietStop,  \* history: a stop is over, nothing was asked to start DSH since, and no
              \* recovery was under way as it began
  overrun,    \* history: an isolation stopped what a client had just started
  dshExits, dshRequests  \* what is left of the bounds

process == <<dsh, launch, published>>
shown == <<lifecycle, recoveryMode, reported>>
history == <<quietStop, overrun>>
dshVars == <<process, shown, holder, at, request, tries, attempt, fatals, owned, deferred,
             startup, down, history, dshExits, dshRequests>>

Asks == {"boot", "suspend", "pause", "resume", "restart", "switch"}

DshInit ==
  /\ dsh = "none" /\ launch = "none" /\ published = FALSE
  /\ lifecycle = "starting" /\ recoveryMode = FALSE /\ reported = FALSE
  /\ holder = "free" /\ at = [client |-> "prepare", recovery |-> "idle"]
  /\ request = "boot" /\ tries = 1 /\ attempt = 0 /\ fatals = 0
  /\ owned = FALSE /\ deferred = FALSE /\ startup = FALSE /\ down = FALSE
  /\ quietStop = FALSE /\ overrun = FALSE
  /\ dshExits = MaxDshExits /\ dshRequests = MaxDshRequests

PublicReady == published /\ launch = "verified"
Recovering == at.recovery # "idle" \/ fatals > 0

Goes(who, next) == at' = [at EXCEPT ![who] = next]
Show(state) == lifecycle' = state
EnterRecovery == recoveryMode' = TRUE /\ Show("failed")
Constant == UNCHANGED <<startup, down, dshExits>>

-----------------------------------------------------------------------------
(* The process. *)

(* An exit nobody asked for. *)
DshExits ==
  /\ dsh = "ready" /\ dshExits > 0 /\ ~down /\ dshExits' = dshExits - 1
  /\ dsh' = "dead" /\ launch' = "none"
  /\ fatals' = IF at.recovery = "isolate" THEN fatals ELSE fatals + 1
  /\ UNCHANGED <<published, shown, holder, at, request, tries, attempt, owned, deferred, startup,
                 down, history, dshRequests>>

-----------------------------------------------------------------------------
(* The runner: one operation after the other. *)

Unmoved == UNCHANGED <<request, attempt, fatals, owned, dshRequests>> /\ Constant

Acquire(who) ==
  /\ at[who] = "queue" /\ holder = "free" /\ ~down
  /\ holder' = who
  /\ Goes(who, IF who = "client" /\ request \in {"boot", "resume"} THEN "start" ELSE "stop")
  /\ UNCHANGED <<process, shown, tries, deferred, history>> /\ Unmoved

Starts(who) == who = "recovery" \/ request \notin {"suspend", "pause"}

StopBegins(who) ==
  /\ at[who] \in {"stop", "isolate"} /\ holder = who /\ dsh \in {"ready", "dead"}
  /\ dsh' = IF dsh = "ready" THEN "stopping" ELSE "none"
  /\ quietStop' = (who = "client" /\ ~Starts(who) /\ ~Recovering)
  /\ UNCHANGED <<launch, published, shown, holder, at, tries, deferred, overrun>> /\ Unmoved

(* The runner lists DSH no more when it exits: this exit was asked for. *)
StopEnds(who) ==
  /\ holder = who /\ dsh = "stopping"
  /\ dsh' = "none" /\ launch' = "none"
  /\ UNCHANGED <<published, shown, holder, at, tries, deferred, history>> /\ Unmoved

Stopped(who) ==
  /\ at[who] = "stop" /\ holder = who /\ dsh = "none" /\ Starts(who)
  /\ Goes(who, "start")
  /\ UNCHANGED <<process, shown, holder, tries, deferred, history>> /\ Unmoved

(* prepareLaunch makes a new session; nothing of the last one is public. *)
Start(who) ==
  /\ at[who] = "start" /\ holder = who /\ dsh = "none"
  /\ dsh' = "starting" /\ launch' = "starting" /\ published' = FALSE /\ deferred' = FALSE
  /\ overrun' = FALSE
  /\ UNCHANGED <<shown, holder, at, tries, quietStop>> /\ Unmoved

(* DSH claimed its session and said it is ready. *)
DshClaims ==
  /\ dsh = "starting" /\ launch = "starting"
  /\ launch' = "ready"
  /\ UNCHANGED <<dsh, published, shown, holder, at, tries, deferred, history>> /\ Unmoved

(* Health check and post-start hook passed; verify follows at once. *)
StartCompletes(who) ==
  /\ at[who] = "start" /\ holder = who /\ dsh = "starting" /\ launch = "ready"
  /\ dsh' = "ready" /\ holder' = "free"
  /\ IF who = "client" /\ request = "restart" /\ tries = 0
     THEN /\ EnterRecovery /\ reported' = TRUE /\ Goes(who, "idle")
          /\ UNCHANGED launch
     ELSE launch' = "verified" /\ Goes(who, "confirm") /\ UNCHANGED shown
  /\ UNCHANGED <<published, tries, deferred, history>> /\ Unmoved

(* resume of a DSH the runner still lists starts nothing. *)
AlreadyListed ==
  /\ at.client = "start" /\ holder = "client" /\ request = "resume" /\ dsh \in {"ready", "dead"}
  /\ holder' = "free"
  /\ IF launch \in {"ready", "verified"}
     THEN launch' = "verified" /\ Goes("client", "confirm") /\ UNCHANGED shown
     ELSE Goes("client", "idle") /\ EnterRecovery /\ reported' = TRUE /\ UNCHANGED launch
  /\ UNCHANGED <<dsh, published, tries, deferred, history>> /\ Unmoved

(* A restart tries once more with the former plugin view, a switch and a   *)
(* start-up with the former Deployment.                                    *)
ClientFails ==
  IF tries > 0 /\ request = "restart" /\ at.client = "start"
  THEN tries' = 0 /\ UNCHANGED <<at, holder, shown, owned>>
  ELSE
  /\ holder' = IF holder = "client" THEN "free" ELSE holder
  /\ IF tries > 0 /\ request \in {"boot", "switch"}
     THEN tries' = 0 /\ Goes("client", "prepare") /\ UNCHANGED <<shown, owned>>
     ELSE
       /\ Goes("client", IF request = "boot" THEN "mark" ELSE "idle")
       /\ reported' = TRUE /\ owned' = FALSE
       /\ IF request \in {"resume", "restart"} THEN EnterRecovery
          ELSE recoveryMode' = (recoveryMode \/ request = "boot") /\ UNCHANGED lifecycle
       /\ UNCHANGED tries

DefectRecoveryFails ==
  /\ holder' = IF holder = "recovery" THEN "free" ELSE holder
  /\ IF attempt < 3
     THEN attempt' = attempt + 1 /\ Goes("recovery", "sleep") /\ UNCHANGED shown
     ELSE attempt' = 0 /\ Goes("recovery", "idle") /\ EnterRecovery /\ reported' = TRUE

RecoveryFails ==
  /\ holder' = IF holder = "recovery" THEN "free" ELSE holder
  /\ IF attempt < 3
     THEN attempt' = attempt + 1 /\ Goes("recovery", "sleep") /\ UNCHANGED shown
     ELSE /\ attempt' = 0 /\ Goes("recovery", "isolate")
          /\ EnterRecovery /\ reported' = TRUE

Fails(who) ==
  /\ IF who = "client"
     THEN ClientFails /\ UNCHANGED <<attempt>>
     ELSE RecoveryFails /\ UNCHANGED <<tries, owned>>
  /\ UNCHANGED <<request, fatals, deferred, history, dshRequests>> /\ Constant

StartFails(who) ==
  /\ at[who] = "start" /\ holder = who /\ dsh = "starting"
  /\ dsh' = "none" /\ launch' = "none" /\ UNCHANGED published
  /\ Fails(who)

-----------------------------------------------------------------------------
(* Before and after the runner. *)

Ask(kind) ==
  /\ at.client = "idle" /\ startup /\ ~down /\ kind # "boot"
  /\ dshRequests > 0 /\ dshRequests' = dshRequests - 1
  /\ request' = kind /\ tries' = 1
  /\ Goes("client", IF kind \in {"suspend", "pause"} THEN "queue" ELSE "prepare")
  /\ owned' = (kind = "switch")
  /\ lifecycle' = CASE kind \in {"suspend", "pause"} -> "stopping" [] kind = "resume" -> "starting"
                    [] kind = "restart" -> "restarting" [] OTHER -> lifecycle
  /\ quietStop' = FALSE /\ UNCHANGED overrun
  /\ UNCHANGED <<process, recoveryMode, reported, holder, attempt, fatals, deferred>> /\ Constant

(* validateDeployment and prepareDeployment. *)
Prepared(who) ==
  /\ at[who] = "prepare" /\ ~down
  /\ Goes(who, "queue")
  /\ UNCHANGED <<process, shown, holder, tries, deferred, history>> /\ Unmoved
PreparationFails(who) ==
  /\ at[who] = "prepare" /\ ~down
  /\ UNCHANGED process /\ Fails(who)

(* suspend fails when DSH is not listed, pause does not. *)
ClientStopped ==
  /\ at.client = "stop" /\ holder = "client" /\ dsh = "none" /\ ~Starts("client")
  /\ holder' = "free" /\ Goes("client", "idle")
  /\ \/ Show("stopped")
     \/ request = "suspend" /\ Show("failed")
  /\ quietStop' = (quietStop \/ ~Recovering) /\ UNCHANGED overrun
  /\ UNCHANGED <<process, recoveryMode, reported, tries, deferred>> /\ Unmoved

(* The log was written; if DSH is gone meanwhile, publish fails. *)
Confirm(who) ==
  /\ at[who] = "confirm" /\ (who = "client" => request # "boot")
  /\ IF who = "recovery"
     THEN /\ recoveryMode' = FALSE /\ Show("running") /\ reported' = FALSE
          /\ Goes(who, "publish")
          /\ UNCHANGED <<process, holder, request, tries, attempt, fatals, owned, deferred, history, dshRequests>>
          /\ Constant
     ELSE IF launch = "verified"
     THEN /\ recoveryMode' = FALSE /\ Show("running")
          /\ reported' = FALSE /\ published' = TRUE
          /\ Goes(who, IF request = "switch" THEN "commit" ELSE "idle")
          /\ UNCHANGED <<dsh, launch, holder, request, tries, attempt, fatals, owned, deferred, history, dshRequests>>
          /\ Constant
     ELSE UNCHANGED process /\ Fails(who)

RecoveryPublishes ==
  /\ at.recovery = "publish"
  /\ IF launch = "verified"
     THEN published' = TRUE /\ attempt' = 0 /\ Goes("recovery", "idle") /\ UNCHANGED shown
     ELSE UNCHANGED published /\ RecoveryFails
  /\ holder' = holder
  /\ UNCHANGED <<dsh, launch, request, tries, fatals, owned, deferred, history, dshRequests>> /\ Constant

SwitchCommits ==
  /\ at.client = "commit" /\ owned' = FALSE /\ Goes("client", "idle")
  /\ UNCHANGED <<process, shown, holder, request, tries, attempt, fatals, deferred, history, dshRequests>>
  /\ Constant

(* The Control Plane is up too: startup is complete and DSH public.        *)
(* Nothing handles a publication that fails.                               *)
StartupCompletes ==
  /\ request = "boot" /\ at.client \in {"confirm", "mark"} /\ ~down
  /\ startup' = TRUE /\ Goes("client", "idle")
  /\ reported' = recoveryMode
  /\ lifecycle' = CASE recoveryMode -> "failed" [] dsh \in {"ready", "dead"} -> "running" [] OTHER -> lifecycle
  /\ published' = (published \/ (~recoveryMode /\ launch = "verified"))
  /\ down' = (~recoveryMode /\ launch # "verified")
  /\ UNCHANGED <<dsh, launch, recoveryMode, holder, request, tries, attempt, fatals, owned, deferred,
                 history, dshExits, dshRequests>>

-----------------------------------------------------------------------------
(* Automatic recovery: the exits one after the other, three attempts each, *)
(* and none while a deployment transaction owns DSH.                       *)

Defer ==
  /\ deferred' = TRUE /\ Goes("recovery", "idle") /\ attempt' = 0
  /\ Show("recovering")

HandleFatal ==
  /\ fatals > 0 /\ at.recovery = "idle" /\ ~down
  /\ fatals' = fatals - 1
  /\ IF owned THEN Defer
     ELSE attempt' = 1 /\ Goes("recovery", "sleep") /\ UNCHANGED <<deferred, lifecycle>>
  /\ UNCHANGED <<process, recoveryMode, reported, holder, request, tries, owned, history, dshRequests>>
  /\ Constant

Attempts ==
  /\ at.recovery = "sleep" /\ ~down
  /\ IF owned THEN Defer
     ELSE Show("recovering") /\ Goes("recovery", "prepare") /\ UNCHANGED <<deferred, attempt>>
  /\ UNCHANGED <<process, recoveryMode, reported, holder, request, tries, fatals, owned, history, dshRequests>>
  /\ Constant

(* The Environment is stopped, whatever was started in between. *)
IsolationAcquires ==
  /\ at.recovery = "isolate" /\ holder = "free" /\ holder' = "recovery"
  /\ UNCHANGED <<process, shown, at, tries, deferred, history>> /\ Unmoved
Isolated ==
  /\ at.recovery = "isolate" /\ holder = "recovery" /\ dsh = "none"
  /\ holder' = "free" /\ Goes("recovery", "idle")
  /\ overrun' = (lifecycle = "running")
  /\ UNCHANGED <<process, shown, tries, deferred, quietStop>> /\ Unmoved

RunnerSteps(who) ==
  \/ Acquire(who) \/ StopBegins(who) \/ StopEnds(who) \/ Stopped(who) \/ Start(who)
  \/ StartCompletes(who) \/ StartFails(who) \/ Prepared(who) \/ PreparationFails(who) \/ Confirm(who)
ClientSteps == RunnerSteps("client") \/ AlreadyListed \/ ClientStopped \/ SwitchCommits \/ StartupCompletes
RecoverySteps ==
  RunnerSteps("recovery") \/ RecoveryPublishes \/ HandleFatal \/ Attempts \/ IsolationAcquires \/ Isolated

DshNext ==
  \/ ClientSteps \/ RecoverySteps \/ DshClaims \/ DshExits
  \/ \E kind \in Asks : Ask(kind)

DshFairness == WF_dshVars(ClientSteps) /\ WF_dshVars(RecoverySteps)
DshSpec == DshInit /\ [][DshNext]_dshVars /\ DshFairness

-----------------------------------------------------------------------------
(* DSH traffic is admitted only for a process that started completely and  *)
(* has not exited (guide.md: Gateway admits DSH traffic only for the       *)
(* published generation).                                                  *)
PublicIsServed == PublicReady => dsh \in {"ready", "stopping"}

(* Once nothing is under way, the state shown is not better than the       *)
(* truth: running or recovering is not shown of a DSH that is gone, unless *)
(* the deployment status reports a recovery mode or its owner was told.    *)
AtRest == at.client = "idle" /\ ~Recovering /\ ~down
StatusTrue ==
  /\ AtRest /\ lifecycle \in {"running", "recovering"} /\ ~deferred => dsh = "ready" \/ reported \/ overrun
  /\ AtRest /\ lifecycle = "stopped" => dsh = "none"

(* An explicit stop lasts until DSH is started again (guide.md), when no   *)
(* recovery was under way as it began.                                     *)
QuietStopLasts == quietStop /\ at.client = "idle" => dsh = "none"

(* An exit is answered: DSH runs again, is stopped, or is left to the      *)
(* transaction that owns it.                                               *)
ExitAnswered == dsh = "dead" ~> dsh # "dead" \/ deferred \/ down

(* What is admitted and what is shown agree with what DSH does.            *)
RuntimeHonest == PublicIsServed /\ StatusTrue /\ QuietStopLasts

(* DSH is what it is shown to be, and its exits are answered.              *)
RuntimeTrue == []RuntimeHonest /\ ExitAnswered
=============================================================================
