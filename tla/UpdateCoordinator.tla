------------------------- MODULE UpdateCoordinator -------------------------
(***************************************************************************)
(* The Updater's coordinator (modules/updater/lib/coordinator.mjs): checks *)
(* and tasks, what it plans from the signed target, the newest upstream    *)
(* DSH and the local channel state (channel-state.mjs), the notifications  *)
(* of automatic checks (automatic-check.mjs), and what a start makes of a  *)
(* task that was interrupted (recovery.mjs).  The steps of an Experimental *)
(* transaction are those of ExperimentalUpdate, taken here as one attempt  *)
(* that is undone or committed.                                            *)
(***************************************************************************)
EXTENDS Naturals, FiniteSets

CONSTANTS
  Targets,           \* targetSequence of the signed targets
  TargetDsh,         \* [Targets -> Nat], in the order of compareDshVersions
  TargetEnvironment, \* [Targets -> Nat]
  TargetBootstrap,   \* [Targets -> Nat]
  Upstream,          \* DSH versions npm may call latest
  MaxTasks, MaxChoices, MaxRestarts  \* bounds of a run

CoordinatorAssumption ==
  /\ Targets \subseteq Nat \ {0} /\ Upstream \subseteq Nat \ {0}
  /\ TargetDsh \in [Targets -> Nat \ {0}]
  /\ TargetEnvironment \in [Targets -> Nat] /\ TargetBootstrap \in [Targets -> Nat]
  /\ \A s, t \in Targets : s <= t => TargetDsh[s] <= TargetDsh[t]
ASSUME CoordinatorAssumption

VARIABLES
  published, upstream,  \* the signed target and the version npm serves
  deployed, previous,   \* Deployment slots: [dsh, environment, sequence, authority]
  bootstrap,            \* version of the running Bootstrap
  channel, holds, blocked,   \* channel.json
  automatic, notice,    \* automatic-check.json: enabled with notifications, and latestAutomatic
  changing,             \* a setChannel on its way: its channel and its step
  status,               \* status.json, and whether the journal is of its task
  check, job,          \* checkTask and task
  failed,               \* history: the attempts that failed and were not retried
  requested,            \* history: the user asked for the task at hand
  budget                \* tasks, choices and restarts that are left

remote == <<published, upstream>>
deployments == <<deployed, previous, bootstrap>>
local == <<channel, holds, blocked>>
notices == <<automatic, notice>>
history == <<failed, requested>>
coordinator == <<remote, deployments, local, notices, changing, status, check, job, history, budget>>

Nothing == [step |-> "none"]
Change(name) == [channel |-> name, step |-> "write"]
StableOf(t) == [dsh |-> TargetDsh[t], environment |-> TargetEnvironment[t],
                sequence |-> t, authority |-> "stable"]

CoordinatorInit ==
  /\ published \in Targets /\ upstream \in Upstream
  /\ deployed = StableOf(published) /\ previous = deployed
  /\ bootstrap = TargetBootstrap[published]
  /\ channel = "stable" /\ holds = {} /\ blocked = Nothing
  /\ automatic = TRUE /\ notice = [stable |-> 0, upstream |-> 0]
  /\ changing = Nothing
  /\ status = [name |-> "idle", journal |-> "none"]
  /\ check = Nothing /\ job = Nothing
  /\ failed = {} /\ requested = FALSE
  /\ budget = [tasks |-> MaxTasks, choices |-> MaxChoices, restarts |-> MaxRestarts]

Charge(what) == budget[what] > 0 /\ budget' = [budget EXCEPT ![what] = @ - 1]

-----------------------------------------------------------------------------
(* Planning: channel-state.mjs. *)

Covers(hold, dsh, environment) ==
  hold.dsh = dsh /\ (hold.type = "version" \/ hold.environment = environment)

DefectHeld(dsh, environment) == \E hold \in holds : hold.type = "version" /\ hold.dsh = dsh

Held(dsh, environment) == \E hold \in holds : Covers(hold, dsh, environment)

Blocked(dsh, environment) == blocked # Nothing /\ Covers(blocked, dsh, environment)

DefectAhead == deployed.sequence > published

Ahead == deployed.dsh > TargetDsh[published]

Behind ==
  \/ deployed.dsh < TargetDsh[published]
  \/ deployed.environment # TargetEnvironment[published]
  \/ deployed.sequence # published
  \/ channel = "stable" /\ deployed.authority # "stable"

(* desiredState asks npm on the Experimental channel only, and hands the   *)
(* planner what is newer than the signed target.                           *)
DesiredAction ==
  LET environment == TargetEnvironment[published] IN
  CASE Ahead -> "frozen"
    [] ~Ahead /\ Behind -> "stable"
    [] ~Ahead /\ ~Behind /\ (channel = "stable" \/ upstream <= TargetDsh[published]) -> "none"
    [] OTHER -> IF Held(upstream, environment) THEN "held"
                ELSE IF Blocked(upstream, environment) THEN "blocked" ELSE "experimental"

(* A check keeps its plan while other requests change what it was made of. *)
Plan == [action |-> DesiredAction, channel |-> channel, current |-> deployed,
         target |-> published, holds |-> holds,
         upstream |-> IF channel = "experimental" /\ ~Ahead
                         /\ deployed.environment = TargetEnvironment[published]
                      THEN upstream ELSE 0]

-----------------------------------------------------------------------------
(* Checks. *)

(* A check that is asked for while another one runs joins it; while a task *)
(* runs it is refused.  The scheduler asks while automatic checks are on.  *)
StartCheck(source) ==
  /\ job = Nothing /\ check = Nothing
  /\ source = "automatic" => automatic
  /\ check' = [step |-> "begun", source |-> source]
  /\ status' = [name |-> "checking", journal |-> "none"]
  /\ UNCHANGED <<remote, deployments, local, notices, changing, job, history, budget>>

CheckPlans ==
  /\ check.step = "begun"
  /\ check' = [step |-> "planned", source |-> check.source, plan |-> Plan]
  /\ UNCHANGED <<remote, deployments, local, notices, changing, status, job, history, budget>>

CheckFails ==
  /\ check.step = "begun"
  /\ check' = Nothing
  /\ status' = [status EXCEPT !.name = "idle"]
  /\ UNCHANGED <<remote, deployments, local, notices, changing, job, history, budget>>

CheckSaves ==
  /\ check.step = "planned"
  /\ status' = [status EXCEPT !.name = "idle"]
  /\ check' = IF check.source = "automatic" THEN [check EXCEPT !.step = "saved"] ELSE Nothing
  /\ UNCHANGED <<remote, deployments, local, notices, changing, job, history, budget>>

Satisfied(t, current) ==
  current.environment = TargetEnvironment[t] /\ current.dsh >= TargetDsh[t]

StillNews(current) ==
  [stable |-> IF notice.stable # 0 /\ Satisfied(notice.stable, current) THEN 0 ELSE notice.stable,
   upstream |-> IF current.dsh >= notice.upstream THEN 0 ELSE notice.upstream]

(* AutomaticCheckStateStore.record, with the plan of the check. *)

Noticed(plan) ==
  LET news == StillNews(plan.current)
      isHeld == \E hold \in plan.holds :
                   Covers(hold, plan.upstream, TargetEnvironment[plan.target]) IN
  [stable |-> IF plan.action = "stable" /\ plan.target > news.stable THEN plan.target ELSE news.stable,
   upstream |-> CASE plan.channel # "experimental" -> 0
                  [] plan.channel = "experimental" /\ plan.upstream > plan.current.dsh
                     /\ plan.upstream > news.upstream /\ ~isHeld -> plan.upstream
                  [] OTHER -> news.upstream]

CheckNotifies ==
  /\ check.step = "saved"
  /\ notice' = IF automatic THEN Noticed(check.plan) ELSE notice
  /\ check' = Nothing
  /\ UNCHANGED <<remote, deployments, local, automatic, changing, status, job, history, budget>>

-----------------------------------------------------------------------------
(* The user's choices. *)

SetChannel(name) ==
  /\ job = Nothing /\ changing = Nothing /\ name # channel
  /\ Charge("choices")
  /\ changing' = Change(name)
  /\ UNCHANGED <<remote, deployments, local, notices, status, check, job, history>>

ChannelWritten ==
  /\ changing.step = "write"
  /\ channel' = changing.channel
  /\ changing' = IF changing.channel = "stable" THEN [changing EXCEPT !.step = "clear"] ELSE Nothing
  /\ UNCHANGED <<remote, deployments, holds, blocked, notices, status, check, job, history, budget>>

UpstreamCleared ==
  /\ changing.step = "clear"
  /\ notice' = [notice EXCEPT !.upstream = 0]
  /\ changing' = Nothing
  /\ UNCHANGED <<remote, deployments, local, automatic, status, check, job, history, budget>>

RetryHold(hold) ==
  /\ job = Nothing
  /\ hold \in holds \/ hold = blocked
  /\ Charge("choices")
  /\ holds' = holds \ {hold}
  /\ blocked' = IF hold = blocked THEN Nothing ELSE blocked
  /\ failed' = failed \ {hold}
  /\ UNCHANGED <<remote, deployments, channel, notices, changing, status, check, job, requested>>

ConfigureAutomatic ==
  /\ Charge("choices")
  /\ automatic' = ~automatic
  /\ notice' = IF automatic' THEN notice ELSE [stable |-> 0, upstream |-> 0]
  /\ UNCHANGED <<remote, deployments, local, changing, status, check, job, history>>

-----------------------------------------------------------------------------
(* Tasks.  A task waits for the check that was running when it was started. *)

StartTask(operation) ==
  /\ job = Nothing
  /\ Charge("tasks")
  /\ job' = [step |-> "waiting", operation |-> operation, block |-> FALSE]
  /\ requested' = TRUE
  /\ UNCHANGED <<remote, deployments, local, notices, changing, status, check, failed>>

TaskBegins ==
  /\ job.step = "waiting" /\ check = Nothing
  /\ job' = [job EXCEPT !.step = IF job.operation = "update" THEN "plan" ELSE "restore"]
  /\ status' = IF job.operation = "update" THEN status
               ELSE [name |-> "working", journal |-> "none"]
  /\ UNCHANGED <<remote, deployments, local, notices, changing, check, history, budget>>

TaskEnds(name) ==
  /\ job' = Nothing
  /\ status' = [status EXCEPT !.name = name]
  /\ requested' = FALSE

(* Whatever a task reads or asks for may fail; an Experimental attempt has *)
(* its own ways to fail below.                                             *)
TaskFails ==
  /\ job.step \in {"plan", "stable", "activated", "upstream", "restore"}
  /\ TaskEnds("failed")
  /\ UNCHANGED <<remote, deployments, local, notices, changing, check, failed, budget>>

(* runReconcile.  The status is first written by what follows the plan. *)
TaskPlans ==
  /\ job.step = "plan"
  /\ \/ /\ DesiredAction = "stable"
        /\ job' = [job EXCEPT !.step = "stable",
                      !.block = deployed.authority = "experimental"
                                /\ deployed.environment # TargetEnvironment[published]]
        /\ status' = [name |-> "working", journal |-> "none"]
        /\ UNCHANGED requested
     \/ /\ DesiredAction = "experimental"
        /\ job' = [job EXCEPT !.step = "upstream"]
        /\ status' = [name |-> "working", journal |-> "none"]
        /\ UNCHANGED requested
     \/ /\ DesiredAction \notin {"stable", "experimental"}
        /\ TaskEnds("success")
  /\ UNCHANGED <<remote, deployments, local, notices, changing, check, failed, budget>>

(* run: the signed target is fetched again.  A Bootstrap that differs is   *)
(* staged first, and the task then waits for a restart that ends it.       *)
StagesBootstrap ==
  /\ job.step = "stable" /\ bootstrap # TargetBootstrap[published]
  /\ job' = [job EXCEPT !.step = "handoff"]
  /\ bootstrap' = TargetBootstrap[published]
  /\ UNCHANGED <<remote, deployed, previous, local, notices, changing, status, check, history, budget>>

Activates ==
  /\ job.step = "stable" /\ bootstrap = TargetBootstrap[published]
  /\ deployed' = StableOf(published) /\ previous' = deployed
  /\ job' = [job EXCEPT !.step = "activated"]
  /\ UNCHANGED <<remote, bootstrap, local, notices, changing, status, check, history, budget>>

(* Notifications the new Deployment satisfies go before the second plan. *)
PlansAgain ==
  /\ job.step = "activated"
  /\ notice' = StillNews(deployed)
  /\ IF DesiredAction = "experimental"
     THEN job' = [job EXCEPT !.step = "upstream"] /\ UNCHANGED <<status, requested>>
     ELSE TaskEnds("success")
  /\ UNCHANGED <<remote, deployments, local, automatic, changing, check, failed, budget>>

(* runExperimental: target and upstream are read once more. *)
FindsCandidate ==
  /\ job.step = "upstream"
  /\ \/ /\ upstream <= TargetDsh[published]
        /\ TaskEnds("success")
     \/ /\ upstream > TargetDsh[published]
        /\ \/ deployed.environment # TargetEnvironment[published]
           \/ bootstrap # TargetBootstrap[published]
        /\ TaskEnds("failed")
     \/ /\ upstream > TargetDsh[published]
        /\ deployed.environment = TargetEnvironment[published]
        /\ bootstrap = TargetBootstrap[published]
        /\ job' = [step |-> "candidate", operation |-> job.operation, block |-> job.block,
                    to |-> [dsh |-> upstream, environment |-> deployed.environment,
                            sequence |-> published, authority |-> "experimental"]]
        /\ UNCHANGED <<status, requested>>
  /\ UNCHANGED <<remote, deployments, local, notices, changing, check, failed, budget>>

Attempt(type) == [type |-> type, dsh |-> job.to.dsh,
                  environment |-> IF type = "version" THEN 0 ELSE job.to.environment]

Begins(step) ==
  /\ job' = [job EXCEPT !.step = step]
  /\ UNCHANGED <<remote, deployments, local, notices, changing, check, history, budget>>

CandidatePrepared ==
  job.step = "candidate" /\ Begins("snapshot") /\ status' = [status EXCEPT !.journal = "open"]

CandidateSwitched == job.step = "snapshot" /\ Begins("probation") /\ UNCHANGED status

AddHold(type) == holds' = holds \union {Attempt(type)}

(* A download or build that fails holds the version, a probation that      *)
(* fails the combination, or blocks it when the Environment was replaced   *)
(* under an Experimental DSH; a failure in between holds nothing.          *)
CandidateFails ==
  /\ \/ /\ job.step = "candidate"
        /\ AddHold("version") /\ failed' = failed \union {Attempt("version")}
        /\ UNCHANGED blocked
     \/ job.step = "snapshot" /\ UNCHANGED <<holds, failed, blocked>>
     \/ /\ job.step = "probation" /\ ~job.block
        /\ AddHold("combination") /\ failed' = failed \union {Attempt("combination")}
        /\ UNCHANGED blocked
     \/ /\ job.step = "probation" /\ job.block
        /\ blocked' = Attempt("combination") /\ failed' = failed \union {Attempt("combination")}
        /\ UNCHANGED holds
  /\ job' = Nothing /\ requested' = FALSE
  /\ status' = [name |-> "failed", journal |-> IF status.journal = "open" THEN "undone" ELSE "none"]
  /\ UNCHANGED <<remote, deployments, channel, notices, changing, check, budget>>

CandidateCommitted ==
  /\ job.step = "probation"
  /\ deployed' = job.to /\ previous' = deployed
  /\ job' = [job EXCEPT !.step = "commit"]
  /\ UNCHANGED <<remote, bootstrap, local, notices, changing, status, check, history, budget>>

JournalCommitted ==
  /\ job.step = "commit" /\ status.journal = "open"
  /\ status' = [status EXCEPT !.journal = "committed"]
  /\ UNCHANGED <<remote, deployments, local, notices, changing, check, job, history, budget>>

ExperimentalEnds ==
  /\ job.step = "commit" /\ status.journal = "committed"
  /\ notice' = StillNews(deployed)
  /\ TaskEnds("success")
  /\ UNCHANGED <<remote, deployments, local, automatic, changing, check, failed, budget>>

(* runCompleteRollback: to the previous Deployment, whichever way. *)
RollsBack ==
  /\ job.step = "restore" /\ previous # deployed
  /\ deployed' = previous /\ previous' = deployed
  /\ notice' = StillNews(previous)
  /\ TaskEnds("success")
  /\ UNCHANGED <<remote, bootstrap, local, automatic, changing, check, failed, budget>>

-----------------------------------------------------------------------------
(* A start, after the recovery of an unfinished transaction by Bootstrap.  *)

Recovered ==
  IF status.journal = "open" /\ job.step = "commit" THEN <<previous, deployed>>
  ELSE <<deployed, previous>>

(* reconcileRecoveredState.  A check is never resumed, a task whose         *)
(* transaction ended is closed, and any other task is started again.       *)
ReconcileState ==
  CASE status.name = "checking" -> "idle"
    [] status.name = "working" /\ status.journal = "committed" -> "success"
    [] status.name = "working" /\ status.journal = "open" -> "failed"
    [] OTHER -> status.name

Restart ==
  /\ \/ job.step = "handoff" /\ UNCHANGED budget
     \/ job.step # "handoff" /\ Charge("restarts")
  /\ LET name == ReconcileState
         resumed == name \in {"checking", "working"} IN
     /\ status' = [name |-> name,
                   journal |-> IF status.journal = "open" THEN "undone" ELSE status.journal]
     /\ job' = IF resumed
                THEN [step |-> "waiting", operation |-> "update", block |-> FALSE] ELSE Nothing
     /\ requested' = (requested /\ resumed)
  /\ deployed' = Recovered[1] /\ previous' = Recovered[2]
  /\ check' = Nothing /\ changing' = Nothing
  /\ UNCHANGED <<remote, bootstrap, local, notices, failed>>

Publish ==
  \/ /\ \E t \in Targets : t > published /\ published' = t
     /\ UNCHANGED <<upstream, deployments, local, notices, changing, status, check, job, history, budget>>
  \/ /\ \E v \in Upstream : v > upstream /\ upstream' = v
     /\ UNCHANGED <<published, deployments, local, notices, changing, status, check, job, history, budget>>

Checking == CheckPlans \/ CheckSaves \/ CheckNotifies

Choosing ==
  \/ \E source \in {"manual", "automatic"} : StartCheck(source)
  \/ \E name \in {"stable", "experimental"} : SetChannel(name)
  \/ \E hold \in holds \union {blocked} : hold # Nothing /\ RetryHold(hold)
  \/ ConfigureAutomatic
  \/ \E operation \in {"update", "rollback"} : StartTask(operation)

Writing == ChannelWritten \/ UpstreamCleared

Working ==
  \/ TaskBegins \/ TaskPlans \/ StagesBootstrap \/ Activates \/ PlansAgain
  \/ FindsCandidate \/ CandidatePrepared \/ CandidateSwitched
  \/ CandidateCommitted \/ JournalCommitted \/ ExperimentalEnds \/ RollsBack
  \/ TaskFails \/ CandidateFails

CoordinatorNext == Checking \/ CheckFails \/ Choosing \/ Writing \/ Working \/ Restart \/ Publish

-----------------------------------------------------------------------------
(* A check never runs beside the body of a task: the two write the same    *)
(* status file, and a check would plan from slots that are being replaced. *)
ChecksApart == check # Nothing => job.step \in {"none", "waiting"}

(* A version or combination that failed is not attempted again before the  *)
(* user retries it, whatever was published, checked, switched or restarted *)
(* in between.                                                             *)
FailedNotRepeated ==
  [][job'.step = "candidate" /\ job.step # "candidate"
       => ~ \E hold \in failed : Covers(hold, job'.to.dsh, job'.to.environment)]_coordinator

(* An update never replaces DSH by an older one; only a rollback and the   *)
(* recovery of an unfinished transaction go back.                          *)
OnlyRollbackGoesBack ==
  [][deployed'.dsh < deployed.dsh => job.step \in {"restore", "commit"}]_coordinator

(* Checks never start an update: a task that runs was asked for, in this   *)
(* start or in the one it was interrupted in (guide.md, checks never       *)
(* download or activate an update).                                        *)
ChecksNeverUpdate == job # Nothing => requested

(* A notification that tells of what is installed, or of upstream DSH on  *)
(* the Stable channel, does not stay: whatever a check that ran beside the *)
(* change wrote, or a task that failed did not remove, the next automatic  *)
(* check that reaches the network corrects.                                *)
Outdated ==
  \/ notice.stable # 0 /\ Satisfied(notice.stable, deployed)
  \/ notice.upstream # 0 /\ (channel = "stable" \/ deployed.dsh >= notice.upstream)
NoticesSettle == Outdated ~> ~Outdated

(* What is in progress ends: no status file keeps the spinner of a check   *)
(* or a task for ever, across restarts.                                    *)
StatusSettles == status.name \in {"checking", "working"} ~> status.name \in {"idle", "success", "failed"}

CoordinatorFairness ==
  /\ WF_coordinator(Checking) /\ WF_coordinator(Writing)
  /\ SF_coordinator(StartCheck("automatic"))
  /\ SF_coordinator(check.step = "begun" /\ check.source = "automatic" /\ CheckPlans)
  /\ WF_coordinator(Working) /\ WF_coordinator(job.step = "handoff" /\ Restart)
CoordinatorSpec == CoordinatorInit /\ [][CoordinatorNext]_coordinator /\ CoordinatorFairness

(* Updates happen when they are asked for, one at a time, and lead forward. *)
UpdaterOrderly == []ChecksApart /\ []ChecksNeverUpdate /\ OnlyRollbackGoesBack

(* Neither what is in progress nor what was announced stays for ever.       *)
UpdaterSettles == StatusSettles /\ NoticesSettle
=============================================================================
