------------------------- MODULE DeploymentManager -------------------------
(***************************************************************************)
(* Bootstrap's Deployment slots (platform/bootstrap/lib/deployments.mjs)   *)
(* with the start-up sequence of platform/bootstrap/index.mjs and the      *)
(* control API that drives them, over the receipts of Stage-0.             *)
(*                                                                         *)
(* A Deployment is switched in several durable writes: the activation      *)
(* journal, the receipt files, the slots.  The container may die between   *)
(* any two of them; what Bootstrap does with the pieces on the next start  *)
(* is recoverActivation.  Two actors share the files: the start-up         *)
(* sequence (boot) and at most one control operation (op), whose only      *)
(* caller is the Updater, which runs one task at a time.                   *)
(***************************************************************************)
EXTENDS ReceiptStore, Naturals

CONSTANTS
  Record,          \* the Deployment Records that may exist
  NoRecord,        \* the null of slots.json
  Image,           \* the Records of the Docker images the container may run
  Materialized,    \* the Managed Record materializeRecord makes of an image Record
  ReceiptTokens,   \* Record fields the code decides by
  TargetSequence,
  DshVersion,
  Authority,
  Environment,     \* environment and systemPlugins content
  Content,         \* the content sameImageDeployment compares
  EarlyRequests,   \* the Updater may call before the start-up is complete
  SlowStage0,      \* a relaunched Bootstrap may overtake Stage-0's writes
  MaxCrashes,      \* bound: how many times the container or Bootstrap dies
  MaxFaults        \* bound: how many durable writes of an operation fail

ASSUME RecordAssumption ==
  /\ NoRecord \notin Record
  /\ Image \subseteq Record
  /\ Image # {}
  /\ Materialized \in [Image -> Record \ Image]
  /\ ReceiptTokens \in [Record -> SUBSET Token]
  /\ TargetSequence \in [Record -> Nat]
  /\ DshVersion \in [Record -> Nat]
  /\ Authority \in [Record -> {"stable", "experimental", "development"}]

(* recordsFromImageInventory gives an image no receipts, and materializing  *)
(* it changes where its assets are stored and nothing else.                 *)
ASSUME ImageAssumption ==
  \A i \in Image : /\ ReceiptTokens[i] = {}
                   /\ ReceiptTokens[Materialized[i]] = {}

ASSUME BoundAssumption ==
  /\ EarlyRequests \in BOOLEAN
  /\ SlowStage0 \in BOOLEAN
  /\ MaxCrashes \in Nat
  /\ MaxFaults \in Nat

VARIABLES
  slots,        \* slots.json: current and previous
  activation,   \* activation.json, NoJournal when absent
  image,        \* the Record of the running container's image
  view,         \* the Record the runtime view under /run points at
  running,      \* the Record the DSH process was started from
  boot,         \* where Bootstrap's start-up sequence is
  plan,         \* imagePlan or previousPlan of this start
  recovery,     \* runtime.recoveryMode is set
  op,           \* the control operation in progress
  crashes,      \* lost containers and Bootstraps so far
  faults,       \* failed writes so far
  torn          \* history: Bootstrap died after activating the receipts of
                \* an automatic fallback and before journaling it

diskVars == <<receipts, goal, slots, activation>>
dshVars == <<view, running, recovery>>
boundVars == <<image, crashes, faults, torn>>
vars == <<diskVars, dshVars, boundVars, boot, plan, op>>

Maybe(S) == S \union {NoRecord}

Phase == {"prepared", "healthy", "probation", "receipts-active"}
Journal == [phase : Phase, from : Record, to : Record]
NoJournal == [phase |-> "none", from |-> NoRecord, to |-> NoRecord]

BootStep == {"down", "recover", "revert", "reverting", "recovered", "plan",
             "unresolved", "start", "fallback", "accept", "accept-previous", "receipts-previous",
             "journal-previous", "commit-previous", "clear-previous", "ready", "degraded"}

(* replaces is the fallback of an image plan and the failed Record of a     *)
(* previous one; fresh stands for baseGeneration: no slots were committed   *)
(* since the plan.                                                          *)
Plan == [kind : {"none", "image", "previous"}, target : Maybe(Record),
         replaces : Maybe(Record), refresh : BOOLEAN, fresh : BOOLEAN]
NoPlan == [kind |-> "none", target |-> NoRecord, replaces |-> NoRecord,
           refresh |-> FALSE, fresh |-> FALSE]

Result == {"none", "ok", "unchanged", "failed"}
OpStep == {"prepare", "journal", "switch", "healthy", "receipts", "activating",
           "commit", "clear", "publish", "undo-receipts", "undo-activating",
           "undo", "undo-clear"}
Op == [kind : {"idle"}, step : Result, from : {NoRecord}, to : {NoRecord}]
      \union [kind : {"activate", "rollback", "stage", "commit"}, step : OpStep,
              from : Maybe(Record), to : Record]
Idle(result) == [kind |-> "idle", step |-> result, from |-> NoRecord, to |-> NoRecord]

TypeOK ==
  /\ ReceiptTypeOK
  /\ slots \in [current : Maybe(Record), previous : Maybe(Record)]
  /\ activation \in Journal \union {NoJournal}
  /\ image \in Image
  /\ view \in Maybe(Record)
  /\ running \in Maybe(Record)
  /\ boot \in BootStep
  /\ plan \in Plan
  /\ recovery \in BOOLEAN
  /\ op \in Op
  /\ crashes \in 0..MaxCrashes
  /\ faults \in 0..MaxFaults
  /\ torn \in BOOLEAN

-----------------------------------------------------------------------------

(* commit(): slots never name one Record twice, and every commit moves the  *)
(* generation on.                                                           *)
CommitSlots(current, previous) ==
  /\ slots' = [current |-> current,
               previous |-> IF previous = current THEN NoRecord ELSE previous]
  /\ plan' = [plan EXCEPT !.fresh = FALSE]

WriteActivation(phase, from, to) ==
  activation' = [phase |-> phase, from |-> from, to |-> to]

(* Image assets exist only inside their own image. *)
Available(r) == r \in Image => r = image

(* Defect: a healthy candidate counts as won without its receipts. *)
DefectDecided == activation.phase \in {"healthy", "receipts-active"}

(* recoverActivation's reading of the journal: the candidate has won. *)
Decided ==
  \/ activation.phase = "receipts-active"
  \/ activation.phase = "healthy" /\ ReceiptTokens[activation.to] \subseteq Active

-----------------------------------------------------------------------------
(* Start-up: index.mjs runs recoverActivation, prepareImage, the DSH start  *)
(* with its one fallback, and acceptImage or acceptPreviousRecovery.        *)

(* The operation queue of DeploymentManager.exclusive: rollback holds it    *)
(* from end to end, and so does the start-up while it accepts a fallback.   *)
ExclusiveFree == ~(op.kind = "rollback" /\ op.step # "journal")
BootComplete == boot \in {"ready", "degraded"}
BootExclusive == boot \in {"receipts-previous", "journal-previous",
                           "commit-previous", "clear-previous"}

(* A receipt activation goes on in Stage-0 when Bootstrap dies; it takes    *)
(* milliseconds and the relaunch longer, but nothing makes it wait.         *)
StartBootstrap ==
  /\ boot = "down"
  /\ ~SlowStage0 => Quiet
  /\ boot' = "recover"
  /\ plan' = NoPlan
  /\ recovery' = FALSE
  /\ UNCHANGED <<diskVars, view, running, boundVars, op>>

RecoverNothing ==
  /\ boot = "recover"
  /\ activation = NoJournal
  /\ boot' = "plan"
  /\ UNCHANGED <<diskVars, dshVars, boundVars, plan, op>>

(* Defect: a decided journal is cleared without moving the slots. *)
DefectRecoverCommit ==
  /\ boot = "recover"
  /\ activation # NoJournal
  /\ Decided
  /\ Available(activation.to)
  /\ view' = activation.to
  /\ boot' = "recovered"
  /\ UNCHANGED <<diskVars, running, recovery, boundVars, plan, op>>

RecoverCommit ==
  /\ boot = "recover"
  /\ activation # NoJournal
  /\ Decided
  /\ Available(activation.to)
  /\ view' = activation.to
  /\ IF slots.current = activation.to THEN UNCHANGED <<slots, plan>>
     ELSE CommitSlots(activation.to, activation.from)
  /\ boot' = "recovered"
  /\ UNCHANGED <<receiptVars, activation, running, recovery, boundVars, op>>

(* activeReceipts does not wait for Stage-0's queue, activate does: an      *)
(* activation begun for a Bootstrap that died may end in between.           *)
RecoverUndecided ==
  /\ boot = "recover"
  /\ activation # NoJournal
  /\ ~Decided
  /\ boot' = "revert"
  /\ UNCHANGED <<diskVars, dshVars, boundVars, plan, op>>

RecoverRevert ==
  /\ boot = "revert"
  /\ BeginActivation(ReceiptTokens[activation.from])
  /\ boot' = "reverting"
  /\ UNCHANGED <<slots, activation, dshVars, boundVars, plan, op>>

RecoverReverted ==
  /\ boot = "reverting"
  /\ Quiet
  /\ Available(activation.from)
  /\ view' = activation.from
  /\ IF slots.current = activation.from THEN UNCHANGED <<slots, plan>>
     ELSE CommitSlots(activation.from, slots.current)
  /\ boot' = "recovered"
  /\ UNCHANGED <<receiptVars, activation, running, recovery, boundVars, op>>

(* The receipts are refused or the image that holds the assets is gone:     *)
(* Bootstrap exits before it is ready, Stage-0 launches the previous        *)
(* Bootstrap, and that one finds the same journal.                          *)
RecoverFails ==
  /\ \/ boot = "recover" /\ activation # NoJournal /\ Decided /\ ~Available(activation.to)
     \/ boot = "revert" /\ Quiet /\ ~Usable(ReceiptTokens[activation.from])
     \/ boot = "reverting" /\ Quiet /\ ~Available(activation.from)
  /\ boot' = "down"
  /\ UNCHANGED <<diskVars, dshVars, boundVars, plan, op>>

RecoverClear ==
  /\ boot = "recovered"
  /\ activation' = NoJournal
  /\ boot' = "plan"
  /\ UNCHANGED <<receiptVars, slots, dshVars, boundVars, plan, op>>

-----------------------------------------------------------------------------
(* prepareImage: does this start select the image's Record or the current   *)
(* one?                                                                     *)
DevelopmentRefresh(c) ==
  /\ Authority[image] = "development"
  /\ TargetSequence[image] = 0
  /\ c # image
  /\ DshVersion[image] >= DshVersion[c]

ImageRollback(c) ==
  /\ TargetSequence[image] < TargetSequence[c]
  /\ ReceiptTokens[c] = {}
  /\ c \in Image \ {image}

(* sameImageDeployment compares content, wherever it is stored. *)
Conflict(c) ==
  /\ ~DevelopmentRefresh(c)
  /\ Authority[c] # "experimental"
  /\ TargetSequence[image] = TargetSequence[c]
  /\ Content[image] # Content[c]

TakesImage(c) ==
  \/ DevelopmentRefresh(c)
  \/ ImageRollback(c)
  \/ IF Authority[c] = "experimental"
     THEN /\ TargetSequence[image] >= TargetSequence[c]
          /\ DshVersion[image] >= DshVersion[c]
     ELSE \/ TargetSequence[image] > TargetSequence[c]
          \/ TargetSequence[image] = TargetSequence[c] /\ c # image

PlanFor(kind, target, replaces, refresh) ==
  plan' = [kind |-> kind, target |-> target, replaces |-> replaces,
           refresh |-> refresh, fresh |-> TRUE]

(* preparePreviousRecovery(failed) resolves the retained Deployment. *)
PreviousRecoverable(failed) ==
  /\ slots.current = failed
  /\ slots.previous \notin {NoRecord, failed}
  /\ Available(slots.previous)
PlanPrevious == /\ PlanFor("previous", slots.previous, slots.current, FALSE)
                /\ view' = slots.previous

PlanInitialize ==
  /\ boot = "plan"
  /\ slots.current = NoRecord
  /\ PlanFor("image", image, NoRecord, FALSE)
  /\ view' = image
  /\ boot' = "start"
  /\ UNCHANGED <<diskVars, running, recovery, boundVars, op>>

PlanImage ==
  /\ boot = "plan"
  /\ slots.current # NoRecord
  /\ ~Conflict(slots.current)
  /\ TakesImage(slots.current)
  /\ LET refresh == DevelopmentRefresh(slots.current)
     IN  PlanFor("image", image, IF refresh THEN NoRecord ELSE slots.current, refresh)
  /\ view' = image
  /\ boot' = "start"
  /\ UNCHANGED <<diskVars, running, recovery, boundVars, op>>

(* The current Record is kept, or stands in for an image that cannot be     *)
(* resolved.                                                                *)
PlanCurrent ==
  /\ boot = "plan"
  /\ slots.current # NoRecord
  /\ ~Conflict(slots.current)
  /\ Available(slots.current)
  /\ PlanFor("image", slots.current, NoRecord, FALSE)
  /\ view' = slots.current
  /\ boot' = "start"
  /\ UNCHANGED <<diskVars, running, recovery, boundVars, op>>

(* The current Record's assets are missing or damaged, and those of an      *)
(* image that is to replace it: the retained Deployment is tried.           *)
PlanUnresolved ==
  /\ boot = "plan"
  /\ slots.current # NoRecord
  /\ ~Conflict(slots.current)
  /\ PreviousRecoverable(slots.current)
  /\ PlanPrevious
  /\ boot' = "start"
  /\ UNCHANGED <<diskVars, running, recovery, boundVars, op>>

(* Without a plan the start goes on to recovery mode if deployments.selected *)
(* resolves what was selected last, the current Deployment, for its skills. *)
PlanConflict ==
  /\ boot = "plan"
  /\ slots.current # NoRecord
  /\ Conflict(slots.current)
  /\ Available(slots.current)
  /\ boot' = "start"
  /\ UNCHANGED <<diskVars, dshVars, boundVars, plan, op>>

(* When nothing has been selected or that is missing or damaged too it       *)
(* throws, ...                                                              *)
NothingSelected ==
  /\ boot = "plan"
  /\ boot' = "unresolved"
  /\ UNCHANGED <<diskVars, dshVars, boundVars, plan, op>>

-----------------------------------------------------------------------------
(* runtime.start: the DSH start, retried once on a fallback.  An Updater    *)
(* request may get in between and start DSH itself; environment.start then  *)
(* refuses.                                                                 *)
Launchable == view # NoRecord /\ running = NoRecord

BootStarts ==
  /\ boot = "start"
  /\ Launchable
  /\ running' = view
  /\ boot' = CASE plan.kind = "image" -> "accept"
               [] plan.kind = "previous" -> "accept-previous"
               [] plan.kind = "none" -> "degraded"
  /\ UNCHANGED <<diskVars, view, recovery, boundVars, plan, op>>

(* rejectImage: the Deployment the image was to replace. *)
BootRejectsImage ==
  /\ boot = "start"
  /\ plan.kind = "image"
  /\ plan.replaces # NoRecord
  /\ ExclusiveFree
  /\ plan.fresh
  /\ Available(plan.replaces)
  /\ view' = plan.replaces
  /\ boot' = "fallback"
  /\ UNCHANGED <<diskVars, running, recovery, boundVars, plan, op>>

BootTriesPrevious ==
  /\ boot = "start"
  /\ plan.kind = "image"
  /\ plan.replaces = NoRecord
  /\ ExclusiveFree
  /\ PreviousRecoverable(plan.target)
  /\ PlanPrevious
  /\ boot' = "fallback"
  /\ UNCHANGED <<diskVars, running, recovery, boundVars, op>>

BootGivesUp ==
  /\ \/ /\ boot = "start"
        /\ plan.kind = "image" =>
             /\ ExclusiveFree
             /\ IF plan.replaces = NoRecord THEN ~PreviousRecoverable(plan.target)
                ELSE ~(plan.fresh /\ Available(plan.replaces))
     \/ boot = "fallback"
  /\ recovery' = TRUE
  /\ boot' = "degraded"
  /\ UNCHANGED <<diskVars, view, running, boundVars, plan, op>>

FallbackStarts ==
  /\ boot = "fallback"
  /\ Launchable
  /\ running' = view
  /\ boot' = IF plan.kind = "previous" THEN "accept-previous" ELSE "ready"
  /\ UNCHANGED <<diskVars, view, recovery, boundVars, plan, op>>

(* Defect: the image's Deployment is started and never committed. *)
DefectAcceptImage ==
  /\ boot = "accept"
  /\ ExclusiveFree
  /\ plan.fresh
  /\ boot' = "ready"
  /\ UNCHANGED <<diskVars, dshVars, boundVars, plan, op>>

AcceptImage ==
  /\ boot = "accept"
  /\ ExclusiveFree
  /\ plan.fresh
  /\ IF slots.current = plan.target THEN UNCHANGED <<slots, plan>>
     ELSE CommitSlots(plan.target, IF plan.refresh THEN NoRecord ELSE slots.current)
  /\ boot' = "ready"
  /\ UNCHANGED <<receiptVars, activation, dshVars, boundVars, op>>

AcceptPrevious ==
  /\ boot = "accept-previous"
  /\ ExclusiveFree
  /\ plan.fresh
  /\ BeginActivation(ReceiptTokens[plan.target])
  /\ boot' = "receipts-previous"
  /\ UNCHANGED <<slots, activation, dshVars, boundVars, plan, op>>

(* The slots moved on or the receipts are refused: DSH is stopped again.    *)
AcceptPreviousRefused ==
  /\ boot = "accept-previous"
  /\ ExclusiveFree
  /\ plan.fresh => Quiet /\ ~Usable(ReceiptTokens[plan.target])
  /\ running' = NoRecord
  /\ recovery' = TRUE
  /\ boot' = "degraded"
  /\ UNCHANGED <<diskVars, view, boundVars, plan, op>>

AcceptPreviousActivated ==
  /\ boot = "receipts-previous"
  /\ Quiet
  /\ boot' = "journal-previous"
  /\ UNCHANGED <<diskVars, dshVars, boundVars, plan, op>>

AcceptPreviousJournal ==
  /\ boot = "journal-previous"
  /\ WriteActivation("receipts-active", plan.replaces, plan.target)
  /\ boot' = "commit-previous"
  /\ UNCHANGED <<receiptVars, slots, dshVars, boundVars, plan, op>>

AcceptPreviousCommit ==
  /\ boot = "commit-previous"
  /\ CommitSlots(plan.target, plan.replaces)
  /\ boot' = "clear-previous"
  /\ UNCHANGED <<receiptVars, activation, dshVars, boundVars, op>>

AcceptPreviousClear ==
  /\ boot = "clear-previous"
  /\ activation' = NoJournal
  /\ boot' = "ready"
  /\ UNCHANGED <<receiptVars, slots, dshVars, boundVars, plan, op>>

-----------------------------------------------------------------------------
(* Control operations: activateManaged, rollback, stageCandidate,           *)
(* commitCandidate and cancelCandidate.                                     *)

(* What the Updater builds: neither an image nor a copy of one. *)
Installable == Record \ (Image \union {Materialized[i] : i \in Image})

(* Such files are written by the time DSH has started and requests come.    *)
Accepting ==
  /\ op.kind = "idle"
  /\ Quiet
  /\ boot \notin {"down", "recover", "revert", "reverting", "recovered", "plan", "unresolved"}
  /\ ~EarlyRequests => BootComplete
Request(kind, step, to) ==
  op' = [kind |-> kind, step |-> step, from |-> NoRecord, to |-> to]
Goto(step) == op' = [op EXCEPT !.step = step]
OnlyOp == UNCHANGED <<boundVars, boot>>

RequestActivate(c) ==
  /\ Accepting
  /\ Request("activate", "prepare", c)
  /\ OnlyOp /\ UNCHANGED <<diskVars, dshVars, plan>>

RequestStage(c) ==
  /\ Accepting
  /\ Request("stage", "prepare", c)
  /\ OnlyOp /\ UNCHANGED <<diskVars, dshVars, plan>>

RequestRollback ==
  /\ Accepting
  /\ slots.previous # NoRecord
  /\ Request("rollback", "journal", slots.previous)
  /\ OnlyOp /\ UNCHANGED <<diskVars, dshVars, plan>>

(* materializeCurrent *)
Prepare ==
  /\ op.step = "prepare"
  /\ ~BootExclusive
  /\ slots.current # NoRecord
  /\ slots.current \in Image => Available(slots.current)
  /\ IF slots.current \in Image
     THEN /\ view' = Materialized[slots.current]
          /\ CommitSlots(Materialized[slots.current], slots.previous)
     ELSE UNCHANGED <<view, slots, plan>>
  /\ Goto("journal")
  /\ OnlyOp /\ UNCHANGED <<receiptVars, activation, running, recovery>>

PrepareFails ==
  /\ op.step = "prepare"
  /\ slots.current = NoRecord \/ ~Available(slots.current)
  /\ op' = Idle("failed")
  /\ OnlyOp /\ UNCHANGED <<diskVars, dshVars, plan>>

(* validateCandidate *)
ValidStable(from, c) ==
  /\ Authority[c] = "stable"
  /\ TargetSequence[c] >= TargetSequence[from]
  /\ (Authority[from] = "stable" /\ TargetSequence[c] = TargetSequence[from])
       => Content[c] = Content[from]
  /\ Authority[from] = "experimental" => DshVersion[c] >= DshVersion[from]

ValidExperimental(from, c) ==
  /\ Authority[c] = "experimental"
  /\ TargetSequence[c] = TargetSequence[from]
  /\ DshVersion[c] > DshVersion[from]
  /\ Environment[c] = Environment[from]

(* rollback reads the slots again once it holds the queue. *)
Destination == IF op.kind = "rollback" THEN slots.previous ELSE op.to

Journaled ==
  CASE op.kind = "activate" -> op.to # slots.current /\ ValidStable(slots.current, op.to)
    [] op.kind = "stage" -> ValidExperimental(slots.current, op.to)
    [] op.kind = "rollback" -> slots.previous # NoRecord

JournalPrepared ==
  /\ op.step = "journal"
  /\ op.kind = "rollback" => ~BootExclusive
  /\ Journaled
  /\ WriteActivation("prepared", slots.current, Destination)
  /\ op' = [op EXCEPT !.step = "switch", !.from = slots.current, !.to = Destination]
  /\ OnlyOp /\ UNCHANGED <<receiptVars, slots, dshVars, plan>>

(* Nothing to do, or nothing that may be done. *)
NotJournaled ==
  /\ op.step = "journal"
  /\ op.kind = "rollback" => ~BootExclusive
  /\ ~Journaled
  /\ op' = Idle(IF op.kind = "activate" /\ op.to = slots.current THEN "unchanged" ELSE "failed")
  /\ OnlyOp /\ UNCHANGED <<diskVars, dshVars, plan>>

(* select(to) and the health check, which stops the Environment and starts  *)
(* it from the new view.                                                    *)
SwitchHealthy ==
  /\ op.step = "switch"
  /\ Available(op.to)
  /\ view' = op.to
  /\ running' = op.to
  /\ recovery' = FALSE
  /\ Goto("healthy")
  /\ OnlyOp /\ UNCHANGED <<diskVars, plan>>

SwitchFails ==
  /\ op.step = "switch"
  /\ \/ UNCHANGED <<view, running>>
     \/ /\ Available(op.to)
        /\ view' = op.to
        /\ running' \in {running, NoRecord, op.to}
  /\ Goto("undo")
  /\ OnlyOp /\ UNCHANGED <<diskVars, recovery, plan>>

JournalHealthy ==
  /\ op.step = "healthy"
  /\ op.kind # "stage"
  /\ WriteActivation("healthy", op.from, op.to)
  /\ Goto("receipts")
  /\ OnlyOp /\ UNCHANGED <<receiptVars, slots, dshVars, plan>>

JournalProbation ==
  /\ op.step = "healthy"
  /\ op.kind = "stage"
  /\ WriteActivation("probation", op.from, op.to)
  /\ op' = Idle("ok")
  /\ OnlyOp /\ UNCHANGED <<receiptVars, slots, dshVars, plan>>

(* commitCandidate checks the journal and goes on where activateManaged is  *)
(* after its health check.                                                  *)
RequestCommit(c) ==
  /\ Accepting
  /\ op' = IF activation.phase = "probation" /\ activation.to = c
           THEN [kind |-> "commit", step |-> "receipts", from |-> activation.from, to |-> c]
           ELSE Idle("failed")
  /\ OnlyOp /\ UNCHANGED <<diskVars, dshVars, plan>>

ActivateReceipts ==
  /\ op.step = "receipts"
  /\ BeginActivation(ReceiptTokens[op.to])
  /\ Goto("activating")
  /\ OnlyOp /\ UNCHANGED <<slots, activation, dshVars, plan>>

ReceiptsRefused ==
  /\ op.step = "receipts"
  /\ Quiet
  /\ ~Usable(ReceiptTokens[op.to])
  /\ IF op.kind = "commit" THEN op' = Idle("failed") ELSE Goto("undo")
  /\ OnlyOp /\ UNCHANGED <<diskVars, dshVars, plan>>

(* Defect: the answer of Stage-0 is not awaited. *)
DefectJournalReceiptsActive ==
  /\ op.step = "activating"
  /\ WriteActivation("receipts-active", op.from, op.to)
  /\ Goto("commit")
  /\ OnlyOp /\ UNCHANGED <<receiptVars, slots, dshVars, plan>>

JournalReceiptsActive ==
  /\ op.step = "activating"
  /\ Quiet
  /\ WriteActivation("receipts-active", op.from, op.to)
  /\ Goto("commit")
  /\ OnlyOp /\ UNCHANGED <<receiptVars, slots, dshVars, plan>>

Commit ==
  /\ op.step = "commit"
  /\ CommitSlots(op.to, op.from)
  /\ Goto("clear")
  /\ OnlyOp /\ UNCHANGED <<receiptVars, activation, dshVars>>

Clear ==
  /\ op.step = "clear"
  /\ activation' = NoJournal
  /\ Goto("publish")
  /\ OnlyOp /\ UNCHANGED <<receiptVars, slots, dshVars, plan>>

(* publishStatus: a file for the UI, whose failure fails the operation. *)
Publish ==
  /\ op.step = "publish"
  /\ op' = Idle("ok")
  /\ OnlyOp /\ UNCHANGED <<diskVars, dshVars, plan>>

(* A durable write of the operation fails and leaves the old file.  In      *)
(* "switch" it is the status, written before the try block.                 *)
WriteFails ==
  /\ faults < MaxFaults
  /\ faults' = faults + 1
  /\ \/ /\ op.step = "switch"
        /\ op.kind # "stage"
        /\ op' = Idle("failed")
     \/ /\ op.step = "healthy"
        /\ Goto("undo")
     \/ /\ (op.step = "activating" /\ Quiet) \/ op.step \in {"commit", "publish"}
        /\ IF op.kind = "commit" THEN op' = Idle("failed") ELSE Goto("undo-receipts")
  /\ UNCHANGED <<diskVars, dshVars, plan, image, crashes, torn, boot>>

UndoReceipts ==
  /\ op.step = "undo-receipts"
  /\ BeginActivation(ReceiptTokens[op.from])
  /\ Goto("undo-activating")
  /\ OnlyOp /\ UNCHANGED <<slots, activation, dshVars, plan>>

UndoReceiptsEnd ==
  /\ \/ op.step = "undo-activating" /\ Quiet
     \/ op.step = "undo-receipts" /\ Quiet /\ ~Usable(ReceiptTokens[op.from])
  /\ Goto("undo")
  /\ OnlyOp /\ UNCHANGED <<diskVars, dshVars, plan>>

(* select(from) and, except for a staged candidate, the health check again; *)
(* whatever fails here is swallowed.                                        *)
Undo ==
  /\ op.step = "undo"
  /\ view' = IF Available(op.from) THEN op.from ELSE view
  /\ IF op.kind = "stage" THEN UNCHANGED <<running, recovery>>
     ELSE \/ running' = view' /\ recovery' = FALSE
          \/ running' \in {running, NoRecord, view'} /\ UNCHANGED recovery
  /\ Goto("undo-clear")
  /\ OnlyOp /\ UNCHANGED <<diskVars, plan>>

UndoClear ==
  /\ op.step = "undo-clear"
  /\ activation' = NoJournal
  /\ op' = Idle("failed")
  /\ OnlyOp /\ UNCHANGED <<receiptVars, slots, dshVars, plan>>

(* cancelCandidate; the Updater has suspended DSH. *)
CancelCandidate ==
  /\ Accepting
  /\ running = NoRecord
  /\ activation # NoJournal
  /\ Available(activation.from)
  /\ view' = activation.from
  /\ activation' = NoJournal
  /\ OnlyOp /\ UNCHANGED <<receiptVars, slots, running, recovery, plan, op>>

SuspendDsh ==
  /\ Accepting
  /\ running # NoRecord
  /\ running' = NoRecord
  /\ OnlyOp /\ UNCHANGED <<diskVars, view, recovery, plan, op>>

ResumeDsh ==
  /\ Accepting
  /\ ~BootExclusive
  /\ \/ /\ view # NoRecord
        /\ running' = IF running = NoRecord THEN view ELSE running
        /\ recovery' = FALSE
     \/ recovery' = TRUE /\ UNCHANGED running
  /\ OnlyOp /\ UNCHANGED <<diskVars, view, plan, op>>

-----------------------------------------------------------------------------
(* The Updater imports, authorities move on, processes die. *)

ImportCandidate(c) ==
  /\ Accepting
  /\ \E t \in ReceiptTokens[c] : ImportReceipt(t)
  /\ UNCHANGED <<slots, activation, dshVars, boundVars, boot, plan, op>>

RevokeStaged(t) ==
  /\ RevokeReceipt(t)
  /\ UNCHANGED <<slots, activation, dshVars, boundVars, boot, plan, op>>

Stage0Writes(t) ==
  /\ WriteReceipt(t)
  /\ UNCHANGED <<slots, activation, dshVars, boundVars, boot, plan, op>>

BootstrapEnds ==
  /\ boot' = "down"
  /\ op' = Idle("none")
  /\ running' = NoRecord
  /\ torn' = (torn \/ boot \in {"receipts-previous", "journal-previous"})
  /\ UNCHANGED <<slots, activation, recovery, plan, faults>>

(* Stage-0 restarts Bootstrap while its own receipt activation goes on. *)
BootstrapRestarts ==
  /\ boot # "down"
  /\ crashes < MaxCrashes
  /\ crashes' = crashes + 1
  /\ BootstrapEnds
  /\ UNCHANGED <<receiptVars, view, image>>

(* ... and Bootstrap ends before it is ready and before its control plane    *)
(* is: Stage-0 launches it again.                                           *)
UnresolvedEnds ==
  /\ boot = "unresolved"
  /\ BootstrapEnds
  /\ UNCHANGED <<receiptVars, view, image, crashes>>

(* Defect: the generation check waits instead of throwing. *)
DefectAcceptImageStale == FALSE

(* acceptImage throws: an Updater request moved the slots on. *)
AcceptImageStale ==
  /\ boot = "accept"
  /\ ExclusiveFree
  /\ ~plan.fresh
  /\ BootstrapEnds
  /\ UNCHANGED <<receiptVars, view, image, crashes>>

(* The container dies and is started again, perhaps from another image;     *)
(* /run is empty then.                                                      *)
ContainerDies ==
  /\ boot # "down"
  /\ crashes < MaxCrashes
  /\ crashes' = crashes + 1
  /\ BootstrapEnds
  /\ AbandonActivation
  /\ view' = NoRecord
  /\ image' \in Image

-----------------------------------------------------------------------------
Init ==
  /\ ReceiptInit
  /\ slots = [current |-> NoRecord, previous |-> NoRecord]
  /\ activation = NoJournal
  /\ image \in Image
  /\ view = NoRecord
  /\ running = NoRecord
  /\ boot = "down"
  /\ plan = NoPlan
  /\ recovery = FALSE
  /\ op = Idle("none")
  /\ crashes = 0
  /\ faults = 0
  /\ torn = FALSE

Recover == \/ RecoverNothing \/ RecoverCommit \/ RecoverUndecided
           \/ RecoverRevert \/ RecoverReverted \/ RecoverFails \/ RecoverClear

Startup == \/ StartBootstrap \/ Recover
           \/ PlanInitialize \/ PlanImage \/ PlanCurrent \/ PlanUnresolved \/ PlanConflict
           \/ NothingSelected \/ UnresolvedEnds
           \/ BootStarts \/ BootRejectsImage \/ BootTriesPrevious \/ BootGivesUp
           \/ FallbackStarts \/ AcceptImage \/ AcceptImageStale
           \/ AcceptPrevious \/ AcceptPreviousRefused \/ AcceptPreviousActivated
           \/ AcceptPreviousJournal \/ AcceptPreviousCommit \/ AcceptPreviousClear

Operation == \/ Prepare \/ PrepareFails \/ JournalPrepared \/ NotJournaled
             \/ SwitchHealthy \/ SwitchFails \/ JournalHealthy \/ JournalProbation
             \/ ActivateReceipts \/ ReceiptsRefused \/ JournalReceiptsActive
             \/ Commit \/ Clear \/ Publish
             \/ UndoReceipts \/ UndoReceiptsEnd \/ Undo \/ UndoClear

Updater == \/ \E c \in Installable :
                 RequestActivate(c) \/ RequestStage(c) \/ RequestCommit(c) \/ ImportCandidate(c)
           \/ RequestRollback \/ CancelCandidate \/ SuspendDsh \/ ResumeDsh

Next == \/ Startup
        \/ Operation
        \/ Updater
        \/ \E t \in Token : Stage0Writes(t) \/ RevokeStaged(t)
        \/ WriteFails \/ BootstrapRestarts \/ ContainerDies

Spec == Init /\ [][Next]_vars

(* Bootstrap and Stage-0 keep executing what they have begun.  The queue of *)
(* exclusive is first come, first served: a start-up step that waits for it *)
(* is not overtaken for ever.  Nothing obliges the Updater to ask for       *)
(* anything.                                                                *)
Fairness == /\ SF_vars(Startup)
            /\ WF_vars(Operation)
            /\ \A t \in Token : WF_vars(Stage0Writes(t))

FairSpec == Spec /\ Fairness

-----------------------------------------------------------------------------
(* Properties.                                                              *)

(* Slots move to a Deployment only when each of its receipts is active:     *)
(* commit() comes after activateReceipts on every path, recovery included.  *)
SwitchFollowsReceipts ==
  [][slots'.current # slots.current => ReceiptTokens[slots'.current] \subseteq Active]_vars

(* A journal always names the Deployment the slots select, as what it       *)
(* leaves or, once it is decided, as what it enters: recoverActivation      *)
(* never moves the slots to a Deployment that has nothing to do with them.  *)
JournalNamesCurrent ==
  activation # NoJournal =>
    /\ slots.current \in {activation.from, activation.to}
    /\ slots.current # activation.from => Decided

(* recoverActivation can carry out what the journal says as far as the      *)
(* receipts are concerned: what it goes back to can be activated again, and *)
(* what it commits is active already.                                       *)
JournalRecoverable ==
  (activation # NoJournal /\ ~torn) =>
    IF activation.phase = "receipts-active"
    THEN ReceiptTokens[activation.to] \subseteq Active
    ELSE Usable(ReceiptTokens[activation.from])

(* Whatever dies or fails, the current Deployment's receipts stay usable.   *)
CurrentUsable ==
  (slots.current # NoRecord /\ ~torn) => Usable(ReceiptTokens[slots.current])

(* With nothing in progress the receipts of the current Deployment are the  *)
(* active ones.                                                             *)
Settled == BootComplete /\ op.kind = "idle" /\ activation = NoJournal /\ Quiet
CurrentActive ==
  (Settled /\ ~torn /\ slots.current # NoRecord) => ReceiptTokens[slots.current] \subseteq Active

(* After a start, and after an operation that reports success, DSH runs the *)
(* Deployment the slots select, or nothing.  Only when the start gave up    *)
(* and the user resumed DSH may it run what that start had selected, until  *)
(* slots are committed again.                                               *)
RunsCurrent ==
  (Settled /\ op.step \in {"none", "ok"})
    => \/ running \in {NoRecord, slots.current}
       \/ boot = "degraded" /\ plan.fresh /\ running = plan.target

(* An operation that reports failure leaves the slots on the Deployment it  *)
(* set out from.                                                            *)
FailureKeepsCurrent ==
  [][(op.from # NoRecord /\ op'.step = "failed") => slots'.current = op.from]_vars

(* What Stage-0 keeps, what the journal says and what the slots select fit  *)
(* together at every moment: a start after a crash finds a journal it can   *)
(* carry out, and with nothing in progress the right receipts are active.   *)
ReceiptsSound ==
  /\ TypeOK
  /\ JournalNamesCurrent
  /\ JournalRecoverable
  /\ CurrentActive

(* A switch is a switch of receipts first and slots second, and one that    *)
(* fails has not switched anything.                                         *)
SwitchesWhole == SwitchFollowsReceipts /\ FailureKeepsCurrent

(* The Deployment the slots select can be run, and nothing else is run.     *)
CurrentSound == CurrentUsable /\ RunsCurrent

(* The journaled transaction has been won: from then on every path, a crash *)
(* at any point included, ends with the candidate in the slots; until then  *)
(* every path ends without it.  The switch of journal, receipts and slots,  *)
(* in that many writes, is the single step of AtomicDeployment.             *)
Won == activation # NoJournal /\ Decided /\ boot \notin {"revert", "reverting"}

Atomic == INSTANCE AtomicDeployment WITH
  installed <- IF Won THEN activation.to ELSE slots.current,
  retained <- IF Won THEN activation.from ELSE slots.previous,
  pending <- IF activation # NoJournal /\ ~Won THEN activation.to ELSE NoRecord

AtomicSwitch == Atomic!Spec

(* The two ends of recoverActivation that no restart gets past: the         *)
(* receipts of the Deployment it goes back to are refused, or the assets it *)
(* is to select belong to another image.                                    *)
Stranded ==
  activation # NoJournal /\
    IF Decided THEN ~Available(activation.to)
    ELSE ~Usable(ReceiptTokens[activation.from]) \/ ~Available(activation.from)

(* Every operation ends, and so does the start-up unless the Updater goes   *)
(* on switching Deployments under it (which makes acceptImage throw, and    *)
(* Bootstrap start over), or no Deployment can be resolved start after      *)
(* start: neither waits forever for the operation queue, for Stage-0, or    *)
(* for the other.                                                           *)
OperationEnds == []<>(op.kind = "idle")
StartupEnds ==
  <>[](op.kind = "idle") => []<>(BootComplete \/ Stranded \/ boot = "unresolved")

(* Both, for the Updater that waits for an answer and for the user who      *)
(* waits for DSH.                                                           *)
EverythingEnds == OperationEnds /\ StartupEnds

-----------------------------------------------------------------------------
(* What the guide says and the code does not do.                            *)

(* "rollback restores the retained previous Runtime/Environment/receipt/    *)
(* snapshot state without downloading an older package": it can, as long as *)
(* Stage-0 still accepts the receipts of the retained Deployment.           *)
PreviousRestorable ==
  (Settled /\ slots.previous # NoRecord) => Usable(ReceiptTokens[slots.previous])

(* "If both current and previous Deployments are unusable, the Control      *)
(* Plane remains available in recovery mode": with a Deployment in each     *)
(* slot a start comes to its end, in recovery mode at worst, unless it has  *)
(* a journal it cannot recover.                                             *)
RecoveryModeReached ==
  <>[](op.kind = "idle" /\ slots.previous # NoRecord) => []<>(BootComplete \/ Stranded)
=============================================================================
