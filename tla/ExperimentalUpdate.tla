------------------------ MODULE ExperimentalUpdate ------------------------
(***************************************************************************)
(* The Updater's Experimental transaction and complete rollback            *)
(* (control-plane/modules/updater/lib: coordinator, journal, recovery,     *)
(* rollback, snapshots, activator) over Bootstrap's Deployment slots, the  *)
(* DSH process and its data.                                               *)
(*                                                                         *)
(* Two journals take part: transaction.json of the Updater, and the        *)
(* activation journal of Bootstrap, whose protocol DeploymentManager       *)
(* describes write by write.  Here a Deployment switch is two steps, DSH   *)
(* started from the candidate and the commit, as AtomicDeployment allows.  *)
(*                                                                         *)
(* The data in /data/dsh are the set of Deployments whose DSH wrote them;  *)
(* the empty set is what an interrupted restore leaves.  A running DSH     *)
(* goes on with what it read when it started.                              *)
(***************************************************************************)
EXTENDS Naturals

CONSTANTS
  Record, NoRecord,
  Base,          \* the Deployment installed at first
  Copy,          \* the Managed Record materializeCurrent makes of a Record
  Candidate,     \* the Record built by the n-th Experimental transaction
  Target,        \* the Record built by the n-th Stable update
  DshVersion,
  Events,        \* what may go wrong in this instance
  MaxUpdates,    \* bounds: transactions, Stable updates, complete rollbacks,
  MaxStable,     \* lost containers, and exits of DSH
  MaxRollbacks,
  MaxCrashes,
  MaxExits

EventName == {"restore-fails", "unhealthy-restore", "start-fails", "commit-fails"}

ASSUME UpdateAssumption ==
  /\ NoRecord \notin Record
  /\ Base \in Record
  /\ Copy \in [Record -> Record]
  /\ \A r \in Record : Copy[Copy[r]] = Copy[r]
  /\ Candidate \in [1..MaxUpdates -> Record]
  /\ Target \in [1..MaxStable -> Record]
  /\ DshVersion \in [Record -> Nat]
  /\ Events \subseteq EventName
  /\ {MaxUpdates, MaxStable, MaxRollbacks, MaxCrashes, MaxExits} \subseteq Nat

(* Every Record an update builds is Managed already. *)
ASSUME ManagedAssumption ==
  /\ \A n \in 1..MaxUpdates : Copy[Candidate[n]] = Candidate[n]
  /\ \A n \in 1..MaxStable : Copy[Target[n]] = Target[n]

VARIABLES
  slots,       \* Bootstrap's slots.json
  staged,      \* the target of its activation journal, NoRecord without one
  journal,     \* the Updater's transaction.json
  snapshots,   \* the archived data by transaction, {} where there is none
  data,        \* /data/dsh
  dsh,         \* the DSH process: its Deployment and the data it read
  reviving,    \* Bootstrap has seen DSH exit and will restart it
  boot,        \* Bootstrap's start-up
  task,        \* the Updater's task, or the recovery of the start-up
  used         \* what the bounds have been used for, and whether something has
               \* gone amiss that takes the data and the Deployments apart

dataVars == <<snapshots, data>>
dshVars == <<dsh, reviving>>
vars == <<slots, staged, journal, dataVars, dshVars, boot, task, used>>

(* Defect: once the snapshot exists the candidate is taken not to have run. *)
DefectBeforeSwitch == {"planning", "candidate-ready", "suspended", "snapshot-created"}

BeforeSwitch == {"planning", "candidate-ready", "suspended"}
AfterSnapshot == {"snapshot-created", "switched", "probation", "restoring-data"}
Terminal == {"none", "committed", "rolled-back", "failed"}
Journal == [phase : BeforeSwitch \union AfterSnapshot \union Terminal,
            from : Record \union {NoRecord}, to : Record \union {NoRecord},
            snapshot : 0..MaxUpdates]
NoJournal == [phase |-> "none", from |-> NoRecord, to |-> NoRecord, snapshot |-> 0]

Who == {"nobody", "update", "rollback", "switch", "boot"}
Step == {"idle", "ready", "suspend", "suspended", "archive", "bind", "stage", "switched",
         "probation", "observe", "commit", "committed", "cleanup", "undo", "abandon",
         "fail", "stop", "restore", "switch", "accept", "erase", "extract", "resume",
         "verify", "finish"}
Task == [who : Who, step : Step, target : Record \union {NoRecord}, obsolete : 0..MaxUpdates]
Idle == [who |-> "nobody", step |-> "idle", target |-> NoRecord, obsolete |-> 0]
Used == [updates : 0..MaxUpdates, stable : 0..MaxStable, rollbacks : 0..MaxRollbacks,
         crashes : 0..MaxCrashes, exits : 0..MaxExits, amiss : {"no", "yes"}]
NoDsh == [record |-> NoRecord, read |-> {}]

(* Every variable has its type, and a transaction past its snapshot names it. *)
TypeOK ==
  /\ slots \in [current : Record, previous : Record \union {NoRecord}]
  /\ staged \in Record \union {NoRecord}
  /\ journal \in Journal
  /\ journal.phase \in AfterSnapshot => journal.snapshot # 0
  /\ snapshots \in [1..MaxUpdates -> SUBSET Record]
  /\ data \in SUBSET Record
  /\ dsh \in {NoDsh} \union [record : Record, read : SUBSET Record]
  /\ reviving \in BOOLEAN
  /\ boot \in {"down", "recover", "start", "ready"}
  /\ task \in Task
  /\ used \in Used

-----------------------------------------------------------------------------
(* The Record the runtime view points at: the candidate's, or the current.  *)
View == IF staged = NoRecord THEN slots.current ELSE staged
Started(r) == [record |-> Copy[r], read |-> data]
DshRuns == dsh # NoDsh

(* Defect: the recovery journal is compared by Record ID alone. *)
DefectMatches(r, d) == r = d

(* matchesRecoveryJournal: an equal ID, or equal content under another one. *)
Matches(r, d) == r # NoRecord /\ Copy[r] = Copy[d]

Slots(current, previous) ==
  [current |-> current, previous |-> IF previous = current THEN NoRecord ELSE previous]

Transitions ==
  [p \in BeforeSwitch \union AfterSnapshot \union Terminal |->
    CASE p = "planning" -> {"candidate-ready", "failed"}
      [] p = "candidate-ready" -> {"suspended", "failed"}
      [] p = "suspended" -> {"snapshot-created", "failed"}
      [] p = "snapshot-created" -> {"switched", "restoring-data", "failed"}
      [] p = "switched" -> {"probation", "restoring-data"}
      [] p = "probation" -> {"committed", "restoring-data"}
      [] p = "restoring-data" -> {"rolled-back", "failed"}
      [] p = "committed" -> {"restoring-data"}
      [] OTHER -> {}]

Transition(phase) ==
  /\ phase \in Transitions[journal.phase]
  /\ journal' = [journal EXCEPT !.phase = phase]

(* The restoration begins, or goes on where it was interrupted.            *)
Restoring == IF journal.phase = "restoring-data" THEN UNCHANGED journal
             ELSE Transition("restoring-data")

Resting == boot = "ready" /\ task = Idle
At(step) == task.step = step
Goto(step) == task' = [task EXCEPT !.step = step]
Begin(who, step, target, obsolete) ==
  task' = [who |-> who, step |-> step, target |-> target, obsolete |-> obsolete]
Spend(what) == used' = [used EXCEPT ![what] = @ + 1]
Done == task' = Idle /\ UNCHANGED boot

(* An operation that throws: the task fails, and the start-up with it.  A   *)
(* failing update leaves its restoration unfinished while users go on.      *)
Fails == /\ task' = Idle
         /\ boot' = IF task.who = "boot" THEN "down" ELSE boot
         /\ used' = IF task.who = "update" THEN [used EXCEPT !.amiss = "yes"] ELSE used

Init ==
  /\ slots = [current |-> Base, previous |-> NoRecord]
  /\ staged = NoRecord
  /\ journal = NoJournal
  /\ snapshots = [n \in 1..MaxUpdates |-> {}]
  /\ data = {Copy[Base]}
  /\ dsh = NoDsh
  /\ reviving = FALSE
  /\ boot = "down"
  /\ task = Idle
  /\ used = [updates |-> 0, stable |-> 0, rollbacks |-> 0, crashes |-> 0, exits |-> 0,
             amiss |-> "no"]

-----------------------------------------------------------------------------
(* DSH.                                                                     *)
DshWrites ==
  /\ DshRuns
  /\ data' = data \union dsh.read \union {dsh.record}
  /\ UNCHANGED <<slots, staged, journal, snapshots, dshVars, boot, task, used>>

UserStops ==
  /\ Resting
  /\ DshRuns
  /\ dsh' = NoDsh
  /\ UNCHANGED <<slots, staged, journal, dataVars, reviving, boot, task, used>>

UserStarts ==
  /\ Resting
  /\ ~DshRuns
  /\ dsh' = Started(View)
  /\ UNCHANGED <<slots, staged, journal, dataVars, reviving, boot, task, used>>

DshExits ==
  /\ used.exits < MaxExits
  /\ boot = "ready"
  /\ DshRuns
  /\ dsh' = NoDsh
  /\ reviving' = TRUE
  /\ Spend("exits")
  /\ UNCHANGED <<slots, staged, journal, dataVars, boot, task>>

(* handleEnvironmentFatal: an activation in progress owns DSH, the Updater's *)
(* transaction alone does not, and is amiss then.                           *)
Revive ==
  /\ reviving
  /\ reviving' = FALSE
  /\ dsh' = IF staged = NoRecord THEN Started(View) ELSE dsh
  /\ used' = IF task = Idle THEN used ELSE [used EXCEPT !.amiss = "yes"]
  /\ UNCHANGED <<slots, staged, journal, dataVars, boot, task>>

-----------------------------------------------------------------------------
(* The container is lost, and what Bootstrap does when it starts again.  It  *)
(* is amiss after the commit and before the journal says so.                *)
Crash ==
  /\ used.crashes < MaxCrashes
  /\ boot # "down"
  /\ boot' = "down"
  /\ task' = Idle
  /\ dsh' = NoDsh
  /\ reviving' = FALSE
  /\ used' = [used EXCEPT !.crashes = @ + 1, !.amiss = IF At("committed") THEN "yes" ELSE @]
  /\ UNCHANGED <<slots, staged, journal, dataVars>>

(* Bootstrap ends the activation it finds.                                  *)
BootstrapStarts ==
  /\ boot = "down"
  /\ boot' = "recover"
  /\ staged' = NoRecord
  /\ UNCHANGED <<slots, journal, dataVars, dshVars, task, used>>

(* recoverInterruptedUpdate, which leaves DSH alone at this time.           *)
RecoverInterruptedUpdate ==
  /\ boot = "recover"
  /\ task = Idle
  /\ \/ /\ journal.phase \in Terminal
        /\ boot' = "start"
        /\ UNCHANGED <<journal, task>>
     \/ /\ journal.phase \in BeforeSwitch
        /\ Transition("failed")
        /\ boot' = "start"
        /\ UNCHANGED task
     \/ /\ journal.phase \in AfterSnapshot
        /\ Restoring
        /\ Begin("boot", "restore", NoRecord, 0)
        /\ UNCHANGED boot
  /\ UNCHANGED <<slots, staged, dataVars, dshVars, used>>

(* BootstrapRuntime.start.  When a recovery has started DSH already this     *)
(* fails (the Environment is running), which leaves DSH as it is; when DSH   *)
(* does not start, the previous Deployment may take its place, on whatever  *)
(* data there are.                                                          *)
StartDeployment ==
  /\ boot = "start"
  /\ boot' = "ready"
  /\ \/ /\ DshRuns
        /\ UNCHANGED <<slots, dsh, used>>
     \/ /\ ~DshRuns
        /\ dsh' = Started(slots.current)
        /\ UNCHANGED <<slots, used>>
     \/ /\ ~DshRuns
        /\ "start-fails" \in Events
        /\ \/ UNCHANGED <<slots, dsh, used>>
           \/ /\ slots.previous # NoRecord
              /\ slots' = Slots(slots.previous, slots.current)
              /\ dsh' = Started(slots.previous)
              /\ used' = [used EXCEPT !.amiss = "yes"]
  /\ UNCHANGED <<staged, journal, dataVars, reviving, task>>

-----------------------------------------------------------------------------
(* runExperimental.                                                         *)

(* While an earlier transaction is unfinished the journal refuses another,   *)
(* and the handler of that failure finds the earlier one and undoes it.     *)
BeginUpdate ==
  /\ Resting
  /\ used.updates < MaxUpdates
  /\ Spend("updates")
  /\ LET to == Candidate[used.updates + 1]
     IN  \/ /\ journal.phase \in Terminal
           /\ journal' = [phase |-> "planning", from |-> slots.current, to |-> to, snapshot |-> 0]
           /\ Begin("update", "ready", to, journal.snapshot)
        \/ /\ journal.phase \notin Terminal
           /\ Begin("update", "undo", to, 0)
           /\ UNCHANGED journal
  /\ UNCHANGED <<slots, staged, dataVars, dshVars, boot>>

(* The phases the transaction records between its operations.               *)
Recorded(step, phase, next) == At(step) /\ Transition(phase) /\ Goto(next)

RecordPhase ==
  /\ \/ Recorded("ready", "candidate-ready", "suspend")
     \/ Recorded("suspended", "suspended", "archive")
     \/ Recorded("switched", "switched", "probation")
     \/ Recorded("probation", "probation", "observe")
     \/ Recorded("committed", "committed", "cleanup")
  /\ UNCHANGED <<slots, staged, dataVars, dshVars, boot, used>>

(* A DSH that exited counts as running until Bootstrap notices.             *)
SuspendDsh ==
  /\ At("suspend")
  /\ \/ /\ DshRuns \/ reviving
        /\ dsh' = NoDsh
        /\ Goto("suspended")
     \/ /\ ~DshRuns
        /\ Goto("undo")
        /\ UNCHANGED dsh
  /\ UNCHANGED <<slots, staged, journal, dataVars, reviving, boot, used>>

CreateSnapshot ==
  /\ At("archive")
  /\ \/ /\ snapshots' = [snapshots EXCEPT ![used.updates] = data]
        /\ Goto("bind")
     \/ /\ Goto("undo")
        /\ UNCHANGED snapshots
  /\ UNCHANGED <<slots, staged, journal, data, dshVars, boot, used>>

(* Defect: the phase is recorded without the name of the snapshot. *)
DefectBindSnapshot ==
  /\ At("bind")
  /\ Transition("snapshot-created")
  /\ Goto("stage")
  /\ UNCHANGED <<slots, staged, dataVars, dshVars, boot, used>>

BindSnapshot ==
  /\ At("bind")
  /\ "snapshot-created" \in Transitions[journal.phase]
  /\ journal' = [journal EXCEPT !.phase = "snapshot-created", !.snapshot = used.updates]
  /\ Goto("stage")
  /\ UNCHANGED <<slots, staged, dataVars, dshVars, boot, used>>

(* stageCandidate: the current Deployment becomes Managed, then DSH starts   *)
(* from the candidate.  When that fails the candidate is not running, or     *)
(* it runs but is not staged.                                               *)
StageCandidate ==
  /\ At("stage")
  /\ slots' = Slots(Copy[slots.current], slots.previous)
  /\ \/ /\ staged' = task.target
        /\ dsh' = Started(task.target)
        /\ Goto("switched")
     \/ /\ dsh' \in {NoDsh, Started(task.target)}
        /\ Goto("undo")
        /\ UNCHANGED staged
  /\ UNCHANGED <<journal, dataVars, reviving, boot, used>>

Observe ==
  /\ At("observe")
  /\ \/ DshRuns /\ Goto("commit")
     \/ Goto("undo")
  /\ UNCHANGED <<slots, staged, journal, dataVars, dshVars, boot, used>>

(* What comes after the slots' write may fail too: then a transaction whose  *)
(* Deployment is committed is undone, and amiss.                            *)
CommitCandidate ==
  /\ At("commit")
  /\ \/ /\ staged = task.target
        /\ slots' = Slots(task.target, slots.current)
        /\ staged' = NoRecord
        /\ Goto("committed")
        /\ UNCHANGED used
     \/ /\ staged = task.target
        /\ "commit-fails" \in Events
        /\ slots' = Slots(task.target, slots.current)
        /\ staged' \in {staged, NoRecord}
        /\ Goto("undo")
        /\ used' = [used EXCEPT !.amiss = "yes"]
     \/ Goto("undo") /\ UNCHANGED <<slots, staged, used>>
  /\ UNCHANGED <<journal, dataVars, dshVars, boot>>

(* The snapshot of the transaction before is not needed any more.           *)
Cleanup ==
  /\ At("cleanup")
  /\ \/ UNCHANGED snapshots
     \/ /\ task.obsolete \notin {0, journal.snapshot}
        /\ snapshots' = [snapshots EXCEPT ![task.obsolete] = {}]
  /\ Done
  /\ UNCHANGED <<slots, staged, journal, data, dshVars, used>>

-----------------------------------------------------------------------------
(* The failure of a transaction, and the restoration that a complete         *)
(* rollback and the start-up share with it.                                 *)
Undo ==
  /\ At("undo")
  /\ \/ /\ journal.phase \in BeforeSwitch
        /\ Goto("abandon")
        /\ UNCHANGED journal
     \/ /\ journal.phase \in AfterSnapshot
        /\ Restoring
        /\ Goto("stop")
  /\ UNCHANGED <<slots, staged, dataVars, dshVars, boot, used>>

(* resumeDsh: nothing happens when DSH is running, or is taken to be.       *)
Resumed == IF DshRuns THEN {dsh}
           ELSE {Started(View)} \union (IF reviving THEN {dsh} ELSE {})

Abandon ==
  /\ At("abandon")
  /\ dsh' \in Resumed \union {dsh}
  /\ Goto("fail")
  /\ UNCHANGED <<slots, staged, journal, dataVars, reviving, boot, used>>

Fail ==
  /\ At("fail")
  /\ Transition("failed")
  /\ Done
  /\ UNCHANGED <<slots, staged, dataVars, dshVars, used>>

(* A failed transaction goes on when DSH cannot be suspended, a complete     *)
(* rollback does not.                                                       *)
StopDsh ==
  /\ At("stop")
  /\ \/ /\ DshRuns \/ reviving \/ task.who = "update"
        /\ dsh' = NoDsh
        /\ Goto("restore")
        /\ UNCHANGED <<boot, used>>
     \/ /\ ~DshRuns /\ task.who = "rollback"
        /\ Fails
        /\ UNCHANGED dsh
  /\ UNCHANGED <<slots, staged, journal, dataVars, reviving>>

(* restoreDeployment, to the start of the slots' own rollback: its health    *)
(* check starts DSH.                                                        *)
RestoreDeployment ==
  /\ At("restore")
  /\ \/ /\ Matches(slots.current, journal.from)
        /\ staged' = NoRecord
        /\ Goto("erase")
        /\ UNCHANGED <<dsh, boot, used>>
     \/ /\ ~Matches(slots.current, journal.from)
        /\ Matches(slots.previous, journal.from)
        /\ staged' = slots.previous
        /\ dsh' = Started(slots.previous)
        /\ task' = [task EXCEPT !.step = "accept", !.target = slots.previous]
        /\ UNCHANGED <<boot, used>>
     \/ /\ ~Matches(slots.current, journal.from)
        /\ Matches(slots.previous, journal.from) => "restore-fails" \in Events
        /\ staged' = NoRecord
        /\ Fails
        /\ UNCHANGED dsh
  /\ UNCHANGED <<slots, journal, dataVars, reviving>>

(* Defect: the archive is extracted over the files that are there. *)
DefectEraseData ==
  /\ At("erase")
  /\ Goto("extract")
  /\ UNCHANGED <<slots, staged, journal, dataVars, dshVars, boot, used>>

(* Defect: a directory that is empty is taken for one already restored. *)
DefectEmptyData ==
  /\ At("erase")
  /\ data' = {}
  /\ Goto(IF data = {} THEN "finish" ELSE "extract")
  /\ UNCHANGED <<slots, staged, journal, snapshots, dshVars, boot, used>>

(* PersistentStateSnapshots.restore: the data are erased, then extracted.   *)
EraseData ==
  /\ At("erase")
  /\ \/ /\ snapshots[journal.snapshot] # {}
        /\ data' = {}
        /\ Goto("extract")
        /\ UNCHANGED <<boot, used>>
     \/ /\ snapshots[journal.snapshot] = {} \/ "restore-fails" \in Events
        /\ Fails
        /\ UNCHANGED data
  /\ UNCHANGED <<slots, staged, journal, snapshots, dshVars>>

ExtractData ==
  /\ At("extract")
  /\ \/ /\ data' = data \union snapshots[journal.snapshot]
        /\ Goto(IF task.who = "boot" THEN "finish" ELSE "resume")
        /\ UNCHANGED <<boot, used>>
     \/ /\ "restore-fails" \in Events
        /\ Fails
        /\ UNCHANGED data
  /\ UNCHANGED <<slots, staged, journal, snapshots, dshVars>>

ResumeDsh ==
  /\ At("resume")
  /\ \/ /\ dsh' \in Resumed
        /\ Goto(IF task.who = "update" THEN "verify" ELSE "finish")
        /\ UNCHANGED <<boot, used>>
     \/ /\ ~DshRuns
        /\ "restore-fails" \in Events
        /\ Fails
        /\ UNCHANGED dsh
  /\ UNCHANGED <<slots, staged, journal, dataVars, reviving>>

VerifyHealth ==
  /\ At("verify")
  /\ \/ DshRuns /\ Goto("finish") /\ UNCHANGED <<boot, used>>
     \/ (~DshRuns \/ "unhealthy-restore" \in Events) /\ Fails
  /\ UNCHANGED <<slots, staged, journal, dataVars, dshVars>>

(* Defect: the end of the restoration is not recorded. *)
DefectFinishRestore ==
  /\ At("finish")
  /\ task' = Idle
  /\ boot' = IF task.who = "boot" THEN "start" ELSE boot
  /\ UNCHANGED <<slots, staged, journal, dataVars, dshVars, used>>

FinishRestore ==
  /\ At("finish")
  /\ Transition("rolled-back")
  /\ task' = Idle
  /\ boot' = IF task.who = "boot" THEN "start" ELSE boot
  /\ UNCHANGED <<slots, staged, dataVars, dshVars, used>>

-----------------------------------------------------------------------------
(* CompleteStateRecovery: while the slots still hold the Deployments of a     *)
(* committed transaction the plan includes its snapshot, otherwise it is     *)
(* the other slot alone.                                                    *)
Committed == journal.phase = "committed" /\ slots.current = journal.to

BeginRollback ==
  /\ Resting
  /\ used.rollbacks < MaxRollbacks
  /\ Spend("rollbacks")
  /\ \/ /\ Committed
        /\ Matches(slots.previous, journal.from)
        /\ snapshots[journal.snapshot] # {}
        /\ Transition("restoring-data")
        /\ Begin("rollback", "stop", NoRecord, 0)
     \/ /\ ~Committed
        /\ slots.previous # NoRecord
        /\ ~Matches(slots.previous, slots.current)
        /\ Begin("switch", "switch", slots.previous, 0)
        /\ UNCHANGED journal
  /\ UNCHANGED <<slots, staged, dataVars, dshVars, boot>>

(* run: a Stable update does not look at the journal.                       *)
BeginStable ==
  /\ Resting
  /\ used.stable < MaxStable
  /\ Spend("stable")
  /\ slots' = Slots(Copy[slots.current], slots.previous)
  /\ Begin("switch", "switch", Target[used.stable + 1], 0)
  /\ UNCHANGED <<staged, journal, dataVars, dshVars, boot>>

(* activateManaged and rollback: DSH starts from the target, or from the     *)
(* current Deployment again when the target is not healthy.                 *)
SwitchDeployment ==
  /\ At("switch")
  /\ \/ /\ staged' = task.target
        /\ dsh' = Started(task.target)
        /\ Goto("accept")
        /\ UNCHANGED <<boot, used>>
     \/ /\ dsh' = Started(slots.current)
        /\ Fails
        /\ UNCHANGED staged
  /\ UNCHANGED <<slots, journal, dataVars, reviving>>

AcceptDeployment ==
  /\ At("accept")
  /\ slots' = Slots(task.target, slots.current)
  /\ staged' = NoRecord
  /\ task' = IF task.who = "switch" THEN Idle ELSE [task EXCEPT !.step = "erase"]
  /\ UNCHANGED <<journal, dataVars, dshVars, boot, used>>

-----------------------------------------------------------------------------
UpdaterNext ==
  \/ RecordPhase \/ SuspendDsh \/ CreateSnapshot \/ BindSnapshot \/ StageCandidate
  \/ Observe \/ CommitCandidate \/ Cleanup
  \/ Undo \/ Abandon \/ Fail \/ StopDsh \/ RestoreDeployment \/ EraseData \/ ExtractData
  \/ ResumeDsh \/ VerifyHealth \/ FinishRestore \/ SwitchDeployment \/ AcceptDeployment

BootstrapNext == BootstrapStarts \/ RecoverInterruptedUpdate \/ StartDeployment \/ Revive

UserNext == DshWrites \/ UserStops \/ UserStarts \/ BeginUpdate \/ BeginRollback \/ BeginStable

Next == UpdaterNext \/ BootstrapNext \/ UserNext \/ DshExits \/ Crash

Spec == Init /\ [][Next]_vars

(* Both programs carry on with what they have begun.                        *)
FairSpec == Spec /\ WF_vars(UpdaterNext) /\ WF_vars(BootstrapNext)

-----------------------------------------------------------------------------
(* What DataGuarded and CompleteUpdate say holds until there is a Stable     *)
(* update or a rollback, which do not look at the data or start DSH before  *)
(* they are restored, and until something is amiss: the container is lost   *)
(* between the commit and its being journaled, or the commit fails when the *)
(* slots are written; DSH is revived in the middle of a transaction; a      *)
(* start falls back to the previous Deployment, or the restoration of a     *)
(* failed update fails itself.                                              *)
Undisturbed == used.stable = 0 /\ used.rollbacks = 0 /\ used.amiss = "no"

(* The Updater builds a candidate only from a newer DSH than there is.       *)
Upgrades ==
  /\ \A r \in Record : DshVersion[Copy[r]] = DshVersion[r]
  /\ \A n \in 1..MaxUpdates : DshVersion[Base] <= DshVersion[Candidate[n]]
  /\ \A m, n \in 1..MaxUpdates : m < n => DshVersion[Candidate[m]] <= DshVersion[Candidate[n]]

(* DSH is never started on data that a newer DSH has written, nor on data    *)
(* that are not there.                                                      *)
NoDowngrade ==
  DshRuns => /\ dsh.read # {}
             /\ \A r \in dsh.read : DshVersion[r] <= DshVersion[dsh.record]

(* While its data are archived, erased and extracted DSH does not run.      *)
QuietSnapshot == task.step \in {"archive", "erase", "extract"} => ~DshRuns

(* The data are never worked on by a DSH that they are too new for, nor      *)
(* while they are copied or replaced, wherever Experimental updates are      *)
(* interrupted and whenever DSH exits.                                      *)
DataGuarded == Undisturbed => NoDowngrade /\ QuietSnapshot

(* Whenever a transaction must be undone its snapshot is there, and the      *)
(* slots still hold the Deployment to return to.                            *)
RestorationResumable ==
  journal.phase \in AfterSnapshot =>
    /\ snapshots[journal.snapshot] # {}
    /\ \E r \in {slots.current, slots.previous} : Matches(r, journal.from)

(* A transaction ends rolled back only with the Deployment it began from     *)
(* and with everything that was archived, whatever interrupted the           *)
(* restoration and whoever completed it.                                    *)
RestoredCompletely ==
  [][journal.phase # "rolled-back" /\ journal'.phase = "rolled-back" =>
       /\ Matches(slots.current, journal.from)
       /\ snapshots[journal.snapshot] \subseteq data]_vars

(* A restoration takes away nothing but the work of its own transaction: no  *)
(* DSH of a Deployment installed later has worked on the data by then.      *)
RestoresOwnWork ==
  At("erase") => data \subseteq snapshots[journal.snapshot]
                                \union {Copy[journal.from], journal.to}

(* No complete rollback, no exit of DSH, and nothing fails but for a lost    *)
(* container, at the last moment too.                                       *)
Unfailing == MaxRollbacks = 0 /\ MaxExits = 0 /\ Events = {}

(* An update can be undone for as long as it may have to be, with complete   *)
(* rollbacks and exits of DSH at any moment, until there is a Stable update. *)
(* Undoing it then takes away nothing of that one, when nothing interrupts   *)
(* a restoration but the loss of the container.                              *)
RestorationsHold ==
  /\ used.stable = 0 => RestorationResumable
  /\ used.stable # 0 /\ Unfailing => RestoresOwnWork

(* Every transaction ends.                                                  *)
Settles == journal.phase \notin Terminal ~> journal.phase \in Terminal

Undoing == journal.phase \in AfterSnapshot

Complete == INSTANCE CompleteState WITH
  deployment <- Copy[IF Undoing THEN journal.from ELSE slots.current],
  data <- IF Undoing THEN snapshots[journal.snapshot] ELSE data

(* The Deployment and the data change together or not at all.               *)
CompleteUpdate ==
  Complete!Init /\ [][Undisturbed' => [Complete!Next]_(Complete!vars)]_vars
=============================================================================
