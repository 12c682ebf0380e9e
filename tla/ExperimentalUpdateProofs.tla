---------------------- MODULE ExperimentalUpdateProofs ----------------------
(***************************************************************************)
(* Proofs about ExperimentalUpdate, for every set of Deployments, any      *)
(* number of transactions, updates and rollbacks, and every event.         *)
(***************************************************************************)
EXTENDS ExperimentalUpdate, UpdateCoordinator, DshPage, TLAPS

-----------------------------------------------------------------------------
(* Where the task is: the transaction before its snapshot has a name, the   *)
(* steps that use the target, and the parts of a restoration.               *)
Preparing == task.step \in {"ready", "suspend", "suspended", "archive", "bind"}
Switching == Preparing \/ task.step \in {"stage", "switched", "probation", "observe",
                                         "commit", "switch", "accept"}
Returning == task.step = "accept" /\ task.who # "switch"
InPlace == task.step \in {"erase", "extract", "resume", "verify", "finish"}
Extracted == task.step \in {"resume", "verify", "finish"}
RestoringTask == Returning \/ InPlace \/ task.step \in {"stop", "restore"}

(* The task and the journal agree on what is being done.                    *)
TaskInv ==
  /\ boot \in {"down", "start"} => task = Idle
  /\ Preparing => used.updates # 0
  /\ Switching => task.target \in Record
  /\ task.step = "switch" => task.who = "switch"
  /\ task.who = "switch" => task.step \in {"switch", "accept"}
  /\ RestoringTask => journal.phase = "restoring-data"
  /\ journal.phase = "committed" => journal.snapshot # 0

(* What a restoration has established by the step it has reached.           *)
RestoreInv ==
  /\ Returning => Matches(task.target, journal.from)
  /\ InPlace => Matches(slots.current, journal.from)
  /\ Extracted => snapshots[journal.snapshot] \subseteq data

Inv == TypeOK /\ TaskInv /\ RestoreInv
-----------------------------------------------------------------------------
(* The operators the actions are built from. *)

(* The step of the task changes and nothing else of it. *)
LEMMA GotoStep ==
  ASSUME task \in Task, NEW step \in Step, Goto(step)
  PROVE  /\ task' \in Task
         /\ task'.step = step /\ task'.who = task.who
         /\ task'.target = task.target /\ task'.obsolete = task.obsolete
BY DEF Goto, Task

(* A new task is what Begin says. *)
LEMMA NewTask ==
  ASSUME NEW who \in Who, NEW step \in Step, NEW target \in Record \union {NoRecord},
         NEW obsolete \in 0..MaxUpdates, Begin(who, step, target, obsolete)
  PROVE  /\ task' \in Task
         /\ task'.step = step /\ task'.who = who
         /\ task'.target = target /\ task'.obsolete = obsolete
BY DEF Begin, Task

(* Without a task no step is being done. *)
LEMMA IdleTask ==
  /\ Idle \in Task
  /\ Idle.step = "idle" /\ Idle.who = "nobody"
BY UpdateAssumption DEF Idle, Task, Who, Step

(* A transition changes the phase of the journal alone, and it follows the  *)
(* table.                                                                   *)
LEMMA TransitionStep ==
  ASSUME journal \in Journal, NEW phase, Transition(phase)
  PROVE  /\ journal' \in Journal
         /\ journal'.phase = phase /\ journal'.snapshot = journal.snapshot
         /\ journal'.from = journal.from /\ journal'.to = journal.to
         /\ phase = "failed" => journal.phase # "committed"
         /\ phase \in AfterSnapshot \ {"snapshot-created"} =>
              journal.phase \in AfterSnapshot \union {"committed"}
         /\ phase = "snapshot-created" => journal.phase = "suspended"
         /\ phase = "committed" => journal.phase \in AfterSnapshot
         /\ phase = "rolled-back" => journal.phase = "restoring-data"
<1>1. journal.phase \in BeforeSwitch \union AfterSnapshot \union Terminal
  BY DEF Journal
<1>2. phase \in BeforeSwitch \union AfterSnapshot \union Terminal
  BY <1>1 DEF Transition, Transitions, BeforeSwitch, AfterSnapshot, Terminal
<1>3. journal' = [journal EXCEPT !.phase = phase]
  BY DEF Transition
<1>4. phase \in Transitions[journal.phase]
  BY DEF Transition
<1>5. /\ phase = "failed" => journal.phase # "committed"
      /\ phase \in AfterSnapshot \ {"snapshot-created"} =>
           journal.phase \in AfterSnapshot \union {"committed"}
      /\ phase = "snapshot-created" => journal.phase = "suspended"
      /\ phase = "committed" => journal.phase \in AfterSnapshot
      /\ phase = "rolled-back" => journal.phase = "restoring-data"
  BY <1>1, <1>4 DEF Transitions, BeforeSwitch, AfterSnapshot, Terminal
<1> QED
  BY <1>2, <1>3, <1>5 DEF Journal

(* The slots of a Record and what was in the first of them are slots. *)
LEMMA SlotsType ==
  ASSUME NEW current \in Record, NEW former \in Record \union {NoRecord}
  PROVE  /\ Slots(current, former) \in [current : Record, previous : Record \union {NoRecord}]
         /\ Slots(current, former).current = current
BY DEF Slots

(* A DSH that is started from a Record reads the data there are. *)
LEMMA StartedType ==
  ASSUME NEW r \in Record, data \in SUBSET Record
  PROVE  Started(r) \in [record : Record, read : SUBSET Record]
BY UpdateAssumption DEF Started

(* The view points at a Record. *)
LEMMA ViewType ==
  ASSUME TypeOK
  PROVE  View \in Record
BY DEF TypeOK, View

(* The bounds are numbers. *)
LEMMA Bounds ==
  MaxUpdates \in Nat /\ MaxStable \in Nat /\ MaxRollbacks \in Nat
    /\ MaxCrashes \in Nat /\ MaxExits \in Nat
BY UpdateAssumption

(* What is counted stays within its bound when it is below before.          *)
LEMMA SpendOne ==
  ASSUME used \in Used
  PROVE  /\ used.updates < MaxUpdates /\ Spend("updates") =>
              used' \in Used /\ used'.updates # 0
         /\ used.stable < MaxStable /\ Spend("stable") =>
              used' \in Used /\ used'.updates = used.updates
         /\ used.rollbacks < MaxRollbacks /\ Spend("rollbacks") =>
              used' \in Used /\ used'.updates = used.updates
         /\ used.crashes < MaxCrashes /\ Spend("crashes") =>
              used' \in Used /\ used'.updates = used.updates
         /\ used.exits < MaxExits /\ Spend("exits") =>
              used' \in Used /\ used'.updates = used.updates
<1>1. ASSUME used.updates < MaxUpdates, Spend("updates")
      PROVE  used' \in Used /\ used'.updates # 0
  <2>1. used.updates \in 0..MaxUpdates /\ used.updates \in 0..MaxUpdates
    BY DEF Used
  <2>2. used.updates + 1 \in 0..MaxUpdates /\ used.updates + 1 # 0
    BY <2>1, <1>1, Bounds
  <2>3. used' = [used EXCEPT !.updates = used.updates + 1]
    BY <1>1 DEF Spend
  <2> QED
    BY <2>2, <2>3 DEF Used
<1>2. ASSUME used.stable < MaxStable, Spend("stable")
      PROVE  used' \in Used /\ used'.updates = used.updates
  <2>1. used.stable \in 0..MaxStable /\ used.updates \in 0..MaxUpdates
    BY DEF Used
  <2>2. used.stable + 1 \in 0..MaxStable /\ used.updates + 1 # 0
    BY <2>1, <1>2, Bounds
  <2>3. used' = [used EXCEPT !.stable = used.stable + 1]
    BY <1>2 DEF Spend
  <2> QED
    BY <2>2, <2>3 DEF Used
<1>3. ASSUME used.rollbacks < MaxRollbacks, Spend("rollbacks")
      PROVE  used' \in Used /\ used'.updates = used.updates
  <2>1. used.rollbacks \in 0..MaxRollbacks /\ used.updates \in 0..MaxUpdates
    BY DEF Used
  <2>2. used.rollbacks + 1 \in 0..MaxRollbacks /\ used.updates + 1 # 0
    BY <2>1, <1>3, Bounds
  <2>3. used' = [used EXCEPT !.rollbacks = used.rollbacks + 1]
    BY <1>3 DEF Spend
  <2> QED
    BY <2>2, <2>3 DEF Used
<1>4. ASSUME used.crashes < MaxCrashes, Spend("crashes")
      PROVE  used' \in Used /\ used'.updates = used.updates
  <2>1. used.crashes \in 0..MaxCrashes /\ used.updates \in 0..MaxUpdates
    BY DEF Used
  <2>2. used.crashes + 1 \in 0..MaxCrashes /\ used.updates + 1 # 0
    BY <2>1, <1>4, Bounds
  <2>3. used' = [used EXCEPT !.crashes = used.crashes + 1]
    BY <1>4 DEF Spend
  <2> QED
    BY <2>2, <2>3 DEF Used
<1>5. ASSUME used.exits < MaxExits, Spend("exits")
      PROVE  used' \in Used /\ used'.updates = used.updates
  <2>1. used.exits \in 0..MaxExits /\ used.updates \in 0..MaxUpdates
    BY DEF Used
  <2>2. used.exits + 1 \in 0..MaxExits /\ used.updates + 1 # 0
    BY <2>1, <1>5, Bounds
  <2>3. used' = [used EXCEPT !.exits = used.exits + 1]
    BY <1>5 DEF Spend
  <2> QED
    BY <2>2, <2>3 DEF Used
<1> QED
  BY <1>1, <1>2, <1>3, <1>4, <1>5

(* What is amiss is remembered, and no more is used. *)
LEMMA Missed ==
  ASSUME used \in Used, used' \in {used, [used EXCEPT !.amiss = "yes"]}
  PROVE  used' \in Used /\ used'.updates = used.updates /\ used'.stable = used.stable
BY DEF Used

-----------------------------------------------------------------------------
(* What keeps the invariant: a step that leaves the task alone, ... *)
LEMMA KeepsTask ==
  ASSUME Inv, TypeOK', UNCHANGED <<slots, journal, snapshots, task>>,
         data \subseteq data', used'.updates = used.updates,
         boot' \in {"down", "start"} => boot \in {"down", "start"}
  PROVE  Inv'
<1>1. TaskInv'
  BY DEF Inv, TaskInv, Preparing, Switching, RestoringTask, Returning, InPlace
<1>2. RestoreInv'
  <2>1. Matches(task.target, journal.from)' <=> Matches(task.target, journal.from)
    BY DEF Matches
  <2>2. Matches(slots.current, journal.from)' <=> Matches(slots.current, journal.from)
    BY DEF Matches
  <2> QED
    BY <2>1, <2>2 DEF Inv, RestoreInv, Returning, InPlace, Extracted
<1> QED
  BY <1>1, <1>2 DEF Inv

(* ... one that ends it, ... *)
LEMMA EndsTask ==
  ASSUME TypeOK', task' = Idle, journal'.phase = "committed" => journal'.snapshot # 0
  PROVE  Inv'
<1>1. TaskInv'
  BY IdleTask DEF TaskInv, Preparing, Switching, RestoringTask, Returning, InPlace
<1>2. RestoreInv'
  BY IdleTask DEF RestoreInv, Returning, InPlace, Extracted
<1> QED
  BY <1>1, <1>2 DEF Inv

(* ... and one after which the transaction has neither begun to restore nor *)
(* still has its snapshot to name. *)
LEMMA Advances ==
  ASSUME Inv, TypeOK', task.step # "idle", UNCHANGED boot, ~RestoringTask',
         Preparing' => Preparing /\ used'.updates = used.updates,
         Switching' => Switching /\ UNCHANGED task.target,
         task'.step # "switch", task'.who = "switch" => task'.step = "accept",
         journal'.phase = "committed" => journal'.snapshot # 0
  PROVE  Inv'
<1>1. TaskInv'
  BY IdleTask DEF Inv, TaskInv
<1>2. RestoreInv'
  BY DEF RestoreInv, RestoringTask, InPlace, Extracted
<1> QED
  BY <1>1, <1>2 DEF Inv

(* The restoration is recorded as begun, whether or not it was before.      *)
LEMMA RestoringStep ==
  ASSUME TypeOK, Restoring
  PROVE  /\ journal' \in Journal
         /\ journal'.phase = "restoring-data"
         /\ journal'.from = journal.from /\ journal'.snapshot = journal.snapshot
<1>1. CASE journal.phase = "restoring-data"
  BY <1>1 DEF Restoring, TypeOK
<1>2. CASE journal.phase # "restoring-data"
  BY <1>2, TransitionStep DEF Restoring, TypeOK
<1> QED
  BY <1>1, <1>2

(* DSH writes what it read and its own mark. *)
LEMMA DshWritesInv ==
  ASSUME Inv, DshWrites
  PROVE  Inv'
<1>1. data' \in SUBSET Record /\ data \subseteq data'
  BY DEF DshWrites, DshRuns, NoDsh, Inv, TypeOK
<1>2. UNCHANGED <<slots, staged, journal, snapshots, dsh, reviving, boot, task, used>>
  BY DEF DshWrites, dataVars, dshVars
<1>3. TypeOK'
  BY <1>1, <1>2 DEF Inv, TypeOK
<1> QED
  BY <1>1, <1>2, <1>3, KeepsTask

(* DSH stops. *)
LEMMA UserStopsInv ==
  ASSUME Inv, UserStops
  PROVE  Inv'
<1>1. dsh' \in {NoDsh} \union [record : Record, read : SUBSET Record]
  BY DEF UserStops
<1>2. UNCHANGED <<slots, staged, journal, snapshots, data, reviving, boot, task, used>>
  BY DEF UserStops, dataVars, dshVars
<1>3. TypeOK'
  BY <1>1, <1>2 DEF Inv, TypeOK
<1> QED
  BY <1>1, <1>2, <1>3, KeepsTask

(* DSH is started. *)
LEMMA UserStartsInv ==
  ASSUME Inv, UserStarts
  PROVE  Inv'
<1>1. dsh' \in {NoDsh} \union [record : Record, read : SUBSET Record]
  BY ViewType, StartedType DEF UserStarts, Inv, TypeOK
<1>2. UNCHANGED <<slots, staged, journal, snapshots, data, reviving, boot, task, used>>
  BY DEF UserStarts, dataVars, dshVars
<1>3. TypeOK'
  BY <1>1, <1>2 DEF Inv, TypeOK
<1> QED
  BY <1>1, <1>2, <1>3, KeepsTask

(* DSH exits. *)
LEMMA DshExitsInv ==
  ASSUME Inv, DshExits
  PROVE  Inv'
<1>1. dsh' \in {NoDsh} \union [record : Record, read : SUBSET Record]
  BY DEF DshExits
<1>2. reviving' \in BOOLEAN
  BY DEF DshExits
<1>3. used' \in Used
     /\ used'.updates = used.updates
  BY SpendOne DEF DshExits, Inv, TypeOK
<1>4. UNCHANGED <<slots, staged, journal, snapshots, data, boot, task>>
  BY DEF DshExits, dataVars, dshVars
<1>5. TypeOK'
  BY <1>1, <1>2, <1>3, <1>4 DEF Inv, TypeOK
<1> QED
  BY <1>1, <1>2, <1>3, <1>4, <1>5, KeepsTask

(* DSH is revived or left alone. *)
LEMMA ReviveInv ==
  ASSUME Inv, Revive
  PROVE  Inv'
<1>1. dsh' \in {NoDsh} \union [record : Record, read : SUBSET Record]
  BY ViewType, StartedType DEF Revive, Inv, TypeOK
<1>2. reviving' \in BOOLEAN
  BY DEF Revive
<1>3. /\ UNCHANGED <<slots, staged, journal, snapshots, data, boot, task>>
      /\ used' \in {used, [used EXCEPT !.amiss = "yes"]}
  BY DEF Revive, dataVars, dshVars
<1>5. used' \in Used /\ used'.updates = used.updates
  BY <1>3, Missed DEF Inv, TypeOK
<1>4. TypeOK'
  BY <1>1, <1>2, <1>3, <1>5 DEF Inv, TypeOK
<1> QED
  BY <1>1, <1>2, <1>3, <1>4, <1>5, KeepsTask

(* Bootstrap ends the activation it finds. *)
LEMMA BootstrapStartsInv ==
  ASSUME Inv, BootstrapStarts
  PROVE  Inv'
<1>1. staged' = NoRecord /\ boot' = "recover"
  BY DEF BootstrapStarts
<1>2. UNCHANGED <<slots, journal, snapshots, data, dsh, reviving, task, used>>
  BY DEF BootstrapStarts, dataVars, dshVars
<1>3. TypeOK'
  BY <1>1, <1>2 DEF Inv, TypeOK
<1> QED
  BY <1>1, <1>2, <1>3, KeepsTask

(* The suspension of DSH. *)
LEMMA SuspendDshInv ==
  ASSUME Inv, SuspendDsh
  PROVE  Inv'
<1>1. /\ task' \in Task
      /\ task'.step \in {"suspended", "undo"}
      /\ task'.who = task.who /\ task'.target = task.target
      /\ task.step = "suspend"
  <2>1. task \in Task /\ "suspended" \in Step /\ "undo" \in Step
    BY DEF Inv, TypeOK, Step
  <2> QED
    BY <2>1, GotoStep DEF SuspendDsh, At
<1>2. dsh' \in {NoDsh} \union [record : Record, read : SUBSET Record]
  BY DEF SuspendDsh, Inv, TypeOK
<1>3. UNCHANGED <<slots, staged, journal, snapshots, data, reviving, boot, used>>
  BY DEF SuspendDsh, dataVars, dshVars
<1>4. TypeOK'
  BY <1>1, <1>2, <1>3 DEF Inv, TypeOK
<1> QED
  BY <1>1, <1>2, <1>3, <1>4, Advances
     DEF Inv, TaskInv, Preparing, Switching, RestoringTask, Returning, InPlace

(* The archive. *)
LEMMA CreateSnapshotInv ==
  ASSUME Inv, CreateSnapshot
  PROVE  Inv'
<1>1. /\ task' \in Task
      /\ task'.step \in {"bind", "undo"}
      /\ task'.who = task.who /\ task'.target = task.target
      /\ task.step = "archive"
  <2>1. task \in Task /\ "bind" \in Step /\ "undo" \in Step
    BY DEF Inv, TypeOK, Step
  <2> QED
    BY <2>1, GotoStep DEF CreateSnapshot, At
<1>2. snapshots' \in [1..MaxUpdates -> SUBSET Record]
  BY DEF CreateSnapshot, Inv, TypeOK
<1>3. UNCHANGED <<slots, staged, journal, data, dsh, reviving, boot, used>>
  BY DEF CreateSnapshot, dataVars, dshVars
<1>4. TypeOK'
  BY <1>1, <1>2, <1>3 DEF Inv, TypeOK
<1> QED
  BY <1>1, <1>2, <1>3, <1>4, Advances
     DEF Inv, TaskInv, Preparing, Switching, RestoringTask, Returning, InPlace

(* The snapshot gets its name. *)
LEMMA BindSnapshotInv ==
  ASSUME Inv, BindSnapshot
  PROVE  Inv'
<1>1. /\ task' \in Task
      /\ task'.step = "stage"
      /\ task'.who = task.who /\ task'.target = task.target
      /\ task.step = "bind"
  <2>1. task \in Task /\ "stage" \in Step
    BY DEF Inv, TypeOK, Step
  <2> QED
    BY <2>1, GotoStep DEF BindSnapshot, At
<1>2. journal' \in Journal /\ journal'.snapshot # 0 /\ journal'.phase # "committed"
  <2>1. used.updates \in 0..MaxUpdates /\ used.updates # 0
    BY DEF BindSnapshot, Inv, TypeOK, Used, TaskInv, Preparing, At
  <2>2. journal' = [journal EXCEPT !.phase = "snapshot-created", !.snapshot = used.updates]
    BY DEF BindSnapshot
  <2>3. journal \in Journal
    BY DEF Inv, TypeOK
  <2> QED
    BY <2>1, <2>2, <2>3 DEF Journal, AfterSnapshot
<1>3. UNCHANGED <<slots, staged, snapshots, data, dsh, reviving, boot, used>>
  BY DEF BindSnapshot, dataVars, dshVars
<1>4. TypeOK'
  BY <1>1, <1>2, <1>3 DEF Inv, TypeOK
<1> QED
  BY <1>1, <1>2, <1>3, <1>4, Advances
     DEF Inv, TaskInv, Preparing, Switching, RestoringTask, Returning, InPlace

(* The candidate is started. *)
LEMMA StageCandidateInv ==
  ASSUME Inv, StageCandidate
  PROVE  Inv'
<1>1. /\ task' \in Task
      /\ task'.step \in {"switched", "undo"}
      /\ task'.who = task.who /\ task'.target = task.target
      /\ task.step = "stage"
  <2>1. task \in Task /\ "switched" \in Step /\ "undo" \in Step
    BY DEF Inv, TypeOK, Step
  <2> QED
    BY <2>1, GotoStep DEF StageCandidate, At
<1>2. slots' \in [current : Record, previous : Record \union {NoRecord}]
  BY SlotsType, UpdateAssumption DEF StageCandidate, Inv, TypeOK
<1>3. task.target \in Record
  BY DEF Inv, TaskInv, Switching, StageCandidate, At
<1>4. staged' \in Record \union {NoRecord}
  BY <1>3 DEF StageCandidate, Inv, TypeOK
<1>5. dsh' \in {NoDsh} \union [record : Record, read : SUBSET Record]
  BY <1>3, StartedType DEF StageCandidate, Inv, TypeOK
<1>6. UNCHANGED <<journal, snapshots, data, reviving, boot, used>>
  BY DEF StageCandidate, dataVars, dshVars
<1>7. TypeOK'
  BY <1>1, <1>2, <1>3, <1>4, <1>5, <1>6 DEF Inv, TypeOK
<1> QED
  BY <1>1, <1>2, <1>3, <1>4, <1>5, <1>6, <1>7, Advances
     DEF Inv, TaskInv, Preparing, Switching, RestoringTask, Returning, InPlace

(* The probation. *)
LEMMA ObserveInv ==
  ASSUME Inv, Observe
  PROVE  Inv'
<1>1. /\ task' \in Task
      /\ task'.step \in {"commit", "undo"}
      /\ task'.who = task.who /\ task'.target = task.target
      /\ task.step = "observe"
  <2>1. task \in Task /\ "commit" \in Step /\ "undo" \in Step
    BY DEF Inv, TypeOK, Step
  <2> QED
    BY <2>1, GotoStep DEF Observe, At
<1>2. UNCHANGED <<slots, staged, journal, snapshots, data, dsh, reviving, boot, used>>
  BY DEF Observe, dataVars, dshVars
<1>3. TypeOK'
  BY <1>1, <1>2 DEF Inv, TypeOK
<1> QED
  BY <1>1, <1>2, <1>3, Advances
     DEF Inv, TaskInv, Preparing, Switching, RestoringTask, Returning, InPlace

(* The commit. *)
LEMMA CommitCandidateInv ==
  ASSUME Inv, CommitCandidate
  PROVE  Inv'
<1>1. /\ task' \in Task
      /\ task'.step \in {"committed", "undo"}
      /\ task'.who = task.who /\ task'.target = task.target
      /\ task.step = "commit"
  <2>1. task \in Task /\ "committed" \in Step /\ "undo" \in Step
    BY DEF Inv, TypeOK, Step
  <2> QED
    BY <2>1, GotoStep DEF CommitCandidate, At
<1>2. slots' \in [current : Record, previous : Record \union {NoRecord}]
      /\ staged' \in Record \union {NoRecord}
  BY SlotsType DEF CommitCandidate, Inv, TypeOK, TaskInv, Switching, At
<1>3. /\ UNCHANGED <<journal, snapshots, data, dsh, reviving, boot>>
      /\ used' \in {used, [used EXCEPT !.amiss = "yes"]}
  BY DEF CommitCandidate, dataVars, dshVars
<1>5. used' \in Used /\ used'.updates = used.updates
  BY <1>3, Missed DEF Inv, TypeOK
<1>4. TypeOK'
  BY <1>1, <1>2, <1>3, <1>5 DEF Inv, TypeOK
<1> QED
  BY <1>1, <1>2, <1>3, <1>4, <1>5, Advances
     DEF Inv, TaskInv, Preparing, Switching, RestoringTask, Returning, InPlace

(* DSH is started again without a restoration. *)
LEMMA AbandonInv ==
  ASSUME Inv, Abandon
  PROVE  Inv'
<1>1. /\ task' \in Task
      /\ task'.step = "fail"
      /\ task'.who = task.who /\ task'.target = task.target
      /\ task.step = "abandon"
  <2>1. task \in Task /\ "fail" \in Step
    BY DEF Inv, TypeOK, Step
  <2> QED
    BY <2>1, GotoStep DEF Abandon, At
<1>2. dsh' \in {NoDsh} \union [record : Record, read : SUBSET Record]
  BY ViewType, StartedType DEF Abandon, Resumed, Inv, TypeOK
<1>3. UNCHANGED <<slots, staged, journal, snapshots, data, reviving, boot, used>>
  BY DEF Abandon, dataVars, dshVars
<1>4. TypeOK'
  BY <1>1, <1>2, <1>3 DEF Inv, TypeOK
<1> QED
  BY <1>1, <1>2, <1>3, <1>4, Advances
     DEF Inv, TaskInv, Preparing, Switching, RestoringTask, Returning, InPlace

(* The container is lost. *)
LEMMA CrashInv ==
  ASSUME Inv, Crash
  PROVE  Inv'
<1>1. task' = Idle /\ boot' = "down" /\ dsh' = NoDsh /\ reviving' = FALSE
  BY DEF Crash
<1>2. used' \in Used
  <2>1. used.crashes + 1 \in 0..MaxCrashes
    BY Bounds DEF Crash, Inv, TypeOK, Used
  <2> QED
    BY <2>1 DEF Crash, Inv, TypeOK, Used
<1>3. UNCHANGED <<slots, staged, journal, snapshots, data>>
  BY DEF Crash, dataVars
<1>4. TypeOK'
  BY <1>1, <1>2, <1>3, IdleTask DEF Inv, TypeOK
<1> QED
  BY <1>1, <1>3, <1>4, EndsTask DEF Inv, TaskInv

(* The start-up ends, with another Deployment or not. *)
LEMMA StartDeploymentInv ==
  ASSUME Inv, StartDeployment
  PROVE  Inv'
<1>1. task' = Idle /\ boot' = "ready"
  BY DEF StartDeployment, Inv, TaskInv
<1>2. slots' \in [current : Record, previous : Record \union {NoRecord}]
  BY SlotsType DEF StartDeployment, Inv, TypeOK
<1>3. dsh' \in {NoDsh} \union [record : Record, read : SUBSET Record]
  BY StartedType DEF StartDeployment, Inv, TypeOK
<1>4. /\ UNCHANGED <<staged, journal, snapshots, data, reviving>>
      /\ used' \in {used, [used EXCEPT !.amiss = "yes"]}
  BY DEF StartDeployment, dataVars
<1>5. TypeOK'
  BY <1>1, <1>2, <1>3, <1>4, Missed, IdleTask DEF Inv, TypeOK
<1> QED
  BY <1>1, <1>4, <1>5, EndsTask DEF Inv, TaskInv

(* The end of a committed transaction. *)
LEMMA CleanupInv ==
  ASSUME Inv, Cleanup
  PROVE  Inv'
<1>1. task' = Idle
  BY DEF Cleanup, Done
<1>2. snapshots' \in [1..MaxUpdates -> SUBSET Record]
  BY DEF Cleanup, Inv, TypeOK
<1>3. UNCHANGED <<slots, staged, journal, data, dsh, reviving, boot, used>>
  BY DEF Cleanup, Done, dshVars
<1>4. TypeOK'
  BY <1>1, <1>2, <1>3, IdleTask DEF Inv, TypeOK
<1> QED
  BY <1>1, <1>3, <1>4, EndsTask DEF Inv, TaskInv

(* The end of a failed transaction. *)
LEMMA FailInv ==
  ASSUME Inv, Fail
  PROVE  Inv'
<1>1. task' = Idle
  BY DEF Fail, Done
<1>2. journal' \in Journal /\ journal'.phase = "failed"
  BY TransitionStep DEF Fail, Inv, TypeOK
<1>3. UNCHANGED <<slots, staged, snapshots, data, dsh, reviving, boot, used>>
  BY DEF Fail, Done, dataVars, dshVars
<1>4. TypeOK'
  BY <1>1, <1>2, <1>3, IdleTask DEF Inv, TypeOK, AfterSnapshot
<1> QED
  BY <1>1, <1>2, <1>4, EndsTask

(* The end of a restoration. *)
LEMMA FinishRestoreInv ==
  ASSUME Inv, FinishRestore
  PROVE  Inv'
<1>1. task' = Idle /\ boot' \in {boot, "start"}
  BY DEF FinishRestore
<1>2. journal' \in Journal /\ journal'.phase = "rolled-back"
  BY TransitionStep DEF FinishRestore, Inv, TypeOK
<1>3. UNCHANGED <<slots, staged, snapshots, data, dsh, reviving, used>>
  BY DEF FinishRestore, dataVars, dshVars
<1>4. TypeOK'
  BY <1>1, <1>2, <1>3, IdleTask DEF Inv, TypeOK, AfterSnapshot
<1> QED
  BY <1>1, <1>2, <1>4, EndsTask

(* The recovery of the start-up begins, or has nothing to restore. *)
LEMMA RecoverInterruptedUpdateInv ==
  ASSUME Inv, RecoverInterruptedUpdate
  PROVE  Inv'
<1>1. UNCHANGED <<slots, staged, snapshots, data, dsh, reviving, used>>
  BY DEF RecoverInterruptedUpdate, dataVars, dshVars
<1>2. CASE journal.phase \in Terminal /\ boot' = "start" /\ UNCHANGED <<journal, task>>
  <2>1. TypeOK'
    BY <1>1, <1>2 DEF Inv, TypeOK
  <2> QED
    BY <1>2, <2>1, EndsTask DEF RecoverInterruptedUpdate, Inv, TaskInv
<1>3. CASE Transition("failed") /\ boot' = "start" /\ UNCHANGED task
  <2>1. journal' \in Journal /\ journal'.phase = "failed"
    BY <1>3, TransitionStep DEF Inv, TypeOK
  <2>2. TypeOK'
    BY <1>1, <1>3, <2>1 DEF Inv, TypeOK, AfterSnapshot
  <2> QED
    BY <1>3, <2>1, <2>2, EndsTask DEF RecoverInterruptedUpdate
<1>4. CASE /\ journal.phase \in AfterSnapshot
           /\ Restoring
           /\ Begin("boot", "restore", NoRecord, 0)
           /\ UNCHANGED boot
  <2>1. /\ journal' \in Journal /\ journal'.phase = "restoring-data"
        /\ journal'.snapshot # 0
    BY <1>4, RestoringStep DEF Inv, TypeOK
  <2>2. /\ task' \in Task /\ task'.step = "restore" /\ task'.who = "boot"
        /\ boot = "recover"
    BY <1>4, NewTask, Bounds DEF Who, Step, RecoverInterruptedUpdate
  <2>3. TypeOK'
    BY <1>1, <1>4, <2>1, <2>2 DEF Inv, TypeOK
  <2>4. TaskInv'
    BY <1>4, <2>1, <2>2 DEF TaskInv, Preparing, Switching, RestoringTask, Returning, InPlace
  <2>5. RestoreInv'
    BY <2>2 DEF RestoreInv, Returning, InPlace, Extracted
  <2> QED
    BY <2>3, <2>4, <2>5 DEF Inv
<1> QED
  BY <1>2, <1>3, <1>4 DEF RecoverInterruptedUpdate

(* A transaction begins, or its failure is found at once. *)
LEMMA BeginUpdateInv ==
  ASSUME Inv, BeginUpdate
  PROVE  Inv'
<1> DEFINE to == Candidate[used.updates + 1]
<1>1. /\ to \in Record
      /\ used' \in Used
      /\ used'.updates # 0
  <2>1. used.updates \in 0..MaxUpdates /\ used.updates < MaxUpdates
    BY DEF BeginUpdate, Inv, TypeOK, Used
  <2>2. used.updates + 1 \in 1..MaxUpdates
    BY <2>1, Bounds
  <2>3. to \in Record
    BY <2>2, UpdateAssumption
  <2>4. used' \in Used /\ used'.updates # 0
    BY <2>1, SpendOne DEF BeginUpdate, Inv, TypeOK
  <2> QED
    BY <2>3, <2>4
<1>2. UNCHANGED <<slots, staged, snapshots, data, dsh, reviving, boot>> /\ boot = "ready"
  BY DEF BeginUpdate, Resting, dataVars, dshVars
<1>3. CASE /\ journal' = [phase |-> "planning", from |-> slots.current, to |-> to, snapshot |-> 0]
           /\ Begin("update", "ready", to, journal.snapshot)
  <2>1. journal' \in Journal /\ journal'.phase = "planning"
    BY <1>1, <1>3, Bounds DEF Journal, BeforeSwitch, Inv, TypeOK
  <2>2. /\ task' \in Task /\ task'.step = "ready" /\ task'.who = "update"
        /\ task'.target = to
    <3>1. journal.snapshot \in 0..MaxUpdates /\ "update" \in Who /\ "ready" \in Step
      BY DEF Inv, TypeOK, Journal, Who, Step
    <3> QED
      BY <1>1, <1>3, <3>1, NewTask
  <2>3. TypeOK'
    BY <1>1, <1>2, <2>1, <2>2 DEF Inv, TypeOK, AfterSnapshot
  <2>4. TaskInv'
    BY <1>1, <1>2, <2>1, <2>2 DEF TaskInv, Preparing, Switching, RestoringTask, Returning, InPlace
  <2>5. RestoreInv'
    BY <2>2 DEF RestoreInv, Returning, InPlace, Extracted
  <2> QED
    BY <2>3, <2>4, <2>5 DEF Inv
<1>4. CASE Begin("update", "undo", to, 0) /\ UNCHANGED journal
  <2>1. task' \in Task /\ task'.step = "undo" /\ task'.who = "update"
    BY <1>1, <1>4, NewTask, Bounds DEF Who, Step
  <2>2. TypeOK'
    BY <1>1, <1>2, <1>4, <2>1 DEF Inv, TypeOK
  <2>3. TaskInv'
    BY <1>2, <1>4, <2>1 DEF Inv, TaskInv, Preparing, Switching, RestoringTask, Returning, InPlace
  <2>4. RestoreInv'
    BY <2>1 DEF RestoreInv, Returning, InPlace, Extracted
  <2> QED
    BY <2>2, <2>3, <2>4 DEF Inv
<1> QED
  BY <1>3, <1>4 DEF BeginUpdate

(* A complete rollback begins, or a switch to the other slot. *)
LEMMA BeginRollbackInv ==
  ASSUME Inv, BeginRollback
  PROVE  Inv'
<1>1. used' \in Used
  BY SpendOne DEF BeginRollback, Inv, TypeOK
<1>2. UNCHANGED <<slots, staged, snapshots, data, dsh, reviving, boot>> /\ boot = "ready"
  BY DEF BeginRollback, Resting, dataVars, dshVars
<1>3. CASE /\ Committed
           /\ Transition("restoring-data")
           /\ Begin("rollback", "stop", NoRecord, 0)
  <2>1. /\ journal' \in Journal /\ journal'.phase = "restoring-data"
        /\ journal'.snapshot # 0
    BY <1>3, TransitionStep DEF Committed, Inv, TypeOK, TaskInv
  <2>2. task' \in Task /\ task'.step = "stop" /\ task'.who = "rollback"
    BY <1>3, NewTask, Bounds DEF Who, Step
  <2>3. TypeOK'
    BY <1>1, <1>2, <2>1, <2>2 DEF Inv, TypeOK
  <2>4. TaskInv'
    BY <1>2, <2>1, <2>2 DEF TaskInv, Preparing, Switching, RestoringTask, Returning, InPlace
  <2>5. RestoreInv'
    BY <2>2 DEF RestoreInv, Returning, InPlace, Extracted
  <2> QED
    BY <2>3, <2>4, <2>5 DEF Inv
<1>4. CASE /\ slots.previous # NoRecord
           /\ Begin("switch", "switch", slots.previous, 0)
           /\ UNCHANGED journal
  <2>1. slots.previous \in Record
    BY <1>4 DEF Inv, TypeOK
  <2>2. /\ task' \in Task /\ task'.step = "switch" /\ task'.who = "switch"
        /\ task'.target \in Record
    BY <1>4, <2>1, NewTask, Bounds DEF Who, Step
  <2>3. TypeOK'
    BY <1>1, <1>2, <1>4, <2>2 DEF Inv, TypeOK
  <2>4. TaskInv'
    BY <1>2, <1>4, <2>2 DEF Inv, TaskInv, Preparing, Switching, RestoringTask, Returning, InPlace
  <2>5. RestoreInv'
    BY <2>2 DEF RestoreInv, Returning, InPlace, Extracted
  <2> QED
    BY <2>3, <2>4, <2>5 DEF Inv
<1> QED
  BY <1>3, <1>4 DEF BeginRollback

(* A Stable update begins. *)
LEMMA BeginStableInv ==
  ASSUME Inv, BeginStable
  PROVE  Inv'
<1>1. used' \in Used
  BY SpendOne DEF BeginStable, Inv, TypeOK
<1>2. UNCHANGED <<staged, journal, snapshots, data, dsh, reviving, boot>> /\ boot = "ready"
  BY DEF BeginStable, Resting, dataVars, dshVars
<1>3. slots' \in [current : Record, previous : Record \union {NoRecord}]
  BY SlotsType, UpdateAssumption DEF BeginStable, Inv, TypeOK
<1>4. Target[used.stable + 1] \in Record
  <2>1. used.stable \in 0..MaxStable /\ used.stable < MaxStable
    BY DEF BeginStable, Inv, TypeOK, Used
  <2>2. used.stable + 1 \in 1..MaxStable
    BY <2>1, Bounds
  <2> QED
    BY <2>2, UpdateAssumption
<1>5. /\ task' \in Task /\ task'.step = "switch" /\ task'.who = "switch"
      /\ task'.target \in Record
  BY <1>4, NewTask, Bounds DEF BeginStable, Who, Step
<1>6. TypeOK'
  BY <1>1, <1>2, <1>3, <1>5 DEF Inv, TypeOK
<1>7. TaskInv'
  BY <1>2, <1>5 DEF Inv, TaskInv, Preparing, Switching, RestoringTask, Returning, InPlace
<1>8. RestoreInv'
  BY <1>5 DEF RestoreInv, Returning, InPlace, Extracted
<1> QED
  BY <1>6, <1>7, <1>8 DEF Inv

(* A step of a restoration, once it is recorded as begun. *)
LEMMA Restores ==
  ASSUME Inv, TypeOK', task.step # "idle", UNCHANGED boot, RestoringTask',
         journal'.phase = "restoring-data", journal'.snapshot # 0,
         task'.who # "switch", task'.step = "accept" => task'.target \in Record, RestoreInv'
  PROVE  Inv'
<1>1. TaskInv'
  BY IdleTask DEF Inv, TaskInv, Preparing, Switching, RestoringTask, Returning, InPlace
<1> QED
  BY <1>1 DEF Inv

(* What is known in a step of a restoration. *)
LEMMA InRestoration ==
  ASSUME Inv, RestoringTask
  PROVE  /\ journal.phase = "restoring-data"
         /\ journal.snapshot \in 1..MaxUpdates
         /\ snapshots[journal.snapshot] \in SUBSET Record
         /\ task.step # "idle" /\ task.who # "switch"
<1>1. journal.phase = "restoring-data" /\ task.step # "idle" /\ task.who # "switch"
  BY DEF Inv, TaskInv, RestoringTask, Returning, InPlace
<1>2. journal.snapshot # 0 /\ journal.snapshot \in 0..MaxUpdates
  BY <1>1 DEF Inv, TypeOK, AfterSnapshot, Journal
<1>3. journal.snapshot \in 1..MaxUpdates
  BY <1>2, Bounds
<1> QED
  BY <1>1, <1>3 DEF Inv, TypeOK

(* So it is when an operation fails. *)
LEMMA FailsUsed ==
  ASSUME TypeOK, Fails
  PROVE  used' \in Used /\ used'.updates = used.updates /\ used'.stable = used.stable
BY Missed DEF Fails, TypeOK

(* A task that fails, and the start-up with it. *)
LEMMA FailsInv ==
  ASSUME Inv, Fails, UNCHANGED <<staged, journal, snapshots, reviving>>,
         slots' = slots, data' \in SUBSET Record,
         dsh' \in {NoDsh} \union [record : Record, read : SUBSET Record]
  PROVE  Inv'
<1>1. task' = Idle /\ boot' \in {boot, "down"}
  BY DEF Fails
<1>2. TypeOK'
  BY <1>1, FailsUsed, IdleTask DEF Inv, TypeOK
<1> QED
  BY <1>1, <1>2, EndsTask DEF Inv, TaskInv

(* The journal follows the transaction. *)
LEMMA RecordedInv ==
  ASSUME Inv, NEW step, NEW phase, NEW next \in Step, Recorded(step, phase, next),
         UNCHANGED <<slots, staged, dataVars, dshVars, boot, used>>,
         <<step, phase, next>> \in
           {<<"ready", "candidate-ready", "suspend">>, <<"suspended", "suspended", "archive">>,
            <<"switched", "switched", "probation">>, <<"probation", "probation", "observe">>,
            <<"committed", "committed", "cleanup">>}
  PROVE  Inv'
<1>1. /\ task' \in Task
      /\ task'.step = next /\ task'.target = task.target
      /\ task.step = step /\ task'.who = task.who
  BY GotoStep DEF Recorded, At, Inv, TypeOK
<1>2. journal' \in Journal /\ journal'.phase = phase
  BY TransitionStep DEF Recorded, Inv, TypeOK
<1>3. phase \in AfterSnapshot \union {"committed"} => journal'.snapshot # 0
  BY TransitionStep DEF Recorded, Inv, TypeOK, TaskInv, AfterSnapshot
<1>4. UNCHANGED <<slots, staged, snapshots, data, dsh, reviving, boot, used>>
  BY DEF dataVars, dshVars
<1>5. TypeOK'
  BY <1>1, <1>2, <1>3, <1>4 DEF Inv, TypeOK
<1> QED
  BY <1>1, <1>2, <1>3, <1>4, <1>5, Advances
     DEF Inv, TaskInv, Preparing, Switching, RestoringTask, Returning, InPlace

(* A phase of the transaction is recorded. *)
LEMMA RecordPhaseInv ==
  ASSUME Inv, RecordPhase
  PROVE  Inv'
<1>1. UNCHANGED <<slots, staged, dataVars, dshVars, boot, used>>
  BY DEF RecordPhase
<1>2. {"suspend", "archive", "probation", "observe", "cleanup"} \subseteq Step
  BY DEF Step
<1>3. CASE Recorded("ready", "candidate-ready", "suspend")
  BY <1>1, <1>2, <1>3, RecordedInv
<1>4. CASE Recorded("suspended", "suspended", "archive")
  BY <1>1, <1>2, <1>4, RecordedInv
<1>5. CASE Recorded("switched", "switched", "probation")
  BY <1>1, <1>2, <1>5, RecordedInv
<1>6. CASE Recorded("probation", "probation", "observe")
  BY <1>1, <1>2, <1>6, RecordedInv
<1>7. CASE Recorded("committed", "committed", "cleanup")
  BY <1>1, <1>2, <1>7, RecordedInv
<1> QED
  BY <1>3, <1>4, <1>5, <1>6, <1>7 DEF RecordPhase

(* A transaction fails. *)
LEMMA UndoInv ==
  ASSUME Inv, Undo
  PROVE  Inv'
<1>1. UNCHANGED <<slots, staged, snapshots, data, dsh, reviving, boot, used>> /\ task.step = "undo"
  BY DEF Undo, At, dataVars, dshVars
<1>2. CASE Goto("abandon") /\ UNCHANGED journal
  <2>1. task' \in Task /\ task'.step = "abandon" /\ task'.who = task.who
    BY <1>2, GotoStep DEF Step, Inv, TypeOK
  <2>2. TypeOK'
    BY <1>1, <1>2, <2>1 DEF Inv, TypeOK
  <2> QED
    BY <1>1, <1>2, <2>1, <2>2, Advances
       DEF Inv, TaskInv, Preparing, Switching, RestoringTask, Returning, InPlace
<1>3. CASE journal.phase \in AfterSnapshot /\ Restoring /\ Goto("stop")
  <2>1. task' \in Task /\ task'.step = "stop" /\ task'.who # "switch"
    BY <1>1, <1>3, GotoStep DEF Step, Inv, TypeOK, TaskInv
  <2>2. /\ journal' \in Journal /\ journal'.phase = "restoring-data"
        /\ journal'.snapshot # 0
    BY <1>3, RestoringStep DEF Inv, TypeOK
  <2>3. TypeOK'
    BY <1>1, <2>1, <2>2 DEF Inv, TypeOK
  <2>4. RestoreInv'
    BY <2>1 DEF RestoreInv, Returning, InPlace, Extracted
  <2> QED
    BY <1>1, <2>1, <2>2, <2>3, <2>4, Restores DEF RestoringTask
<1> QED
  BY <1>2, <1>3 DEF Undo

(* DSH stops before it is restored. *)
LEMMA StopDshInv ==
  ASSUME Inv, StopDsh
  PROVE  Inv'
<1>1. RestoringTask /\ task.step = "stop"
  BY DEF StopDsh, At, RestoringTask, InPlace
<1>2. /\ journal.phase = "restoring-data" /\ journal.snapshot # 0
      /\ task.step # "idle" /\ task.who # "switch"
      /\ snapshots[journal.snapshot] \in SUBSET Record
  BY <1>1, InRestoration, Bounds
<1>3. CASE Goto("restore") /\ UNCHANGED <<boot, used>>
  <2>1. /\ task' \in Task /\ task'.step = "restore"
        /\ task'.who = task.who
    <3>1. task \in Task /\ "restore" \in Step
      BY DEF Inv, TypeOK, Step
    <3> QED
      BY <1>3, <3>1, GotoStep
  <2>2. dsh' \in {NoDsh} \union [record : Record, read : SUBSET Record]
    BY DEF StopDsh, Inv, TypeOK
  <2>3. UNCHANGED <<slots, staged, journal, snapshots, data, reviving, boot, used>>
    BY <1>3 DEF StopDsh, dataVars, dshVars
  <2>4. TypeOK'
    BY <2>1, <2>2, <2>3 DEF Inv, TypeOK
  <2>5. RestoreInv'
    BY <1>1, <1>2, <1>3, <2>1, <2>2, <2>3
       DEF Inv, RestoreInv, Returning, InPlace, Extracted, Matches
  <2> QED
    BY <1>1, <1>2, <2>1, <2>2, <2>3, <2>4, <2>5, Restores DEF RestoringTask, InPlace
<1>4. CASE Fails /\ UNCHANGED dsh
  <2>1. UNCHANGED <<slots, staged, journal, snapshots, data, dsh, reviving>>
    BY <1>4 DEF StopDsh, dataVars, dshVars
  <2> QED
    BY <1>4, <2>1, FailsInv DEF Inv, TypeOK
<1> QED
  BY <1>3, <1>4 DEF StopDsh, dshVars

(* The data are erased. *)
LEMMA EraseDataInv ==
  ASSUME Inv, EraseData
  PROVE  Inv'
<1>1. RestoringTask /\ task.step = "erase"
  BY DEF EraseData, At, RestoringTask, InPlace
<1>2. /\ journal.phase = "restoring-data" /\ journal.snapshot # 0
      /\ task.step # "idle" /\ task.who # "switch"
      /\ snapshots[journal.snapshot] \in SUBSET Record
  BY <1>1, InRestoration, Bounds
<1>3. CASE Goto("extract") /\ data' = {} /\ UNCHANGED <<boot, used>>
  <2>1. /\ task' \in Task /\ task'.step = "extract"
        /\ task'.who = task.who
    <3>1. task \in Task /\ "extract" \in Step
      BY DEF Inv, TypeOK, Step
    <3> QED
      BY <1>3, <3>1, GotoStep
  <2>2. data' \in SUBSET Record
    BY <1>3 DEF EraseData, Inv, TypeOK
  <2>3. UNCHANGED <<slots, staged, journal, snapshots, dsh, reviving, boot, used>>
    BY <1>3 DEF EraseData, dataVars, dshVars
  <2>4. TypeOK'
    BY <2>1, <2>2, <2>3 DEF Inv, TypeOK
  <2>5. RestoreInv'
    BY <1>1, <1>2, <1>3, <2>1, <2>2, <2>3
       DEF Inv, RestoreInv, Returning, InPlace, Extracted, Matches
  <2> QED
    BY <1>1, <1>2, <2>1, <2>2, <2>3, <2>4, <2>5, Restores DEF RestoringTask, InPlace
<1>4. CASE Fails /\ UNCHANGED data
  <2>1. UNCHANGED <<slots, staged, journal, snapshots, data, dsh, reviving>>
    BY <1>4 DEF EraseData, dataVars, dshVars
  <2> QED
    BY <1>4, <2>1, FailsInv DEF Inv, TypeOK
<1> QED
  BY <1>3, <1>4 DEF EraseData, dshVars

(* The archive is extracted. *)
LEMMA ExtractDataInv ==
  ASSUME Inv, ExtractData
  PROVE  Inv'
<1>1. RestoringTask /\ task.step = "extract"
  BY DEF ExtractData, At, RestoringTask, InPlace
<1>2. /\ journal.phase = "restoring-data" /\ journal.snapshot # 0
      /\ task.step # "idle" /\ task.who # "switch"
      /\ snapshots[journal.snapshot] \in SUBSET Record
  BY <1>1, InRestoration, Bounds
<1>3. CASE /\ data' = data \union snapshots[journal.snapshot]
           /\ Goto(IF task.who = "boot" THEN "finish" ELSE "resume")
           /\ UNCHANGED <<boot, used>>
  <2>1. /\ task' \in Task /\ task'.step \in {"finish", "resume"}
        /\ task'.who = task.who
    <3>1. task \in Task /\ "finish" \in Step /\ "resume" \in Step
      BY DEF Inv, TypeOK, Step
    <3> QED
      BY <1>3, <3>1, GotoStep
  <2>2. data' \in SUBSET Record /\ snapshots[journal.snapshot] \subseteq data'
    BY <1>2, <1>3 DEF ExtractData, Inv, TypeOK
  <2>3. UNCHANGED <<slots, staged, journal, snapshots, dsh, reviving, boot, used>>
    BY <1>3 DEF ExtractData, dataVars, dshVars
  <2>4. TypeOK'
    BY <2>1, <2>2, <2>3 DEF Inv, TypeOK
  <2>5. RestoreInv'
    BY <1>1, <1>2, <1>3, <2>1, <2>2, <2>3
       DEF Inv, RestoreInv, Returning, InPlace, Extracted, Matches
  <2> QED
    BY <1>1, <1>2, <2>1, <2>2, <2>3, <2>4, <2>5, Restores DEF RestoringTask, InPlace
<1>4. CASE Fails /\ UNCHANGED data
  <2>1. UNCHANGED <<slots, staged, journal, snapshots, data, dsh, reviving>>
    BY <1>4 DEF ExtractData, dataVars, dshVars
  <2> QED
    BY <1>4, <2>1, FailsInv DEF Inv, TypeOK
<1> QED
  BY <1>3, <1>4 DEF ExtractData, dshVars

(* DSH is started on the restored data. *)
LEMMA ResumeDshInv ==
  ASSUME Inv, ResumeDsh
  PROVE  Inv'
<1>1. RestoringTask /\ task.step = "resume"
  BY DEF ResumeDsh, At, RestoringTask, InPlace
<1>2. /\ journal.phase = "restoring-data" /\ journal.snapshot # 0
      /\ task.step # "idle" /\ task.who # "switch"
      /\ snapshots[journal.snapshot] \in SUBSET Record
  BY <1>1, InRestoration, Bounds
<1>3. CASE /\ dsh' \in Resumed
           /\ Goto(IF task.who = "update" THEN "verify" ELSE "finish")
           /\ UNCHANGED <<boot, used>>
  <2>1. /\ task' \in Task /\ task'.step \in {"verify", "finish"}
        /\ task'.who = task.who
    <3>1. task \in Task /\ "verify" \in Step /\ "finish" \in Step
      BY DEF Inv, TypeOK, Step
    <3> QED
      BY <1>3, <3>1, GotoStep
  <2>2. dsh' \in {NoDsh} \union [record : Record, read : SUBSET Record]
    BY <1>3, ViewType, StartedType DEF ResumeDsh, Resumed, Inv, TypeOK
  <2>3. UNCHANGED <<slots, staged, journal, snapshots, data, reviving, boot, used>>
    BY <1>3 DEF ResumeDsh, dataVars, dshVars
  <2>4. TypeOK'
    BY <2>1, <2>2, <2>3 DEF Inv, TypeOK
  <2>5. RestoreInv'
    BY <1>1, <1>2, <1>3, <2>1, <2>2, <2>3
       DEF Inv, RestoreInv, Returning, InPlace, Extracted, Matches
  <2> QED
    BY <1>1, <1>2, <2>1, <2>2, <2>3, <2>4, <2>5, Restores DEF RestoringTask, InPlace
<1>4. CASE Fails /\ UNCHANGED dsh
  <2>1. UNCHANGED <<slots, staged, journal, snapshots, data, dsh, reviving>>
    BY <1>4 DEF ResumeDsh, dataVars, dshVars
  <2> QED
    BY <1>4, <2>1, FailsInv DEF Inv, TypeOK
<1> QED
  BY <1>3, <1>4 DEF ResumeDsh, dshVars

(* The restored Deployment is found healthy or not. *)
LEMMA VerifyHealthInv ==
  ASSUME Inv, VerifyHealth
  PROVE  Inv'
<1>1. RestoringTask /\ task.step = "verify"
  BY DEF VerifyHealth, At, RestoringTask, InPlace
<1>2. /\ journal.phase = "restoring-data" /\ journal.snapshot # 0
      /\ task.step # "idle" /\ task.who # "switch"
      /\ snapshots[journal.snapshot] \in SUBSET Record
  BY <1>1, InRestoration, Bounds
<1>3. CASE Goto("finish") /\ UNCHANGED <<boot, used>>
  <2>1. /\ task' \in Task /\ task'.step = "finish"
        /\ task'.who = task.who
    <3>1. task \in Task /\ "finish" \in Step
      BY DEF Inv, TypeOK, Step
    <3> QED
      BY <1>3, <3>1, GotoStep
  <2>2. UNCHANGED <<slots, staged, journal, snapshots, data, dsh, reviving, boot, used>>
    BY <1>3 DEF VerifyHealth, dataVars, dshVars
  <2>3. TypeOK'
    BY <2>1, <2>2 DEF Inv, TypeOK
  <2>4. RestoreInv'
    BY <1>1, <1>2, <1>3, <2>1, <2>2
       DEF Inv, RestoreInv, Returning, InPlace, Extracted, Matches
  <2> QED
    BY <1>1, <1>2, <2>1, <2>2, <2>3, <2>4, Restores DEF RestoringTask, InPlace
<1>4. CASE Fails /\ UNCHANGED dsh
  <2>1. UNCHANGED <<slots, staged, journal, snapshots, data, dsh, reviving>>
    BY <1>4 DEF VerifyHealth, dataVars, dshVars
  <2> QED
    BY <1>4, <2>1, FailsInv DEF Inv, TypeOK
<1> QED
  BY <1>3, <1>4 DEF VerifyHealth, dshVars

(* The slots are found as they were, or go back, or cannot. *)
LEMMA RestoreDeploymentInv ==
  ASSUME Inv, RestoreDeployment
  PROVE  Inv'
<1>1. RestoringTask /\ task.step = "restore"
  BY DEF RestoreDeployment, At, RestoringTask, InPlace
<1>2. /\ journal.phase = "restoring-data" /\ journal.snapshot # 0
      /\ task.step # "idle" /\ task.who # "switch"
  BY <1>1, InRestoration, Bounds
<1>3. UNCHANGED <<slots, journal, snapshots, data, reviving>>
  BY DEF RestoreDeployment, dataVars
<1>4. CASE /\ Matches(slots.current, journal.from)
           /\ staged' = NoRecord
           /\ Goto("erase")
           /\ UNCHANGED <<dsh, boot, used>>
  <2>1. task' \in Task /\ task'.step = "erase" /\ task'.who = task.who
    BY <1>4, GotoStep DEF Step, Inv, TypeOK
  <2>2. TypeOK'
    BY <1>3, <1>4, <2>1 DEF Inv, TypeOK
  <2>3. RestoreInv'
    BY <1>3, <1>4, <2>1 DEF RestoreInv, Returning, InPlace, Extracted, Matches
  <2> QED
    BY <1>2, <1>3, <1>4, <2>1, <2>2, <2>3, Restores DEF RestoringTask, InPlace
<1>5. CASE /\ Matches(slots.previous, journal.from)
           /\ staged' = slots.previous
           /\ dsh' = Started(slots.previous)
           /\ task' = [task EXCEPT !.step = "accept", !.target = slots.previous]
           /\ UNCHANGED <<boot, used>>
  <2>1. slots.previous \in Record
    BY <1>5 DEF Matches, Inv, TypeOK
  <2>2. task' \in Task /\ task'.step = "accept" /\ task'.target = slots.previous
        /\ task'.who = task.who
    BY <1>5, <2>1 DEF Task, Step, Inv, TypeOK
  <2>3. dsh' \in {NoDsh} \union [record : Record, read : SUBSET Record]
    BY <1>5, <2>1, StartedType DEF Inv, TypeOK
  <2>4. TypeOK'
    BY <1>3, <1>5, <2>1, <2>2, <2>3 DEF Inv, TypeOK
  <2>5. RestoreInv'
    BY <1>3, <1>5, <2>2 DEF RestoreInv, Returning, InPlace, Extracted, Matches
  <2> QED
    BY <1>2, <1>3, <1>5, <2>1, <2>2, <2>4, <2>5, Restores DEF RestoringTask, Returning
<1>6. CASE staged' = NoRecord /\ Fails /\ UNCHANGED dsh
  <2>1. task' = Idle /\ boot' \in {boot, "down"}
    BY <1>6 DEF Fails
  <2>2. TypeOK'
    BY <1>3, <1>6, <2>1, FailsUsed, IdleTask DEF Inv, TypeOK
  <2> QED
    BY <1>3, <2>1, <2>2, EndsTask DEF Inv, TaskInv
<1> QED
  BY <1>4, <1>5, <1>6 DEF RestoreDeployment

(* DSH is started from another Deployment. *)
LEMMA SwitchDeploymentInv ==
  ASSUME Inv, SwitchDeployment
  PROVE  Inv'
<1>1. task.target \in Record /\ task.step = "switch" /\ task.who = "switch"
  BY DEF SwitchDeployment, At, Inv, TaskInv, Switching
<1>2. UNCHANGED <<slots, journal, snapshots, data, reviving>>
  BY DEF SwitchDeployment, dataVars
<1>3. dsh' \in {NoDsh} \union [record : Record, read : SUBSET Record]
  BY <1>1, StartedType DEF SwitchDeployment, Inv, TypeOK
<1>4. CASE staged' = task.target /\ Goto("accept") /\ UNCHANGED <<boot, used>>
  <2>1. /\ task' \in Task /\ task'.step = "accept"
        /\ task'.who = task.who /\ task'.target = task.target
    BY <1>4, GotoStep DEF Step, Inv, TypeOK
  <2>2. TypeOK'
    BY <1>1, <1>2, <1>3, <1>4, <2>1 DEF Inv, TypeOK
  <2> QED
    BY <1>1, <1>2, <1>4, <2>1, <2>2, Advances
       DEF Inv, TaskInv, Preparing, Switching, RestoringTask, Returning, InPlace
<1>5. CASE Fails /\ UNCHANGED staged
  BY <1>2, <1>3, <1>5, FailsInv DEF Inv, TypeOK
<1> QED
  BY <1>4, <1>5 DEF SwitchDeployment

(* The slots are committed. *)
LEMMA AcceptDeploymentInv ==
  ASSUME Inv, AcceptDeployment
  PROVE  Inv'
<1>1. task.target \in Record /\ task.step = "accept" /\ task.step # "idle"
  BY DEF AcceptDeployment, At, Inv, TaskInv, Switching
<1>2. UNCHANGED <<journal, snapshots, data, dsh, reviving, boot, used>> /\ staged' = NoRecord
  BY DEF AcceptDeployment, dataVars, dshVars
<1>3. /\ slots' \in [current : Record, previous : Record \union {NoRecord}]
      /\ slots'.current = task.target
  BY <1>1, SlotsType DEF AcceptDeployment, Inv, TypeOK
<1>4. CASE task.who = "switch"
  <2>1. task' = Idle
    BY <1>4 DEF AcceptDeployment
  <2>2. TypeOK'
    BY <1>2, <1>3, <2>1, IdleTask DEF Inv, TypeOK
  <2> QED
    BY <1>2, <2>1, <2>2, EndsTask DEF Inv, TaskInv
<1>5. CASE task.who # "switch"
  <2>1. Returning /\ RestoringTask
    BY <1>1, <1>5 DEF Returning, RestoringTask
  <2>2. journal.phase = "restoring-data" /\ journal.snapshot # 0
    BY <2>1, InRestoration, Bounds
  <2>3. task' \in Task /\ task'.step = "erase" /\ task'.who = task.who
    BY <1>5, GotoStep DEF AcceptDeployment, Goto, Step, Inv, TypeOK
  <2>4. TypeOK'
    BY <1>2, <1>3, <2>3 DEF Inv, TypeOK
  <2>5. RestoreInv'
    BY <1>2, <1>3, <2>1, <2>3
       DEF Inv, RestoreInv, Returning, InPlace, Extracted, Matches
  <2> QED
    BY <1>1, <1>2, <1>5, <2>2, <2>3, <2>4, <2>5, Restores DEF RestoringTask, InPlace
<1> QED
  BY <1>4, <1>5

-----------------------------------------------------------------------------
(* The invariant holds at first and after every step. *)
LEMMA InitInv == Init => Inv
<1> SUFFICES ASSUME Init PROVE Inv
  OBVIOUS
<1>1. journal \in Journal /\ journal.phase = "none"
  BY Bounds DEF Init, NoJournal, Journal, Terminal
<1>2. TypeOK
  <2>1. /\ slots \in [current : Record, previous : Record \union {NoRecord}]
        /\ data \in SUBSET Record
    BY UpdateAssumption DEF Init
  <2>2. snapshots \in [1..MaxUpdates -> SUBSET Record]
    BY DEF Init
  <2>3. used \in Used
    BY Bounds DEF Init, Used
  <2> QED
    BY <1>1, <2>1, <2>2, <2>3, IdleTask DEF Init, TypeOK, AfterSnapshot
<1>3. TaskInv
  BY <1>1, IdleTask DEF Init, TaskInv, Preparing, Switching, RestoringTask, Returning, InPlace
<1>4. RestoreInv
  BY IdleTask DEF Init, RestoreInv, Returning, InPlace, Extracted
<1> QED
  BY <1>2, <1>3, <1>4 DEF Inv

LEMMA NextInv == Inv /\ [Next]_vars => Inv'
<1> SUFFICES ASSUME Inv, [Next]_vars PROVE Inv'
  OBVIOUS
<1>1. CASE UpdaterNext
  BY <1>1, RecordPhaseInv, SuspendDshInv, CreateSnapshotInv, BindSnapshotInv,
     StageCandidateInv, ObserveInv, CommitCandidateInv, CleanupInv, UndoInv, AbandonInv,
     FailInv, StopDshInv, RestoreDeploymentInv, EraseDataInv, ExtractDataInv,
     ResumeDshInv, VerifyHealthInv, FinishRestoreInv, SwitchDeploymentInv,
     AcceptDeploymentInv
     DEF UpdaterNext
<1>2. CASE BootstrapNext
  BY <1>2, BootstrapStartsInv, RecoverInterruptedUpdateInv, StartDeploymentInv, ReviveInv
     DEF BootstrapNext
<1>3. CASE UserNext
  BY <1>3, DshWritesInv, UserStopsInv, UserStartsInv, BeginUpdateInv, BeginRollbackInv,
     BeginStableInv
     DEF UserNext
<1>4. CASE DshExits \/ Crash
  BY <1>4, DshExitsInv, CrashInv
<1>5. CASE UNCHANGED vars
  <2>1. UNCHANGED <<slots, staged, journal, snapshots, data, dsh, reviving, boot, task, used>>
    BY <1>5 DEF vars, dataVars, dshVars
  <2>2. TypeOK'
    BY <2>1 DEF Inv, TypeOK
  <2> QED
    BY <2>1, <2>2, KeepsTask
<1> QED
  BY <1>1, <1>2, <1>3, <1>4, <1>5 DEF Next

(* A transaction is recorded as rolled back by the last step of a            *)
(* restoration only, and by then everything is in place.                    *)
LEMMA RolledBack ==
  ASSUME Inv, Next, journal.phase # "rolled-back", journal'.phase = "rolled-back"
  PROVE  /\ Matches(slots.current, journal.from)
         /\ snapshots[journal.snapshot] \subseteq data
<1>1. CASE FinishRestore
  BY <1>1 DEF FinishRestore, At, Inv, RestoreInv, InPlace, Extracted
<1>2. CASE RecordPhase
  BY <1>2, TransitionStep DEF RecordPhase, Recorded, Inv, TypeOK
<1>3. CASE BindSnapshot \/ BeginUpdate
  <2>1. CASE BindSnapshot
    <3>1. journal' = [journal EXCEPT !.phase = "snapshot-created", !.snapshot = used.updates]
      BY <2>1 DEF BindSnapshot
    <3>2. journal'.phase = "snapshot-created"
      BY <3>1 DEF Inv, TypeOK, Journal
    <3> QED
      BY <3>2
  <2>2. CASE BeginUpdate
    BY <2>2 DEF BeginUpdate
  <2> QED
    BY <1>3, <2>1, <2>2
<1>4. CASE Undo \/ RecoverInterruptedUpdate \/ BeginRollback \/ Fail
  BY <1>4, TransitionStep, RestoringStep
     DEF Undo, RecoverInterruptedUpdate, BeginRollback, Fail, Inv, TypeOK
<1>5. CASE UNCHANGED journal
  BY <1>5
<1>6. CASE \/ SuspendDsh \/ CreateSnapshot \/ StageCandidate \/ Observe \/ CommitCandidate
           \/ Cleanup \/ Abandon \/ StopDsh \/ RestoreDeployment \/ EraseData
           \/ ExtractData \/ ResumeDsh \/ VerifyHealth \/ SwitchDeployment
           \/ AcceptDeployment
  BY <1>5, <1>6
     DEF SuspendDsh, CreateSnapshot, StageCandidate, Observe, CommitCandidate, Cleanup,
         Abandon, StopDsh, RestoreDeployment, EraseData, ExtractData, ResumeDsh,
         VerifyHealth, SwitchDeployment, AcceptDeployment
<1>7. CASE \/ BootstrapStarts \/ StartDeployment \/ Revive \/ DshWrites \/ UserStops
           \/ UserStarts \/ BeginStable \/ DshExits \/ Crash
  BY <1>5, <1>7
     DEF BootstrapStarts, StartDeployment, Revive, DshWrites, UserStops, UserStarts,
         BeginStable, DshExits, Crash
<1> QED
  BY <1>1, <1>2, <1>3, <1>4, <1>6, <1>7 DEF Next, UpdaterNext, BootstrapNext, UserNext

-----------------------------------------------------------------------------
(* Every variable always has its type, and a transaction that may have to    *)
(* be undone always names its snapshot.                                     *)
THEOREM TransactionTypes == Spec => []TypeOK
<1>1. Inv => TypeOK
  BY DEF Inv
<1> QED
  BY InitInv, NextInv, <1>1, PTL DEF Spec

(* A transaction ends rolled back only with its Deployment and all its data, *)
(* whoever restores them, whatever interrupts it, and however often: lost    *)
(* containers, failing restorations, Stable updates in between.             *)
THEOREM RollbackRestores == Spec => RestoredCompletely
<1>1. Inv /\ [Next]_vars =>
        [journal.phase # "rolled-back" /\ journal'.phase = "rolled-back" =>
           /\ Matches(slots.current, journal.from)
           /\ snapshots[journal.snapshot] \subseteq data]_vars
  BY RolledBack
<1> QED
  BY InitInv, NextInv, <1>1, PTL DEF Spec, RestoredCompletely

-----------------------------------------------------------------------------
(* What the promises about the data and the Deployments rest on, while       *)
(* nothing is amiss.  Data fit a DSH that is as new   *)
(* as every DSH that wrote them.                                            *)
Fits(what, r) == \A x \in what : DshVersion[x] <= DshVersion[r]

(* Which phase is recorded at which step.                                  *)
OnlyUpdates ==
  /\ reviving = TRUE => boot = "ready"
  /\ task.who = "nobody" => task = Idle
  /\ task.who \in {"nobody", "update", "boot"} /\ task.step \notin {"switch", "accept"}
  /\ task.who = "boot" => task.step \in {"restore", "erase", "extract", "finish"} /\ boot = "recover"
  /\ task.who = "update" => boot = "ready" /\ task.step # "idle"
  /\ boot \in {"start", "ready"} /\ task = Idle => journal.phase \in Terminal
PhaseKnown ==
  /\ task.step = "ready" => journal.phase = "planning"
  /\ task.step \in {"suspend", "suspended"} => journal.phase = "candidate-ready"
  /\ task.step \in {"archive", "bind"} => journal.phase = "suspended"
  /\ task.step \in {"stage", "switched"} => journal.phase = "snapshot-created"
  /\ task.step = "probation" => journal.phase = "switched"
  /\ task.step \in {"observe", "commit", "committed"} => journal.phase = "probation"
  /\ task.step = "cleanup" => journal.phase = "committed"
  /\ task.step = "undo" => journal.phase \in {"candidate-ready", "suspended", "snapshot-created", "probation"}
  /\ task.step \in {"abandon", "fail"} => journal.phase \in BeforeSwitch
(* The Deployments: the one to return to stays current until the commit.   *)
SlotsKnown ==
  /\ journal.phase \in BeforeSwitch \union AfterSnapshot /\ task.step # "committed" =>
       Matches(slots.current, journal.from)
  /\ task.step = "committed" => slots.current = journal.to
  /\ Switching => task.target = journal.to
  /\ journal.phase \in BeforeSwitch \union AfterSnapshot => 
        /\ journal.to \in Record /\ journal.from \in Record
        /\ used.updates > 0 /\ journal.to = Candidate[used.updates]
        /\ DshVersion[journal.from] <= DshVersion[journal.to]
  /\ staged # NoRecord => /\ staged = journal.to
                          /\ journal.phase \in AfterSnapshot
                          /\ boot = "down" \/ task.step \in {"switched", "probation", "observe", "commit", "undo", "stop", "restore"}
  /\ \A n \in 1..MaxUpdates : n > used.updates => DshVersion[slots.current] <= DshVersion[Candidate[n]]
(* The data: whose DSH may have worked on them.                            *)
Trying == journal.phase \in AfterSnapshot /\ ~Extracted /\ task.step # "stage"
DataKnown ==
  /\ journal.phase # "restoring-data" => data # {}
  /\ Extracted => data # {}
  /\ task.step = "extract" => data = {}
  /\ Trying => Fits(data, journal.to)
  /\ ~Trying => Fits(data, slots.current)
DshKnown ==
  /\ task.step = "verify" => DshRuns \/ reviving = TRUE
  /\ DshRuns =>
       /\ dsh.read # {} /\ Fits(dsh.read, dsh.record)
       /\ boot = "ready"
       /\ Trying => DshVersion[dsh.record] <= DshVersion[journal.to]
       /\ ~Trying => DshVersion[dsh.record] <= DshVersion[slots.current]
       /\ task.step \notin {"suspended", "archive", "bind", "stage", "restore", "erase", "extract"}
ArchiveKnown ==
  /\ task.step = "bind" => snapshots[used.updates] # {} /\ Fits(snapshots[used.updates], journal.from)
  /\ journal.phase \in AfterSnapshot =>
       snapshots[journal.snapshot] # {} /\ Fits(snapshots[journal.snapshot], journal.from)
(* Whose work the data are: a DSH at work knows them, and only its          *)
(* Deployment's mark is added to what was archived.                         *)
Archived == snapshots[journal.snapshot]
WorkKnown ==
  /\ DshRuns => /\ dsh.read \subseteq data
                /\ Trying => dsh.record = journal.to
                /\ ~Trying => dsh.record = Copy[slots.current]
  /\ task.step = "bind" => snapshots[used.updates] = data
  /\ journal.phase \in AfterSnapshot \ {"restoring-data"} =>
       data = Archived \/ data = Archived \union {journal.to}
  /\ Extracted => data = Archived \/ data = Archived \union {Copy[journal.from]}
Alone == OnlyUpdates /\ PhaseKnown /\ SlotsKnown /\ DataKnown /\ DshKnown /\ ArchiveKnown /\ WorkKnown
AloneInv == Inv /\ Alone
AloneKept == Inv /\ (Undisturbed => Alone)

(* What fits a Deployment fits a newer one. *)
LEMMA FitsUp ==
  ASSUME NEW what \in SUBSET Record, NEW r \in Record, NEW s \in Record, Fits(what, r),
         DshVersion[r] <= DshVersion[s]
  PROVE  Fits(what, s)
BY UpdateAssumption DEF Fits

(* Data fit when each of their parts does. *)
LEMMA FitsParts ==
  /\ \A what, more : \A r \in Record : Fits(what \union more, r) <=> Fits(what, r) /\ Fits(more, r)
  /\ \A x, r \in Record : Fits({x}, r) <=> DshVersion[x] <= DshVersion[r]
  /\ \A r \in Record : Fits({}, r)
BY DEF Fits

(* The same content has the same version. *)
LEMMA SameVersion ==
  ASSUME Upgrades, NEW r \in Record, NEW s \in Record \union {NoRecord}, Matches(s, r)
  PROVE  s \in Record /\ DshVersion[s] = DshVersion[r] /\ DshVersion[s] <= DshVersion[r]
         /\ DshVersion[r] <= DshVersion[s]
BY UpdateAssumption DEF Matches, Upgrades

(* Versions are ordered. *)
LEMMA Ordered ==
  \A r, s, t \in Record : /\ DshVersion[r] <= DshVersion[r]
                          /\ DshVersion[r] <= DshVersion[s] /\ DshVersion[s] <= DshVersion[t] =>
                               DshVersion[r] <= DshVersion[t]
BY UpdateAssumption

(* DSH that is started from a Deployment the data fit works on them.       *)
LEMMA StartedFits ==
  ASSUME Upgrades, NEW r \in Record, data \in SUBSET Record, data # {}, Fits(data, r), dsh' = Started(r)
  PROVE  /\ DshRuns' /\ dsh'.record \in Record /\ dsh'.read = data /\ Fits(dsh'.read, dsh'.record)
         /\ DshVersion[dsh'.record] = DshVersion[r] /\ dsh'.record = Copy[r]
<1>1. dsh' = [record |-> Copy[r], read |-> data] /\ Copy[r] \in Record /\ DshVersion[Copy[r]] = DshVersion[r]
  BY UpdateAssumption DEF Started, Upgrades
<1>2. Fits(data, Copy[r])
  BY <1>1 DEF Fits
<1> QED
  BY <1>1, <1>2, UpdateAssumption DEF DshRuns, NoDsh

(* What is known of the Deployments while a transaction is under way.      *)
LEMMA AloneFacts ==
  ASSUME Upgrades, AloneInv
  PROVE  /\ slots.current \in Record /\ data \in SUBSET Record
         /\ \A n \in 1..MaxUpdates : snapshots[n] \in SUBSET Record
         /\ journal.phase \in BeforeSwitch \union AfterSnapshot =>
              /\ journal.from \in Record /\ journal.to \in Record /\ Copy[journal.to] = journal.to
              /\ used.updates \in 1..MaxUpdates
              /\ DshVersion[journal.from] <= DshVersion[journal.to]
              /\ task.step # "committed" =>
                   /\ Matches(slots.current, journal.from)
                   /\ DshVersion[slots.current] = DshVersion[journal.from]
                   /\ DshVersion[slots.current] <= DshVersion[journal.to]
         /\ journal.phase \in AfterSnapshot => journal.snapshot \in 1..MaxUpdates
<1> USE DEF AloneInv, Alone
<1>1. TypeOK
  BY DEF Inv
<1>2. slots.current \in Record /\ data \in SUBSET Record /\ \A n \in 1..MaxUpdates : snapshots[n] \in SUBSET Record
  BY <1>1 DEF TypeOK
<1>3. ASSUME journal.phase \in AfterSnapshot PROVE journal.snapshot \in 1..MaxUpdates
  BY <1>1, <1>3, Bounds DEF TypeOK, Journal
<1>4. ASSUME journal.phase \in BeforeSwitch \union AfterSnapshot
      PROVE  /\ journal.from \in Record /\ journal.to \in Record /\ Copy[journal.to] = journal.to
             /\ used.updates \in 1..MaxUpdates
             /\ DshVersion[journal.from] <= DshVersion[journal.to]
             /\ task.step # "committed" =>
                  /\ Matches(slots.current, journal.from)
                  /\ DshVersion[slots.current] = DshVersion[journal.from]
                  /\ DshVersion[slots.current] <= DshVersion[journal.to]
  <2>1. /\ journal.from \in Record /\ journal.to \in Record /\ used.updates > 0
        /\ journal.to = Candidate[used.updates] /\ DshVersion[journal.from] <= DshVersion[journal.to]
        /\ task.step # "committed" => Matches(slots.current, journal.from)
    BY <1>4 DEF SlotsKnown
  <2>2. used.updates \in 0..MaxUpdates
    BY <1>1 DEF TypeOK, Used
  <2>3. used.updates \in 1..MaxUpdates /\ Copy[journal.to] = journal.to
    BY <2>1, <2>2, Bounds, ManagedAssumption
  <2>4. ASSUME task.step # "committed"
        PROVE  /\ DshVersion[slots.current] = DshVersion[journal.from]
               /\ DshVersion[slots.current] <= DshVersion[journal.to]
    BY <1>2, <2>1, <2>4, SameVersion
  <2> QED
    BY <2>1, <2>3, <2>4
<1> QED
  BY <1>2, <1>3, <1>4

(* A DSH that does not run is started, or taken to run while it is revived. *)
LEMMA ResumedAlone ==
  ASSUME TypeOK
  PROVE  /\ Resumed \subseteq {dsh, Started(View)}
         /\ DshRuns => Resumed = {dsh}
         /\ ~DshRuns /\ reviving = FALSE => Resumed = {Started(View)}
BY DEF Resumed, TypeOK

(* A recovery that fails ends the start-up; where a transaction fails in its *)
(* restoration something is amiss.                                          *)
LEMMA FailsAlone ==
  ASSUME Undisturbed, Undisturbed', Upgrades, AloneInv, Fails, task # Idle, task.step # "committed",
         UNCHANGED <<slots, staged, journal, snapshots, data, dsh, reviving>>
  PROVE  Alone'
<1> USE DEF AloneInv, Alone
<1>1. TypeOK /\ TaskInv
  BY DEF Inv
<1>2. /\ boot' = "down" /\ task' = Idle /\ dsh' = NoDsh /\ reviving' = FALSE /\ boot = "recover"
      /\ UNCHANGED <<slots, staged, journal, snapshots, data, used>>
  <2>1. task.who = "boot" /\ used' = used
    BY <1>1 DEF Fails, OnlyUpdates, Undisturbed, TypeOK, Used
  <2>2. boot = "recover" /\ ~DshRuns /\ reviving = FALSE
    BY <1>1, <2>1 DEF OnlyUpdates, DshKnown, TypeOK
  <2> QED
    BY <2>1, <2>2 DEF Fails, DshRuns
<1>3. OnlyUpdates'
  BY <1>1, <1>2 DEF OnlyUpdates, Terminal, Idle
<1>4. PhaseKnown'
  BY <1>1, <1>2 DEF PhaseKnown, OnlyUpdates, BeforeSwitch, AfterSnapshot, Idle
<1>5. SlotsKnown'
  BY <1>1, <1>2 DEF SlotsKnown, PhaseKnown, OnlyUpdates, Switching, Preparing, BeforeSwitch,
       AfterSnapshot, Terminal, Idle
<1>6. DataKnown'
  <2>1. journal.phase # "restoring-data" => data # {}
    BY DEF DataKnown
  <2>2. ASSUME journal.phase \in AfterSnapshot PROVE Fits(data, journal.to)
    <3>1. CASE Trying
      BY <3>1 DEF DataKnown
    <3>2. CASE ~Trying
      BY <1>2, <2>2, <3>2, AloneFacts, FitsUp DEF DataKnown
    <3> QED
      BY <3>1, <3>2
  <2>3. ASSUME journal.phase \notin AfterSnapshot PROVE Fits(data, slots.current)
    BY <2>3 DEF DataKnown, Trying
  <2> QED
    BY <1>2, <2>1, <2>2, <2>3 DEF DataKnown, Trying, Extracted, Idle
<1>7. DshKnown'
  BY <1>1, <1>2 DEF DshKnown, PhaseKnown, OnlyUpdates, SlotsKnown, Trying, Extracted, BeforeSwitch,
       AfterSnapshot, Terminal, Idle, DshRuns, NoDsh
<1>8. ArchiveKnown'
  BY <1>1, <1>2 DEF ArchiveKnown, PhaseKnown, OnlyUpdates, SlotsKnown, BeforeSwitch, AfterSnapshot,
       Terminal, Idle
<1>9. WorkKnown'
  BY <1>1, <1>2 DEF WorkKnown, PhaseKnown, OnlyUpdates, SlotsKnown, DshKnown, DataKnown, Trying,
       Extracted, Archived, BeforeSwitch, AfterSnapshot, Terminal, Idle, DshRuns, NoDsh
<1> QED
  BY <1>3, <1>4, <1>5, <1>6, <1>7, <1>8, <1>9

(* DSH is suspended, or is found not to run. *)
LEMMA SuspendDshAlone ==
  ASSUME Undisturbed, Undisturbed', Upgrades, AloneInv, SuspendDsh
  PROVE  Alone'
<1> USE DEF AloneInv, Alone
<1>1. TypeOK /\ TaskInv
  BY DEF Inv
<1>2. /\ task.step = "suspend" /\ task'.step \in {"suspended", "undo"}
      /\ task'.who = task.who /\ task'.target = task.target
      /\ UNCHANGED <<slots, staged, journal, snapshots, data, reviving, boot, used>>
      /\ dsh' \in {dsh, NoDsh}
      /\ task'.step = "suspended" => dsh' = NoDsh
  BY <1>1, GotoStep DEF SuspendDsh, TypeOK, OnlyUpdates, Step, At, dataVars, dshVars
<1>3. OnlyUpdates'
  BY <1>1, <1>2 DEF OnlyUpdates, Terminal, Idle
<1>4. PhaseKnown'
  BY <1>1, <1>2 DEF PhaseKnown, OnlyUpdates, BeforeSwitch, AfterSnapshot, Idle
<1>5. SlotsKnown'
  BY <1>1, <1>2 DEF SlotsKnown, PhaseKnown, OnlyUpdates, Switching, Preparing, BeforeSwitch,
       AfterSnapshot, Terminal, Idle
<1>6. DataKnown'
  BY <1>1, <1>2 DEF DataKnown, PhaseKnown, OnlyUpdates, SlotsKnown, Trying, Extracted, BeforeSwitch,
       AfterSnapshot, Terminal, Idle
<1>7. DshKnown'
  BY <1>1, <1>2 DEF DshKnown, PhaseKnown, OnlyUpdates, SlotsKnown, Trying, Extracted, BeforeSwitch,
       AfterSnapshot, Terminal, Idle, DshRuns, NoDsh
<1>8. ArchiveKnown'
  BY <1>1, <1>2 DEF ArchiveKnown, PhaseKnown, OnlyUpdates, SlotsKnown, BeforeSwitch, AfterSnapshot,
       Terminal, Idle
<1>9. WorkKnown'
  BY <1>1, <1>2 DEF WorkKnown, PhaseKnown, OnlyUpdates, SlotsKnown, DshKnown, DataKnown, Trying,
       Extracted, Archived, BeforeSwitch, AfterSnapshot, Terminal, Idle, DshRuns, NoDsh
<1> QED
  BY <1>3, <1>4, <1>5, <1>6, <1>7, <1>8, <1>9

(* The data are archived while no DSH works on them. *)
LEMMA CreateSnapshotAlone ==
  ASSUME Undisturbed, Undisturbed', Upgrades, AloneInv, CreateSnapshot
  PROVE  Alone'
<1> USE DEF AloneInv, Alone
<1>1. TypeOK /\ TaskInv
  BY DEF Inv
<1>2. /\ task.step = "archive" /\ task'.step \in {"bind", "undo"}
      /\ task'.who = task.who /\ task'.target = task.target
      /\ UNCHANGED <<slots, staged, journal, data, dsh, reviving, boot, used>>
      /\ snapshots' \in {snapshots, [snapshots EXCEPT ![used.updates] = data]}
      /\ task'.step = "bind" => snapshots' = [snapshots EXCEPT ![used.updates] = data]
  BY <1>1, GotoStep DEF CreateSnapshot, TypeOK, OnlyUpdates, Step, At, dataVars, dshVars
<1>3. OnlyUpdates'
  BY <1>1, <1>2 DEF OnlyUpdates, Terminal, Idle
<1>4. PhaseKnown'
  BY <1>1, <1>2 DEF PhaseKnown, OnlyUpdates, BeforeSwitch, AfterSnapshot, Idle
<1>5. SlotsKnown'
  BY <1>1, <1>2 DEF SlotsKnown, PhaseKnown, OnlyUpdates, Switching, Preparing, BeforeSwitch,
       AfterSnapshot, Terminal, Idle
<1>6. DataKnown'
  BY <1>1, <1>2 DEF DataKnown, PhaseKnown, OnlyUpdates, SlotsKnown, Trying, Extracted, BeforeSwitch,
       AfterSnapshot, Terminal, Idle
<1>7. DshKnown'
  BY <1>1, <1>2 DEF DshKnown, PhaseKnown, OnlyUpdates, SlotsKnown, Trying, Extracted, BeforeSwitch,
       AfterSnapshot, Terminal, Idle, DshRuns, NoDsh
<1>8. ArchiveKnown'
  <2>1. /\ data # {} /\ Fits(data, slots.current) /\ journal.phase = "suspended"
        /\ used.updates \in 1..MaxUpdates /\ journal.from \in Record
        /\ DshVersion[slots.current] = DshVersion[journal.from]
    BY <1>1, <1>2, AloneFacts DEF DataKnown, PhaseKnown, Trying, BeforeSwitch, AfterSnapshot
  <2>2. Fits(data, journal.from)
    BY <2>1, AloneFacts, FitsUp, Ordered
  <2>3. snapshots \in [1..MaxUpdates -> SUBSET Record]
    BY <1>1 DEF TypeOK
  <2> QED
    BY <1>2, <2>1, <2>2, <2>3 DEF ArchiveKnown, AfterSnapshot
<1>9. WorkKnown'
  <2>1. ~DshRuns /\ ~DshRuns' /\ journal.phase = "suspended" /\ used.updates \in 1..MaxUpdates
    BY <1>1, <1>2, AloneFacts DEF DshKnown, PhaseKnown, DshRuns, BeforeSwitch
  <2>2. snapshots \in [1..MaxUpdates -> SUBSET Record]
    BY <1>1 DEF TypeOK
  <2> QED
    BY <1>2, <2>1, <2>2 DEF WorkKnown, Extracted, AfterSnapshot
<1> QED
  BY <1>3, <1>4, <1>5, <1>6, <1>7, <1>8, <1>9

(* The journal names the snapshot. *)
LEMMA BindSnapshotAlone ==
  ASSUME Undisturbed, Undisturbed', Upgrades, AloneInv, BindSnapshot
  PROVE  Alone'
<1> USE DEF AloneInv, Alone
<1>1. TypeOK /\ TaskInv
  BY DEF Inv
<1>2. /\ task.step = "bind" /\ task'.step \in {"stage"}
      /\ task'.who = task.who /\ task'.target = task.target
      /\ UNCHANGED <<slots, staged, snapshots, data, dsh, reviving, boot, used>>
      /\ journal' = [journal EXCEPT !.phase = "snapshot-created", !.snapshot = used.updates]
  BY <1>1, GotoStep DEF BindSnapshot, TypeOK, OnlyUpdates, Step, At, dataVars, dshVars
<1>3. OnlyUpdates'
  BY <1>1, <1>2 DEF OnlyUpdates, Terminal, Idle
<1>4. PhaseKnown'
  BY <1>1, <1>2 DEF PhaseKnown, OnlyUpdates, BeforeSwitch, AfterSnapshot, Idle
<1>5. SlotsKnown'
  BY <1>1, <1>2 DEF SlotsKnown, PhaseKnown, OnlyUpdates, Switching, Preparing, BeforeSwitch,
       AfterSnapshot, Terminal, Idle
<1>6. DataKnown'
  BY <1>1, <1>2 DEF DataKnown, PhaseKnown, OnlyUpdates, SlotsKnown, Trying, Extracted, BeforeSwitch,
       AfterSnapshot, Terminal, Idle
<1>7. DshKnown'
  BY <1>1, <1>2 DEF DshKnown, PhaseKnown, OnlyUpdates, SlotsKnown, Trying, Extracted, BeforeSwitch,
       AfterSnapshot, Terminal, Idle, DshRuns, NoDsh
<1>8. ArchiveKnown'
  BY <1>1, <1>2 DEF ArchiveKnown, PhaseKnown, OnlyUpdates, SlotsKnown, BeforeSwitch, AfterSnapshot,
       Terminal, Idle
<1>9. WorkKnown'
  BY <1>1, <1>2 DEF WorkKnown, PhaseKnown, OnlyUpdates, SlotsKnown, DshKnown, DataKnown, Trying,
       Extracted, Archived, BeforeSwitch, AfterSnapshot, Terminal, Idle, DshRuns, NoDsh
<1> QED
  BY <1>3, <1>4, <1>5, <1>6, <1>7, <1>8, <1>9

(* The probation ends one way or the other. *)
LEMMA ObserveAlone ==
  ASSUME Undisturbed, Undisturbed', Upgrades, AloneInv, Observe
  PROVE  Alone'
<1> USE DEF AloneInv, Alone
<1>1. TypeOK /\ TaskInv
  BY DEF Inv
<1>2. /\ task.step = "observe" /\ task'.step \in {"commit", "undo"}
      /\ task'.who = task.who /\ task'.target = task.target
      /\ UNCHANGED <<slots, staged, journal, snapshots, data, dsh, reviving, boot, used>>
  BY <1>1, GotoStep DEF Observe, TypeOK, OnlyUpdates, Step, At, dataVars, dshVars
<1>3. OnlyUpdates'
  BY <1>1, <1>2 DEF OnlyUpdates, Terminal, Idle
<1>4. PhaseKnown'
  BY <1>1, <1>2 DEF PhaseKnown, OnlyUpdates, BeforeSwitch, AfterSnapshot, Idle
<1>5. SlotsKnown'
  BY <1>1, <1>2 DEF SlotsKnown, PhaseKnown, OnlyUpdates, Switching, Preparing, BeforeSwitch,
       AfterSnapshot, Terminal, Idle
<1>6. DataKnown'
  BY <1>1, <1>2 DEF DataKnown, PhaseKnown, OnlyUpdates, SlotsKnown, Trying, Extracted, BeforeSwitch,
       AfterSnapshot, Terminal, Idle
<1>7. DshKnown'
  BY <1>1, <1>2 DEF DshKnown, PhaseKnown, OnlyUpdates, SlotsKnown, Trying, Extracted, BeforeSwitch,
       AfterSnapshot, Terminal, Idle, DshRuns, NoDsh
<1>8. ArchiveKnown'
  BY <1>1, <1>2 DEF ArchiveKnown, PhaseKnown, OnlyUpdates, SlotsKnown, BeforeSwitch, AfterSnapshot,
       Terminal, Idle
<1>9. WorkKnown'
  BY <1>1, <1>2 DEF WorkKnown, PhaseKnown, OnlyUpdates, SlotsKnown, DshKnown, DataKnown, Trying,
       Extracted, Archived, BeforeSwitch, AfterSnapshot, Terminal, Idle, DshRuns, NoDsh
<1> QED
  BY <1>3, <1>4, <1>5, <1>6, <1>7, <1>8, <1>9

(* From now on the candidate works on the data, which fit it. *)
LEMMA StageCandidateAlone ==
  ASSUME Undisturbed, Undisturbed', Upgrades, AloneInv, StageCandidate
  PROVE  Alone'
<1> USE DEF AloneInv, Alone
<1>1. TypeOK /\ TaskInv
  BY DEF Inv
<1>1a. /\ Copy[slots.current] \in Record /\ "switched" \in Step /\ "undo" \in Step /\ task.step = "stage"
      /\ task \in Task
  BY <1>1, UpdateAssumption DEF TypeOK, Step, StageCandidate, At
<1>2. /\ task.step = "stage" /\ task'.step \in {"switched", "undo"}
      /\ task'.who = task.who /\ task'.target = task.target
      /\ UNCHANGED <<journal, snapshots, data, reviving, boot, used>>
      /\ slots'.current = Copy[slots.current]
      /\ dsh' \in {NoDsh, Started(task.target)}
      /\ (staged' = staged \/ (staged' = task.target /\ task'.step = "switched"))
  <2>1. slots' = Slots(Copy[slots.current], slots.previous) /\ UNCHANGED <<journal, dataVars, reviving, boot, used>>
    BY DEF StageCandidate
  <2>2. slots'.current = Copy[slots.current]
    BY <2>1 DEF Slots
  <2>3. CASE staged' = task.target /\ dsh' = Started(task.target) /\ Goto("switched")
    BY <1>1a, <2>1, <2>2, <2>3, GotoStep DEF dataVars
  <2>4. CASE dsh' \in {NoDsh, Started(task.target)} /\ Goto("undo") /\ UNCHANGED staged
    <3>1. task'.step = "undo" /\ task'.who = task.who /\ task'.target = task.target
      BY <1>1a, <2>4, GotoStep
    <3> QED
      BY <1>1a, <2>1, <2>2, <2>4, <3>1 DEF dataVars
  <2> QED
    BY <2>3, <2>4 DEF StageCandidate
<1>3. OnlyUpdates'
  BY <1>1, <1>2 DEF OnlyUpdates, Terminal, Idle
<1>4. PhaseKnown'
  BY <1>1, <1>2 DEF PhaseKnown, OnlyUpdates, BeforeSwitch, AfterSnapshot, Idle
<1>5. SlotsKnown'
  <2>a. journal.phase = "snapshot-created" /\ task.target = journal.to /\ boot = "ready"
    BY <1>1, <1>2 DEF SlotsKnown, PhaseKnown, OnlyUpdates, Switching, AfterSnapshot, Idle
  <2>b. /\ journal.from \in Record /\ journal.to \in Record /\ Copy[journal.to] = journal.to
        /\ Matches(slots.current, journal.from) /\ DshVersion[slots.current] <= DshVersion[journal.to]
    BY <1>2, <2>a, AloneFacts DEF AfterSnapshot
  <2>c. ~Trying
    BY <1>2 DEF Trying
  <2>d. Trying'
    BY <1>2, <2>a DEF Trying, Extracted, AfterSnapshot
  <2>2. Matches(slots'.current, journal.from) /\ DshVersion[slots'.current] = DshVersion[slots.current]
    BY <1>2, <2>a, <2>b, <2>c, <2>d, AloneFacts, UpdateAssumption DEF Matches, Upgrades
  <2> QED
    BY <1>1, <1>2, <2>a, <2>b, <2>c, <2>d, <2>2 DEF SlotsKnown, Switching, Preparing, BeforeSwitch,
         AfterSnapshot
<1>6. DataKnown'
  <2>a. journal.phase = "snapshot-created" /\ task.target = journal.to /\ boot = "ready"
    BY <1>1, <1>2 DEF SlotsKnown, PhaseKnown, OnlyUpdates, Switching, AfterSnapshot, Idle
  <2>b. /\ journal.from \in Record /\ journal.to \in Record /\ Copy[journal.to] = journal.to
        /\ Matches(slots.current, journal.from) /\ DshVersion[slots.current] <= DshVersion[journal.to]
    BY <1>2, <2>a, AloneFacts DEF AfterSnapshot
  <2>c. ~Trying
    BY <1>2 DEF Trying
  <2>d. Trying'
    BY <1>2, <2>a DEF Trying, Extracted, AfterSnapshot
  <2>2. data # {} /\ Fits(data, journal.to)
    BY <2>a, <2>b, <2>c, <2>d, AloneFacts, FitsUp DEF DataKnown
  <2> QED
    BY <1>2, <2>a, <2>b, <2>c, <2>d, <2>2 DEF DataKnown, Extracted
<1>7. DshKnown'
  <2>a. journal.phase = "snapshot-created" /\ task.target = journal.to /\ boot = "ready"
    BY <1>1, <1>2 DEF SlotsKnown, PhaseKnown, OnlyUpdates, Switching, AfterSnapshot, Idle
  <2>b. /\ journal.from \in Record /\ journal.to \in Record /\ Copy[journal.to] = journal.to
        /\ Matches(slots.current, journal.from) /\ DshVersion[slots.current] <= DshVersion[journal.to]
    BY <1>2, <2>a, AloneFacts DEF AfterSnapshot
  <2>c. ~Trying
    BY <1>2 DEF Trying
  <2>d. Trying'
    BY <1>2, <2>a DEF Trying, Extracted, AfterSnapshot
  <2>2. data # {} /\ Fits(data, journal.to)
    BY <2>a, <2>b, <2>c, <2>d, AloneFacts, FitsUp DEF DataKnown
  <2>3. CASE dsh' = Started(task.target)
    <3>1. /\ DshRuns' /\ dsh'.read = data /\ Fits(dsh'.read, dsh'.record)
          /\ DshVersion[dsh'.record] = DshVersion[journal.to]
      BY <2>a, <2>b, <2>c, <2>d, <2>2, <2>3, AloneFacts, StartedFits
    <3> QED
      BY <1>2, <2>a, <2>b, <2>c, <2>d, <2>2, <3>1, Ordered DEF DshKnown
  <2>4. CASE dsh' = NoDsh
    BY <1>2, <2>4 DEF DshKnown, DshRuns
  <2> QED
    BY <1>2, <2>3, <2>4
<1>8. ArchiveKnown'
  BY <1>1, <1>2 DEF ArchiveKnown, PhaseKnown, OnlyUpdates, SlotsKnown, BeforeSwitch, AfterSnapshot,
       Terminal, Idle
<1>9. WorkKnown'
  <2>1. /\ ~DshRuns /\ journal.phase = "snapshot-created" /\ task.target = journal.to
    BY <1>1, <1>2 DEF SlotsKnown, PhaseKnown, DshKnown, Switching
  <2>2. journal.to \in Record /\ Copy[journal.to] = journal.to
    BY <2>1, AloneFacts DEF AfterSnapshot
  <2>3. Trying' /\ ~Extracted'
    BY <1>2, <2>1 DEF Trying, Extracted, AfterSnapshot
  <2>4. DshRuns' => dsh'.read \subseteq data /\ dsh'.record = journal.to
    BY <1>2, <2>1, <2>2 DEF Started, DshRuns
  <2> QED
    BY <1>2, <2>1, <2>3, <2>4 DEF WorkKnown, Archived, AfterSnapshot
<1> QED
  BY <1>3, <1>4, <1>5, <1>6, <1>7, <1>8, <1>9

(* The candidate becomes the current Deployment. *)
LEMMA CommitCandidateAlone ==
  ASSUME Undisturbed, Undisturbed', Upgrades, AloneInv, CommitCandidate
  PROVE  Alone'
<1> USE DEF AloneInv, Alone
<1>1. TypeOK /\ TaskInv
  BY DEF Inv
<1>2. /\ task.step = "commit" /\ task'.step \in {"committed", "undo"}
      /\ task'.who = task.who /\ task'.target = task.target
      /\ UNCHANGED <<journal, snapshots, data, dsh, reviving, boot, used>>
      /\ \/ slots'.current = task.target /\ staged' = NoRecord /\ task'.step = "committed"
         \/ slots' = slots /\ staged' = staged /\ task'.step = "undo"
  <2>1. used' # [used EXCEPT !.amiss = "yes"]
    BY <1>1 DEF Undisturbed, TypeOK, Used
  <2> QED
    BY <1>1, <2>1, GotoStep, SlotsType DEF CommitCandidate, TypeOK, Step, Slots, At, dataVars, dshVars
<1>3. OnlyUpdates'
  BY <1>1, <1>2 DEF OnlyUpdates, Terminal, Idle
<1>4. PhaseKnown'
  BY <1>1, <1>2 DEF PhaseKnown, OnlyUpdates, BeforeSwitch, AfterSnapshot, Idle
<1>5. SlotsKnown'
  <2>1. /\ journal.phase = "probation" /\ task.target = journal.to /\ journal.to = Candidate[used.updates]
        /\ used.updates \in 1..MaxUpdates /\ journal.from \in Record /\ journal.to \in Record
    BY <1>1, <1>2, AloneFacts DEF SlotsKnown, PhaseKnown, Switching, AfterSnapshot
  <2>2. \A n \in 1..MaxUpdates : n > used.updates => DshVersion[journal.to] <= DshVersion[Candidate[n]]
    BY <2>1 DEF Upgrades
  <2> QED
    BY <1>1, <1>2, <2>1, <2>2 DEF SlotsKnown, Switching, Preparing, BeforeSwitch, AfterSnapshot
<1>6. DataKnown'
  BY <1>1, <1>2 DEF DataKnown, PhaseKnown, OnlyUpdates, SlotsKnown, Trying, Extracted, BeforeSwitch,
       AfterSnapshot, Terminal, Idle
<1>7. DshKnown'
  BY <1>1, <1>2 DEF DshKnown, PhaseKnown, OnlyUpdates, SlotsKnown, Trying, Extracted, BeforeSwitch,
       AfterSnapshot, Terminal, Idle, DshRuns, NoDsh
<1>8. ArchiveKnown'
  BY <1>1, <1>2 DEF ArchiveKnown, PhaseKnown, OnlyUpdates, SlotsKnown, BeforeSwitch, AfterSnapshot,
       Terminal, Idle
<1>9. WorkKnown'
  BY <1>1, <1>2 DEF WorkKnown, PhaseKnown, OnlyUpdates, SlotsKnown, DshKnown, DataKnown, Trying,
       Extracted, Archived, BeforeSwitch, AfterSnapshot, Terminal, Idle, DshRuns, NoDsh
<1> QED
  BY <1>3, <1>4, <1>5, <1>6, <1>7, <1>8, <1>9

(* The transaction ends; a snapshot no journal names may go. *)
LEMMA CleanupAlone ==
  ASSUME Undisturbed, Undisturbed', Upgrades, AloneInv, Cleanup
  PROVE  Alone'
<1> USE DEF AloneInv, Alone
<1>1. TypeOK /\ TaskInv
  BY DEF Inv
<1>2. /\ task.step = "cleanup"
      /\ task' = Idle
      /\ UNCHANGED <<slots, staged, journal, data, dsh, reviving, boot, used>>
  BY <1>1 DEF Cleanup, Done, At, dataVars, dshVars
<1>3. OnlyUpdates'
  BY <1>1, <1>2 DEF OnlyUpdates, PhaseKnown, Terminal, Idle
<1>4. PhaseKnown'
  BY <1>1, <1>2 DEF PhaseKnown, OnlyUpdates, BeforeSwitch, AfterSnapshot, Idle
<1>5. SlotsKnown'
  BY <1>1, <1>2 DEF SlotsKnown, PhaseKnown, OnlyUpdates, Switching, Preparing, BeforeSwitch,
       AfterSnapshot, Terminal, Idle
<1>6. DataKnown'
  BY <1>1, <1>2 DEF DataKnown, PhaseKnown, OnlyUpdates, SlotsKnown, Trying, Extracted, BeforeSwitch,
       AfterSnapshot, Terminal, Idle
<1>7. DshKnown'
  BY <1>1, <1>2 DEF DshKnown, PhaseKnown, OnlyUpdates, SlotsKnown, Trying, Extracted, BeforeSwitch,
       AfterSnapshot, Terminal, Idle, DshRuns, NoDsh
<1>8. ArchiveKnown'
  BY <1>1, <1>2 DEF ArchiveKnown, PhaseKnown, OnlyUpdates, SlotsKnown, BeforeSwitch, AfterSnapshot,
       Terminal, Idle
<1>9. WorkKnown'
  BY <1>1, <1>2 DEF WorkKnown, PhaseKnown, OnlyUpdates, SlotsKnown, DshKnown, DataKnown, Trying,
       Extracted, Archived, BeforeSwitch, AfterSnapshot, Terminal, Idle, DshRuns, NoDsh
<1> QED
  BY <1>3, <1>4, <1>5, <1>6, <1>7, <1>8, <1>9

(* The failed transaction is abandoned, or undone. *)
LEMMA UndoAlone ==
  ASSUME Undisturbed, Undisturbed', Upgrades, AloneInv, Undo
  PROVE  Alone'
<1> USE DEF AloneInv, Alone
<1>1. TypeOK /\ TaskInv
  BY DEF Inv
<1>2. /\ task.step = "undo" /\ task'.step \in {"abandon", "stop"}
      /\ task'.who = task.who /\ task'.target = task.target
      /\ UNCHANGED <<slots, staged, snapshots, data, dsh, reviving, boot, used>>
      /\ journal'.from = journal.from /\ journal'.to = journal.to /\ journal'.snapshot = journal.snapshot
      /\ \/ task'.step = "abandon" /\ journal.phase \in BeforeSwitch /\ journal' = journal
         \/ task'.step = "stop" /\ journal.phase \in AfterSnapshot /\ journal'.phase = "restoring-data"
  BY <1>1, GotoStep, TransitionStep DEF Undo, TypeOK, OnlyUpdates, Step, Restoring, At,
       dataVars, dshVars
<1>3. OnlyUpdates'
  BY <1>1, <1>2 DEF OnlyUpdates, Terminal, Idle
<1>4. PhaseKnown'
  BY <1>1, <1>2 DEF PhaseKnown, OnlyUpdates, BeforeSwitch, AfterSnapshot, Idle
<1>5. SlotsKnown'
  BY <1>1, <1>2 DEF SlotsKnown, PhaseKnown, OnlyUpdates, Switching, Preparing, BeforeSwitch,
       AfterSnapshot, Terminal, Idle
<1>6. DataKnown'
  BY <1>1, <1>2 DEF DataKnown, PhaseKnown, OnlyUpdates, SlotsKnown, Trying, Extracted, BeforeSwitch,
       AfterSnapshot, Terminal, Idle
<1>7. DshKnown'
  BY <1>1, <1>2 DEF DshKnown, PhaseKnown, OnlyUpdates, SlotsKnown, Trying, Extracted, BeforeSwitch,
       AfterSnapshot, Terminal, Idle, DshRuns, NoDsh
<1>8. ArchiveKnown'
  BY <1>1, <1>2 DEF ArchiveKnown, PhaseKnown, OnlyUpdates, SlotsKnown, BeforeSwitch, AfterSnapshot,
       Terminal, Idle
<1>9. WorkKnown'
  BY <1>1, <1>2 DEF WorkKnown, PhaseKnown, OnlyUpdates, SlotsKnown, DshKnown, DataKnown, Trying,
       Extracted, Archived, BeforeSwitch, AfterSnapshot, Terminal, Idle, DshRuns, NoDsh
<1> QED
  BY <1>3, <1>4, <1>5, <1>6, <1>7, <1>8, <1>9

(* DSH starts again from the Deployment it was stopped with. *)
LEMMA AbandonAlone ==
  ASSUME Undisturbed, Undisturbed', Upgrades, AloneInv, Abandon
  PROVE  Alone'
<1> USE DEF AloneInv, Alone
<1>1. TypeOK /\ TaskInv
  BY DEF Inv
<1>2. /\ task.step = "abandon" /\ task'.step \in {"fail"}
      /\ task'.who = task.who /\ task'.target = task.target
      /\ UNCHANGED <<slots, staged, journal, snapshots, data, reviving, boot, used>>
      /\ dsh' \in {dsh, Started(View)}
  BY <1>1, GotoStep, ResumedAlone DEF Abandon, TypeOK, Step, At, dataVars,
       dshVars
<1>3. OnlyUpdates'
  BY <1>1, <1>2 DEF OnlyUpdates, Terminal, Idle
<1>4. PhaseKnown'
  BY <1>1, <1>2 DEF PhaseKnown, OnlyUpdates, BeforeSwitch, AfterSnapshot, Idle
<1>5. SlotsKnown'
  BY <1>1, <1>2 DEF SlotsKnown, PhaseKnown, OnlyUpdates, Switching, Preparing, BeforeSwitch,
       AfterSnapshot, Terminal, Idle
<1>6. DataKnown'
  BY <1>1, <1>2 DEF DataKnown, PhaseKnown, OnlyUpdates, SlotsKnown, Trying, Extracted, BeforeSwitch,
       AfterSnapshot, Terminal, Idle
<1>7. DshKnown'
  <2>1. /\ data # {} /\ Fits(data, slots.current) /\ journal.phase \in BeforeSwitch /\ staged = NoRecord
        /\ ~Trying /\ ~Trying' /\ boot = "ready"
    BY <1>1, <1>2 DEF DataKnown, PhaseKnown, SlotsKnown, OnlyUpdates, Trying, BeforeSwitch,
         AfterSnapshot, Idle
  <2>2. CASE dsh' = Started(View)
    <3>1. dsh' = Started(slots.current)
      BY <2>1, <2>2 DEF View
    <3>2. /\ DshRuns' /\ dsh'.read = data /\ Fits(dsh'.read, dsh'.record)
          /\ DshVersion[dsh'.record] = DshVersion[slots.current]
      BY <2>1, <3>1, AloneFacts, StartedFits
    <3> QED
      BY <1>2, <2>1, <3>2, AloneFacts, Ordered DEF DshKnown
  <2>3. CASE dsh' = dsh
    BY <1>2, <2>1, <2>3 DEF DshKnown, DshRuns
  <2> QED
    BY <1>2, <2>2, <2>3
<1>8. ArchiveKnown'
  BY <1>1, <1>2 DEF ArchiveKnown, PhaseKnown, OnlyUpdates, SlotsKnown, BeforeSwitch, AfterSnapshot,
       Terminal, Idle
<1>9. WorkKnown'
  <2>1. /\ staged = NoRecord /\ ~Trying /\ ~Trying' 
    BY <1>1, <1>2 DEF PhaseKnown, SlotsKnown, OnlyUpdates, Trying, Extracted, BeforeSwitch,
         AfterSnapshot,
                       Terminal, Idle
  <2>2. DshRuns' => dsh' = dsh \/ (dsh'.read = data /\ dsh'.record = Copy[slots.current])
    BY <1>2, <2>1 DEF Started, View
  <2> QED
    BY <1>2, <2>1, <2>2 DEF WorkKnown, Archived, Extracted, DshRuns, Idle, PhaseKnown, AfterSnapshot,
         Terminal, BeforeSwitch
<1> QED
  BY <1>3, <1>4, <1>5, <1>6, <1>7, <1>8, <1>9

(* The transaction that was abandoned ends. *)
LEMMA FailAlone ==
  ASSUME Undisturbed, Undisturbed', Upgrades, AloneInv, Fail
  PROVE  Alone'
<1> USE DEF AloneInv, Alone
<1>1. TypeOK /\ TaskInv
  BY DEF Inv
<1>2. /\ task.step = "fail"
      /\ task' = Idle
      /\ UNCHANGED <<slots, staged, snapshots, data, dsh, reviving, boot, used>>
      /\ journal'.phase = "failed"
  BY <1>1, TransitionStep DEF Fail, TypeOK, Done, At, dataVars, dshVars
<1>3. OnlyUpdates'
  BY <1>1, <1>2 DEF OnlyUpdates, Terminal, Idle
<1>4. PhaseKnown'
  BY <1>1, <1>2 DEF PhaseKnown, OnlyUpdates, BeforeSwitch, AfterSnapshot, Idle
<1>5. SlotsKnown'
  BY <1>1, <1>2 DEF SlotsKnown, PhaseKnown, OnlyUpdates, Switching, Preparing, BeforeSwitch,
       AfterSnapshot, Terminal, Idle
<1>6. DataKnown'
  BY <1>1, <1>2 DEF DataKnown, PhaseKnown, OnlyUpdates, SlotsKnown, Trying, Extracted, BeforeSwitch,
       AfterSnapshot, Terminal, Idle
<1>7. DshKnown'
  BY <1>1, <1>2 DEF DshKnown, PhaseKnown, OnlyUpdates, SlotsKnown, Trying, Extracted, BeforeSwitch,
       AfterSnapshot, Terminal, Idle, DshRuns, NoDsh
<1>8. ArchiveKnown'
  BY <1>1, <1>2 DEF ArchiveKnown, PhaseKnown, OnlyUpdates, SlotsKnown, BeforeSwitch, AfterSnapshot,
       Terminal, Idle
<1>9. WorkKnown'
  BY <1>1, <1>2 DEF WorkKnown, PhaseKnown, OnlyUpdates, SlotsKnown, DshKnown, DataKnown, Trying,
       Extracted, Archived, BeforeSwitch, AfterSnapshot, Terminal, Idle, DshRuns, NoDsh
<1> QED
  BY <1>3, <1>4, <1>5, <1>6, <1>7, <1>8, <1>9

(* No DSH runs while the data are replaced, ... *)
LEMMA StopDshAlone ==
  ASSUME Undisturbed, Undisturbed', Upgrades, AloneInv, StopDsh
  PROVE  Alone'
<1> USE DEF AloneInv, Alone
<1>1. TypeOK /\ TaskInv
  BY DEF Inv
<1>2. /\ task.step = "stop" /\ task'.step \in {"restore"}
      /\ task'.who = task.who /\ task'.target = task.target
      /\ UNCHANGED <<slots, staged, journal, snapshots, data, reviving, boot, used>>
      /\ dsh' = NoDsh
  BY <1>1, GotoStep DEF StopDsh, TypeOK, OnlyUpdates, Step, At, dataVars, dshVars
<1>3. OnlyUpdates'
  BY <1>1, <1>2 DEF OnlyUpdates, Terminal, Idle
<1>4. PhaseKnown'
  BY <1>1, <1>2 DEF PhaseKnown, OnlyUpdates, BeforeSwitch, AfterSnapshot, Idle
<1>5. SlotsKnown'
  BY <1>1, <1>2 DEF SlotsKnown, PhaseKnown, OnlyUpdates, Switching, Preparing, BeforeSwitch,
       AfterSnapshot, Terminal, Idle
<1>6. DataKnown'
  BY <1>1, <1>2 DEF DataKnown, PhaseKnown, OnlyUpdates, SlotsKnown, Trying, Extracted, BeforeSwitch,
       AfterSnapshot, Terminal, Idle
<1>7. DshKnown'
  BY <1>1, <1>2 DEF DshKnown, PhaseKnown, OnlyUpdates, SlotsKnown, Trying, Extracted, BeforeSwitch,
       AfterSnapshot, Terminal, Idle, DshRuns, NoDsh
<1>8. ArchiveKnown'
  BY <1>1, <1>2 DEF ArchiveKnown, PhaseKnown, OnlyUpdates, SlotsKnown, BeforeSwitch, AfterSnapshot,
       Terminal, Idle
<1>9. WorkKnown'
  BY <1>1, <1>2 DEF WorkKnown, PhaseKnown, OnlyUpdates, SlotsKnown, DshKnown, DataKnown, Trying,
       Extracted, Archived, BeforeSwitch, AfterSnapshot, Terminal, Idle, DshRuns, NoDsh
<1> QED
  BY <1>3, <1>4, <1>5, <1>6, <1>7, <1>8, <1>9

(* ... the Deployment is the current one still, ... *)
LEMMA RestoreDeploymentAlone ==
  ASSUME Undisturbed, Undisturbed', Upgrades, AloneInv, RestoreDeployment
  PROVE  Alone'
<1> USE DEF AloneInv, Alone
<1>1. TypeOK /\ TaskInv
  BY DEF Inv
<1>2. /\ task.step = "restore" /\ task'.step \in {"erase"}
      /\ task'.who = task.who /\ task'.target = task.target
      /\ UNCHANGED <<slots, journal, snapshots, data, dsh, reviving, boot, used>>
      /\ staged' = NoRecord
  BY <1>1, GotoStep DEF RestoreDeployment, TypeOK, OnlyUpdates, Step, TaskInv, RestoringTask,
       SlotsKnown, AfterSnapshot, At, dataVars, dshVars
<1>3. OnlyUpdates'
  BY <1>1, <1>2 DEF OnlyUpdates, Terminal, Idle
<1>4. PhaseKnown'
  BY <1>1, <1>2 DEF PhaseKnown, OnlyUpdates, BeforeSwitch, AfterSnapshot, Idle
<1>5. SlotsKnown'
  BY <1>1, <1>2 DEF SlotsKnown, PhaseKnown, OnlyUpdates, Switching, Preparing, BeforeSwitch,
       AfterSnapshot, Terminal, Idle
<1>6. DataKnown'
  BY <1>1, <1>2 DEF DataKnown, PhaseKnown, OnlyUpdates, SlotsKnown, Trying, Extracted, BeforeSwitch,
       AfterSnapshot, Terminal, Idle
<1>7. DshKnown'
  BY <1>1, <1>2 DEF DshKnown, PhaseKnown, OnlyUpdates, SlotsKnown, Trying, Extracted, BeforeSwitch,
       AfterSnapshot, Terminal, Idle, DshRuns, NoDsh
<1>8. ArchiveKnown'
  BY <1>1, <1>2 DEF ArchiveKnown, PhaseKnown, OnlyUpdates, SlotsKnown, BeforeSwitch, AfterSnapshot,
       Terminal, Idle
<1>9. WorkKnown'
  BY <1>1, <1>2 DEF WorkKnown, PhaseKnown, OnlyUpdates, SlotsKnown, DshKnown, DataKnown, Trying,
       Extracted, Archived, BeforeSwitch, AfterSnapshot, Terminal, Idle, DshRuns, NoDsh
<1> QED
  BY <1>3, <1>4, <1>5, <1>6, <1>7, <1>8, <1>9

(* ... the data of the candidate go, ... *)
LEMMA EraseDataAlone ==
  ASSUME Undisturbed, Undisturbed', Upgrades, AloneInv, EraseData
  PROVE  Alone'
<1> USE DEF AloneInv, Alone
<1>1. TypeOK /\ TaskInv
  BY DEF Inv
<1>0. SUFFICES ASSUME ~Fails PROVE Alone'
  <2>1. ASSUME Fails PROVE UNCHANGED <<slots, staged, journal, snapshots, data, dsh, reviving>>
                           /\ task # Idle /\ task.step # "committed"
    BY <1>1, <2>1, IdleTask, GotoStep DEF EraseData, Fails, Goto, At, Idle, TypeOK, Task, dataVars, dshVars
  <2> QED
    BY <2>1, FailsAlone
<1>2. /\ task.step = "erase" /\ task'.step \in {"extract"}
      /\ task'.who = task.who /\ task'.target = task.target
      /\ UNCHANGED <<slots, staged, journal, snapshots, dsh, reviving, boot, used>>
      /\ data' = {}
  BY <1>0, <1>1, GotoStep DEF EraseData, TypeOK, OnlyUpdates, Step, TaskInv, RestoringTask, InPlace,
       ArchiveKnown, AfterSnapshot, At, dataVars, dshVars
<1>3. OnlyUpdates'
  BY <1>1, <1>2 DEF OnlyUpdates, Terminal, Idle
<1>4. PhaseKnown'
  BY <1>1, <1>2 DEF PhaseKnown, OnlyUpdates, BeforeSwitch, AfterSnapshot, Idle
<1>5. SlotsKnown'
  BY <1>1, <1>2 DEF SlotsKnown, PhaseKnown, OnlyUpdates, Switching, Preparing, BeforeSwitch,
       AfterSnapshot, Terminal, Idle
<1>6. DataKnown'
  <2>1. journal.phase = "restoring-data"
    BY <1>1, <1>2 DEF TaskInv, RestoringTask, InPlace
  <2> QED
    BY <1>1, <1>2, <2>1, AloneFacts, FitsParts DEF DataKnown, Trying, Extracted, AfterSnapshot
<1>7. DshKnown'
  BY <1>1, <1>2 DEF DshKnown, PhaseKnown, OnlyUpdates, SlotsKnown, Trying, Extracted, BeforeSwitch,
       AfterSnapshot, Terminal, Idle, DshRuns, NoDsh
<1>8. ArchiveKnown'
  BY <1>1, <1>2 DEF ArchiveKnown, PhaseKnown, OnlyUpdates, SlotsKnown, BeforeSwitch, AfterSnapshot,
       Terminal, Idle
<1>9. WorkKnown'
  <2>1. journal.phase = "restoring-data" /\ ~DshRuns
    BY <1>1, <1>2 DEF TaskInv, RestoringTask, InPlace, DshKnown
  <2> QED
    BY <1>2, <2>1 DEF WorkKnown, DshRuns, Extracted, AfterSnapshot
<1> QED
  BY <1>3, <1>4, <1>5, <1>6, <1>7, <1>8, <1>9

(* ... and those that were archived take their place, ... *)
LEMMA ExtractDataAlone ==
  ASSUME Undisturbed, Undisturbed', Upgrades, AloneInv, ExtractData
  PROVE  Alone'
<1> USE DEF AloneInv, Alone
<1>1. TypeOK /\ TaskInv
  BY DEF Inv
<1>0. SUFFICES ASSUME ~Fails PROVE Alone'
  <2>1. ASSUME Fails PROVE UNCHANGED <<slots, staged, journal, snapshots, data, dsh, reviving>>
                           /\ task # Idle /\ task.step # "committed"
    BY <1>1, <2>1, IdleTask, GotoStep DEF ExtractData, Fails, Goto, At, Idle, TypeOK, Task, dataVars, dshVars
  <2> QED
    BY <2>1, FailsAlone
<1>2. /\ task.step = "extract" /\ task'.step \in {"finish", "resume"}
      /\ task'.who = task.who /\ task'.target = task.target
      /\ task'.step = "finish" <=> task.who = "boot"
      /\ UNCHANGED <<slots, staged, journal, snapshots, dsh, reviving, boot, used>>
      /\ data' = data \union snapshots[journal.snapshot]
  BY <1>0, <1>1, GotoStep DEF ExtractData, TypeOK, OnlyUpdates, Step, At, dataVars, dshVars
<1>3. OnlyUpdates'
  BY <1>1, <1>2 DEF OnlyUpdates, Terminal, Idle
<1>4. PhaseKnown'
  BY <1>1, <1>2 DEF PhaseKnown, OnlyUpdates, BeforeSwitch, AfterSnapshot, Idle
<1>5. SlotsKnown'
  BY <1>1, <1>2 DEF SlotsKnown, PhaseKnown, OnlyUpdates, Switching, Preparing, BeforeSwitch,
       AfterSnapshot, Terminal, Idle
<1>6. DataKnown'
  <2>1. journal.phase = "restoring-data"
    BY <1>1, <1>2 DEF TaskInv, RestoringTask, InPlace
  <2>2. /\ data = {} /\ snapshots[journal.snapshot] # {} /\ Fits(snapshots[journal.snapshot], journal.from)
        /\ snapshots[journal.snapshot] \in SUBSET Record
    BY <1>2, <2>1, AloneFacts DEF DataKnown, ArchiveKnown, AfterSnapshot
  <2>3. Fits(snapshots[journal.snapshot], slots.current)
    BY <1>2, <2>1, <2>2, AloneFacts, FitsUp, Ordered DEF AfterSnapshot
  <2>4. data' = snapshots[journal.snapshot]
    BY <1>2, <2>2
  <2> QED
    BY <1>2, <2>1, <2>2, <2>3, <2>4 DEF DataKnown, Trying, Extracted, AfterSnapshot
<1>7. DshKnown'
  BY <1>1, <1>2 DEF DshKnown, PhaseKnown, OnlyUpdates, SlotsKnown, Trying, Extracted, BeforeSwitch,
       AfterSnapshot, Terminal, Idle, DshRuns, NoDsh
<1>8. ArchiveKnown'
  BY <1>1, <1>2 DEF ArchiveKnown, PhaseKnown, OnlyUpdates, SlotsKnown, BeforeSwitch, AfterSnapshot,
       Terminal, Idle
<1>9. WorkKnown'
  BY <1>1, <1>2 DEF WorkKnown, PhaseKnown, OnlyUpdates, SlotsKnown, DshKnown, DataKnown, Trying,
       Extracted, Archived, BeforeSwitch, AfterSnapshot, Terminal, Idle, DshRuns, NoDsh
<1> QED
  BY <1>3, <1>4, <1>5, <1>6, <1>7, <1>8, <1>9

(* ... on which the DSH they are of starts. *)
LEMMA ResumeDshAlone ==
  ASSUME Undisturbed, Undisturbed', Upgrades, AloneInv, ResumeDsh
  PROVE  Alone'
<1> USE DEF AloneInv, Alone
<1>1. TypeOK /\ TaskInv
  BY DEF Inv
<1>1a. /\ task.step = "resume" /\ task \in Task /\ task.who = "update" /\ "verify" \in Step
       /\ dsh' \in Resumed /\ Goto("verify") /\ UNCHANGED <<slots, staged, journal, dataVars, reviving, boot, used>>
  <2>1. task.step = "resume" /\ task \in Task /\ task.who = "update" /\ "verify" \in Step
    BY <1>1, IdleTask DEF TypeOK, Task, Who, Step, ResumeDsh, At, OnlyUpdates
  <2>2. ~Fails
    BY <1>1, <2>1 DEF Fails, Undisturbed, TypeOK, Used
  <2> QED
    BY <2>1, <2>2 DEF ResumeDsh
<1>2. /\ task.step = "resume" /\ task'.step = "verify"
      /\ task'.who = task.who /\ task'.target = task.target
      /\ UNCHANGED <<slots, staged, journal, snapshots, data, reviving, boot, used>>
      /\ DshRuns => dsh' = dsh
      /\ ~DshRuns => dsh' = Started(View) \/ (reviving = TRUE /\ dsh' = dsh)
  <2>2. task'.step = "verify" /\ task'.who = task.who /\ task'.target = task.target
    BY <1>1a, GotoStep
  <2>3. /\ DshRuns => dsh' = dsh
        /\ ~DshRuns => dsh' = Started(View) \/ (reviving = TRUE /\ dsh' = dsh)
    BY <1>1, <1>1a, ResumedAlone DEF TypeOK
  <2> QED
    BY <1>1a, <2>2, <2>3 DEF dataVars
<1>3. OnlyUpdates'
  BY <1>1, <1>2 DEF OnlyUpdates, Terminal, Idle
<1>4. PhaseKnown'
  BY <1>1, <1>2 DEF PhaseKnown, OnlyUpdates, BeforeSwitch, AfterSnapshot, Idle
<1>5. SlotsKnown'
  BY <1>1, <1>2 DEF SlotsKnown, PhaseKnown, OnlyUpdates, Switching, Preparing, BeforeSwitch,
       AfterSnapshot, Terminal, Idle
<1>6. DataKnown'
  BY <1>1, <1>2 DEF DataKnown, PhaseKnown, OnlyUpdates, SlotsKnown, Trying, Extracted, BeforeSwitch,
       AfterSnapshot, Terminal, Idle
<1>7. DshKnown'
  <2>1. /\ data # {} /\ Fits(data, slots.current) /\ staged = NoRecord
        /\ ~Trying /\ ~Trying' /\ boot = "ready"
    BY <1>1, <1>2 DEF DataKnown, SlotsKnown, OnlyUpdates, Trying, Extracted, Idle
  <2>2. CASE ~DshRuns /\ dsh' = Started(View)
    <3>1. dsh' = Started(slots.current)
      BY <1>2, <2>1, <2>2 DEF View
    <3>2. /\ DshRuns' /\ dsh'.read = data /\ Fits(dsh'.read, dsh'.record)
          /\ DshVersion[dsh'.record] = DshVersion[slots.current]
      BY <2>1, <3>1, AloneFacts, StartedFits
    <3> QED
      BY <1>2, <2>1, <3>2, AloneFacts, Ordered DEF DshKnown
  <2>3. CASE DshRuns
    BY <1>2, <2>1, <2>3 DEF DshKnown, DshRuns
  <2>4. CASE ~DshRuns /\ reviving = TRUE /\ dsh' = dsh
    BY <1>2, <2>1, <2>4 DEF DshKnown, DshRuns
  <2> QED
    BY <1>2, <2>2, <2>3, <2>4
<1>8. ArchiveKnown'
  BY <1>1, <1>2 DEF ArchiveKnown, PhaseKnown, OnlyUpdates, SlotsKnown, BeforeSwitch, AfterSnapshot,
       Terminal, Idle
<1>9. WorkKnown'
  <2>1. /\ staged = NoRecord /\ ~Trying /\ ~Trying' 
    BY <1>1, <1>2 DEF PhaseKnown, SlotsKnown, OnlyUpdates, Trying, Extracted, BeforeSwitch,
         AfterSnapshot,
                       Terminal, Idle
  <2>2. DshRuns' => dsh' = dsh \/ (dsh'.read = data /\ dsh'.record = Copy[slots.current])
    BY <1>2, <2>1 DEF Started, View
  <2> QED
    BY <1>2, <2>1, <2>2 DEF WorkKnown, Archived, Extracted, DshRuns, Idle, PhaseKnown, AfterSnapshot,
         Terminal, BeforeSwitch
<1> QED
  BY <1>3, <1>4, <1>5, <1>6, <1>7, <1>8, <1>9

(* It is asked whether it runs. *)
LEMMA VerifyHealthAlone ==
  ASSUME Undisturbed, Undisturbed', Upgrades, AloneInv, VerifyHealth
  PROVE  Alone'
<1> USE DEF AloneInv, Alone
<1>1. TypeOK /\ TaskInv
  BY DEF Inv
<1>2. /\ task.step = "verify" /\ task'.step \in {"finish"}
      /\ task'.who = task.who /\ task'.target = task.target
      /\ UNCHANGED <<slots, staged, journal, snapshots, data, dsh, reviving, boot, used>>
  <2>1. task.step = "verify" /\ task \in Task /\ task.who = "update" /\ "finish" \in Step
    BY <1>1, IdleTask DEF TypeOK, Task, Who, Step, VerifyHealth, At, OnlyUpdates
  <2>2. ~Fails
    BY <1>1, <2>1 DEF Fails, Undisturbed, TypeOK, Used
  <2> QED
    BY <2>1, <2>2, GotoStep DEF VerifyHealth, dataVars, dshVars
<1>3. OnlyUpdates'
  BY <1>1, <1>2 DEF OnlyUpdates, Terminal, Idle
<1>4. PhaseKnown'
  BY <1>1, <1>2 DEF PhaseKnown, OnlyUpdates, BeforeSwitch, AfterSnapshot, Idle
<1>5. SlotsKnown'
  BY <1>1, <1>2 DEF SlotsKnown, PhaseKnown, OnlyUpdates, Switching, Preparing, BeforeSwitch,
       AfterSnapshot, Terminal, Idle
<1>6. DataKnown'
  BY <1>1, <1>2 DEF DataKnown, PhaseKnown, OnlyUpdates, SlotsKnown, Trying, Extracted, BeforeSwitch,
       AfterSnapshot, Terminal, Idle
<1>7. DshKnown'
  BY <1>1, <1>2 DEF DshKnown, PhaseKnown, OnlyUpdates, SlotsKnown, Trying, Extracted, BeforeSwitch,
       AfterSnapshot, Terminal, Idle, DshRuns, NoDsh
<1>8. ArchiveKnown'
  BY <1>1, <1>2 DEF ArchiveKnown, PhaseKnown, OnlyUpdates, SlotsKnown, BeforeSwitch, AfterSnapshot,
       Terminal, Idle
<1>9. WorkKnown'
  BY <1>1, <1>2 DEF WorkKnown, PhaseKnown, OnlyUpdates, SlotsKnown, DshKnown, DataKnown, Trying,
       Extracted, Archived, BeforeSwitch, AfterSnapshot, Terminal, Idle, DshRuns, NoDsh
<1> QED
  BY <1>3, <1>4, <1>5, <1>6, <1>7, <1>8, <1>9

(* The transaction that was undone ends. *)
LEMMA FinishRestoreAlone ==
  ASSUME Undisturbed, Undisturbed', Upgrades, AloneInv, FinishRestore
  PROVE  Alone'
<1> USE DEF AloneInv, Alone
<1>1. TypeOK /\ TaskInv
  BY DEF Inv
<1>2. /\ task.step = "finish"
      /\ task' = Idle
      /\ UNCHANGED <<slots, staged, snapshots, data, dsh, reviving, used>>
      /\ journal'.phase = "rolled-back"
      /\ boot' = IF task.who = "boot" THEN "start" ELSE boot
  BY <1>1, TransitionStep DEF FinishRestore, TypeOK, At, dataVars, dshVars
<1>3. OnlyUpdates'
  BY <1>1, <1>2 DEF OnlyUpdates, Terminal, Idle
<1>4. PhaseKnown'
  BY <1>1, <1>2 DEF PhaseKnown, OnlyUpdates, BeforeSwitch, AfterSnapshot, Idle
<1>5. SlotsKnown'
  BY <1>1, <1>2 DEF SlotsKnown, PhaseKnown, OnlyUpdates, Switching, Preparing, BeforeSwitch,
       AfterSnapshot, Terminal, Idle
<1>6. DataKnown'
  BY <1>1, <1>2 DEF DataKnown, PhaseKnown, OnlyUpdates, SlotsKnown, Trying, Extracted, BeforeSwitch,
       AfterSnapshot, Terminal, Idle
<1>7. DshKnown'
  BY <1>1, <1>2 DEF DshKnown, PhaseKnown, OnlyUpdates, SlotsKnown, Trying, Extracted, BeforeSwitch,
       AfterSnapshot, Terminal, Idle, DshRuns, NoDsh
<1>8. ArchiveKnown'
  BY <1>1, <1>2 DEF ArchiveKnown, PhaseKnown, OnlyUpdates, SlotsKnown, BeforeSwitch, AfterSnapshot,
       Terminal, Idle
<1>9. WorkKnown'
  BY <1>1, <1>2 DEF WorkKnown, PhaseKnown, OnlyUpdates, SlotsKnown, DshKnown, DataKnown, Trying,
       Extracted, Archived, BeforeSwitch, AfterSnapshot, Terminal, Idle, DshRuns, NoDsh
<1> QED
  BY <1>3, <1>4, <1>5, <1>6, <1>7, <1>8, <1>9

(* DSH puts its own mark, and what it read, on the data. *)
LEMMA DshWritesAlone ==
  ASSUME Undisturbed, Undisturbed', Upgrades, AloneInv, DshWrites
  PROVE  Alone'
<1> USE DEF AloneInv, Alone
<1>1. TypeOK /\ TaskInv
  BY DEF Inv
<1>2. /\ DshRuns
      /\ UNCHANGED <<slots, staged, journal, snapshots, dsh, reviving, boot, task, used>>
      /\ data' = data \union dsh.read \union {dsh.record}
      /\ dsh.record \in Record /\ dsh.read \in SUBSET Record
  BY <1>1 DEF DshWrites, TypeOK, DshRuns, NoDsh, At, dataVars, dshVars
<1>3. OnlyUpdates'
  BY <1>1, <1>2 DEF OnlyUpdates, Terminal, Idle
<1>4. PhaseKnown'
  BY <1>1, <1>2 DEF PhaseKnown, OnlyUpdates, BeforeSwitch, AfterSnapshot, Idle
<1>5. SlotsKnown'
  BY <1>1, <1>2 DEF SlotsKnown, PhaseKnown, OnlyUpdates, Switching, Preparing, BeforeSwitch,
       AfterSnapshot, Terminal, Idle
<1>6. DataKnown'
  <2>1. data' # {} /\ task.step # "extract"
    BY <1>1, <1>2 DEF DshKnown
  <2>2. ASSUME Trying PROVE Fits(data', journal.to)
    <3>1. /\ Fits(data, journal.to) /\ Fits(dsh.read, dsh.record) /\ DshVersion[dsh.record] <= DshVersion[journal.to]
          /\ journal.to \in Record
      BY <1>2, <2>2, AloneFacts DEF DataKnown, DshKnown, Trying
    <3>2. Fits(dsh.read, journal.to) /\ Fits({dsh.record}, journal.to)
      BY <1>2, <3>1, FitsUp, FitsParts
    <3> QED
      BY <1>2, <3>1, <3>2, FitsParts
  <2>3. ASSUME ~Trying PROVE Fits(data', slots.current)
    <3>1. /\ Fits(data, slots.current) /\ Fits(dsh.read, dsh.record)
          /\ DshVersion[dsh.record] <= DshVersion[slots.current] /\ slots.current \in Record
      BY <1>2, <2>3, AloneFacts DEF DataKnown, DshKnown
    <3>2. Fits(dsh.read, slots.current) /\ Fits({dsh.record}, slots.current)
      BY <1>2, <3>1, FitsUp, FitsParts
    <3> QED
      BY <1>2, <3>1, <3>2, FitsParts
  <2> QED
    BY <1>2, <2>1, <2>2, <2>3 DEF DataKnown, Trying, Extracted
<1>7. DshKnown'
  BY <1>1, <1>2 DEF DshKnown, PhaseKnown, OnlyUpdates, SlotsKnown, Trying, Extracted, BeforeSwitch,
       AfterSnapshot, Terminal, Idle, DshRuns, NoDsh
<1>8. ArchiveKnown'
  BY <1>1, <1>2 DEF ArchiveKnown, PhaseKnown, OnlyUpdates, SlotsKnown, BeforeSwitch, AfterSnapshot,
       Terminal, Idle
<1>9. WorkKnown'
  <2>1. dsh.read \subseteq data /\ data' = data \union {dsh.record}
    BY <1>2 DEF WorkKnown
  <2>2. (Trying' <=> Trying) /\ (Extracted' <=> Extracted) /\ DshRuns'
    BY <1>2 DEF Trying, Extracted, DshRuns
  <2>3. task.step # "bind" /\ task.step # "stage"
    BY <1>2 DEF DshKnown
  <2>4. ASSUME journal.phase \in AfterSnapshot \ {"restoring-data"}
        PROVE  data' = Archived \/ data' = Archived \union {journal.to}
    <3>1. Trying
      BY <1>1, <2>3, <2>4 DEF Trying, Extracted, TaskInv, RestoringTask, InPlace
    <3> QED
      BY <1>2, <2>1, <2>4, <3>1 DEF WorkKnown
  <2>5. ASSUME Extracted
        PROVE  data' = Archived \/ data' = Archived \union {Copy[journal.from]}
    <3>1. ~Trying /\ dsh.record = Copy[slots.current] /\ Copy[slots.current] = Copy[journal.from]
      <4>1. ~Trying /\ journal.phase = "restoring-data" /\ task.step # "committed"
        BY <1>1, <2>5 DEF Trying, Extracted, TaskInv, RestoringTask, InPlace
      <4>2. Matches(slots.current, journal.from)
        BY <4>1, AloneFacts DEF AfterSnapshot
      <4> QED
        BY <1>2, <4>1, <4>2 DEF WorkKnown, Matches
    <3> QED
      BY <2>1, <2>5, <3>1 DEF WorkKnown
  <2> QED
    BY <1>2, <2>1, <2>2, <2>3, <2>4, <2>5 DEF WorkKnown, Archived
<1> QED
  BY <1>3, <1>4, <1>5, <1>6, <1>7, <1>8, <1>9

(* The user stops DSH ... *)
LEMMA UserStopsAlone ==
  ASSUME Undisturbed, Undisturbed', Upgrades, AloneInv, UserStops
  PROVE  Alone'
<1> USE DEF AloneInv, Alone
<1>1. TypeOK /\ TaskInv
  BY DEF Inv
<1>2. /\ boot = "ready" /\ task = Idle
      /\ UNCHANGED <<slots, staged, journal, snapshots, data, reviving, boot, task, used>>
      /\ dsh' = NoDsh
  BY <1>1 DEF UserStops, Resting, At, dataVars, dshVars
<1>3. OnlyUpdates'
  BY <1>1, <1>2 DEF OnlyUpdates, Terminal, Idle
<1>4. PhaseKnown'
  BY <1>1, <1>2 DEF PhaseKnown, OnlyUpdates, BeforeSwitch, AfterSnapshot, Idle
<1>5. SlotsKnown'
  BY <1>1, <1>2 DEF SlotsKnown, PhaseKnown, OnlyUpdates, Switching, Preparing, BeforeSwitch,
       AfterSnapshot, Terminal, Idle
<1>6. DataKnown'
  BY <1>1, <1>2 DEF DataKnown, PhaseKnown, OnlyUpdates, SlotsKnown, Trying, Extracted, BeforeSwitch,
       AfterSnapshot, Terminal, Idle
<1>7. DshKnown'
  BY <1>1, <1>2 DEF DshKnown, PhaseKnown, OnlyUpdates, SlotsKnown, Trying, Extracted, BeforeSwitch,
       AfterSnapshot, Terminal, Idle, DshRuns, NoDsh
<1>8. ArchiveKnown'
  BY <1>1, <1>2 DEF ArchiveKnown, PhaseKnown, OnlyUpdates, SlotsKnown, BeforeSwitch, AfterSnapshot,
       Terminal, Idle
<1>9. WorkKnown'
  BY <1>1, <1>2 DEF WorkKnown, PhaseKnown, OnlyUpdates, SlotsKnown, DshKnown, DataKnown, Trying,
       Extracted, Archived, BeforeSwitch, AfterSnapshot, Terminal, Idle, DshRuns, NoDsh
<1> QED
  BY <1>3, <1>4, <1>5, <1>6, <1>7, <1>8, <1>9

(* ... and starts it. *)
LEMMA UserStartsAlone ==
  ASSUME Undisturbed, Undisturbed', Upgrades, AloneInv, UserStarts
  PROVE  Alone'
<1> USE DEF AloneInv, Alone
<1>1. TypeOK /\ TaskInv
  BY DEF Inv
<1>2. /\ boot = "ready" /\ task = Idle
      /\ UNCHANGED <<slots, staged, journal, snapshots, data, reviving, boot, task, used>>
      /\ dsh' = Started(View)
  BY <1>1 DEF UserStarts, Resting, At, dataVars, dshVars
<1>3. OnlyUpdates'
  BY <1>1, <1>2 DEF OnlyUpdates, Terminal, Idle
<1>4. PhaseKnown'
  BY <1>1, <1>2 DEF PhaseKnown, OnlyUpdates, BeforeSwitch, AfterSnapshot, Idle
<1>5. SlotsKnown'
  BY <1>1, <1>2 DEF SlotsKnown, PhaseKnown, OnlyUpdates, Switching, Preparing, BeforeSwitch,
       AfterSnapshot, Terminal, Idle
<1>6. DataKnown'
  BY <1>1, <1>2 DEF DataKnown, PhaseKnown, OnlyUpdates, SlotsKnown, Trying, Extracted, BeforeSwitch,
       AfterSnapshot, Terminal, Idle
<1>7. DshKnown'
  <2>1. /\ data # {} /\ Fits(data, slots.current) /\ staged = NoRecord
        /\ ~Trying /\ ~Trying' 
    BY <1>1, <1>2 DEF DataKnown, PhaseKnown, SlotsKnown, OnlyUpdates, Trying, Extracted, BeforeSwitch,
         AfterSnapshot,
                       Terminal, Idle
  <2>2. dsh' = Started(slots.current)
    BY <1>2, <2>1 DEF View
  <2>3. /\ DshRuns' /\ dsh'.read = data /\ Fits(dsh'.read, dsh'.record)
        /\ DshVersion[dsh'.record] = DshVersion[slots.current]
    BY <2>1, <2>2, AloneFacts, StartedFits
  <2> QED
    BY <1>2, <2>1, <2>3, AloneFacts, Ordered DEF DshKnown, Idle
<1>8. ArchiveKnown'
  BY <1>1, <1>2 DEF ArchiveKnown, PhaseKnown, OnlyUpdates, SlotsKnown, BeforeSwitch, AfterSnapshot,
       Terminal, Idle
<1>9. WorkKnown'
  <2>1. /\ staged = NoRecord /\ ~Trying /\ ~Trying' 
    BY <1>1, <1>2 DEF PhaseKnown, SlotsKnown, OnlyUpdates, Trying, Extracted, BeforeSwitch,
         AfterSnapshot,
                       Terminal, Idle
  <2>2. DshRuns' => dsh' = dsh \/ (dsh'.read = data /\ dsh'.record = Copy[slots.current])
    BY <1>2, <2>1 DEF Started, View
  <2> QED
    BY <1>2, <2>1, <2>2 DEF WorkKnown, Archived, Extracted, DshRuns, Idle, PhaseKnown, AfterSnapshot,
         Terminal, BeforeSwitch
<1> QED
  BY <1>3, <1>4, <1>5, <1>6, <1>7, <1>8, <1>9

(* The container is lost, and with it the task and DSH. *)
LEMMA CrashAlone ==
  ASSUME Undisturbed, Undisturbed', Upgrades, AloneInv, Crash
  PROVE  Alone'
<1> USE DEF AloneInv, Alone
<1>1. TypeOK /\ TaskInv
  BY DEF Inv
<1>2. /\ boot' = "down" /\ task' = Idle /\ dsh' = NoDsh /\ reviving' = FALSE
      /\ task.step # "committed" /\ boot # "down"
      /\ UNCHANGED <<slots, staged, journal, snapshots, data>>
      /\ used'.updates = used.updates
  BY <1>1 DEF Crash, TypeOK, Used, Undisturbed, At, dataVars, dshVars
<1>3. OnlyUpdates'
  BY <1>1, <1>2 DEF OnlyUpdates, Terminal, Idle
<1>4. PhaseKnown'
  BY <1>1, <1>2 DEF PhaseKnown, OnlyUpdates, BeforeSwitch, AfterSnapshot, Idle
<1>5. SlotsKnown'
  BY <1>1, <1>2 DEF SlotsKnown, PhaseKnown, OnlyUpdates, Switching, Preparing, BeforeSwitch,
       AfterSnapshot, Terminal, Idle
<1>6. DataKnown'
  <2>1. journal.phase # "restoring-data" => data # {}
    BY DEF DataKnown
  <2>2. ASSUME journal.phase \in AfterSnapshot PROVE Fits(data, journal.to)
    <3>1. CASE Trying
      BY <3>1 DEF DataKnown
    <3>2. CASE ~Trying
      BY <1>2, <2>2, <3>2, AloneFacts, FitsUp DEF DataKnown
    <3> QED
      BY <3>1, <3>2
  <2>3. ASSUME journal.phase \notin AfterSnapshot PROVE Fits(data, slots.current)
    BY <2>3 DEF DataKnown, Trying
  <2> QED
    BY <1>2, <2>1, <2>2, <2>3 DEF DataKnown, Trying, Extracted, Idle
<1>7. DshKnown'
  BY <1>1, <1>2 DEF DshKnown, PhaseKnown, OnlyUpdates, SlotsKnown, Trying, Extracted, BeforeSwitch,
       AfterSnapshot, Terminal, Idle, DshRuns, NoDsh
<1>8. ArchiveKnown'
  BY <1>1, <1>2 DEF ArchiveKnown, PhaseKnown, OnlyUpdates, SlotsKnown, BeforeSwitch, AfterSnapshot,
       Terminal, Idle
<1>9. WorkKnown'
  BY <1>1, <1>2 DEF WorkKnown, PhaseKnown, OnlyUpdates, SlotsKnown, DshKnown, DataKnown, Trying,
       Extracted, Archived, BeforeSwitch, AfterSnapshot, Terminal, Idle, DshRuns, NoDsh
<1> QED
  BY <1>3, <1>4, <1>5, <1>6, <1>7, <1>8, <1>9

(* Bootstrap ends the activation it finds. *)
LEMMA BootstrapStartsAlone ==
  ASSUME Undisturbed, Undisturbed', Upgrades, AloneInv, BootstrapStarts
  PROVE  Alone'
<1> USE DEF AloneInv, Alone
<1>1. TypeOK /\ TaskInv
  BY DEF Inv
<1>2. /\ boot = "down" /\ boot' = "recover" /\ staged' = NoRecord
      /\ UNCHANGED <<slots, journal, snapshots, data, dsh, reviving, task, used>>
  BY <1>1 DEF BootstrapStarts, TypeOK, At, dataVars, dshVars
<1>3. OnlyUpdates'
  BY <1>1, <1>2 DEF OnlyUpdates, Terminal, Idle
<1>4. PhaseKnown'
  BY <1>1, <1>2 DEF PhaseKnown, OnlyUpdates, BeforeSwitch, AfterSnapshot, Idle
<1>5. SlotsKnown'
  BY <1>1, <1>2 DEF SlotsKnown, PhaseKnown, OnlyUpdates, Switching, Preparing, BeforeSwitch,
       AfterSnapshot, Terminal, Idle
<1>6. DataKnown'
  BY <1>1, <1>2 DEF DataKnown, PhaseKnown, OnlyUpdates, SlotsKnown, Trying, Extracted, BeforeSwitch,
       AfterSnapshot, Terminal, Idle
<1>7. DshKnown'
  BY <1>1, <1>2 DEF DshKnown, PhaseKnown, OnlyUpdates, SlotsKnown, Trying, Extracted, BeforeSwitch,
       AfterSnapshot, Terminal, Idle, DshRuns, NoDsh
<1>8. ArchiveKnown'
  BY <1>1, <1>2 DEF ArchiveKnown, PhaseKnown, OnlyUpdates, SlotsKnown, BeforeSwitch, AfterSnapshot,
       Terminal, Idle
<1>9. WorkKnown'
  BY <1>1, <1>2 DEF WorkKnown, PhaseKnown, OnlyUpdates, SlotsKnown, DshKnown, DataKnown, Trying,
       Extracted, Archived, BeforeSwitch, AfterSnapshot, Terminal, Idle, DshRuns, NoDsh
<1> QED
  BY <1>3, <1>4, <1>5, <1>6, <1>7, <1>8, <1>9

(* DSH starts from the current Deployment. *)
LEMMA StartDeploymentAlone ==
  ASSUME Undisturbed, Undisturbed', Upgrades, AloneInv, StartDeployment
  PROVE  Alone'
<1> USE DEF AloneInv, Alone
<1>1. TypeOK /\ TaskInv
  BY DEF Inv
<1>2. /\ boot = "start" /\ boot' = "ready" /\ task = Idle
      /\ UNCHANGED <<slots, staged, journal, snapshots, data, reviving, task, used>>
      /\ ~DshRuns /\ dsh' \in {dsh, Started(slots.current)}
  <2>1. used' # [used EXCEPT !.amiss = "yes"]
    BY <1>1 DEF Undisturbed, TypeOK, Used
  <2> QED
    BY <1>1, <2>1 DEF StartDeployment, TaskInv, DshKnown, At, dataVars, dshVars
<1>3. OnlyUpdates'
  BY <1>1, <1>2 DEF OnlyUpdates, Terminal, Idle
<1>4. PhaseKnown'
  BY <1>1, <1>2 DEF PhaseKnown, OnlyUpdates, BeforeSwitch, AfterSnapshot, Idle
<1>5. SlotsKnown'
  BY <1>1, <1>2 DEF SlotsKnown, PhaseKnown, OnlyUpdates, Switching, Preparing, BeforeSwitch,
       AfterSnapshot, Terminal, Idle
<1>6. DataKnown'
  BY <1>1, <1>2 DEF DataKnown, PhaseKnown, OnlyUpdates, SlotsKnown, Trying, Extracted, BeforeSwitch,
       AfterSnapshot, Terminal, Idle
<1>7. DshKnown'
  <2>1. /\ data # {} /\ Fits(data, slots.current) /\ staged = NoRecord
        /\ ~Trying /\ ~Trying' 
    BY <1>1, <1>2 DEF DataKnown, PhaseKnown, SlotsKnown, OnlyUpdates, Trying, Extracted, BeforeSwitch,
         AfterSnapshot,
                       Terminal, Idle
  <2>2. CASE dsh' = Started(slots.current)
    <3>1. /\ DshRuns' /\ dsh'.read = data /\ Fits(dsh'.read, dsh'.record)
          /\ DshVersion[dsh'.record] = DshVersion[slots.current]
      BY <2>1, <2>2, AloneFacts, StartedFits
    <3> QED
      BY <1>2, <2>1, <3>1, AloneFacts, Ordered DEF DshKnown, Idle
  <2>3. CASE dsh' = dsh
    BY <1>2, <2>1, <2>3 DEF DshKnown, DshRuns, Idle
  <2> QED
    BY <1>2, <2>2, <2>3
<1>8. ArchiveKnown'
  BY <1>1, <1>2 DEF ArchiveKnown, PhaseKnown, OnlyUpdates, SlotsKnown, BeforeSwitch, AfterSnapshot,
       Terminal, Idle
<1>9. WorkKnown'
  <2>1. /\ staged = NoRecord /\ ~Trying /\ ~Trying' 
    BY <1>1, <1>2 DEF PhaseKnown, SlotsKnown, OnlyUpdates, Trying, Extracted, BeforeSwitch,
         AfterSnapshot,
                       Terminal, Idle
  <2>2. DshRuns' => dsh' = dsh \/ (dsh'.read = data /\ dsh'.record = Copy[slots.current])
    BY <1>2, <2>1 DEF Started, View
  <2> QED
    BY <1>2, <2>1, <2>2 DEF WorkKnown, Archived, Extracted, DshRuns, Idle, PhaseKnown, AfterSnapshot,
         Terminal, BeforeSwitch
<1> QED
  BY <1>3, <1>4, <1>5, <1>6, <1>7, <1>8, <1>9

(* A phase is recorded. *)
LEMMA RecordPhaseAlone ==
  ASSUME Undisturbed, Undisturbed', Upgrades, AloneInv, RecordPhase
  PROVE  Alone'
<1> USE DEF AloneInv, Alone
<1>1. TypeOK /\ TaskInv
  BY DEF Inv
<1>2. /\ UNCHANGED <<slots, staged, snapshots, data, dsh, reviving, boot, used>>
      /\ task'.who = task.who /\ task'.target = task.target
      /\ journal'.from = journal.from /\ journal'.to = journal.to /\ journal'.snapshot = journal.snapshot
      /\ \/ task.step = "ready" /\ task'.step = "suspend" /\ journal'.phase = "candidate-ready"
         \/ task.step = "suspended" /\ task'.step = "archive" /\ journal'.phase = "suspended"
         \/ task.step = "switched" /\ task'.step = "probation" /\ journal'.phase = "switched"
         \/ task.step = "probation" /\ task'.step = "observe" /\ journal'.phase = "probation"
         \/ task.step = "committed" /\ task'.step = "cleanup" /\ journal'.phase = "committed"
  BY <1>1, TransitionStep, GotoStep DEF RecordPhase, Recorded, At, TypeOK, Step, dataVars, dshVars
<1>3. OnlyUpdates'
  BY <1>1, <1>2 DEF OnlyUpdates, Idle
<1>4. PhaseKnown'
  BY <1>2 DEF PhaseKnown
<1>5. SlotsKnown'
  BY <1>1, <1>2 DEF SlotsKnown, PhaseKnown, Switching, Preparing, BeforeSwitch, AfterSnapshot,
       OnlyUpdates, Idle
<1>6. task.step # "committed" => (Trying' <=> Trying) /\ (Extracted' <=> Extracted)
  BY <1>2 DEF Trying, Extracted, PhaseKnown, AfterSnapshot
<1>7. task.step = "committed" => Trying /\ ~Trying' /\ slots.current = journal.to /\ ~Extracted'
  BY <1>2 DEF Trying, Extracted, PhaseKnown, SlotsKnown, AfterSnapshot
<1>8. DataKnown'
  <2>1. data # {} /\ task'.step # "extract" /\ ~Extracted'
    BY <1>2 DEF DataKnown, PhaseKnown, Extracted
  <2>2. Trying' => Fits(data, journal.to)
    BY <1>2, <1>6, <1>7 DEF DataKnown
  <2>3. ~Trying' => Fits(data, slots.current)
    BY <1>2, <1>6, <1>7 DEF DataKnown
  <2> QED
    BY <1>2, <2>1, <2>2, <2>3 DEF DataKnown
<1>9. DshKnown'
  BY <1>2, <1>6, <1>7 DEF DshKnown, DshRuns
<1>10. ArchiveKnown'
  BY <1>2 DEF ArchiveKnown, PhaseKnown, AfterSnapshot
<1>11. WorkKnown'
  BY <1>1, <1>2, <1>6, <1>7, AloneFacts DEF WorkKnown, Archived, DshRuns, PhaseKnown, AfterSnapshot,
       Extracted
<1> QED
  BY <1>3, <1>4, <1>5, <1>8, <1>9, <1>10, <1>11

(* A transaction begins with the next candidate. *)
LEMMA BeginUpdateAlone ==
  ASSUME Undisturbed, Undisturbed', Upgrades, AloneInv, BeginUpdate
  PROVE  Alone'
<1> USE DEF AloneInv, Alone
<1>1. TypeOK /\ TaskInv
  BY DEF Inv
<1>2. /\ boot = "ready" /\ task = Idle /\ journal.phase \in Terminal
      /\ UNCHANGED <<slots, staged, snapshots, data, dsh, reviving, boot>>
      /\ used.updates < MaxUpdates /\ Spend("updates")
  BY DEF BeginUpdate, Resting, OnlyUpdates, dataVars, dshVars
<1>3. used.updates \in 0..MaxUpdates
  BY <1>1 DEF TypeOK, Used
<1>4. /\ used'.updates = used.updates + 1 /\ used'.updates \in 1..MaxUpdates
      /\ Candidate[used'.updates] \in Record
  <2>1. used'.updates = used.updates + 1
    BY <1>1, <1>2 DEF Spend, TypeOK, Used
  <2>2. used'.updates \in 1..MaxUpdates
    BY <1>2, <1>3, <2>1, Bounds
  <2> QED
    BY <2>1, <2>2, UpdateAssumption
<1>5. /\ journal'.phase = "planning" /\ journal'.from = slots.current
      /\ journal'.to = Candidate[used'.updates]
      /\ task'.who = "update" /\ task'.step = "ready" /\ task'.target = journal'.to
  <2>1. /\ journal' = [phase |-> "planning", from |-> slots.current,
                       to |-> Candidate[used.updates + 1], snapshot |-> 0]
        /\ Begin("update", "ready", Candidate[used.updates + 1], journal.snapshot)
    BY <1>2 DEF BeginUpdate
  <2>2. /\ task'.who = "update" /\ task'.step = "ready" /\ task'.target = Candidate[used.updates + 1]
    BY <2>1 DEF Begin
  <2> QED
    BY <1>4, <2>1, <2>2
<1>6. OnlyUpdates'
  BY <1>1, <1>2, <1>5 DEF OnlyUpdates, Idle
<1>7. PhaseKnown'
  BY <1>5 DEF PhaseKnown
<1>8. staged = NoRecord
  BY <1>2 DEF SlotsKnown, AfterSnapshot, Terminal
<1>9. SlotsKnown'
  <2>1. slots.current \in Record /\ Matches(slots.current, slots.current)
    BY <1>1, UpdateAssumption DEF TypeOK, Matches
  <2>2. Matches(slots.current, journal.from)'
    BY <1>2, <1>5, <2>1 DEF Matches
  <2>3. DshVersion[journal'.from] <= DshVersion[journal'.to]
    BY <1>3, <1>4, <1>5 DEF SlotsKnown
  <2>4. \A n \in 1..MaxUpdates : n > used'.updates => DshVersion[slots.current] <= DshVersion[Candidate[n]]
    BY <1>3, <1>4 DEF SlotsKnown
  <2>5. journal'.from \in Record /\ journal'.to \in Record /\ used'.updates > 0
    BY <1>4, <1>5, <2>1
  <2>6. task'.step # "committed" /\ staged' = NoRecord /\ task'.target = journal'.to
    BY <1>2, <1>5, <1>8
  <2> QED
    BY <1>2, <1>5, <2>2, <2>3, <2>4, <2>5, <2>6 DEF SlotsKnown
<1>10. ~Trying /\ ~Trying' /\ ~Extracted'
  BY <1>2, <1>5 DEF Trying, Extracted, AfterSnapshot, Terminal
<1>11. DataKnown'
  BY <1>2, <1>5, <1>10 DEF DataKnown, Terminal
<1>12. DshKnown'
  BY <1>2, <1>5, <1>10 DEF DshKnown, DshRuns
<1>13. ArchiveKnown'
  BY <1>5 DEF ArchiveKnown, AfterSnapshot
<1>14. WorkKnown'
  BY <1>2, <1>5, <1>10 DEF WorkKnown, DshRuns, AfterSnapshot
<1> QED
  BY <1>6, <1>7, <1>9, <1>11, <1>12, <1>13, <1>14

(* A start ends a transaction that was interrupted, or begins to undo it. *)
LEMMA RecoverInterruptedUpdateAlone ==
  ASSUME Undisturbed, Undisturbed', Upgrades, AloneInv, RecoverInterruptedUpdate
  PROVE  Alone'
<1> USE DEF AloneInv, Alone
<1>1. TypeOK /\ TaskInv
  BY DEF Inv
<1>2. /\ boot = "recover" /\ task = Idle
      /\ UNCHANGED <<slots, staged, snapshots, data, dsh, reviving, used>>
  BY DEF RecoverInterruptedUpdate, dataVars, dshVars
<1>3. /\ ~DshRuns /\ ~DshRuns' /\ staged = NoRecord
  BY <1>2 DEF DshKnown, SlotsKnown, DshRuns, Idle
<1>4. /\ journal'.from = journal.from /\ journal'.to = journal.to /\ journal'.snapshot = journal.snapshot
      /\ \/ boot' = "start" /\ task' = Idle /\ journal.phase \in BeforeSwitch \union Terminal
            /\ journal'.phase \in Terminal
         \/ /\ boot' = "recover" /\ task'.who = "boot" /\ task'.step = "restore"
            /\ journal.phase \in AfterSnapshot /\ journal'.phase = "restoring-data"
  <2>1. CASE journal.phase \in Terminal /\ boot' = "start" /\ UNCHANGED <<journal, task>>
    BY <1>2, <2>1
  <2>2. CASE journal.phase \in BeforeSwitch /\ Transition("failed") /\ boot' = "start" /\ UNCHANGED task
    BY <1>1, <1>2, <2>2, TransitionStep DEF TypeOK, Terminal
  <2>3. CASE journal.phase \in AfterSnapshot /\ Restoring /\ Begin("boot", "restore", NoRecord, 0) /\ UNCHANGED boot
    <3>1. task'.who = "boot" /\ task'.step = "restore"
      BY <2>3 DEF Begin
    <3>2. CASE journal.phase = "restoring-data"
      BY <1>2, <2>3, <3>1, <3>2 DEF Restoring
    <3>3. CASE journal.phase # "restoring-data"
      BY <1>1, <1>2, <2>3, <3>1, <3>3, TransitionStep DEF Restoring, TypeOK
    <3> QED
      BY <3>2, <3>3
  <2> QED
    BY <2>1, <2>2, <2>3 DEF RecoverInterruptedUpdate
<1>5. OnlyUpdates'
  BY <1>2, <1>4 DEF OnlyUpdates, Idle, Terminal
<1>6. PhaseKnown'
  BY <1>4 DEF PhaseKnown, Idle
<1>7. SlotsKnown'
  BY <1>2, <1>3, <1>4 DEF SlotsKnown, Idle, Switching, Preparing, BeforeSwitch, AfterSnapshot, Terminal
<1>8. DataKnown'
  BY <1>2, <1>4 DEF DataKnown, Trying, Extracted, Idle, BeforeSwitch, AfterSnapshot, Terminal
<1>9. DshKnown'
  BY <1>3, <1>4 DEF DshKnown, Idle
<1>10. ArchiveKnown'
  BY <1>2, <1>4 DEF ArchiveKnown, Idle, AfterSnapshot, Terminal
<1>11. WorkKnown'
  BY <1>2, <1>3, <1>4 DEF WorkKnown, Archived, Extracted, Idle, BeforeSwitch, AfterSnapshot, Terminal
<1> QED
  BY <1>5, <1>6, <1>7, <1>8, <1>9, <1>10, <1>11

(* What is not done, and what does not fail, where nothing is amiss. *)
LEMMA NothingElse ==
  ASSUME AloneInv, Undisturbed'
  PROVE  ~BeginRollback /\ ~BeginStable /\ ~SwitchDeployment /\ ~AcceptDeployment
<1>1. used.rollbacks \in Nat /\ used.stable \in Nat /\ used \in Used
  BY UpdateAssumption DEF AloneInv, Inv, TypeOK, Used
<1>2. ASSUME BeginRollback PROVE FALSE
  BY <1>1, <1>2 DEF BeginRollback, Spend, Used, Undisturbed
<1>3. ASSUME BeginStable PROVE FALSE
  BY <1>1, <1>3 DEF BeginStable, Spend, Used, Undisturbed
<1>4. task.step \notin {"switch", "accept"}
  BY DEF AloneInv, Alone, OnlyUpdates
<1> QED
  BY <1>2, <1>3, <1>4 DEF SwitchDeployment, AcceptDeployment, At

(* DSH exits, whatever is going on. *)
LEMMA DshExitsAlone ==
  ASSUME Undisturbed, Undisturbed', Upgrades, AloneInv, DshExits
  PROVE  Alone'
<1> USE DEF AloneInv, Alone
<1>1. TypeOK /\ TaskInv
  BY DEF Inv
<1>2. /\ boot = "ready" /\ reviving' = TRUE /\ used'.updates = used.updates
      /\ UNCHANGED <<slots, staged, journal, snapshots, data, boot, task>>
      /\ dsh' = NoDsh
  BY <1>1 DEF DshExits, Spend, TypeOK, Used, dataVars
<1>3. OnlyUpdates'
  BY <1>1, <1>2 DEF OnlyUpdates, Terminal, Idle
<1>4. PhaseKnown'
  BY <1>1, <1>2 DEF PhaseKnown, OnlyUpdates, BeforeSwitch, AfterSnapshot, Idle
<1>5. SlotsKnown'
  BY <1>1, <1>2 DEF SlotsKnown, PhaseKnown, OnlyUpdates, Switching, Preparing, BeforeSwitch,
       AfterSnapshot, Terminal, Idle
<1>6. DataKnown'
  BY <1>1, <1>2 DEF DataKnown, PhaseKnown, OnlyUpdates, SlotsKnown, Trying, Extracted, BeforeSwitch,
       AfterSnapshot, Terminal, Idle
<1>7. DshKnown'
  BY <1>1, <1>2 DEF DshKnown, PhaseKnown, OnlyUpdates, SlotsKnown, Trying, Extracted, BeforeSwitch,
       AfterSnapshot, Terminal, Idle, DshRuns, NoDsh
<1>8. ArchiveKnown'
  BY <1>1, <1>2 DEF ArchiveKnown, PhaseKnown, OnlyUpdates, SlotsKnown, BeforeSwitch, AfterSnapshot,
       Terminal, Idle
<1>9. WorkKnown'
  BY <1>1, <1>2 DEF WorkKnown, PhaseKnown, OnlyUpdates, SlotsKnown, DshKnown, DataKnown, Trying,
       Extracted, Archived, BeforeSwitch, AfterSnapshot, Terminal, Idle, DshRuns, NoDsh
<1> QED
  BY <1>3, <1>4, <1>5, <1>6, <1>7, <1>8, <1>9

(* It is revived, outside a transaction. *)
LEMMA ReviveAlone ==
  ASSUME Undisturbed, Undisturbed', Upgrades, AloneInv, Revive
  PROVE  Alone'
<1> USE DEF AloneInv, Alone
<1>1. TypeOK /\ TaskInv
  BY DEF Inv
<1>2. /\ boot = "ready" /\ task = Idle /\ reviving' = FALSE
      /\ UNCHANGED <<slots, staged, journal, snapshots, data, boot, task, used>>
      /\ dsh' = Started(View)
  <2>1. task = Idle
    BY <1>1 DEF Revive, Undisturbed, TypeOK, Used
  <2>2. staged = NoRecord /\ boot = "ready"
    BY <2>1 DEF Revive, OnlyUpdates, SlotsKnown, Idle
  <2> QED
    BY <1>1, <2>1, <2>2 DEF Revive, dataVars
<1>3. OnlyUpdates'
  BY <1>1, <1>2 DEF OnlyUpdates, Terminal, Idle
<1>4. PhaseKnown'
  BY <1>1, <1>2 DEF PhaseKnown, OnlyUpdates, BeforeSwitch, AfterSnapshot, Idle
<1>5. SlotsKnown'
  BY <1>1, <1>2 DEF SlotsKnown, PhaseKnown, OnlyUpdates, Switching, Preparing, BeforeSwitch,
       AfterSnapshot, Terminal, Idle
<1>6. DataKnown'
  BY <1>1, <1>2 DEF DataKnown, PhaseKnown, OnlyUpdates, SlotsKnown, Trying, Extracted, BeforeSwitch,
       AfterSnapshot, Terminal, Idle
<1>7. DshKnown'
  <2>1. /\ data # {} /\ Fits(data, slots.current) /\ staged = NoRecord
        /\ ~Trying /\ ~Trying' 
    BY <1>1, <1>2 DEF DataKnown, PhaseKnown, SlotsKnown, OnlyUpdates, Trying, Extracted, BeforeSwitch,
         AfterSnapshot,
                       Terminal, Idle
  <2>2. dsh' = Started(slots.current)
    BY <1>2, <2>1 DEF View
  <2>3. /\ DshRuns' /\ dsh'.read = data /\ Fits(dsh'.read, dsh'.record)
        /\ DshVersion[dsh'.record] = DshVersion[slots.current]
    BY <2>1, <2>2, AloneFacts, StartedFits
  <2> QED
    BY <1>2, <2>1, <2>3, AloneFacts, Ordered DEF DshKnown, Idle
<1>8. ArchiveKnown'
  BY <1>1, <1>2 DEF ArchiveKnown, PhaseKnown, OnlyUpdates, SlotsKnown, BeforeSwitch, AfterSnapshot,
       Terminal, Idle
<1>9. WorkKnown'
  <2>1. /\ staged = NoRecord /\ ~Trying /\ ~Trying' 
    BY <1>1, <1>2 DEF PhaseKnown, SlotsKnown, OnlyUpdates, Trying, Extracted, BeforeSwitch,
         AfterSnapshot,
                       Terminal, Idle
  <2>2. DshRuns' => dsh' = dsh \/ (dsh'.read = data /\ dsh'.record = Copy[slots.current])
    BY <1>2, <2>1 DEF Started, View
  <2> QED
    BY <1>2, <2>1, <2>2 DEF WorkKnown, Archived, Extracted, DshRuns, Idle, PhaseKnown, AfterSnapshot,
         Terminal, BeforeSwitch
<1> QED
  BY <1>3, <1>4, <1>5, <1>6, <1>7, <1>8, <1>9

(* Nothing happens. *)
LEMMA NothingAlone ==
  ASSUME AloneInv, UNCHANGED vars
  PROVE  Alone'
<1> USE DEF vars, dataVars, dshVars, AloneInv, Alone
<1>1. UNCHANGED <<slots, staged, journal, snapshots, data, dsh, reviving, boot, task, used>>
  OBVIOUS
<1>2. OnlyUpdates' /\ PhaseKnown'
  BY <1>1 DEF OnlyUpdates, PhaseKnown
<1>3. SlotsKnown'
  BY <1>1 DEF SlotsKnown, Switching, Preparing, Matches
<1>4. DataKnown' /\ DshKnown' /\ ArchiveKnown'
  BY <1>1 DEF DataKnown, DshKnown, ArchiveKnown, Trying, Extracted, Fits, DshRuns
<1>5. WorkKnown'
  BY <1>1 DEF WorkKnown, Archived, Trying, Extracted, DshRuns
<1> QED
  BY <1>2, <1>3, <1>4, <1>5

(* It is so at first ... *)
LEMMA AloneInit ==
  ASSUME Upgrades, Init
  PROVE  AloneInv
<1>1. Inv
  BY InitInv
<1>2. Base \in Record /\ Copy[Base] \in Record /\ DshVersion[Copy[Base]] <= DshVersion[Base]
  BY UpdateAssumption DEF Upgrades
<1> USE DEF Init
<1>3. journal.phase = "none" /\ task = Idle /\ task.step = "idle" /\ task.who = "nobody" /\ boot = "down" /\ ~DshRuns
  BY DEF NoJournal, Idle, DshRuns
<1>4. OnlyUpdates /\ PhaseKnown
  BY <1>3 DEF OnlyUpdates, PhaseKnown
<1>5. SlotsKnown
  BY <1>2, <1>3 DEF SlotsKnown, BeforeSwitch, AfterSnapshot, Switching, Preparing, Upgrades
<1>6. DataKnown /\ DshKnown /\ ArchiveKnown /\ WorkKnown
  BY <1>2, <1>3 DEF DataKnown, DshKnown, ArchiveKnown, WorkKnown, Trying, Extracted, AfterSnapshot, Fits
<1> QED
  BY <1>1, <1>4, <1>5, <1>6 DEF AloneInv, Alone

(* ... what is amiss stays so, ... *)
LEMMA StaysDisturbed ==
  ASSUME Inv, [Next]_vars, Undisturbed'
  PROVE  Undisturbed
<1>1. used \in Used /\ used.stable \in Nat /\ used.rollbacks \in Nat
  BY UpdateAssumption DEF Inv, TypeOK, Used
<1>2. CASE used' = used
  BY <1>2 DEF Undisturbed
<1>3. CASE \E what \in {"updates", "stable", "rollbacks", "exits"} : Spend(what)
  BY <1>1, <1>3 DEF Spend, Undisturbed, Used
<1>4. CASE used' = [used EXCEPT !.amiss = "yes"]
  BY <1>1, <1>4 DEF Undisturbed, Used
<1>5. CASE Crash
  BY <1>1, <1>5 DEF Crash, Undisturbed, Used
<1>6. CASE UNCHANGED vars
  BY <1>2, <1>6 DEF vars
<1>7. CASE UpdaterNext
  BY <1>2, <1>4, <1>7 DEF UpdaterNext, RecordPhase, SuspendDsh, CreateSnapshot, BindSnapshot,
     StageCandidate, Observe, CommitCandidate, Cleanup, Undo, Abandon, Fail, StopDsh, RestoreDeployment,
     EraseData, ExtractData, ResumeDsh, VerifyHealth, FinishRestore, SwitchDeployment, AcceptDeployment,
     Fails
<1>8. CASE BootstrapNext
  BY <1>2, <1>4, <1>8 DEF BootstrapNext, BootstrapStarts, RecoverInterruptedUpdate, StartDeployment, Revive
<1>9. CASE UserNext \/ DshExits
  BY <1>2, <1>3, <1>9 DEF UserNext, DshWrites, UserStops, UserStarts, BeginUpdate, BeginRollback,
     BeginStable, DshExits
<1> QED
  BY <1>5, <1>6, <1>7, <1>8, <1>9 DEF Next

(* ... and what holds while nothing is amiss is kept, ... *)
LEMMA NextAlone ==
  ASSUME Upgrades, AloneKept, [Next]_vars
  PROVE  AloneKept'
<1>1. Inv'
  BY NextInv DEF AloneKept
<1>2. SUFFICES ASSUME Undisturbed' PROVE Alone'
  BY <1>1 DEF AloneKept
<1>3. Undisturbed /\ AloneInv
  BY <1>2, StaysDisturbed DEF AloneKept, AloneInv
<1>4. CASE UNCHANGED vars
  BY <1>3, <1>4, NothingAlone
<1>5. CASE UpdaterNext
  BY <1>2, <1>3, <1>5, NothingElse, RecordPhaseAlone, SuspendDshAlone, CreateSnapshotAlone, BindSnapshotAlone,
     StageCandidateAlone, ObserveAlone, CommitCandidateAlone, CleanupAlone, UndoAlone, AbandonAlone,
     FailAlone, StopDshAlone, RestoreDeploymentAlone, EraseDataAlone, ExtractDataAlone, ResumeDshAlone,
     VerifyHealthAlone, FinishRestoreAlone DEF UpdaterNext
<1>6. CASE BootstrapNext
  BY <1>2, <1>3, <1>6, BootstrapStartsAlone, RecoverInterruptedUpdateAlone, StartDeploymentAlone,
     ReviveAlone DEF BootstrapNext
<1>7. CASE UserNext
  BY <1>2, <1>3, <1>7, NothingElse, DshWritesAlone, UserStopsAlone, UserStartsAlone, BeginUpdateAlone
     DEF UserNext
<1>8. CASE DshExits
  BY <1>2, <1>3, <1>8, DshExitsAlone
<1>9. CASE Crash
  BY <1>2, <1>3, <1>9, CrashAlone
<1> QED
  BY <1>4, <1>5, <1>6, <1>7, <1>8, <1>9 DEF Next

(* ... and what it says of DSH is what the user relies on. *)
LEMMA AloneGuarded ==
  ASSUME AloneKept
  PROVE  DataGuarded
BY DEF AloneKept, Alone, DshKnown, Fits, DataGuarded, NoDowngrade, QuietSnapshot

(* Whenever the container is lost and DSH exits, and whatever fails: until there is  *)
(* a Stable update or a rollback, and until something is amiss, no DSH is started on *)
(* data it is too old for or that are not there, and none runs while they are        *)
(* copied or replaced.                                                               *)
THEOREM DataStaysGuarded ==
  ASSUME Upgrades
  PROVE  Spec => []DataGuarded
<1>1. Init => AloneKept
  BY AloneInit DEF AloneInv, AloneKept
<1>2. AloneKept /\ [Next]_vars => AloneKept'
  BY NextAlone
<1>3. AloneKept => DataGuarded
  BY AloneGuarded
<1> QED
  BY <1>1, <1>2, <1>3, PTL DEF Spec

(* The state the abstract specification sees. *)
Deployment == Copy[IF Undoing THEN journal.from ELSE slots.current]
Data == IF Undoing THEN Archived ELSE data

(* It is not affected by a step that leaves the transaction alone.          *)
LEMMA SeenKept ==
  ASSUME UNCHANGED <<slots, journal, snapshots, data>>
  PROVE  UNCHANGED <<Deployment, Data>>
BY DEF Deployment, Data, Undoing, Archived

(* The steps that touch neither Deployment, journal nor data. *)
LEMMA Quiet ==
  ASSUME \/ SuspendDsh \/ Observe \/ StopDsh \/ RestoreDeployment \/ ResumeDsh \/ VerifyHealth \/ Abandon
         \/ UserStops \/ UserStarts \/ Crash \/ BootstrapStarts \/ DshExits \/ Revive
  PROVE  UNCHANGED <<Deployment, Data>>
<1>1. UNCHANGED <<slots, journal, snapshots, data>>
  BY DEF SuspendDsh, Observe, StopDsh, RestoreDeployment, ResumeDsh, VerifyHealth, Abandon, UserStops,
       UserStarts,
         Crash, BootstrapStarts, DshExits, Revive, dataVars, dshVars
<1> QED
  BY <1>1, SeenKept

(* While a transaction that switches is under way, only its snapshot and    *)
(* the Deployment it began from are seen.                                   *)
LEMMA Unseen ==
  ASSUME Undoing, Undoing', UNCHANGED snapshots,
         journal'.from = journal.from, journal'.snapshot = journal.snapshot
  PROVE  UNCHANGED <<Deployment, Data>>
BY DEF Deployment, Data, Archived

(* At other times the current Deployment and the data are.                  *)
LEMMA Seen ==
  ASSUME ~Undoing, ~Undoing', UNCHANGED <<data>>, slots'.current = slots.current
  PROVE  UNCHANGED <<Deployment, Data>>
BY DEF Deployment, Data

(* What DSH writes is seen unless the transaction may still be undone. *)
LEMMA DataWorked ==
  ASSUME Undisturbed, Undisturbed', Upgrades, AloneInv, DshWrites
  PROVE  Complete!Work \/ UNCHANGED <<Deployment, Data>>
<1> USE DEF AloneInv, Alone
<1>1. DshRuns /\ UNCHANGED <<slots, journal, snapshots>> /\ data' = data \union dsh.read \union {dsh.record}
  BY DEF DshWrites
<1>2. CASE Undoing
  <2>1. Undoing'
    BY <1>1, <1>2 DEF Undoing
  <2> QED
    BY <1>1, <1>2, <2>1, Unseen
<1>3. CASE ~Undoing
  <2>1. ~Undoing' /\ ~Trying
    BY <1>1, <1>3 DEF Undoing, Trying
  <2>2. data' = data \union {Copy[slots.current]}
    BY <1>1, <2>1 DEF WorkKnown
  <2> QED
    BY <1>1, <1>3, <2>1, <2>2 DEF Complete!Work
<1> QED
  BY <1>2, <1>3

(* Every step of the update is a step of the abstract specification, or not seen. *)
LEMMA Whole ==
  ASSUME Undisturbed, Undisturbed', Upgrades, AloneInv, Next
  PROVE  Complete!Next \/ UNCHANGED <<Deployment, Data>>
<1> USE DEF AloneInv, Alone
<1>1. TypeOK /\ TaskInv
  BY DEF Inv
<1>2. CASE DshWrites
  BY <1>2, DataWorked DEF Complete!Next
<1>3. CASE BeginUpdate
  <2>1. ~Undoing /\ ~Undoing' /\ UNCHANGED <<slots, data>>
    BY <1>3 DEF BeginUpdate, Resting, OnlyUpdates, Undoing, AfterSnapshot, Terminal, dataVars
  <2> QED
    BY <2>1, Seen
<1>4. CASE RecordPhase
  <2>1. /\ UNCHANGED <<slots, snapshots, data>>
        /\ journal'.from = journal.from /\ journal'.to = journal.to /\ journal'.snapshot = journal.snapshot
        /\ \/ task.step = "ready" /\ journal'.phase = "candidate-ready"
           \/ task.step = "suspended" /\ journal'.phase = "suspended"
           \/ task.step = "switched" /\ journal'.phase = "switched"
           \/ task.step = "probation" /\ journal'.phase = "probation"
           \/ task.step = "committed" /\ journal'.phase = "committed"
    BY <1>1, <1>4, TransitionStep DEF RecordPhase, Recorded, At, TypeOK, dataVars
  <2>2. CASE task.step \in {"ready", "suspended"}
    <3>1. ~Undoing /\ ~Undoing'
      BY <2>1, <2>2 DEF PhaseKnown, Undoing, AfterSnapshot
    <3> QED
      BY <2>1, <3>1, Seen
  <2>3. CASE task.step \in {"switched", "probation"}
    <3>1. Undoing /\ Undoing'
      BY <2>1, <2>3 DEF PhaseKnown, Undoing, AfterSnapshot
    <3> QED
      BY <2>1, <3>1, Unseen
  <2>4. CASE task.step = "committed"
    <3>1. journal.phase = "probation" /\ Undoing /\ ~Undoing'
      BY <2>1, <2>4 DEF PhaseKnown, Undoing, AfterSnapshot
    <3>2. /\ slots.current = journal.to /\ journal.to \in Record /\ Copy[journal.to] = journal.to
          /\ data = Archived \/ data = Archived \union {journal.to}
      <4>1. slots.current = journal.to
        BY <2>4 DEF SlotsKnown
      <4>2. journal.to \in Record /\ Copy[journal.to] = journal.to
        BY <3>1, AloneFacts DEF AfterSnapshot
      <4>3. data = Archived \/ data = Archived \union {journal.to}
        BY <3>1 DEF WorkKnown, AfterSnapshot
      <4> QED
        BY <4>1, <4>2, <4>3
    <3>3. Complete!Update(journal.to)
      BY <2>1, <3>1, <3>2 DEF Complete!Update, Archived
    <3> QED
      BY <3>2, <3>3 DEF Complete!Next
  <2> QED
    BY <2>1, <2>2, <2>3, <2>4
<1>5. CASE CreateSnapshot
  <2>1. ~Undoing /\ ~Undoing' /\ UNCHANGED <<slots, data>>
    BY <1>5 DEF CreateSnapshot, At, PhaseKnown, Undoing, AfterSnapshot
  <2> QED
    BY <2>1, Seen
<1>6. CASE BindSnapshot
  <2>1. /\ task.step = "bind" /\ UNCHANGED <<slots, snapshots, data>>
        /\ journal' = [journal EXCEPT !.phase = "snapshot-created", !.snapshot = used.updates]
    BY <1>6 DEF BindSnapshot, At, dataVars
  <2>2. ~Undoing /\ journal.phase = "suspended" /\ snapshots[used.updates] = data
    BY <2>1 DEF PhaseKnown, Undoing, AfterSnapshot, WorkKnown
  <2>3. Undoing' /\ journal'.from = journal.from /\ journal'.snapshot = used.updates
    BY <1>1, <2>1 DEF Undoing, AfterSnapshot, TypeOK, Journal
  <2>4. Copy[slots.current] = Copy[journal.from]
    BY <2>1, <2>2 DEF SlotsKnown, Matches, BeforeSwitch
  <2> QED
    BY <2>1, <2>2, <2>3, <2>4 DEF Deployment, Data, Archived
<1>7. CASE StageCandidate \/ CommitCandidate
  <2>1. UNCHANGED <<journal, snapshots>> /\ Undoing
    BY <1>7 DEF StageCandidate, CommitCandidate, At, PhaseKnown, Undoing, AfterSnapshot, dataVars
  <2>2. Undoing'
    BY <2>1 DEF Undoing
  <2> QED
    BY <2>1, <2>2, Unseen
<1>8. CASE Cleanup
  <2>1. ~Undoing /\ ~Undoing' /\ UNCHANGED <<slots, data>>
    BY <1>8 DEF Cleanup, At, PhaseKnown, Undoing, AfterSnapshot
  <2> QED
    BY <2>1, Seen
<1>9. CASE Undo
  <2>1. UNCHANGED <<slots, snapshots, data>>
    BY <1>9 DEF Undo, dataVars
  <2>2. CASE UNCHANGED journal
    BY <2>1, <2>2, SeenKept
  <2>3. CASE Undoing /\ Restoring
    <3>1. journal'.from = journal.from /\ journal'.snapshot = journal.snapshot /\ journal'.phase = "restoring-data"
      BY <1>1, <2>3, RestoringStep
    <3>2. Undoing'
      BY <3>1 DEF Undoing, AfterSnapshot
    <3> QED
      BY <2>1, <2>3, <3>1, <3>2, Unseen
  <2> QED
    BY <1>9, <2>2, <2>3 DEF Undo, Undoing
<1>10. CASE Fail
  <2>1. UNCHANGED <<slots, data>> /\ Transition("failed") /\ journal.phase \in BeforeSwitch
    BY <1>10 DEF Fail, At, PhaseKnown, dataVars
  <2>2. journal'.phase = "failed"
    BY <1>1, <2>1, TransitionStep DEF TypeOK
  <2>3. ~Undoing /\ ~Undoing'
    BY <2>1, <2>2 DEF Undoing, BeforeSwitch, AfterSnapshot
  <2> QED
    BY <2>1, <2>3, Seen
<1>11. CASE EraseData \/ ExtractData
  <2>1. UNCHANGED <<journal, snapshots>> /\ InPlace
    BY <1>11 DEF EraseData, ExtractData, At, InPlace
  <2>2. Undoing /\ Undoing'
    BY <1>1, <2>1 DEF TaskInv, RestoringTask, Undoing, AfterSnapshot
  <2> QED
    BY <2>1, <2>2, Unseen
<1>12. CASE FinishRestore
  <2>1. UNCHANGED <<slots, snapshots, data>> /\ task.step = "finish" /\ Transition("rolled-back")
    BY <1>12 DEF FinishRestore, At, dataVars
  <2>2. journal'.phase = "rolled-back" /\ journal.phase = "restoring-data"
    BY <1>1, <2>1, TransitionStep DEF TypeOK
  <2>3. Undoing /\ ~Undoing' /\ Extracted
    BY <2>1, <2>2 DEF Undoing, AfterSnapshot, Extracted
  <2>4. Copy[slots.current] = Copy[journal.from]
    <3>1. Matches(slots.current, journal.from)
      BY <2>1, <2>2, AloneFacts DEF AfterSnapshot
    <3> QED
      BY <3>1 DEF Matches
  <2>5. data = Archived \/ data = Archived \union {Copy[journal.from]}
    BY <2>3 DEF WorkKnown
  <2>6. Deployment' = Deployment /\ Data' = data
    BY <2>1, <2>3, <2>4 DEF Deployment, Data
  <2>7. Deployment = Copy[journal.from] /\ Data = Archived
    BY <2>3 DEF Deployment, Data
  <2> QED
    BY <2>5, <2>6, <2>7 DEF Complete!Next, Complete!Work, Deployment, Data, Archived
<1>13. CASE RecoverInterruptedUpdate
  <2>1. UNCHANGED <<slots, snapshots, data>>
    BY <1>13 DEF RecoverInterruptedUpdate, dataVars
  <2>2. CASE UNCHANGED journal
    BY <2>1, <2>2, SeenKept
  <2>3. CASE journal.phase \in BeforeSwitch /\ Transition("failed")
    <3>1. journal'.phase = "failed"
      BY <1>1, <2>3, TransitionStep DEF TypeOK
    <3>2. ~Undoing /\ ~Undoing'
      BY <2>3, <3>1 DEF Undoing, BeforeSwitch, AfterSnapshot
    <3> QED
      BY <2>1, <3>2, Seen
  <2>4. CASE Undoing /\ Restoring
    <3>1. journal'.from = journal.from /\ journal'.snapshot = journal.snapshot /\ journal'.phase = "restoring-data"
      BY <1>1, <2>4, RestoringStep
    <3>2. Undoing'
      BY <3>1 DEF Undoing, AfterSnapshot
    <3> QED
      BY <2>1, <2>4, <3>1, <3>2, Unseen
  <2> QED
    BY <1>13, <2>2, <2>3, <2>4 DEF RecoverInterruptedUpdate, Undoing
<1>14. CASE StartDeployment
  <2>1. UNCHANGED <<slots, journal, snapshots, data>>
    BY <1>1, <1>14 DEF StartDeployment, Undisturbed, TypeOK, Used, dataVars
  <2> QED
    BY <2>1, SeenKept
<1> QED
  BY <1>2, <1>3, <1>4, <1>5, <1>6, <1>7, <1>8, <1>9, <1>10, <1>11, <1>12, <1>13, <1>14, Quiet,
       NothingElse
     DEF Next, UpdaterNext, BootstrapNext, UserNext

(* Whenever the container is lost and DSH exits, and whatever fails: until there is  *)
(* a Stable update or a rollback, and until something is amiss, the Deployment and  *)
(* the data change together or not at all: the Updater implements CompleteState.    *)
THEOREM UpdatesAreComplete ==
  ASSUME Upgrades
  PROVE  Spec => CompleteUpdate
<1>1. Init => AloneKept
  BY AloneInit DEF AloneInv, AloneKept
<1>2. AloneKept /\ [Next]_vars => AloneKept'
  BY NextAlone
<1>3. Init => Complete!Init
  BY UpdateAssumption DEF Init, NoJournal, Complete!Init, Undoing, AfterSnapshot
<1>4. AloneKept /\ [Next]_vars => (Undisturbed' => [Complete!Next]_(Complete!vars))
  <2>1. ASSUME AloneKept, Next, Undisturbed'
        PROVE  Complete!Next \/ UNCHANGED <<Deployment, Data>>
    <3>1. Undisturbed /\ AloneInv
      BY <2>1, StaysDisturbed DEF AloneKept, AloneInv
    <3> QED
      BY <2>1, <3>1, Whole
  <2>2. ASSUME UNCHANGED vars
        PROVE  UNCHANGED <<Deployment, Data>>
    BY <2>2, SeenKept DEF vars, dataVars
  <2> QED
    BY <2>1, <2>2 DEF Complete!vars, Deployment, Data, Archived
<1> QED
  BY <1>1, <1>2, <1>3, <1>4, PTL DEF Spec, CompleteUpdate

-----------------------------------------------------------------------------
(* What a restoration rests on.  Whatever fails, the step tells the phase,   *)
(* and the archive of a transaction that may have to be undone is there.    *)
Transacting == Preparing \/ task.step \in {"stage", "switched", "probation", "observe", "commit"}
PhaseTells ==
  /\ task.step = "ready" => journal.phase = "planning"
  /\ task.step \in {"suspend", "suspended"} => journal.phase = "candidate-ready"
  /\ task.step \in {"archive", "bind"} => journal.phase = "suspended"
  /\ task.step \in {"stage", "switched"} => journal.phase = "snapshot-created"
  /\ task.step = "probation" => journal.phase = "switched"
  /\ task.step \in {"observe", "commit", "committed"} => journal.phase = "probation"
  /\ task.step = "cleanup" => journal.phase = "committed"
  /\ task.step = "undo" => journal.phase \notin Terminal
  /\ task.step \in {"abandon", "fail"} => journal.phase \in BeforeSwitch
ArchiveStands ==
  /\ journal.phase \in AfterSnapshot => Archived # {}
  /\ task.step = "bind" => snapshots[used.updates] # {}
  /\ data = {} => journal.phase = "restoring-data"
(* So is the Deployment to return to, before there is a Stable update, or    *)
(* when nothing interrupts a restoration but the loss of the container.      *)
ReturnStands ==
  used.stable = 0 \/ Unfailing =>
    /\ Transacting => Matches(slots.current, journal.from)
    /\ journal.phase \in AfterSnapshot =>
         Matches(slots.current, journal.from) \/ Matches(slots.previous, journal.from)
    /\ used.stable = 0 /\ task.who = "switch" => task.target = slots.previous
(* Then an unfinished transaction has its task, or the start-up will see to  *)
(* it, before anything else is begun, ...                                    *)
OneTransaction ==
  /\ reviving = FALSE
  /\ task.who \in {"nobody", "switch"} /\ boot \in {"start", "ready"} => journal.phase \in Terminal
  /\ task.who = "nobody" => task = Idle
  /\ task.who # "rollback"
  /\ task.who = "boot" => /\ boot = "recover"
                          /\ task.step \in {"restore", "accept", "erase", "extract", "finish"}
  /\ task.who \in {"update", "switch"} => boot = "ready"
  /\ boot \in {"down", "recover"} /\ task = Idle => ~DshRuns
  /\ Transacting => task.who = "update" /\ task.target = journal.to /\ Copy[journal.to] = journal.to
  /\ InPlace => staged = NoRecord
(* ... and no DSH but its own works on the data.                             *)
Own == Archived \union {Copy[journal.from], journal.to}
OwnData ==
  /\ journal.phase \in AfterSnapshot =>
       /\ data \subseteq Own
       /\ DshRuns => dsh.read \subseteq Own /\ dsh.record \in {Copy[journal.from], journal.to}
  /\ task.step \in {"suspended", "archive", "bind"} => ~DshRuns
  /\ task.step = "bind" => data = snapshots[used.updates]
  /\ task.step = "verify" => DshRuns
Undoable == /\ PhaseTells /\ ArchiveStands /\ ReturnStands
            /\ Unfailing => OneTransaction /\ OwnData
UndoableInv == Inv /\ Undoable

(* A DSH that is started runs, from the Record on the data there are. *)
LEMMA StartedRuns ==
  ASSUME NEW r \in Record
  PROVE  Started(r) # NoDsh /\ Started(r).record = Copy[r] /\ Started(r).read = data
BY UpdateAssumption DEF Started, NoDsh

(* Nothing fails: the events, the rollbacks and the exits do not happen. *)
LEMMA NothingFails ==
  ASSUME Unfailing, used \in Used
  PROVE  /\ "restore-fails" \notin Events /\ "unhealthy-restore" \notin Events /\ "start-fails" \notin Events
         /\ ~(used.rollbacks < MaxRollbacks) /\ ~(used.exits < MaxExits)
<1>1. used.rollbacks \in 0..0 /\ used.exits \in 0..0
  BY DEF Unfailing, Used
<1> QED
  BY <1>1 DEF Unfailing

(* A restoration that begins or goes on keeps what the transaction is about. *)
LEMMA RestoringFrame ==
  ASSUME TypeOK, Restoring
  PROVE  /\ journal'.phase = "restoring-data" /\ journal'.snapshot = journal.snapshot
         /\ journal'.from = journal.from /\ journal'.to = journal.to
<1>1. CASE journal.phase = "restoring-data"
  BY <1>1 DEF Restoring
<1>2. CASE journal.phase # "restoring-data"
  BY <1>2, TransitionStep DEF Restoring, TypeOK
<1> QED
  BY <1>1, <1>2

(* A phase of the transaction is recorded. *)
LEMMA RecordPhaseUndoable ==
  ASSUME UndoableInv, Inv', RecordPhase
  PROVE  Undoable'
<1> USE DEF UndoableInv, Undoable
<1>1. TypeOK /\ TaskInv /\ RestoreInv /\ TypeOK'
  BY DEF Inv
<1>2. /\ UNCHANGED <<slots, staged, snapshots, data, dsh, reviving, boot, used>>
      /\ task'.who = task.who /\ task'.target = task.target
      /\ journal'.from = journal.from /\ journal'.to = journal.to /\ journal'.snapshot = journal.snapshot
      /\ <<task.step, journal'.phase, task'.step>> \in
           {<<"ready", "candidate-ready", "suspend">>,
            <<"suspended", "suspended", "archive">>,
            <<"switched", "switched", "probation">>,
            <<"probation", "probation", "observe">>,
            <<"committed", "committed", "cleanup">>}
  <2>1. UNCHANGED <<slots, staged, snapshots, data, dsh, reviving, boot, used>>
    BY DEF RecordPhase, dataVars, dshVars
  <2>2. PICK r \in {[step |-> "ready", phase |-> "candidate-ready", next |-> "suspend"],
                 [step |-> "suspended", phase |-> "suspended", next |-> "archive"],
                 [step |-> "switched", phase |-> "switched", next |-> "probation"],
                 [step |-> "probation", phase |-> "probation", next |-> "observe"],
                 [step |-> "committed", phase |-> "committed", next |-> "cleanup"]} :
          Recorded(r.step, r.phase, r.next)
    BY DEF RecordPhase
  <2>3. r.next \in Step
    BY DEF Step
  <2>4. task.step = r.step /\ task'.step = r.next /\ task'.who = task.who /\ task'.target = task.target
    BY <1>1, <2>2, <2>3, GotoStep DEF Recorded, At, TypeOK
  <2>5. /\ journal'.phase = r.phase /\ journal'.from = journal.from
        /\ journal'.to = journal.to /\ journal'.snapshot = journal.snapshot
    BY <1>1, <2>2, TransitionStep DEF Recorded, TypeOK
  <2> QED
    BY <2>1, <2>4, <2>5
<1>3. data # {} /\ (task'.step \in {"probation", "observe", "cleanup"} => journal.phase \in AfterSnapshot)
  BY <1>1, <1>2 DEF ArchiveStands, PhaseTells, AfterSnapshot
<1>4. PhaseTells'
  BY <1>2 DEF PhaseTells
<1>5. ArchiveStands'
  BY <1>2, <1>3 DEF ArchiveStands, Archived, AfterSnapshot
<1>6. ReturnStands'
  BY <1>2, <1>3 DEF ReturnStands, Transacting, Preparing
<1>7. ASSUME Unfailing PROVE OneTransaction' /\ OwnData'
  <2>1. /\ OneTransaction /\ OwnData /\ Idle.step = "idle"
        /\ task.who \in {"nobody", "update", "rollback", "switch", "boot"}
        /\ "restore-fails" \notin Events /\ "unhealthy-restore" \notin Events
        /\ ~(used.rollbacks < MaxRollbacks) /\ ~(used.exits < MaxExits)
    BY <1>1, <1>7, IdleTask, NothingFails DEF TypeOK, Task, Who
  <2>2. OneTransaction'
    BY <1>1, <1>2, <1>7, <2>1 DEF OneTransaction, TaskInv, Transacting, Preparing, InPlace
  <2>3. OwnData'
    BY <1>2, <1>3, <1>7 DEF OwnData, Own, Archived, DshRuns, AfterSnapshot
  <2> QED
    BY <2>2, <2>3
<1> QED
  BY <1>4, <1>5, <1>6, <1>7

(* DSH is suspended, or is found not to run. *)
LEMMA SuspendDshUndoable ==
  ASSUME UndoableInv, Inv', SuspendDsh
  PROVE  Undoable'
<1> USE DEF UndoableInv, Undoable
<1>1. TypeOK /\ TaskInv /\ RestoreInv /\ TypeOK'
  BY DEF Inv
<1>2. /\ task.step = "suspend" /\ task'.step \in {"suspended", "undo"}
      /\ task'.who = task.who /\ task'.target = task.target
      /\ UNCHANGED <<slots, staged, journal, snapshots, data, reviving, boot, used>>
      /\ dsh' \in {dsh, NoDsh}
      /\ task'.step = "suspended" => dsh' = NoDsh
  BY <1>1, GotoStep DEF SuspendDsh, At, Step, dataVars, dshVars, TypeOK
<1>3. PhaseTells'
  BY <1>2 DEF PhaseTells, Terminal
<1>4. ArchiveStands'
  BY <1>2 DEF ArchiveStands, Archived
<1>5. ReturnStands'
  BY <1>2 DEF ReturnStands, Transacting, Preparing
<1>6. ASSUME Unfailing PROVE OneTransaction' /\ OwnData'
  <2>1. /\ OneTransaction /\ OwnData /\ Idle.step = "idle"
        /\ task.who \in {"nobody", "update", "rollback", "switch", "boot"}
        /\ "restore-fails" \notin Events /\ "unhealthy-restore" \notin Events
        /\ ~(used.rollbacks < MaxRollbacks) /\ ~(used.exits < MaxExits)
    BY <1>1, <1>6, IdleTask, NothingFails DEF TypeOK, Task, Who
  <2>2. OneTransaction'
    BY <1>2, <1>6 DEF OneTransaction, Transacting, Preparing, InPlace
  <2>3. OwnData'
    BY <1>2, <1>6 DEF OwnData, Own, Archived, DshRuns
  <2> QED
    BY <2>2, <2>3
<1> QED
  BY <1>3, <1>4, <1>5, <1>6

(* The data are archived. *)
LEMMA CreateSnapshotUndoable ==
  ASSUME UndoableInv, Inv', CreateSnapshot
  PROVE  Undoable'
<1> USE DEF UndoableInv, Undoable
<1>1. TypeOK /\ TaskInv /\ RestoreInv /\ TypeOK'
  BY DEF Inv
<1>2. /\ task.step = "archive" /\ task'.step \in {"bind", "undo"}
      /\ task'.who = task.who /\ task'.target = task.target
      /\ UNCHANGED <<slots, staged, journal, data, dsh, reviving, boot, used>>
      /\ task'.step = "bind" => snapshots' = [snapshots EXCEPT ![used.updates] = data]
      /\ task'.step = "undo" => snapshots' = snapshots
  BY <1>1, GotoStep DEF CreateSnapshot, At, Step, dataVars, dshVars, TypeOK
<1>3. journal.phase = "suspended" /\ data # {}
  BY <1>2 DEF PhaseTells, ArchiveStands
<1>4. task'.step = "bind" => snapshots'[used.updates] = data
  <2>1. used.updates \in 1..MaxUpdates
    BY <1>1, <1>2, Bounds DEF TaskInv, Preparing, TypeOK, Used
  <2> QED
    BY <1>1, <1>2, <2>1 DEF TypeOK
<1>5. PhaseTells'
  BY <1>2 DEF PhaseTells, Terminal
<1>6. ArchiveStands'
  BY <1>2, <1>3, <1>4 DEF ArchiveStands, AfterSnapshot
<1>7. ReturnStands'
  BY <1>2 DEF ReturnStands, Transacting, Preparing
<1>8. ASSUME Unfailing PROVE OneTransaction' /\ OwnData'
  <2>1. /\ OneTransaction /\ OwnData /\ Idle.step = "idle"
        /\ task.who \in {"nobody", "update", "rollback", "switch", "boot"}
        /\ "restore-fails" \notin Events /\ "unhealthy-restore" \notin Events
        /\ ~(used.rollbacks < MaxRollbacks) /\ ~(used.exits < MaxExits)
    BY <1>1, <1>8, IdleTask, NothingFails DEF TypeOK, Task, Who
  <2>2. OneTransaction'
    BY <1>2, <1>8 DEF OneTransaction, Transacting, Preparing, InPlace
  <2>3. OwnData'
    BY <1>2, <1>3, <1>4, <1>8 DEF OwnData, DshRuns, AfterSnapshot
  <2> QED
    BY <2>2, <2>3
<1> QED
  BY <1>5, <1>6, <1>7, <1>8

(* The snapshot gets its name. *)
LEMMA BindSnapshotUndoable ==
  ASSUME UndoableInv, Inv', BindSnapshot
  PROVE  Undoable'
<1> USE DEF UndoableInv, Undoable
<1>1. TypeOK /\ TaskInv /\ RestoreInv /\ TypeOK'
  BY DEF Inv
<1>2. /\ task.step = "bind" /\ task'.step = "stage"
      /\ task'.who = task.who /\ task'.target = task.target
      /\ UNCHANGED <<slots, staged, snapshots, data, dsh, reviving, boot, used>>
      /\ journal'.phase = "snapshot-created" /\ journal'.snapshot = used.updates
      /\ journal'.from = journal.from /\ journal'.to = journal.to
  BY <1>1, GotoStep DEF BindSnapshot, At, Step, Journal, dataVars, dshVars, TypeOK
<1>3. PhaseTells'
  BY <1>2 DEF PhaseTells
<1>4. ArchiveStands'
  BY <1>2 DEF ArchiveStands, PhaseTells, Archived
<1>5. ReturnStands'
  BY <1>2 DEF ReturnStands, Transacting, Preparing
<1>6. ASSUME Unfailing PROVE OneTransaction' /\ OwnData'
  <2>1. /\ OneTransaction /\ OwnData /\ Idle.step = "idle"
        /\ task.who \in {"nobody", "update", "rollback", "switch", "boot"}
        /\ "restore-fails" \notin Events /\ "unhealthy-restore" \notin Events
        /\ ~(used.rollbacks < MaxRollbacks) /\ ~(used.exits < MaxExits)
    BY <1>1, <1>6, IdleTask, NothingFails DEF TypeOK, Task, Who
  <2>2. OneTransaction'
    BY <1>2, <1>6 DEF OneTransaction, Transacting, Preparing, InPlace
  <2>3. OwnData'
    BY <1>2, <1>6 DEF OwnData, Own, Archived, DshRuns
  <2> QED
    BY <2>2, <2>3
<1> QED
  BY <1>3, <1>4, <1>5, <1>6

(* The candidate is started. *)
LEMMA StageCandidateUndoable ==
  ASSUME UndoableInv, Inv', StageCandidate
  PROVE  Undoable'
<1> USE DEF UndoableInv, Undoable
<1>1. TypeOK /\ TaskInv /\ RestoreInv /\ TypeOK'
  BY DEF Inv
<1>2. /\ task.step = "stage" /\ task'.step \in {"switched", "undo"}
      /\ task'.who = task.who /\ task'.target = task.target
      /\ UNCHANGED <<journal, snapshots, data, reviving, boot, used>>
      /\ slots'.current = Copy[slots.current]
      /\ dsh' \in {NoDsh, Started(task.target)}
      /\ task'.step = "switched" => staged' = task.target
  BY <1>1, GotoStep, SlotsType, UpdateAssumption DEF StageCandidate, At, Step, dataVars, dshVars, TypeOK
<1>3. task.target \in Record /\ Copy[Copy[slots.current]] = Copy[slots.current] /\ Copy[slots.current] # NoRecord
  BY <1>1, <1>2, UpdateAssumption DEF TaskInv, Switching, TypeOK
<1>4. Started(task.target).record = Copy[task.target] /\ Started(task.target).read = data
  BY <1>3, StartedRuns
<1>5. Matches(slots.current, journal.from) => Matches(slots'.current, journal.from)
  BY <1>2, <1>3 DEF Matches
<1>6. PhaseTells'
  BY <1>2, <1>5 DEF PhaseTells, Terminal
<1>7. ArchiveStands'
  BY <1>2, <1>5 DEF ArchiveStands, Archived
<1>8. ReturnStands'
  BY <1>1, <1>2, <1>5 DEF ReturnStands, TaskInv, Transacting
<1>9. ASSUME Unfailing PROVE OneTransaction' /\ OwnData'
  <2>1. /\ OneTransaction /\ OwnData /\ Idle.step = "idle"
        /\ task.who \in {"nobody", "update", "rollback", "switch", "boot"}
        /\ "restore-fails" \notin Events /\ "unhealthy-restore" \notin Events
        /\ ~(used.rollbacks < MaxRollbacks) /\ ~(used.exits < MaxExits)
    BY <1>1, <1>9, IdleTask, NothingFails DEF TypeOK, Task, Who
  <2>2. OneTransaction'
    BY <1>2, <1>5, <1>9 DEF OneTransaction, Transacting, InPlace
  <2>3. OwnData'
    BY <1>2, <1>4, <1>5, <1>9 DEF OwnData, Own, Archived, OneTransaction, Transacting, DshRuns
  <2> QED
    BY <2>2, <2>3
<1> QED
  BY <1>6, <1>7, <1>8, <1>9

(* The candidate is observed. *)
LEMMA ObserveUndoable ==
  ASSUME UndoableInv, Inv', Observe
  PROVE  Undoable'
<1> USE DEF UndoableInv, Undoable
<1>1. TypeOK /\ TaskInv /\ RestoreInv /\ TypeOK'
  BY DEF Inv
<1>2. /\ task.step = "observe" /\ task'.step \in {"commit", "undo"}
      /\ task'.who = task.who /\ task'.target = task.target
      /\ UNCHANGED <<slots, staged, journal, snapshots, data, dsh, reviving, boot, used>>
  BY <1>1, GotoStep DEF Observe, At, Step, dataVars, dshVars, TypeOK
<1>3. PhaseTells'
  BY <1>2 DEF PhaseTells, Terminal
<1>4. ArchiveStands'
  BY <1>2 DEF ArchiveStands, Archived
<1>5. ReturnStands'
  BY <1>2 DEF ReturnStands, Transacting
<1>6. ASSUME Unfailing PROVE OneTransaction' /\ OwnData'
  <2>1. /\ OneTransaction /\ OwnData /\ Idle.step = "idle"
        /\ task.who \in {"nobody", "update", "rollback", "switch", "boot"}
        /\ "restore-fails" \notin Events /\ "unhealthy-restore" \notin Events
        /\ ~(used.rollbacks < MaxRollbacks) /\ ~(used.exits < MaxExits)
    BY <1>1, <1>6, IdleTask, NothingFails DEF TypeOK, Task, Who
  <2>2. OneTransaction'
    BY <1>2, <1>6 DEF OneTransaction, Transacting, InPlace
  <2>3. OwnData'
    BY <1>2, <1>6 DEF OwnData, Own, Archived, DshRuns
  <2> QED
    BY <2>2, <2>3
<1> QED
  BY <1>3, <1>4, <1>5, <1>6

(* The candidate is committed, or is not staged any more. *)
LEMMA CommitCandidateUndoable ==
  ASSUME UndoableInv, Inv', CommitCandidate
  PROVE  Undoable'
<1> USE DEF UndoableInv, Undoable
<1>1. TypeOK /\ TaskInv /\ RestoreInv /\ TypeOK'
  BY DEF Inv
<1>0. used'.stable = used.stable /\ used'.updates = used.updates
  BY <1>1, Missed DEF CommitCandidate, TypeOK
<1>2. /\ task.step = "commit" /\ task'.step \in {"committed", "undo"}
      /\ task'.who = task.who /\ task'.target = task.target
      /\ UNCHANGED <<journal, snapshots, data, dsh, reviving, boot>>
      /\ slots' = Slots(task.target, slots.current) \/ slots' = slots
      /\ task'.step = "committed" => slots' = Slots(task.target, slots.current)
  BY <1>1, GotoStep DEF CommitCandidate, At, Step, dataVars, dshVars, TypeOK
<1>3. slots' = Slots(task.target, slots.current) =>
        slots'.previous = slots.current \/ slots'.current = slots.current
  BY DEF Slots
<1>4. PhaseTells'
  BY <1>2 DEF PhaseTells, Terminal
<1>5. ArchiveStands'
  BY <1>0, <1>2 DEF ArchiveStands, Archived
<1>6. ReturnStands'
  BY <1>0, <1>1, <1>2, <1>3 DEF ReturnStands, TaskInv, Transacting, Preparing
<1>7. ASSUME Unfailing PROVE OneTransaction' /\ OwnData'
  <2>1. /\ OneTransaction /\ OwnData /\ Idle.step = "idle"
        /\ task.who \in {"nobody", "update", "rollback", "switch", "boot"}
        /\ "restore-fails" \notin Events /\ "unhealthy-restore" \notin Events
        /\ ~(used.rollbacks < MaxRollbacks) /\ ~(used.exits < MaxExits)
    BY <1>1, <1>7, IdleTask, NothingFails DEF TypeOK, Task, Who
  <2>2. OneTransaction'
    BY <1>2, <1>7 DEF OneTransaction, Transacting, InPlace
  <2>3. OwnData'
    BY <1>0, <1>2, <1>7 DEF OwnData, Own, Archived, DshRuns
  <2> QED
    BY <2>2, <2>3
<1> QED
  BY <1>4, <1>5, <1>6, <1>7

(* A committed transaction ends. *)
LEMMA CleanupUndoable ==
  ASSUME UndoableInv, Inv', Cleanup
  PROVE  Undoable'
<1> USE DEF UndoableInv, Undoable
<1>1. TypeOK /\ TaskInv /\ RestoreInv /\ TypeOK'
  BY DEF Inv
<1>2. /\ task' = Idle /\ task.step = "cleanup"
      /\ UNCHANGED <<slots, staged, journal, data, dsh, reviving, boot, used>>
  BY <1>1 DEF Cleanup, At, Done, dataVars, dshVars, TypeOK
<1>3. task'.step = "idle" /\ task'.who = "nobody" /\ journal.phase = "committed"
  BY <1>2, IdleTask DEF PhaseTells
<1>4. PhaseTells'
  BY <1>2, <1>3 DEF PhaseTells
<1>5. ArchiveStands'
  BY <1>2, <1>3 DEF ArchiveStands, AfterSnapshot
<1>6. ReturnStands'
  BY <1>2, <1>3 DEF ReturnStands, Transacting, Preparing
<1>7. ASSUME Unfailing PROVE OneTransaction' /\ OwnData'
  <2>1. /\ OneTransaction /\ OwnData /\ Idle.step = "idle"
        /\ task.who \in {"nobody", "update", "rollback", "switch", "boot"}
        /\ "restore-fails" \notin Events /\ "unhealthy-restore" \notin Events
        /\ ~(used.rollbacks < MaxRollbacks) /\ ~(used.exits < MaxExits)
    BY <1>1, <1>7, IdleTask, NothingFails DEF TypeOK, Task, Who
  <2>2. OneTransaction'
    BY <1>2, <1>3, <1>7, <2>1 DEF OneTransaction, Transacting, Preparing, InPlace, Terminal
  <2>3. OwnData'
    BY <1>2, <1>3, <1>7 DEF OwnData, AfterSnapshot
  <2> QED
    BY <2>2, <2>3
<1> QED
  BY <1>4, <1>5, <1>6, <1>7

(* A transaction fails. *)
LEMMA UndoUndoable ==
  ASSUME UndoableInv, Inv', Undo
  PROVE  Undoable'
<1> USE DEF UndoableInv, Undoable
<1>1. TypeOK /\ TaskInv /\ RestoreInv /\ TypeOK'
  BY DEF Inv
<1>2. /\ task.step = "undo" /\ task'.step \in {"abandon", "stop"}
      /\ task'.who = task.who /\ task'.target = task.target
      /\ UNCHANGED <<slots, staged, snapshots, data, dsh, reviving, boot, used>>
      /\ journal'.from = journal.from /\ journal'.to = journal.to /\ journal'.snapshot = journal.snapshot
      /\ task'.step = "abandon" => journal'.phase = journal.phase /\ journal.phase \in BeforeSwitch
      /\ task'.step = "stop" => journal.phase \in AfterSnapshot /\ journal'.phase = "restoring-data"
  BY <1>1, GotoStep, RestoringFrame DEF Undo, At, Step, dataVars, dshVars, TypeOK
<1>3. PhaseTells'
  BY <1>2 DEF PhaseTells
<1>4. ArchiveStands'
  BY <1>2 DEF ArchiveStands, Archived
<1>5. ReturnStands'
  BY <1>2 DEF ReturnStands, Transacting, Preparing
<1>6. ASSUME Unfailing PROVE OneTransaction' /\ OwnData'
  <2>1. /\ OneTransaction /\ OwnData /\ Idle.step = "idle"
        /\ task.who \in {"nobody", "update", "rollback", "switch", "boot"}
        /\ "restore-fails" \notin Events /\ "unhealthy-restore" \notin Events
        /\ ~(used.rollbacks < MaxRollbacks) /\ ~(used.exits < MaxExits)
    BY <1>1, <1>6, IdleTask, NothingFails DEF TypeOK, Task, Who
  <2>2. OneTransaction'
    BY <1>2, <1>6, <2>1 DEF OneTransaction, PhaseTells, Transacting, Preparing, InPlace
  <2>3. OwnData'
    BY <1>2, <1>6 DEF OwnData, Own, Archived, DshRuns
  <2> QED
    BY <2>2, <2>3
<1> QED
  BY <1>3, <1>4, <1>5, <1>6

(* DSH is started again without a restoration. *)
LEMMA AbandonUndoable ==
  ASSUME UndoableInv, Inv', Abandon
  PROVE  Undoable'
<1> USE DEF UndoableInv, Undoable
<1>1. TypeOK /\ TaskInv /\ RestoreInv /\ TypeOK'
  BY DEF Inv
<1>2. /\ task.step = "abandon" /\ task'.step = "fail"
      /\ task'.who = task.who /\ task'.target = task.target
      /\ UNCHANGED <<slots, staged, journal, snapshots, data, reviving, boot, used>>
  BY <1>1, GotoStep DEF Abandon, At, Step, dataVars, dshVars, TypeOK
<1>3. PhaseTells'
  BY <1>2 DEF PhaseTells
<1>4. ArchiveStands'
  BY <1>2 DEF ArchiveStands, Archived
<1>5. ReturnStands'
  BY <1>2 DEF ReturnStands, Transacting, Preparing
<1>6. ASSUME Unfailing PROVE OneTransaction' /\ OwnData'
  <2>1. /\ OneTransaction /\ OwnData /\ Idle.step = "idle"
        /\ task.who \in {"nobody", "update", "rollback", "switch", "boot"}
        /\ "restore-fails" \notin Events /\ "unhealthy-restore" \notin Events
        /\ ~(used.rollbacks < MaxRollbacks) /\ ~(used.exits < MaxExits)
    BY <1>1, <1>6, IdleTask, NothingFails DEF TypeOK, Task, Who
  <2>2. OneTransaction'
    BY <1>2, <1>6, <2>1 DEF OneTransaction, Transacting, Preparing, InPlace
  <2>3. OwnData'
    BY <1>2, <1>6 DEF OwnData, PhaseTells, BeforeSwitch, AfterSnapshot
  <2> QED
    BY <2>2, <2>3
<1> QED
  BY <1>3, <1>4, <1>5, <1>6

(* A failed transaction ends. *)
LEMMA FailUndoable ==
  ASSUME UndoableInv, Inv', Fail
  PROVE  Undoable'
<1> USE DEF UndoableInv, Undoable
<1>1. TypeOK /\ TaskInv /\ RestoreInv /\ TypeOK'
  BY DEF Inv
<1>2. /\ task' = Idle /\ task.step = "fail"
      /\ UNCHANGED <<slots, staged, snapshots, data, dsh, reviving, boot, used>>
      /\ journal'.phase = "failed"
  BY <1>1, TransitionStep DEF Fail, At, Done, dataVars, dshVars, TypeOK
<1>3. task'.step = "idle" /\ task'.who = "nobody"
  BY <1>2, IdleTask
<1>4. PhaseTells'
  BY <1>2, <1>3 DEF PhaseTells
<1>5. ArchiveStands'
  BY <1>2, <1>3 DEF ArchiveStands, PhaseTells, BeforeSwitch, AfterSnapshot
<1>6. ReturnStands'
  BY <1>2, <1>3 DEF ReturnStands, Transacting, Preparing, AfterSnapshot
<1>7. ASSUME Unfailing PROVE OneTransaction' /\ OwnData'
  <2>1. /\ OneTransaction /\ OwnData /\ Idle.step = "idle"
        /\ task.who \in {"nobody", "update", "rollback", "switch", "boot"}
        /\ "restore-fails" \notin Events /\ "unhealthy-restore" \notin Events
        /\ ~(used.rollbacks < MaxRollbacks) /\ ~(used.exits < MaxExits)
    BY <1>1, <1>7, IdleTask, NothingFails DEF TypeOK, Task, Who
  <2>2. OneTransaction'
    BY <1>2, <1>3, <1>7, <2>1 DEF OneTransaction, Transacting, Preparing, InPlace, Terminal
  <2>3. OwnData'
    BY <1>2, <1>3, <1>7 DEF OwnData, AfterSnapshot
  <2> QED
    BY <2>2, <2>3
<1> QED
  BY <1>4, <1>5, <1>6, <1>7

(* DSH stops before it is restored. *)
LEMMA StopDshUndoable ==
  ASSUME UndoableInv, Inv', StopDsh
  PROVE  Undoable'
<1> USE DEF UndoableInv, Undoable
<1>1. TypeOK /\ TaskInv /\ RestoreInv /\ TypeOK'
  BY DEF Inv
<1>0. used'.stable = used.stable /\ used'.updates = used.updates
  BY <1>1, Missed, FailsUsed DEF StopDsh
<1>2. /\ task.step = "stop" /\ journal.phase = "restoring-data"
      /\ \/ /\ task'.step = "restore" /\ boot' = boot
            /\ task'.who = task.who /\ task'.target = task.target
         \/ /\ task.who = "rollback" /\ task' = Idle /\ task'.step = "idle" /\ task'.who = "nobody"
            /\ boot' = IF task.who = "boot" THEN "down" ELSE boot
      /\ UNCHANGED <<slots, staged, journal, snapshots, data, reviving>>
      /\ dsh' \in {dsh, NoDsh}
  BY <1>1, GotoStep, IdleTask
     DEF StopDsh, TaskInv, RestoringTask, InPlace, At, Step, Fails, dataVars, dshVars, TypeOK
<1>3. PhaseTells'
  BY <1>2 DEF PhaseTells
<1>4. ArchiveStands'
  BY <1>0, <1>2 DEF ArchiveStands, Archived
<1>5. ReturnStands'
  BY <1>0, <1>2 DEF ReturnStands, Transacting, Preparing
<1>6. ASSUME Unfailing PROVE OneTransaction' /\ OwnData'
  <2>1. /\ OneTransaction /\ OwnData /\ Idle.step = "idle"
        /\ task.who \in {"nobody", "update", "rollback", "switch", "boot"}
        /\ "restore-fails" \notin Events /\ "unhealthy-restore" \notin Events
        /\ ~(used.rollbacks < MaxRollbacks) /\ ~(used.exits < MaxExits)
    BY <1>1, <1>6, IdleTask, NothingFails DEF TypeOK, Task, Who
  <2>2. OneTransaction'
    BY <1>2, <1>6, <2>1 DEF OneTransaction, Transacting, Preparing, InPlace
  <2>3. OwnData'
    BY <1>0, <1>2, <1>6 DEF OwnData, Own, Archived, DshRuns
  <2> QED
    BY <2>2, <2>3
<1> QED
  BY <1>3, <1>4, <1>5, <1>6

(* The data are erased. *)
LEMMA EraseDataUndoable ==
  ASSUME UndoableInv, Inv', EraseData
  PROVE  Undoable'
<1> USE DEF UndoableInv, Undoable
<1>1. TypeOK /\ TaskInv /\ RestoreInv /\ TypeOK'
  BY DEF Inv
<1>0. used'.stable = used.stable /\ used'.updates = used.updates
  BY <1>1, Missed, FailsUsed DEF EraseData
<1>2. /\ task.step = "erase" /\ journal.phase = "restoring-data"
      /\ \/ /\ task'.step = "extract" /\ boot' = boot
            /\ task'.who = task.who /\ task'.target = task.target
         \/ /\ (Archived = {} \/ "restore-fails" \in Events) /\ task' = Idle /\ task'.step = "idle" /\ task'.who = "nobody"
            /\ boot' = IF task.who = "boot" THEN "down" ELSE boot
      /\ UNCHANGED <<slots, staged, journal, snapshots, dsh, reviving>>
      /\ data' \in {data, {}}
  BY <1>1, GotoStep, IdleTask
     DEF EraseData, TaskInv, RestoringTask, InPlace, At, Step, Fails, Archived, dataVars, dshVars, TypeOK
<1>3. PhaseTells'
  BY <1>2 DEF PhaseTells
<1>4. ArchiveStands'
  BY <1>0, <1>2 DEF ArchiveStands, Archived
<1>5. ReturnStands'
  BY <1>0, <1>2 DEF ReturnStands, Transacting, Preparing
<1>6. ASSUME Unfailing PROVE OneTransaction' /\ OwnData'
  <2>1. /\ OneTransaction /\ OwnData /\ Idle.step = "idle"
        /\ task.who \in {"nobody", "update", "rollback", "switch", "boot"}
        /\ "restore-fails" \notin Events /\ "unhealthy-restore" \notin Events
        /\ ~(used.rollbacks < MaxRollbacks) /\ ~(used.exits < MaxExits)
    BY <1>1, <1>6, IdleTask, NothingFails DEF TypeOK, Task, Who
  <2>2. OneTransaction'
    BY <1>2, <1>6, <2>1 DEF OneTransaction, ArchiveStands, Transacting, Preparing, InPlace, AfterSnapshot
  <2>3. OwnData'
    BY <1>0, <1>2, <1>6 DEF OwnData, Own, Archived, DshRuns
  <2> QED
    BY <2>2, <2>3
<1> QED
  BY <1>3, <1>4, <1>5, <1>6

(* The archive is extracted. *)
LEMMA ExtractDataUndoable ==
  ASSUME UndoableInv, Inv', ExtractData
  PROVE  Undoable'
<1> USE DEF UndoableInv, Undoable
<1>1. TypeOK /\ TaskInv /\ RestoreInv /\ TypeOK'
  BY DEF Inv
<1>0. used'.stable = used.stable /\ used'.updates = used.updates
  BY <1>1, Missed, FailsUsed DEF ExtractData
<1>2. /\ task.step = "extract" /\ journal.phase = "restoring-data"
      /\ \/ /\ task'.step \in {"resume", "finish"} /\ boot' = boot
            /\ task'.who = task.who /\ task'.target = task.target
         \/ /\ "restore-fails" \in Events /\ task' = Idle /\ task'.step = "idle" /\ task'.who = "nobody"
            /\ boot' = IF task.who = "boot" THEN "down" ELSE boot
      /\ UNCHANGED <<slots, staged, journal, snapshots, dsh, reviving>>
      /\ data' = data \/ data' = data \union Archived
      /\ task.who = "boot" => task'.step # "resume"
  BY <1>1, GotoStep, IdleTask
     DEF ExtractData, TaskInv, RestoringTask, InPlace, At, Step, Fails, Archived, dataVars, dshVars, TypeOK
<1>3. PhaseTells'
  BY <1>2 DEF PhaseTells
<1>4. ArchiveStands'
  BY <1>0, <1>2 DEF ArchiveStands, Archived
<1>5. ReturnStands'
  BY <1>0, <1>2 DEF ReturnStands, Transacting, Preparing
<1>6. ASSUME Unfailing PROVE OneTransaction' /\ OwnData'
  <2>1. /\ OneTransaction /\ OwnData /\ Idle.step = "idle"
        /\ task.who \in {"nobody", "update", "rollback", "switch", "boot"}
        /\ "restore-fails" \notin Events /\ "unhealthy-restore" \notin Events
        /\ ~(used.rollbacks < MaxRollbacks) /\ ~(used.exits < MaxExits)
    BY <1>1, <1>6, IdleTask, NothingFails DEF TypeOK, Task, Who
  <2>2. OneTransaction'
    BY <1>2, <1>6, <2>1 DEF OneTransaction, Transacting, Preparing, InPlace
  <2>3. OwnData'
    BY <1>0, <1>2, <1>6 DEF OwnData, Own, Archived, DshRuns
  <2> QED
    BY <2>2, <2>3
<1> QED
  BY <1>3, <1>4, <1>5, <1>6

(* DSH is started on the restored data. *)
LEMMA ResumeDshUndoable ==
  ASSUME UndoableInv, Inv', ResumeDsh
  PROVE  Undoable'
<1> USE DEF UndoableInv, Undoable
<1>1. TypeOK /\ TaskInv /\ RestoreInv /\ TypeOK'
  BY DEF Inv
<1>0. used'.stable = used.stable /\ used'.updates = used.updates
  BY <1>1, Missed, FailsUsed DEF ResumeDsh
<1>2. /\ task.step = "resume" /\ journal.phase = "restoring-data"
      /\ \/ /\ task'.step \in {"verify", "finish"} /\ boot' = boot
            /\ task'.who = task.who /\ task'.target = task.target
         \/ /\ "restore-fails" \in Events /\ task' = Idle /\ task'.step = "idle" /\ task'.who = "nobody"
            /\ boot' = IF task.who = "boot" THEN "down" ELSE boot
      /\ UNCHANGED <<slots, staged, journal, snapshots, data, reviving>>
      /\ dsh' = dsh \/ (~DshRuns /\ dsh' = Started(View))
      /\ dsh' \in Resumed \/ "restore-fails" \in Events
  BY <1>1, GotoStep, IdleTask
     DEF ResumeDsh, TaskInv, RestoringTask, InPlace, Resumed, At, Step, Fails, dataVars, dshVars, TypeOK
<1>3. staged = NoRecord => /\ Started(View) # NoDsh /\ Started(View).record = Copy[journal.from]
                            /\ Started(View).read = data
  BY <1>1, <1>2, StartedRuns DEF RestoreInv, InPlace, Matches, View, TypeOK
<1>4. staged = NoRecord /\ reviving = FALSE /\ dsh' \in Resumed => DshRuns'
  BY <1>1, <1>3, ResumedAlone DEF DshRuns
<1>5. PhaseTells'
  BY <1>2 DEF PhaseTells
<1>6. ArchiveStands'
  BY <1>0, <1>2 DEF ArchiveStands, Archived
<1>7. ReturnStands'
  BY <1>0, <1>2 DEF ReturnStands, Transacting, Preparing
<1>8. ASSUME Unfailing PROVE OneTransaction' /\ OwnData'
  <2>1. /\ OneTransaction /\ OwnData /\ Idle.step = "idle"
        /\ task.who \in {"nobody", "update", "rollback", "switch", "boot"}
        /\ "restore-fails" \notin Events /\ "unhealthy-restore" \notin Events
        /\ ~(used.rollbacks < MaxRollbacks) /\ ~(used.exits < MaxExits)
    BY <1>1, <1>8, IdleTask, NothingFails DEF TypeOK, Task, Who
  <2>2. OneTransaction'
    BY <1>2, <1>8, <2>1 DEF OneTransaction, Transacting, Preparing, InPlace
  <2>3. OwnData'
    BY <1>0, <1>2, <1>3, <1>4, <1>8, <2>1 DEF OwnData, Own, Archived, OneTransaction, InPlace, DshRuns
  <2> QED
    BY <2>2, <2>3
<1> QED
  BY <1>5, <1>6, <1>7, <1>8

(* The restored Deployment is found healthy or not. *)
LEMMA VerifyHealthUndoable ==
  ASSUME UndoableInv, Inv', VerifyHealth
  PROVE  Undoable'
<1> USE DEF UndoableInv, Undoable
<1>1. TypeOK /\ TaskInv /\ RestoreInv /\ TypeOK'
  BY DEF Inv
<1>0. used'.stable = used.stable /\ used'.updates = used.updates
  BY <1>1, Missed, FailsUsed DEF VerifyHealth
<1>2. /\ task.step = "verify" /\ journal.phase = "restoring-data"
      /\ \/ /\ task'.step = "finish" /\ boot' = boot
            /\ task'.who = task.who /\ task'.target = task.target
         \/ /\ (~DshRuns \/ "unhealthy-restore" \in Events) /\ task' = Idle /\ task'.step = "idle" /\ task'.who = "nobody"
            /\ boot' = IF task.who = "boot" THEN "down" ELSE boot
      /\ UNCHANGED <<slots, staged, journal, snapshots, data, dsh, reviving>>
  BY <1>1, GotoStep, IdleTask
     DEF VerifyHealth, TaskInv, RestoringTask, InPlace, At, Step, Fails, dataVars, dshVars, TypeOK
<1>3. PhaseTells'
  BY <1>2 DEF PhaseTells
<1>4. ArchiveStands'
  BY <1>0, <1>2 DEF ArchiveStands, Archived
<1>5. ReturnStands'
  BY <1>0, <1>2 DEF ReturnStands, Transacting, Preparing
<1>6. ASSUME Unfailing PROVE OneTransaction' /\ OwnData'
  <2>1. /\ OneTransaction /\ OwnData /\ Idle.step = "idle"
        /\ task.who \in {"nobody", "update", "rollback", "switch", "boot"}
        /\ "restore-fails" \notin Events /\ "unhealthy-restore" \notin Events
        /\ ~(used.rollbacks < MaxRollbacks) /\ ~(used.exits < MaxExits)
    BY <1>1, <1>6, IdleTask, NothingFails DEF TypeOK, Task, Who
  <2>2. OneTransaction'
    BY <1>2, <1>6, <2>1 DEF OneTransaction, OwnData, Transacting, Preparing, InPlace
  <2>3. OwnData'
    BY <1>0, <1>2, <1>6 DEF OwnData, Own, Archived
  <2> QED
    BY <2>2, <2>3
<1> QED
  BY <1>3, <1>4, <1>5, <1>6

(* A restoration ends. *)
LEMMA FinishRestoreUndoable ==
  ASSUME UndoableInv, Inv', FinishRestore
  PROVE  Undoable'
<1> USE DEF UndoableInv, Undoable
<1>1. TypeOK /\ TaskInv /\ RestoreInv /\ TypeOK'
  BY DEF Inv
<1>2. /\ task.step = "finish" /\ task' = Idle /\ task'.step = "idle" /\ task'.who = "nobody"
      /\ UNCHANGED <<slots, staged, snapshots, data, dsh, reviving, used>>
      /\ journal'.phase = "rolled-back"
      /\ boot' = IF task.who = "boot" THEN "start" ELSE boot
  BY <1>1, TransitionStep, IdleTask DEF FinishRestore, At, dataVars, dshVars, TypeOK
<1>3. Archived \subseteq data /\ Archived # {} /\ journal.phase = "restoring-data"
  BY <1>1, <1>2
     DEF TaskInv, RestoreInv, RestoringTask, InPlace, Extracted, Archived, ArchiveStands, AfterSnapshot
<1>4. PhaseTells'
  BY <1>2 DEF PhaseTells
<1>5. ArchiveStands'
  BY <1>2, <1>3 DEF ArchiveStands, AfterSnapshot
<1>6. ReturnStands'
  BY <1>2 DEF ReturnStands, Transacting, Preparing, AfterSnapshot
<1>7. ASSUME Unfailing PROVE OneTransaction' /\ OwnData'
  <2>1. /\ OneTransaction /\ OwnData /\ Idle.step = "idle"
        /\ task.who \in {"nobody", "update", "rollback", "switch", "boot"}
        /\ "restore-fails" \notin Events /\ "unhealthy-restore" \notin Events
        /\ ~(used.rollbacks < MaxRollbacks) /\ ~(used.exits < MaxExits)
    BY <1>1, <1>7, IdleTask, NothingFails DEF TypeOK, Task, Who
  <2>2. OneTransaction'
    BY <1>2, <1>7, <2>1 DEF OneTransaction, Transacting, Preparing, InPlace, Terminal
  <2>3. OwnData'
    BY <1>2, <1>7 DEF OwnData, AfterSnapshot
  <2> QED
    BY <2>2, <2>3
<1> QED
  BY <1>4, <1>5, <1>6, <1>7

(* The slots are found as they were, or go back, or cannot. *)
LEMMA RestoreDeploymentUndoable ==
  ASSUME UndoableInv, Inv', RestoreDeployment
  PROVE  Undoable'
<1> USE DEF UndoableInv, Undoable
<1>1. TypeOK /\ TaskInv /\ RestoreInv /\ TypeOK'
  BY DEF Inv
<1>0. used'.stable = used.stable /\ used'.updates = used.updates
  BY <1>1, Missed, FailsUsed DEF RestoreDeployment
<1>2. /\ task.step = "restore" /\ journal.phase = "restoring-data"
      /\ UNCHANGED <<slots, journal, snapshots, data, reviving>>
      /\ \/ /\ Matches(slots.current, journal.from) /\ staged' = NoRecord /\ UNCHANGED <<dsh, boot>>
            /\ task'.step = "erase" /\ task'.who = task.who
         \/ /\ Matches(slots.previous, journal.from) /\ task'.target = slots.previous /\ UNCHANGED boot
            /\ dsh' = Started(slots.previous) /\ task'.step = "accept" /\ task'.who = task.who
         \/ /\ ~Matches(slots.current, journal.from)
            /\ Matches(slots.previous, journal.from) => "restore-fails" \in Events
            /\ task' = Idle /\ task'.step = "idle" /\ task'.who = "nobody" /\ dsh' = dsh
            /\ boot' = IF task.who = "boot" THEN "down" ELSE boot
  <2>1. /\ task.step = "restore" /\ journal.phase = "restoring-data"
        /\ UNCHANGED <<slots, journal, snapshots, data, reviving>>
    BY <1>1 DEF RestoreDeployment, At, TaskInv, RestoringTask, dataVars
  <2>2. CASE /\ Matches(slots.current, journal.from) /\ staged' = NoRecord /\ Goto("erase")
             /\ UNCHANGED <<dsh, boot>>
    <3>1. task'.step = "erase" /\ task'.who = task.who
      BY <1>1, <2>2, GotoStep DEF TypeOK, Step
    <3> QED
      BY <2>1, <2>2, <3>1
  <2>3. CASE /\ Matches(slots.previous, journal.from) /\ dsh' = Started(slots.previous) /\ UNCHANGED boot
             /\ task' = [task EXCEPT !.step = "accept", !.target = slots.previous]
    <3>1. task'.step = "accept" /\ task'.who = task.who /\ task'.target = slots.previous
      BY <1>1, <2>3 DEF TypeOK, Task
    <3> QED
      BY <2>1, <2>3, <3>1
  <2>4. CASE /\ ~Matches(slots.current, journal.from) /\ Fails /\ UNCHANGED dsh
             /\ Matches(slots.previous, journal.from) => "restore-fails" \in Events
    BY <2>1, <2>4, IdleTask DEF Fails
  <2> QED
    BY <2>2, <2>3, <2>4 DEF RestoreDeployment
<1>3. Matches(slots.previous, journal.from) =>
        /\ Started(slots.previous) # NoDsh /\ Started(slots.previous).record = Copy[journal.from]
        /\ Started(slots.previous).read = data
  BY <1>1, StartedRuns DEF Matches, TypeOK
<1>4. PhaseTells'
  BY <1>2 DEF PhaseTells
<1>5. ArchiveStands'
  BY <1>0, <1>2 DEF ArchiveStands, Archived
<1>6. ReturnStands'
  BY <1>0, <1>1, <1>2 DEF ReturnStands, TaskInv, Transacting, Preparing
<1>7. ASSUME Unfailing PROVE OneTransaction' /\ OwnData'
  <2>1. /\ OneTransaction /\ OwnData /\ Idle.step = "idle"
        /\ task.who \in {"nobody", "update", "rollback", "switch", "boot"}
        /\ "restore-fails" \notin Events /\ "unhealthy-restore" \notin Events
        /\ ~(used.rollbacks < MaxRollbacks) /\ ~(used.exits < MaxExits)
    BY <1>1, <1>7, IdleTask, NothingFails DEF TypeOK, Task, Who
  <2>2. OneTransaction'
    BY <1>2, <1>7, <2>1 DEF OneTransaction, ReturnStands, Transacting, Preparing, InPlace, AfterSnapshot
  <2>3. OwnData'
    BY <1>0, <1>2, <1>3, <1>7 DEF OwnData, Own, Archived, DshRuns
  <2> QED
    BY <2>2, <2>3
<1> QED
  BY <1>4, <1>5, <1>6, <1>7

(* DSH is started from another Deployment, or from the current one again. *)
LEMMA SwitchDeploymentUndoable ==
  ASSUME UndoableInv, Inv', SwitchDeployment
  PROVE  Undoable'
<1> USE DEF UndoableInv, Undoable
<1>1. TypeOK /\ TaskInv /\ RestoreInv /\ TypeOK'
  BY DEF Inv
<1>0. used'.stable = used.stable /\ used'.updates = used.updates
  BY <1>1, Missed, FailsUsed DEF SwitchDeployment
<1>2. /\ task.step = "switch" /\ task.who = "switch"
      /\ UNCHANGED <<slots, journal, snapshots, data, reviving>>
      /\ boot' = boot /\ (task.target = slots.previous => slots.previous # NoRecord)
      /\ \/ task'.step = "accept" /\ task'.who = "switch" /\ task'.target = task.target
         \/ task' = Idle /\ task'.step = "idle" /\ task'.who = "nobody"
  BY <1>1, GotoStep, IdleTask, UpdateAssumption
     DEF SwitchDeployment, TaskInv, Switching, At, Task, Step, Fails, dataVars, dshVars, TypeOK
<1>3. PhaseTells'
  BY <1>2 DEF PhaseTells
<1>4. ArchiveStands'
  BY <1>0, <1>2 DEF ArchiveStands, Archived
<1>5. ReturnStands'
  BY <1>0, <1>2 DEF ReturnStands, Transacting, Preparing
<1>6. ASSUME Unfailing PROVE OneTransaction' /\ OwnData'
  <2>1. /\ OneTransaction /\ OwnData /\ Idle.step = "idle"
        /\ task.who \in {"nobody", "update", "rollback", "switch", "boot"}
        /\ "restore-fails" \notin Events /\ "unhealthy-restore" \notin Events
        /\ ~(used.rollbacks < MaxRollbacks) /\ ~(used.exits < MaxExits)
    BY <1>1, <1>6, IdleTask, NothingFails DEF TypeOK, Task, Who
  <2>2. OneTransaction'
    BY <1>2, <1>6 DEF OneTransaction, Transacting, Preparing, InPlace
  <2>3. OwnData'
    BY <1>0, <1>2, <1>6 DEF OwnData, OneTransaction, AfterSnapshot, Terminal
  <2> QED
    BY <2>2, <2>3
<1> QED
  BY <1>3, <1>4, <1>5, <1>6

(* The slots are committed. *)
LEMMA AcceptDeploymentUndoable ==
  ASSUME UndoableInv, Inv', AcceptDeployment
  PROVE  Undoable'
<1> USE DEF UndoableInv, Undoable
<1>1. TypeOK /\ TaskInv /\ RestoreInv /\ TypeOK'
  BY DEF Inv
<1>2. /\ task.step = "accept" /\ task.target \in Record /\ staged' = NoRecord
      /\ UNCHANGED <<journal, snapshots, data, dsh, reviving, boot, used>>
      /\ slots' = Slots(task.target, slots.current) /\ slots'.current = task.target
      /\ task.who = "switch" => task' = Idle /\ task'.step = "idle" /\ task'.who = "nobody"
      /\ task.who # "switch" => /\ task'.step = "erase" /\ task'.who = task.who
                                /\ journal.phase = "restoring-data" /\ Matches(task.target, journal.from)
  BY <1>1, GotoStep, IdleTask, SlotsType
     DEF AcceptDeployment, TaskInv, RestoreInv, RestoringTask, Returning, Switching, At, Goto, Step,
         dataVars, dshVars, TypeOK
<1>3. task.target = slots.previous =>
        (Matches(slots.current, journal.from) \/ Matches(slots.previous, journal.from) =>
           Matches(slots'.current, journal.from) \/ Matches(slots'.previous, journal.from))
  BY <1>2 DEF Slots
<1>4. PhaseTells'
  BY <1>2 DEF PhaseTells
<1>5. ArchiveStands'
  BY <1>2 DEF ArchiveStands, Archived
<1>6. ReturnStands'
  BY <1>2, <1>3 DEF ReturnStands, OneTransaction, Transacting, Preparing, AfterSnapshot, Terminal
<1>7. ASSUME Unfailing PROVE OneTransaction' /\ OwnData'
  <2>1. /\ OneTransaction /\ OwnData /\ Idle.step = "idle"
        /\ task.who \in {"nobody", "update", "rollback", "switch", "boot"}
        /\ "restore-fails" \notin Events /\ "unhealthy-restore" \notin Events
        /\ ~(used.rollbacks < MaxRollbacks) /\ ~(used.exits < MaxExits)
    BY <1>1, <1>7, IdleTask, NothingFails DEF TypeOK, Task, Who
  <2>2. OneTransaction'
    BY <1>2, <1>7, <2>1 DEF OneTransaction, Transacting, Preparing
  <2>3. OwnData'
    BY <1>2, <1>7 DEF OwnData, Own, Archived, DshRuns
  <2> QED
    BY <2>2, <2>3
<1> QED
  BY <1>4, <1>5, <1>6, <1>7

(* Bootstrap ends the activation it finds. *)
LEMMA BootstrapStartsUndoable ==
  ASSUME UndoableInv, Inv', BootstrapStarts
  PROVE  Undoable'
<1> USE DEF UndoableInv, Undoable
<1>1. TypeOK /\ TaskInv /\ RestoreInv /\ TypeOK'
  BY DEF Inv
<1>2. /\ boot = "down" /\ boot' = "recover" /\ staged' = NoRecord /\ task = Idle /\ task.step = "idle" /\ task.who = "nobody"
      /\ UNCHANGED <<slots, journal, snapshots, data, dsh, reviving, task, used>>
  BY <1>1, IdleTask DEF BootstrapStarts, TaskInv, dataVars, dshVars, TypeOK
<1>3. PhaseTells'
  BY <1>2 DEF PhaseTells
<1>4. ArchiveStands'
  BY <1>2 DEF ArchiveStands, Archived
<1>5. ReturnStands'
  BY <1>2 DEF ReturnStands, Transacting, Preparing
<1>6. ASSUME Unfailing PROVE OneTransaction' /\ OwnData'
  <2>1. /\ OneTransaction /\ OwnData /\ Idle.step = "idle"
        /\ task.who \in {"nobody", "update", "rollback", "switch", "boot"}
        /\ "restore-fails" \notin Events /\ "unhealthy-restore" \notin Events
        /\ ~(used.rollbacks < MaxRollbacks) /\ ~(used.exits < MaxExits)
    BY <1>1, <1>6, IdleTask, NothingFails DEF TypeOK, Task, Who
  <2>2. OneTransaction'
    BY <1>2, <1>6 DEF OneTransaction, Transacting, Preparing, DshRuns
  <2>3. OwnData'
    BY <1>2, <1>6 DEF OwnData, Own, Archived, DshRuns
  <2> QED
    BY <2>2, <2>3
<1> QED
  BY <1>3, <1>4, <1>5, <1>6

(* The recovery of the start-up begins, or has nothing to restore. *)
LEMMA RecoverInterruptedUpdateUndoable ==
  ASSUME UndoableInv, Inv', RecoverInterruptedUpdate
  PROVE  Undoable'
<1> USE DEF UndoableInv, Undoable
<1>1. TypeOK /\ TaskInv /\ RestoreInv /\ TypeOK'
  BY DEF Inv
<1>2. /\ boot = "recover" /\ task = Idle /\ task.step = "idle" /\ task.who = "nobody"
      /\ UNCHANGED <<slots, staged, snapshots, data, dsh, reviving, used>>
      /\ journal'.from = journal.from /\ journal'.to = journal.to /\ journal'.snapshot = journal.snapshot
      /\ \/ /\ boot' = "start" /\ journal'.phase \in Terminal /\ journal'.phase \notin AfterSnapshot
            /\ task' = Idle /\ task'.step = "idle" /\ task'.who = "nobody"
            /\ journal.phase # "restoring-data"
         \/ /\ boot' = "recover" /\ journal'.phase = "restoring-data" /\ journal.phase \in AfterSnapshot
            /\ task'.step = "restore" /\ task'.who = "boot"
  <2>1. boot = "recover" /\ task = Idle /\ UNCHANGED <<slots, staged, snapshots, data, dsh, reviving, used>>
    BY DEF RecoverInterruptedUpdate, dataVars, dshVars
  <2>2. CASE journal.phase \in Terminal /\ boot' = "start" /\ UNCHANGED <<journal, task>>
    BY <2>1, <2>2, IdleTask DEF Terminal, AfterSnapshot
  <2>3. CASE Transition("failed") /\ boot' = "start" /\ UNCHANGED task /\ journal.phase \in BeforeSwitch
    <3>1. /\ journal'.phase = "failed" /\ journal'.from = journal.from
          /\ journal'.to = journal.to /\ journal'.snapshot = journal.snapshot
      BY <1>1, <2>3, TransitionStep DEF TypeOK
    <3> QED
      BY <2>1, <2>3, <3>1, IdleTask DEF Terminal, AfterSnapshot, BeforeSwitch
  <2>4. CASE /\ journal.phase \in AfterSnapshot /\ Restoring /\ UNCHANGED boot
             /\ Begin("boot", "restore", NoRecord, 0)
    <3>1. task'.step = "restore" /\ task'.who = "boot"
      BY <2>4 DEF Begin
    <3> QED
      BY <1>1, <2>1, <2>4, <3>1, RestoringFrame, IdleTask
  <2> QED
    BY <2>2, <2>3, <2>4 DEF RecoverInterruptedUpdate
<1>3. PhaseTells'
  BY <1>2 DEF PhaseTells
<1>4. ArchiveStands'
  BY <1>2 DEF ArchiveStands, Archived
<1>5. ReturnStands'
  BY <1>2 DEF ReturnStands, Transacting, Preparing
<1>6. ASSUME Unfailing PROVE OneTransaction' /\ OwnData'
  <2>1. /\ OneTransaction /\ OwnData /\ Idle.step = "idle"
        /\ task.who \in {"nobody", "update", "rollback", "switch", "boot"}
        /\ "restore-fails" \notin Events /\ "unhealthy-restore" \notin Events
        /\ ~(used.rollbacks < MaxRollbacks) /\ ~(used.exits < MaxExits)
    BY <1>1, <1>6, IdleTask, NothingFails DEF TypeOK, Task, Who
  <2>2. OneTransaction'
    BY <1>2, <1>6 DEF OneTransaction, Transacting, Preparing, InPlace
  <2>3. OwnData'
    BY <1>2, <1>6 DEF OwnData, Own, Archived, DshRuns
  <2> QED
    BY <2>2, <2>3
<1> QED
  BY <1>3, <1>4, <1>5, <1>6

(* The start-up ends. *)
LEMMA StartDeploymentUndoable ==
  ASSUME UndoableInv, Inv', StartDeployment
  PROVE  Undoable'
<1> USE DEF UndoableInv, Undoable
<1>1. TypeOK /\ TaskInv /\ RestoreInv /\ TypeOK'
  BY DEF Inv
<1>0. used'.stable = used.stable /\ used'.updates = used.updates
  BY <1>1, Missed DEF StartDeployment, TypeOK
<1>2. /\ boot = "start" /\ boot' = "ready" /\ task = Idle /\ task.step = "idle" /\ task.who = "nobody"
      /\ UNCHANGED <<staged, journal, snapshots, data, reviving, task>>
      /\ slots' = slots \/ (slots.previous # NoRecord /\ slots' = Slots(slots.previous, slots.current))
  BY <1>1, IdleTask DEF StartDeployment, TaskInv, dataVars, dshVars, TypeOK
<1>3. Matches(slots.current, journal.from) \/ Matches(slots.previous, journal.from) =>
        Matches(slots'.current, journal.from) \/ Matches(slots'.previous, journal.from)
  BY <1>2 DEF Slots
<1>4. PhaseTells'
  BY <1>2 DEF PhaseTells
<1>5. ArchiveStands'
  BY <1>0, <1>2 DEF ArchiveStands, Archived
<1>6. ReturnStands'
  BY <1>0, <1>2, <1>3 DEF ReturnStands, Transacting, Preparing
<1>7. ASSUME Unfailing PROVE OneTransaction' /\ OwnData'
  <2>1. /\ OneTransaction /\ OwnData /\ Idle.step = "idle"
        /\ task.who \in {"nobody", "update", "rollback", "switch", "boot"}
        /\ "restore-fails" \notin Events /\ "unhealthy-restore" \notin Events
        /\ ~(used.rollbacks < MaxRollbacks) /\ ~(used.exits < MaxExits)
    BY <1>1, <1>7, IdleTask, NothingFails DEF TypeOK, Task, Who
  <2>2. OneTransaction'
    BY <1>2, <1>7 DEF OneTransaction, Transacting, Preparing, InPlace
  <2>3. OwnData'
    BY <1>0, <1>2, <1>7 DEF OwnData, OneTransaction, AfterSnapshot, Terminal
  <2> QED
    BY <2>2, <2>3
<1> QED
  BY <1>4, <1>5, <1>6, <1>7

(* DSH is revived. *)
LEMMA ReviveUndoable ==
  ASSUME UndoableInv, Inv', Revive
  PROVE  Undoable'
<1> USE DEF UndoableInv, Undoable
<1>1. TypeOK /\ TaskInv /\ RestoreInv /\ TypeOK'
  BY DEF Inv
<1>0. used'.stable = used.stable /\ used'.updates = used.updates
  BY <1>1, Missed DEF Revive, TypeOK
<1>2. /\ reviving = TRUE /\ UNCHANGED <<slots, staged, journal, snapshots, data, boot, task>>
  BY <1>1 DEF Revive, TypeOK, dataVars, dshVars, TypeOK
<1>3. PhaseTells'
  BY <1>2 DEF PhaseTells
<1>4. ArchiveStands'
  BY <1>0, <1>2 DEF ArchiveStands, Archived
<1>5. ReturnStands'
  BY <1>0, <1>2 DEF ReturnStands, Transacting, Preparing
<1>6. ASSUME Unfailing PROVE OneTransaction' /\ OwnData'
  <2>1. /\ OneTransaction /\ OwnData /\ Idle.step = "idle"
        /\ task.who \in {"nobody", "update", "rollback", "switch", "boot"}
        /\ "restore-fails" \notin Events /\ "unhealthy-restore" \notin Events
        /\ ~(used.rollbacks < MaxRollbacks) /\ ~(used.exits < MaxExits)
    BY <1>1, <1>6, IdleTask, NothingFails DEF TypeOK, Task, Who
  <2>2. OneTransaction'
    BY <1>2, <1>6 DEF OneTransaction
  <2>3. OwnData'
    BY <1>0, <1>2, <1>6 DEF OwnData, OneTransaction
  <2> QED
    BY <2>2, <2>3
<1> QED
  BY <1>3, <1>4, <1>5, <1>6

(* DSH writes what it read and its own mark. *)
LEMMA DshWritesUndoable ==
  ASSUME UndoableInv, Inv', DshWrites
  PROVE  Undoable'
<1> USE DEF UndoableInv, Undoable
<1>1. TypeOK /\ TaskInv /\ RestoreInv /\ TypeOK'
  BY DEF Inv
<1>2. /\ UNCHANGED <<slots, staged, journal, snapshots, dsh, reviving, boot, task, used>>
      /\ DshRuns /\ data' = data \union dsh.read \union {dsh.record} /\ data' # {}
  BY <1>1 DEF DshWrites, dataVars, dshVars, TypeOK
<1>3. PhaseTells'
  BY <1>2 DEF PhaseTells
<1>4. ArchiveStands'
  BY <1>2 DEF ArchiveStands, Archived
<1>5. ReturnStands'
  BY <1>2 DEF ReturnStands, Transacting, Preparing
<1>6. ASSUME Unfailing PROVE OneTransaction' /\ OwnData'
  <2>1. /\ OneTransaction /\ OwnData /\ Idle.step = "idle"
        /\ task.who \in {"nobody", "update", "rollback", "switch", "boot"}
        /\ "restore-fails" \notin Events /\ "unhealthy-restore" \notin Events
        /\ ~(used.rollbacks < MaxRollbacks) /\ ~(used.exits < MaxExits)
    BY <1>1, <1>6, IdleTask, NothingFails DEF TypeOK, Task, Who
  <2>2. OneTransaction'
    BY <1>2, <1>6 DEF OneTransaction, Transacting, Preparing, InPlace
  <2>3. OwnData'
    BY <1>2, <1>6 DEF OwnData, Own, Archived, DshRuns
  <2> QED
    BY <2>2, <2>3
<1> QED
  BY <1>3, <1>4, <1>5, <1>6

(* DSH is stopped. *)
LEMMA UserStopsUndoable ==
  ASSUME UndoableInv, Inv', UserStops
  PROVE  Undoable'
<1> USE DEF UndoableInv, Undoable
<1>1. TypeOK /\ TaskInv /\ RestoreInv /\ TypeOK'
  BY DEF Inv
<1>2. /\ boot = "ready" /\ task = Idle /\ task.step = "idle" /\ task.who = "nobody"
      /\ UNCHANGED <<slots, staged, journal, snapshots, data, reviving, boot, task, used>>
  BY <1>1, IdleTask DEF UserStops, Resting, dataVars, dshVars, TypeOK
<1>3. PhaseTells'
  BY <1>2 DEF PhaseTells
<1>4. ArchiveStands'
  BY <1>2 DEF ArchiveStands, Archived
<1>5. ReturnStands'
  BY <1>2 DEF ReturnStands, Transacting, Preparing
<1>6. ASSUME Unfailing PROVE OneTransaction' /\ OwnData'
  <2>1. /\ OneTransaction /\ OwnData /\ Idle.step = "idle"
        /\ task.who \in {"nobody", "update", "rollback", "switch", "boot"}
        /\ "restore-fails" \notin Events /\ "unhealthy-restore" \notin Events
        /\ ~(used.rollbacks < MaxRollbacks) /\ ~(used.exits < MaxExits)
    BY <1>1, <1>6, IdleTask, NothingFails DEF TypeOK, Task, Who
  <2>2. OneTransaction'
    BY <1>2, <1>6 DEF OneTransaction, Transacting, Preparing, InPlace
  <2>3. OwnData'
    BY <1>2, <1>6 DEF OwnData, OneTransaction, AfterSnapshot, Terminal
  <2> QED
    BY <2>2, <2>3
<1> QED
  BY <1>3, <1>4, <1>5, <1>6

(* DSH is started. *)
LEMMA UserStartsUndoable ==
  ASSUME UndoableInv, Inv', UserStarts
  PROVE  Undoable'
<1> USE DEF UndoableInv, Undoable
<1>1. TypeOK /\ TaskInv /\ RestoreInv /\ TypeOK'
  BY DEF Inv
<1>2. /\ boot = "ready" /\ task = Idle /\ task.step = "idle" /\ task.who = "nobody"
      /\ UNCHANGED <<slots, staged, journal, snapshots, data, reviving, boot, task, used>>
  BY <1>1, IdleTask DEF UserStarts, Resting, dataVars, dshVars, TypeOK
<1>3. PhaseTells'
  BY <1>2 DEF PhaseTells
<1>4. ArchiveStands'
  BY <1>2 DEF ArchiveStands, Archived
<1>5. ReturnStands'
  BY <1>2 DEF ReturnStands, Transacting, Preparing
<1>6. ASSUME Unfailing PROVE OneTransaction' /\ OwnData'
  <2>1. /\ OneTransaction /\ OwnData /\ Idle.step = "idle"
        /\ task.who \in {"nobody", "update", "rollback", "switch", "boot"}
        /\ "restore-fails" \notin Events /\ "unhealthy-restore" \notin Events
        /\ ~(used.rollbacks < MaxRollbacks) /\ ~(used.exits < MaxExits)
    BY <1>1, <1>6, IdleTask, NothingFails DEF TypeOK, Task, Who
  <2>2. OneTransaction'
    BY <1>2, <1>6 DEF OneTransaction, Transacting, Preparing, InPlace
  <2>3. OwnData'
    BY <1>2, <1>6 DEF OwnData, OneTransaction, AfterSnapshot, Terminal
  <2> QED
    BY <2>2, <2>3
<1> QED
  BY <1>3, <1>4, <1>5, <1>6

(* A transaction begins, or finds an earlier one unfinished. *)
LEMMA BeginUpdateUndoable ==
  ASSUME UndoableInv, Inv', BeginUpdate
  PROVE  Undoable'
<1> USE DEF UndoableInv, Undoable
<1>1. TypeOK /\ TaskInv /\ RestoreInv /\ TypeOK'
  BY DEF Inv
<1>2. /\ boot = "ready" /\ task = Idle /\ task.step = "idle" /\ task.who = "nobody"
      /\ UNCHANGED <<slots, staged, snapshots, data, dsh, reviving, boot>>
      /\ used'.stable = used.stable /\ task'.who = "update"
      /\ \/ /\ journal.phase \in Terminal /\ journal'.phase = "planning" /\ journal'.from = slots.current
            /\ task'.step = "ready" /\ task'.target = journal'.to /\ Copy[journal'.to] = journal'.to
         \/ journal.phase \notin Terminal /\ task'.step = "undo" /\ journal' = journal
  <2> DEFINE to == Candidate[used.updates + 1]
  <2>1. /\ boot = "ready" /\ task = Idle /\ UNCHANGED <<slots, staged, snapshots, data, dsh, reviving, boot>>
        /\ used.updates < MaxUpdates /\ used' = [used EXCEPT !.updates = used.updates + 1]
    BY DEF BeginUpdate, Resting, Spend, dataVars, dshVars
  <2>2. used.updates \in 0..MaxUpdates /\ used'.stable = used.stable
    BY <1>1, <2>1 DEF TypeOK, Used
  <2>3. used.updates + 1 \in 1..MaxUpdates
    BY <2>1, <2>2, Bounds
  <2>4. Copy[to] = to
    BY <2>3, ManagedAssumption
  <2>5. CASE /\ journal.phase \in Terminal
             /\ journal' = [phase |-> "planning", from |-> slots.current, to |-> to, snapshot |-> 0]
             /\ Begin("update", "ready", to, journal.snapshot)
    <3>1. task'.step = "ready" /\ task'.who = "update" /\ task'.target = to
      BY <2>5 DEF Begin
    <3> HIDE DEF to
    <3> QED
      BY <2>1, <2>2, <2>4, <2>5, <3>1, IdleTask
  <2>6. CASE journal.phase \notin Terminal /\ Begin("update", "undo", to, 0) /\ UNCHANGED journal
    <3>1. task'.step = "undo" /\ task'.who = "update"
      BY <2>6 DEF Begin
    <3> QED
      BY <2>1, <2>2, <2>6, <3>1, IdleTask
  <2> QED
    BY <2>5, <2>6 DEF BeginUpdate
<1>3. Matches(slots.current, slots.current)
  BY <1>1, UpdateAssumption DEF Matches, TypeOK
<1>4. PhaseTells'
  BY <1>2 DEF PhaseTells
<1>5. ArchiveStands'
  BY <1>2 DEF ArchiveStands, Archived, AfterSnapshot, Terminal
<1>6. ReturnStands'
  BY <1>2, <1>3 DEF ReturnStands, Transacting, Preparing
<1>7. ASSUME Unfailing PROVE OneTransaction' /\ OwnData'
  <2>1. /\ OneTransaction /\ OwnData /\ Idle.step = "idle"
        /\ task.who \in {"nobody", "update", "rollback", "switch", "boot"}
        /\ "restore-fails" \notin Events /\ "unhealthy-restore" \notin Events
        /\ ~(used.rollbacks < MaxRollbacks) /\ ~(used.exits < MaxExits)
    BY <1>1, <1>7, IdleTask, NothingFails DEF TypeOK, Task, Who
  <2>2. OneTransaction'
    BY <1>2, <1>7 DEF OneTransaction, InPlace
  <2>3. OwnData'
    BY <1>2, <1>7 DEF OwnData, OneTransaction, AfterSnapshot
  <2> QED
    BY <2>2, <2>3
<1> QED
  BY <1>4, <1>5, <1>6, <1>7

(* A complete rollback begins, or a switch to the other slot. *)
LEMMA BeginRollbackUndoable ==
  ASSUME UndoableInv, Inv', BeginRollback
  PROVE  Undoable'
<1> USE DEF UndoableInv, Undoable
<1>1. TypeOK /\ TaskInv /\ RestoreInv /\ TypeOK'
  BY DEF Inv
<1>2. /\ boot = "ready" /\ task = Idle /\ task.step = "idle" /\ task.who = "nobody"
      /\ UNCHANGED <<slots, staged, snapshots, data, dsh, reviving, boot>>
      /\ used'.stable = used.stable /\ used'.updates = used.updates /\ used.rollbacks < MaxRollbacks
      /\ \/ /\ journal'.phase = "restoring-data" /\ Archived # {} /\ Matches(slots.previous, journal.from)
            /\ journal'.from = journal.from /\ journal'.to = journal.to /\ journal'.snapshot = journal.snapshot
            /\ task'.step = "stop" /\ task'.who = "rollback"
         \/ /\ task'.step = "switch" /\ task'.who = "switch" /\ task'.target = slots.previous
            /\ journal' = journal
  <2>1. /\ boot = "ready" /\ task = Idle /\ UNCHANGED <<slots, staged, snapshots, data, dsh, reviving, boot>>
        /\ used.rollbacks < MaxRollbacks /\ used' = [used EXCEPT !.rollbacks = used.rollbacks + 1]
    BY DEF BeginRollback, Resting, Spend, dataVars, dshVars
  <2>2. used'.stable = used.stable /\ used'.updates = used.updates
    BY <1>1, <2>1 DEF TypeOK, Used
  <2>3. CASE /\ Matches(slots.previous, journal.from) /\ snapshots[journal.snapshot] # {}
             /\ Transition("restoring-data") /\ Begin("rollback", "stop", NoRecord, 0)
    <3>1. task'.step = "stop" /\ task'.who = "rollback"
      BY <2>3 DEF Begin
    <3>2. /\ journal'.phase = "restoring-data" /\ journal'.from = journal.from
          /\ journal'.to = journal.to /\ journal'.snapshot = journal.snapshot
      BY <1>1, <2>3, TransitionStep DEF TypeOK
    <3> QED
      BY <2>1, <2>2, <2>3, <3>1, <3>2, IdleTask DEF Archived
  <2>4. CASE Begin("switch", "switch", slots.previous, 0) /\ UNCHANGED journal
    <3>1. task'.step = "switch" /\ task'.who = "switch" /\ task'.target = slots.previous
      BY <2>4 DEF Begin
    <3> QED
      BY <2>1, <2>2, <2>4, <3>1, IdleTask
  <2> QED
    BY <2>3, <2>4 DEF BeginRollback
<1>3. PhaseTells'
  BY <1>2 DEF PhaseTells
<1>4. ArchiveStands'
  BY <1>2 DEF ArchiveStands, Archived
<1>5. ReturnStands'
  BY <1>2 DEF ReturnStands, Transacting, Preparing
<1>6. ASSUME Unfailing PROVE OneTransaction' /\ OwnData'
  <2>1. /\ OneTransaction /\ OwnData /\ Idle.step = "idle"
        /\ task.who \in {"nobody", "update", "rollback", "switch", "boot"}
        /\ "restore-fails" \notin Events /\ "unhealthy-restore" \notin Events
        /\ ~(used.rollbacks < MaxRollbacks) /\ ~(used.exits < MaxExits)
    BY <1>1, <1>6, IdleTask, NothingFails DEF TypeOK, Task, Who
  <2>2. OneTransaction'
    BY <1>2, <1>6, <2>1 DEF OneTransaction
  <2>3. OwnData'
    BY <1>2, <1>6, <2>1 DEF OwnData
  <2> QED
    BY <2>2, <2>3
<1> QED
  BY <1>3, <1>4, <1>5, <1>6

(* A Stable update begins. *)
LEMMA BeginStableUndoable ==
  ASSUME UndoableInv, Inv', BeginStable
  PROVE  Undoable'
<1> USE DEF UndoableInv, Undoable
<1>1. TypeOK /\ TaskInv /\ RestoreInv /\ TypeOK'
  BY DEF Inv
<1>2. /\ boot = "ready" /\ task = Idle /\ task.step = "idle" /\ task.who = "nobody"
      /\ UNCHANGED <<staged, journal, snapshots, data, dsh, reviving, boot>>
      /\ used'.stable # 0 /\ used'.updates = used.updates /\ task'.step = "switch" /\ task'.who = "switch"
  <2>1. /\ boot = "ready" /\ task = Idle /\ UNCHANGED <<staged, journal, snapshots, data, dsh, reviving, boot>>
        /\ used' = [used EXCEPT !.stable = used.stable + 1]
        /\ task'.step = "switch" /\ task'.who = "switch"
    BY DEF BeginStable, Resting, Spend, Begin, dataVars, dshVars
  <2>2. used.stable \in 0..MaxStable /\ used'.stable = used.stable + 1 /\ used'.updates = used.updates
    BY <1>1, <2>1 DEF TypeOK, Used
  <2> QED
    BY <2>1, <2>2, Bounds, IdleTask
<1>3. PhaseTells'
  BY <1>2 DEF PhaseTells
<1>4. ArchiveStands'
  BY <1>2 DEF ArchiveStands, Archived
<1>5. ReturnStands'
  BY <1>2 DEF ReturnStands, OneTransaction, Transacting, Preparing, AfterSnapshot, Terminal
<1>6. ASSUME Unfailing PROVE OneTransaction' /\ OwnData'
  <2>1. /\ OneTransaction /\ OwnData /\ Idle.step = "idle"
        /\ task.who \in {"nobody", "update", "rollback", "switch", "boot"}
        /\ "restore-fails" \notin Events /\ "unhealthy-restore" \notin Events
        /\ ~(used.rollbacks < MaxRollbacks) /\ ~(used.exits < MaxExits)
    BY <1>1, <1>6, IdleTask, NothingFails DEF TypeOK, Task, Who
  <2>2. OneTransaction'
    BY <1>2, <1>6 DEF OneTransaction, Transacting, Preparing, InPlace
  <2>3. OwnData'
    BY <1>2, <1>6 DEF OwnData, Own, Archived, DshRuns
  <2> QED
    BY <2>2, <2>3
<1> QED
  BY <1>3, <1>4, <1>5, <1>6

(* DSH exits. *)
LEMMA DshExitsUndoable ==
  ASSUME UndoableInv, Inv', DshExits
  PROVE  Undoable'
<1> USE DEF UndoableInv, Undoable
<1>1. TypeOK /\ TaskInv /\ RestoreInv /\ TypeOK'
  BY DEF Inv
<1>2. /\ UNCHANGED <<slots, staged, journal, snapshots, data, boot, task>> /\ used.exits < MaxExits
      /\ used'.stable = used.stable /\ used'.updates = used.updates
  <2>1. /\ UNCHANGED <<slots, staged, journal, snapshots, data, boot, task>> /\ used.exits < MaxExits
        /\ used' = [used EXCEPT !.exits = used.exits + 1]
    BY DEF DshExits, Spend, dataVars
  <2> QED
    BY <1>1, <2>1 DEF TypeOK, Used
<1>3. PhaseTells'
  BY <1>2 DEF PhaseTells
<1>4. ArchiveStands'
  BY <1>2 DEF ArchiveStands, Archived
<1>5. ReturnStands'
  BY <1>2 DEF ReturnStands, Transacting, Preparing
<1>6. ASSUME Unfailing PROVE OneTransaction' /\ OwnData'
  <2>1. /\ OneTransaction /\ OwnData /\ Idle.step = "idle"
        /\ task.who \in {"nobody", "update", "rollback", "switch", "boot"}
        /\ "restore-fails" \notin Events /\ "unhealthy-restore" \notin Events
        /\ ~(used.rollbacks < MaxRollbacks) /\ ~(used.exits < MaxExits)
    BY <1>1, <1>6, IdleTask, NothingFails DEF TypeOK, Task, Who
  <2>2. OneTransaction'
    BY <1>2, <1>6, <2>1 DEF OneTransaction
  <2>3. OwnData'
    BY <1>2, <1>6, <2>1 DEF OwnData
  <2> QED
    BY <2>2, <2>3
<1> QED
  BY <1>3, <1>4, <1>5, <1>6

(* The container is lost. *)
LEMMA CrashUndoable ==
  ASSUME UndoableInv, Inv', Crash
  PROVE  Undoable'
<1> USE DEF UndoableInv, Undoable
<1>1. TypeOK /\ TaskInv /\ RestoreInv /\ TypeOK'
  BY DEF Inv
<1>2. /\ boot' = "down" /\ task' = Idle /\ task'.step = "idle" /\ task'.who = "nobody" /\ dsh' = NoDsh /\ reviving' = FALSE
      /\ UNCHANGED <<slots, staged, journal, snapshots, data>>
      /\ used'.stable = used.stable /\ used'.updates = used.updates
  <2>1. UNCHANGED <<slots, staged, journal, snapshots, data>>
    BY DEF Crash, dataVars
  <2>2. used'.stable = used.stable /\ used'.updates = used.updates
    BY <1>1 DEF Crash, TypeOK, Used
  <2> QED
    BY <2>1, <2>2, IdleTask DEF Crash
<1>3. PhaseTells'
  BY <1>2 DEF PhaseTells
<1>4. ArchiveStands'
  BY <1>2 DEF ArchiveStands, Archived
<1>5. ReturnStands'
  BY <1>2 DEF ReturnStands, Transacting, Preparing
<1>6. ASSUME Unfailing PROVE OneTransaction' /\ OwnData'
  <2>1. /\ OneTransaction /\ OwnData /\ Idle.step = "idle"
        /\ task.who \in {"nobody", "update", "rollback", "switch", "boot"}
        /\ "restore-fails" \notin Events /\ "unhealthy-restore" \notin Events
        /\ ~(used.rollbacks < MaxRollbacks) /\ ~(used.exits < MaxExits)
    BY <1>1, <1>6, IdleTask, NothingFails DEF TypeOK, Task, Who
  <2>2. OneTransaction'
    BY <1>2, <1>6 DEF OneTransaction, Transacting, Preparing, InPlace, DshRuns
  <2>3. OwnData'
    BY <1>2, <1>6 DEF OwnData, Own, Archived, DshRuns
  <2> QED
    BY <2>2, <2>3
<1> QED
  BY <1>3, <1>4, <1>5, <1>6

(* The invariant holds at first and after every step. *)
LEMMA InitUndoable == Init => UndoableInv
<1> SUFFICES ASSUME Init PROVE UndoableInv
  OBVIOUS
<1>1. /\ task = Idle /\ task.step = "idle" /\ task.who = "nobody" /\ boot = "down"
      /\ journal.phase = "none" /\ dsh = NoDsh /\ reviving = FALSE /\ data # {}
  BY IdleTask DEF Init, NoJournal
<1>2. PhaseTells /\ ArchiveStands /\ ReturnStands
  BY <1>1 DEF PhaseTells, ArchiveStands, ReturnStands, Transacting, Preparing, AfterSnapshot
<1>3. OneTransaction /\ OwnData
  BY <1>1 DEF OneTransaction, OwnData, Transacting, Preparing, InPlace, DshRuns, AfterSnapshot
<1> QED
  BY <1>2, <1>3, InitInv DEF UndoableInv, Undoable

LEMMA NextUndoable == UndoableInv /\ [Next]_vars => UndoableInv'
<1> SUFFICES ASSUME UndoableInv, [Next]_vars PROVE UndoableInv'
  OBVIOUS
<1>1. Inv'
  BY NextInv DEF UndoableInv
<1>2. CASE UpdaterNext
  <2>1. Undoable'
    BY <1>1, <1>2, RecordPhaseUndoable, SuspendDshUndoable, CreateSnapshotUndoable, BindSnapshotUndoable,
       StageCandidateUndoable, ObserveUndoable, CommitCandidateUndoable, CleanupUndoable, UndoUndoable,
       AbandonUndoable, FailUndoable, StopDshUndoable, RestoreDeploymentUndoable, EraseDataUndoable,
       ExtractDataUndoable, ResumeDshUndoable, VerifyHealthUndoable, FinishRestoreUndoable,
       SwitchDeploymentUndoable, AcceptDeploymentUndoable
       DEF UpdaterNext
  <2> QED
    BY <1>1, <2>1 DEF UndoableInv
<1>3. CASE BootstrapNext
  <2>1. Undoable'
    BY <1>1, <1>3, BootstrapStartsUndoable, RecoverInterruptedUpdateUndoable, StartDeploymentUndoable,
       ReviveUndoable
       DEF BootstrapNext
  <2> QED
    BY <1>1, <2>1 DEF UndoableInv
<1>4. CASE UserNext
  <2>1. Undoable'
    BY <1>1, <1>4, DshWritesUndoable, UserStopsUndoable, UserStartsUndoable, BeginUpdateUndoable,
       BeginRollbackUndoable, BeginStableUndoable
       DEF UserNext
  <2> QED
    BY <1>1, <2>1 DEF UndoableInv
<1>5. CASE DshExits \/ Crash
  <2>1. Undoable'
    BY <1>1, <1>5, DshExitsUndoable, CrashUndoable
  <2> QED
    BY <1>1, <2>1 DEF UndoableInv
<1>6. CASE UNCHANGED vars
  <2>1. UNCHANGED <<slots, staged, journal, snapshots, data, dsh, reviving, boot, task, used>>
    BY <1>6 DEF vars, dataVars, dshVars
  <2>2. PhaseTells' /\ ArchiveStands' /\ ReturnStands'
    BY <2>1 DEF UndoableInv, Undoable, PhaseTells, ArchiveStands, ReturnStands, Transacting, Preparing, Archived
  <2>3. OneTransaction /\ OwnData => OneTransaction' /\ OwnData'
    BY <2>1 DEF OneTransaction, OwnData, Transacting, Preparing, InPlace, DshRuns, Own, Archived
  <2> QED
    BY <1>1, <2>2, <2>3 DEF UndoableInv, Undoable
<1> QED
  BY <1>2, <1>3, <1>4, <1>5, <1>6 DEF Next

(* What the invariant says of a transaction that may have to be undone: the *)
(* archive is there, and so is its Deployment.                              *)
LEMMA ResumableAlways ==
  UndoableInv /\ (used.stable = 0 \/ Unfailing) => RestorationResumable
BY DEF UndoableInv, Undoable, ArchiveStands, ReturnStands, RestorationResumable, Archived

(* Nor is there work of others among what a restoration erases.             *)
LEMMA OwnWorkAlways ==
  UndoableInv /\ Unfailing => RestoresOwnWork
<1> SUFFICES ASSUME UndoableInv, Unfailing, task.step = "erase"
             PROVE  data \subseteq Own
  BY DEF RestoresOwnWork, At, Own, Archived
<1>1. journal.phase = "restoring-data"
  BY DEF UndoableInv, Inv, TaskInv, RestoringTask, InPlace
<1> QED
  BY <1>1 DEF UndoableInv, Undoable, OwnData, AfterSnapshot

(* An update can be undone for as long as it may have to be, whatever fails *)
(* (recoverInterruptedUpdate, completeRollback), and undoing it takes away   *)
(* nothing of a Stable update that came in between.                         *)
THEOREM RestorationsStand == Spec => []RestorationsHold
<1>1. UndoableInv => RestorationsHold
  BY ResumableAlways, OwnWorkAlways DEF RestorationsHold
<1> QED
  BY InitUndoable, NextUndoable, <1>1, PTL DEF Spec

(* Where nothing but the loss of the container interrupts a restoration,    *)
(* whatever Stable updates there are: it can be completed, and takes away    *)
(* nothing but the work of its own transaction.                             *)
THEOREM RestorationsExact ==
  ASSUME Unfailing
  PROVE  Spec => [](RestorationResumable /\ RestoresOwnWork)
<1>1. UndoableInv => RestorationResumable /\ RestoresOwnWork
  BY ResumableAlways, OwnWorkAlways
<1> QED
  BY InitUndoable, NextUndoable, <1>1, PTL DEF Spec

-----------------------------------------------------------------------------
(* The Updater's coordinator: what its checks and tasks may do.            *)

Failure == [type : {"version", "combination"}, dsh : Nat, environment : Nat]
Installed == [dsh : Nat, environment : Nat, sequence : Nat, authority : {"stable", "experimental"}]
Between == {"waiting", "plan", "stable", "handoff", "activated", "upstream", "restore"}
Attempting == {"candidate", "snapshot", "probation", "commit"}
Tasks ==
  {Nothing}
  \union [step : Between, operation : {"update", "rollback"}, block : BOOLEAN]
  \union [step : Attempting, operation : {"update", "rollback"}, block : BOOLEAN, to : Installed]
Shown == {"idle", "checking", "working", "success", "failed"}

CoordinatorTypes ==
  /\ published \in Targets /\ upstream \in Upstream
  /\ deployed \in Installed /\ previous \in Installed
  /\ blocked \in Failure \union {Nothing} /\ failed \in SUBSET Failure
  /\ status \in [name : Shown, journal : {"none", "open", "committed", "undone"}]
  /\ job \in Tasks

(* Only a task shows that it works, so a start resumes what was asked for. *)
WorkShown == status.name = "working" => job # Nothing

(* Where a task goes is not behind where it is.                            *)
Forward ==
  /\ job.step \in {"stable", "upstream"} => deployed.dsh <= TargetDsh[published]
  /\ job.step \in {"candidate", "snapshot", "probation"} => deployed.dsh <= job.to.dsh

(* The candidate was upstream's, for a target that was published.          *)
Found ==
  job.step \in Attempting =>
    /\ job.to.dsh <= upstream /\ job.to.sequence \in Targets /\ job.to.sequence <= published
    /\ job.to.environment = TargetEnvironment[job.to.sequence]

OrderlyInv == CoordinatorTypes /\ ChecksApart /\ ChecksNeverUpdate /\ WorkShown /\ Forward /\ Found

(* The signed targets do not return to an Environment they replaced.       *)
EnvironmentsAdvance ==
  \A r, s, t \in Targets :
    r <= s /\ s <= t /\ TargetEnvironment[r] = TargetEnvironment[t]
      => TargetEnvironment[r] = TargetEnvironment[s]

(* What failed comes from what was upstream and published by then.         *)
LatestDsh == IF job.step \in Attempting THEN job.to.dsh ELSE upstream
LatestTarget == IF job.step \in Attempting THEN job.to.sequence ELSE published

FailuresKnown ==
  \A f \in failed :
    /\ f.dsh <= LatestDsh
    /\ f.type = "combination" =>
         \E t \in Targets : t <= LatestTarget /\ TargetEnvironment[t] = f.environment

(* What failed is remembered in channel.json, until it cannot come back.   *)
Superseded(f) ==
  \/ f.dsh < upstream
  \/ /\ f.type = "combination"
     /\ \A t \in Targets : t >= published => TargetEnvironment[t] # f.environment
FailuresHeld == \A f \in failed : f \in holds \/ f = blocked \/ Superseded(f)

Untried ==
  /\ job.step = "upstream" => \A f \in failed : ~Covers(f, upstream, deployed.environment)
  /\ job.step \in {"candidate", "snapshot", "probation"} =>
       \A f \in failed : ~Covers(f, job.to.dsh, job.to.environment)

AttemptInv == OrderlyInv /\ FailuresKnown /\ FailuresHeld /\ Untried

LEMMA CheckPlansOrderly == ASSUME OrderlyInv, CheckPlans PROVE OrderlyInv'
<1>1. CoordinatorTypes'
  BY DEF CheckPlans, remote, deployments, local, history, OrderlyInv,
     CoordinatorTypes
<1>2. ChecksApart'
  BY DEF CheckPlans, Nothing, OrderlyInv, ChecksApart
<1>3. ChecksNeverUpdate'
  BY DEF CheckPlans, history, OrderlyInv, ChecksNeverUpdate
<1>4. WorkShown'
  BY DEF CheckPlans, OrderlyInv, WorkShown
<1>5. Forward'
  BY DEF CheckPlans, Nothing, OrderlyInv, ChecksApart, Forward
<1>6. Found'
  BY DEF CheckPlans, Attempting, Nothing, OrderlyInv, ChecksApart, Found
<1> QED BY <1>1, <1>2, <1>3, <1>4, <1>5, <1>6 DEF OrderlyInv

LEMMA CheckSavesOrderly == ASSUME OrderlyInv, CheckSaves PROVE OrderlyInv'
<1>1. CoordinatorTypes'
  BY DEF CheckSaves, remote, deployments, local, history, Shown, OrderlyInv,
     CoordinatorTypes
<1>2. ChecksApart'
  BY DEF CheckSaves, Nothing, OrderlyInv, ChecksApart
<1>3. ChecksNeverUpdate'
  BY DEF CheckSaves, history, OrderlyInv, ChecksNeverUpdate
<1>4. WorkShown'
  BY DEF CheckSaves, WorkShown
<1>5. Forward'
  BY DEF CheckSaves, Nothing, OrderlyInv, ChecksApart, Forward
<1>6. Found'
  BY DEF CheckSaves, Attempting, Nothing, OrderlyInv, ChecksApart, Found
<1> QED BY <1>1, <1>2, <1>3, <1>4, <1>5, <1>6 DEF OrderlyInv

LEMMA CheckNotifiesOrderly == ASSUME OrderlyInv, CheckNotifies PROVE OrderlyInv'
<1>1. CoordinatorTypes'
  BY DEF CheckNotifies, remote, deployments, local, history, OrderlyInv,
     CoordinatorTypes
<1>2. ChecksApart'
  BY DEF CheckNotifies, ChecksApart
<1>3. ChecksNeverUpdate'
  BY DEF CheckNotifies, history, OrderlyInv, ChecksNeverUpdate
<1>4. WorkShown'
  BY DEF CheckNotifies, OrderlyInv, WorkShown
<1>5. Forward'
  BY DEF CheckNotifies, Nothing, OrderlyInv, ChecksApart, Forward
<1>6. Found'
  BY DEF CheckNotifies, Attempting, Nothing, OrderlyInv, ChecksApart, Found
<1> QED BY <1>1, <1>2, <1>3, <1>4, <1>5, <1>6 DEF OrderlyInv

LEMMA CheckFailsOrderly == ASSUME OrderlyInv, CheckFails PROVE OrderlyInv'
<1>1. CoordinatorTypes'
  BY DEF CheckFails, remote, deployments, local, history, Shown, OrderlyInv,
     CoordinatorTypes
<1>2. ChecksApart'
  BY DEF CheckFails, ChecksApart
<1>3. ChecksNeverUpdate'
  BY DEF CheckFails, history, OrderlyInv, ChecksNeverUpdate
<1>4. WorkShown'
  BY DEF CheckFails, WorkShown
<1>5. Forward'
  BY DEF CheckFails, Nothing, OrderlyInv, ChecksApart, Forward
<1>6. Found'
  BY DEF CheckFails, Attempting, Nothing, OrderlyInv, ChecksApart, Found
<1> QED BY <1>1, <1>2, <1>3, <1>4, <1>5, <1>6 DEF OrderlyInv

LEMMA StartCheckOrderly == ASSUME NEW source, OrderlyInv, StartCheck(source) PROVE OrderlyInv'
<1>1. CoordinatorTypes'
  BY DEF StartCheck, remote, deployments, local, history, Shown, OrderlyInv,
     CoordinatorTypes
<1>2. ChecksApart'
  BY DEF StartCheck, Nothing, ChecksApart
<1>3. ChecksNeverUpdate'
  BY DEF StartCheck, ChecksNeverUpdate
<1>4. WorkShown'
  BY DEF StartCheck, WorkShown
<1>5. Forward'
  BY DEF StartCheck, Nothing, Forward
<1>6. Found'
  BY DEF StartCheck, Attempting, Nothing, Found
<1> QED BY <1>1, <1>2, <1>3, <1>4, <1>5, <1>6 DEF OrderlyInv

LEMMA SetChannelOrderly == ASSUME NEW name, OrderlyInv, SetChannel(name) PROVE OrderlyInv'
<1>1. CoordinatorTypes'
  BY DEF SetChannel, remote, deployments, local, history, OrderlyInv,
     CoordinatorTypes
<1>2. ChecksApart'
  BY DEF SetChannel, OrderlyInv, ChecksApart
<1>3. ChecksNeverUpdate'
  BY DEF SetChannel, ChecksNeverUpdate
<1>4. WorkShown'
  BY DEF SetChannel, OrderlyInv, WorkShown
<1>5. Forward'
  BY DEF SetChannel, Nothing, Forward
<1>6. Found'
  BY DEF SetChannel, Attempting, Nothing, Found
<1> QED BY <1>1, <1>2, <1>3, <1>4, <1>5, <1>6 DEF OrderlyInv

LEMMA ChannelWrittenOrderly == ASSUME OrderlyInv, ChannelWritten PROVE OrderlyInv'
<1>1. CoordinatorTypes'
  BY DEF ChannelWritten, remote, deployments, history, OrderlyInv,
     CoordinatorTypes
<1>2. ChecksApart'
  BY DEF ChannelWritten, OrderlyInv, ChecksApart
<1>3. ChecksNeverUpdate'
  BY DEF ChannelWritten, history, OrderlyInv, ChecksNeverUpdate
<1>4. WorkShown'
  BY DEF ChannelWritten, OrderlyInv, WorkShown
<1>5. Forward'
  BY DEF ChannelWritten, remote, deployments, OrderlyInv, Forward
<1>6. Found'
  BY DEF ChannelWritten, remote, OrderlyInv, Found
<1> QED BY <1>1, <1>2, <1>3, <1>4, <1>5, <1>6 DEF OrderlyInv

LEMMA UpstreamClearedOrderly == ASSUME OrderlyInv, UpstreamCleared PROVE OrderlyInv'
<1>1. CoordinatorTypes'
  BY DEF UpstreamCleared, remote, deployments, local, history, OrderlyInv,
     CoordinatorTypes
<1>2. ChecksApart'
  BY DEF UpstreamCleared, OrderlyInv, ChecksApart
<1>3. ChecksNeverUpdate'
  BY DEF UpstreamCleared, history, OrderlyInv, ChecksNeverUpdate
<1>4. WorkShown'
  BY DEF UpstreamCleared, OrderlyInv, WorkShown
<1>5. Forward'
  BY DEF UpstreamCleared, remote, deployments, OrderlyInv, Forward
<1>6. Found'
  BY DEF UpstreamCleared, remote, OrderlyInv, Found
<1> QED BY <1>1, <1>2, <1>3, <1>4, <1>5, <1>6 DEF OrderlyInv

LEMMA RetryHoldOrderly == ASSUME NEW hold, OrderlyInv, RetryHold(hold) PROVE OrderlyInv'
<1>1. CoordinatorTypes'
  BY DEF RetryHold, remote, deployments, OrderlyInv, CoordinatorTypes
<1>2. ChecksApart'
  BY DEF RetryHold, OrderlyInv, ChecksApart
<1>3. ChecksNeverUpdate'
  BY DEF RetryHold, ChecksNeverUpdate
<1>4. WorkShown'
  BY DEF RetryHold, OrderlyInv, WorkShown
<1>5. Forward'
  BY DEF RetryHold, Nothing, Forward
<1>6. Found'
  BY DEF RetryHold, Attempting, Nothing, Found
<1> QED BY <1>1, <1>2, <1>3, <1>4, <1>5, <1>6 DEF OrderlyInv

LEMMA ConfigureAutomaticOrderly == ASSUME OrderlyInv, ConfigureAutomatic PROVE OrderlyInv'
<1>1. CoordinatorTypes'
  BY DEF ConfigureAutomatic, remote, deployments, local, history, OrderlyInv,
     CoordinatorTypes
<1>2. ChecksApart'
  BY DEF ConfigureAutomatic, OrderlyInv, ChecksApart
<1>3. ChecksNeverUpdate'
  BY DEF ConfigureAutomatic, history, OrderlyInv, ChecksNeverUpdate
<1>4. WorkShown'
  BY DEF ConfigureAutomatic, OrderlyInv, WorkShown
<1>5. Forward'
  BY DEF ConfigureAutomatic, remote, deployments, OrderlyInv, Forward
<1>6. Found'
  BY DEF ConfigureAutomatic, remote, OrderlyInv, Found
<1> QED BY <1>1, <1>2, <1>3, <1>4, <1>5, <1>6 DEF OrderlyInv

LEMMA StartTaskOrderly == ASSUME NEW operation \in {"update", "rollback"}, OrderlyInv, StartTask(operation) PROVE OrderlyInv'
<1>1. CoordinatorTypes'
  BY DEF StartTask, remote, deployments, local, Tasks, Between, OrderlyInv,
     CoordinatorTypes
<1>2. ChecksApart'
  BY DEF StartTask, ChecksApart
<1>3. ChecksNeverUpdate'
  BY DEF StartTask, ChecksNeverUpdate
<1>4. WorkShown'
  BY DEF StartTask, OrderlyInv, WorkShown
<1>5. Forward'
  BY DEF StartTask, Forward
<1>6. Found'
  BY DEF StartTask, Attempting, Found
<1> QED BY <1>1, <1>2, <1>3, <1>4, <1>5, <1>6 DEF OrderlyInv

LEMMA TaskBeginsOrderly == ASSUME OrderlyInv, TaskBegins PROVE OrderlyInv'
<1>1. CoordinatorTypes'
  BY DEF TaskBegins, remote, deployments, local, history, Tasks, Between,
     Attempting, Shown, Nothing, OrderlyInv, CoordinatorTypes
<1>2. ChecksApart'
  BY DEF TaskBegins, ChecksApart
<1>3. ChecksNeverUpdate'
  BY DEF TaskBegins, history, Nothing, OrderlyInv, ChecksNeverUpdate
<1>4. WorkShown'
  BY DEF TaskBegins, Nothing, WorkShown
<1>5. Forward'
  BY DEF TaskBegins, Forward
<1>6. Found'
  BY DEF TaskBegins, Attempting, Found
<1> QED BY <1>1, <1>2, <1>3, <1>4, <1>5, <1>6 DEF OrderlyInv

LEMMA TaskFailsOrderly == ASSUME OrderlyInv, TaskFails PROVE OrderlyInv'
<1>1. CoordinatorTypes'
  BY DEF TaskFails, remote, deployments, local, Tasks, Shown, TaskEnds,
     OrderlyInv, CoordinatorTypes
<1>2. ChecksApart'
  BY DEF TaskFails, OrderlyInv, ChecksApart
<1>3. ChecksNeverUpdate'
  BY DEF TaskFails, TaskEnds, ChecksNeverUpdate
<1>4. WorkShown'
  BY DEF TaskFails, TaskEnds, WorkShown
<1>5. Forward'
  BY DEF TaskFails, Nothing, TaskEnds, Forward
<1>6. Found'
  BY DEF TaskFails, Attempting, Nothing, TaskEnds, Found
<1> QED BY <1>1, <1>2, <1>3, <1>4, <1>5, <1>6 DEF OrderlyInv

(* What a task does once it has its plan.                                   *)
PlansTo ==
  /\ UNCHANGED <<published, upstream, deployed, previous, holds, blocked, check, failed>>
  /\ check = Nothing /\ requested = TRUE
  /\ \/ /\ \E o \in {"update", "rollback"}, b \in BOOLEAN :
             job' = [step |-> "stable", operation |-> o, block |-> b]
        /\ deployed.dsh <= TargetDsh[published]
        /\ requested' = TRUE /\ status' = [name |-> "working", journal |-> "none"]
     \/ /\ \E o \in {"update", "rollback"}, b \in BOOLEAN :
             job' = [step |-> "upstream", operation |-> o, block |-> b]
        /\ DesiredAction = "experimental" /\ deployed.dsh <= TargetDsh[published]
        /\ requested' = TRUE /\ status' = [name |-> "working", journal |-> "none"]
     \/ job' = Nothing /\ requested' = FALSE /\ status' = [status EXCEPT !.name = "success"]

LEMMA TaskPlansTo ==
  ASSUME OrderlyInv, TaskPlans
  PROVE  PlansTo
<1> USE CoordinatorAssumption DEF remote, deployments, local, notices
<1>1. /\ UNCHANGED <<published, upstream, deployed, previous, holds, blocked, check, failed>>
      /\ job.step = "plan" /\ job # Nothing
  BY DEF TaskPlans, Nothing
<1>2. check = Nothing /\ requested = TRUE
  BY <1>1 DEF OrderlyInv, ChecksApart, ChecksNeverUpdate, CoordinatorTypes
<1>3. PICK o \in {"update", "rollback"}, b \in BOOLEAN :
        job = [step |-> "plan", operation |-> o, block |-> b]
  BY <1>1 DEF OrderlyInv, CoordinatorTypes, Tasks, Between, Attempting, Nothing
<1>4. published \in Targets /\ deployed.dsh \in Nat /\ TargetDsh[published] \in Nat
  BY DEF OrderlyInv, CoordinatorTypes, Installed, CoordinatorAssumption
<1>5. CASE DesiredAction = "stable"
  <2> DEFINE block == deployed.authority = "experimental"
                        /\ deployed.environment # TargetEnvironment[published]
  <2>1. job' = [job EXCEPT !.step = "stable", !.block = block]
    BY <1>5, <1>1 DEF TaskPlans
  <2>2. block \in BOOLEAN
    OBVIOUS
  <2> HIDE DEF block
  <2>3. job' = [step |-> "stable", operation |-> o, block |-> block]
    BY <1>3, <2>1
  <2>4. deployed.dsh <= TargetDsh[published]
    BY <1>5, <1>4 DEF DesiredAction, Ahead
  <2> QED BY <1>1, <1>2, <1>5, <2>2, <2>3, <2>4 DEF TaskPlans, PlansTo
<1>6. CASE DesiredAction = "experimental"
  <2>1. job' = [step |-> "upstream", operation |-> o, block |-> b]
    BY <1>6, <1>3 DEF TaskPlans
  <2>2. deployed.dsh <= TargetDsh[published]
    BY <1>6, <1>4 DEF DesiredAction, Ahead
  <2> QED BY <1>1, <1>2, <1>6, <2>1, <2>2 DEF TaskPlans, PlansTo
<1>7. CASE DesiredAction \notin {"stable", "experimental"}
  BY <1>1, <1>2, <1>7 DEF TaskPlans, TaskEnds, PlansTo
<1> QED BY <1>5, <1>6, <1>7

LEMMA TaskPlansOrderly == ASSUME OrderlyInv, TaskPlans PROVE OrderlyInv'
<1> USE CoordinatorAssumption
<1>0. PlansTo
  BY TaskPlansTo
<1>1. CoordinatorTypes'
  BY <1>0 DEF PlansTo, OrderlyInv, CoordinatorTypes, Tasks, Between, Shown
<1>2. ChecksApart' /\ ChecksNeverUpdate' /\ WorkShown'
  BY <1>0 DEF PlansTo, ChecksApart, ChecksNeverUpdate, WorkShown, Nothing, OrderlyInv, CoordinatorTypes
<1>3. Forward' /\ Found'
  BY <1>0 DEF PlansTo, Forward, Found, Attempting, Nothing
<1> QED BY <1>1, <1>2, <1>3 DEF OrderlyInv

LEMMA StagesBootstrapOrderly == ASSUME OrderlyInv, StagesBootstrap PROVE OrderlyInv'
<1>1. CoordinatorTypes'
  BY DEF StagesBootstrap, remote, local, history, Tasks, Between, Attempting,
     Nothing, OrderlyInv, CoordinatorTypes
<1>2. ChecksApart'
  BY DEF StagesBootstrap, OrderlyInv, ChecksApart
<1>3. ChecksNeverUpdate'
  BY DEF StagesBootstrap, history, Nothing, OrderlyInv, ChecksNeverUpdate
<1>4. WorkShown'
  BY DEF StagesBootstrap, Nothing, WorkShown
<1>5. Forward'
  BY DEF StagesBootstrap, Forward
<1>6. Found'
  BY DEF StagesBootstrap, Attempting, Found
<1> QED BY <1>1, <1>2, <1>3, <1>4, <1>5, <1>6 DEF OrderlyInv

LEMMA ActivatesOrderly == ASSUME OrderlyInv, Activates PROVE OrderlyInv'
<1>1. CoordinatorTypes'
  BY CoordinatorAssumption DEF Activates, remote, local, history, Tasks,
     Between, Attempting, Installed, Nothing, StableOf, CoordinatorAssumption,
     OrderlyInv, CoordinatorTypes
<1>2. ChecksApart'
  BY DEF Activates, OrderlyInv, ChecksApart
<1>3. ChecksNeverUpdate'
  BY DEF Activates, history, Nothing, OrderlyInv, ChecksNeverUpdate
<1>4. WorkShown'
  BY DEF Activates, Nothing, WorkShown
<1>5. Forward'
  BY DEF Activates, Forward
<1>6. Found'
  BY DEF Activates, Attempting, Found
<1> QED BY <1>1, <1>2, <1>3, <1>4, <1>5, <1>6 DEF OrderlyInv

LEMMA PlansAgainOrderly == ASSUME OrderlyInv, PlansAgain PROVE OrderlyInv'
<1>1. CoordinatorTypes'
  BY DEF PlansAgain, remote, deployments, local, Tasks, Between, Attempting,
     Shown, Nothing, TaskEnds, OrderlyInv, CoordinatorTypes
<1>2. ChecksApart'
  BY DEF PlansAgain, OrderlyInv, ChecksApart
<1>3. ChecksNeverUpdate'
  BY DEF PlansAgain, Nothing, TaskEnds, OrderlyInv, ChecksNeverUpdate
<1>4. WorkShown'
  BY DEF PlansAgain, Nothing, TaskEnds, OrderlyInv, CoordinatorTypes,
     WorkShown
<1>5. Forward'
  BY CoordinatorAssumption DEF PlansAgain, remote, deployments, Tasks,
     Installed, Nothing, TaskEnds, DesiredAction, Ahead,
     CoordinatorAssumption, OrderlyInv, CoordinatorTypes, Forward
<1>6. Found'
  BY DEF PlansAgain, Tasks, Attempting, Nothing, TaskEnds, OrderlyInv,
     CoordinatorTypes, Found
<1> QED BY <1>1, <1>2, <1>3, <1>4, <1>5, <1>6 DEF OrderlyInv

LEMMA FindsCandidateOrderly == ASSUME OrderlyInv, FindsCandidate PROVE OrderlyInv'
<1>1. CoordinatorTypes'
  BY CoordinatorAssumption DEF FindsCandidate, remote, deployments, local,
     Tasks, Attempting, Installed, Shown, Nothing, TaskEnds,
     CoordinatorAssumption, OrderlyInv, CoordinatorTypes
<1>2. ChecksApart'
  BY DEF FindsCandidate, OrderlyInv, ChecksApart
<1>3. ChecksNeverUpdate'
  BY DEF FindsCandidate, Nothing, TaskEnds, OrderlyInv, ChecksNeverUpdate
<1>4. WorkShown'
  BY DEF FindsCandidate, Nothing, TaskEnds, OrderlyInv, CoordinatorTypes,
     WorkShown
<1>5. Forward'
  BY CoordinatorAssumption DEF FindsCandidate, deployments, Installed,
     Nothing, TaskEnds, CoordinatorAssumption, OrderlyInv, CoordinatorTypes,
     Forward
<1>6. Found'
  BY CoordinatorAssumption DEF FindsCandidate, remote, Attempting, Nothing,
     TaskEnds, CoordinatorAssumption, OrderlyInv, CoordinatorTypes, Found
<1> QED BY <1>1, <1>2, <1>3, <1>4, <1>5, <1>6 DEF OrderlyInv

LEMMA CandidatePreparedOrderly == ASSUME OrderlyInv, CandidatePrepared PROVE OrderlyInv'
<1>1. CoordinatorTypes'
  BY DEF CandidatePrepared, remote, deployments, local, history, Tasks,
     Between, Attempting, Nothing, Begins, OrderlyInv, CoordinatorTypes
<1>2. ChecksApart'
  BY DEF CandidatePrepared, Begins, OrderlyInv, ChecksApart
<1>3. ChecksNeverUpdate'
  BY DEF CandidatePrepared, history, Nothing, Begins, OrderlyInv,
     ChecksNeverUpdate
<1>4. WorkShown'
  BY DEF CandidatePrepared, Nothing, Begins, WorkShown
<1>5. Forward'
  BY DEF CandidatePrepared, deployments, Begins, OrderlyInv, Forward
<1>6. Found'
  BY DEF CandidatePrepared, remote, Attempting, Begins, OrderlyInv, Found
<1> QED BY <1>1, <1>2, <1>3, <1>4, <1>5, <1>6 DEF OrderlyInv

LEMMA CandidateSwitchedOrderly == ASSUME OrderlyInv, CandidateSwitched PROVE OrderlyInv'
<1>1. CoordinatorTypes'
  BY DEF CandidateSwitched, remote, deployments, local, history, Tasks,
     Between, Attempting, Nothing, Begins, OrderlyInv, CoordinatorTypes
<1>2. ChecksApart'
  BY DEF CandidateSwitched, Begins, OrderlyInv, ChecksApart
<1>3. ChecksNeverUpdate'
  BY DEF CandidateSwitched, history, Nothing, Begins, OrderlyInv,
     ChecksNeverUpdate
<1>4. WorkShown'
  BY DEF CandidateSwitched, Nothing, Begins, WorkShown
<1>5. Forward'
  BY DEF CandidateSwitched, deployments, Begins, OrderlyInv, Forward
<1>6. Found'
  BY DEF CandidateSwitched, remote, Attempting, Begins, OrderlyInv, Found
<1> QED BY <1>1, <1>2, <1>3, <1>4, <1>5, <1>6 DEF OrderlyInv

LEMMA CandidateFailsOrderly == ASSUME OrderlyInv, CandidateFails PROVE OrderlyInv'
<1>1. CoordinatorTypes'
  BY DEF CandidateFails, remote, deployments, Tasks, Between, Installed,
     Failure, Shown, Nothing, Attempt, OrderlyInv, CoordinatorTypes
<1>2. ChecksApart'
  BY DEF CandidateFails, OrderlyInv, ChecksApart
<1>3. ChecksNeverUpdate'
  BY DEF CandidateFails, ChecksNeverUpdate
<1>4. WorkShown'
  BY DEF CandidateFails, WorkShown
<1>5. Forward'
  BY DEF CandidateFails, Nothing, Forward
<1>6. Found'
  BY DEF CandidateFails, Attempting, Nothing, Found
<1> QED BY <1>1, <1>2, <1>3, <1>4, <1>5, <1>6 DEF OrderlyInv

LEMMA CandidateCommittedOrderly == ASSUME OrderlyInv, CandidateCommitted PROVE OrderlyInv'
<1>1. CoordinatorTypes'
  BY DEF CandidateCommitted, remote, local, history, Tasks, Between,
     Attempting, Nothing, OrderlyInv, CoordinatorTypes
<1>2. ChecksApart'
  BY DEF CandidateCommitted, OrderlyInv, ChecksApart
<1>3. ChecksNeverUpdate'
  BY DEF CandidateCommitted, history, Nothing, OrderlyInv, ChecksNeverUpdate
<1>4. WorkShown'
  BY DEF CandidateCommitted, Nothing, WorkShown
<1>5. Forward'
  BY DEF CandidateCommitted, Forward
<1>6. Found'
  BY DEF CandidateCommitted, remote, Attempting, OrderlyInv, Found
<1> QED BY <1>1, <1>2, <1>3, <1>4, <1>5, <1>6 DEF OrderlyInv

LEMMA JournalCommittedOrderly == ASSUME OrderlyInv, JournalCommitted PROVE OrderlyInv'
<1>1. CoordinatorTypes'
  BY DEF JournalCommitted, remote, deployments, local, history, OrderlyInv,
     CoordinatorTypes
<1>2. ChecksApart'
  BY DEF JournalCommitted, OrderlyInv, ChecksApart
<1>3. ChecksNeverUpdate'
  BY DEF JournalCommitted, history, OrderlyInv, ChecksNeverUpdate
<1>4. WorkShown'
  BY DEF JournalCommitted, OrderlyInv, WorkShown
<1>5. Forward'
  BY DEF JournalCommitted, Forward
<1>6. Found'
  BY DEF JournalCommitted, remote, OrderlyInv, Found
<1> QED BY <1>1, <1>2, <1>3, <1>4, <1>5, <1>6 DEF OrderlyInv

LEMMA ExperimentalEndsOrderly == ASSUME OrderlyInv, ExperimentalEnds PROVE OrderlyInv'
<1>1. CoordinatorTypes'
  BY DEF ExperimentalEnds, remote, deployments, local, Tasks, Shown, TaskEnds,
     OrderlyInv, CoordinatorTypes
<1>2. ChecksApart'
  BY DEF ExperimentalEnds, OrderlyInv, ChecksApart
<1>3. ChecksNeverUpdate'
  BY DEF ExperimentalEnds, TaskEnds, ChecksNeverUpdate
<1>4. WorkShown'
  BY DEF ExperimentalEnds, TaskEnds, WorkShown
<1>5. Forward'
  BY DEF ExperimentalEnds, Nothing, TaskEnds, Forward
<1>6. Found'
  BY DEF ExperimentalEnds, Attempting, Nothing, TaskEnds, Found
<1> QED BY <1>1, <1>2, <1>3, <1>4, <1>5, <1>6 DEF OrderlyInv

LEMMA RollsBackOrderly == ASSUME OrderlyInv, RollsBack PROVE OrderlyInv'
<1>1. CoordinatorTypes'
  BY DEF RollsBack, remote, local, Tasks, Shown, TaskEnds, OrderlyInv,
     CoordinatorTypes
<1>2. ChecksApart'
  BY DEF RollsBack, OrderlyInv, ChecksApart
<1>3. ChecksNeverUpdate'
  BY DEF RollsBack, TaskEnds, ChecksNeverUpdate
<1>4. WorkShown'
  BY DEF RollsBack, TaskEnds, WorkShown
<1>5. Forward'
  BY DEF RollsBack, Nothing, TaskEnds, Forward
<1>6. Found'
  BY DEF RollsBack, Attempting, Nothing, TaskEnds, Found
<1> QED BY <1>1, <1>2, <1>3, <1>4, <1>5, <1>6 DEF OrderlyInv

LEMMA RestartOrderly == ASSUME OrderlyInv, Restart PROVE OrderlyInv'
<1>1. CoordinatorTypes'
  BY DEF Restart, remote, local, Tasks, Between, Shown, Recovered,
     ReconcileState, OrderlyInv, CoordinatorTypes
<1>2. ChecksApart'
  BY DEF Restart, ChecksApart
<1>3. ChecksNeverUpdate'
  BY DEF Restart, ReconcileState, OrderlyInv, ChecksNeverUpdate, WorkShown
<1>4. WorkShown'
  BY DEF Restart, Nothing, WorkShown
<1>5. Forward'
  BY DEF Restart, Nothing, Forward
<1>6. Found'
  BY DEF Restart, Attempting, Nothing, Found
<1> QED BY <1>1, <1>2, <1>3, <1>4, <1>5, <1>6 DEF OrderlyInv

LEMMA PublishOrderly == ASSUME OrderlyInv, Publish PROVE OrderlyInv'
<1>1. CoordinatorTypes'
  BY DEF Publish, deployments, local, history, OrderlyInv, CoordinatorTypes
<1>2. ChecksApart'
  BY DEF Publish, OrderlyInv, ChecksApart
<1>3. ChecksNeverUpdate'
  BY DEF Publish, history, OrderlyInv, ChecksNeverUpdate
<1>4. WorkShown'
  BY DEF Publish, OrderlyInv, WorkShown
<1>5. Forward'
  BY CoordinatorAssumption DEF Publish, deployments, Installed,
     CoordinatorAssumption, OrderlyInv, CoordinatorTypes, Forward
<1>6. Found'
  BY CoordinatorAssumption DEF Publish, Tasks, Between, Attempting, Installed,
     Nothing, CoordinatorAssumption, OrderlyInv, CoordinatorTypes, Found
<1> QED BY <1>1, <1>2, <1>3, <1>4, <1>5, <1>6 DEF OrderlyInv

LEMMA InitOrderly == CoordinatorInit => OrderlyInv
<1> SUFFICES ASSUME CoordinatorInit PROVE OrderlyInv
  OBVIOUS
<1>1. CoordinatorTypes
  BY CoordinatorAssumption DEF CoordinatorInit, CoordinatorTypes, CoordinatorAssumption, StableOf,
    Installed, Tasks, Shown
<1> QED BY <1>1 DEF OrderlyInv, CoordinatorInit, ChecksApart, ChecksNeverUpdate, WorkShown, Forward,
    Found, Attempting, Nothing

LEMMA NextOrderly == ASSUME OrderlyInv, [CoordinatorNext]_coordinator PROVE OrderlyInv'
<1>1. CASE Checking
  BY <1>1, CheckPlansOrderly, CheckSavesOrderly, CheckNotifiesOrderly DEF Checking
<1>2. CASE CheckFails
  BY <1>2, CheckFailsOrderly
<1>3. CASE Choosing
  BY <1>3, StartCheckOrderly, SetChannelOrderly, RetryHoldOrderly,
     ConfigureAutomaticOrderly, StartTaskOrderly DEF Choosing
<1>4. CASE Writing
  BY <1>4, ChannelWrittenOrderly, UpstreamClearedOrderly DEF Writing
<1>5. CASE Working
  BY <1>5, TaskBeginsOrderly, TaskPlansOrderly, StagesBootstrapOrderly,
     ActivatesOrderly, PlansAgainOrderly, FindsCandidateOrderly,
     CandidatePreparedOrderly, CandidateSwitchedOrderly,
     CandidateCommittedOrderly, JournalCommittedOrderly,
     ExperimentalEndsOrderly, RollsBackOrderly, TaskFailsOrderly,
     CandidateFailsOrderly DEF Working
<1>6. CASE Restart
  BY <1>6, RestartOrderly
<1>7. CASE Publish
  BY <1>7, PublishOrderly
<1>8. CASE UNCHANGED coordinator
  BY <1>8 DEF coordinator, remote, deployments, local, notices, history, OrderlyInv, CoordinatorTypes,
    ChecksApart, ChecksNeverUpdate, WorkShown, Forward, Found
<1> QED BY <1>1, <1>2, <1>3, <1>4, <1>5, <1>6, <1>7, <1>8 DEF CoordinatorNext

LEMMA GoesBack ==
  ASSUME OrderlyInv, CoordinatorNext, deployed'.dsh < deployed.dsh
  PROVE  job.step \in {"restore", "commit"}
<1> USE DEF remote, deployments, local, notices
<1>1. /\ deployed.dsh \in Nat /\ published \in Targets
      /\ TargetDsh[published] \in Nat /\ deployed'.dsh # deployed.dsh
  BY CoordinatorAssumption DEF OrderlyInv, CoordinatorTypes, Installed, CoordinatorAssumption
<1>2. CASE Working
  <2>1. CASE Activates
    BY <1>1, <2>1 DEF Activates, StableOf, OrderlyInv, Forward
  <2>2. CASE CandidateCommitted
    BY <1>1, <2>2 DEF CandidateCommitted, OrderlyInv, CoordinatorTypes, Forward, Tasks, Between, Attempting,
      Installed, Nothing
  <2>3. CASE RollsBack
    BY <2>3 DEF RollsBack
  <2> QED BY <1>1, <1>2, <2>1, <2>2, <2>3 DEF Working, TaskBegins, TaskPlans, StagesBootstrap,
        PlansAgain, FindsCandidate, CandidatePrepared, CandidateSwitched, Begins, JournalCommitted,
        ExperimentalEnds, TaskFails, CandidateFails
<1>3. CASE Restart
  BY <1>1, <1>3 DEF Restart, Recovered
<1>4. CASE Checking \/ CheckFails \/ Choosing \/ Writing \/ Publish
  BY <1>1, <1>4 DEF Checking, CheckPlans, CheckSaves, CheckNotifies, CheckFails, Choosing, StartCheck,
    SetChannel, RetryHold, ConfigureAutomatic, StartTask, Writing, ChannelWritten, UpstreamCleared,
    Publish
<1> QED BY <1>2, <1>3, <1>4 DEF CoordinatorNext

LEMMA OrderlyAlways == CoordinatorSpec => []OrderlyInv
<1>1. OrderlyInv /\ [CoordinatorNext]_coordinator => OrderlyInv'
  BY NextOrderly
<1> QED BY <1>1, InitOrderly, PTL DEF CoordinatorSpec

(* The Updater's work has an order: no check runs beside the body of a     *)
(* task, no task runs that nobody asked for, and only a rollback or the    *)
(* recovery of an unfinished transaction replaces DSH by an older one      *)
(* (coordinator.mjs), for every sequence of targets whose DSH versions do  *)
(* not decrease.                                                           *)
THEOREM UpdaterIsOrderly == CoordinatorSpec => UpdaterOrderly
<1>1. OrderlyInv => ChecksApart /\ ChecksNeverUpdate
  BY DEF OrderlyInv
<1>2. OrderlyInv /\ [CoordinatorNext]_coordinator
        => [deployed'.dsh < deployed.dsh => job.step \in {"restore", "commit"}]_coordinator
  BY GoesBack
<1> QED BY <1>1, <1>2, OrderlyAlways, PTL DEF CoordinatorSpec, UpdaterOrderly, OnlyRollbackGoesBack

LEMMA InitAttempts == CoordinatorInit => AttemptInv
  BY InitOrderly DEF CoordinatorInit, AttemptInv, FailuresKnown, FailuresHeld, Untried, Nothing

(* Nothing else that the failures depend on: what a check, a choice of the *)
(* channel or the scheduler, and the journal change.                       *)
LEMMA KeptAttempts ==
  ASSUME AttemptInv, OrderlyInv',
         UNCHANGED <<published, upstream, deployed, holds, blocked, failed, job>>
  PROVE  AttemptInv'
<1>1. FailuresKnown' /\ FailuresHeld'
  BY DEF AttemptInv, FailuresKnown, FailuresHeld, LatestDsh, LatestTarget, Superseded
<1>2. Untried'
  BY DEF AttemptInv, Untried, Covers
<1> QED BY <1>1, <1>2 DEF AttemptInv

LEMMA RetryHoldAttempts ==
  ASSUME NEW hold, EnvironmentsAdvance, AttemptInv, OrderlyInv', RetryHold(hold) PROVE AttemptInv'
<1>1. FailuresKnown'
  BY DEF RetryHold, remote, AttemptInv, FailuresKnown, LatestDsh, LatestTarget
<1>2. FailuresHeld'
  BY DEF RetryHold, remote, AttemptInv, FailuresHeld, Superseded
<1>3. Untried'
  BY DEF RetryHold, Nothing, Untried
<1> QED BY <1>1, <1>2, <1>3 DEF AttemptInv

LEMMA StartTaskAttempts ==
  ASSUME NEW operation \in {"update", "rollback"}, EnvironmentsAdvance, AttemptInv, OrderlyInv', StartTask(operation) PROVE AttemptInv'
<1>1. FailuresKnown'
  BY DEF StartTask, remote, Attempting, Nothing, AttemptInv, FailuresKnown,
     LatestDsh, LatestTarget
<1>2. FailuresHeld'
  BY DEF StartTask, remote, local, AttemptInv, FailuresHeld, Superseded
<1>3. Untried'
  BY DEF StartTask, Untried
<1> QED BY <1>1, <1>2, <1>3 DEF AttemptInv

LEMMA TaskBeginsAttempts ==
  ASSUME EnvironmentsAdvance, AttemptInv, OrderlyInv', TaskBegins PROVE AttemptInv'
<1>1. FailuresKnown'
  BY DEF TaskBegins, remote, history, Attempting, AttemptInv, FailuresKnown,
     LatestDsh, LatestTarget
<1>2. FailuresHeld'
  BY DEF TaskBegins, remote, local, history, AttemptInv, FailuresHeld,
     Superseded
<1>3. Untried'
  BY DEF TaskBegins, Untried
<1> QED BY <1>1, <1>2, <1>3 DEF AttemptInv

LEMMA TaskFailsAttempts ==
  ASSUME EnvironmentsAdvance, AttemptInv, OrderlyInv', TaskFails PROVE AttemptInv'
<1>1. FailuresKnown'
  BY DEF TaskFails, remote, Attempting, Nothing, TaskEnds, AttemptInv,
     FailuresKnown, LatestDsh, LatestTarget
<1>2. FailuresHeld'
  BY DEF TaskFails, remote, local, AttemptInv, FailuresHeld, Superseded
<1>3. Untried'
  BY DEF TaskFails, Nothing, TaskEnds, Untried
<1> QED BY <1>1, <1>2, <1>3 DEF AttemptInv

LEMMA TaskPlansAttempts ==
  ASSUME EnvironmentsAdvance, AttemptInv, OrderlyInv', TaskPlans PROVE AttemptInv'
<1> USE CoordinatorAssumption
<1>a. PlansTo
  BY TaskPlansTo DEF AttemptInv
<1>0. /\ UNCHANGED <<published, upstream, deployed, holds, blocked, failed>>
      /\ job.step = "plan" /\ job'.step \in {"stable", "upstream", "none"}
      /\ job'.step = "upstream" => DesiredAction = "experimental"
  BY <1>a DEF TaskPlans, Nothing, PlansTo
<1>1. FailuresKnown'
  BY <1>0 DEF AttemptInv, FailuresKnown, LatestDsh, LatestTarget, Attempting
<1>2. FailuresHeld'
  BY <1>0 DEF AttemptInv, FailuresHeld, Superseded
<1>3. Untried'
  BY <1>0 DEF AttemptInv, OrderlyInv, CoordinatorTypes, Untried, FailuresHeld, Superseded,
    DesiredAction, Ahead, Behind, Held, Blocked, Covers, Failure, Installed, Nothing,
    CoordinatorAssumption
<1> QED BY <1>1, <1>2, <1>3 DEF AttemptInv

LEMMA StagesBootstrapAttempts ==
  ASSUME EnvironmentsAdvance, AttemptInv, OrderlyInv', StagesBootstrap PROVE AttemptInv'
<1>1. FailuresKnown'
  BY DEF StagesBootstrap, remote, history, Attempting, AttemptInv,
     FailuresKnown, LatestDsh, LatestTarget
<1>2. FailuresHeld'
  BY DEF StagesBootstrap, remote, local, history, AttemptInv, FailuresHeld,
     Superseded
<1>3. Untried'
  BY DEF StagesBootstrap, Untried
<1> QED BY <1>1, <1>2, <1>3 DEF AttemptInv

LEMMA ActivatesAttempts ==
  ASSUME EnvironmentsAdvance, AttemptInv, OrderlyInv', Activates PROVE AttemptInv'
<1>1. FailuresKnown'
  BY DEF Activates, remote, history, Attempting, AttemptInv, FailuresKnown,
     LatestDsh, LatestTarget
<1>2. FailuresHeld'
  BY DEF Activates, remote, local, history, AttemptInv, FailuresHeld,
     Superseded
<1>3. Untried'
  BY DEF Activates, Untried
<1> QED BY <1>1, <1>2, <1>3 DEF AttemptInv

LEMMA PlansAgainAttempts ==
  ASSUME EnvironmentsAdvance, AttemptInv, OrderlyInv', PlansAgain PROVE AttemptInv'
<1>1. FailuresKnown'
  BY DEF PlansAgain, remote, Tasks, Attempting, Nothing, TaskEnds, AttemptInv,
     OrderlyInv, CoordinatorTypes, FailuresKnown, LatestDsh, LatestTarget
<1>2. FailuresHeld'
  BY DEF PlansAgain, remote, local, AttemptInv, FailuresHeld, Superseded
<1>3. Untried'
  BY CoordinatorAssumption DEF PlansAgain, remote, deployments, Tasks,
     Failure, Nothing, TaskEnds, DesiredAction, Behind, Held, Covers, Blocked,
     CoordinatorAssumption, AttemptInv, OrderlyInv, CoordinatorTypes,
     FailuresHeld, Untried, Superseded
<1> QED BY <1>1, <1>2, <1>3 DEF AttemptInv

LEMMA FindsCandidateAttempts ==
  ASSUME EnvironmentsAdvance, AttemptInv, OrderlyInv', FindsCandidate PROVE AttemptInv'
<1>1. FailuresKnown'
  BY DEF FindsCandidate, remote, Attempting, Nothing, TaskEnds, AttemptInv,
     FailuresKnown, LatestDsh, LatestTarget
<1>2. FailuresHeld'
  BY DEF FindsCandidate, remote, local, AttemptInv, FailuresHeld, Superseded
<1>3. Untried'
  BY DEF FindsCandidate, Nothing, TaskEnds, AttemptInv, Untried
<1> QED BY <1>1, <1>2, <1>3 DEF AttemptInv

LEMMA CandidatePreparedAttempts ==
  ASSUME EnvironmentsAdvance, AttemptInv, OrderlyInv', CandidatePrepared PROVE AttemptInv'
<1>1. FailuresKnown'
  BY DEF CandidatePrepared, history, Attempting, Begins, AttemptInv,
     FailuresKnown, LatestDsh, LatestTarget
<1>2. FailuresHeld'
  BY DEF CandidatePrepared, remote, local, history, Begins, AttemptInv,
     FailuresHeld, Superseded
<1>3. Untried'
  BY DEF CandidatePrepared, history, Begins, AttemptInv, Untried
<1> QED BY <1>1, <1>2, <1>3 DEF AttemptInv

LEMMA CandidateSwitchedAttempts ==
  ASSUME EnvironmentsAdvance, AttemptInv, OrderlyInv', CandidateSwitched PROVE AttemptInv'
<1>1. FailuresKnown'
  BY DEF CandidateSwitched, history, Attempting, Begins, AttemptInv,
     FailuresKnown, LatestDsh, LatestTarget
<1>2. FailuresHeld'
  BY DEF CandidateSwitched, remote, local, history, Begins, AttemptInv,
     FailuresHeld, Superseded
<1>3. Untried'
  BY DEF CandidateSwitched, history, Begins, AttemptInv, Untried
<1> QED BY <1>1, <1>2, <1>3 DEF AttemptInv

LEMMA CandidateFailsAttempts ==
  ASSUME EnvironmentsAdvance, AttemptInv, OrderlyInv', CandidateFails PROVE AttemptInv'
<1> USE CoordinatorAssumption
<1>0. /\ UNCHANGED <<published, upstream, deployed>> /\ job' = Nothing
      /\ job.step \in {"candidate", "snapshot", "probation"}
  BY DEF CandidateFails, remote, deployments
<1>1. /\ published \in Nat /\ upstream \in Nat /\ published \in Targets
      /\ job.to \in Installed /\ job.to.dsh <= upstream
      /\ job.to.sequence \in Targets /\ job.to.sequence <= published
      /\ job.to.environment = TargetEnvironment[job.to.sequence]
      /\ failed \in SUBSET Failure /\ blocked \in Failure \union {Nothing}
  BY <1>0 DEF AttemptInv, OrderlyInv, CoordinatorTypes, Found, Tasks, Between, Attempting,
    CoordinatorAssumption, Nothing
<1>2. \A f \in failed :
        /\ f.dsh \in Nat /\ f.dsh <= job.to.dsh /\ ~Covers(f, job.to.dsh, job.to.environment)
        /\ f.type = "combination" =>
             \E t \in Targets : t <= job.to.sequence /\ TargetEnvironment[t] = f.environment
  BY <1>0, <1>1 DEF AttemptInv, FailuresKnown, LatestDsh, LatestTarget, Attempting, Untried, Failure
<1>3. failed' \subseteq failed \union {Attempt("version"), Attempt("combination")}
  BY DEF CandidateFails
<1>4. FailuresKnown'
  BY <1>0, <1>1, <1>2, <1>3
    DEF FailuresKnown, LatestDsh, LatestTarget, Attempting, Nothing, Attempt, Installed,
      Failure, CoordinatorAssumption
<1>5. FailuresHeld'
  <2>1. CASE job.step = "probation" /\ job.block
    <3>1. ASSUME NEW f \in failed, f = blocked, f.dsh >= upstream
          PROVE  Superseded(f)'
      <4>1. f.dsh = job.to.dsh
        BY <1>1, <1>2, <3>1 DEF Installed
      <4>2. f.type = "combination" /\ f.environment # job.to.environment
        BY <1>1, <1>2, <3>1, <4>1 DEF Covers, Failure
      <4>3. ASSUME NEW t \in Targets, t >= published, TargetEnvironment[t] = f.environment
            PROVE  FALSE
        <5>1. PICK r \in Targets : r <= job.to.sequence /\ TargetEnvironment[r] = f.environment
          BY <1>2, <3>1, <4>2
        <5>2. job.to.sequence <= t
          <6>1. t \in Nat /\ t >= published
            BY <4>3 DEF CoordinatorAssumption
          <6>2. job.to.sequence \in Nat /\ job.to.sequence <= published /\ published \in Nat
            BY <1>1 DEF CoordinatorAssumption
          <6> QED BY <6>1, <6>2
        <5>3. TargetEnvironment[r] = TargetEnvironment[t] /\ job.to.sequence \in Targets
          BY <1>1, <4>3, <5>1
        <5>4. TargetEnvironment[r] = TargetEnvironment[job.to.sequence]
          BY <5>1, <5>2, <5>3 DEF EnvironmentsAdvance
        <5> QED BY <1>1, <4>2, <5>1, <5>4
      <4> QED BY <1>0, <4>2, <4>3 DEF Superseded
    <3>2. /\ holds' = holds /\ blocked' = Attempt("combination")
          /\ failed' = failed \union {Attempt("combination")}
      BY <2>1 DEF CandidateFails
    <3> QED BY <1>0, <1>1, <1>2, <3>1, <3>2 DEF AttemptInv, FailuresHeld, Superseded
  <2>2. CASE ~ (job.step = "probation" /\ job.block)
    <3>1. /\ holds \subseteq holds' /\ blocked' = blocked
          /\ \A f \in failed' : f \in failed \/ f \in holds'
      BY <2>2 DEF CandidateFails, AddHold
    <3> QED BY <1>0, <3>1 DEF AttemptInv, FailuresHeld, Superseded
  <2> QED BY <2>1, <2>2
<1>6. Untried'
  BY <1>0 DEF Untried, Nothing
<1> QED BY <1>4, <1>5, <1>6 DEF AttemptInv

LEMMA CandidateCommittedAttempts ==
  ASSUME EnvironmentsAdvance, AttemptInv, OrderlyInv', CandidateCommitted PROVE AttemptInv'
<1>1. FailuresKnown'
  BY DEF CandidateCommitted, history, Attempting, AttemptInv, FailuresKnown,
     LatestDsh, LatestTarget
<1>2. FailuresHeld'
  BY DEF CandidateCommitted, remote, local, history, AttemptInv, FailuresHeld,
     Superseded
<1>3. Untried'
  BY DEF CandidateCommitted, Untried
<1> QED BY <1>1, <1>2, <1>3 DEF AttemptInv

LEMMA ExperimentalEndsAttempts ==
  ASSUME EnvironmentsAdvance, AttemptInv, OrderlyInv', ExperimentalEnds PROVE AttemptInv'
<1>1. FailuresKnown'
  BY CoordinatorAssumption DEF ExperimentalEnds, remote, Tasks, Between,
     Attempting, Installed, Failure, Nothing, TaskEnds, CoordinatorAssumption,
     AttemptInv, OrderlyInv, CoordinatorTypes, Found, FailuresKnown,
     LatestDsh, LatestTarget
<1>2. FailuresHeld'
  BY DEF ExperimentalEnds, remote, local, AttemptInv, FailuresHeld, Superseded
<1>3. Untried'
  BY DEF ExperimentalEnds, Nothing, TaskEnds, Untried
<1> QED BY <1>1, <1>2, <1>3 DEF AttemptInv

LEMMA RollsBackAttempts ==
  ASSUME EnvironmentsAdvance, AttemptInv, OrderlyInv', RollsBack PROVE AttemptInv'
<1>1. FailuresKnown'
  BY DEF RollsBack, remote, Attempting, Nothing, TaskEnds, AttemptInv,
     FailuresKnown, LatestDsh, LatestTarget
<1>2. FailuresHeld'
  BY DEF RollsBack, remote, local, AttemptInv, FailuresHeld, Superseded
<1>3. Untried'
  BY DEF RollsBack, Nothing, TaskEnds, Untried
<1> QED BY <1>1, <1>2, <1>3 DEF AttemptInv

LEMMA RestartAttempts ==
  ASSUME EnvironmentsAdvance, AttemptInv, OrderlyInv', Restart PROVE AttemptInv'
<1>1. FailuresKnown'
  BY CoordinatorAssumption DEF Restart, remote, Tasks, Between, Attempting,
     Installed, Failure, Nothing, CoordinatorAssumption, AttemptInv,
     OrderlyInv, CoordinatorTypes, Found, FailuresKnown, LatestDsh,
     LatestTarget
<1>2. FailuresHeld'
  BY DEF Restart, remote, local, AttemptInv, FailuresHeld, Superseded
<1>3. Untried'
  BY DEF Restart, Nothing, Untried
<1> QED BY <1>1, <1>2, <1>3 DEF AttemptInv

LEMMA PublishAttempts ==
  ASSUME EnvironmentsAdvance, AttemptInv, OrderlyInv', Publish PROVE AttemptInv'
<1>1. FailuresKnown'
  BY CoordinatorAssumption DEF Publish, history, Failure,
     CoordinatorAssumption, AttemptInv, OrderlyInv, CoordinatorTypes,
     FailuresKnown, LatestDsh, LatestTarget
<1>2. FailuresHeld'
  BY CoordinatorAssumption DEF Publish, local, history, Failure,
     CoordinatorAssumption, AttemptInv, OrderlyInv, CoordinatorTypes,
     FailuresHeld, Superseded
<1>3. Untried'
  BY CoordinatorAssumption DEF Publish, deployments, history, Attempting,
     Covers, CoordinatorAssumption, AttemptInv, OrderlyInv, CoordinatorTypes,
     FailuresKnown, Untried, LatestDsh
<1> QED BY <1>1, <1>2, <1>3 DEF AttemptInv

LEMMA NextAttempts ==
  ASSUME EnvironmentsAdvance, AttemptInv, [CoordinatorNext]_coordinator PROVE AttemptInv'
<1> USE DEF remote, deployments, local, notices, history
<1>1. OrderlyInv'
  BY NextOrderly DEF AttemptInv
<1>2. CASE Checking \/ CheckFails \/ Writing \/ JournalCommitted \/ UNCHANGED coordinator
  BY <1>1, <1>2, KeptAttempts DEF Checking, CheckPlans, CheckSaves, CheckNotifies, CheckFails,
    Writing, ChannelWritten, UpstreamCleared, JournalCommitted, coordinator
<1>3. CASE Choosing
  <2>1. ASSUME NEW hold, RetryHold(hold) PROVE AttemptInv'
    BY <1>1, <2>1, RetryHoldAttempts
  <2>2. ASSUME NEW operation \in {"update", "rollback"}, StartTask(operation) PROVE AttemptInv'
    BY <1>1, <2>2, StartTaskAttempts
  <2>3. ASSUME NEW x, StartCheck(x) \/ SetChannel(x) \/ ConfigureAutomatic PROVE AttemptInv'
    BY <1>1, <2>3, KeptAttempts DEF StartCheck, SetChannel, ConfigureAutomatic
  <2> QED BY <1>3, <2>1, <2>2, <2>3 DEF Choosing
<1>4. CASE Working
  BY <1>1, <1>2, <1>4, TaskBeginsAttempts, TaskPlansAttempts,
     StagesBootstrapAttempts, ActivatesAttempts, PlansAgainAttempts,
     FindsCandidateAttempts, CandidatePreparedAttempts,
     CandidateSwitchedAttempts, CandidateCommittedAttempts,
     ExperimentalEndsAttempts, RollsBackAttempts, TaskFailsAttempts,
     CandidateFailsAttempts DEF Working
<1>5. CASE Restart
  BY <1>1, <1>5, RestartAttempts
<1>6. CASE Publish
  BY <1>1, <1>6, PublishAttempts
<1> QED BY <1>2, <1>3, <1>4, <1>5, <1>6 DEF CoordinatorNext

LEMMA TakenUp ==
  ASSUME AttemptInv, CoordinatorNext, job'.step = "candidate", job.step # "candidate"
  PROVE  ~ \E hold \in failed : Covers(hold, job'.to.dsh, job'.to.environment)
<1>1. job.step = "none" \/ job \in [step : Between, operation : {"update", "rollback"}, block : BOOLEAN]
        \/ job \in [step : Attempting, operation : {"update", "rollback"}, block : BOOLEAN, to : Installed]
  BY DEF AttemptInv, OrderlyInv, CoordinatorTypes, Tasks, Nothing
<1>2. CASE TaskBegins
  BY <1>1, <1>2 DEF TaskBegins
<1>3. CASE TaskPlans
  <2>1. PlansTo
    BY <1>3, TaskPlansTo DEF AttemptInv
  <2> QED BY <2>1 DEF PlansTo, Nothing
<1>4. CASE StagesBootstrap \/ Activates \/ PlansAgain
  BY <1>1, <1>4 DEF StagesBootstrap, Activates, PlansAgain, TaskEnds, Nothing
<1>5. CASE CandidatePrepared \/ CandidateSwitched \/ CandidateCommitted
  BY <1>1, <1>5 DEF CandidatePrepared, CandidateSwitched, CandidateCommitted, Begins
<1>6. CASE JournalCommitted \/ ExperimentalEnds \/ RollsBack \/ TaskFails \/ CandidateFails
  BY <1>6 DEF JournalCommitted, ExperimentalEnds, RollsBack, TaskFails, CandidateFails, TaskEnds,
    Nothing
<1>7. CASE Checking \/ CheckFails \/ Choosing \/ Writing \/ Restart \/ Publish
  BY <1>7 DEF Checking, CheckPlans, CheckSaves, CheckNotifies, CheckFails, Choosing, StartCheck,
    SetChannel, RetryHold, ConfigureAutomatic, StartTask, Writing, ChannelWritten, UpstreamCleared,
    Restart, Publish, Nothing
<1>8. CASE FindsCandidate
  <2>1. job.step = "upstream" /\ job'.to.dsh = upstream /\ job'.to.environment = deployed.environment
    BY <1>8 DEF FindsCandidate, TaskEnds, Nothing
  <2> QED BY <2>1 DEF AttemptInv, Untried
<1> QED BY <1>2, <1>3, <1>4, <1>5, <1>6, <1>7, <1>8 DEF CoordinatorNext, Working

(* A version or combination that failed is not taken up again before the   *)
(* user retries it, when the signed targets do not return to an            *)
(* Environment they replaced: channel.json remembers one blocked           *)
(* combination, which the next one replaces (channel-state.mjs).           *)
THEOREM FailuresNotRepeated ==
  ASSUME EnvironmentsAdvance PROVE CoordinatorSpec => FailedNotRepeated
<1>1. AttemptInv /\ [CoordinatorNext]_coordinator => AttemptInv'
  BY NextAttempts
<1>2. AttemptInv /\ [CoordinatorNext]_coordinator
        => [job'.step = "candidate" /\ job.step # "candidate"
              => ~ \E hold \in failed : Covers(hold, job'.to.dsh, job'.to.environment)]_coordinator
  BY TakenUp
<1> QED BY <1>1, <1>2, InitAttempts, PTL DEF CoordinatorSpec, FailedNotRepeated

-----------------------------------------------------------------------------
(* A DSH page and what takes it from its user.                             *)

GatewayRecord == [ever : BOOLEAN, failed : Nat, long : BOOLEAN]
(* Since the page was loaded the Gateway has seen DSH ready, and has not   *)
(* missed more of its answers than were slow.                              *)
ServedSince == ~down => dshUp = "up" /\ gateway.ever = TRUE /\ gateway.failed =< slowProbes
LeavesForCause == view = "page" /\ told = "leaves" => down
DshPageInv ==
  /\ gateway \in GatewayRecord /\ slowProbes \in 0..MaxSlowProbes
  /\ dshUp \in {"up", "away", "dark"} /\ ServedSince /\ LeavesForCause

(* Fewer probes of a DSH that is up time out than the Gateway takes for an *)
(* outage (availability.mjs).                                              *)
ProbesAnswered == MaxSlowProbes \in Nat /\ MaxSlowProbes < Failures

LEMMA ObservedKnown ==
  ASSUME DshPageInv, MaxSlowProbes \in Nat, NEW ok \in BOOLEAN, Probe(ok)
  PROVE  /\ gateway' = Observed(ok) /\ gateway' \in GatewayRecord /\ slowProbes' \in 0..MaxSlowProbes
         /\ ~down => dshUp = "up" /\ gateway'.ever = TRUE /\ gateway'.failed =< slowProbes'
         /\ ok = TRUE => dshUp = "up" /\ gateway'.ever = TRUE /\ gateway'.failed = 0
<1>1. CASE ok = TRUE
  BY <1>1 DEF DshPageInv, ServedSince, Probe, Observed, GatewayRecord
<1>2. CASE ok = FALSE
  <2>1. gateway' = [gateway EXCEPT !.failed = IF @ < Failures THEN @ + 1 ELSE @]
    BY <1>2 DEF Probe, Observed
  <2>2. gateway' \in GatewayRecord /\ gateway'.ever = gateway.ever /\ gateway'.failed =< gateway.failed + 1
    BY <2>1 DEF DshPageInv, GatewayRecord, Failures
  <2>3. /\ slowProbes' \in 0..MaxSlowProbes
        /\ dshUp = "up" => slowProbes' = slowProbes + 1
    BY <1>2 DEF DshPageInv, Probe
  <2> QED BY <1>2, <2>1, <2>2, <2>3 DEF DshPageInv, ServedSince, Probe, GatewayRecord
<1> QED BY <1>1, <1>2

LEMMA DshPageBegins == ASSUME MaxSlowProbes \in Nat, DshPageInit PROVE DshPageInv
<1>1. gateway = [ever |-> TRUE, failed |-> 0, long |-> FALSE]
  BY DEF DshPageInit, Fresh
<1>2. gateway \in GatewayRecord /\ gateway.ever = TRUE /\ gateway.failed = 0
  BY <1>1 DEF GatewayRecord
<1>3. slowProbes = 0 /\ dshUp = "up" /\ told = "asks"
  BY DEF DshPageInit
<1> QED BY <1>2, <1>3 DEF DshPageInv, ServedSince, LeavesForCause

LEMMA VerifiedServed ==
  ASSUME DshPageInv, MaxSlowProbes \in Nat, VerifyReadiness PROVE DshPageInv'
<1>1. PICK ok \in BOOLEAN : Probe(ok) /\ (\/ view' = "wait" /\ told' = "none"
                                          \/ UNCHANGED <<view, told>>)
  BY DEF VerifyReadiness, Navigate, Remain
<1>2. UNCHANGED <<dshUp, down>>
  BY DEF VerifyReadiness, platformVars
<1> QED BY <1>1, <1>2, ObservedKnown DEF DshPageInv, ServedSince, LeavesForCause

LEMMA PolledServed == ASSUME DshPageInv, MaxSlowProbes \in Nat, WaitPoll PROVE DshPageInv'
<1>1. PICK ok \in BOOLEAN :
        /\ Probe(ok)
        /\ IF Classified(ok, Observed(ok)) = "ready"
           THEN view' = "page" /\ told' = "asks" /\ down' = FALSE
           ELSE UNCHANGED <<view, told, down>>
  BY DEF WaitPoll
<1>2. UNCHANGED dshUp /\ view = "wait"
  BY DEF WaitPoll, platformVars
<1>3. CASE Classified(ok, Observed(ok)) = "ready"
  <2>1. ok = TRUE
    BY <1>3 DEF Classified, DshPageInv
  <2>2. /\ gateway' \in GatewayRecord /\ slowProbes' \in 0..MaxSlowProbes
        /\ dshUp = "up" /\ gateway'.ever = TRUE /\ gateway'.failed = 0
    BY <1>1, <2>1, ObservedKnown
  <2>3. told' = "asks"
    BY <1>1, <1>3
  <2> QED BY <1>2, <2>2, <2>3 DEF DshPageInv, ServedSince, LeavesForCause
<1>4. CASE Classified(ok, Observed(ok)) # "ready"
  BY <1>1, <1>2, <1>4, ObservedKnown DEF DshPageInv, ServedSince, LeavesForCause
<1> QED BY <1>3, <1>4

LEMMA DshPageStep ==
  ASSUME MaxSlowProbes \in Nat, DshPageInv, [DshPageNext]_dshPageVars PROVE DshPageInv'
<1> USE DEF DshPageInv, ServedSince, LeavesForCause, platformVars, lossVars
<1>1. CASE DshMoves
  BY <1>1 DEF DshMoves, DshLeaves, DshDies, DshExitSeen, DshReturns, Event
<1>2. CASE LinkEnds \/ LinkBlips \/ LinkForms \/ GuardTimer
  BY <1>2 DEF LinkEnds, LinkBlips, LinkForms, GuardTimer
<1>3. CASE GatewayEnds
  BY <1>3 DEF GatewayEnds, Fresh, GatewayRecord
<1>4. CASE WindowPasses
  BY <1>4 DEF WindowPasses, GatewayRecord
<1>5. CASE InspectPlatformState
  BY <1>5 DEF InspectPlatformState
<1>6. CASE InspectAnswered
  BY <1>6 DEF InspectAnswered, Navigate
<1>7. CASE UNCHANGED dshPageVars
  BY <1>7 DEF dshPageVars
<1> QED BY <1>1, <1>2, <1>3, <1>4, <1>5, <1>6, <1>7, VerifiedServed, PolledServed DEF DshPageNext, PageMoves

(* Only what the Gateway knows sends a page away: as long as DSH and the   *)
(* Gateway have stayed up, that DSH is ready, or nothing.                  *)
LEMMA LeftForCause ==
  ASSUME ProbesAnswered, DshPageInv, DshPageNext, view = "page", view' = "wait" PROVE down
<1>1. CASE InspectAnswered
  BY <1>1 DEF InspectAnswered, DshPageInv, LeavesForCause
<1>2. CASE VerifyReadiness
  <2> SUFFICES ASSUME ~down PROVE FALSE
    OBVIOUS
  <2>1. PICK ok \in BOOLEAN :
          Probe(ok) /\ Classified(ok, Observed(ok)) \notin {"ready", "unknown"}
    BY <1>2 DEF VerifyReadiness, Remain
  <2>2. MaxSlowProbes \in Nat /\ MaxSlowProbes < 3
    BY DEF ProbesAnswered, Failures
  <2>3. /\ gateway' = Observed(ok) /\ gateway' \in GatewayRecord /\ slowProbes' \in 0..MaxSlowProbes
        /\ dshUp = "up" /\ gateway'.ever = TRUE /\ gateway'.failed =< slowProbes'
    BY <2>1, <2>2, ObservedKnown
  <2>4. ~(Observed(ok).failed >= 3)
    BY <2>2, <2>3 DEF GatewayRecord
  <2>5. Classified(ok, Observed(ok)) \in {"ready", "unknown"}
    BY <2>3, <2>4 DEF Classified, Failures
  <2> QED BY <2>1, <2>5
<1>3. ~WaitPoll
  BY DEF WaitPoll
<1>4. CASE DshMoves
  BY <1>4 DEF DshMoves, DshLeaves, DshDies, DshExitSeen, DshReturns
<1>5. CASE \/ LinkEnds \/ LinkBlips \/ LinkForms \/ GuardTimer \/ GatewayEnds \/ WindowPasses
           \/ InspectPlatformState
  BY <1>5 DEF LinkEnds, LinkBlips, LinkForms, GuardTimer, GatewayEnds, WindowPasses, InspectPlatformState
<1> QED BY <1>1, <1>2, <1>3, <1>4, <1>5 DEF DshPageNext, PageMoves

(* However often a page loses its connection while DSH and the Gateway stay *)
(* up: it is not exchanged for the waiting page, unless as many probes in   *)
(* a row go unanswered as make an outage (LifecycleGuard in client.js,      *)
(* availability.mjs).                                                       *)
THEOREM BlipsTolerated == ASSUME ProbesAnswered PROVE DshPageSpec => BlipTolerated
<1>1. DshPageInv /\ [DshPageNext]_dshPageVars => DshPageInv'
  BY DshPageStep DEF ProbesAnswered
<1>2. DshPageInit => DshPageInv
  BY DshPageBegins DEF ProbesAnswered
<1>3. DshPageInv /\ [DshPageNext]_dshPageVars => [view = "page" /\ view' = "wait" => down]_dshPageVars
  BY LeftForCause
<1> QED BY <1>1, <1>2, <1>3, PTL DEF DshPageSpec, BlipTolerated
=============================================================================
