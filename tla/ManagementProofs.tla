--------------------------- MODULE ManagementProofs ---------------------------
(***************************************************************************)
(* Proofs about the operations that a user starts, ManagementTasks: they   *)
(* are kept apart but for the windows between a look and an act; about the *)
(* launch of a recoverable component, ManagerLaunch: it has one process,   *)
(* and somebody who notices when that is gone; about the files tab,        *)
(* ConsoleFiles: it writes over nobody's file unasked; and about the file  *)
(* manager's queue, FileTasks: it loses nobody's data.                     *)
(***************************************************************************)
EXTENDS ManagementTasks, ManagerLaunch, ConsoleFiles, FileTasks, UpdateNotices, FiniteSetTheorems, TLAPS

Busy(j) == job[j] \in {"queued", "running"}

(* One operation at a time holds a slot, one managed file change the lease, *)
(* and what Stage-0 did not see began after it looked.                      *)
OnlyOne ==
  /\ \A k, l \in taskSlots : k = l
  /\ UpdatesApart
  /\ \A j \in ManagedJob : Busy(j) => lease
  /\ \A i, j \in ManagedJob : Busy(i) /\ Busy(j) => i = j
  /\ \A j \in ManagedJob : \A k \in taskSlots :
       job[j] # "none" /\ k \in Shown => k \in overtaken[j]

Kept == ManagementType /\ OnlyOne

LEMMA KeptInitial == ManagementInit => Kept
  BY DEF ManagementInit, Kept, ManagementType, OnlyOne, Busy, UpdatesApart

LEMMA ToOne ==
  ASSUME NEW S, \A k, l \in S : k = l
  PROVE  Cardinality(S) <= 1 /\ Cardinality(S) \in Nat /\ (S = {} => Cardinality(S) = 0)
<1>1. CASE S = {}
  BY <1>1, FS_EmptySet
<1>2. ASSUME NEW k \in S PROVE Cardinality(S) = 1
  <2>1. S = {k}
    OBVIOUS
  <2> QED
    BY <2>1, FS_Singleton
<1> QED
  BY <1>1, <1>2

LEMMA KeptApart == Kept => OperationsApart
<1> SUFFICES ASSUME Kept PROVE OperationsApart
  OBVIOUS
<1>1. SlotsExclusive /\ UpdatesApart
  BY ToOne DEF Kept, OnlyOne, ManagementType, SlotsExclusive
<1>2. LeaseCovers
  <2> DEFINE busy == {j \in ManagedJob : job[j] \in {"queued", "running"}}
  <2>1. \A i, j \in busy : i = j
    BY DEF Kept, OnlyOne, Busy
  <2>2. Cardinality(busy) <= 1
    BY <2>1, ToOne
  <2> QED
    BY <2>2 DEF Kept, OnlyOne, Busy, LeaseCovers
<1>3. FilesNoticed
  BY DEF Kept, OnlyOne, FilesNoticed
<1> QED
  BY <1>1, <1>2, <1>3 DEF OperationsApart

-----------------------------------------------------------------------------
(* The steps. *)

LEMMA SlotTaken ==
  ASSUME Kept, NEW kind \in Kind, taskSlots = {}, Begins(kind), updating = "none",
         job' = job, lease' = lease, coordination' = coordination,
         arriving' \subseteq arriving, ~lease
  PROVE  Kept'
<1>1. taskSlots' = {kind}
  BY DEF Begins
<1>2. overtaken' \in [ManagedJob -> SUBSET Kind]
  BY DEF Begins, Kept, ManagementType
<1>3. \A j \in ManagedJob : job[j] = "probed" => kind \in overtaken'[j]
  BY DEF Begins, Kept, ManagementType
<1>4. ManagementType'
  BY <1>1, <1>2 DEF Kept, ManagementType, coordination
<1>5. \A j \in ManagedJob : job[j] \in {"none", "probed"}
  BY DEF Kept, ManagementType, OnlyOne, Busy
<1>6. updating' = "none" /\ lease' = lease /\ job' = job
  BY DEF coordination
<1>7. \A j \in ManagedJob : \A k \in taskSlots' :
        job'[j] # "none" /\ k \in Shown => k \in overtaken'[j]
  <2> SUFFICES ASSUME NEW j \in ManagedJob, job[j] # "none", kind \in Shown
               PROVE  kind \in overtaken'[j]
    BY <1>1, <1>6
  <2>1. CASE job[j] = "probed"
    BY <2>1, <1>3
  <2>2. CASE job[j] # "probed"
    BY <2>2, <1>5 DEF Kept, ManagementType
  <2> QED
    BY <2>1, <2>2
<1> QED
  BY <1>1, <1>4, <1>6, <1>7 DEF Kept, OnlyOne, Busy, UpdatesApart

LEMMA RequestsKept ==
  ASSUME Kept,
         \/ StartLifecycle \/ StartRuntimeReset \/ StartPluginAction \/ StartSystemSkillAction
         \/ StartUserSkillAction \/ StartUserPluginAction \/ StartUpdate \/ AskRollback
  PROVE  Kept'
<1>1. ASSUME NEW kind \in Immediate, StartOperation(kind) PROVE Kept'
  BY <1>1, SlotTaken DEF StartOperation, Kind, Asked, RuntimeIdle
<1>2. ASSUME NEW kind \in Validated, Validate(kind) PROVE Kept'
  BY <1>2 DEF Validate, Validated, Kept, ManagementType, OnlyOne, Busy, UpdatesApart,
              broker, coordination
<1>3. ASSUME NEW kind \in Validated, StartValidated(kind) PROVE Kept'
  <2>1. CASE RuntimeIdle /\ updating = "none"
    BY <1>3, <2>1, SlotTaken DEF StartValidated, Kind, RuntimeIdle
  <2>2. CASE ~(RuntimeIdle /\ updating = "none")
    BY <1>3, <2>2 DEF StartValidated, Kept, ManagementType, OnlyOne, Busy, UpdatesApart, coordination
  <2> QED
    BY <2>1, <2>2
<1>4. CASE StartUpdate
  BY <1>4 DEF StartUpdate, Asked, RuntimeIdle, Kept, ManagementType, OnlyOne, Busy, UpdatesApart, broker
<1>5. CASE AskRollback
  BY <1>5 DEF AskRollback, Kept, ManagementType, OnlyOne, Busy, UpdatesApart, broker, coordination
<1> QED
  BY <1>1, <1>2, <1>3, <1>4, <1>5
  DEF StartLifecycle, StartRuntimeReset, StartPluginAction, StartSystemSkillAction,
      StartUserSkillAction, StartUserPluginAction, Immediate, Validated

LEMMA GoesOnKept ==
  ASSUME Kept, OperationsGoOn
  PROVE  Kept'
<1> USE DEF Kept, ManagementType, OnlyOne, Busy, UpdatesApart, broker, coordination
<1>1. ASSUME NEW kind \in taskSlots, OperationEnds(kind) PROVE Kept'
  BY <1>1 DEF OperationEnds
<1>2. CASE StartRollback
  BY <1>2 DEF StartRollback
<1>3. CASE UpdateWorks
  BY <1>3 DEF UpdateWorks
<1>4. CASE UpdateEnds
  BY <1>4 DEF UpdateEnds
<1>5. CASE ResumeUpdate
  BY <1>5 DEF ResumeUpdate
<1>6. ASSUME NEW j \in ManagedJob, RefuseProbed(j) PROVE Kept'
  BY <1>6 DEF RefuseProbed
<1>7. ASSUME NEW j \in ManagedJob, EndJob(j) PROVE Kept'
  BY <1>7 DEF EndJob
<1> QED
  BY <1>1, <1>2, <1>3, <1>4, <1>5, <1>6, <1>7 DEF OperationsGoOn

LEMMA JobsKept ==
  ASSUME Kept, NEW j \in ManagedJob, Probe(j) \/ AcquireLease(j) \/ RunJob(j)
  PROVE  Kept'
<1> USE DEF Kept, ManagementType, OnlyOne, Busy, UpdatesApart, coordination
<1>1. CASE Probe(j)
  BY <1>1 DEF Probe, PlatformBusy
<1>2. CASE AcquireLease(j)
  BY <1>2 DEF AcquireLease
<1>3. CASE RunJob(j)
  BY <1>3 DEF RunJob
<1> QED
  BY <1>1, <1>2, <1>3

LEMMA RestartKept ==
  ASSUME Kept, ManagementRestarts
  PROVE  Kept'
<1>1. UpdateShown \in BOOLEAN
  BY DEF UpdateShown, Kept, ManagementType
<1> QED
  BY <1>1 DEF Kept, ManagementType, OnlyOne, Busy, UpdatesApart, ManagementRestarts, broker, Kind, Validated

LEMMA KeptAlways == ManagementSpec => []Kept
<1>1. Kept /\ [ManagementNext]_managementVars => Kept'
  <2> SUFFICES ASSUME Kept, [ManagementNext]_managementVars PROVE Kept'
    OBVIOUS
  <2>1. CASE UNCHANGED managementVars
    BY <2>1 DEF managementVars, Kept, ManagementType, OnlyOne, Busy, UpdatesApart
  <2> QED
    BY <2>1, RequestsKept, GoesOnKept, JobsKept, RestartKept DEF ManagementNext
<1> QED
  BY <1>1, KeptInitial, PTL DEF ManagementSpec

(* Whatever is asked for, finished, awaited and interrupted, two operations *)
(* of the service exclude each other, an update that a user starts excludes *)
(* them, managed file changes exclude each other, and an operation Stage-0  *)
(* can see meets one only if it began between Stage-0's look and its lease. *)
THEOREM OperationsKeptApart == ManagementSpec => []OperationsApart
BY KeptAlways, KeptApart, PTL

(* Task slots, requests under way, the Updater's state and the lease are     *)
(* well typed for any number of operations and restarts (server.mjs,         *)
(* maintenance-server.mjs).                                                  *)
THEOREM OperationsTyped == ManagementSpec => []ManagementType
<1>1. Kept => ManagementType
  BY DEF Kept
<1> QED
  BY <1>1, KeptAlways, PTL

-----------------------------------------------------------------------------
(* The launch of a manager. *)

(* A supervisor is not killed before its component is ready. *)
Careful == EarlyKills = FALSE

Processes ==
  /\ manager \in {"none", "spawned", "ready", "dying"}
  /\ managers = IF manager = "none" THEN 0 ELSE 1

(* A component that is started or ended is not shown as ready, and one     *)
(* whose health is asked for has a supervisor whose exit would be seen.    *)
RunnerKnows ==
  /\ at = "health" => listed = "starting" /\ supervisor \in {"posting", "watching", "exited"}
  /\ at \in {"launch", "undo"} => listed = "no"
  /\ at = "terminate" => listed = "no" /\ stopping = TRUE
  /\ stopping \in BOOLEAN /\ recovery \in BOOLEAN /\ isolated \in BOOLEAN

Watched == listed = "ready" => SupervisorAlive \/ recovery = TRUE \/ stopping = TRUE
LaunchKnown == Processes /\ RunnerKnows /\ Watched

LEMMA LaunchInitial == ManagerInit => LaunchKnown
  BY DEF ManagerInit, LaunchKnown, Processes, RunnerKnows, Watched

LEMMA RunnerActsKept ==
  ASSUME LaunchKnown, RunnerActs \/ Unhealthy \/ AskStop
  PROVE  LaunchKnown'
<1> USE DEF LaunchKnown, Processes, RunnerKnows, Watched, SupervisorAlive, launchVars
<1>1. CASE LaunchSupervisor
  BY <1>1 DEF LaunchSupervisor
<1>2. CASE Healthy
  BY <1>2 DEF Healthy, ComponentReady
<1>3. CASE Terminate
  BY <1>3 DEF Terminate, Terminated, runnerVars
<1>4. CASE StartFailed
  BY <1>4 DEF StartFailed, Last
<1>5. CASE Recover
  BY <1>5 DEF Recover
<1>6. CASE StopComponents
  BY <1>6 DEF StopComponents
<1>7. CASE Stopped
  BY <1>7 DEF Stopped
<1>8. CASE Unhealthy
  BY <1>8 DEF Unhealthy
<1>9. CASE AskStop
  BY <1>9 DEF AskStop
<1> QED
  BY <1>1, <1>2, <1>3, <1>4, <1>5, <1>6, <1>7, <1>8, <1>9 DEF RunnerActs

(* The exit of a supervisor is noticed. *)
LEMMA ExitNoticed ==
  ASSUME RunnerKnows, NEW how \in {"exited", "killed"}, SupervisorExits(how),
         how = "killed" => listed = "ready"
  PROVE  RunnerKnows' /\ Watched'
  BY DEF RunnerKnows, Watched, SupervisorExits, Noticed

LEMMA ManagerExitKept ==
  ASSUME LaunchKnown, ManagerExits
  PROVE  LaunchKnown'
<1>1. Processes'
  BY DEF ManagerExits, Running, LaunchKnown, Processes
<1>2. CASE SupervisorExits("exited")
  BY <1>1, <1>2, ExitNoticed DEF LaunchKnown
<1>3. CASE UNCHANGED <<runnerVars, supervisor>>
  BY <1>1, <1>3 DEF runnerVars, LaunchKnown, RunnerKnows, Watched, SupervisorAlive
<1> QED
  BY <1>2, <1>3 DEF ManagerExits

LEMMA BrokerActsKept ==
  ASSUME Careful, LaunchKnown, BrokerActs \/ ReadinessTimesOut \/ ProcessCrash
  PROVE  LaunchKnown'
<1> USE DEF LaunchKnown, Processes, Running, launchVars
<1>1. CASE BrokerStart
  BY <1>1 DEF BrokerStart, RunnerKnows, Watched, SupervisorAlive, runnerVars
<1>2. CASE BrokerStartAgain
  BY <1>2 DEF BrokerStartAgain, RunnerKnows, Watched, SupervisorAlive, runnerVars
<1>3. CASE ManagerReady
  BY <1>3 DEF ManagerReady, RunnerKnows, Watched, SupervisorAlive, runnerVars
<1>4. CASE BrokerStop \/ ReadinessTimesOut
  BY <1>4 DEF BrokerStop, ReadinessTimesOut, RunnerKnows, Watched, SupervisorAlive, runnerVars
<1>5. CASE Poll \/ StopAnswered
  BY <1>5, ExitNoticed DEF Poll, StopAnswered
<1>6. CASE Die
  BY <1>6, ManagerExitKept DEF Die
<1>7. CASE ProcessCrash
  BY <1>7, ManagerExitKept, ExitNoticed DEF ProcessCrash, Careful
<1> QED
  BY <1>1, <1>2, <1>3, <1>4, <1>5, <1>6, <1>7 DEF BrokerActs

(* However the supervisor and the manager exit, time out and are started   *)
(* again, there is at most one process, and a component that is shown as   *)
(* ready has a supervisor or a recovery on its way.                        *)
THEOREM ManagersSupervised == ASSUME Careful PROVE ManagerSpec => []ManagerSupervised
<1>1. LaunchKnown /\ [ManagerNext]_managerVars => LaunchKnown'
  <2> SUFFICES ASSUME LaunchKnown, [ManagerNext]_managerVars PROVE LaunchKnown'
    OBVIOUS
  <2>1. CASE UNCHANGED managerVars
    BY <2>1 DEF managerVars, runnerVars, launchVars, LaunchKnown, Processes, RunnerKnows, Watched,
                SupervisorAlive
  <2> QED
    BY <2>1, RunnerActsKept, BrokerActsKept DEF ManagerNext
<1>2. LaunchKnown => ManagerSupervised
  <2> SUFFICES ASSUME LaunchKnown PROVE ManagerSupervised
    OBVIOUS
  <2>1. OneManager
    BY DEF LaunchKnown, Processes, OneManager
  <2>2. Supervised
    BY DEF LaunchKnown, Watched, Supervised
  <2> QED
    BY <2>1, <2>2 DEF ManagerSupervised
<1> QED
  BY <1>1, <1>2, LaunchInitial, PTL DEF ManagerSpec
-----------------------------------------------------------------------------
Answers == {"none", "overwrite", "rename", "skip"}
Loop ==
  [at : {"send", "running", "exists", "asking", "closing"}, kind : {"paste", "upload"},
   item : Items, into : FileDirs, how : {"overwrite", "rename", "reject"}, all : Answers]
TransferTypes ==
  /\ browse \in [path : FileDirs, asked : FileDirs \union {NoFile}]
  /\ transfer \in [Transfers -> Loop \union {NoTransfer}]
  /\ conflict \in [of : Transfers, target : FileDirs \X Items, moved : {"no", "yes"}] \union {NoConflict}
  /\ standing \in [FileDirs \X Items -> {"none", "theirs", "ours"}]

(* A loop overwrites what the user chose to overwrite: this target, or all *)
(* that follow; and the dialog names what its loop would then write to,    *)
(* while the page shows the directory it showed then.                      *)
Chosen(r) ==
  /\ r.at = "send" => r.how = Opening(r.all)
  /\ r.at = "running" /\ r.how = "overwrite"
       => <<r.into, r.item>> \in agreed \union astray \/ r.all = "overwrite"
Aims(t) == <<IF transfer[t].kind = "paste" THEN browse.path ELSE transfer[t].into, transfer[t].item>>
Names(t) ==
  /\ transfer[t].at = "asking"
  /\ conflict.moved = "no" \/ transfer[t].kind = "upload" => conflict.target = Aims(t)
TransfersAsked ==
  /\ \A t \in Transfers : transfer[t] # NoTransfer => Chosen(transfer[t])
  /\ conflict.of # NoFile => conflict.of \in Transfers /\ Names(conflict.of)

Editing == [path : Texts, rev : Nat, of : Texts, dirty : BOOLEAN, typed : BOOLEAN]
Saving == [at : {"sent", "saved", "changed"}, path : Texts, rev : Nat, of : Texts]
EditorTypes ==
  /\ editor \in Editing \union {NoEditor}
  /\ saveOut \in [Saves -> Saving \union {NoSaveOut}]
  /\ disk \in [Texts -> [rev : Nat, of : Texts]]
  /\ opening \subseteq Texts
(* What is saved under a file's path is that file's text. *)
SavesOwn ==
  \A s \in Saves : saveOut[s] # NoSaveOut /\ saveOut[s].path \notin mixed => saveOut[s].of = saveOut[s].path
TabFilesKnown == TransferTypes /\ TransfersAsked /\ EditorTypes /\ SavesOwn /\ EditsOwnFile

LEMMA TabFilesInitial == ConsoleFilesInit => TabFilesKnown
<1> SUFFICES ASSUME ConsoleFilesInit PROVE TabFilesKnown
  OBVIOUS
<1>1. TransferTypes
  BY DEF ConsoleFilesInit, TransferTypes
<1>2. TransfersAsked
  BY DEF ConsoleFilesInit, TransfersAsked, NoConflict
<1>3. EditorTypes
  BY DEF ConsoleFilesInit, EditorTypes
<1>4. SavesOwn /\ EditsOwnFile
  BY DEF ConsoleFilesInit, SavesOwn, EditsOwnFile
<1> QED
  BY <1>1, <1>2, <1>3, <1>4 DEF TabFilesKnown

(* The loops do not change; the dialog at most notes that the page shows   *)
(* another directory.                                                      *)
LEMMA LoopsStand ==
  ASSUME TransferTypes, TransfersAsked, UNCHANGED <<transfer, agreed, astray>>,
         browse' \in [path : FileDirs, asked : FileDirs \union {NoFile}],
         standing' \in [FileDirs \X Items -> {"none", "theirs", "ours"}],
         \/ conflict' = conflict /\ (browse'.path = browse.path \/ conflict.of = NoFile)
         \/ conflict.of # NoFile /\ conflict' = [conflict EXCEPT !.moved = "yes"]
  PROVE  TransferTypes' /\ TransfersAsked'
<1>1. CASE conflict' = conflict /\ (browse'.path = browse.path \/ conflict.of = NoFile)
  BY <1>1 DEF TransferTypes, TransfersAsked, Chosen, Names, Aims
<1>2. CASE conflict.of # NoFile /\ conflict' = [conflict EXCEPT !.moved = "yes"]
  <2>1. conflict \in [of : Transfers, target : FileDirs \X Items, moved : {"no", "yes"}]
    BY <1>2 DEF TransferTypes, NoConflict
  <2>2. /\ conflict' \in [of : Transfers, target : FileDirs \X Items, moved : {"no", "yes"}]
        /\ conflict'.of = conflict.of /\ conflict'.target = conflict.target /\ conflict'.moved = "yes"
    BY <1>2, <2>1
  <2>3. transfer'[conflict.of] = transfer[conflict.of] /\ transfer[conflict.of] \in Loop \union {NoTransfer}
    BY <2>1 DEF TransferTypes
  <2>4. Names(conflict.of)'
    BY <1>2, <2>2, <2>3 DEF TransfersAsked, Names, Aims
  <2> QED
    BY <1>2, <2>1, <2>2, <2>4 DEF TransferTypes, TransfersAsked, Chosen, Names
<1> QED
  BY <1>1, <1>2

(* One loop goes on; the dialog stays another's, or it is closed. *)
LEMMA LoopGoesOn ==
  ASSUME TransferTypes, TransfersAsked, NEW t \in Transfers, NEW r \in Loop \union {NoTransfer},
         transfer' = [transfer EXCEPT ![t] = r],
         r # NoTransfer /\ r.at \in {"send", "running"} =>
            /\ r.at = "send" => r.how = Opening(r.all)
            /\ r.at = "running" /\ r.how = "overwrite"
                 => <<r.into, r.item>> \in agreed' \union astray' \/ r.all = "overwrite",
         agreed \subseteq agreed', astray \subseteq astray', browse'.path = browse.path,
         browse' \in [path : FileDirs, asked : FileDirs \union {NoFile}],
         standing' \in [FileDirs \X Items -> {"none", "theirs", "ours"}],
         \/ conflict' = conflict /\ transfer[t].at # "asking"
         \/ conflict' = NoConflict
  PROVE  TransferTypes' /\ TransfersAsked'
<1>1. transfer' \in [Transfers -> Loop \union {NoTransfer}]
  BY DEF TransferTypes
<1>2. transfer'[t] = r /\ \A u \in Transfers : u # t => transfer'[u] = transfer[u]
  BY DEF TransferTypes
<1>3. TransferTypes'
  BY <1>1 DEF TransferTypes
<1>4. ASSUME NEW u \in Transfers, transfer'[u] # NoTransfer PROVE Chosen(transfer[u])'
  <2>1. CASE u = t
    BY <1>2, <1>4, <2>1 DEF Chosen, Loop
  <2>2. CASE u # t
    BY <1>2, <1>4, <2>2 DEF Chosen, TransfersAsked
  <2> QED
    BY <2>1, <2>2
<1>5. conflict'.of # NoFile => conflict'.of \in Transfers /\ Names(conflict.of)'
  <2> SUFFICES ASSUME conflict'.of # NoFile PROVE conflict'.of \in Transfers /\ Names(conflict.of)'
    OBVIOUS
  <2>1. conflict' = conflict /\ transfer[t].at # "asking" /\ conflict.of # NoFile
    BY DEF NoConflict
  <2>2. conflict.of \in Transfers /\ Names(conflict.of)
    BY <2>1 DEF TransfersAsked
  <2>3. conflict.of # t
    BY <2>1, <2>2 DEF Names
  <2> QED
    BY <1>2, <2>1, <2>2, <2>3 DEF Names, Aims
<1> QED
  BY <1>3, <1>4, <1>5 DEF TransfersAsked

EditorKept == EditorTypes' /\ SavesOwn' /\ EditsOwnFile'

LEMMA EditorStands ==
  ASSUME EditorTypes, SavesOwn, EditsOwnFile, UNCHANGED editorVars PROVE EditorKept
  BY DEF editorVars, EditorTypes, SavesOwn, EditsOwnFile, EditorKept

LEMMA RelistIs ==
  ASSUME TransferTypes
  PROVE  Relist \in [path : FileDirs, asked : FileDirs \union {NoFile}] /\ Relist.path = browse.path
<1>1. PICK d : d = IF browse.asked = NoFile THEN browse.path ELSE browse.asked
  OBVIOUS
<1>2. Relist = [browse EXCEPT !.asked = d]
  BY <1>1 DEF Relist
<1> QED
  BY <1>1, <1>2 DEF TransferTypes

LEMMA ListingKept ==
  ASSUME TabFilesKnown, ListingNext PROVE TabFilesKnown'
<1> USE DEF TabFilesKnown
<1>1. UNCHANGED <<transfer, agreed, astray, standing>> /\ UNCHANGED editorVars
  BY DEF ListingNext, Listed, Navigate, transferVars
<1>2. /\ browse' \in [path : FileDirs, asked : FileDirs \union {NoFile}]
      /\ \/ conflict' = conflict /\ (browse'.path = browse.path \/ conflict.of = NoFile)
         \/ conflict.of # NoFile /\ conflict' = [conflict EXCEPT !.moved = "yes"]
  <2>1. CASE Listed
    BY <2>1 DEF Listed, TransferTypes
  <2>2. ASSUME NEW d \in FileDirs, Navigate(d)
        PROVE  /\ browse' \in [path : FileDirs, asked : FileDirs \union {NoFile}]
               /\ browse'.path = browse.path /\ conflict' = conflict
    BY <2>2 DEF Navigate, TransferTypes, transferVars
  <2> QED
    BY <2>1, <2>2 DEF ListingNext
<1>3. TransferTypes' /\ TransfersAsked'
  BY <1>1, <1>2, LoopsStand DEF TransferTypes
<1>4. EditorKept
  BY <1>1, EditorStands
<1> QED
  BY <1>3, <1>4 DEF EditorKept

LEMMA ItemIs ==
  ASSUME TransferTypes, NEW kind \in {"paste", "upload"}, NEW i \in Items, NEW all \in Answers
  PROVE  /\ Item(kind, i, all) \in Loop /\ Item(kind, i, all).at = "send"
         /\ Item(kind, i, all).how = Opening(Item(kind, i, all).all)
  BY DEF Item, Loop, TransferTypes, Opening, Answers

LEMMA LoopIsOne == ASSUME NEW r \in Loop PROVE r # NoTransfer /\ r.at # "idle"
  BY DEF Loop, NoTransfer

(* What a loop becomes that ends, or goes on with its next item. *)
LEMMA FinishedIs ==
  ASSUME TransferTypes, NEW t \in Transfers, transfer[t] # NoTransfer
  PROVE  \E r \in Loop : r.at = "closing" /\ Finished(t) = [transfer EXCEPT ![t] = r]
<1>1. PICK r : r = [transfer[t] EXCEPT !.at = "closing"]
  OBVIOUS
<1>2. r \in Loop /\ r.at = "closing"
  BY <1>1 DEF TransferTypes, Loop
<1>3. Finished(t) = [transfer EXCEPT ![t] = r]
  BY <1>1 DEF Finished, TransferTypes
<1> QED
  BY <1>2, <1>3

LEMMA NextIs ==
  ASSUME TransferTypes, NEW t \in Transfers, transfer[t] # NoTransfer
  PROVE  \E r \in Loop : /\ r.at = "closing" \/ (r.at = "send" /\ r.how = Opening(r.all))
                         /\ NextItem(t) = [transfer EXCEPT ![t] = r]
<1>1. CASE transfer[t].item = Batch
  BY <1>1, FinishedIs DEF NextItem
<1>2. CASE transfer[t].item # Batch
  <2>1. transfer[t] \in Loop
    BY DEF TransferTypes
  <2>2. PICK kind \in {"paste", "upload"}, i \in Items, all \in Answers :
          kind = transfer[t].kind /\ i = transfer[t].item + 1 /\ all = transfer[t].all
    BY <1>2, <2>1, FilesAssumption DEF Loop, Items
  <2>3. NextItem(t) = [transfer EXCEPT ![t] = Item(kind, i, all)]
    BY <1>2, <2>2 DEF NextItem, TransferTypes
  <2> QED
    BY <2>3, ItemIs
<1> QED
  BY <1>1, <1>2

LEMMA BeginKept ==
  ASSUME TabFilesKnown, NEW t \in Transfers, NEW kind \in {"paste", "upload"}, BeginTransfer(t, kind)
  PROVE  TabFilesKnown'
<1> USE DEF TabFilesKnown
<1>1. PICK r : r = Item(kind, 1, "none")
  OBVIOUS
<1>2. r \in Loop /\ r.at = "send" /\ r.how = Opening(r.all)
  BY <1>1, ItemIs, FilesAssumption DEF Items, Answers
<1>3. transfer' = [transfer EXCEPT ![t] = r] /\ transfer[t].at # "asking"
      /\ UNCHANGED <<browse, conflict, standing, agreed, astray>> /\ UNCHANGED editorVars
  BY <1>1 DEF BeginTransfer, NoTransfer
<1>4. TransferTypes' /\ TransfersAsked'
  BY <1>2, <1>3, LoopGoesOn DEF TransferTypes
<1>5. EditorKept
  BY <1>3, EditorStands
<1> QED
  BY <1>4, <1>5 DEF EditorKept

LEMMA RequestKept ==
  ASSUME TabFilesKnown, NEW t \in Transfers, RequestItem(t) PROVE TabFilesKnown'
<1> USE DEF TabFilesKnown
<1>1. PICK old : old = transfer[t]
  OBVIOUS
<1>2. old \in Loop /\ old.at = "send" /\ old.how = Opening(old.all)
  <2>1. old.at = "send" /\ old # NoTransfer
    BY <1>1 DEF RequestItem, NoTransfer
  <2>2. Chosen(old) /\ old \in Loop
    BY <1>1, <2>1 DEF TransferTypes, TransfersAsked
  <2> QED
    BY <2>1, <2>2 DEF Chosen
<1>3. PICK into \in FileDirs : into = IF old.kind = "paste" THEN browse.path ELSE old.into
  BY <1>2 DEF Loop, TransferTypes
<1>4. PICK r : r = [at |-> "running", kind |-> old.kind, item |-> old.item, into |-> into,
                    how |-> old.how, all |-> old.all]
  OBVIOUS
<1>5. r \in Loop /\ r.at = "running" /\ (r.how = "overwrite" => r.all = "overwrite")
  BY <1>2, <1>3, <1>4 DEF Loop, Opening
<1>6. transfer' = [transfer EXCEPT ![t] = r]
  <2>1. transfer' = [transfer EXCEPT ![t].at = "running", ![t].into = into]
    BY <1>1, <1>3 DEF RequestItem
  <2>2. PICK new : new = [old EXCEPT !.at = "running", !.into = into]
    OBVIOUS
  <2>3. r = new
    BY <1>2, <1>4, <2>2 DEF Loop
  <2> QED
    BY <1>1, <2>1, <2>2, <2>3 DEF TransferTypes
<1>7. transfer[t].at # "asking" /\ UNCHANGED <<browse, conflict, standing, agreed, astray>> /\ UNCHANGED editorVars
  BY DEF RequestItem
<1>8. TransferTypes' /\ TransfersAsked'
  BY <1>5, <1>6, <1>7, LoopGoesOn DEF TransferTypes
<1>9. EditorKept
  BY <1>7, EditorStands
<1> QED
  BY <1>8, <1>9 DEF EditorKept

LEMMA ExecutesKept ==
  ASSUME TabFilesKnown, NEW t \in Transfers, Executes(t) PROVE TabFilesKnown'
<1> USE DEF TabFilesKnown
<1>1. transfer[t] \in Loop /\ transfer[t] # NoTransfer /\ transfer[t].at = "running"
  BY DEF Executes, TransferTypes, NoTransfer
<1>2. PICK target : target = <<transfer[t].into, transfer[t].item>>
  OBVIOUS
<1>3. target \in FileDirs \X Items
  BY <1>1, <1>2 DEF Loop
<1>4. standing' \in [FileDirs \X Items -> {"none", "theirs", "ours"}]
  BY <1>2, <1>3 DEF Executes, TransferTypes
<1>5. UNCHANGED <<browse, conflict, agreed, astray>> /\ UNCHANGED editorVars
  BY DEF Executes
<1>6. \E r \in Loop : /\ r.at \in {"closing", "exists"} \/ (r.at = "send" /\ r.how = Opening(r.all))
                      /\ transfer' = [transfer EXCEPT ![t] = r]
  <2>1. CASE transfer' = NextItem(t)
    BY <1>1, <2>1, NextIs
  <2>2. CASE transfer' = Finished(t)
    BY <1>1, <2>2, FinishedIs
  <2>3. CASE transfer' = [transfer EXCEPT ![t].at = "exists"]
    <3>1. PICK r : r = [transfer[t] EXCEPT !.at = "exists"]
      OBVIOUS
    <3>2. r \in Loop /\ r.at = "exists"
      BY <1>1, <3>1 DEF Loop
    <3>3. transfer' = [transfer EXCEPT ![t] = r]
      BY <2>3, <3>1 DEF TransferTypes
    <3> QED
      BY <3>2, <3>3
  <2> QED
    BY <2>1, <2>2, <2>3 DEF Executes
<1>7. PICK r \in Loop : /\ r.at \in {"closing", "exists"} \/ (r.at = "send" /\ r.how = Opening(r.all))
                        /\ transfer' = [transfer EXCEPT ![t] = r]
  BY <1>6
<1>8. TransferTypes' /\ TransfersAsked'
  BY <1>1, <1>4, <1>5, <1>7, LoopGoesOn DEF TransferTypes
<1>9. EditorKept
  BY <1>5, EditorStands
<1> QED
  BY <1>8, <1>9 DEF EditorKept

LEMMA AsksKept ==
  ASSUME TabFilesKnown, NEW t \in Transfers, Asks(t) PROVE TabFilesKnown'
<1> USE DEF TabFilesKnown
<1>1. PICK r : r = [transfer[t] EXCEPT !.at = "asking"]
  OBVIOUS
<1>2. transfer[t] \in Loop
  BY DEF Asks, TransferTypes, NoTransfer
<1>3. r \in Loop /\ r.at = "asking" /\ r.kind = transfer[t].kind /\ r.into = transfer[t].into
      /\ r.item = transfer[t].item
  BY <1>1, <1>2 DEF Loop
<1>4. transfer' = [transfer EXCEPT ![t] = r]
  BY <1>1 DEF Asks, TransferTypes
<1>5. /\ transfer' \in [Transfers -> Loop \union {NoTransfer}]
      /\ transfer'[t] = r /\ \A u \in Transfers : u # t => transfer'[u] = transfer[u]
  BY <1>3, <1>4 DEF TransferTypes
<1>6. UNCHANGED <<browse, standing, agreed, astray>> /\ UNCHANGED editorVars
  BY DEF Asks
<1>7. TransferTypes'
  <2>1. conflict' = [of |-> t, target |-> Aims(t), moved |-> "no"]
    BY DEF Asks, Aims
  <2>2. Aims(t) \in FileDirs \X Items
    <3>1. transfer[t].into \in FileDirs /\ transfer[t].item \in Items /\ browse.path \in FileDirs
      BY <1>2 DEF Loop, TransferTypes
    <3> QED
      BY <3>1 DEF Aims
  <2>3. conflict' \in [of : Transfers, target : FileDirs \X Items, moved : {"no", "yes"}]
    BY <2>1, <2>2
  <2> QED
    BY <1>5, <1>6, <2>3 DEF TransferTypes
<1>8. ASSUME NEW u \in Transfers, transfer'[u] # NoTransfer PROVE Chosen(transfer[u])'
  BY <1>3, <1>5, <1>6, <1>8 DEF Chosen, TransfersAsked
<1>9. conflict'.of = t /\ Names(t)'
  BY <1>3, <1>5, <1>6 DEF Asks, Names, Aims
<1>10. TransfersAsked'
  BY <1>8, <1>9 DEF TransfersAsked, Names
<1>11. EditorKept
  BY <1>6, EditorStands
<1> QED
  BY <1>7, <1>10, <1>11 DEF EditorKept

LEMMA DecideKept ==
  ASSUME TabFilesKnown, NEW choice \in {"overwrite", "rename", "skip"}, NEW forAll \in BOOLEAN,
         Decide(choice, forAll)
  PROVE  TabFilesKnown'
<1> USE DEF TabFilesKnown
<1>1. PICK t : t = conflict.of
  OBVIOUS
<1>2. t \in Transfers /\ t # NoFile /\ Names(t)
  BY <1>1 DEF Decide, TransfersAsked
<1>3. PICK old : old = transfer[t]
  OBVIOUS
<1>4. old \in Loop /\ old # NoTransfer
  BY <1>2, <1>3 DEF Names, TransferTypes, NoTransfer
<1>5. PICK all \in Answers : all = IF forAll THEN choice ELSE old.all
  BY <1>4 DEF Loop, Answers
<1>6. PICK r : r = [old EXCEPT !.all = all]
  OBVIOUS
<1>7. r \in Loop /\ r.kind = old.kind /\ r.item = old.item /\ r.into = old.into /\ r.all = all
  BY <1>4, <1>5, <1>6 DEF Loop
<1>8. UNCHANGED <<browse, standing>> /\ UNCHANGED editorVars /\ conflict' = NoConflict
      /\ agreed \subseteq agreed' /\ astray \subseteq astray'
  BY DEF Decide
<1>9. EditorKept
  BY <1>8, EditorStands
<1>10. CASE choice = "skip"
  <2>1. \E n \in Loop : /\ n.at = "closing" \/ (n.at = "send" /\ n.how = Opening(n.all))
                        /\ transfer' = [transfer EXCEPT ![t] = n]
    <3>1. CASE old.item = Batch
      <4>1. transfer' = Finished(t)
        BY <1>1, <1>3, <1>5, <1>6, <1>7, <1>10, <3>1 DEF Decide
      <4> QED
        BY <1>2, <1>3, <1>4, <4>1, FinishedIs
    <3>2. CASE old.item # Batch
      <4>1. PICK kind \in {"paste", "upload"}, i \in Items :
              kind = r.kind /\ i = r.item + 1
        BY <1>4, <1>7, <3>2, FilesAssumption DEF Loop, Items
      <4>2. transfer' = [transfer EXCEPT ![t] = Item(kind, i, all)]
        BY <1>1, <1>3, <1>5, <1>6, <1>7, <1>10, <3>2, <4>1 DEF Decide
      <4> QED
        BY <4>2, ItemIs
    <3> QED
      BY <3>1, <3>2
  <2>2. PICK n \in Loop : /\ n.at = "closing" \/ (n.at = "send" /\ n.how = Opening(n.all))
                          /\ transfer' = [transfer EXCEPT ![t] = n]
    BY <2>1
  <2>3. TransferTypes' /\ TransfersAsked'
    BY <1>2, <1>8, <2>2, LoopGoesOn DEF TransferTypes
  <2> QED
    BY <1>9, <2>3 DEF EditorKept
<1>11. CASE choice # "skip"
  <2>1. PICK into \in FileDirs : into = IF old.kind = "paste" THEN browse.path ELSE old.into
    BY <1>4 DEF Loop, TransferTypes
  <2>2. PICK new : new = [r EXCEPT !.how = choice, !.at = "running", !.into = into]
    OBVIOUS
  <2>3. PICK n : n = [at |-> "running", kind |-> old.kind, item |-> old.item, into |-> into,
                      how |-> choice, all |-> all]
    OBVIOUS
  <2>4. n = new
    BY <1>7, <2>2, <2>3 DEF Loop
  <2>5. n \in Loop
    BY <1>4, <1>11, <2>3 DEF Loop
  <2>6. transfer' = [transfer EXCEPT ![t] = n]
    BY <1>1, <1>3, <1>5, <1>6, <1>7, <1>11, <2>1, <2>2, <2>4 DEF Decide
  <2>7. n.how = "overwrite" => <<n.into, n.item>> \in agreed' \union astray'
    <3> SUFFICES ASSUME choice = "overwrite" PROVE <<into, old.item>> \in agreed' \union astray'
      BY <2>3
    <3>1. CASE conflict.moved = "no" \/ old.kind = "upload"
      <4>1. conflict.target = <<into, old.item>>
        BY <1>2, <1>3, <2>1, <3>1 DEF Names, Aims
      <4> QED
        BY <4>1 DEF Decide
    <3>2. CASE ~(conflict.moved = "no" \/ old.kind = "upload")
      <4>1. old.kind = "paste" /\ conflict.moved = "yes"
        BY <1>1, <1>2, <1>4, <3>2 DEF Loop, TransferTypes, NoConflict
      <4>2. into = browse.path
        BY <2>1, <4>1
      <4> QED
        BY <1>1, <1>3, <4>1, <4>2 DEF Decide
    <3> QED
      BY <3>1, <3>2
  <2>8. n.at = "running"
    BY <2>3
  <2>9. TransferTypes' /\ TransfersAsked'
    BY <1>2, <1>8, <2>5, <2>6, <2>7, <2>8, LoopGoesOn DEF TransferTypes
  <2> QED
    BY <1>9, <2>9 DEF EditorKept
<1> QED
  BY <1>10, <1>11

(* The dialog is dismissed, a running upload cancelled, a loop is over.    *)
LEMMA LoopEndsKept ==
  ASSUME TabFilesKnown, Dismiss \/ \E t \in Transfers : CancelUpload(t) \/ Closes(t)
  PROVE  TabFilesKnown'
<1> USE DEF TabFilesKnown
<1>1. CASE Dismiss
  <2>1. PICK t \in Transfers : t = conflict.of /\ transfer[t].at = "asking"
    BY <1>1 DEF Dismiss, TransfersAsked, Names
  <2>2. transfer[t] # NoTransfer
    BY <2>1 DEF NoTransfer
  <2>3. PICK r \in Loop : r.at = "closing" /\ transfer' = [transfer EXCEPT ![t] = r]
    BY <1>1, <2>1, <2>2, FinishedIs DEF Dismiss
  <2>4. UNCHANGED <<browse, standing, agreed, astray>> /\ UNCHANGED editorVars /\ conflict' = NoConflict
    BY <1>1 DEF Dismiss
  <2>5. TransferTypes' /\ TransfersAsked'
    BY <2>3, <2>4, LoopGoesOn DEF TransferTypes
  <2>6. EditorKept
    BY <2>4, EditorStands
  <2> QED
    BY <2>5, <2>6 DEF EditorKept
<1>2. ASSUME NEW t \in Transfers, CancelUpload(t) PROVE TabFilesKnown'
  <2>1. transfer[t] # NoTransfer /\ transfer[t].at = "running"
    BY <1>2 DEF CancelUpload, NoTransfer
  <2>2. PICK r \in Loop : /\ r.at = "closing" \/ (r.at = "send" /\ r.how = Opening(r.all))
                          /\ transfer' = [transfer EXCEPT ![t] = r]
    BY <1>2, <2>1, NextIs DEF CancelUpload
  <2>3. UNCHANGED <<browse, conflict, standing, agreed, astray>> /\ UNCHANGED editorVars
    BY <1>2 DEF CancelUpload
  <2>4. TransferTypes' /\ TransfersAsked'
    BY <2>1, <2>2, <2>3, LoopGoesOn DEF TransferTypes
  <2>5. EditorKept
    BY <2>3, EditorStands
  <2> QED
    BY <2>4, <2>5 DEF EditorKept
<1>3. ASSUME NEW t \in Transfers, Closes(t) PROVE TabFilesKnown'
  <2>1. transfer[t].at # "asking" /\ transfer' = [transfer EXCEPT ![t] = NoTransfer] /\ browse' = Relist
        /\ UNCHANGED <<conflict, standing, agreed, astray>> /\ UNCHANGED editorVars
    BY <1>3 DEF Closes
  <2>2. TransferTypes' /\ TransfersAsked'
    BY <2>1, RelistIs, LoopGoesOn DEF TransferTypes
  <2>3. EditorKept
    BY <2>1, EditorStands
  <2> QED
    BY <2>2, <2>3 DEF EditorKept
<1> QED
  BY <1>1, <1>2, <1>3

LEMMA OthersTransferKept ==
  ASSUME TabFilesKnown, RefreshTasks \/ OthersPlace PROVE TabFilesKnown'
<1> USE DEF TabFilesKnown
<1>1. UNCHANGED <<browse, transfer, conflict, agreed, astray>> /\ UNCHANGED editorVars
  BY DEF RefreshTasks, OthersPlace
<1>2. standing' \in [FileDirs \X Items -> {"none", "theirs", "ours"}]
  BY DEF RefreshTasks, OthersPlace, TransferTypes
<1>3. TransferTypes' /\ TransfersAsked'
  BY <1>1, <1>2, LoopsStand DEF TransferTypes
<1>4. EditorKept
  BY <1>1, EditorStands
<1> QED
  BY <1>3, <1>4 DEF EditorKept

(* ---- The editor. ---------------------------------------------------------- *)

LEMMA EditorNextKept ==
  ASSUME TabFilesKnown, EditorNext PROVE TabFilesKnown'
<1> USE DEF TabFilesKnown
<1>1. UNCHANGED transferVars /\ browse'.path = browse.path
      /\ browse' \in [path : FileDirs, asked : FileDirs \union {NoFile}]
  <2>1. ASSUME NEW s \in Saves, SaveTextAnswered(s)
        PROVE  UNCHANGED transferVars /\ (browse' = browse \/ browse' = Relist)
    BY <2>1, Zenon DEF SaveTextAnswered
  <2>2. ASSUME NEW s \in Saves, SaveText(s) \/ Written(s) PROVE UNCHANGED transferVars /\ browse' = browse
    BY <2>2 DEF SaveText, Written
  <2>3. ASSUME NEW f \in Texts, OpenEditor(f) \/ Opened(f) \/ OthersWrite(f)
        PROVE  UNCHANGED transferVars /\ browse' = browse
    BY <2>3 DEF OpenEditor, Opened, OthersWrite
  <2>4. ASSUME TypeText \/ CloseEditor PROVE UNCHANGED transferVars /\ browse' = browse
    BY <2>4 DEF TypeText, CloseEditor
  <2>5. UNCHANGED transferVars /\ (browse' = browse \/ browse' = Relist)
    BY <2>1, <2>2, <2>3, <2>4, Zenon DEF EditorNext
  <2> QED
    BY <2>5, RelistIs DEF TransferTypes
<1>2. TransferTypes' /\ TransfersAsked'
  BY <1>1, LoopsStand DEF TransferTypes, transferVars
<1>3. ASSUME NEW f \in Texts, OpenEditor(f) PROVE EditorKept
  BY <1>3 DEF OpenEditor, EditorKept, EditorTypes, SavesOwn, EditsOwnFile
<1>4. ASSUME NEW f \in Texts, Opened(f) PROVE EditorKept
  <2>1. UNCHANGED <<saveOut, mixed, disk>> /\ opening' \subseteq Texts
    BY <1>4 DEF Opened, EditorTypes
  <2>2. PICK typed \in BOOLEAN :
          editor' = [path |-> f, rev |-> disk[f].rev, of |-> f, dirty |-> FALSE, typed |-> typed]
    BY <1>4 DEF Opened
  <2>3. editor' \in Editing
    BY <2>2 DEF EditorTypes, Editing
  <2>4. EditsOwnFile'
    BY <2>1, <2>2 DEF EditsOwnFile
  <2> QED
    BY <2>1, <2>3, <2>4 DEF EditorKept, EditorTypes, SavesOwn
<1>5. ASSUME NEW f \in Texts, OthersWrite(f) PROVE EditorKept
  <2>1. disk' = [disk EXCEPT ![f] = [rev |-> disk[f].rev + 1, of |-> f]]
        /\ UNCHANGED <<editor, opening, saveOut, mixed>>
    BY <1>5 DEF OthersWrite
  <2> QED
    BY <2>1 DEF EditorKept, EditorTypes, SavesOwn, EditsOwnFile
<1>6. ASSUME TypeText PROVE EditorKept
  <2>1. editor # NoEditor /\ editor' = [editor EXCEPT !.dirty = TRUE, !.typed = TRUE]
        /\ UNCHANGED <<opening, saveOut, mixed, disk>>
    BY <1>6 DEF TypeText
  <2>2. editor' \in Editing /\ editor'.path = editor.path /\ editor'.of = editor.of
    BY <2>1 DEF EditorTypes, Editing
  <2> QED
    BY <2>1, <2>2 DEF EditorKept, EditorTypes, SavesOwn, EditsOwnFile
<1>7. ASSUME NEW s \in Saves, SaveText(s) PROVE EditorKept
  <2>1. editor # NoEditor /\ editor' = [editor EXCEPT !.typed = FALSE] /\ UNCHANGED <<opening, mixed, disk>>
    BY <1>7 DEF SaveText
  <2>2. PICK new : new = [at |-> "sent", path |-> editor.path, rev |-> editor.rev, of |-> editor.of]
    OBVIOUS
  <2>3. editor' \in Editing /\ editor'.path = editor.path /\ editor'.of = editor.of /\ editor \in Editing
    BY <2>1 DEF EditorTypes, Editing
  <2>4. new \in Saving /\ new.path = editor.path /\ new.of = editor.of
    BY <2>2, <2>3 DEF Editing, Saving
  <2>5. saveOut' = [saveOut EXCEPT ![s] = new]
    BY <1>7, <2>2 DEF SaveText
  <2> QED
    BY <2>1, <2>3, <2>4, <2>5 DEF EditorKept, EditorTypes, SavesOwn, EditsOwnFile
<1>8. ASSUME NEW s \in Saves, Written(s) PROVE EditorKept
  <2>1. saveOut[s] \in Saving /\ saveOut[s] # NoSaveOut
    BY <1>8 DEF Written, EditorTypes, NoSaveOut
  <2>2. PICK new \in Saving : /\ saveOut' = [saveOut EXCEPT ![s] = new]
                              /\ new.path = saveOut[s].path /\ new.of = saveOut[s].of
    <3>1. CASE disk[saveOut[s].path].rev = saveOut[s].rev
      <4>1. PICK new : new = [saveOut[s] EXCEPT !.at = "saved", !.rev = saveOut[s].rev + 1]
        OBVIOUS
      <4>2. PICK rev \in Nat : rev = saveOut[s].rev + 1
        BY <2>1 DEF Saving
      <4>4. new = [saveOut[s] EXCEPT !.at = "saved", !.rev = rev]
        BY <4>1, <4>2
      <4>5. new \in Saving /\ new.path = saveOut[s].path /\ new.of = saveOut[s].of
        BY <2>1, <4>4 DEF Saving
      <4>3. saveOut' = [saveOut EXCEPT ![s] = new]
        BY <1>8, <3>1, <4>1 DEF Written
      <4> QED
        BY <4>3, <4>5
    <3>2. CASE disk[saveOut[s].path].rev # saveOut[s].rev
      <4>1. PICK new : new = [saveOut[s] EXCEPT !.at = "changed"]
        OBVIOUS
      <4>2. new \in Saving /\ new.path = saveOut[s].path /\ new.of = saveOut[s].of
        BY <2>1, <4>1 DEF Saving
      <4>3. saveOut' = [saveOut EXCEPT ![s] = new]
        BY <1>8, <3>2, <4>1 DEF Written
      <4> QED
        BY <4>2, <4>3
    <3> QED
      BY <3>1, <3>2
  <2>3. \/ disk' = disk
        \/ disk' = [disk EXCEPT ![saveOut[s].path] =
                      [rev |-> disk[saveOut[s].path].rev + 1, of |-> saveOut[s].of]]
    BY <1>8 DEF Written
  <2>4. UNCHANGED <<editor, opening, mixed>>
    BY <1>8 DEF Written
  <2>5. saveOut[s].path \in Texts /\ saveOut[s].of \in Texts
        /\ (saveOut[s].path \notin mixed => saveOut[s].of = saveOut[s].path)
    BY <2>1 DEF SavesOwn, Saving
  <2>6. disk' \in [Texts -> [rev : Nat, of : Texts]] /\ \A f \in Texts \ mixed : disk'[f].of = f
    BY <2>3, <2>5 DEF EditorTypes, EditsOwnFile
  <2>7. SavesOwn'
    BY <2>2, <2>4, <2>5 DEF SavesOwn, EditorTypes
  <2>8. saveOut' \in [Saves -> Saving \union {NoSaveOut}]
    BY <2>2 DEF EditorTypes
  <2> QED
    BY <2>4, <2>6, <2>7, <2>8 DEF EditorKept, EditorTypes, EditsOwnFile
<1>9. ASSUME NEW s \in Saves, SaveTextAnswered(s) PROVE EditorKept
  <2>1. saveOut' = [saveOut EXCEPT ![s] = NoSaveOut] /\ UNCHANGED <<opening, disk>> /\ mixed \subseteq mixed'
    BY <1>9 DEF SaveTextAnswered
  <2>2. saveOut[s] \in Saving /\ saveOut[s] # NoSaveOut
    BY <1>9 DEF SaveTextAnswered, EditorTypes, NoSaveOut
  <2>3. SavesOwn' /\ saveOut' \in [Saves -> Saving \union {NoSaveOut}]
    BY <2>1 DEF SavesOwn, EditorTypes
  <2>4. CASE saveOut[s].at = "saved" /\ editor # NoEditor
    <3>1. PICK dirty \in BOOLEAN : dirty = (editor.typed \/ editor.of # saveOut[s].of)
      OBVIOUS
    <3>2. editor' = [editor EXCEPT !.path = saveOut[s].path, !.rev = saveOut[s].rev, !.dirty = dirty]
      BY <1>9, <2>4, <3>1 DEF SaveTextAnswered
    <3>3. mixed' = IF editor.of # saveOut[s].of THEN mixed \union {saveOut[s].path} ELSE mixed
      BY <1>9, <2>4 DEF SaveTextAnswered
    <3>4. editor' \in Editing /\ editor'.path = saveOut[s].path /\ editor'.of = editor.of
      BY <2>2, <2>4, <3>2 DEF EditorTypes, Editing, Saving
    <3>5. EditsOwnFile'
      BY <2>1, <2>2, <3>3, <3>4 DEF EditsOwnFile, SavesOwn
    <3> QED
      BY <2>1, <2>3, <3>4, <3>5 DEF EditorKept, EditorTypes
  <2>5. CASE ~(saveOut[s].at = "saved" /\ editor # NoEditor)
    <3>1. UNCHANGED <<editor, mixed>>
      BY <1>9, <2>5 DEF SaveTextAnswered
    <3> QED
      BY <2>1, <2>3, <3>1 DEF EditorKept, EditorTypes, EditsOwnFile
  <2> QED
    BY <2>4, <2>5
<1>10. ASSUME CloseEditor PROVE EditorKept
  <2>1. UNCHANGED <<opening, saveOut, mixed, disk>> /\ editor' = NoEditor
    BY <1>10 DEF CloseEditor
  <2> QED
    BY <2>1 DEF EditorKept, EditorTypes, SavesOwn, EditsOwnFile
<1>11. EditorKept
  BY <1>3, <1>4, <1>5, <1>6, <1>7, <1>8, <1>9, <1>10 DEF EditorNext
<1> QED
  BY <1>2, <1>11 DEF EditorKept

LEMMA TabFilesStand ==
  ASSUME TabFilesKnown, UNCHANGED filesVars PROVE TabFilesKnown'
<1>1. UNCHANGED <<browse, transfer, conflict, agreed, astray, standing>> /\ UNCHANGED editorVars
  BY DEF filesVars, transferVars
<1>2. TransferTypes' /\ TransfersAsked'
  BY <1>1, LoopsStand DEF TransferTypes, TabFilesKnown
<1>3. EditorKept
  BY <1>1, EditorStands DEF TabFilesKnown
<1> QED
  BY <1>2, <1>3 DEF EditorKept, TabFilesKnown

LEMMA TabFilesKept ==
  ASSUME TabFilesKnown, [ConsoleFilesNext]_filesVars PROVE TabFilesKnown'
<1>1. ASSUME TransferNext PROVE TabFilesKnown'
  BY <1>1, BeginKept, RequestKept, ExecutesKept, AsksKept, DecideKept, LoopEndsKept, OthersTransferKept
  DEF TransferNext
<1> QED
  BY <1>1, ListingKept, EditorNextKept, TabFilesStand DEF ConsoleFilesNext

(* One step: what is overwritten was agreed to. *)
AskedStep ==
  \A g \in FileDirs \X Items : standing[g] = "theirs" /\ standing'[g] = "ours" =>
    \/ g \in agreed \union astray
    \/ \E t \in Transfers : transfer[t] # NoTransfer /\ transfer[t].all = "overwrite"

LEMMA AskedStepTaken ==
  ASSUME TabFilesKnown, [ConsoleFilesNext]_filesVars PROVE AskedStep
<1> SUFFICES ASSUME NEW g \in FileDirs \X Items, standing[g] = "theirs", standing'[g] = "ours"
    PROVE  g \in agreed \union astray \/ \E t \in Transfers : transfer[t] # NoTransfer /\ transfer[t].all = "overwrite"
  BY DEF AskedStep
<1> USE DEF TabFilesKnown
<1>1. ASSUME NEW t \in Transfers, Executes(t)
      PROVE  g \in agreed \union astray \/ (transfer[t] # NoTransfer /\ transfer[t].all = "overwrite")
  <2>1. transfer[t].at = "running" /\ transfer[t] # NoTransfer
    BY <1>1 DEF Executes, NoTransfer
  <2>2. PICK target : target = <<transfer[t].into, transfer[t].item>>
    OBVIOUS
  <2>3. g = target /\ (standing[target] = "none" \/ transfer[t].how = "overwrite")
    BY <1>1, <2>2 DEF Executes, TransferTypes
  <2> QED
    BY <2>1, <2>2, <2>3 DEF TransfersAsked, Chosen
<1>2. CASE OthersPlace
  BY <1>2 DEF OthersPlace, TransferTypes
<1>3. CASE UNCHANGED standing
  BY <1>3
<1>4. ASSUME TransferNext PROVE (\E t \in Transfers : Executes(t)) \/ OthersPlace \/ UNCHANGED standing
  <2>1. ASSUME NEW t \in Transfers, NEW kind \in {"paste", "upload"}, BeginTransfer(t, kind)
        PROVE  UNCHANGED standing
    BY <2>1 DEF BeginTransfer
  <2>2. ASSUME NEW t \in Transfers, RequestItem(t) \/ Asks(t) \/ CancelUpload(t) \/ Closes(t)
        PROVE  UNCHANGED standing
    BY <2>2 DEF RequestItem, Asks, CancelUpload, Closes
  <2>3. ASSUME NEW choice \in {"overwrite", "rename", "skip"}, NEW forAll \in BOOLEAN, Decide(choice, forAll)
        PROVE  UNCHANGED standing
    BY <2>3, Zenon DEF Decide
  <2>4. ASSUME Dismiss \/ RefreshTasks PROVE UNCHANGED standing
    BY <2>4 DEF Dismiss, RefreshTasks
  <2> QED
    BY <1>4, <2>1, <2>2, <2>3, <2>4, Zenon DEF TransferNext
<1>5. ASSUME ListingNext \/ EditorNext \/ UNCHANGED filesVars PROVE UNCHANGED standing
  <2>1. ASSUME ListingNext PROVE UNCHANGED standing
    BY <2>1 DEF ListingNext, Listed, Navigate, transferVars
  <2>2. ASSUME EditorNext PROVE UNCHANGED transferVars
    <3>1. ASSUME NEW s \in Saves, SaveText(s) \/ Written(s) \/ SaveTextAnswered(s)
          PROVE  UNCHANGED transferVars
      BY <3>1, Zenon DEF SaveText, Written, SaveTextAnswered
    <3>2. ASSUME NEW f \in Texts, OpenEditor(f) \/ Opened(f) \/ OthersWrite(f) PROVE UNCHANGED transferVars
      BY <3>2 DEF OpenEditor, Opened, OthersWrite
    <3>3. ASSUME TypeText \/ CloseEditor PROVE UNCHANGED transferVars
      BY <3>3 DEF TypeText, CloseEditor
    <3> QED
      BY <2>2, <3>1, <3>2, <3>3, Zenon DEF EditorNext
  <2> QED
    BY <1>5, <2>1, <2>2 DEF transferVars, filesVars
<1> QED
  BY <1>1, <1>2, <1>3, <1>4, <1>5 DEF ConsoleFilesNext

(* The files tab overwrites what the user was shown and agreed to, and the *)
(* editor saves into the file its text came from, whatever arrives while a *)
(* dialog asks or a save is under way, but for what OverwriteAsked and     *)
(* EditsOwnFile let through by name.                                       *)
THEOREM TabKeepsOthers == ConsoleFilesSpec => OthersKept
<1>1. TabFilesKnown /\ [ConsoleFilesNext]_filesVars => TabFilesKnown'
  BY TabFilesKept
<1>2. TabFilesKnown /\ [ConsoleFilesNext]_filesVars =>
        [\A g \in FileDirs \X Items : standing[g] = "theirs" /\ standing'[g] = "ours" =>
           \/ g \in agreed \union astray
           \/ \E t \in Transfers : transfer[t] # NoTransfer /\ transfer[t].all = "overwrite"
        ]_filesVars
  BY AskedStepTaken DEF AskedStep
<1>3. TabFilesKnown => EditsOwnFile
  BY DEF TabFilesKnown
<1> QED
  BY TabFilesInitial, <1>1, <1>2, <1>3, PTL DEF ConsoleFilesSpec, OthersKept, OverwriteAsked
-----------------------------------------------------------------------------
Work == {"validate", "next", "prepared", "cleared", "moved", "staged", "copied", "published",
         "committed", "hidden", "marked", "erased"}
WithSource == Work \ {"validate", "next"}
WithDestination == WithSource \ {"hidden", "marked", "erased"}
Phases == {"queued", "validating", "mutating", "move-prepared", "destination-committed",
           "source-hidden", "cleaning"} \union Ended
Dirs == {r.to : r \in FileRequest}
Data == Path \union {Missing}
Task ==
  [status : {"queued", "running"} \union Ended, phase : Phases, at : {"new", "saved", "ended"} \union Work,
   operation : {"copy", "move", "delete"}, sources : Seq(Path), to : Dirs,
   conflict : {"reject", "overwrite"}, seen : Seq(Data), left : Seq(Path), current : Data,
   lists : SUBSET {"staging", "hidden"}, cancel : BOOLEAN]

TaskTypes ==
  /\ files \in [Path -> Data] /\ stagingFile \in [FileTask -> Data]
  /\ fileTask \in [FileTask -> Task \union {Unused}] /\ saved \in [FileTask -> Task \union {Unused}]
  /\ chain \in Seq(FileTask) /\ loading \subseteq FileTask /\ early \in {"no", "yes"}

(* What waits to begin has done nothing yet. *)
WaitKnown ==
  \A t \in FileTask :
    /\ fileTask[t].at \in {"new", "saved"} => fileTask[t].phase = "queued" /\ stagingFile[t] = Missing
    /\ saved[t].status = "queued" => saved[t].phase = "queued"

(* Only a task that works, or worked before the crash, has begun on disk.   *)
(* They are two only when one began while a start was reading the others.   *)
Working(t) == fileTask[t].at \in Work
Begun(w) == w.status = "running" /\ w.phase # "queued"
RunsKnown ==
  /\ \A t \in FileTask : Begun(saved[t]) => t \in loading \/ Working(t)
  /\ early = "no" => /\ \A t, u \in FileTask : Begun(saved[t]) /\ Begun(saved[u]) => t = u
                     /\ \A t \in FileTask : Working(t) => loading = {}
  /\ early = "yes" => loading # {}
  /\ \A t \in loading : saved[t] # Unused /\ fileTask[t] = Unused

From(r) == Head(r.left)
Onto(r) == Placed[<<From(r), r.to>>]
(* Where a running task is: what is at its source and its destination, and *)
(* in its staging file; gone is what a recovery may have taken meanwhile.  *)
AtKnown(r, there, staged, gone) ==
  /\ r.status = "running"
  /\ r.at \in WithSource => r.left # <<>>
  /\ r.at \in WithDestination => r.current = From(r) /\ From(r) # Onto(r) /\ r.operation # "delete"
  /\ r.at = "prepared" /\ r.conflict = "reject" => there[Onto(r)] = Missing
  /\ r.at = "cleared" => there[Onto(r)] = Missing
  /\ r.at \in {"staged", "copied"} =>
       "staging" \in r.lists /\ (r.conflict = "reject" => there[Onto(r)] = Missing)
  /\ r.at # "copied" => staged = Missing
  /\ r.at = "copied" => staged = there[From(r)] \/ (there[From(r)] = Missing /\ staged \in gone)
  /\ r.at \in {"moved", "published", "committed"} =>
       there[From(r)] = Missing \/ there[Onto(r)] = there[From(r)] \/ there[From(r)] \in gone
  /\ r.phase = "destination-committed" => r.at = "committed"
(* What its file says of it. *)
SaysOf(w, r) ==
  /\ Begun(w) /\ w.operation = r.operation /\ w.to = r.to
  /\ w.phase = r.phase /\ w.current = r.current
  /\ r.at \in {"staged", "copied"} => "staging" \in w.lists
WorkKnown ==
  \A t \in FileTask : Working(t) =>
    /\ chain # <<>> /\ Head(chain) = t
    /\ AtKnown(fileTask[t], files, stagingFile[t], crossed) /\ SaysOf(saved[t], fileTask[t])

(* What a start may do with it: remove a source that is at its destination, *)
(* and what was staged; when a task has overtaken it, what that put there.   *)
CanRecover(w, there, staged, gone, sooner) ==
  /\ w.status = "running" /\ w.operation = "move" /\ w.phase = "destination-committed" /\ w.current # Missing
       => \/ sooner = "yes" \/ there[w.current] = Missing \/ there[w.current] \in gone
          \/ Placed[<<w.current, w.to>>] # w.current /\ there[Placed[<<w.current, w.to>>]] = there[w.current]
  /\ staged # Missing =>
       \/ staged \in gone /\ (Begun(w) \/ w.status \in Ended)
       \/ /\ Begun(w) /\ "staging" \in w.lists /\ w.operation # "delete"
          /\ w.phase # "destination-committed" /\ w.current # Missing
          /\ sooner = "yes" \/ there[w.current] # Missing
RecoveryKnown ==
  \A t \in FileTask : CanRecover(saved[t], files, stagingFile[t], crossed, early)

FilesKnown == TaskTypes /\ WaitKnown /\ RunsKnown /\ WorkKnown /\ RecoveryKnown /\ NothingLost

LEMMA FilesInitial == FileInit => FilesKnown
<1> SUFFICES ASSUME FileInit PROVE FilesKnown
  OBVIOUS
<1>1. TaskTypes
  BY FileAssumption DEF FileInit, TaskTypes, Data
<1>2. \A t \in FileTask : fileTask[t].status = "none" /\ fileTask[t].at = "none" /\ saved[t].status = "none"
                          /\ stagingFile[t] = Missing
  BY DEF FileInit, Unused
<1>3. WaitKnown /\ RunsKnown /\ WorkKnown /\ RecoveryKnown
  BY <1>2 DEF FileInit, WaitKnown, RunsKnown, WorkKnown, RecoveryKnown, CanRecover, Begun, Working, Work
<1>4. NothingLost
  BY FileAssumption DEF FileInit, NothingLost
<1> QED
  BY <1>1, <1>3, <1>4 DEF FilesKnown

LEMMA TaskIs ==
  ASSUME NEW r \in Task
  PROVE  /\ r # Unused /\ r.status # "none" /\ r.at # "none"
         /\ \A p \in Path : Placed[<<p, r.to>>] \in Path
         /\ (r.left # <<>> => From(r) \in Path /\ Onto(r) \in Path)
<1>1. r # Unused /\ r.status # "none" /\ r.at # "none"
  BY DEF Task, Unused, Ended, Work
<1>2. \A p \in Path : Placed[<<p, r.to>>] \in Path
  BY FileAssumption DEF Task, Dirs
<1>3. r.left # <<>> => Head(r.left) \in Path
  BY DEF Task
<1> QED
  BY <1>1, <1>2, <1>3 DEF From, Onto

(* What a task becomes. *)
Goes(old, status, phase, go, left, current, lists) ==
  [status |-> status, phase |-> phase, at |-> go, operation |-> old.operation,
   sources |-> old.sources, to |-> old.to, conflict |-> old.conflict, seen |-> old.seen,
   left |-> left, current |-> current, lists |-> lists, cancel |-> old.cancel]

LEMMA FieldsOf ==
  ASSUME NEW old \in Task
  PROVE  /\ old.status \in {"queued", "running"} \union Ended /\ old.phase \in Phases
         /\ old.left \in Seq(Path) /\ old.current \in Data /\ old.lists \in SUBSET {"staging", "hidden"}
         /\ old.lists \ {"staging"} \in SUBSET {"staging", "hidden"}
         /\ old.lists \union {"staging"} \in SUBSET {"staging", "hidden"}
         /\ old.conflict \in {"reject", "overwrite"}
  BY DEF Task

LEMMA PlacesKnown ==
  /\ \A go \in Work : go \in {"new", "saved", "ended"} \union Work
  /\ \A p \in {"queued", "validating", "mutating", "move-prepared", "destination-committed",
                "source-hidden", "cleaning", "failed", "success", "cancelled", "interrupted"} : p \in Phases
  BY DEF Phases, Ended

LEMMA WorkFacts ==
  ASSUME FilesKnown, NEW t \in FileTask, Working(t)
  PROVE  /\ fileTask[t] \in Task /\ saved[t] \in Task \union {Unused}
         /\ chain # <<>> /\ Head(chain) = t
         /\ AtKnown(fileTask[t], files, stagingFile[t], crossed) /\ SaysOf(saved[t], fileTask[t])
         /\ Begun(saved[t]) /\ files \in [Path -> Data] /\ stagingFile[t] \in Data
         /\ stagingFile = [stagingFile EXCEPT ![t] = stagingFile[t]]
         /\ \A u \in FileTask : u # t => ~Working(u) /\ (Begun(saved[u]) => early = "yes")
<1>1. fileTask[t] # Unused
  BY DEF Working, Work, Unused
<1>2. fileTask[t] \in Task /\ saved[t] \in Task \union {Unused}
  BY <1>1 DEF FilesKnown, TaskTypes
<1>3. /\ chain # <<>> /\ Head(chain) = t
      /\ AtKnown(fileTask[t], files, stagingFile[t], crossed) /\ SaysOf(saved[t], fileTask[t])
  BY DEF FilesKnown, WorkKnown
<1>4. Begun(saved[t])
  BY <1>3 DEF SaysOf
<1>5. \A u \in FileTask : u # t => ~Working(u)
  BY <1>3 DEF FilesKnown, WorkKnown
<1>6. \A u \in FileTask : u # t => (Begun(saved[u]) => early = "yes")
  <2>1. early \in {"no", "yes"}
    BY DEF FilesKnown, TaskTypes
  <2> QED
    BY <1>4, <2>1 DEF FilesKnown, RunsKnown
<1>7. files \in [Path -> Data] /\ stagingFile[t] \in Data
      /\ stagingFile = [stagingFile EXCEPT ![t] = stagingFile[t]]
  BY DEF FilesKnown, TaskTypes
<1> QED
  BY <1>2, <1>3, <1>4, <1>5, <1>6, <1>7

LEMMA AtRecovers ==
  ASSUME NEW r \in Task, NEW w, NEW there \in [Path -> Data], NEW x, NEW gone, NEW sooner,
         AtKnown(r, there, x, gone), SaysOf(w, r)
  PROVE  CanRecover(w, there, x, gone, sooner)
<1>1. ASSUME w.status = "running", w.operation = "move", w.phase = "destination-committed",
             w.current # Missing
      PROVE  \/ there[w.current] = Missing \/ there[w.current] \in gone
             \/ Placed[<<w.current, w.to>>] # w.current /\ there[Placed[<<w.current, w.to>>]] = there[w.current]
  <2>1. r.at = "committed" /\ w.current = r.current /\ w.to = r.to
    BY <1>1 DEF AtKnown, SaysOf
  <2>2. r.current = From(r) /\ From(r) # Onto(r)
        /\ (there[From(r)] = Missing \/ there[Onto(r)] = there[From(r)] \/ there[From(r)] \in gone)
    BY <2>1 DEF AtKnown, WithDestination, WithSource, Work
  <2> QED
    BY <2>1, <2>2 DEF Onto
<1>2. ASSUME x # Missing
      PROVE  \/ x \in gone /\ (Begun(w) \/ w.status \in Ended)
             \/ /\ Begun(w) /\ "staging" \in w.lists /\ w.operation # "delete"
                /\ w.phase # "destination-committed" /\ w.current # Missing
                /\ sooner = "yes" \/ there[w.current] # Missing
  <2>1. r.at = "copied" /\ (x = there[From(r)] \/ x \in gone)
    BY <1>2 DEF AtKnown
  <2>2. r.current = From(r) /\ r.left # <<>> /\ r.operation # "delete"
    BY <2>1 DEF AtKnown, WithDestination, WithSource, Work
  <2>3. From(r) # Missing
    BY <2>2, TaskIs, FileAssumption
  <2>4. Begun(w)
    BY DEF SaysOf
  <2>5. CASE x \in gone
    BY <2>4, <2>5
  <2>6. CASE x = there[From(r)]
    BY <1>2, <2>1, <2>2, <2>3, <2>6 DEF AtKnown, SaysOf
  <2> QED
    BY <2>1, <2>5, <2>6
<1> QED
  BY <1>1, <1>2 DEF CanRecover

(* What nothing has begun with is judged by neither the files nor a start.   *)
LEMMA IdleRecovers ==
  ASSUME NEW w, NEW x, NEW there, NEW gone, NEW sooner,
         NEW other, NEW more, gone \subseteq more, NEW later,
         CanRecover(w, there, x, gone, sooner), ~Begun(w)
  PROVE  CanRecover(w, other, x, more, later)
BY DEF CanRecover, Begun

(* With a task that has overtaken the start, the files do not matter.        *)
LEMMA LateRecovers ==
  ASSUME NEW w, NEW x, NEW there, NEW gone, NEW sooner, NEW other, NEW more, gone \subseteq more,
         CanRecover(w, there, x, gone, sooner)
  PROVE  CanRecover(w, other, x, more, "yes")
BY DEF CanRecover

LEMMA RecoveryThen ==
  ASSUME \A u \in FileTask : CanRecover(saved'[u], files', stagingFile'[u], crossed', early')
  PROVE  RecoveryKnown'
BY Zenon DEF RecoveryKnown, CanRecover, Begun, Ended

(* A task that works takes a step, or is over. *)
LEMMA WorkStep ==
  ASSUME FilesKnown, NEW t \in FileTask, Working(t), NEW r \in Task, NEW x \in Data,
         fileTask' = [fileTask EXCEPT ![t] = r],
         saved' = saved \/ saved' = [saved EXCEPT ![t] = r],
         stagingFile' = [stagingFile EXCEPT ![t] = x], files' \in [Path -> Data],
         UNCHANGED <<chain, loading, early, crossed>>, NothingLost',
         \/ r.at \in Work /\ AtKnown(r, files', x, crossed) /\ SaysOf(saved'[t], r)
         \/ r.at = "ended" /\ saved' = [saved EXCEPT ![t] = r] /\ r.status \in Ended /\ x = Missing
  PROVE  FilesKnown'
<1>1. TaskTypes'
  BY DEF FilesKnown, TaskTypes
<1>2. fileTask'[t] = r /\ stagingFile'[t] = x
      /\ \A u \in FileTask : u # t =>
           fileTask'[u] = fileTask[u] /\ saved'[u] = saved[u] /\ stagingFile'[u] = stagingFile[u]
  BY DEF FilesKnown, TaskTypes
<1>3. \A u \in FileTask : u # t => ~Working(u) /\ (Begun(saved[u]) => early = "yes")
  BY WorkFacts
<1>4. chain # <<>> /\ Head(chain) = t /\ early \in {"no", "yes"} /\ (early = "no" => loading = {})
  BY WorkFacts DEF FilesKnown, TaskTypes, RunsKnown
<1>5. r.at \in Work \/ (r.at = "ended" /\ saved'[t] = r /\ r.status \in Ended /\ x = Missing)
  BY DEF FilesKnown, TaskTypes
<1>6. r.at \in Work => AtKnown(r, files', x, crossed) /\ SaysOf(saved'[t], r) /\ Begun(saved'[t])
  BY DEF SaysOf, Work
<1>7. r.at \notin Work => ~Begun(saved'[t]) /\ saved'[t].status # "queued"
  BY <1>5 DEF Begun, Ended
<1>8. WaitKnown'
  <2> SUFFICES ASSUME NEW u \in FileTask
      PROVE  /\ fileTask'[u].at \in {"new", "saved"} => fileTask'[u].phase = "queued" /\ stagingFile'[u] = Missing
             /\ saved'[u].status = "queued" => saved'[u].phase = "queued"
    BY DEF WaitKnown
  <2>1. CASE u # t
    BY <1>2, <2>1 DEF FilesKnown, WaitKnown
  <2>2. CASE u = t
    BY <1>2, <1>5, <1>6, <1>7, <2>2 DEF Work, Begun
  <2> QED
    BY <2>1, <2>2
<1>9. t \notin loading
  BY DEF FilesKnown, RunsKnown, Working, Work, Unused
<1>10. RunsKnown'
  <2>1. ASSUME NEW u \in FileTask, Begun(saved'[u]) PROVE u \in loading' \/ Working(u)'
    <3>1. CASE u = t
      BY <1>2, <1>7, <2>1, <3>1 DEF Working
    <3>2. CASE u # t
      BY <1>2, <1>3, <2>1, <3>2 DEF FilesKnown, RunsKnown
    <3> QED
      BY <3>1, <3>2
  <2>2. ASSUME early' = "no", NEW u \in FileTask, NEW v \in FileTask, Begun(saved'[u]), Begun(saved'[v])
        PROVE  u = v
    BY <1>2, <1>3, <2>2
  <2>3. early' = "no" => loading' = {}
    BY <1>4
  <2>4. early' = "yes" => loading' # {}
    BY DEF FilesKnown, RunsKnown
  <2>5. ASSUME NEW u \in loading' PROVE saved'[u] # Unused /\ fileTask'[u] = Unused
    <3>1. u # t /\ u \in FileTask /\ saved[u] # Unused /\ fileTask[u] = Unused
      BY <1>9 DEF FilesKnown, RunsKnown, TaskTypes
    <3> QED
      BY <1>2, <3>1
  <2> QED
    BY <2>1, <2>2, <2>3, <2>4, <2>5 DEF RunsKnown, Begun
<1>11. WorkKnown'
  <2> SUFFICES ASSUME NEW u \in FileTask, fileTask'[u].at \in Work
      PROVE  /\ chain' # <<>> /\ Head(chain') = u
             /\ AtKnown(fileTask[u], files, stagingFile[u], crossed)' /\ SaysOf(saved[u], fileTask[u])'
    BY DEF WorkKnown, Working
  <2>1. u = t
    BY <1>2, <1>3 DEF Working
  <2>2. AtKnown(fileTask[u], files, stagingFile[u], crossed)' /\ SaysOf(saved[u], fileTask[u])'
    BY <1>2, <1>6, <2>1 DEF AtKnown, SaysOf, From, Onto, Begun
  <2> QED
    BY <1>4, <2>1, <2>2
<1>12. RecoveryKnown'
  <2> SUFFICES ASSUME NEW u \in FileTask PROVE CanRecover(saved'[u], files', stagingFile'[u], crossed', early')
    BY RecoveryThen
  <2>1. CASE u # t
    <3>1. CanRecover(saved[u], files, stagingFile[u], crossed, early)
      BY DEF FilesKnown, RecoveryKnown
    <3>2. CASE ~Begun(saved[u])
      BY <1>2, <2>1, <3>1, <3>2, IdleRecovers
    <3>3. CASE Begun(saved[u])
      <4>1. early' = "yes"
        BY <1>3, <2>1, <3>3
      <4> QED
        BY <1>2, <2>1, <3>1, <4>1, LateRecovers
    <3> QED
      BY <3>2, <3>3
  <2>2. CASE u = t /\ r.at \in Work
    BY <1>2, <1>6, <2>2, AtRecovers
  <2>3. CASE u = t /\ r.at \notin Work
    BY <1>2, <1>5, <2>3 DEF CanRecover, Begun, Ended
  <2> QED
    BY <2>1, <2>2, <2>3
<1> QED
  BY <1>1, <1>8, <1>10, <1>11, <1>12 DEF FilesKnown

LEMMA PersistStep ==
  ASSUME FilesKnown, NEW t \in FileTask, Working(t), NEW r \in Task, NEW x \in Data,
         Persisted(t, r), UNCHANGED <<chain, loading, early, crossed>>, NothingLost',
         stagingFile' = [stagingFile EXCEPT ![t] = x], files' \in [Path -> Data],
         r.at \in Work, r.phase # "queued", AtKnown(r, files', x, crossed)
  PROVE  FilesKnown'
<1>1. fileTask' = [fileTask EXCEPT ![t] = r] /\ saved' = [saved EXCEPT ![t] = r]
  BY DEF Persisted
<1>2. saved'[t] = r
  BY <1>1 DEF FilesKnown, TaskTypes
<1>3. SaysOf(saved'[t], r)
  BY <1>2 DEF SaysOf, AtKnown, Begun
<1> QED
  BY <1>1, <1>3, WorkStep

LEMMA MemoryStep ==
  ASSUME FilesKnown, NEW t \in FileTask, Working(t), NEW r \in Task, NEW x \in Data,
         InMemory(t, r), UNCHANGED <<chain, loading, early, crossed>>, NothingLost',
         stagingFile' = [stagingFile EXCEPT ![t] = x], files' \in [Path -> Data],
         r.at \in Work, AtKnown(r, files', x, crossed), r.operation = fileTask[t].operation,
         r.to = fileTask[t].to, r.phase = fileTask[t].phase, r.current = fileTask[t].current,
         r.at \in {"staged", "copied"} => fileTask[t].at \in {"staged", "copied"}
  PROVE  FilesKnown'
<1>1. fileTask' = [fileTask EXCEPT ![t] = r] /\ saved' = saved
  BY DEF InMemory
<1>2. SaysOf(saved[t], fileTask[t])
  BY WorkFacts
<1>3. SaysOf(saved'[t], r)
  BY <1>1, <1>2 DEF SaysOf
<1> QED
  BY <1>1, <1>3, WorkStep

LEMMA EndStep ==
  ASSUME FilesKnown, NEW t \in FileTask, Working(t), NEW r \in Task,
         Persisted(t, r), UNCHANGED <<chain, loading, early, crossed, files>>, NothingLost',
         stagingFile' = [stagingFile EXCEPT ![t] = Missing],
         r.at = "ended", r.status \in Ended
  PROVE  FilesKnown'
<1>1. fileTask' = [fileTask EXCEPT ![t] = r] /\ saved' = [saved EXCEPT ![t] = r]
  BY DEF Persisted
<1>2. files' \in [Path -> Data] /\ Missing \in Data
  BY DEF FilesKnown, TaskTypes, Data
<1> QED
  BY <1>1, <1>2, WorkStep

LEMMA SameFiles ==
  ASSUME FilesKnown, NEW t \in FileTask, UNCHANGED <<files, stagingFile, given, crossed>>
  PROVE  /\ NothingLost' /\ files' \in [Path -> Data] /\ stagingFile[t] \in Data
         /\ stagingFile' = [stagingFile EXCEPT ![t] = stagingFile[t]]
  BY DEF FilesKnown, NothingLost, TaskTypes

LEMMA RunsWorks ==
  ASSUME NEW t \in FileTask, NEW go \in Work, Runs(t, go)
  PROVE  Working(t) /\ fileTask[t].at = go /\ fileTask[t].status = "running"
  BY DEF Runs, Working

-----------------------------------------------------------------------------
(* The steps of a task, in their order. *)

LEMMA ValidatesKept ==
  ASSUME FilesKnown, NEW t \in FileTask, FileValidates(t) PROVE FilesKnown'
<1>1. Runs(t, "validate") /\ Phase(t, "mutating", "next") /\ Untouched /\ Queued
  BY DEF FileValidates
<1>2. Working(t) /\ fileTask[t].at = "validate" /\ fileTask[t].status = "running"
  BY <1>1, RunsWorks DEF Work
<1>3. PICK old \in Task : old = fileTask[t]
  BY <1>2, WorkFacts
<1>4. AtKnown(old, files, stagingFile[t], crossed)
  BY <1>2, <1>3, WorkFacts
<1>5. PICK new : new = [old EXCEPT !.phase = "mutating", !.at = "next"]
  OBVIOUS
<1>6. PICK r : r = Goes(old, "running", "mutating", "next", old.left, old.current, old.lists)
  OBVIOUS
<1>7. r = new
  BY <1>2, <1>3, <1>5, <1>6 DEF Goes, Task
<1>8. r \in Task /\ r.status = "running" /\ r.phase = "mutating" /\ r.at = "next" /\ r.left = old.left
  <2>1. "next" \in {"new", "saved", "ended"} \union Work
    BY DEF Work
  <2> QED
    BY <1>6, <2>1, FieldsOf, PlacesKnown DEF Goes, Task
<1>9. Persisted(t, r)
  BY <1>1, <1>3, <1>5, <1>7 DEF Phase
<1>10. AtKnown(r, files', stagingFile[t], crossed)
  BY <1>1, <1>2, <1>3, <1>4, <1>8 DEF AtKnown, WithDestination, WithSource, Untouched
<1> QED
  BY <1>1, <1>2, <1>8, <1>9, <1>10, SameFiles, PersistStep DEF Untouched, Queued, Work

LEMMA FailsKept ==
  ASSUME FilesKnown, NEW t \in FileTask, FileFails(t) PROVE FilesKnown'
<1>1. Working(t) /\ fileTask[t].status = "running"
  BY RunsWorks DEF FileFails, Work
<1>2. PICK old \in Task : old = fileTask[t]
  BY <1>1, WorkFacts
<1>3. AtKnown(old, files, stagingFile[t], crossed)
  BY <1>1, <1>2, WorkFacts
<1>4. PICK status \in {"cancelled", "failed"} : status = IF old.cancel THEN "cancelled" ELSE "failed"
  OBVIOUS
<1>5. PICK new : new = [old EXCEPT !.status = status, !.phase = "failed", !.at = "ended",
                                   !.lists = old.lists \ {"staging"}]
  OBVIOUS
<1>6. PICK r : r = Goes(old, status, "failed", "ended", old.left, old.current, old.lists \ {"staging"})
  OBVIOUS
<1>7. r = new
  BY <1>2, <1>5, <1>6 DEF Goes, Task
<1>8. r \in Task /\ r.status = status /\ r.at = "ended"
  BY <1>4, <1>6, FieldsOf, PlacesKnown DEF Goes, Task, Ended
<1>9. Persisted(t, r)
  BY <1>2, <1>4, <1>5, <1>7 DEF FileFails
<1>10. stagingFile' = [stagingFile EXCEPT ![t] = Missing]
  <2>1. PICK x : x = IF "staging" \in old.lists THEN Missing ELSE stagingFile[t]
    OBVIOUS
  <2>2. stagingFile' = [stagingFile EXCEPT ![t] = x]
    BY <1>2, <2>1 DEF FileFails
  <2>3. x = Missing
    BY <1>3, <2>1 DEF AtKnown
  <2> QED
    BY <2>2, <2>3
<1>11. UNCHANGED <<chain, loading, early, crossed, files, given>>
  BY DEF FileFails, Queued
<1>12. NothingLost'
  BY <1>11 DEF FilesKnown, NothingLost
<1> QED
  BY <1>1, <1>4, <1>8, <1>9, <1>10, <1>11, <1>12, EndStep DEF Ended

LEMMA SucceedsKept ==
  ASSUME FilesKnown, NEW t \in FileTask, FileSucceeds(t) PROVE FilesKnown'
<1>1. Runs(t, "next") /\ Terminal(t, "success") /\ Untouched /\ Queued
  BY DEF FileSucceeds
<1>2. Working(t) /\ fileTask[t].at = "next" /\ fileTask[t].status = "running"
  BY <1>1, RunsWorks DEF Work
<1>3. PICK old \in Task : old = fileTask[t]
  BY <1>2, WorkFacts
<1>4. AtKnown(old, files, stagingFile[t], crossed)
  BY <1>2, <1>3, WorkFacts
<1>5. PICK new : new = [old EXCEPT !.status = "success", !.phase = "success", !.at = "ended"]
  OBVIOUS
<1>6. PICK r : r = Goes(old, "success", "success", "ended", old.left, old.current, old.lists)
  OBVIOUS
<1>7. r = new
  BY <1>3, <1>5, <1>6 DEF Goes, Task
<1>8. r \in Task /\ r.status = "success" /\ r.at = "ended"
  BY <1>6, FieldsOf, PlacesKnown DEF Goes, Task, Ended
<1>9. Persisted(t, r)
  BY <1>1, <1>3, <1>5, <1>7 DEF Terminal
<1>10. stagingFile' = [stagingFile EXCEPT ![t] = Missing]
  BY <1>1, <1>2, <1>3, <1>4, SameFiles DEF AtKnown, Untouched, Queued
<1> QED
  BY <1>1, <1>2, <1>8, <1>9, <1>10, SameFiles, EndStep DEF Untouched, Queued, Ended

LEMMA ProceedsIs ==
  ASSUME FilesKnown, NEW t \in FileTask, NEW ops, Proceeds(t, ops)
  PROVE  /\ Working(t) /\ fileTask[t].at = "next" /\ fileTask[t].status = "running"
         /\ fileTask[t] \in Task /\ fileTask[t].left # <<>> /\ fileTask[t].operation \in ops
         /\ AtKnown(fileTask[t], files, stagingFile[t], crossed) /\ stagingFile[t] = Missing
         /\ Source(t) = From(fileTask[t]) /\ Destination(t) = Onto(fileTask[t])
         /\ Source(t) \in Path /\ Destination(t) \in Path
<1>1. Working(t) /\ fileTask[t].at = "next" /\ fileTask[t].status = "running"
      /\ fileTask[t].left # <<>> /\ fileTask[t].operation \in ops
  BY RunsWorks DEF Proceeds, Work
<1>2. fileTask[t] \in Task /\ AtKnown(fileTask[t], files, stagingFile[t], crossed)
  BY <1>1, WorkFacts
<1>3. Source(t) = From(fileTask[t]) /\ Destination(t) = Onto(fileTask[t])
  BY DEF Source, Destination, From, Onto
<1>4. stagingFile[t] = Missing
  BY <1>1, <1>2 DEF AtKnown
<1> QED
  BY <1>1, <1>2, <1>3, <1>4, TaskIs

LEMMA PreparesKept ==
  ASSUME FilesKnown, NEW t \in FileTask, FilePrepares(t) PROVE FilesKnown'
<1>1. Proceeds(t, {"move"}) /\ Free(t) /\ Source(t) # Destination(t) /\ Untouched /\ Queued
  BY DEF FilePrepares
<1>2. PICK old \in Task : old = fileTask[t]
  BY <1>1, ProceedsIs
<1>3. /\ Working(t) /\ old.at = "next" /\ old.status = "running" /\ old.left # <<>>
      /\ AtKnown(old, files, stagingFile[t], crossed) /\ stagingFile[t] = Missing
      /\ Source(t) = From(old) /\ Destination(t) = Onto(old) /\ From(old) \in Path
  BY <1>1, <1>2, ProceedsIs
<1>4. PICK new : new = [old EXCEPT !.current = From(old), !.phase = "move-prepared", !.at = "prepared"]
  OBVIOUS
<1>5. PICK r : r = Goes(old, "running", "move-prepared", "prepared", old.left, From(old), old.lists)
  OBVIOUS
<1>6. r = new
  BY <1>3, <1>4, <1>5 DEF Goes, Task
<1>7. r \in Task /\ r.status = "running" /\ r.phase = "move-prepared" /\ r.at = "prepared" /\ r.left = old.left
      /\ r.current = From(old) /\ r.conflict = old.conflict /\ From(r) = From(old) /\ Onto(r) = Onto(old)
      /\ r.operation = "move"
  <2>1. From(old) \in Data /\ "prepared" \in Work
    BY <1>3 DEF Data, Work
  <2>2. /\ r \in Task /\ r.status = "running" /\ r.phase = "move-prepared" /\ r.at = "prepared"
        /\ r.left = old.left /\ r.current = From(old) /\ r.conflict = old.conflict /\ r.to = old.to
        /\ r.operation = old.operation
    BY <1>5, <2>1, FieldsOf, PlacesKnown DEF Goes, Task
  <2>3. old.operation = "move"
    BY <1>1, <1>2, ProceedsIs
  <2> QED
    BY <2>2, <2>3 DEF From, Onto
<1>8. Persisted(t, r)
  BY <1>2, <1>3, <1>4, <1>6 DEF FilePrepares
<1>9. AtKnown(r, files', stagingFile[t], crossed)
  BY <1>1, <1>2, <1>3, <1>7 DEF AtKnown, Untouched, Free, Task
<1> QED
  BY <1>1, <1>3, <1>7, <1>8, <1>9, SameFiles, PersistStep DEF Untouched, Queued, Work

LEMMA RunsIs ==
  ASSUME FilesKnown, NEW t \in FileTask, NEW go \in WithSource, Runs(t, go)
  PROVE  /\ Working(t) /\ fileTask[t].at = go /\ fileTask[t].status = "running"
         /\ fileTask[t] \in Task /\ fileTask[t].left # <<>>
         /\ AtKnown(fileTask[t], files, stagingFile[t], crossed)
         /\ Source(t) = From(fileTask[t]) /\ Destination(t) = Onto(fileTask[t])
         /\ Source(t) \in Path /\ Destination(t) \in Path
<1>1. Working(t) /\ fileTask[t].at = go /\ fileTask[t].status = "running"
  BY RunsWorks DEF WithSource
<1>2. fileTask[t] \in Task /\ AtKnown(fileTask[t], files, stagingFile[t], crossed)
  BY <1>1, WorkFacts
<1>3. Source(t) = From(fileTask[t]) /\ Destination(t) = Onto(fileTask[t])
  BY DEF Source, Destination, From, Onto
<1>4. fileTask[t].left # <<>>
  BY <1>1, <1>2 DEF AtKnown
<1> QED
  BY <1>1, <1>2, <1>3, <1>4, TaskIs

(* Only another place in memory. *)
LEMMA GoesTo ==
  ASSUME NEW old \in Task, old.status = "running", old.left # <<>>, NEW go \in Work
  PROVE  \E r \in Task : /\ r = [old EXCEPT !.at = go] /\ r.at = go
                         /\ r.status = "running" /\ r.left = old.left /\ r.operation = old.operation
                         /\ r.to = old.to /\ r.phase = old.phase /\ r.current = old.current
                         /\ r.lists = old.lists /\ r.conflict = old.conflict
                         /\ From(r) = From(old) /\ Onto(r) = Onto(old)
<1>1. PICK new : new = [old EXCEPT !.at = go]
  OBVIOUS
<1>2. PICK r : r = Goes(old, "running", old.phase, go, old.left, old.current, old.lists)
  OBVIOUS
<1>3. r = new
  BY <1>1, <1>2 DEF Goes, Task
<1>4. /\ r \in Task /\ r.at = go /\ r.status = "running" /\ r.left = old.left /\ r.operation = old.operation
      /\ r.to = old.to /\ r.phase = old.phase /\ r.current = old.current
      /\ r.lists = old.lists /\ r.conflict = old.conflict
  <2>1. PICK phase \in Phases, left \in Seq(Path), current \in Data, lists \in SUBSET {"staging", "hidden"} :
          phase = old.phase /\ left = old.left /\ current = old.current /\ lists = old.lists
    BY FieldsOf
  <2>2. go \in {"new", "saved", "ended"} \union Work /\ "running" \in {"queued", "running"} \union Ended
    OBVIOUS
  <2>3. r = Goes(old, "running", phase, go, left, current, lists)
    BY <1>2, <2>1
  <2>4. /\ r \in Task /\ r.at = go /\ r.status = "running" /\ r.left = left /\ r.operation = old.operation
        /\ r.to = old.to /\ r.phase = phase /\ r.current = current
        /\ r.lists = lists /\ r.conflict = old.conflict
    BY <2>2, <2>3 DEF Goes, Task
  <2> QED
    BY <2>1, <2>4
<1>5. From(r) = From(old) /\ Onto(r) = Onto(old)
  BY <1>4 DEF From, Onto
<1> QED
  BY <1>1, <1>3, <1>4, <1>5

LEMMA ClearsKept ==
  ASSUME FilesKnown, NEW t \in FileTask, FileClears(t) PROVE FilesKnown'
<1>1. PICK go \in {"prepared", "copied"} : Runs(t, go)
  BY DEF FileClears
<1>2. PICK old \in Task : old = fileTask[t]
  BY <1>1, RunsIs DEF WithSource, Work
<1>3. /\ Working(t) /\ old.at = go /\ old.status = "running" /\ old.left # <<>>
      /\ AtKnown(old, files, stagingFile[t], crossed)
      /\ Source(t) = From(old) /\ Destination(t) = Onto(old) /\ From(old) \in Path /\ Onto(old) \in Path
  BY <1>1, <1>2, RunsIs DEF WithSource, Work
<1>4. PICK to \in {"cleared", "copied"} : to = IF old.at = "prepared" THEN "cleared" ELSE "copied"
  OBVIOUS
<1>5. PICK r \in Task : /\ r = [old EXCEPT !.at = to] /\ r.at = to
                        /\ r.status = "running" /\ r.left = old.left /\ r.operation = old.operation
                        /\ r.to = old.to /\ r.phase = old.phase /\ r.current = old.current
                        /\ r.lists = old.lists /\ r.conflict = old.conflict
                        /\ From(r) = From(old) /\ Onto(r) = Onto(old)
  <2>1. to \in Work
    BY DEF Work
  <2> QED
    BY <1>3, <2>1, GoesTo
<1>6. InMemory(t, r)
  BY <1>2, <1>4, <1>5 DEF FileClears
<1>7. /\ files' = [files EXCEPT ![Onto(old)] = Missing] /\ given' = given \union {files[Onto(old)]}
      /\ UNCHANGED <<chain, loading, early, crossed, stagingFile>> /\ old.conflict = "overwrite"
  BY <1>2, <1>3 DEF FileClears, Queued
<1>8. files \in [Path -> Data] /\ stagingFile[t] \in Data
      /\ stagingFile' = [stagingFile EXCEPT ![t] = stagingFile[t]]
  BY <1>7 DEF FilesKnown, TaskTypes
<1>9. files' \in [Path -> Data] /\ files'[Onto(old)] = Missing
      /\ \A p \in Path : p # Onto(old) => files'[p] = files[p]
  BY <1>3, <1>7, <1>8 DEF Data
<1>10. NothingLost'
  BY <1>3, <1>7, <1>9 DEF FilesKnown, NothingLost
<1>11. From(old) # Onto(old) /\ old.current = From(old) /\ old.operation # "delete"
  BY <1>1, <1>3 DEF AtKnown, WithDestination, WithSource, Work
<1>12. AtKnown(r, files', stagingFile[t], crossed)
  BY <1>1, <1>3, <1>4, <1>5, <1>7, <1>9, <1>11 DEF AtKnown
<1>13. r.at \in Work /\ (r.at \in {"staged", "copied"} => old.at \in {"staged", "copied"})
  BY <1>1, <1>3, <1>4, <1>5 DEF Work
<1>14. /\ r.operation = fileTask[t].operation /\ r.to = fileTask[t].to /\ r.phase = fileTask[t].phase
       /\ r.current = fileTask[t].current
       /\ (r.at \in {"staged", "copied"} => fileTask[t].at \in {"staged", "copied"})
  BY <1>2, <1>5, <1>13
<1> QED
  BY <1>3, <1>6, <1>7, <1>8, <1>9, <1>10, <1>12, <1>13, <1>14, MemoryStep

LEMMA MovesKept ==
  ASSUME FilesKnown, NEW t \in FileTask, FileMoves(t) PROVE FilesKnown'
<1>1. PICK go \in {"prepared", "cleared"} : Runs(t, go)
  BY DEF FileMoves, Cleared
<1>2. PICK old \in Task : old = fileTask[t]
  BY <1>1, RunsIs DEF WithSource, Work
<1>3. /\ Working(t) /\ old.at = go /\ old.status = "running" /\ old.left # <<>>
      /\ AtKnown(old, files, stagingFile[t], crossed)
      /\ Source(t) = From(old) /\ Destination(t) = Onto(old) /\ From(old) \in Path /\ Onto(old) \in Path
  BY <1>1, <1>2, RunsIs DEF WithSource, Work
<1>4. PICK r \in Task : /\ r = [old EXCEPT !.at = "moved"] /\ r.at = "moved"
                        /\ r.status = "running" /\ r.left = old.left /\ r.operation = old.operation
                        /\ r.to = old.to /\ r.phase = old.phase /\ r.current = old.current
                        /\ r.lists = old.lists /\ r.conflict = old.conflict
                        /\ From(r) = From(old) /\ Onto(r) = Onto(old)
  <2>1. "moved" \in Work
    BY DEF Work
  <2> QED
    BY <1>3, <2>1, GoesTo
<1>5. InMemory(t, r) /\ r.at \in Work
  BY <1>2, <1>4 DEF FileMoves, Work
<1>6. /\ files' = [files EXCEPT ![Onto(old)] = files[From(old)], ![From(old)] = Missing]
      /\ UNCHANGED <<chain, loading, early, crossed, stagingFile, given>>
  BY <1>3 DEF FileMoves, Queued
<1>7. files \in [Path -> Data] /\ stagingFile[t] \in Data
      /\ stagingFile' = [stagingFile EXCEPT ![t] = stagingFile[t]]
  BY <1>6 DEF FilesKnown, TaskTypes
<1>8. From(old) # Onto(old) /\ files[Onto(old)] = Missing /\ stagingFile[t] = Missing
      /\ old.current = From(old) /\ old.phase # "destination-committed" /\ old.operation # "delete"
  <2>1. CASE go = "cleared"
    BY <1>3, <2>1 DEF AtKnown, WithDestination, WithSource, Work
  <2>2. CASE go = "prepared"
    <3>1. old.conflict = "reject" \/ files[Onto(old)] = Missing
      BY <1>2, <1>3, <2>2 DEF FileMoves, Cleared, Runs
    <3> QED
      BY <1>3, <2>2, <3>1 DEF AtKnown, WithDestination, WithSource, Work
  <2> QED
    BY <2>1, <2>2
<1>9. files' \in [Path -> Data] /\ files'[From(old)] = Missing /\ files'[Onto(old)] = files[From(old)]
      /\ \A p \in Path : p # Onto(old) /\ p # From(old) => files'[p] = files[p]
  BY <1>3, <1>6, <1>7, <1>8 DEF Data
<1>10. NothingLost'
  <2> SUFFICES ASSUME NEW p \in Existing, p \notin given \union crossed PROVE \E q \in Path : files'[q] = p
    BY <1>6 DEF NothingLost
  <2>1. PICK q \in Path : files[q] = p
    BY DEF FilesKnown, NothingLost
  <2>2. q # Onto(old)
    BY <1>8, <2>1, FileAssumption
  <2> QED
    BY <1>3, <1>9, <2>1, <2>2
<1>11. AtKnown(r, files', stagingFile[t], crossed)
  BY <1>3, <1>4, <1>8, <1>9 DEF AtKnown
<1>12. /\ r.operation = fileTask[t].operation /\ r.to = fileTask[t].to /\ r.phase = fileTask[t].phase
       /\ r.current = fileTask[t].current /\ r.at \notin {"staged", "copied"}
  BY <1>2, <1>4
<1> QED
  BY <1>3, <1>5, <1>6, <1>7, <1>9, <1>10, <1>11, <1>12, MemoryStep

LEMMA StagesKept ==
  ASSUME FilesKnown, NEW t \in FileTask, FileStages(t) PROVE FilesKnown'
<1>1. /\ Untouched /\ Queued
      /\ Persisted(t, [fileTask[t] EXCEPT !.lists = @ \union {"staging"}, !.current = Source(t), !.at = "staged"])
      /\ \/ Cleared(t, "prepared") \/ (Proceeds(t, {"copy"}) /\ Free(t) /\ Source(t) # Destination(t))
  BY DEF FileStages
<1>2. /\ fileTask[t] \in Task /\ Working(t) /\ fileTask[t].status = "running"
      /\ fileTask[t].left # <<>> /\ Source(t) = From(fileTask[t]) /\ Source(t) \in Path
      /\ AtKnown(fileTask[t], files, stagingFile[t], crossed) /\ stagingFile[t] = Missing
      /\ From(fileTask[t]) # Onto(fileTask[t]) /\ fileTask[t].operation # "delete"
      /\ (fileTask[t].conflict = "reject" => files[Onto(fileTask[t])] = Missing)
      /\ fileTask[t].at # "committed"
  <2>1. CASE Runs(t, "prepared")
    BY <2>1, RunsIs DEF AtKnown, WithDestination, WithSource, Work
  <2>2. CASE Runs(t, "cleared")
    BY <2>2, RunsIs DEF AtKnown, WithDestination, WithSource, Work
  <2>3. CASE Proceeds(t, {"copy"}) /\ Free(t) /\ Source(t) # Destination(t)
    <3>1. fileTask[t].conflict \in {"reject", "overwrite"}
      BY <2>3, ProceedsIs, FieldsOf
    <3> QED
      BY <2>3, <3>1, ProceedsIs DEF Free
  <2> QED
    BY <1>1, <2>1, <2>2, <2>3 DEF Cleared
<1>3. PICK old \in Task : old = fileTask[t]
  BY <1>2
<1>4. old.phase \notin {"queued", "destination-committed"}
  <2>1. SaysOf(saved[t], fileTask[t])
    BY <1>2, WorkFacts
  <2> QED
    BY <1>2, <1>3, <2>1 DEF AtKnown, SaysOf, Begun
<1>5. PICK new : new = [old EXCEPT !.lists = old.lists \union {"staging"}, !.current = From(old),
                                   !.at = "staged"]
  OBVIOUS
<1>6. PICK r : r = Goes(old, "running", old.phase, "staged", old.left, From(old), old.lists \union {"staging"})
  OBVIOUS
<1>7. r = new
  BY <1>2, <1>3, <1>5, <1>6 DEF Goes, Task
<1>8. /\ r \in Task /\ r.status = "running" /\ r.phase = old.phase /\ r.at = "staged"
      /\ r.left = old.left /\ r.current = From(old) /\ r.conflict = old.conflict /\ r.to = old.to
      /\ r.operation = old.operation /\ r.lists = old.lists \union {"staging"}
  <2>1. PICK phase \in Phases, left \in Seq(Path), current \in Data, lists \in SUBSET {"staging", "hidden"} :
          phase = old.phase /\ left = old.left /\ current = From(old) /\ lists = old.lists \union {"staging"}
    BY <1>2, <1>3, FieldsOf DEF Data
  <2>2. "staged" \in {"new", "saved", "ended"} \union Work
    BY DEF Work
  <2>3. r = Goes(old, "running", phase, "staged", left, current, lists)
    BY <1>6, <2>1
  <2>4. /\ r \in Task /\ r.at = "staged" /\ r.status = "running" /\ r.left = left /\ r.operation = old.operation
        /\ r.to = old.to /\ r.phase = phase /\ r.current = current
        /\ r.lists = lists /\ r.conflict = old.conflict
    BY <2>2, <2>3 DEF Goes, Task
  <2> QED
    BY <2>1, <2>4
<1>9. From(r) = From(old) /\ Onto(r) = Onto(old)
  BY <1>8 DEF From, Onto
<1>10. Persisted(t, r)
  BY <1>1, <1>2, <1>3, <1>5, <1>7
<1>11. files' = files
  BY <1>1 DEF Untouched
<1>12. AtKnown(r, files', stagingFile[t], crossed)
  BY <1>2, <1>3, <1>4, <1>8, <1>9, <1>11 DEF AtKnown
<1>13. r.at \in Work
  BY <1>8 DEF Work
<1> QED
  BY <1>1, <1>2, <1>4, <1>8, <1>10, <1>12, <1>13, SameFiles, PersistStep DEF Untouched, Queued

LEMMA CopiesKept ==
  ASSUME FilesKnown, NEW t \in FileTask, FileCopies(t) PROVE FilesKnown'
<1>1. Runs(t, "staged")
  BY DEF FileCopies
<1>2. PICK old \in Task : old = fileTask[t]
  BY <1>1, RunsIs DEF WithSource, Work
<1>3. /\ Working(t) /\ old.at = "staged" /\ old.status = "running" /\ old.left # <<>>
      /\ AtKnown(old, files, stagingFile[t], crossed) /\ Source(t) = From(old) /\ From(old) \in Path
  BY <1>1, <1>2, RunsIs DEF WithSource, Work
<1>4. PICK r \in Task : /\ r = [old EXCEPT !.at = "copied"] /\ r.at = "copied"
                        /\ r.status = "running" /\ r.left = old.left /\ r.operation = old.operation
                        /\ r.to = old.to /\ r.phase = old.phase /\ r.current = old.current
                        /\ r.lists = old.lists /\ r.conflict = old.conflict
                        /\ From(r) = From(old) /\ Onto(r) = Onto(old)
  <2>1. "copied" \in Work
    BY DEF Work
  <2> QED
    BY <1>3, <2>1, GoesTo
<1>5. InMemory(t, r) /\ r.at \in Work
  BY <1>2, <1>4 DEF FileCopies, Work
<1>6. UNCHANGED <<chain, loading, early, crossed, files, given>>
      /\ stagingFile' = [stagingFile EXCEPT ![t] = files[From(old)]]
  BY <1>3 DEF FileCopies, Queued
<1>7. files' \in [Path -> Data] /\ files[From(old)] \in Data /\ NothingLost'
  BY <1>3, <1>6 DEF FilesKnown, TaskTypes, NothingLost
<1>8. AtKnown(r, files', files[From(old)], crossed)
  BY <1>3, <1>4, <1>6 DEF AtKnown, WithDestination, WithSource, Work
<1>9. /\ r.operation = fileTask[t].operation /\ r.to = fileTask[t].to /\ r.phase = fileTask[t].phase
      /\ r.current = fileTask[t].current /\ fileTask[t].at \in {"staged", "copied"}
  BY <1>2, <1>3, <1>4
<1> QED
  BY <1>3, <1>5, <1>6, <1>7, <1>8, <1>9, MemoryStep

LEMMA PublishesKept ==
  ASSUME FilesKnown, NEW t \in FileTask, FilePublishes(t) PROVE FilesKnown'
<1>1. Runs(t, "copied") /\ (fileTask[t].conflict = "reject" \/ files[Destination(t)] = Missing)
  BY DEF FilePublishes, Cleared
<1>2. PICK old \in Task : old = fileTask[t]
  BY <1>1, RunsIs DEF WithSource, Work
<1>3. /\ Working(t) /\ old.at = "copied" /\ old.status = "running" /\ old.left # <<>>
      /\ AtKnown(old, files, stagingFile[t], crossed)
      /\ Source(t) = From(old) /\ Destination(t) = Onto(old) /\ From(old) \in Path /\ Onto(old) \in Path
  BY <1>1, <1>2, RunsIs DEF WithSource, Work
<1>4. /\ files[Onto(old)] = Missing /\ From(old) # Onto(old)
      /\ (files[From(old)] = Missing \/ files[From(old)] = stagingFile[t])
      /\ old.current = From(old) /\ old.phase # "destination-committed" /\ old.operation # "delete"
  BY <1>1, <1>2, <1>3 DEF AtKnown, WithDestination, WithSource, Work
<1>5. PICK new : new = [old EXCEPT !.lists = old.lists \ {"staging"}, !.at = "published"]
  OBVIOUS
<1>6. PICK r : r = Goes(old, "running", old.phase, "published", old.left, old.current, old.lists \ {"staging"})
  OBVIOUS
<1>7. r = new
  BY <1>2, <1>3, <1>5, <1>6 DEF Goes, Task
<1>8. /\ r \in Task /\ r.status = "running" /\ r.phase = old.phase /\ r.at = "published"
      /\ r.left = old.left /\ r.current = old.current /\ r.to = old.to /\ r.operation = old.operation
  <2>1. PICK phase \in Phases, left \in Seq(Path), current \in Data, lists \in SUBSET {"staging", "hidden"} :
          phase = old.phase /\ left = old.left /\ current = old.current /\ lists = old.lists \ {"staging"}
    BY <1>2, FieldsOf
  <2>2. "published" \in {"new", "saved", "ended"} \union Work
    BY DEF Work
  <2>3. r = Goes(old, "running", phase, "published", left, current, lists)
    BY <1>6, <2>1
  <2>4. /\ r \in Task /\ r.at = "published" /\ r.status = "running" /\ r.left = left
        /\ r.operation = old.operation /\ r.to = old.to /\ r.phase = phase /\ r.current = current
    BY <2>2, <2>3, <1>2 DEF Goes, Task
  <2> QED
    BY <2>1, <2>4
<1>9. From(r) = From(old) /\ Onto(r) = Onto(old) /\ r.at \in Work
  BY <1>8 DEF From, Onto, Work
<1>10. InMemory(t, r)
  BY <1>2, <1>5, <1>7 DEF FilePublishes
<1>11. /\ files' = [files EXCEPT ![Onto(old)] = stagingFile[t]] /\ stagingFile[t] \in Data
       /\ stagingFile' = [stagingFile EXCEPT ![t] = Missing] /\ UNCHANGED <<chain, loading, early, crossed, given>>
  BY <1>3, <1>4 DEF FilePublishes, Queued, FilesKnown, TaskTypes
<1>12. files' \in [Path -> Data] /\ files'[From(old)] = files[From(old)] /\ files'[Onto(old)] = stagingFile[t]
       /\ Missing \in Data /\ \A p \in Path : p # Onto(old) => files'[p] = files[p]
  BY <1>3, <1>4, <1>11 DEF FilesKnown, TaskTypes, Data
<1>13. NothingLost'
  <2> SUFFICES ASSUME NEW p \in Existing, p \notin given \union crossed PROVE \E q \in Path : files'[q] = p
    BY <1>11 DEF NothingLost
  <2>1. PICK q \in Path : files[q] = p
    BY DEF FilesKnown, NothingLost
  <2>2. q # Onto(old)
    BY <1>4, <2>1, FileAssumption
  <2> QED
    BY <1>12, <2>1, <2>2
<1>14. AtKnown(r, files', Missing, crossed)
  BY <1>3, <1>4, <1>8, <1>9, <1>12 DEF AtKnown, WithDestination, WithSource, Work
<1>15. /\ r.operation = fileTask[t].operation /\ r.to = fileTask[t].to /\ r.phase = fileTask[t].phase
       /\ r.current = fileTask[t].current /\ r.at \notin {"staged", "copied"}
  BY <1>2, <1>8
<1> QED
  BY <1>3, <1>8, <1>9, <1>10, <1>11, <1>12, <1>13, <1>14, <1>15, MemoryStep

LEMMA CommitsKept ==
  ASSUME FilesKnown, NEW t \in FileTask, FileCommits(t) PROVE FilesKnown'
<1>1. PICK go \in {"moved", "published"} : Runs(t, go)
  BY DEF FileCommits
<1>2. PICK old \in Task : old = fileTask[t]
  BY <1>1, RunsIs DEF WithSource, Work
<1>3. /\ Working(t) /\ old.at = go /\ old.status = "running" /\ old.left # <<>>
      /\ AtKnown(old, files, stagingFile[t], crossed)
  BY <1>1, <1>2, RunsIs DEF WithSource, Work
<1>4. PICK phase \in {"destination-committed", "mutating"} :
        phase = IF old.operation = "move" THEN "destination-committed" ELSE "mutating"
  OBVIOUS
<1>5. PICK new : new = [old EXCEPT !.phase = phase, !.at = "committed"]
  OBVIOUS
<1>6. PICK r : r = Goes(old, "running", phase, "committed", old.left, old.current, old.lists)
  OBVIOUS
<1>7. r = new
  BY <1>2, <1>3, <1>5, <1>6 DEF Goes, Task
<1>8. /\ r \in Task /\ r.status = "running" /\ r.phase = phase /\ r.at = "committed"
      /\ r.left = old.left /\ r.current = old.current /\ r.to = old.to /\ r.operation = old.operation
  <2>1. PICK left \in Seq(Path), current \in Data, lists \in SUBSET {"staging", "hidden"} :
          left = old.left /\ current = old.current /\ lists = old.lists
    BY <1>2, FieldsOf
  <2>2. "committed" \in {"new", "saved", "ended"} \union Work /\ phase \in Phases
    BY DEF Work, Phases
  <2>3. r = Goes(old, "running", phase, "committed", left, current, lists)
    BY <1>6, <2>1
  <2>4. /\ r \in Task /\ r.at = "committed" /\ r.status = "running" /\ r.left = left
        /\ r.operation = old.operation /\ r.to = old.to /\ r.phase = phase /\ r.current = current
    BY <2>2, <2>3 DEF Goes, Task
  <2> QED
    BY <2>1, <2>4
<1>9. From(r) = From(old) /\ Onto(r) = Onto(old) /\ r.at \in Work /\ r.phase # "queued"
  BY <1>4, <1>8 DEF From, Onto, Work
<1>10. Persisted(t, r) /\ Untouched /\ Queued
  BY <1>2, <1>4, <1>5, <1>7 DEF FileCommits, Phase
<1>11. AtKnown(r, files', stagingFile[t], crossed)
  BY <1>1, <1>3, <1>8, <1>9, <1>10 DEF AtKnown, WithDestination, WithSource, Work, Untouched
<1> QED
  BY <1>3, <1>8, <1>9, <1>10, <1>11, SameFiles, PersistStep DEF Untouched, Queued

LEMMA RemovesSourceKept ==
  ASSUME FilesKnown, NEW t \in FileTask, FileRemovesSource(t) PROVE FilesKnown'
<1>1. Runs(t, "committed")
  BY DEF FileRemovesSource
<1>2. PICK old \in Task : old = fileTask[t]
  BY <1>1, RunsIs DEF WithSource, Work
<1>3. /\ Working(t) /\ old.at = "committed" /\ old.status = "running" /\ old.left # <<>>
      /\ AtKnown(old, files, stagingFile[t], crossed) /\ SaysOf(saved[t], old)
      /\ Source(t) = From(old) /\ From(old) \in Path /\ Onto(old) \in Path
  BY <1>1, <1>2, RunsIs, WorkFacts DEF WithSource, Work
<1>4. From(old) # Onto(old) /\ stagingFile[t] = Missing
  BY <1>3 DEF AtKnown, WithDestination, WithSource, Work
<1>5. /\ files' = [files EXCEPT ![From(old)] = Missing] /\ files[From(old)] # Missing
      /\ UNCHANGED <<fileTask, saved, stagingFile, given, chain, loading, early, crossed>>
  BY <1>3 DEF FileRemovesSource, Queued
<1>6. fileTask' = [fileTask EXCEPT ![t] = old] /\ stagingFile' = [stagingFile EXCEPT ![t] = Missing]
  BY <1>2, <1>4, <1>5 DEF FilesKnown, TaskTypes
<1>7. files' \in [Path -> Data] /\ files'[From(old)] = Missing /\ Missing \in Data
      /\ \A p \in Path : p # From(old) => files'[p] = files[p]
  BY <1>3, <1>5 DEF FilesKnown, TaskTypes, Data
<1>8. NothingLost'
  <2> SUFFICES ASSUME NEW p \in Existing, p \notin given \union crossed PROVE \E q \in Path : files'[q] = p
    BY <1>5 DEF NothingLost
  <2>1. PICK q \in Path : files[q] = p
    BY DEF FilesKnown, NothingLost
  <2>2. files[Onto(old)] = files[From(old)] \/ files[From(old)] \in crossed
    BY <1>3, <1>5 DEF AtKnown
  <2>3. p \notin crossed
    BY <1>5
  <2> QED
    BY <1>3, <1>4, <1>7, <2>1, <2>2, <2>3
<1>9. AtKnown(old, files', Missing, crossed)
  BY <1>3, <1>4, <1>7 DEF AtKnown
<1>10. SaysOf(saved'[t], old) /\ old.at \in Work
  BY <1>3, <1>5 DEF Work
<1>11. (saved' = saved \/ saved' = [saved EXCEPT ![t] = old]) /\ UNCHANGED <<chain, loading, early, crossed>>
  BY <1>5
<1>12. \/ old.at \in Work /\ AtKnown(old, files', Missing, crossed) /\ SaysOf(saved'[t], old)
       \/ old.at = "ended" /\ saved' = [saved EXCEPT ![t] = old] /\ old.status \in Ended /\ Missing = Missing
  BY <1>9, <1>10
<1> QED
  BY <1>3, <1>6, <1>7, <1>8, <1>11, <1>12, WorkStep

LEMMA ContinuesKept ==
  ASSUME FilesKnown, NEW t \in FileTask, FileGoesOn(t) PROVE FilesKnown'
<1>1. Runs(t, "committed")
  BY DEF FileGoesOn
<1>2. PICK old \in Task : old = fileTask[t]
  BY <1>1, RunsIs DEF WithSource, Work
<1>3. /\ Working(t) /\ old.at = "committed" /\ old.status = "running" /\ old.left # <<>>
      /\ AtKnown(old, files, stagingFile[t], crossed)
  BY <1>1, <1>2, RunsIs DEF WithSource, Work
<1>4. PICK left : left = Tail(old.left)
  OBVIOUS
<1>5. left \in Seq(Path)
  BY <1>3, <1>4, FieldsOf
<1>6. PICK new : new = [old EXCEPT !.current = Missing, !.left = left, !.phase = "mutating", !.at = "next"]
  OBVIOUS
<1>7. PICK r : r = Goes(old, "running", "mutating", "next", left, Missing, old.lists)
  OBVIOUS
<1>8. r = new
  BY <1>2, <1>3, <1>6, <1>7 DEF Goes, Task
<1>9. r \in Task /\ r.status = "running" /\ r.phase = "mutating" /\ r.at = "next"
  <2>1. PICK lists \in SUBSET {"staging", "hidden"} : lists = old.lists
    BY FieldsOf
  <2>2. "next" \in {"new", "saved", "ended"} \union Work /\ Missing \in Data /\ "mutating" \in Phases
    BY DEF Work, Data, Phases
  <2>3. r = Goes(old, "running", "mutating", "next", left, Missing, lists)
    BY <1>7, <2>1
  <2> QED
    BY <1>5, <2>2, <2>3 DEF Goes, Task
<1>10. Persisted(t, r) /\ Untouched /\ Queued /\ r.at \in Work
  BY <1>2, <1>4, <1>6, <1>8, <1>9 DEF FileGoesOn, Work
<1>11. AtKnown(r, files', stagingFile[t], crossed)
  BY <1>3, <1>9, <1>10 DEF AtKnown, WithDestination, WithSource, Untouched
<1> QED
  BY <1>3, <1>9, <1>10, <1>11, SameFiles, PersistStep DEF Untouched, Queued

LEMMA HidesKept ==
  ASSUME FilesKnown, NEW t \in FileTask, FileHides(t) PROVE FilesKnown'
<1>1. Proceeds(t, {"delete"})
  BY DEF FileHides
<1>2. PICK old \in Task : old = fileTask[t]
  BY <1>1, ProceedsIs
<1>3. /\ Working(t) /\ old.at = "next" /\ old.status = "running" /\ old.left # <<>>
      /\ AtKnown(old, files, stagingFile[t], crossed) /\ stagingFile[t] = Missing
      /\ Source(t) = From(old) /\ From(old) \in Path
  BY <1>1, <1>2, ProceedsIs
<1>4. PICK r \in Task : /\ r = [old EXCEPT !.at = "hidden"] /\ r.at = "hidden"
                        /\ r.status = "running" /\ r.left = old.left /\ r.operation = old.operation
                        /\ r.to = old.to /\ r.phase = old.phase /\ r.current = old.current
                        /\ r.lists = old.lists /\ r.conflict = old.conflict
                        /\ From(r) = From(old) /\ Onto(r) = Onto(old)
  <2>1. "hidden" \in Work
    BY DEF Work
  <2> QED
    BY <1>3, <2>1, GoesTo
<1>5. InMemory(t, r) /\ r.at \in Work
  BY <1>2, <1>4 DEF FileHides, Work
<1>6. /\ files' = [files EXCEPT ![From(old)] = Missing] /\ given' = given \union {files[From(old)]}
      /\ UNCHANGED <<chain, loading, early, crossed, stagingFile>>
  BY <1>3 DEF FileHides, Queued
<1>7. /\ files' \in [Path -> Data] /\ Missing \in Data
      /\ stagingFile' = [stagingFile EXCEPT ![t] = Missing]
      /\ \A p \in Path : p # From(old) => files'[p] = files[p]
  BY <1>3, <1>6 DEF FilesKnown, TaskTypes, Data
<1>8. NothingLost'
  BY <1>3, <1>6, <1>7 DEF FilesKnown, NothingLost
<1>9. AtKnown(r, files', Missing, crossed)
  BY <1>3, <1>4 DEF AtKnown, WithDestination, WithSource, Work
<1>10. /\ r.operation = fileTask[t].operation /\ r.to = fileTask[t].to /\ r.phase = fileTask[t].phase
       /\ r.current = fileTask[t].current /\ r.at \notin {"staged", "copied"}
  BY <1>2, <1>4
<1> QED
  BY <1>3, <1>5, <1>6, <1>7, <1>8, <1>9, <1>10, MemoryStep

LEMMA MarksKept ==
  ASSUME FilesKnown, NEW t \in FileTask, FileMarks(t) PROVE FilesKnown'
<1>1. Runs(t, "hidden")
  BY DEF FileMarks
<1>2. PICK old \in Task : old = fileTask[t]
  BY <1>1, RunsIs DEF WithSource, Work
<1>3. /\ Working(t) /\ old.at = "hidden" /\ old.status = "running" /\ old.left # <<>>
      /\ AtKnown(old, files, stagingFile[t], crossed)
  BY <1>1, <1>2, RunsIs DEF WithSource, Work
<1>4. PICK new : new = [old EXCEPT !.lists = {"hidden"}, !.phase = "source-hidden", !.at = "marked"]
  OBVIOUS
<1>5. PICK r : r = Goes(old, "running", "source-hidden", "marked", old.left, old.current, {"hidden"})
  OBVIOUS
<1>6. r = new
  BY <1>2, <1>3, <1>4, <1>5 DEF Goes, Task
<1>7. r \in Task /\ r.status = "running" /\ r.phase = "source-hidden" /\ r.at = "marked" /\ r.left = old.left
  <2>1. PICK left \in Seq(Path), current \in Data : left = old.left /\ current = old.current
    BY FieldsOf
  <2>2. "marked" \in {"new", "saved", "ended"} \union Work /\ "source-hidden" \in Phases
        /\ {"hidden"} \in SUBSET {"staging", "hidden"}
    BY DEF Work, Phases
  <2>3. r = Goes(old, "running", "source-hidden", "marked", left, current, {"hidden"})
    BY <1>5, <2>1
  <2>4. r \in Task /\ r.status = "running" /\ r.phase = "source-hidden" /\ r.at = "marked" /\ r.left = left
    BY <2>2, <2>3 DEF Goes, Task
  <2> QED
    BY <2>1, <2>4
<1>8. Persisted(t, r) /\ Untouched /\ Queued /\ r.at \in Work
  BY <1>2, <1>4, <1>6, <1>7 DEF FileMarks, Work
<1>9. AtKnown(r, files', stagingFile[t], crossed)
  BY <1>3, <1>7 DEF AtKnown, WithDestination, WithSource, Work
<1> QED
  BY <1>3, <1>7, <1>8, <1>9, SameFiles, PersistStep DEF Untouched, Queued

LEMMA ErasesKept ==
  ASSUME FilesKnown, NEW t \in FileTask, FileErases(t) PROVE FilesKnown'
<1>1. Runs(t, "marked")
  BY DEF FileErases
<1>2. PICK old \in Task : old = fileTask[t]
  BY <1>1, RunsIs DEF WithSource, Work
<1>3. /\ Working(t) /\ old.at = "marked" /\ old.status = "running" /\ old.left # <<>>
      /\ AtKnown(old, files, stagingFile[t], crossed)
  BY <1>1, <1>2, RunsIs DEF WithSource, Work
<1>4. PICK new : new = [old EXCEPT !.lists = {}, !.at = "erased"]
  OBVIOUS
<1>5. PICK r : r = Goes(old, "running", old.phase, "erased", old.left, old.current, {})
  OBVIOUS
<1>6. r = new
  BY <1>2, <1>3, <1>4, <1>5 DEF Goes, Task
<1>7. /\ r \in Task /\ r.status = "running" /\ r.phase = old.phase /\ r.at = "erased" /\ r.left = old.left
      /\ r.operation = old.operation /\ r.to = old.to /\ r.current = old.current
  <2>1. PICK phase \in Phases, left \in Seq(Path), current \in Data :
          phase = old.phase /\ left = old.left /\ current = old.current
    BY FieldsOf
  <2>2. "erased" \in {"new", "saved", "ended"} \union Work /\ {} \in SUBSET {"staging", "hidden"}
    BY DEF Work
  <2>3. r = Goes(old, "running", phase, "erased", left, current, {})
    BY <1>5, <2>1
  <2>4. /\ r \in Task /\ r.status = "running" /\ r.phase = phase /\ r.at = "erased" /\ r.left = left
        /\ r.operation = old.operation /\ r.to = old.to /\ r.current = current
    BY <2>2, <2>3 DEF Goes, Task
  <2> QED
    BY <2>1, <2>4
<1>8. InMemory(t, r) /\ r.at \in Work /\ UNCHANGED <<chain, loading, early, crossed, files, stagingFile, given>>
  BY <1>2, <1>4, <1>6, <1>7 DEF FileErases, Queued, Work
<1>9. AtKnown(r, files', stagingFile[t], crossed)
  BY <1>3, <1>7 DEF AtKnown, WithDestination, WithSource, Work
<1>10. /\ r.operation = fileTask[t].operation /\ r.to = fileTask[t].to /\ r.phase = fileTask[t].phase
       /\ r.current = fileTask[t].current /\ r.at \notin {"staged", "copied"}
  BY <1>2, <1>7
<1> QED
  BY <1>3, <1>7, <1>8, <1>9, <1>10, SameFiles, MemoryStep

LEMMA CleansKept ==
  ASSUME FilesKnown, NEW t \in FileTask, FileCleans(t) PROVE FilesKnown'
<1>1. Runs(t, "erased")
  BY DEF FileCleans
<1>2. PICK old \in Task : old = fileTask[t]
  BY <1>1, RunsIs DEF WithSource, Work
<1>3. /\ Working(t) /\ old.at = "erased" /\ old.status = "running" /\ old.left # <<>>
      /\ AtKnown(old, files, stagingFile[t], crossed)
  BY <1>1, <1>2, RunsIs DEF WithSource, Work
<1>4. Tail(old.left) \in Seq(Path)
  BY <1>3, FieldsOf
<1>5. PICK left \in Seq(Path) : left = Tail(old.left)
  BY <1>4
<1>6. PICK new : new = [old EXCEPT !.left = left, !.phase = "cleaning", !.at = "next"]
  OBVIOUS
<1>7. PICK r : r = Goes(old, "running", "cleaning", "next", left, old.current, old.lists)
  OBVIOUS
<1>8. r = new
  BY <1>2, <1>3, <1>6, <1>7 DEF Goes, Task
<1>9. r \in Task /\ r.status = "running" /\ r.phase = "cleaning" /\ r.at = "next"
  <2>1. PICK current \in Data, lists \in SUBSET {"staging", "hidden"} :
          current = old.current /\ lists = old.lists
    BY FieldsOf
  <2>2. "next" \in {"new", "saved", "ended"} \union Work /\ "cleaning" \in Phases
        /\ "running" \in {"queued", "running"} \union Ended
    BY DEF Work, Phases
  <2>3. r = Goes(old, "running", "cleaning", "next", left, current, lists)
    BY <1>7, <2>1
  <2>4. PICK status \in {"queued", "running"} \union Ended, phase \in Phases,
             go \in {"new", "saved", "ended"} \union Work :
          status = "running" /\ phase = "cleaning" /\ go = "next"
    BY <2>2
  <2>5. r = Goes(old, status, phase, go, left, current, lists)
    BY <2>3, <2>4
  <2>6. r \in Task /\ r.status = status /\ r.phase = phase /\ r.at = go
    BY <2>5 DEF Goes, Task
  <2> QED
    BY <2>4, <2>6
<1>10. Persisted(t, r) /\ Untouched /\ Queued /\ r.at \in Work
  BY <1>2, <1>5, <1>6, <1>8, <1>9 DEF FileCleans, Work
<1>11. AtKnown(r, files', stagingFile[t], crossed)
  BY <1>3, <1>9, <1>10 DEF AtKnown, WithDestination, WithSource
<1> QED
  BY <1>3, <1>9, <1>10, <1>11, SameFiles, PersistStep DEF Untouched, Queued

-----------------------------------------------------------------------------
(* The queue, and what a start reads. *)

(* Something happens to a task that does not work, then or before. *)
LEMMA IdleStep ==
  ASSUME FilesKnown, NEW t \in FileTask, ~Working(t), NEW r \in Task, r.at \notin Work,
         NEW w \in Task \union {Unused}, NEW x \in Data,
         fileTask' = [fileTask EXCEPT ![t] = r], saved' = [saved EXCEPT ![t] = w],
         stagingFile' = [stagingFile EXCEPT ![t] = x],
         r.at \in {"new", "saved"} => r.phase = "queued" /\ x = Missing,
         w.status = "queued" => w.phase = "queued",
         (w = saved[t] /\ loading' = loading) \/ ~Begun(w),
         t \notin loading', early' = IF loading' = {} THEN "no" ELSE early, crossed \subseteq crossed',
         files' \in [Path -> Data],
         \/ files' = files
         \/ /\ Begun(saved[t]) /\ t \in loading
            /\ \E p \in Path : /\ files' = [files EXCEPT ![p] = Missing]
                               /\ early = "yes" => files[p] = Missing \/ files[p] \in crossed',
         CanRecover(w, files', x, crossed', early'),
         chain' \in Seq(FileTask), chain # <<>> => chain' # <<>> /\ Head(chain') = Head(chain),
         loading' = loading \/ loading' = loading \ {t}, NothingLost'
  PROVE  FilesKnown'
<1>1. TaskTypes'
  BY DEF FilesKnown, TaskTypes
<1>2. fileTask'[t] = r /\ stagingFile'[t] = x /\ saved'[t] = w
      /\ \A u \in FileTask : u # t =>
           fileTask'[u] = fileTask[u] /\ saved'[u] = saved[u] /\ stagingFile'[u] = stagingFile[u]
  BY DEF FilesKnown, TaskTypes
<1>3. WaitKnown'
  <2> SUFFICES ASSUME NEW u \in FileTask
      PROVE  /\ fileTask'[u].at \in {"new", "saved"} => fileTask'[u].phase = "queued" /\ stagingFile'[u] = Missing
             /\ saved'[u].status = "queued" => saved'[u].phase = "queued"
    BY DEF WaitKnown
  <2>1. CASE u # t
    BY <1>2, <2>1 DEF FilesKnown, WaitKnown
  <2>2. CASE u = t
    BY <1>2, <2>2
  <2> QED
    BY <2>1, <2>2
<1>4. \A u \in FileTask : Begun(saved'[u]) => Begun(saved[u]) /\ (u = t => loading' = loading)
  BY <1>2
<1>5. \A u \in FileTask : Working(u)' <=> Working(u)
  BY <1>2 DEF Working
<1>6. early \in {"no", "yes"} /\ (early = "yes" => loading # {})
  BY DEF FilesKnown, TaskTypes, RunsKnown
<1>7. \A u \in FileTask : Begun(saved'[u]) => u \in loading' \/ Working(u)'
  <2> SUFFICES ASSUME NEW u \in FileTask, Begun(saved'[u]) PROVE u \in loading' \/ Working(u)'
    OBVIOUS
  <2>1. Begun(saved[u]) /\ (u \in loading \/ Working(u))
    BY <1>4 DEF FilesKnown, RunsKnown
  <2> QED
    BY <1>4, <1>5, <2>1
<1>8. \A u, v \in FileTask : Working(u) /\ Working(v) => u = v
  BY WorkFacts
<1>9. RunsKnown'
  <2>1. ASSUME early' = "no", NEW u \in FileTask, NEW v \in FileTask, Begun(saved'[u]), Begun(saved'[v])
        PROVE  u = v
    <3>1. CASE early = "no"
      BY <1>4, <2>1, <3>1 DEF FilesKnown, RunsKnown
    <3>2. CASE early = "yes"
      <4>1. loading' = {}
        BY <2>1, <3>2
      <4> QED
        BY <1>5, <1>7, <1>8, <2>1, <4>1
    <3> QED
      BY <1>6, <3>1, <3>2
  <2>2. ASSUME early' = "no", NEW u \in FileTask, Working(u)' PROVE loading' = {}
    <3>1. CASE early = "no"
      BY <1>5, <2>2, <3>1 DEF FilesKnown, RunsKnown
    <3>2. CASE early = "yes"
      BY <2>2, <3>2
    <3> QED
      BY <1>6, <3>1, <3>2
  <2>3. early' = "yes" => loading' # {}
    OBVIOUS
  <2>4. ASSUME NEW u \in loading' PROVE saved'[u] # Unused /\ fileTask'[u] = Unused
    <3>1. u \in loading /\ u \in FileTask /\ saved[u] # Unused /\ fileTask[u] = Unused
      BY DEF FilesKnown, RunsKnown, TaskTypes
    <3> QED
      BY <1>2, <3>1
  <2> QED
    BY <1>7, <2>1, <2>2, <2>3, <2>4 DEF RunsKnown, Begun
<1>10. ASSUME NEW u \in FileTask, Working(u)
       PROVE  /\ chain' # <<>> /\ Head(chain') = u
              /\ AtKnown(fileTask[u], files, stagingFile[u], crossed)' /\ SaysOf(saved[u], fileTask[u])'
  <2>1. u # t /\ fileTask[u] \in Task
    BY <1>10, WorkFacts
  <2>2. /\ chain # <<>> /\ Head(chain) = u /\ files \in [Path -> Data]
        /\ AtKnown(fileTask[u], files, stagingFile[u], crossed) /\ SaysOf(saved[u], fileTask[u])
    BY <1>10, WorkFacts
  <2>3. PICK q \in Task : q = fileTask[u]
    BY <2>1
  <2>4. AtKnown(q, files', stagingFile[u], crossed')
    <3>1. CASE files' = files
      BY <2>2, <2>3, <3>1 DEF AtKnown
    <3>2. CASE t \in loading /\ \E p \in Path : /\ files' = [files EXCEPT ![p] = Missing]
                                                /\ early = "yes" => files[p] = Missing \/ files[p] \in crossed'
      <4>1. early = "yes"
        BY <1>6, <1>10, <3>2 DEF FilesKnown, RunsKnown
      <4>2. PICK p \in Path : /\ files' = [files EXCEPT ![p] = Missing]
                              /\ files[p] = Missing \/ files[p] \in crossed'
        BY <3>2, <4>1
      <4>3. \A o \in Path : files'[o] = files[o] \/ (files'[o] = Missing /\ (files[o] = Missing \/ files[o] \in crossed'))
        BY <2>2, <4>2
      <4>4. q.left # <<>> => From(q) \in Path /\ Onto(q) \in Path
        BY TaskIs
      <4>5. AtKnown(q, files, stagingFile[u], crossed)
        BY <2>2, <2>3
      <4> HIDE DEF From, Onto
      <4>6. q.at \in WithSource => q.left # <<>>
        BY <4>5 DEF AtKnown
      <4>7. /\ q.at = "prepared" /\ q.conflict = "reject" => files'[Onto(q)] = Missing
            /\ q.at = "cleared" => files'[Onto(q)] = Missing
            /\ q.at \in {"staged", "copied"} => (q.conflict = "reject" => files'[Onto(q)] = Missing)
        BY <4>3, <4>4, <4>5, <4>6 DEF AtKnown, WithSource, Work
      <4>8. q.at = "copied" =>
              stagingFile[u] = files'[From(q)] \/ (files'[From(q)] = Missing /\ stagingFile[u] \in crossed')
        <5> SUFFICES ASSUME q.at = "copied"
            PROVE  stagingFile[u] = files'[From(q)] \/ (files'[From(q)] = Missing /\ stagingFile[u] \in crossed')
          OBVIOUS
        <5>1. From(q) \in Path
          BY <4>4, <4>6 DEF WithSource, Work
        <5>2. stagingFile[u] = files[From(q)] \/ (files[From(q)] = Missing /\ stagingFile[u] \in crossed)
          BY <4>5 DEF AtKnown
        <5> QED
          BY <4>3, <5>1, <5>2
      <4>9. q.at \in {"moved", "published", "committed"} =>
              files'[From(q)] = Missing \/ files'[Onto(q)] = files'[From(q)] \/ files'[From(q)] \in crossed'
        <5> SUFFICES ASSUME q.at \in {"moved", "published", "committed"}
            PROVE  files'[From(q)] = Missing \/ files'[Onto(q)] = files'[From(q)] \/ files'[From(q)] \in crossed'
          OBVIOUS
        <5>1. From(q) \in Path /\ Onto(q) \in Path
          BY <4>4, <4>6 DEF WithSource, Work
        <5>2. files[From(q)] = Missing \/ files[Onto(q)] = files[From(q)] \/ files[From(q)] \in crossed
          BY <4>5 DEF AtKnown
        <5> QED
          BY <4>3, <5>1, <5>2
      <4> QED
        BY <4>5, <4>7, <4>8, <4>9 DEF AtKnown
    <3> QED
      BY <3>1, <3>2
  <2>5. chain' # <<>> /\ Head(chain') = u
    BY <2>2
  <2>6. SaysOf(saved'[u], fileTask'[u]) /\ fileTask'[u] = q /\ stagingFile'[u] = stagingFile[u]
    BY <1>2, <2>1, <2>2, <2>3
  <2> QED
    BY <2>4, <2>5, <2>6 DEF AtKnown, SaysOf, From, Onto, Begun
<1>11. WorkKnown'
  <2> SUFFICES ASSUME NEW u \in FileTask, Working(u)'
      PROVE  /\ chain' # <<>> /\ Head(chain') = u
             /\ AtKnown(fileTask[u], files, stagingFile[u], crossed)' /\ SaysOf(saved[u], fileTask[u])'
    BY DEF WorkKnown
  <2> QED
    BY <1>5, <1>10
<1>12. RecoveryKnown'
  <2> SUFFICES ASSUME NEW u \in FileTask PROVE CanRecover(saved'[u], files', stagingFile'[u], crossed', early')
    BY RecoveryThen
  <2>1. CASE u = t
    BY <1>2, <2>1
  <2>2. CASE u # t /\ Working(u)
    <3>1. AtKnown(fileTask'[u], files', stagingFile'[u], crossed') /\ SaysOf(saved'[u], fileTask'[u])
      BY <1>10, <2>2 DEF AtKnown, SaysOf, From, Onto, Begun
    <3>2. fileTask'[u] \in Task
      BY <1>2, <2>2, WorkFacts
    <3> QED
      BY <3>1, <3>2, AtRecovers
  <2>3. CASE u # t /\ ~Begun(saved[u])
    <3>1. CanRecover(saved[u], files, stagingFile[u], crossed, early)
      BY DEF FilesKnown, RecoveryKnown
    <3> QED
      BY <1>2, <2>3, <3>1, IdleRecovers
  <2>4. CASE u # t /\ Begun(saved[u]) /\ ~Working(u)
    <3>1. CanRecover(saved[u], files, stagingFile[u], crossed, early)
      BY DEF FilesKnown, RecoveryKnown
    <3>2. u \in loading'
      BY <1>2, <1>5, <1>7, <2>4
    <3>3. early' = early
      BY <3>2
    <3>4. CASE early = "yes"
      BY <1>2, <2>4, <3>1, <3>3, <3>4, LateRecovers
    <3>5. CASE early = "no"
      <4>1. files' = files
        BY <2>4, <3>5 DEF FilesKnown, RunsKnown
      <4> QED
        BY <1>2, <2>4, <3>1, <3>3, <4>1 DEF CanRecover
    <3> QED
      BY <1>6, <3>4, <3>5
  <2> QED
    BY <2>1, <2>2, <2>3, <2>4
<1> QED
  BY <1>1, <1>3, <1>9, <1>11, <1>12 DEF FilesKnown

(* The files stay as they are, and the task's file, or nothing has begun. *)
LEMMA WaitStep ==
  ASSUME FilesKnown, NEW t \in FileTask, ~Working(t), NEW r \in Task, r.at \notin Work,
         fileTask' = [fileTask EXCEPT ![t] = r], Untouched, UNCHANGED crossed,
         r.at \in {"new", "saved"} => r.phase = "queued" /\ stagingFile[t] = Missing, t \notin loading',
         \/ saved' = saved /\ loading' = loading /\ early' = early
         \/ saved' = saved /\ ~Begun(saved[t]) /\ loading' = loading \ {t}
            /\ early' = IF loading' = {} THEN "no" ELSE early
         \/ saved' = [saved EXCEPT ![t] = r] /\ r.phase = "queued" /\ loading' = loading /\ early' = early
            /\ ~Begun(saved[t]) /\ stagingFile[t] = Missing,
         chain' \in Seq(FileTask), chain # <<>> => chain' # <<>> /\ Head(chain') = Head(chain)
  PROVE  FilesKnown'
<1>1. PICK x : x = stagingFile[t]
  OBVIOUS
<1>2. x \in Data /\ stagingFile' = [stagingFile EXCEPT ![t] = x] /\ files' = files
      /\ files' \in [Path -> Data] /\ NothingLost' /\ CanRecover(saved[t], files, x, crossed, early)
      /\ saved[t] \in Task \union {Unused} /\ saved = [saved EXCEPT ![t] = saved[t]]
      /\ (saved[t].status = "queued" => saved[t].phase = "queued")
  BY <1>1 DEF FilesKnown, TaskTypes, Untouched, NothingLost, RecoveryKnown, WaitKnown
<1>3. early' = IF loading' = {} THEN "no" ELSE early
  BY DEF FilesKnown, RunsKnown, TaskTypes
<1>4. CASE saved' = saved
  <2>1. PICK w : w = saved[t]
    OBVIOUS
  <2>2. CanRecover(w, files', x, crossed', early')
    <3>1. CASE loading' = loading /\ early' = early
      BY <1>2, <2>1, <3>1 DEF CanRecover
    <3>2. CASE ~Begun(saved[t])
      BY <1>2, <2>1, <3>2, IdleRecovers
    <3> QED
      BY <1>4, <3>1, <3>2, <1>2
  <2>3. (w = saved[t] /\ loading' = loading) \/ ~Begun(w)
    BY <2>1, <1>2, <1>4
  <2>4. loading' = loading \/ loading' = loading \ {t}
    OBVIOUS
  <2> QED
    BY <1>1, <1>2, <1>3, <1>4, <2>1, <2>2, <2>3, <2>4, IdleStep
<1>5. CASE saved' = [saved EXCEPT ![t] = r] /\ r.phase = "queued" /\ loading' = loading /\ ~Begun(saved[t])
           /\ stagingFile[t] = Missing
  <2>1. ~Begun(r)
    BY <1>5 DEF Begun
  <2>2. CanRecover(r, files', x, crossed', early')
    BY <1>1, <1>5 DEF CanRecover
  <2> QED
    BY <1>1, <1>2, <1>3, <1>5, <2>1, <2>2, IdleStep
<1> QED
  BY <1>4, <1>5

LEMMA StartKept ==
  ASSUME FilesKnown, NEW t \in FileTask, NEW q \in FileRequest, FileStart(t, q) PROVE FilesKnown'
<1>1. PICK s \in {"queued", "running"} : s = IF Queue = <<>> THEN "running" ELSE "queued"
  OBVIOUS
<1>2. PICK seen : seen = [i \in DOMAIN q.sources |-> files[q.sources[i]]]
  OBVIOUS
<1>3. PICK r : r = [status |-> s, phase |-> "queued", at |-> "new",
                    operation |-> q.operation, sources |-> q.sources, to |-> q.to, conflict |-> q.conflict,
                    seen |-> seen, left |-> q.sources, current |-> Missing, lists |-> {}, cancel |-> FALSE]
  OBVIOUS
<1>4. seen \in Seq(Data)
  <2>1. q.sources \in Seq(Path) /\ files \in [Path -> Data]
    BY FileAssumption DEF FilesKnown, TaskTypes
  <2>2. PICK n \in Nat : DOMAIN q.sources = 1..n
    BY <2>1
  <2>3. \A i \in 1..n : q.sources[i] \in Path
    BY <2>1, <2>2
  <2>4. seen \in [1..n -> Data]
    BY <1>2, <2>1, <2>2, <2>3
  <2> QED
    BY <2>4
<1>5. r \in Task
  <2>1. /\ q.operation \in {"copy", "move", "delete"} /\ q.conflict \in {"reject", "overwrite"}
        /\ q.sources \in Seq(Path) /\ q.to \in Dirs
    BY FileAssumption DEF Dirs
  <2>2. Missing \in Data /\ "queued" \in Phases /\ "new" \in {"new", "saved", "ended"} \union Work
        /\ s \in {"queued", "running"} \union Ended /\ FALSE \in BOOLEAN /\ {} \in SUBSET {"staging", "hidden"}
    BY DEF Data, Phases
  <2> QED
    BY <1>3, <1>4, <2>1, <2>2 DEF Task
<1>6. r.at = "new" /\ r.phase = "queued" /\ r.at \notin Work
  BY <1>3 DEF Work
<1>7. fileTask' = [fileTask EXCEPT ![t] = r] /\ Untouched /\ saved' = saved /\ loading' = loading
      /\ chain' = Append(chain, t) /\ early' = early /\ crossed' = crossed
  BY <1>1, <1>2, <1>3 DEF FileStart
<1>8. ~Working(t)
  BY DEF FileStart, Working, Work, Unused
<1>9. t \notin loading' /\ chain' \in Seq(FileTask) /\ (chain # <<>> => chain' # <<>> /\ Head(chain') = Head(chain))
  BY <1>7 DEF FilesKnown, TaskTypes, FileStart
<1>10. stagingFile[t] = Missing
  <2>1. saved[t].status = "none" /\ CanRecover(saved[t], files, stagingFile[t], crossed, early)
    BY DEF FileStart, FilesKnown, RecoveryKnown, Unused
  <2> QED
    BY <2>1 DEF CanRecover, Begun, Ended
<1> QED
  BY <1>5, <1>6, <1>7, <1>8, <1>9, <1>10, WaitStep

(* A task that waits is a task, and has not begun. *)
LEMMA Waits ==
  ASSUME FilesKnown, NEW t \in FileTask, fileTask[t].at \in {"new", "saved"}
  PROVE  /\ fileTask[t] \in Task /\ ~Working(t) /\ fileTask[t].phase = "queued" /\ stagingFile[t] = Missing
         /\ t \notin loading /\ ~Begun(saved[t])
<1>1. fileTask[t] # Unused /\ ~Working(t)
  BY DEF Unused, Working, Work
<1>2. fileTask[t] \in Task /\ fileTask[t].phase = "queued" /\ stagingFile[t] = Missing
  BY <1>1 DEF FilesKnown, TaskTypes, WaitKnown
<1>3. t \notin loading /\ ~Begun(saved[t])
  BY <1>1 DEF FilesKnown, RunsKnown
<1> QED
  BY <1>1, <1>2, <1>3

(* A task that is not at work becomes r and keeps its file. *)
LEMMA SavesKept ==
  ASSUME FilesKnown, NEW t \in FileTask, FileSaved(t) PROVE FilesKnown'
<1>1. PICK old \in Task : old = fileTask[t]
  BY Waits DEF FileSaved
<1>2. old.phase = "queued" /\ ~Working(t) /\ t \notin loading /\ ~Begun(saved[t]) /\ stagingFile[t] = Missing
  BY <1>1, Waits DEF FileSaved
<1>3. PICK r : r = [old EXCEPT !.at = "saved"]
  OBVIOUS
<1>4. r \in Task /\ r.at = "saved" /\ r.phase = "queued" /\ r.at \notin Work
  BY <1>1, <1>2, <1>3 DEF Task, Work
<1>5. Persisted(t, r) /\ Untouched /\ Queued
  BY <1>1, <1>3 DEF FileSaved
<1>6. chain' \in Seq(FileTask) /\ chain' = chain /\ loading' = loading /\ early' = early /\ crossed' = crossed
  BY <1>5 DEF FilesKnown, TaskTypes, Queued
<1> QED
  BY <1>2, <1>4, <1>5, <1>6, WaitStep DEF Persisted

LEMMA CancelSavesKept ==
  ASSUME FilesKnown, NEW t \in FileTask, FileCancelSaved(t) PROVE FilesKnown'
<1>1. PICK old \in Task : old = fileTask[t]
  BY Waits DEF FileCancelSaved
<1>2. old.at = "saved" /\ old.phase = "queued" /\ ~Working(t) /\ t \notin loading /\ ~Begun(saved[t])
      /\ stagingFile[t] = Missing
  BY <1>1, Waits DEF FileCancelSaved
<1>3. fileTask' = [fileTask EXCEPT ![t] = old] /\ saved' = [saved EXCEPT ![t] = old] /\ Untouched /\ Queued
  BY <1>1 DEF FileCancelSaved, Persisted
<1>4. chain' \in Seq(FileTask) /\ chain' = chain /\ loading' = loading /\ early' = early /\ crossed' = crossed
  BY <1>3 DEF FilesKnown, TaskTypes, Queued
<1> QED
  BY <1>2, <1>3, <1>4, WaitStep DEF Work

LEMMA CancelsKept ==
  ASSUME FilesKnown, NEW t \in FileTask, FileCancel(t) PROVE FilesKnown'
<1>1. PICK old \in Task : old = fileTask[t]
  BY DEF FileCancel, FilesKnown, TaskTypes, Unused
<1>2. PICK r : /\ InMemory(t, r)
               /\ \/ r = [old EXCEPT !.status = "cancelled", !.cancel = TRUE] /\ old.status = "queued"
                  \/ r = [old EXCEPT !.cancel = TRUE] /\ old.status = "running"
  BY <1>1 DEF FileCancel
<1>3. /\ r \in Task /\ r.at = old.at /\ r.phase = old.phase /\ r.operation = old.operation
      /\ r.to = old.to /\ r.current = old.current /\ r.left = old.left /\ r.conflict = old.conflict
      /\ r.lists = old.lists /\ (old.status = "running" => r.status = "running")
  <2>1. CASE r = [old EXCEPT !.cancel = TRUE] /\ old.status = "running"
    BY <2>1 DEF Task
  <2>2. CASE r = [old EXCEPT !.status = "cancelled", !.cancel = TRUE] /\ old.status = "queued"
    <3>1. PICK new : new = [old EXCEPT !.status = "cancelled", !.cancel = TRUE]
      OBVIOUS
    <3>2. PICK s :
            s = [status |-> "cancelled", phase |-> old.phase, at |-> old.at, operation |-> old.operation,
                 sources |-> old.sources, to |-> old.to, conflict |-> old.conflict, seen |-> old.seen,
                 left |-> old.left, current |-> old.current, lists |-> old.lists, cancel |-> TRUE]
      OBVIOUS
    <3>3. s = new
      BY <3>1, <3>2 DEF Task
    <3>4. s \in Task
      BY <3>2 DEF Task, Ended
    <3> QED
      BY <2>2, <3>1, <3>2, <3>3, <3>4
  <2> QED
    BY <1>2, <2>1, <2>2
<1>4. Untouched /\ Queued
  BY DEF FileCancel
<1>5. CASE Working(t)
  <2>1. AtKnown(old, files, stagingFile[t], crossed) /\ old.at \in Work
    BY <1>1, <1>5, WorkFacts DEF Working
  <2>2. AtKnown(r, files', stagingFile[t], crossed)
    BY <1>3, <1>4, <2>1 DEF AtKnown, From, Onto, Untouched
  <2>3. NothingLost' /\ files' \in [Path -> Data] /\ stagingFile[t] \in Data
        /\ stagingFile' = [stagingFile EXCEPT ![t] = stagingFile[t]]
    BY <1>4, SameFiles DEF Untouched, Queued
  <2>4. /\ r.at \in Work /\ r.operation = fileTask[t].operation /\ r.to = fileTask[t].to
        /\ r.phase = fileTask[t].phase /\ r.current = fileTask[t].current
        /\ (r.at \in {"staged", "copied"} => fileTask[t].at \in {"staged", "copied"})
    BY <1>1, <1>3, <2>1
  <2> QED
    BY <1>2, <1>3, <1>4, <1>5, <2>2, <2>3, <2>4, MemoryStep DEF Queued
<1>6. CASE ~Working(t)
  <2>1. old.at \notin Work /\ (old.at \in {"new", "saved"} => old.phase = "queued" /\ stagingFile[t] = Missing)
    BY <1>1, <1>6 DEF Working, FilesKnown, WaitKnown
  <2>2. t \notin loading
    BY <1>1, TaskIs DEF FilesKnown, RunsKnown
  <2>3. chain' \in Seq(FileTask) /\ chain' = chain /\ loading' = loading /\ early' = early /\ crossed' = crossed
    BY <1>4 DEF FilesKnown, TaskTypes, Queued
  <2> QED
    BY <1>2, <1>3, <1>4, <1>6, <2>1, <2>2, <2>3, WaitStep DEF InMemory
<1> QED
  BY <1>5, <1>6

(* A task that begins is the only one at work. *)
LEMMA BeginsKept ==
  ASSUME FilesKnown, NEW t \in FileTask, FileBegins(t) PROVE FilesKnown'
<1>1. PICK old \in Task : old = fileTask[t]
  BY Waits DEF FileBegins
<1>2. /\ old.at = "saved" /\ old.phase = "queued" /\ ~Working(t) /\ ~Begun(saved[t]) /\ t \notin loading
      /\ stagingFile[t] = Missing
      /\ chain # <<>> /\ Head(chain) = t /\ Untouched /\ UNCHANGED <<chain, loading, crossed>>
  BY <1>1, Waits DEF FileBegins
<1>3. CASE fileTask[t].cancel
  <2>1. PICK r : r = [old EXCEPT !.at = "ended"]
    OBVIOUS
  <2>2. r \in Task /\ r.at = "ended"
    BY <1>1, <2>1 DEF Task
  <2>3. fileTask' = [fileTask EXCEPT ![t] = r] /\ saved' = saved /\ early' = early
    BY <1>1, <1>3, <2>1 DEF FileBegins, InMemory
  <2>4. chain' \in Seq(FileTask) /\ chain' = chain /\ loading' = loading /\ crossed' = crossed
    BY <1>2 DEF FilesKnown, TaskTypes
  <2> QED
    BY <1>2, <2>2, <2>3, <2>4, WaitStep DEF Work
<1>4. CASE ~fileTask[t].cancel
  <2>1. PICK new : new = [old EXCEPT !.status = "running", !.phase = "validating", !.at = "validate"]
    OBVIOUS
  <2>2. PICK r : r = Goes(old, "running", "validating", "validate", old.left, old.current, old.lists)
    OBVIOUS
  <2>3. r = new
    BY <1>1, <2>1, <2>2 DEF Goes, Task
  <2>4. r \in Task /\ r.status = "running" /\ r.phase = "validating" /\ r.at = "validate"
    <3>1. PICK status \in {"queued", "running"} \union Ended, phase \in Phases,
               go \in {"new", "saved", "ended"} \union Work, left \in Seq(Path), current \in Data,
               lists \in SUBSET {"staging", "hidden"} :
            /\ status = "running" /\ phase = "validating" /\ go = "validate"
            /\ left = old.left /\ current = old.current /\ lists = old.lists
      BY FieldsOf, PlacesKnown DEF Work
    <3>2. r = Goes(old, status, phase, go, left, current, lists)
      BY <2>2, <3>1
    <3>3. r \in Task /\ r.status = status /\ r.phase = phase /\ r.at = go
      BY <3>2 DEF Goes, Task
    <3> QED
      BY <3>1, <3>3
  <2>5. fileTask' = [fileTask EXCEPT ![t] = r] /\ saved' = [saved EXCEPT ![t] = r]
    BY <1>1, <1>4, <2>1, <2>3 DEF FileBegins, Persisted
  <2>6. /\ UNCHANGED <<files, stagingFile, chain, loading, given, crossed>>
        /\ early' = (IF loading # {} THEN "yes" ELSE early) /\ early \in {"no", "yes"}
        /\ early' \in {"no", "yes"}
    BY <1>2, <1>4 DEF Untouched, FileBegins, FilesKnown, TaskTypes
  <2>7. /\ fileTask'[t] = r /\ saved'[t] = r
        /\ \A u \in FileTask : u # t => fileTask'[u] = fileTask[u] /\ saved'[u] = saved[u]
    BY <2>5 DEF FilesKnown, TaskTypes
  <2>8. \A u \in FileTask : ~Working(u) /\ (Begun(saved[u]) => u \in loading)
    BY <1>2 DEF FilesKnown, RunsKnown, WorkKnown
  <2>9. stagingFile[t] = Missing
    BY <1>2
  <2>10. TaskTypes'
    BY <2>4, <2>5, <2>6 DEF FilesKnown, TaskTypes
  <2>11. WaitKnown'
    <3> SUFFICES ASSUME NEW u \in FileTask
        PROVE  /\ fileTask'[u].at \in {"new", "saved"} => fileTask'[u].phase = "queued" /\ stagingFile'[u] = Missing
               /\ saved'[u].status = "queued" => saved'[u].phase = "queued"
      BY DEF WaitKnown
    <3>1. CASE u # t
      BY <2>6, <2>7, <3>1 DEF FilesKnown, WaitKnown
    <3>2. CASE u = t
      BY <2>4, <2>7, <3>2
    <3> QED
      BY <3>1, <3>2
  <2>12. \A u \in FileTask : Begun(saved'[u]) => u = t \/ u \in loading
    BY <2>7, <2>8
  <2>13. Working(t)'
    BY <2>4, <2>7 DEF Working, Work
  <2>14. RunsKnown'
    <3>1. \A u \in FileTask : Begun(saved'[u]) => u \in loading' \/ Working(u)'
      BY <2>6, <2>12, <2>13
    <3>2. early' = "no" => loading' = {} /\ \A u \in FileTask : Begun(saved'[u]) => u = t
      BY <2>6, <2>12
    <3>3. early' = "yes" => loading' # {}
      BY <2>6 DEF FilesKnown, RunsKnown
    <3>4. \A u \in loading' : saved'[u] # Unused /\ fileTask'[u] = Unused
      BY <1>2, <2>6, <2>7 DEF FilesKnown, RunsKnown, TaskTypes
    <3> QED
      BY <3>1, <3>2, <3>3, <3>4 DEF RunsKnown, Begun
  <2>15. AtKnown(r, files', stagingFile[t], crossed) /\ SaysOf(r, r)
    BY <2>4, <2>9 DEF AtKnown, SaysOf, Begun, WithDestination, WithSource
  <2>16. WorkKnown'
    <3> SUFFICES ASSUME NEW u \in FileTask, Working(u)'
        PROVE  /\ chain' # <<>> /\ Head(chain') = u
               /\ AtKnown(fileTask[u], files, stagingFile[u], crossed)' /\ SaysOf(saved[u], fileTask[u])'
      BY DEF WorkKnown
    <3>1. u = t
      BY <2>7, <2>8 DEF Working
    <3> QED
      BY <1>2, <2>6, <2>7, <2>15, <3>1 DEF AtKnown, SaysOf, From, Onto, Begun
  <2>17. RecoveryKnown'
    <3> SUFFICES ASSUME NEW u \in FileTask PROVE CanRecover(saved'[u], files', stagingFile'[u], crossed', early')
      BY RecoveryThen
    <3>1. CASE u # t
      <4>1. CanRecover(saved[u], files, stagingFile[u], crossed, early)
        BY DEF FilesKnown, RecoveryKnown
      <4>2. CASE early' = early
        BY <2>6, <2>7, <3>1, <4>1, <4>2
      <4>3. CASE early' = "yes"
        BY <2>6, <2>7, <3>1, <4>1, <4>3, LateRecovers
      <4> QED
        BY <2>6, <4>2, <4>3
    <3>2. CASE u = t
      BY <2>4, <2>6, <2>7, <2>9, <3>2 DEF CanRecover
    <3> QED
      BY <3>1, <3>2
  <2>18. NothingLost'
    BY <2>6 DEF FilesKnown, NothingLost
  <2> QED
    BY <2>10, <2>11, <2>14, <2>16, <2>17, <2>18 DEF FilesKnown
<1> QED
  BY <1>3, <1>4

LEMMA CompletesKept ==
  ASSUME FilesKnown, NEW t \in FileTask, FileCompletes(t) PROVE FilesKnown'
<1>1. /\ UNCHANGED <<files, stagingFile, given, fileTask, saved, loading, early, crossed>> /\ chain' = Tail(chain)
      /\ fileTask[t].at = "ended" /\ chain # <<>> /\ Head(chain) = t
  BY DEF FileCompletes, Untouched
<1>2. \A u \in FileTask : ~Working(u)
  BY <1>1 DEF FilesKnown, WorkKnown, Working, Work
<1>3. TaskTypes'
  BY <1>1 DEF FilesKnown, TaskTypes
<1>4. WaitKnown' /\ NothingLost'
  BY <1>1 DEF FilesKnown, WaitKnown, NothingLost
<1>5. RunsKnown'
  BY <1>1 DEF FilesKnown, RunsKnown, Working, Begun
<1>6. WorkKnown'
  BY <1>1, <1>2 DEF WorkKnown, Working
<1>7. RecoveryKnown'
  BY <1>1 DEF FilesKnown, RecoveryKnown, CanRecover, Begun
<1> QED
  BY <1>3, <1>4, <1>5, <1>6, <1>7 DEF FilesKnown

LEMMA CrashKept ==
  ASSUME FilesKnown, FileCrash PROVE FilesKnown'
<1>1. /\ UNCHANGED <<files, stagingFile, given, saved, early, crossed>> /\ chain' = <<>>
      /\ fileTask' = [t \in FileTask |-> Unused] /\ loading' = {t \in FileTask : saved[t] # Unused}
  BY DEF FileCrash
<1>2. \A t \in FileTask : fileTask'[t] = Unused /\ ~Working(t)'
  BY <1>1 DEF Working, Work, Unused
<1>3. TaskTypes'
  BY <1>1 DEF FilesKnown, TaskTypes
<1>4. WaitKnown'
  BY <1>1, <1>2 DEF FilesKnown, WaitKnown, Unused
<1>5. NothingLost'
  BY <1>1 DEF FilesKnown, NothingLost
<1>6. RunsKnown'
  <2>1. \A t \in FileTask : Begun(saved[t]) => t \in loading'
    BY <1>1 DEF Begun, Unused
  <2>2. early' = "yes" => loading' # {}
    BY <1>1 DEF FilesKnown, RunsKnown, TaskTypes
  <2> QED
    BY <1>1, <1>2, <2>1, <2>2 DEF FilesKnown, RunsKnown, Begun
<1>7. WorkKnown'
  BY <1>2 DEF WorkKnown
<1>8. RecoveryKnown'
  BY <1>1 DEF FilesKnown, RecoveryKnown, CanRecover, Begun
<1> QED
  BY <1>3, <1>4, <1>5, <1>6, <1>7, <1>8 DEF FilesKnown

(* What a start reads is a task on disk that nobody has in memory. *)
LEMMA Reading ==
  ASSUME FilesKnown, NEW t \in FileTask, Reads(t)
  PROVE  /\ saved[t] \in Task /\ fileTask[t] = Unused /\ ~Working(t)
         /\ CanRecover(saved[t], files, stagingFile[t], crossed, early)
         /\ files \in [Path -> Data] /\ stagingFile[t] \in Data
<1>1. saved[t] # Unused /\ fileTask[t] = Unused
  BY DEF Reads, FilesKnown, RunsKnown
<1>2. saved[t] \in Task
  BY <1>1 DEF FilesKnown, TaskTypes
<1>3. ~Working(t)
  BY <1>1 DEF Working, Work, Unused
<1>4. CanRecover(saved[t], files, stagingFile[t], crossed, early) /\ files \in [Path -> Data] /\ stagingFile[t] \in Data
  BY DEF FilesKnown, RecoveryKnown, TaskTypes
<1> QED
  BY <1>1, <1>2, <1>3, <1>4

LEMMA RecoversKept ==
  ASSUME FilesKnown, NEW t \in FileTask, FileRecovers(t) PROVE FilesKnown'
<1>1. PICK old \in Task : old = saved[t]
  BY Reading DEF FileRecovers
<1>2. /\ old.status = "running" /\ fileTask[t] = Unused /\ ~Working(t) /\ t \in loading
      /\ CanRecover(old, files, stagingFile[t], crossed, early)
      /\ files \in [Path -> Data] /\ stagingFile[t] \in Data
  BY <1>1, Reading DEF FileRecovers, Reads
<1>3. PICK status \in {"success", "interrupted"} : Read(t, status)
  BY DEF FileRecovers
<1>4. PICK new : new = [old EXCEPT !.status = status, !.phase = status, !.lists = {}, !.at = "ended"]
  OBVIOUS
<1>5. PICK r : r = Goes(old, status, status, "ended", old.left, old.current, {})
  OBVIOUS
<1>6. r = new
  BY <1>1, <1>4, <1>5 DEF Goes, Task
<1>7. r \in Task /\ r.status = status /\ r.at = "ended"
  <2>1. PICK phase \in Phases, go \in {"new", "saved", "ended"} \union Work, left \in Seq(Path),
             current \in Data, lists \in SUBSET {"staging", "hidden"},
             s \in {"queued", "running"} \union Ended :
          phase = status /\ go = "ended" /\ left = old.left /\ current = old.current /\ lists = {} /\ s = status
    BY FieldsOf, PlacesKnown DEF Ended
  <2>2. r = Goes(old, s, phase, go, left, current, lists)
    BY <1>5, <2>1
  <2>3. r \in Task /\ r.status = s /\ r.at = go
    BY <2>2 DEF Goes, Task
  <2> QED
    BY <2>1, <2>3
<1>8. /\ Persisted(t, r) /\ loading' = loading \ {t} /\ UNCHANGED chain
      /\ early' = (IF loading' = {} THEN "no" ELSE early) /\ early \in {"no", "yes"}
  BY <1>1, <1>3, <1>4, <1>6 DEF Read, Loaded, FilesKnown, TaskTypes
<1>9. ~Begun(r) /\ r.at \notin Work /\ r.status # "queued" /\ r.status \in Ended
  BY <1>7 DEF Begun, Work, Ended
<1>10. chain' \in Seq(FileTask) /\ chain' = chain /\ t \notin loading'
  BY <1>8 DEF FilesKnown, TaskTypes
<1>11. ASSUME files' \in [Path -> Data], NothingLost', crossed \subseteq crossed',
              \/ files' = files
              \/ /\ Begun(saved[t])
                 /\ \E p \in Path : /\ files' = [files EXCEPT ![p] = Missing]
                                    /\ early = "yes" => files[p] = Missing \/ files[p] \in crossed',
              NEW x \in Data, stagingFile' = [stagingFile EXCEPT ![t] = x], x = Missing \/ x \in crossed'
       PROVE  FilesKnown'
  <2>1. CanRecover(r, files', x, crossed', early')
    BY <1>9, <1>7, <1>11 DEF CanRecover
  <2> QED
    BY <1>2, <1>7, <1>8, <1>9, <1>10, <1>11, <2>1, IdleStep DEF Persisted
<1>12. ASSUME files' = files, given' = given, crossed \subseteq crossed' PROVE NothingLost' /\ files' \in [Path -> Data]
  BY <1>2, <1>12 DEF FilesKnown, NothingLost
<1>13. stagingFile = [stagingFile EXCEPT ![t] = stagingFile[t]] /\ Missing \in Data
  BY DEF FilesKnown, TaskTypes, Data
<1>14. CASE old.operation = "delete" /\ UNCHANGED <<files, stagingFile, given, crossed>>
  <2>1. stagingFile[t] = Missing \/ stagingFile[t] \in crossed'
    BY <1>2, <1>14 DEF CanRecover
  <2> QED
    BY <1>2, <1>11, <1>12, <1>13, <1>14, <2>1
<1>15. CASE Moved(t) /\ Crosses({stagingFile[t]}) /\ UNCHANGED <<files, stagingFile, given>>
  <2>1. crossed \subseteq crossed'
    BY <1>15 DEF Crosses
  <2>2. stagingFile[t] = Missing \/ stagingFile[t] \in crossed'
    <3>1. CASE early = "yes"
      BY <1>15, <3>1 DEF Crosses
    <3>2. CASE early = "no"
      BY <1>1, <1>2, <1>15, <2>1, <3>2 DEF CanRecover, Moved
    <3> QED
      BY <1>8, <3>1, <3>2
  <2> QED
    BY <1>2, <1>11, <1>12, <1>13, <1>15, <2>1, <2>2
<1>16. CASE /\ old.operation # "delete" /\ ~Committed(t) /\ ~Moved(t)
            /\ stagingFile' = [stagingFile EXCEPT ![t] = IF "staging" \in saved[t].lists THEN Missing ELSE @]
            /\ UNCHANGED <<files, given, crossed>>
  <2>1. PICK x : x = IF "staging" \in saved[t].lists THEN Missing ELSE stagingFile[t]
    OBVIOUS
  <2>2. x \in Data /\ (x = Missing \/ x \in crossed')
    BY <1>1, <1>2, <1>13, <1>16, <2>1 DEF CanRecover
  <2>3. stagingFile' = [stagingFile EXCEPT ![t] = x]
    BY <1>16, <2>1
  <2> QED
    BY <1>11, <1>12, <1>16, <2>2, <2>3
<1>17. CASE /\ Committed(t)
            /\ files' = IF saved[t].current = Missing THEN files ELSE [files EXCEPT ![saved[t].current] = Missing]
            /\ Crosses(IF saved[t].current = Missing THEN {} ELSE {files[saved[t].current]})
            /\ UNCHANGED <<stagingFile, given>>
  <2>1. Begun(saved[t]) /\ old.operation = "move" /\ old.phase = "destination-committed"
    BY <1>1, <1>2, <1>17 DEF Committed, Begun
  <2>2. crossed \subseteq crossed'
    BY <1>17 DEF Crosses
  <2>3. stagingFile[t] = Missing \/ stagingFile[t] \in crossed'
    BY <1>2, <2>1, <2>2 DEF CanRecover
  <2>4. CASE old.current = Missing
    BY <1>1, <1>2, <1>11, <1>12, <1>13, <1>17, <2>2, <2>3, <2>4
  <2>5. CASE old.current # Missing
    <3>1. PICK p \in Path : p = old.current
      BY <2>5, FieldsOf DEF Data
    <3>2. files' = [files EXCEPT ![p] = Missing]
      BY <1>1, <1>17, <2>5, <3>1
    <3>3. files' \in [Path -> Data] /\ \A q \in Path : q # p => files'[q] = files[q]
      BY <1>2, <1>13, <3>2
    <3>4. PICK o \in Path : o = Placed[<<p, old.to>>]
      BY TaskIs
    <3>5. early = "yes" => files[p] = Missing \/ files[p] \in crossed'
      BY <1>1, <1>17, <2>5, <3>1 DEF Crosses
    <3>6. files[p] = Missing \/ files[p] \in crossed' \/ (o # p /\ files[o] = files[p])
      BY <1>2, <1>8, <2>1, <2>2, <2>5, <3>1, <3>4, <3>5 DEF CanRecover
    <3>7. NothingLost'
      <4> SUFFICES ASSUME NEW e \in Existing, e \notin given \union crossed' PROVE \E q \in Path : files'[q] = e
        BY <1>17 DEF NothingLost
      <4>1. PICK q \in Path : files[q] = e
        BY <2>2 DEF FilesKnown, NothingLost
      <4>2. CASE q # p
        BY <3>3, <4>1, <4>2
      <4>3. CASE q = p
        BY <3>3, <3>6, <4>1, <4>3, FileAssumption
      <4> QED
        BY <4>2, <4>3
    <3> QED
      BY <1>2, <1>11, <1>13, <1>17, <2>1, <2>2, <2>3, <3>2, <3>3, <3>5, <3>7
  <2> QED
    BY <2>4, <2>5
<1> QED
  BY <1>1, <1>14, <1>15, <1>16, <1>17 DEF FileRecovers, Untouched

LEMMA LoadsKept ==
  ASSUME FilesKnown, NEW t \in FileTask, FileLoads(t) PROVE FilesKnown'
<1>1. PICK old \in Task : old = saved[t]
  BY Reading DEF FileLoads
<1>2. /\ old.status # "running" /\ ~Working(t) /\ t \in loading /\ loading' = loading \ {t}
      /\ early' = (IF loading' = {} THEN "no" ELSE early) /\ crossed' = crossed
      /\ Untouched /\ saved' = saved /\ ~Begun(saved[t]) /\ (old.status = "queued" => old.phase = "queued")
  BY <1>1, Reading DEF FileLoads, Loaded, Reads, Begun, FilesKnown, WaitKnown
<1>3. PICK go \in {"new", "ended"} : /\ go = "new" => old.status = "queued"
                                     /\ fileTask' = [fileTask EXCEPT ![t] = [old EXCEPT !.at = go]]
                                     /\ chain' = chain \/ chain' = Append(chain, t)
  BY <1>1 DEF FileLoads
<1>4. PICK r : r = [old EXCEPT !.at = go]
  OBVIOUS
<1>5. r \in Task /\ r.at = go /\ r.phase = old.phase
  BY <1>1, <1>3, <1>4 DEF Task
<1>6. /\ r.at \notin Work /\ t \notin loading'
      /\ r.at \in {"new", "saved"} => r.phase = "queued" /\ stagingFile[t] = Missing
  <2>1. CanRecover(old, files, stagingFile[t], crossed, early)
    BY <1>1, Reading DEF FileLoads
  <2>2. old.status = "queued" => stagingFile[t] = Missing
    BY <2>1 DEF CanRecover, Begun, Ended
  <2> QED
    BY <1>2, <1>3, <1>5, <2>2 DEF Work
<1>7. chain' \in Seq(FileTask) /\ (chain # <<>> => chain' # <<>> /\ Head(chain') = Head(chain))
  <2>1. chain \in Seq(FileTask)
    BY DEF FilesKnown, TaskTypes
  <2>2. CASE chain' = chain
    BY <2>1, <2>2
  <2>3. CASE chain' = Append(chain, t)
    BY <2>1, <2>3
  <2> QED
    BY <1>3, <2>2, <2>3
<1>8. fileTask' = [fileTask EXCEPT ![t] = r]
  BY <1>3, <1>4
<1> QED
  BY <1>2, <1>5, <1>6, <1>7, <1>8, WaitStep

LEMMA FileStepsKept ==
  ASSUME FilesKnown, NEW t \in FileTask, FileSteps(t) PROVE FilesKnown'
  BY ValidatesKept, FailsKept, SucceedsKept, PreparesKept, ClearsKept, MovesKept, StagesKept, CopiesKept,
     PublishesKept, CommitsKept, RemovesSourceKept, ContinuesKept, HidesKept, MarksKept, ErasesKept, CleansKept
     DEF FileSteps

LEMMA FilesKept ==
  ASSUME FilesKnown, [FileNext]_fileVars PROVE FilesKnown'
<1>1. CASE UNCHANGED fileVars
  <2>1. UNCHANGED <<files, stagingFile, fileTask, saved, chain, loading, given, early, crossed>>
    BY <1>1 DEF fileVars
  <2>2. TaskTypes' /\ WaitKnown' /\ NothingLost'
    BY <2>1 DEF FilesKnown, TaskTypes, WaitKnown, NothingLost
  <2>3. RunsKnown' /\ RecoveryKnown'
    BY <2>1 DEF FilesKnown, RunsKnown, Working, Begun, RecoveryKnown, CanRecover
  <2>4. WorkKnown'
    BY <2>1 DEF FilesKnown, WorkKnown, Working, AtKnown, SaysOf, From, Onto, Begun
  <2> QED
    BY <2>2, <2>3, <2>4 DEF FilesKnown
<1>2. CASE \E t \in FileTask, q \in FileRequest : FileStart(t, q)
  BY <1>2, StartKept
<1>3. ASSUME NEW t \in FileTask,
             FileCancel(t) \/ FileQueueing(t) \/ FileSteps(t) \/ FileRecovers(t) \/ FileLoads(t)
      PROVE  FilesKnown'
  BY <1>3, CancelsKept, FileStepsKept, RecoversKept, LoadsKept, SavesKept, CancelSavesKept, BeginsKept,
     CompletesKept DEF FileQueueing
<1> QED
  BY <1>1, <1>2, <1>3, CrashKept DEF FileNext

LEMMA FilesKnownSafe ==
  ASSUME FilesKnown PROVE FilesSafe
<1>1. OneTaskWorks
  <2> SUFFICES ASSUME NEW t \in FileTask, NEW u \in FileTask,
                      fileTask[t].at \notin {"none", "new", "saved", "ended"},
                      fileTask[u].at \notin {"none", "new", "saved", "ended"}
      PROVE  t = u
    BY DEF OneTaskWorks
  <2>1. \A v \in {t, u} : fileTask[v] \in Task \union {Unused} /\ fileTask[v].at # "none"
    BY DEF FilesKnown, TaskTypes
  <2>2. \A v \in {t, u} : fileTask[v].at \in Work
    BY <2>1 DEF Task, Unused
  <2> QED
    BY <2>2 DEF FilesKnown, WorkKnown, Working
<1>2. StagingRemoved
  BY DEF FilesKnown, RecoveryKnown, CanRecover, Begun, StagingRemoved, Ended
<1> QED
  BY <1>1, <1>2 DEF FilesKnown, FilesSafe

LEMMA FilesKnownAlways ==
  FileInit /\ [][FileNext]_fileVars => []FilesKnown
BY FilesInitial, FilesKept, PTL

(* FilesSafe: no data are lost that no task was asked to delete or to       *)
(* overwrite, two tasks never work at once, and nothing staged is left       *)
(* behind, whatever is interrupted, cancelled, queued again or recovered;    *)
(* but for what the recovery of a task takes while one that a start queued   *)
(* again has begun before that recovery (tasks.mjs, initialize).             *)
THEOREM FilesStaySafe ==
  FileInit /\ [][FileNext]_fileVars => []FilesSafe
BY FilesKnownAlways, FilesKnownSafe, PTL

LEMMA HiddenTyped ==
  ASSUME TaskTypes, hidden \in [FileTask -> Data], [FileNext]_fileVars
  PROVE  hidden' \in [FileTask -> Data]
<1>1. CASE UNCHANGED hidden
  BY <1>1
<1>2. ASSUME NEW t \in FileTask, NEW q \in Data, hidden' = [hidden EXCEPT ![t] = q]
      PROVE  hidden' \in [FileTask -> Data]
  BY <1>2
<1>3. ASSUME NEW t \in FileTask, FileHides(t) PROVE hidden' \in [FileTask -> Data]
  <2>1. fileTask[t] \in Task /\ fileTask[t].left # <<>>
    BY <1>3 DEF FileHides, Proceeds, Runs, TaskTypes, Unused
  <2>2. Source(t) \in Path
    BY <2>1 DEF Source, Task
  <2> QED
    BY <1>2, <1>3, <2>2 DEF FileHides, TaskTypes
<1>4. ASSUME NEW t \in FileTask, FileErases(t) PROVE hidden' \in [FileTask -> Data]
  BY <1>2, <1>4 DEF FileErases, Data
<1>5. ASSUME NEW t \in FileTask, FileRecovers(t) PROVE hidden' \in [FileTask -> Data]
  <2>1. CASE hidden' = [hidden EXCEPT ![t] = IF "hidden" \in saved[t].lists THEN Missing ELSE @]
    <3>1. hidden[t] \in Data /\ Missing \in Data
      BY DEF Data
    <3> QED
      BY <2>1, <3>1
  <2> QED
    BY <1>1, <1>5, <2>1 DEF FileRecovers, Untouched
<1>6. ASSUME NEW t \in FileTask, FileSteps(t) \/ FileQueueing(t) \/ FileCancel(t) \/ FileLoads(t)
      PROVE  UNCHANGED hidden \/ FileHides(t) \/ FileErases(t)
  BY <1>6 DEF FileSteps, FileValidates, FileFails, FileSucceeds, FilePrepares, FileClears, FileMoves, FileStages,
              FileCopies, FilePublishes, FileCommits, FileRemovesSource, FileGoesOn, FileMarks, FileCleans,
              FileQueueing, FileSaved, FileCancelSaved, FileBegins, FileCompletes, FileCancel, FileLoads, Untouched
<1>7. ASSUME FileCrash \/ (\E t \in FileTask, r \in FileRequest : FileStart(t, r)) \/ UNCHANGED fileVars
      PROVE  UNCHANGED hidden
  BY <1>7 DEF FileCrash, FileStart, Untouched, fileVars
<1> QED
  BY <1>1, <1>3, <1>4, <1>5, <1>6, <1>7 DEF FileNext

(* The files, what is staged or hidden of them, and the tasks in memory and  *)
(* on disk are well typed, at each step and after each crash (tasks.mjs).    *)
THEOREM FilesTyped ==
  FileInit /\ [][FileNext]_fileVars => []FileType
<1> DEFINE IInv == FilesKnown /\ hidden \in [FileTask -> Data]
<1>1. FileInit => IInv
  BY FilesInitial DEF FileInit, Data
<1>2. IInv /\ [FileNext]_fileVars => IInv'
  BY FilesKept, HiddenTyped DEF FilesKnown
<1>3. IInv => FileType
  <2> SUFFICES ASSUME FilesKnown, hidden \in [FileTask -> Data] PROVE FileType
    OBVIOUS
  <2>1. ASSUME NEW r \in Task \union {Unused}
        PROVE  /\ r.status \in {"none", "queued", "running"} \union Ended
               /\ r.at \in {"none", "new", "saved", "validate", "next", "prepared", "cleared", "moved", "staged",
                            "copied", "published", "committed", "hidden", "marked", "erased", "ended"}
    BY <2>1 DEF Task, Unused, Work
  <2> QED
    BY <2>1 DEF FilesKnown, TaskTypes, Data, FileType
<1> QED
  BY <1>1, <1>2, <1>3, PTL

-----------------------------------------------------------------------------
(* The reminder in the pages of one browser.                               *)

NoticeTab == [up : BOOLEAN, visible : BOOLEAN, version : Nat, id : Nat, owns : BOOLEAN]
NoticeStore ==
  [owner : DshTabs \union {Nobody}, age : Nat, snoozed : Nat, dismissed : Nat, cleared : Nat]
NoticeStatus == [version : Nat, done : Nat]
NoticeTypes ==
  /\ tabs \in [DshTabs -> NoticeTab] /\ store \in NoticeStore
  /\ offer \in NoticeStatus /\ older \in NoticeStatus
  /\ counts \in [moves : Nat, putOffs : Nat, versions : Nat]

(* A lease that a page renewed, or renews before its timers fire again.    *)
Holds(t, s) == s.owner = t /\ (s.age = 0 \/ (s.age = 1 /\ <<t, "own">> \in due))
LeaseHeld == \A t \in DshTabs : Shows(t) => Holds(t, store)
(* A page that shows a reminder is seen and has one; timers are of pages.  *)
OwnerSeen == \A t \in DshTabs : tabs[t].owns => tabs[t].up /\ tabs[t].visible /\ tabs[t].id # 0
TimersOfPages ==
  \A t \in DshTabs : t \in heard \/ <<t, "lease">> \in due \/ <<t, "own">> \in due => tabs[t].up
NoticeInv == NoticeTypes /\ LeaseHeld /\ OwnerSeen /\ TimersOfPages

(* The empty lease is in no page's name.                                   *)
PagesNamed == Nobody \notin DshTabs

LEMMA TimersKept ==
  ASSUME TimersOfPages, \A u \in DshTabs : tabs[u].up => tabs'[u].up, heard' \subseteq heard \union Alive,
         due' \subseteq due \union (Alive \X {"lease", "own"})
  PROVE  TimersOfPages'
BY DEF TimersOfPages, Alive

LEMMA RenderedHolds ==
  ASSUME PagesNamed, NoticeTypes, OwnerSeen, NEW t \in DshTabs, NEW page \in NoticeTab, page.up,
         NEW s \in NoticeStore, Rendered(t, page, s),
         \A u \in DshTabs \ {t} : Shows(u) => Holds(u, s),
         \A u \in DshTabs \ {t} : <<u, "own">> \in due => <<u, "own">> \in due'
  PROVE  /\ tabs' \in [DshTabs -> NoticeTab] /\ store' \in NoticeStore
         /\ LeaseHeld' /\ OwnerSeen' /\ \A u \in DshTabs : tabs[u].up => tabs'[u].up
<1> DEFINE id == Eligible(page.version, s)
           owns == id # 0 /\ page.visible /\ Available(t, id, s)
<1>1. id \in Nat /\ owns \in BOOLEAN
  BY DEF Eligible, NoticeTab
<1>2. /\ tabs' = [tabs EXCEPT ![t] = [page EXCEPT !.id = id, !.owns = owns]]
      /\ store' = IF owns THEN [s EXCEPT !.owner = t, !.age = 0] ELSE s
  BY DEF Rendered
<1>3. owns => id # 0 /\ page.visible
  OBVIOUS
<1>4. ASSUME owns, NEW u \in DshTabs \ {t}, Shows(u) PROVE FALSE
  <2>1. s.owner = u /\ (s.age = 0 \/ s.age = 1)
    BY <1>4 DEF Holds
  <2>2. s.owner \in {t, Nobody} \/ s.age >= Expired
    BY <1>4 DEF Available
  <2> QED BY <2>1, <2>2 DEF Expired, PagesNamed
<1> HIDE DEF id, owns
<1>5. tabs' \in [DshTabs -> NoticeTab] /\ store' \in NoticeStore
  BY <1>1, <1>2 DEF NoticeTypes, NoticeTab, NoticeStore
<1>6. /\ tabs'[t].id = id /\ tabs'[t].owns = owns
      /\ tabs'[t].up = page.up /\ tabs'[t].visible = page.visible
      /\ \A u \in DshTabs \ {t} : tabs'[u] = tabs[u]
  BY <1>2 DEF NoticeTypes, NoticeTab
<1>7. OwnerSeen'
  BY <1>3, <1>6 DEF OwnerSeen
<1>8. LeaseHeld'
  <2> SUFFICES ASSUME NEW u \in DshTabs, Shows(u)' PROVE Holds(u, store)'
    BY DEF LeaseHeld
  <2>1. CASE owns
    <3>1. u = t
      BY <1>4, <1>6, <2>1 DEF Shows
    <3>2. store'.owner = t /\ store'.age = 0
      BY <1>2, <2>1 DEF NoticeStore
    <3> QED BY <3>1, <3>2 DEF Holds
  <2>2. CASE ~owns
    <3>1. u # t /\ Shows(u)
      BY <1>6, <2>2 DEF Shows
    <3>2. Holds(u, s) /\ store' = s
      BY <1>2, <2>2, <3>1
    <3> QED BY <3>1, <3>2 DEF Holds
  <2> QED BY <2>1, <2>2
<1>9. \A u \in DshTabs : tabs[u].up => tabs'[u].up
  BY <1>6
<1> QED BY <1>5, <1>7, <1>8, <1>9

LEMMA NoticeStarts == ASSUME NoticeInit PROVE NoticeInv
BY DEF NoticeInit, NoticeInv, NoticeTypes, NoticeTab, NoticeStore, NoticeStatus, NewTab, LeaseHeld, Shows,
       OwnerSeen, TimersOfPages

LEMMA PlatformHolds == ASSUME NoticeInv, Offered \/ Updated \/ SnoozeEnds PROVE NoticeInv'
<1>1. NoticeTypes'
  BY DEF NoticeInv, NoticeTypes, NoticeStatus, NoticeStore, Offered, Updated, SnoozeEnds, Count
<1>2. /\ UNCHANGED <<tabs, due, heard>>
      /\ store'.owner = store.owner /\ store'.age = store.age
  BY DEF NoticeInv, NoticeTypes, NoticeStore, Offered, Updated, SnoozeEnds
<1> QED BY <1>1, <1>2 DEF NoticeInv, LeaseHeld, OwnerSeen, TimersOfPages, Shows, Holds

LEMMA ClearedKeepsLease ==
  ASSUME NoticeTypes, NEW status \in Known
  PROVE  /\ status \in NoticeStatus /\ ClearSatisfied(status) \in NoticeStore
         /\ ClearSatisfied(status).owner = store.owner /\ ClearSatisfied(status).age = store.age
BY DEF NoticeTypes, NoticeStore, NoticeStatus, Known, ClearSatisfied

LEMMA RefreshHolds == ASSUME PagesNamed, NoticeInv, NEW t \in DshTabs, Refresh(t) PROVE NoticeInv'
<1>1. PICK status \in Known :
        LET s == ClearSatisfied(status)
            page == [tabs[t] EXCEPT !.version = status.version] IN
        IF Eligible(status.version, s) # tabs[t].id THEN Rendered(t, page, s)
        ELSE store' = s /\ tabs' = [tabs EXCEPT ![t] = page]
  BY DEF Refresh
<1> DEFINE s == ClearSatisfied(status)
           page == [tabs[t] EXCEPT !.version = status.version]
<1>2. status \in NoticeStatus /\ s \in NoticeStore /\ s.owner = store.owner /\ s.age = store.age
  BY ClearedKeepsLease DEF NoticeInv
<1>3. page \in NoticeTab /\ \A f \in {"up", "visible", "id", "owns"} : page[f] = tabs[t][f]
  BY <1>2 DEF NoticeInv, NoticeTypes, NoticeTab, NoticeStatus
<1>4. UNCHANGED <<offer, older, due, counts>> /\ tabs[t].up /\ heard' \subseteq heard \union Alive
  BY DEF Refresh, Tell
<1>5. \A u \in DshTabs : Shows(u) => Holds(u, s)
  BY <1>2 DEF NoticeInv, LeaseHeld, Holds
<1>6. \/ Rendered(t, page, s)
      \/ store' = s /\ tabs' = [tabs EXCEPT ![t] = page]
  BY <1>1
<1> HIDE DEF s, page
<1>7. /\ tabs' \in [DshTabs -> NoticeTab] /\ store' \in NoticeStore
      /\ LeaseHeld' /\ OwnerSeen' /\ \A u \in DshTabs : tabs[u].up => tabs'[u].up
  <2>1. CASE Rendered(t, page, s)
    <3>1. page.up
      BY <1>3, <1>4
    <3> QED BY <1>2, <1>3, <1>4, <1>5, <2>1, <3>1, RenderedHolds DEF NoticeInv
  <2>2. CASE store' = s /\ tabs' = [tabs EXCEPT ![t] = page]
    <3>1. tabs' \in [DshTabs -> NoticeTab] /\ store' \in NoticeStore
      BY <1>2, <1>3, <2>2 DEF NoticeInv, NoticeTypes
    <3>2. \A u \in DshTabs : \A f \in {"up", "visible", "id", "owns"} : tabs'[u][f] = tabs[u][f]
      BY <1>3, <2>2 DEF NoticeInv, NoticeTypes
    <3>3. OwnerSeen' /\ \A u \in DshTabs : tabs[u].up => tabs'[u].up
      BY <3>2 DEF NoticeInv, OwnerSeen
    <3>4. \A u \in DshTabs : Shows(u)' => Shows(u)
      BY <3>2 DEF Shows
    <3>5. LeaseHeld'
      BY <1>4, <1>5, <2>2, <3>4 DEF LeaseHeld, Holds
    <3> QED BY <3>1, <3>3, <3>5
  <2> QED BY <1>6, <2>1, <2>2
<1>8. TimersOfPages'
  BY <1>4, <1>7, TimersKept DEF NoticeInv
<1> QED BY <1>4, <1>7, <1>8 DEF NoticeInv, NoticeTypes

LEMMA TimerHolds ==
  ASSUME PagesNamed, NoticeInv, NEW t \in DshTabs, LeaseTimer(t) \/ StorageChanged(t) PROVE NoticeInv'
<1>1. Rendered(t, tabs[t], store) /\ UNCHANGED <<offer, older, counts>>
  BY DEF LeaseTimer, StorageChanged
<1>2. /\ \A u \in DshTabs : <<u, "own">> \in due => <<u, "own">> \in due'
      /\ heard' \subseteq heard \union Alive /\ due' \subseteq due /\ tabs[t].up
  BY DEF LeaseTimer, StorageChanged, Tell, NoticeInv, TimersOfPages
<1>3. tabs[t] \in NoticeTab /\ store \in NoticeStore
  BY DEF NoticeInv, NoticeTypes
<1>4. /\ tabs' \in [DshTabs -> NoticeTab] /\ store' \in NoticeStore
      /\ LeaseHeld' /\ OwnerSeen' /\ \A u \in DshTabs : tabs[u].up => tabs'[u].up
  BY <1>1, <1>2, <1>3, RenderedHolds DEF NoticeInv, LeaseHeld
<1>5. TimersOfPages'
  BY <1>2, <1>4, TimersKept DEF NoticeInv
<1> QED BY <1>1, <1>4, <1>5 DEF NoticeInv, NoticeTypes

LEMMA OwnerTimerHolds == ASSUME PagesNamed, NoticeInv, NEW t \in DshTabs, OwnerTimer(t) PROVE NoticeInv'
<1>1. /\ UNCHANGED <<offer, older, tabs, counts>> /\ due' = due \ {<<t, "own">>} /\ tabs[t].up
      /\ store' = IF tabs[t].owns THEN [store EXCEPT !.owner = t, !.age = 0] ELSE store
      /\ heard' \subseteq heard \union Alive
  BY DEF OwnerTimer, Tell, NoticeInv, TimersOfPages
<1>2. store' \in NoticeStore
  BY <1>1 DEF NoticeInv, NoticeTypes, NoticeStore
<1>3. LeaseHeld'
  <2> SUFFICES ASSUME NEW u \in DshTabs, Shows(u)' PROVE Holds(u, store)'
    BY DEF LeaseHeld
  <2>1. Shows(u)
    BY <1>1 DEF Shows
  <2>2. Holds(u, store)
    BY <2>1 DEF NoticeInv, LeaseHeld
  <2>3. CASE u = t
    <3>1. store'.owner = t /\ store'.age = 0
      BY <1>1, <2>1, <2>3 DEF Shows, NoticeInv, NoticeTypes, NoticeStore
    <3> QED BY <2>3, <3>1 DEF Holds
  <2>4. CASE u # t
    <3>1. ~tabs[t].owns
      <4> SUFFICES ASSUME tabs[t].owns PROVE FALSE
        OBVIOUS
      <4>1. Shows(t)
        BY DEF NoticeInv, OwnerSeen, Shows
      <4> QED BY <2>2, <2>4, <4>1 DEF NoticeInv, LeaseHeld, Holds
    <3>2. store' = store /\ (<<u, "own">> \in due => <<u, "own">> \in due')
      BY <1>1, <2>4, <3>1
    <3> QED BY <2>2, <3>2 DEF Holds
  <2> QED BY <2>3, <2>4
<1>4. TimersOfPages'
  BY <1>1, TimersKept DEF NoticeInv
<1> QED BY <1>1, <1>2, <1>3, <1>4 DEF NoticeInv, NoticeTypes, OwnerSeen

LEMMA PutOffHolds ==
  ASSUME PagesNamed, NoticeInv, NEW t \in DshTabs, NEW forGood \in BOOLEAN, PutOff(t, forGood)
  PROVE  NoticeInv'
<1> DEFINE s == [(IF forGood THEN [store EXCEPT !.dismissed = tabs[t].id]
                  ELSE [store EXCEPT !.snoozed = tabs[t].id]) EXCEPT !.owner = Nobody, !.age = 0]
<1>1. /\ Rendered(t, tabs[t], s) /\ UNCHANGED <<offer, older, due>> /\ Count("putOffs")
      /\ tabs[t].up /\ Shows(t) /\ heard' \subseteq heard \union Alive
  BY DEF PutOff, Tell, Shows
<1>2. s \in NoticeStore /\ tabs[t] \in NoticeTab
  BY DEF NoticeInv, NoticeTypes, NoticeStore, NoticeTab
<1> HIDE DEF s
<1>3. \A u \in DshTabs \ {t} : ~Shows(u)
  BY <1>1 DEF NoticeInv, LeaseHeld, Holds
<1>4. /\ tabs' \in [DshTabs -> NoticeTab] /\ store' \in NoticeStore
      /\ LeaseHeld' /\ OwnerSeen' /\ \A u \in DshTabs : tabs[u].up => tabs'[u].up
  BY <1>1, <1>2, <1>3, RenderedHolds DEF NoticeInv
<1>5. TimersOfPages' /\ counts' \in [moves : Nat, putOffs : Nat, versions : Nat]
  BY <1>1, <1>4, TimersKept DEF NoticeInv, NoticeTypes, Count
<1> QED BY <1>1, <1>4, <1>5 DEF NoticeInv, NoticeTypes

LEMMA VisibilityHolds ==
  ASSUME PagesNamed, NoticeInv, NEW t \in DshTabs, VisibilityChanges(t) PROVE NoticeInv'
<1> DEFINE page == [tabs[t] EXCEPT !.visible = ~@]
           s == IF tabs[t].visible THEN Released(t) ELSE store
<1>1. /\ Rendered(t, page, s) /\ UNCHANGED <<offer, older>> /\ Count("moves") /\ tabs[t].up
      /\ heard' \subseteq heard \union Alive /\ due' = {d \in due : d[1] # t}
  BY DEF VisibilityChanges, Tell, Moving
<1>2. page \in NoticeTab /\ page.up /\ s \in NoticeStore
  BY <1>1 DEF NoticeInv, NoticeTypes, NoticeTab, NoticeStore, Released
<1>3. \A u \in DshTabs \ {t} : Shows(u) => Holds(u, s)
  <2> SUFFICES ASSUME NEW u \in DshTabs \ {t}, Shows(u) PROVE Holds(u, s)
    OBVIOUS
  <2>1. Holds(u, store)
    BY DEF NoticeInv, LeaseHeld
  <2>2. s = store
    BY <2>1 DEF Released, Holds
  <2> QED BY <2>1, <2>2
<1>4. \A u \in DshTabs \ {t} : <<u, "own">> \in due => <<u, "own">> \in due'
  BY <1>1
<1> HIDE DEF page, s
<1>5. /\ tabs' \in [DshTabs -> NoticeTab] /\ store' \in NoticeStore
      /\ LeaseHeld' /\ OwnerSeen' /\ \A u \in DshTabs : tabs[u].up => tabs'[u].up
  BY <1>1, <1>2, <1>3, <1>4, RenderedHolds DEF NoticeInv
<1>6. TimersOfPages' /\ counts' \in [moves : Nat, putOffs : Nat, versions : Nat]
  BY <1>1, <1>5, TimersKept DEF NoticeInv, NoticeTypes, Count
<1> QED BY <1>1, <1>5, <1>6 DEF NoticeInv, NoticeTypes

LEMMA PageHolds == ASSUME NoticeInv, NEW t \in DshTabs, Dies(t) \/ Opens(t) PROVE NoticeInv'
<1>1. /\ \E up \in BOOLEAN : tabs' = [tabs EXCEPT ![t] = [NewTab EXCEPT !.up = up]]
      /\ UNCHANGED <<offer, older, store>> /\ \A u \in DshTabs \ {t} : <<u, "own">> \in due => <<u, "own">> \in due'
  BY DEF Dies, Opens, NewTab
<1>2. counts' \in [moves : Nat, putOffs : Nat, versions : Nat]
  BY DEF NoticeInv, NoticeTypes, Dies, Opens, Moving, Count
<1>3. tabs' \in [DshTabs -> NoticeTab] /\ ~tabs'[t].owns /\ \A u \in DshTabs \ {t} : tabs'[u] = tabs[u]
  <2> PICK up \in BOOLEAN : tabs' = [tabs EXCEPT ![t] = [NewTab EXCEPT !.up = up]]
    BY <1>1
  <2> DEFINE page == [NewTab EXCEPT !.up = up]
  <2>1. page \in NoticeTab /\ page.owns = FALSE
    BY DEF NewTab, NoticeTab
  <2>2. tabs' = [tabs EXCEPT ![t] = page]
    OBVIOUS
  <2> HIDE DEF page
  <2> QED BY <2>1, <2>2 DEF NoticeInv, NoticeTypes
<1>4. LeaseHeld' /\ OwnerSeen'
  BY <1>1, <1>3 DEF NoticeInv, LeaseHeld, OwnerSeen, Shows, Holds
<1>5. TimersOfPages'
  BY <1>3 DEF NoticeInv, NoticeTypes, TimersOfPages, Dies, Opens
<1> QED BY <1>1, <1>2, <1>3, <1>4, <1>5 DEF NoticeInv, NoticeTypes

(* The timers of the last period have all fired: the owner renewed.        *)
LEMMA PeriodHolds == ASSUME PagesNamed, NoticeInv, Period PROVE NoticeInv'
<1>1. /\ due = {} /\ due' = {t \in Alive : tabs[t].visible} \X {"lease", "own"}
      /\ store' = IF store.owner = Nobody THEN store
                  ELSE [store EXCEPT !.age = IF @ < Expired THEN @ + 1 ELSE @]
      /\ UNCHANGED <<offer, older, tabs, heard, counts>>
  BY DEF Period
<1>2. store' \in NoticeStore
  BY <1>1 DEF NoticeInv, NoticeTypes, NoticeStore, Expired
<1>3. LeaseHeld'
  <2> SUFFICES ASSUME NEW t \in DshTabs, Shows(t)' PROVE Holds(t, store)'
    BY DEF LeaseHeld
  <2>1. Shows(t)
    BY <1>1 DEF Shows
  <2>2. store.owner = t /\ store.age = 0
    BY <1>1, <2>1 DEF NoticeInv, LeaseHeld, Holds
  <2>3. store'.owner = t /\ store'.age = 1
    BY <1>1, <2>2 DEF NoticeInv, NoticeTypes, NoticeStore, PagesNamed, Expired
  <2>4. <<t, "own">> \in due'
    BY <1>1, <2>1 DEF Shows, Alive
  <2> QED BY <2>3, <2>4 DEF Holds
<1>4. TimersOfPages'
  BY <1>1, TimersKept DEF NoticeInv
<1> QED BY <1>1, <1>2, <1>3, <1>4 DEF NoticeInv, NoticeTypes, OwnerSeen

LEMMA NoticeStep == ASSUME PagesNamed, NoticeInv, [NoticeNext]_noticeVars PROVE NoticeInv'
<1>1. ASSUME NEW t \in DshTabs, NoticeTimers(t) PROVE NoticeInv'
  BY <1>1, RefreshHolds, TimerHolds, OwnerTimerHolds DEF NoticeTimers
<1>2. CASE UNCHANGED noticeVars
  BY <1>2 DEF noticeVars, NoticeInv, NoticeTypes, LeaseHeld, OwnerSeen, TimersOfPages, Shows, Holds
<1> QED BY <1>1, <1>2, PlatformHolds, PeriodHolds, PutOffHolds, VisibilityHolds, PageHolds DEF NoticeNext

(* However pages are hidden, shown, lost and opened, and whichever of their *)
(* timers and storage events come first, at most one visible page shows the *)
(* reminder: the lease in the browser's storage excludes the others (the    *)
(* effects of UpdateReminder in client.js).                                 *)
THEOREM OneNoticeShown == ASSUME PagesNamed PROVE NoticeSpec => []OneNotice
<1>1. NoticeSpec => []NoticeInv
  BY NoticeStarts, NoticeStep, PTL DEF NoticeSpec
<1>2. ASSUME NoticeInv PROVE OneNotice
  BY <1>2 DEF NoticeInv, LeaseHeld, Holds, OneNotice
<1> QED BY <1>1, <1>2, PTL

(* A page that dismisses for good has a version to dismiss.                *)
LEMMA DismissedByName ==
  ASSUME NoticeInv, NEW t \in DshTabs, NEW forGood \in BOOLEAN, PutOff(t, forGood), store.dismissed # 0
  PROVE  store'.dismissed # 0
<1>1. tabs[t].id # 0
  BY DEF NoticeInv, OwnerSeen, PutOff
<1> QED BY <1>1 DEF PutOff, Rendered, NoticeInv, NoticeTypes, NoticeStore

(* Whatever page hears of an update that succeeded, and however late: what  *)
(* was dismissed for good is taken back only with the report of a success   *)
(* that it was not taken back for last (clearSatisfiedDismissals).          *)
THEOREM DismissalsStay == ASSUME PagesNamed PROVE NoticeSpec => DismissedStays
<1>1. NoticeSpec => []NoticeInv
  BY NoticeStarts, NoticeStep, PTL DEF NoticeSpec
<1>2. NoticeInv /\ [NoticeNext]_noticeVars
        => [store.dismissed # 0 /\ store'.dismissed = 0 => store'.cleared \notin {0, store.cleared}]_noticeVars
  <2> SUFFICES ASSUME NoticeInv, store.dismissed # 0, store'.dismissed = 0, NoticeNext
               PROVE  store'.cleared \notin {0, store.cleared}
    OBVIOUS
  <2>1. ASSUME NEW t \in DshTabs, Refresh(t) PROVE store'.cleared \notin {0, store.cleared}
    <3>1. PICK status \in Known : store'.dismissed = ClearSatisfied(status).dismissed
                               /\ store'.cleared = ClearSatisfied(status).cleared
      <4>1. PICK status \in Known :
              LET s == ClearSatisfied(status)
                  page == [tabs[t] EXCEPT !.version = status.version] IN
              IF Eligible(status.version, s) # tabs[t].id THEN Rendered(t, page, s)
              ELSE store' = s /\ tabs' = [tabs EXCEPT ![t] = page]
        BY <2>1 DEF Refresh
      <4>2. ClearSatisfied(status) \in NoticeStore
        BY ClearedKeepsLease DEF NoticeInv
      <4> QED BY <4>1, <4>2 DEF Rendered, NoticeStore
    <3> QED BY <3>1 DEF ClearSatisfied, NoticeInv, NoticeTypes, NoticeStore
  <2>2. ASSUME NEW t \in DshTabs, LeaseTimer(t) \/ OwnerTimer(t) \/ StorageChanged(t) PROVE FALSE
    BY <2>2 DEF LeaseTimer, OwnerTimer, StorageChanged, Rendered, NoticeInv, NoticeTypes, NoticeStore
  <2>3. ASSUME NEW t \in DshTabs, VisibilityChanges(t) PROVE FALSE
    BY <2>3 DEF VisibilityChanges, Released, Rendered, NoticeInv, NoticeTypes, NoticeStore
  <2>4. ASSUME NEW t \in DshTabs, Dies(t) \/ Opens(t) PROVE FALSE
    BY <2>4 DEF Dies, Opens
  <2>5. ~Offered /\ ~Updated /\ ~SnoozeEnds /\ ~Period
    BY DEF Offered, Updated, SnoozeEnds, Period, NoticeInv, NoticeTypes, NoticeStore
  <2>6. \A t \in DshTabs, forGood \in BOOLEAN : ~PutOff(t, forGood)
    BY DismissedByName
  <2> QED BY <2>1, <2>2, <2>3, <2>4, <2>5, <2>6 DEF NoticeNext, NoticeTimers
<1> QED BY <1>1, <1>2, PTL DEF NoticeSpec, DismissedStays
=============================================================================
