-------------------------- MODULE ManagementTasks --------------------------
(***************************************************************************)
(* What keeps the operations a user starts apart: the task slots of the     *)
(* management service (services/management/server.mjs), the coordinator's  *)
(* one task, and the maintenance lease under which Stage-0's file manager  *)
(* changes managed paths (stage0/lib/maintenance-server.mjs).  The two     *)
(* processes look at each other's state and then act, with an await between *)
(* the look and the act.                                                    *)
(***************************************************************************)
EXTENDS Naturals, FiniteSets

CONSTANTS
  ManagedJob,   \* managed file changes a user may ask Stage-0 for
  MaxOperations, MaxManagementRestarts

VARIABLES
  taskSlots,   \* the slots of the management service that hold a task
  arriving,    \* requests that passed their first check and wait for something
  updating,    \* the coordinator's task: none, planning (no status yet), working
  origin,      \* who asked for it
  resuming,    \* a start has an interrupted update to go on with
  job,         \* [ManagedJob -> ...]: file changes in Stage-0
  lease,       \* maintenanceLeasePath exists
  overtaken,   \* history: what began between Stage-0's look and its lease
  operations, managementRestarts  \* what is left of the bounds

managementVars == <<taskSlots, arriving, updating, origin, resuming, job, lease,
                    overtaken, operations, managementRestarts>>
broker == <<job, lease, overtaken>>
coordination == <<updating, origin, resuming>>

Immediate == {"lifecycle", "reset", "plugin", "systemSkill"}
Validated == {"userSkill", "userPlugin"}
Kind == Immediate \union Validated

(* The status Stage-0 looks at does not show the work on Skills. *)
Shown == Kind \ {"systemSkill", "userSkill"}

ManagementType ==
  /\ taskSlots \subseteq Kind
  /\ arriving \subseteq Validated \union {"rollback"}
  /\ updating \in {"none", "planning", "working"}
  /\ origin \in {"user", "rollback", "resumed"}
  /\ resuming \in BOOLEAN
  /\ job \in [ManagedJob -> {"none", "probed", "queued", "running"}]
  /\ lease \in BOOLEAN
  /\ overtaken \in [ManagedJob -> SUBSET Kind]

ManagementInit ==
  /\ taskSlots = {} /\ arriving = {}
  /\ updating = "none" /\ origin = "user" /\ resuming = FALSE
  /\ job = [j \in ManagedJob |-> "none"] /\ lease = FALSE
  /\ overtaken = [j \in ManagedJob |-> {}]
  /\ operations = MaxOperations /\ managementRestarts = MaxManagementRestarts

(* requireRuntimeIdle; whether an update runs is asked beside it, and that  *)
(* one is about to be resumed is asked nowhere.                             *)
RuntimeIdle == taskSlots = {} /\ ~lease
Asked ==
  /\ operations > 0 /\ operations' = operations - 1
  /\ RuntimeIdle

(* A task takes its slot. *)
Begins(kind) ==
  /\ taskSlots' = taskSlots \union {kind}
  /\ overtaken' = [j \in ManagedJob |->
       IF job[j] = "probed" THEN overtaken[j] \union {kind} ELSE overtaken[j]]

StartOperation(kind) ==
  /\ Asked /\ updating = "none"
  /\ Begins(kind)
  /\ UNCHANGED <<arriving, coordination, job, lease, managementRestarts>>

StartLifecycle == StartOperation("lifecycle")
StartRuntimeReset == StartOperation("reset")
StartPluginAction == StartOperation("plugin")
StartSystemSkillAction == StartOperation("systemSkill")

(* User Skills and User Plugins are validated first, and checked again. *)
Validate(kind) ==
  /\ Asked /\ updating = "none" /\ kind \notin arriving
  /\ arriving' = arriving \union {kind}
  /\ UNCHANGED <<taskSlots, coordination, broker, managementRestarts>>

DefectStartValidated(kind) ==
  /\ kind \in arriving
  /\ arriving' = arriving \ {kind}
  /\ Begins(kind)
  /\ UNCHANGED <<coordination, job, lease, operations, managementRestarts>>

StartValidated(kind) ==
  /\ kind \in arriving
  /\ arriving' = arriving \ {kind}
  /\ IF RuntimeIdle /\ updating = "none" THEN Begins(kind)
     ELSE UNCHANGED <<taskSlots, overtaken>>
  /\ UNCHANGED <<coordination, job, lease, operations, managementRestarts>>

StartUserSkillAction == Validate("userSkill") \/ StartValidated("userSkill")
StartUserPluginAction == Validate("userPlugin") \/ StartValidated("userPlugin")

OperationEnds(kind) ==
  /\ kind \in taskSlots /\ taskSlots' = taskSlots \ {kind}
  /\ UNCHANGED <<arriving, coordination, broker, operations, managementRestarts>>

StartUpdate ==
  /\ Asked /\ updating = "none"
  /\ updating' = "planning" /\ origin' = "user"
  /\ UNCHANGED <<taskSlots, arriving, resuming, broker, managementRestarts>>

(* A rollback is checked before its body is read, and only the coordinator  *)
(* is asked afterwards.                                                     *)
AskRollback ==
  /\ Asked /\ "rollback" \notin arriving
  /\ arriving' = arriving \union {"rollback"}
  /\ UNCHANGED <<taskSlots, coordination, broker, managementRestarts>>

(* startTask refuses when there is a task. *)
StartRollback ==
  /\ "rollback" \in arriving /\ arriving' = arriving \ {"rollback"}
  /\ IF updating = "none" THEN updating' = "planning" /\ origin' = "rollback"
     ELSE UNCHANGED <<updating, origin>>
  /\ UNCHANGED <<taskSlots, resuming, broker, operations, managementRestarts>>

UpdateWorks ==
  /\ updating = "planning" /\ updating' = "working"
  /\ UNCHANGED <<taskSlots, arriving, origin, resuming, broker, operations, managementRestarts>>

UpdateEnds ==
  /\ updating # "none" /\ updating' = "none"
  /\ UNCHANGED <<taskSlots, arriving, origin, resuming, broker, operations, managementRestarts>>

-----------------------------------------------------------------------------
(* Managed file changes.                                                   *)

(* The status file shows an update that works, or that a start found in it. *)
UpdateShown ==
  updating = "working" \/ resuming \/ (updating = "planning" /\ origin = "resumed")

(* platformBusy: what the status of Management shows. *)
PlatformBusy == UpdateShown \/ taskSlots \intersect Shown # {}

Probe(j) ==
  /\ job[j] = "none" /\ ~PlatformBusy
  /\ operations > 0 /\ operations' = operations - 1
  /\ job' = [job EXCEPT ![j] = "probed"]
  /\ overtaken' = [overtaken EXCEPT ![j] = {}]
  /\ UNCHANGED <<taskSlots, arriving, coordination, lease, managementRestarts>>

(* The answer is not asked for again; open(path, 'wx') refuses a second one. *)
AcquireLease(j) ==
  /\ job[j] = "probed"
  /\ job' = [job EXCEPT ![j] = IF lease THEN "none" ELSE "queued"]
  /\ lease' = TRUE
  /\ UNCHANGED <<taskSlots, arriving, coordination, overtaken, operations, managementRestarts>>

RefuseProbed(j) ==
  /\ job[j] = "probed" /\ job' = [job EXCEPT ![j] = "none"]
  /\ UNCHANGED <<taskSlots, arriving, coordination, lease, overtaken, operations, managementRestarts>>

RunJob(j) ==
  /\ job[j] = "queued" /\ job' = [job EXCEPT ![j] = "running"]
  /\ UNCHANGED <<taskSlots, arriving, coordination, lease, overtaken, operations, managementRestarts>>

EndJob(j) ==
  /\ job[j] \in {"queued", "running"}
  /\ job' = [job EXCEPT ![j] = "none"] /\ lease' = FALSE
  /\ UNCHANGED <<taskSlots, arriving, coordination, overtaken, operations, managementRestarts>>

-----------------------------------------------------------------------------
(* Management restarts; Stage-0 and its lease stay.  The slot of a User     *)
(* Plugin transaction that was restarting DSH is taken again before the     *)
(* first request; an update whose status is not final is resumed later,     *)
(* unless its journal tells that it is over.                                *)
ManagementRestarts ==
  /\ managementRestarts > 0 /\ managementRestarts' = managementRestarts - 1
  /\ taskSlots' \in {{}, taskSlots \intersect {"userPlugin"}}
  /\ resuming' \in {FALSE, UpdateShown}
  /\ arriving' = {} /\ updating' = "none"
  /\ UNCHANGED <<origin, broker, operations>>

(* Nothing asks whether something else runs, but the coordinator itself. *)
ResumeUpdate ==
  /\ resuming /\ resuming' = FALSE
  /\ IF updating = "none" THEN updating' = "planning" /\ origin' = "resumed"
     ELSE UNCHANGED <<updating, origin>>
  /\ UNCHANGED <<taskSlots, arriving, broker, operations, managementRestarts>>

OperationsGoOn ==
  \/ \E kind \in taskSlots : OperationEnds(kind)
  \/ StartRollback \/ UpdateWorks \/ UpdateEnds \/ ResumeUpdate
  \/ \E j \in ManagedJob : RefuseProbed(j) \/ EndJob(j)

ManagementNext ==
  \/ StartLifecycle \/ StartRuntimeReset \/ StartPluginAction \/ StartSystemSkillAction
  \/ StartUserSkillAction \/ StartUserPluginAction
  \/ StartUpdate \/ AskRollback
  \/ \E j \in ManagedJob : Probe(j) \/ AcquireLease(j) \/ RunJob(j)
  \/ OperationsGoOn \/ ManagementRestarts
ManagementSpec == ManagementInit /\ [][ManagementNext]_managementVars

-----------------------------------------------------------------------------
(* Two operations never hold slots of the service at once, whatever was     *)
(* awaited between the checks of a request and across restarts.             *)
SlotsExclusive == Cardinality(taskSlots) <= 1

(* Nor does one run beside an update that a user started: only a rollback,  *)
(* whose body is awaited after its check, and an update that a start        *)
(* resumes do not look at the slots any more when they begin.               *)
UpdatesApart == (taskSlots # {} /\ updating # "none") => origin # "user"

(* While a managed file change is queued or runs, it is the only one and   *)
(* the lease says so.                                                      *)
LeaseCovers ==
  /\ \A j \in ManagedJob : job[j] \in {"queued", "running"} => lease
  /\ Cardinality({j \in ManagedJob : job[j] \in {"queued", "running"}}) <= 1

(* An operation that Stage-0 can see runs beside a managed file change only *)
(* if it began between Stage-0's look and its lease.                        *)
FilesNoticed ==
  \A j \in ManagedJob :
    job[j] \in {"queued", "running"} => taskSlots \intersect Shown \subseteq overtaken[j]

(* What is started beside something else was started in one of these       *)
(* windows; nothing else that Management starts meets what it must not.    *)
OperationsApart == SlotsExclusive /\ UpdatesApart /\ LeaseCovers /\ FilesNoticed

(* "Lifecycle operations are mutually exclusive with update activation,    *)
(* rollback, Runtime reset, and plugin transactions" (guide, line 418).    *)
LifecycleExclusive ==
  "lifecycle" \in taskSlots =>
    updating # "working" /\ taskSlots \intersect {"reset", "plugin", "userPlugin"} = {}
=============================================================================
