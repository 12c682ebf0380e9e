--------------------------- MODULE BootstrapSlots ---------------------------
(***************************************************************************)
(* Stage-0 and the two slots of Bootstrap (platform/stage0/index.mjs,      *)
(* lib/slots.mjs, lib/supervisor.mjs): which Bootstrap an image start      *)
(* selects, how a staged one is switched to and rolled back, how Stage-0   *)
(* ends, and what the collector may remove meanwhile.                      *)
(***************************************************************************)
EXTENDS TrustLedger, FiniteSets

CONSTANTS
  Image,         \* image builds
  ImageRecord,   \* [Image -> Record]: the Image Reference in the inventory
  SeedKeyring,   \* [Image -> Keyring]: the keyring packaged with the image
  Development,   \* the images with development authority
  Package,       \* the Records of the Bootstraps that can be staged
  Content,       \* [Record -> content of the directory, by its hash]
  Sequence,      \* [Record -> targetSequence]
  NoRecord,      \* an empty slot
  Broken,        \* the contents that never become ready
  Requester,     \* staging requests that can be in flight at the same time
  Overlapping,   \* whether a collection may overlap a staging request
  MaxStages, MaxStarts, MaxExits

Record == Package \union {ImageRecord[i] : i \in Image}

SlotsAssumption ==
  /\ ImageRecord \in [Image -> Record] /\ SeedKeyring \in [Image -> Keyring]
  /\ \A i, j \in Image : i # j => ImageRecord[i] # ImageRecord[j]
  /\ \A i \in Image : ImageRecord[i] \notin Package
  /\ Sequence \in [Record -> Nat] /\ NoRecord \notin Record
  /\ MaxStages \in Nat /\ MaxStarts \in Nat /\ MaxExits \in Nat
ASSUME SlotsAssumption

VARIABLES
  slots,     \* slots.json: [current, previous]
  records,   \* records/*.json
  assets,    \* the contents unpacked in the Bootstrap Store
  image,     \* the image the container runs
  phase,     \* where Stage-0's main program is
  queue,     \* the supervisor's transitions; the first one is running
  step,      \* the step it is at
  read,      \* the slots it read
  child,     \* this.child: [record, ready] or NoChild
  fatal,     \* the fatal promise is resolved
  proved,    \* history: the contents that have become ready and were not
             \* pushed out by an image
  staging,   \* [Requester -> [at, record]]: requests in the Trust API
  collect,   \* the running collection: [at, retained, seen]
  used       \* what has been used of the bounds

stage0 == <<phase, queue, step, read, child, fatal>>
store == <<slots, records, assets>>
requests == <<staging, collect>>
vars == <<trust, store, image, stage0, requests, proved, used>>

NoChild == [record |-> NoRecord, ready |-> FALSE]
NoStaging == [at |-> "none", record |-> NoRecord]
NoCollect == [at |-> "none", retained |-> {}, seen |-> {}]
Phases == {"down", "reconcile", "keyring", "starting", "serving", "stopping", "stopped"}

TypeOK ==
  /\ LedgerType
  /\ slots \in [current: Record \union {NoRecord}, previous: Record \union {NoRecord}]
  /\ records \subseteq Record
  /\ assets \subseteq {Content[p] : p \in Package}
  /\ image \in Image
  /\ phase \in Phases
  /\ queue \in Seq({"start", "restart", "stop"})
  /\ step \in {"begin", "launch", "waiting", "rollback", "relaunch", "rewaiting"}
  /\ read \in [current: Record \union {NoRecord}, previous: Record \union {NoRecord}]
  /\ child \in [record: Record \union {NoRecord}, ready: BOOLEAN]
  /\ fatal \in BOOLEAN /\ proved \subseteq {Content[r] : r \in Record}
  /\ staging \in [Requester -> [at: {"none", "installed", "staged"}, record: Record \union {NoRecord}]]
  /\ \A q \in Requester : (staging[q].at = "none") = (staging[q].record = NoRecord)
  /\ step # "begin" => queue # <<>>
  /\ child.ready \/ step \in {"waiting", "rewaiting"} => child.record # NoRecord
  /\ collect \in [at: {"none", "read", "listed", "pruned"}, retained: SUBSET Record, seen: SUBSET Record]
  /\ used \in [stages: 0..MaxStages, starts: 0..MaxStarts, exits: 0..MaxExits]

Init ==
  /\ LedgerInit
  /\ slots = [current |-> NoRecord, previous |-> NoRecord]
  /\ records = {} /\ assets = {}
  /\ image \in Image
  /\ phase = "down" /\ queue = <<>> /\ step = "begin" /\ read = slots
  /\ child = NoChild /\ fatal = FALSE /\ proved = {}
  /\ staging = [q \in Requester |-> NoStaging] /\ collect = NoCollect
  /\ used = [stages |-> 0, starts |-> 0, exits |-> 0]

-----------------------------------------------------------------------------
(* commit: a Record is never in both slots. *)

Commit(current, previous) ==
  slots' = [current |-> current, previous |-> IF previous = current THEN NoRecord ELSE previous]

FromImage(r) == r \notin Package

(* The process ends: the transitions, the requests and the locks are gone. *)
Ends ==
  /\ phase' = "down" /\ queue' = <<>> /\ step' = "begin" /\ read' = read
  /\ child' = NoChild /\ fatal' = FALSE
  /\ staging' = [q \in Requester |-> NoStaging] /\ collect' = NoCollect
  /\ LedgerLost

(* resolveRecord: the Record exists, and so does its directory, in this    *)
(* image or in the Store.                                                  *)
Resolves(r) ==
  /\ r \in records
  /\ IF FromImage(r) THEN r = ImageRecord[image] ELSE Content[r] \in assets

(* The container starts, with any image. *)
StartStage0(i) ==
  /\ phase = "down" /\ used.starts < MaxStarts
  /\ used' = [used EXCEPT !.starts = @ + 1]
  /\ image' = i /\ phase' = "reconcile"
  /\ UNCHANGED <<trust, store, queue, step, read, child, fatal, requests, proved>>

(* reconcileImage: the slots with the image's Record r and c selected. *)
Replaces(r, c) == image \in Development /\ Sequence[r] = 0 /\ c # r

AfterImage(r, c) ==
  IF c = NoRecord \/ Replaces(r, c) THEN [current |-> r, previous |-> NoRecord]
  ELSE IF c = r \/ (Sequence[c] > Sequence[r] /\ ~FromImage(c)) THEN slots
  ELSE [current |-> r, previous |-> c]

Conflict(r, c) ==
  c # NoRecord /\ ~Replaces(r, c) /\ Sequence[c] = Sequence[r] /\ Content[c] # Content[r]

(* History: what an image that takes a slot pushes out no longer counts.   *)
Remembered(r, c) ==
  IF c = NoRecord \/ Replaces(r, c) THEN {}
  ELSE IF AfterImage(r, c) = slots THEN proved ELSE proved \cap {Content[c]}

(* reconcileImage and current(), before which nothing else runs. *)
ReconcileImage ==
  LET r == ImageRecord[image]
      c == slots.current
  IN /\ phase = "reconcile"
     /\ UNCHANGED <<assets, image, used>>
     /\ records' = records \union {r}
     /\ \/ /\ Conflict(r, c) \/ (c # NoRecord /\ c \notin records')
           /\ Ends /\ UNCHANGED <<slots, proved>>
        \/ /\ ~Conflict(r, c) /\ (c = NoRecord \/ c \in records')
           /\ slots' = AfterImage(r, c) /\ proved' = Remembered(r, c)
           /\ IF Resolves(slots.current)'
              THEN phase' = "keyring" /\ UNCHANGED <<trust, queue, step, read, child, fatal, requests>>
              ELSE Ends

(* The packaged keyring is offered to the ledger before Bootstrap starts;  *)
(* development images have a ledger of their own, which is left out.       *)
AcceptSeed ==
  LET k == SeedKeyring[image] IN
  /\ phase = "keyring"
  /\ \/ /\ image \notin Development
        /\ RecordGeneration(k) \/ ReplaceKeyring
        /\ UNCHANGED <<stage0, requests>>
     \/ /\ Unlocked /\ (k = keyring \/ image \in Development)
        /\ phase' = "starting" /\ queue' = <<"start">>
        /\ UNCHANGED <<trust, step, read, child, fatal, requests>>
     \/ image \notin Development /\ Unlocked /\ k # keyring /\ ~Acceptable(k) /\ Ends
  /\ UNCHANGED <<store, image, proved, used>>

-----------------------------------------------------------------------------
(* The supervisor: one transition at a time. *)
At(s) == queue # <<>> /\ step = s
Kept == UNCHANGED <<trust, image, requests>>

DefectNextTransition == queue' = Tail(queue) /\ UNCHANGED <<step, read>>

NextTransition == queue' = Tail(queue) /\ step' = "begin" /\ UNCHANGED read

(* restartNow and stopNow let go of the child before they end it. *)
BeginTransition ==
  /\ At("begin")
  /\ child' = NoChild
  /\ IF Head(queue) = "stop"
     THEN NextTransition /\ phase' = "stopped"
     ELSE step' = "launch" /\ UNCHANGED <<queue, read, phase>>
  /\ UNCHANGED <<store, fatal, proved, used>> /\ Kept

Launch(r, waiting, failed) ==
  /\ IF Resolves(r) THEN child' = [record |-> r, ready |-> FALSE] /\ step' = waiting
                    ELSE step' = failed /\ UNCHANGED child

(* startWithRollbackNow reads the slots once. *)
LaunchCurrent ==
  /\ At("launch")
  /\ read' = slots
  /\ Launch(slots.current, "waiting", "rollback")
  /\ UNCHANGED <<store, phase, queue, fatal, proved, used>> /\ Kept

(* A failed start ends Stage-0; a failed restart is only reported. *)
Gives == IF Head(queue) = "start"
         THEN Ends
         ELSE NextTransition /\ child' = NoChild /\ UNCHANGED <<phase, fatal, trust, requests>>

RollBack ==
  /\ At("rollback")
  /\ IF \/ read.previous = NoRecord
        \/ slots.previous = NoRecord \/ slots.previous \notin records
     THEN Gives /\ UNCHANGED slots
     ELSE /\ Commit(slots.previous, slots.current)
          /\ step' = "relaunch" /\ UNCHANGED <<phase, queue, read, child, fatal, trust, requests>>
  /\ UNCHANGED <<records, assets, image, proved, used>>

LaunchPrevious ==
  /\ At("relaunch")
  /\ \/ /\ Resolves(read.previous) /\ Launch(read.previous, "rewaiting", "relaunch")
        /\ UNCHANGED <<phase, queue, read, fatal, trust, requests>>
     \/ ~Resolves(read.previous) /\ Gives
  /\ UNCHANGED <<store, image, proved, used>>

Waiting == queue # <<>> /\ step \in {"waiting", "rewaiting"}

(* launch: the message 'ready' arrives first. *)
BecomesReady ==
  /\ Waiting /\ Content[child.record] \notin Broken
  /\ child' = [child EXCEPT !.ready = TRUE]
  /\ proved' = proved \union {Content[child.record]}
  /\ phase' = IF Head(queue) = "start" THEN "serving" ELSE phase
  /\ NextTransition
  /\ UNCHANGED <<store, fatal, used>> /\ Kept

(* launch: the exit or the deadline is first, and the child is terminated. *)
DefectLaunchFails ==
  /\ Waiting
  /\ Content[child.record] \in Broken
  /\ Gives
  /\ UNCHANGED <<store, image, proved, used>>

LaunchFails ==
  /\ Waiting
  /\ \/ Content[child.record] \in Broken /\ UNCHANGED used
     \/ used.exits < MaxExits /\ used' = [used EXCEPT !.exits = @ + 1]
  /\ IF step = "waiting"
     THEN child' = NoChild /\ step' = "rollback"
          /\ UNCHANGED <<phase, queue, read, fatal, trust, requests>>
     ELSE Gives
  /\ UNCHANGED <<store, image, proved>>

(* The exit of the child that is in use is fatal, unless Stage-0 stops. *)
ChildExits ==
  /\ child.ready /\ used.exits < MaxExits
  /\ used' = [used EXCEPT !.exits = @ + 1]
  /\ child' = NoChild
  /\ fatal' = (fatal \/ phase \in {"starting", "serving"})
  /\ UNCHANGED <<store, phase, queue, step, read, proved>> /\ Kept

(* A signal or the fatal promise ends the main program's wait. *)
BeginShutdown ==
  /\ phase = "serving"
  /\ phase' = "stopping" /\ queue' = Append(queue, "stop")
  /\ UNCHANGED <<store, step, read, child, fatal, proved, used>> /\ Kept

EndShutdown ==
  /\ phase = "stopped" /\ (fatal \/ (queue = <<>> /\ child = NoChild))
  /\ Ends
  /\ UNCHANGED <<store, image, proved, used>>

Crash ==
  /\ phase # "down"
  /\ Ends
  /\ UNCHANGED <<store, image, proved, used>>

-----------------------------------------------------------------------------
(* Requests of the Updater; Stage-0 goes on with them when it dies. *)
Serves == phase \in {"starting", "serving", "stopping", "stopped"}
Idle == \A q \in Requester : staging[q].at = "none"

(* installArchive, outside the queue of the slots.  An Updater that was    *)
(* told of a restart only waits for it (activator.mjs:118).                *)
InstallArchive(q, p) ==
  /\ Serves /\ child.ready /\ queue = <<>> /\ staging[q].at = "none"
  /\ Overlapping \/ collect.at = "none"
  /\ used.stages < MaxStages /\ used' = [used EXCEPT !.stages = @ + 1]
  /\ assets' = assets \union {Content[p]}
  /\ records' = records \union {p}
  /\ staging' = [staging EXCEPT ![q] = [at |-> "installed", record |-> p]]
  /\ UNCHANGED <<trust, slots, image, stage0, collect, proved>>

(* stageArchive's exclusive part. *)
StageArchive(q) ==
  LET r == staging[q].record IN
  /\ Serves /\ staging[q].at = "installed"
  /\ IF slots.current \in records
     THEN /\ IF r # slots.current THEN Commit(r, slots.current) ELSE UNCHANGED slots
          /\ staging' = [staging EXCEPT ![q] =
               IF Content[r] = Content[slots.current] THEN NoStaging
               ELSE [at |-> "staged", record |-> r]]
     ELSE staging' = [staging EXCEPT ![q] = NoStaging] /\ UNCHANGED slots
  /\ UNCHANGED <<trust, records, assets, image, stage0, collect, proved, used>>

(* The restart is enqueued after the answer (setImmediate). *)
RestartForStaged(q) ==
  /\ Serves /\ staging[q].at = "staged"
  /\ queue' = Append(queue, "restart")
  /\ staging' = [staging EXCEPT ![q] = NoStaging]
  /\ UNCHANGED <<trust, store, image, phase, step, read, child, fatal, collect, proved, used>>

(* collectGarbage reads the slots, lists the Records, and removes first the *)
(* directories and then the Records that it does not retain.                *)
CollectReads ==
  /\ Serves /\ child.ready /\ collect.at = "none"
  /\ Overlapping \/ Idle
  /\ collect' = [at |-> "read", retained |-> {slots.current, slots.previous} \ {NoRecord}, seen |-> {}]
  /\ UNCHANGED <<trust, store, image, stage0, staging, proved, used>>

CollectLists ==
  /\ Serves /\ collect.at = "read"
  /\ collect' = [collect EXCEPT !.at = "listed", !.seen = records]
  /\ UNCHANGED <<trust, store, image, stage0, staging, proved, used>>

Retained == {Content[r] : r \in (collect.retained \cap collect.seen) \ {ImageRecord[i] : i \in Image}}

CollectAssets ==
  /\ Serves /\ collect.at = "listed"
  /\ assets' = assets \cap Retained
  /\ collect' = [collect EXCEPT !.at = "pruned"]
  /\ UNCHANGED <<trust, slots, records, image, stage0, staging, proved, used>>

CollectRecords ==
  /\ Serves /\ collect.at = "pruned"
  /\ records' = records \ (collect.seen \ collect.retained)
  /\ collect' = NoCollect
  /\ UNCHANGED <<trust, slots, assets, image, stage0, staging, proved, used>>

(* Keyrings, targets and DSH versions that the Updater brings. *)
AcceptTrust ==
  /\ Serves /\ image \notin Development
  /\ (child.ready /\ LedgerNext) \/ ReplaceKeyring
  /\ UNCHANGED <<store, image, stage0, requests, proved, used>>

Supervise ==
  \/ BeginTransition \/ LaunchCurrent \/ RollBack \/ LaunchPrevious
  \/ BecomesReady \/ LaunchFails
Startup == ReconcileImage \/ AcceptSeed
Requests ==
  \/ \E q \in Requester : StageArchive(q) \/ RestartForStaged(q)
  \/ CollectLists \/ CollectAssets \/ CollectRecords

Next ==
  \/ \E i \in Image : StartStage0(i)
  \/ Startup \/ Supervise \/ Requests
  \/ ChildExits \/ BeginShutdown \/ EndShutdown \/ Crash
  \/ \E q \in Requester, p \in Package : InstallArchive(q, p)
  \/ CollectReads \/ AcceptTrust
  \/ phase = "down" /\ used.starts = MaxStarts /\ UNCHANGED vars

Spec == Init /\ [][Next]_vars

-----------------------------------------------------------------------------
(* Whatever a crash, a rollback or the collector did, the Bootstraps that  *)
(* the slots name are there: a start can read the Record it selects and a  *)
(* rollback finds the directory it goes back to (slots.mjs, collectGarbage *)
(* and stageArchive).                                                      *)
SelectedInstalled ==
  \A r \in {slots.current, slots.previous} \ {NoRecord} :
    r \in records /\ (FromImage(r) \/ Content[r] \in assets)

(* A Bootstrap that has worked stays in the slots until another one has    *)
(* worked or the image's own takes its place: staging a broken one can     *)
(* always be rolled back (supervisor.mjs, startWithRollbackNow).           *)
KnownGoodKept ==
  proved # {} => \E r \in {slots.current, slots.previous} \ {NoRecord} : Content[r] \in proved

(* At rest Stage-0 runs the Bootstrap that its slots select, or one with   *)
(* the same content (supervisor.mjs, restartNow).                          *)
RunsSelected ==
  phase = "serving" /\ queue = <<>> /\ Idle /\ child.ready =>
    Content[child.record] = Content[slots.current]

(* Stage-0 is never left without a Bootstrap, unless a working one failed: *)
(* a broken one that is staged gives way to the one that staged it.        *)
NeverStranded ==
  phase = "serving" /\ queue = <<>> /\ used.exits = 0 => child.ready

(* A start always finds a Bootstrap that works, and runs the selected one.  *)
SlotsSound == SelectedInstalled /\ KnownGoodKept /\ RunsSelected /\ NeverStranded

(* What was trusted stays in force: generations are not forked, targets can *)
(* be verified, and neither goes back (trust.mjs).                         *)
TrustStands == []GenerationsUnique /\ []TargetVerifiable /\ NoTrustRollback
=============================================================================
