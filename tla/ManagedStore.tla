---------------------------- MODULE ManagedStore ----------------------------
(***************************************************************************)
(* The Managed store: the four kinds of assets a Deployment Record names   *)
(* (pristine DSH, environment, runtime, System Plugin overlay), the        *)
(* Updater's builder that publishes or reuses them (preparer.mjs,          *)
(* managed-store.mjs, patch-manager's buildRuntime), the records and slots *)
(* that root them, and Bootstrap's collector (gc.mjs), which the Updater   *)
(* calls after an Experimental commit.  What an asset holds is abstracted  *)
(* to whether its tree is whole; the trees still hidden under a ".tmp"     *)
(* name are left out, and the collector ignores them.                      *)
(***************************************************************************)
EXTENDS Naturals, FiniteSets

CONSTANTS
  Versions,       \* DSH versions, positive naturals
  Envs,           \* environment versions, positive naturals
  MaxBuilds,      \* updates a behaviour begins
  MaxStoreFaults  \* failed steps, crashes and returns a behaviour sees

VARIABLES
  disk,      \* published assets and whether their trees are "whole" or "torn"
  managedRecords,   \* Deployment Records on disk
  managedSlots,     \* the current and the previous Deployment
  switching, \* the activation journal: the records it names
  txn,       \* the Updater's transaction journal
  snaps,     \* data snapshots on disk
  holds,     \* versions and combinations the Updater will not try again
  build,     \* the update task
  cleaning,  \* Bootstrap's collection
  beside,    \* history: what was built while a collection still ran
  halved,    \* history: what was built from a tree found half removed
  begun, upsets  \* bounds

storeVars == <<disk, managedRecords, managedSlots, switching, txn, snaps, holds, build, cleaning,
               beside, halved, begun, upsets>>
doubts == <<beside, halved>>
buildVars == <<build, doubts, begun>>
slotVars == <<managedRecords, managedSlots, switching>>

\* 0 stands for an asset of the image, which is not in the store.
BuiltInRecord == [dsh |-> 0, env |-> 0, snap |-> 0]
EmptySlot == [dsh |-> 99, env |-> 99, snap |-> 0]
AnyEnv == 99
StoreRecord == [dsh : Versions \cup {0}, env : Envs \cup {0}, snap : 0..MaxBuilds]

\* The assets a record refers to in the store.
AssetsOf(r) ==
  (IF r.dsh \in Versions
   THEN {<<"pristine", r.dsh, 0>>, <<"runtime", r.dsh, r.env>>} ELSE {})
  \cup (IF r.env \in Envs THEN {<<"environment", 0, r.env>>, <<"plugins", 0, r.env>>} ELSE {})
AssetsOfAll(rs) == UNION {AssetsOf(r) : r \in rs}

NoTxn == [phase |-> "none", from |-> EmptySlot, to |-> EmptySlot, snap |-> 0]
NoBuild == [step |-> "idle", kind |-> "stable", to |-> EmptySlot, obsolete |-> 0]
NotCleaning == [step |-> "idle", seen |-> {}, roots |-> {}, snap |-> 0]

StoreInit ==
  /\ disk = [a \in {} |-> "whole"]
  /\ managedRecords = {BuiltInRecord}
  /\ managedSlots = [current |-> BuiltInRecord, previous |-> EmptySlot]
  /\ switching = {}
  /\ txn = NoTxn
  /\ snaps = {}
  /\ holds = {}
  /\ build = NoBuild
  /\ cleaning = NotCleaning
  /\ beside = {} /\ halved = {} /\ begun = 0 /\ upsets = 0

-----------------------------------------------------------------------------
(* The Updater's task.                                                     *)

Combination(r) == [dsh |-> r.dsh, env |-> r.env]
Doubtful == beside \cup halved
(* What is built anew is beyond doubt, unless the slots or the journal      *)
(* still name it, a collection runs, or it takes the assets of a Deployment *)
(* that is not.                                                            *)
Named == {Combination(r) : r \in {managedSlots.current, managedSlots.previous, txn.to}}
BuildBegins(b) ==
  /\ build' = b
  /\ beside' = IF cleaning.step # "idle" THEN beside \cup {Combination(b.to)}
               ELSE beside \ ({Combination(b.to)} \ Named)
  /\ halved' = IF b.kind = "experimental" /\ Combination(managedSlots.current) \in Doubtful
               THEN halved \cup {Combination(b.to)}
               ELSE halved \ ({Combination(b.to)} \ Named)

Held(v, e) == \E h \in holds : h.dsh = v /\ h.env \in {AnyEnv, e}

\* A Stable target, or a newer DSH over the current environment.
BeginStableBuild ==
  /\ build.step = "idle" /\ begun < MaxBuilds
  /\ \E v \in Versions, e \in Envs :
       /\ e >= managedSlots.current.env /\ <<v, e>> # <<managedSlots.current.dsh, managedSlots.current.env>>
       /\ BuildBegins([step |-> "download", kind |-> "stable", obsolete |-> 0,
                  to |-> [dsh |-> v, env |-> e, snap |-> 0]])
  /\ begun' = begun + 1
  /\ UNCHANGED <<disk, slotVars, txn, snaps, holds, cleaning, upsets>>

BeginExperimentalBuild ==
  /\ build.step = "idle" /\ begun < MaxBuilds
  /\ \E v \in Versions :
       /\ v > managedSlots.current.dsh /\ ~Held(v, managedSlots.current.env)
       /\ BuildBegins([step |-> "download", kind |-> "experimental", obsolete |-> 0,
                  to |-> [dsh |-> v, env |-> managedSlots.current.env, snap |-> 0]])
  /\ begun' = begun + 1
  /\ UNCHANGED <<disk, slotVars, txn, snaps, holds, cleaning, upsets>>

\* The artifacts arrive, each within three attempts, and are imported.
Download ==
  /\ build.step = "download"
  /\ build' = [build EXCEPT !.step = "pristine"]
  /\ UNCHANGED <<disk, slotVars, txn, snaps, holds, cleaning, doubts, begun, upsets>>

(* An asset found under its name is used as it is, half removed or not; one *)
(* that is missing is built under a hidden name and renamed into place.     *)
Published(a) == IF a \in DOMAIN disk THEN disk
                ELSE [b \in DOMAIN disk \cup {a} |-> IF b = a THEN "whole" ELSE disk[b]]

Torn(a) == a \in DOMAIN disk /\ disk[a] = "torn"
Takes(a) ==
  /\ disk' = Published(a)
  /\ halved' = IF Torn(a) THEN halved \cup {Combination(build.to)} ELSE halved
  /\ UNCHANGED beside

InstallPristine ==
  /\ build.step = "pristine"
  /\ Takes(<<"pristine", build.to.dsh, 0>>)
  /\ build' = [build EXCEPT !.step = IF build.kind = "stable" THEN "environment" ELSE "runtime"]
  /\ UNCHANGED <<slotVars, txn, snaps, holds, cleaning, begun, upsets>>

CopyEnvironment ==
  /\ build.step = "environment"
  /\ Takes(<<"environment", 0, build.to.env>>)
  /\ build' = [build EXCEPT !.step = "runtime"]
  /\ UNCHANGED <<slotVars, txn, snaps, holds, cleaning, begun, upsets>>

\* A runtime copies the pristine tree: a torn one yields a torn runtime.
PristineThere == <<"pristine", build.to.dsh, 0>> \in DOMAIN disk
BuildRuntime ==
  /\ build.step = "runtime" /\ PristineThere
  /\ LET p == <<"pristine", build.to.dsh, 0>>
         a == <<"runtime", build.to.dsh, build.to.env>>
     IN /\ disk' = [Published(a) EXCEPT ![a] = IF a \in DOMAIN disk THEN disk[a] ELSE disk[p]]
        /\ halved' = IF Torn(a) THEN halved \cup {Combination(build.to)} ELSE halved
  /\ UNCHANGED beside
  /\ build' = [build EXCEPT !.step = IF build.kind = "stable" THEN "plugins" ELSE "begin"]
  /\ UNCHANGED <<slotVars, txn, snaps, holds, cleaning, begun, upsets>>

ReconcilePlugins ==
  /\ build.step = "plugins"
  /\ Takes(<<"plugins", 0, build.to.env>>)
  /\ build' = [build EXCEPT !.step = "stage"]
  /\ UNCHANGED <<slotVars, txn, snaps, holds, cleaning, begun, upsets>>

\* The journal is begun anew; the snapshot of the transaction it described is
\* remembered and removed once this one has committed.
BeginTransaction ==
  /\ build.step = "begin"
  /\ txn' = [phase |-> "open", from |-> managedSlots.current, to |-> build.to, snap |-> 0]
  /\ build' = [build EXCEPT !.step = "snapshot", !.obsolete = txn.snap]
  /\ UNCHANGED <<disk, slotVars, snaps, holds, cleaning, doubts, begun, upsets>>

TakeSnapshot ==
  /\ build.step = "snapshot"
  /\ snaps' = snaps \cup {begun}
  /\ build' = [build EXCEPT !.step = "bind"]
  /\ UNCHANGED <<disk, slotVars, txn, holds, cleaning, doubts, begun, upsets>>

\* The candidate's record is bound to the snapshot, and the journal to both.
BindSnapshot ==
  /\ build.step = "bind"
  /\ build' = [build EXCEPT !.step = "stage", !.to.snap = begun]
  /\ txn' = [txn EXCEPT !.phase = "snapshotted", !.snap = begun, !.to.snap = begun]
  /\ UNCHANGED <<disk, slotVars, snaps, holds, cleaning, doubts, begun, upsets>>

\* Bootstrap writes the record, finds every asset of it and journals the switch.
Whole(r) == AssetsOf(r) \subseteq DOMAIN disk
StageRecord ==
  /\ build.step = "stage" /\ Whole(build.to)
  /\ managedRecords' = managedRecords \cup {build.to}
  /\ switching' = {managedSlots.current, build.to}
  /\ build' = [build EXCEPT !.step = "commit"]
  /\ UNCHANGED <<disk, managedSlots, txn, snaps, holds, cleaning, doubts, begun, upsets>>

CommitRecord ==
  /\ build.step = "commit"
  /\ managedSlots' = IF managedSlots.current = build.to THEN managedSlots
              ELSE [current |-> build.to, previous |-> managedSlots.current]
  /\ switching' = {}
  /\ build' = IF build.kind = "stable" THEN NoBuild ELSE [build EXCEPT !.step = "journal"]
  /\ UNCHANGED <<disk, managedRecords, txn, snaps, holds, cleaning, doubts, begun, upsets>>

\* The committed transaction is journaled before anything is collected.
JournalCommitted ==
  /\ build.step = "journal"
  /\ txn' = [txn EXCEPT !.phase = "committed"]
  /\ build' = [build EXCEPT !.step = "collect"]
  /\ UNCHANGED <<disk, slotVars, snaps, holds, cleaning, doubts, begun, upsets>>

AskCollection ==
  /\ build.step = "collect" /\ cleaning.step = "idle"
  /\ cleaning' = [NotCleaning EXCEPT !.step = "read"]
  /\ build' = [build EXCEPT !.step = "collected"]
  /\ UNCHANGED <<disk, slotVars, txn, snaps, holds, doubts, begun, upsets>>

\* When the collection has answered, the snapshot before last goes too.
RemoveObsolete ==
  /\ build.step = "collected" /\ cleaning.step = "idle"
  /\ snaps' = IF build.obsolete = txn.snap THEN snaps ELSE snaps \ {build.obsolete}
  /\ build' = NoBuild
  /\ UNCHANGED <<disk, slotVars, txn, holds, cleaning, doubts, begun, upsets>>

\* What a failed step leaves: the assets it published, and a hold on what failed.
Transacted == build.kind = "experimental" /\ txn.phase \in {"open", "snapshotted"}
FailedHolds ==
  CASE build.kind = "stable" \/ build.step \in {"snapshot", "bind", "stage"} -> {}
    [] build.step = "commit" -> {[dsh |-> build.to.dsh, env |-> build.to.env]}
    [] OTHER -> {[dsh |-> build.to.dsh, env |-> AnyEnv]}

BuildFails ==
  /\ build.step \notin {"idle", "down", "journal", "collect", "collected"}
  /\ \/ upsets < MaxStoreFaults
     \/ build.step = "stage" /\ ~Whole(build.to)
     \/ build.step = "runtime" /\ ~PristineThere
  /\ upsets' = IF upsets < MaxStoreFaults THEN upsets + 1 ELSE upsets
  /\ holds' = holds \cup FailedHolds
  /\ switching' = {}
  /\ txn' = IF Transacted THEN [txn EXCEPT !.phase = "over"] ELSE txn
  /\ build' = NoBuild
  /\ UNCHANGED <<disk, managedRecords, managedSlots, snaps, cleaning, doubts, begun>>

-----------------------------------------------------------------------------
(* The user's return to the previous Deployment: the slots change places.  *)

\* The return undoes the transaction that led to the current Deployment, data included.
Complete == txn.phase = "committed" /\ txn.to = managedSlots.current
ReturnPrevious ==
  /\ build.step = "idle"
  /\ managedSlots.previous # EmptySlot /\ Whole(managedSlots.previous)
  /\ upsets < MaxStoreFaults /\ upsets' = upsets + 1
  /\ Complete => managedSlots.previous = txn.from /\ txn.snap \in snaps
  /\ managedSlots' = [current |-> managedSlots.previous, previous |-> managedSlots.current]
  /\ txn' = IF Complete THEN [txn EXCEPT !.phase = "over"] ELSE txn
  /\ UNCHANGED <<disk, managedRecords, switching, snaps, holds, build, cleaning, doubts, begun>>

-----------------------------------------------------------------------------
(* The collector in Bootstrap.                                             *)

ReadRecords ==
  /\ cleaning.step = "read"
  /\ cleaning' = [cleaning EXCEPT !.step = "roots", !.seen = managedRecords]
  /\ UNCHANGED <<disk, slotVars, txn, snaps, holds, buildVars, upsets>>

\* The slots, the activation journal, the transaction and the holds name records.
HeldRecords(seen) == {r \in seen : Held(r.dsh, r.env)}
DefectRootsOf(seen) ==
  ({managedSlots.current} \cup switching \cup {txn.to} \cup HeldRecords(seen)) \cap seen
RootsOf(seen) ==
  ({managedSlots.current, managedSlots.previous} \cup switching \cup {txn.from, txn.to}
   \cup HeldRecords(seen)) \cap seen

ReadRoots ==
  /\ cleaning.step = "roots"
  /\ cleaning' = [cleaning EXCEPT !.step = "environment", !.roots = RootsOf(cleaning.seen),
                                  !.snap = txn.snap]
  /\ UNCHANGED <<disk, slotVars, txn, snaps, holds, buildVars, upsets>>

After == [environment |-> "pristine", pristine |-> "runtime", runtime |-> "plugins",
          plugins |-> "snapshots"]
Unmarked(kind) == {a \in DOMAIN disk : a[1] = kind /\ a \notin AssetsOfAll(cleaning.roots)}
Without(gone) == [a \in DOMAIN disk \ gone |-> disk[a]]

(* removeUnmarked, once for every kind; a tree goes file by file.          *)
StartRemoval ==
  /\ cleaning.step \in DOMAIN After
  /\ \E a \in Unmarked(cleaning.step) : disk[a] = "whole" /\ disk' = [disk EXCEPT ![a] = "torn"]
  /\ UNCHANGED <<slotVars, txn, snaps, holds, cleaning, buildVars, upsets>>
RemoveAssets ==
  /\ cleaning.step \in DOMAIN After
  /\ disk' = Without(Unmarked(cleaning.step))
  /\ cleaning' = [cleaning EXCEPT !.step = After[cleaning.step]]
  /\ UNCHANGED <<slotVars, txn, snaps, holds, buildVars, upsets>>

RetainedSnapshots == {r.snap : r \in cleaning.roots} \cup {cleaning.snap}
RemoveSnapshots ==
  /\ cleaning.step = "snapshots"
  /\ snaps' = snaps \cap RetainedSnapshots
  /\ cleaning' = [cleaning EXCEPT !.step = "records"]
  /\ UNCHANGED <<disk, slotVars, txn, holds, buildVars, upsets>>

RemoveRecords ==
  /\ cleaning.step = "records"
  /\ managedRecords' = managedRecords \ (cleaning.seen \ cleaning.roots)
  /\ cleaning' = NotCleaning
  /\ UNCHANGED <<disk, managedSlots, switching, txn, snaps, holds, buildVars, upsets>>

-----------------------------------------------------------------------------
(* Crashes.                                                                *)

(* Management ends: its task is lost, Bootstrap goes on with a collection   *)
(* it was asked for, beside whatever the next Updater does.                 *)
ManagementDies ==
  /\ build.step \notin {"idle", "down"}
  /\ upsets < MaxStoreFaults /\ upsets' = upsets + 1
  /\ build' = [NoBuild EXCEPT !.step = "down"]
  /\ UNCHANGED <<disk, slotVars, txn, snaps, holds, cleaning, doubts, begun>>

(* Bootstrap ends, and with it every service; a removal stops part-way.    *)
BootstrapDies ==
  /\ build.step # "idle" \/ cleaning.step # "idle"
  /\ upsets < MaxStoreFaults /\ upsets' = upsets + 1
  /\ \E gone \in SUBSET (IF cleaning.step \in DOMAIN After THEN Unmarked(cleaning.step) ELSE {}) :
       disk' = Without(gone)
  /\ cleaning' = NotCleaning
  /\ switching' = {}
  /\ build' = [NoBuild EXCEPT !.step = "down"]
  /\ UNCHANGED <<managedRecords, managedSlots, txn, snaps, holds, doubts, begun>>

\* Before the Updater takes requests again it undoes a transaction that was
\* interrupted: the candidate is cancelled or the slots return to its origin.
RecoverUpdate ==
  /\ build.step = "down"
  /\ build' = NoBuild
  /\ switching' = {}
  /\ \/ /\ txn.phase # "snapshotted"
        /\ txn' = IF txn.phase = "open" THEN [txn EXCEPT !.phase = "over"] ELSE txn
        /\ UNCHANGED managedSlots
     \/ /\ txn.phase = "snapshotted" /\ txn.snap \in snaps
        /\ managedSlots' = IF managedSlots.current = txn.from THEN managedSlots
                    ELSE [current |-> managedSlots.previous, previous |-> managedSlots.current]
        /\ txn' = [txn EXCEPT !.phase = "over"]
  /\ UNCHANGED <<disk, managedRecords, snaps, holds, cleaning, doubts, begun, upsets>>

BuildNext ==
  \/ BeginStableBuild \/ BeginExperimentalBuild \/ Download \/ InstallPristine
  \/ CopyEnvironment \/ BuildRuntime \/ ReconcilePlugins \/ BeginTransaction \/ TakeSnapshot
  \/ BindSnapshot \/ StageRecord \/ CommitRecord \/ JournalCommitted \/ AskCollection
  \/ RemoveObsolete \/ BuildFails
CollectNext ==
  ReadRecords \/ ReadRoots \/ StartRemoval \/ RemoveAssets \/ RemoveSnapshots \/ RemoveRecords
StoreNext ==
  BuildNext \/ CollectNext \/ ReturnPrevious \/ ManagementDies \/ BootstrapDies \/ RecoverUpdate

StoreSpec == StoreInit /\ [][StoreNext]_storeVars

-----------------------------------------------------------------------------

(* The store is reclaimed only when nothing refers to it: whatever updates,*)
(* rollbacks, collections and crashes went before, the current and the     *)
(* previous Deployment and both ends of a switch in progress have every    *)
(* asset they name, whole, and their records.  What was built beside a     *)
(* collection that outlived its Updater may lose them, and what was built  *)
(* over a removal that a crash interrupted may be half of a tree: only     *)
(* that, and only until it is built again.                                 *)
RootsKept ==
  \A r \in ({managedSlots.current, managedSlots.previous} \cup switching) \ {EmptySlot} :
     /\ Combination(r) \notin beside => r \in managedRecords /\ AssetsOf(r) \subseteq DOMAIN disk
     /\ Combination(r) \notin Doubtful => \A a \in AssetsOf(r) : disk[a] = "whole"

(* A return that needs the data snapshot finds it: the snapshot of the     *)
(* transaction being undone, or of the committed one that led from the     *)
(* previous Deployment to the current one, is on disk.                     *)
ReturnPossible ==
  (txn.phase = "snapshotted" \/ Complete) /\ Combination(txn.to) \notin beside => txn.snap \in snaps

(* Whatever may be started or returned to is still in the Store.           *)
StoreKept == RootsKept /\ ReturnPossible
=============================================================================
