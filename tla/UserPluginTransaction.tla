----------------------- MODULE UserPluginTransaction -----------------------
(***************************************************************************)
(* A change of the user's plugins (modules/plugin-manager): Management     *)
(* pauses DSH, snapshots the Web Profile, changes it, and commits; what is *)
(* interrupted is undone or completed at the next start, first by          *)
(* Bootstrap before DSH starts and then by Management.                     *)
(***************************************************************************)
EXTENDS Naturals

CONSTANTS MaxPluginCrashes, MaxTransactions

VARIABLES
  profile,    \* the Web Profile: old, changing, new; emptied while it is restored
  selection,  \* user-plugins.json: old, new
  profileSnapshot,  \* the snapshot of the transaction exists
  pluginJournal,    \* [phase, snapshot: snapshotId is set, result: recoveryResult]
  dshUp,
  pluginStep, \* what Management, or a start, is about to do
  strategy,
  pluginCrashes, transactions  \* what is left of the bounds

pluginVars == <<profile, selection, profileSnapshot, pluginJournal, dshUp, pluginStep, strategy,
                pluginCrashes, transactions>>
data == <<profile, selection, profileSnapshot>>
pluginBounds == <<pluginCrashes, transactions>>

Steps == {"rest", "pause", "snapshot", "record", "mutating", "manifest", "packages", "selection",
          "check", "restarting", "restart", "complete", "cleanup",
          "undo", "empty", "extract", "reselect", "resume", "undone",
          "boot", "bootEmpty", "bootExtract", "bootReselect", "bootUndone", "dsh", "health", "bootCleanup"}

PluginType ==
  /\ profile \in {"old", "changing", "new", "emptied"} /\ selection \in {"old", "new"}
  /\ pluginJournal.phase \in {"none", "validated", "paused", "snapshotted", "mutating", "committed",
                              "restarting", "restoring", "completed", "failed"}
  /\ pluginJournal.result \in {"none", "success", "failed"}
  /\ pluginStep \in Steps /\ strategy \in {"restart", "next-start"}

PluginInit ==
  /\ profile = "old" /\ selection = "old" /\ profileSnapshot = FALSE
  /\ pluginJournal = [phase |-> "none", snapshot |-> FALSE, result |-> "none"]
  /\ dshUp = TRUE /\ pluginStep = "rest" /\ strategy = "restart"
  /\ pluginCrashes = MaxPluginCrashes /\ transactions = MaxTransactions

PluginEnds == {"none", "completed", "failed"}
To(phase) == pluginJournal' = [pluginJournal EXCEPT !.phase = phase]
Result(result) == pluginJournal' = [pluginJournal EXCEPT !.phase = "failed", !.result = result]
Then(from, to) == pluginStep = from /\ pluginStep' = to /\ UNCHANGED <<strategy, pluginBounds>>

(* The transitions UserPluginJournal allows; begin starts over. *)
Allowed(from, to) ==
  to \in CASE from = "validated" -> {"paused", "snapshotted", "failed"}
           [] from = "paused" -> {"snapshotted", "restoring", "failed"}
           [] from = "snapshotted" -> {"mutating", "restoring"}
           [] from = "mutating" -> {"committed", "restoring"}
           [] from = "committed" -> {"restarting", "completed", "failed"}
           [] from = "restarting" -> {"completed", "failed"}
           [] from = "restoring" -> {"failed"}
           [] OTHER -> {"validated"}
TransitionsAllowed ==
  [][pluginJournal'.phase = pluginJournal.phase
     \/ Allowed(pluginJournal.phase, pluginJournal'.phase)]_pluginVars

-----------------------------------------------------------------------------
(* apply. *)

(* UserPluginJournal.begin, over a transaction that has ended. *)
Begun == [phase |-> "validated", snapshot |-> FALSE, result |-> "none"]

(* A transaction may follow another; what the last one left is the old     *)
(* state of the next one.  What follows a failed restoration is left out.  *)
ApplyPlugins(chosen) ==
  /\ pluginStep = "rest" /\ pluginJournal.phase \in PluginEnds /\ pluginJournal.result # "failed"
  /\ transactions > 0 /\ transactions' = transactions - 1
  /\ chosen = "next-start" <=> ~dshUp
  /\ strategy' = chosen
  /\ profile' = "old" /\ selection' = "old" /\ profileSnapshot' = FALSE
  /\ pluginJournal' = Begun
  /\ pluginStep' = IF chosen = "restart" THEN "pause" ELSE "snapshot"
  /\ UNCHANGED <<dshUp, pluginCrashes>>

Pause == Then("pause", "snapshot") /\ dshUp' = FALSE /\ To("paused") /\ UNCHANGED data
CreateSnapshot ==
  /\ Then("snapshot", "record") /\ profileSnapshot' = TRUE
  /\ UNCHANGED <<profile, selection, pluginJournal, dshUp>>
DefectRecordSnapshot == Then("record", "mutating") /\ To("snapshotted") /\ UNCHANGED <<data, dshUp>>
RecordSnapshot ==
  /\ Then("record", "mutating")
  /\ pluginJournal' = [pluginJournal EXCEPT !.phase = "snapshotted", !.snapshot = TRUE]
  /\ UNCHANGED <<data, dshUp>>
BeginMutation == Then("mutating", "manifest") /\ To("mutating") /\ UNCHANGED <<data, dshUp>>

(* mutateProfile: the manifest, the packages and the manifest again, the   *)
(* selection, and a look at the result.                                    *)
WriteManifest ==
  /\ Then("manifest", "packages") /\ profile' = "changing"
  /\ UNCHANGED <<selection, profileSnapshot, pluginJournal, dshUp>>
RemovePackages ==
  /\ Then("packages", "selection") /\ profile' = "new"
  /\ UNCHANGED <<selection, profileSnapshot, pluginJournal, dshUp>>
WriteSelection ==
  /\ Then("selection", "check") /\ selection' = "new"
  /\ UNCHANGED <<profile, profileSnapshot, pluginJournal, dshUp>>
CommitPlugins ==
  /\ Then("check", IF strategy = "restart" THEN "restarting" ELSE "complete")
  /\ To("committed") /\ UNCHANGED <<data, dshUp>>
BeginRestart == Then("restarting", "restart") /\ To("restarting") /\ UNCHANGED <<data, dshUp>>
RestartCommitted ==
  /\ Then("restart", "complete") /\ dshUp' \in BOOLEAN
  /\ UNCHANGED <<data, pluginJournal>>
CompletePlugins == Then("complete", "cleanup") /\ To("completed") /\ UNCHANGED <<data, dshUp>>
Cleanup ==
  /\ Then("cleanup", "rest") /\ profileSnapshot' \in {FALSE, profileSnapshot}
  /\ UNCHANGED <<profile, selection, pluginJournal, dshUp>>

(* What fails before the snapshot ends the transaction, DSH restarted if   *)
(* it was paused; what fails after it and before the commit is undone.     *)
FailsEarly ==
  /\ pluginStep \in {"pause", "snapshot"} /\ pluginStep' = "rest"
  /\ IF pluginJournal.phase = "paused"
     THEN \/ dshUp' = TRUE /\ Result("success")
          \/ UNCHANGED dshUp /\ Result("failed")
     ELSE To("failed") /\ UNCHANGED dshUp
  /\ UNCHANGED <<data, strategy, pluginBounds>>
FailsLate ==
  /\ pluginStep \in {"manifest", "packages", "selection", "check"}
  /\ pluginStep' = "empty"
  /\ pluginJournal' = [pluginJournal EXCEPT !.phase = "restoring", !.snapshot = TRUE]
  /\ UNCHANGED <<data, dshUp, strategy, pluginBounds>>

(* Restoration: everything is removed, then extracted. *)
Empties(from, to) ==
  /\ Then(from, to) /\ profileSnapshot /\ profile' = "emptied"
  /\ UNCHANGED <<selection, profileSnapshot, pluginJournal, dshUp>>
Extracts(from, to) ==
  /\ Then(from, to) /\ profile' = "old"
  /\ UNCHANGED <<selection, profileSnapshot, pluginJournal, dshUp>>
Reselects(from, to) ==
  /\ Then(from, to) /\ selection' = "old"
  /\ UNCHANGED <<profile, profileSnapshot, pluginJournal, dshUp>>
RestorationFails(steps, to) ==
  /\ pluginStep \in steps /\ pluginStep' = to
  /\ Result("failed")
  /\ UNCHANGED <<data, dshUp, strategy, pluginBounds>>

RestartRestored ==
  /\ Then("resume", "undone")
  /\ dshUp' = (dshUp \/ strategy = "restart")
  /\ UNCHANGED <<data, pluginJournal>>
Undone == Then("undone", "cleanup") /\ Result("success") /\ UNCHANGED <<data, dshUp>>

-----------------------------------------------------------------------------
(* A crash takes everything down; Bootstrap looks at the journal first. *)

PluginCrash ==
  /\ pluginCrashes > 0 /\ pluginCrashes' = pluginCrashes - 1
  /\ dshUp' = FALSE /\ pluginStep' = "boot"
  /\ UNCHANGED <<data, pluginJournal, strategy, transactions>>

RecoverPlugins ==
  /\ pluginStep = "boot" /\ UNCHANGED <<profile, selection, dshUp, strategy, pluginBounds>>
  /\ CASE pluginJournal.phase \in PluginEnds ->
            /\ profileSnapshot' \in IF pluginJournal.snapshot THEN {FALSE, profileSnapshot} ELSE {profileSnapshot}
            /\ pluginStep' = "dsh" /\ UNCHANGED pluginJournal
       [] pluginJournal.phase \in {"validated", "paused"} ->
            Result("success") /\ pluginStep' = "dsh" /\ UNCHANGED profileSnapshot
       [] pluginJournal.phase \in {"committed", "restarting"} ->
            To("restarting") /\ pluginStep' = "dsh" /\ UNCHANGED profileSnapshot
       [] OTHER -> To("restoring") /\ pluginStep' = "bootEmpty" /\ UNCHANGED profileSnapshot

BootUndone ==
  /\ Then("bootUndone", "bootCleanup") /\ Result("success")
  /\ UNCHANGED <<data, dshUp>>
BootCleanup ==
  /\ Then("bootCleanup", "dsh") /\ profileSnapshot' \in {FALSE, profileSnapshot}
  /\ UNCHANGED <<profile, selection, pluginJournal, dshUp>>

(* DSH starts or not; Management looks at the journal again and completes  *)
(* a committed change by the health of DSH.                                *)
DshStarts ==
  /\ Then("dsh", IF pluginJournal.phase = "restarting" THEN "health" ELSE "rest")
  /\ dshUp' \in BOOLEAN
  /\ UNCHANGED <<data, pluginJournal>>
CompleteDshStartup ==
  /\ Then("health", "cleanup") /\ To(IF dshUp THEN "completed" ELSE "failed")
  /\ UNCHANGED <<data, dshUp>>

PluginSteps ==
  \/ Pause \/ CreateSnapshot \/ RecordSnapshot \/ BeginMutation \/ WriteManifest \/ RemovePackages
  \/ WriteSelection \/ CommitPlugins \/ BeginRestart \/ RestartCommitted \/ CompletePlugins \/ Cleanup
  \/ FailsEarly \/ FailsLate
  \/ Empties("empty", "extract") \/ Extracts("extract", "reselect") \/ Reselects("reselect", "resume")
  \/ RestartRestored \/ Undone
  \/ RestorationFails({"empty", "extract", "reselect", "resume"}, "rest")
  \/ RecoverPlugins
  \/ Empties("bootEmpty", "bootExtract") \/ Extracts("bootExtract", "bootReselect")
  \/ Reselects("bootReselect", "bootUndone") \/ RestorationFails({"bootEmpty", "bootExtract", "bootReselect"}, "dsh")
  \/ BootUndone \/ BootCleanup \/ DshStarts \/ CompleteDshStartup

PluginNext ==
  \/ PluginSteps \/ PluginCrash
  \/ \E chosen \in {"restart", "next-start"} : ApplyPlugins(chosen)
PluginSpec == PluginInit /\ [][PluginNext]_pluginVars

-----------------------------------------------------------------------------
(* DSH never runs on a profile that is half changed or half restored, and  *)
(* the selection belongs to the profile it runs on, unless a restoration   *)
(* failed.                                                                 *)
DshRunsOnWhole ==
  dshUp /\ pluginJournal.result # "failed" =>
    <<profile, selection>> \in {<<"old", "old">>, <<"new", "new">>}

(* While a change can still be undone there is the snapshot to undo it     *)
(* with, and the journal names it.                                         *)
UndoPossible ==
  /\ profile = "changing" \/ pluginJournal.phase = "mutating"
       => (profileSnapshot /\ pluginJournal.snapshot) \/ pluginJournal.result = "failed"
  /\ profile = "emptied" => profileSnapshot \/ pluginJournal.result = "failed"

(* After the commit the change is retained even if DSH fails (guide.md),   *)
(* and nothing but the whole change is committed.                          *)
CommittedKept ==
  pluginJournal.phase \in {"committed", "restarting", "completed"} => profile = "new" /\ selection = "new"

(* A change of the user's plugins is made whole, or it can be undone.      *)
ChangeRecoverable == DshRunsOnWhole /\ UndoPossible /\ CommittedKept
=============================================================================
