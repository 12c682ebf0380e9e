----------------------------- MODULE PluginProofs -----------------------------
(***************************************************************************)
(* Proofs about what a Deployment's DSH is given: the transaction that     *)
(* changes the user's plugins, UserPluginTransaction, is whole or can be   *)
(* undone wherever and however often it is interrupted, and its journal    *)
(* takes no other transition than the ones the code allows; and an Apply   *)
(* of System Plugin changes, SystemPlugins, is never half done; the view   *)
(* of System Skills, SystemSkills, is the one chosen; and the Managed      *)
(* store, ManagedStore, keeps whatever may be started or returned to.      *)
(***************************************************************************)
EXTENDS UserPluginTransaction, SystemPlugins, SystemSkills, ManagedStore, TLAPS

Journal ==
  [phase : {"none", "validated", "paused", "snapshotted", "mutating", "committed", "restarting",
            "restoring", "completed", "failed"},
   snapshot : BOOLEAN, result : {"none", "success", "failed"}]

PluginTypes ==
  /\ profile \in {"old", "changing", "new", "emptied"} /\ selection \in {"old", "new"}
  /\ pluginJournal \in Journal
  /\ profileSnapshot \in BOOLEAN /\ dshUp \in BOOLEAN
  /\ pluginStep \in Steps

Old == profile = "old" /\ selection = "old"
New == profile = "new" /\ selection = "new"
Saved == profileSnapshot = TRUE /\ pluginJournal.snapshot = TRUE

(* What the phase in the journal says of the files: it is what a start has *)
(* to rely on, whichever step was interrupted.                             *)
PhaseTells ==
  /\ pluginJournal.phase \in PluginEnds => Old \/ New
  /\ pluginJournal.phase \in {"validated", "paused", "snapshotted"} => Old
  /\ pluginJournal.phase \in {"snapshotted", "mutating", "restoring"} => Saved
  /\ pluginJournal.phase \in {"committed", "restarting", "completed"} => New
  /\ dshUp = TRUE /\ pluginJournal.phase \in {"mutating", "restoring"} => pluginStep = "undone"

(* What failed for good is left as it is. *)
FailureEnds == pluginJournal.phase = "failed" /\ pluginStep \in {"rest", "boot", "dsh"}

(* Where each step finds the journal and the files. *)
StepTells ==
  LET phase == pluginJournal.phase IN
  /\ pluginStep \in {"rest", "dsh"} => phase \in PluginEnds \union {"restarting"}
  /\ pluginStep = "rest" => phase \in PluginEnds
  /\ pluginStep = "boot" => dshUp = FALSE
  /\ pluginStep = "pause" => phase = "validated"
  /\ pluginStep \in {"snapshot", "record"} => phase \in {"validated", "paused"} /\ dshUp = FALSE
  /\ pluginStep \in {"record", "mutating"} => profileSnapshot = TRUE
  /\ pluginStep = "mutating" => phase = "snapshotted" /\ dshUp = FALSE
  /\ pluginStep \in {"manifest", "packages", "selection", "check"} => phase = "mutating"
  /\ pluginStep = "selection" => profile = "new"
  /\ pluginStep = "check" => New
  /\ pluginStep = "restarting" => phase = "committed"
  /\ pluginStep \in {"restart", "health"} => phase = "restarting"
  /\ pluginStep = "complete" => phase \in {"committed", "restarting"}
  /\ pluginStep \in {"cleanup", "bootCleanup"} => phase \in {"completed", "failed"}
  /\ pluginStep \in {"empty", "extract", "reselect", "resume", "undone",
                     "bootEmpty", "bootExtract", "bootReselect", "bootUndone"} => phase = "restoring"
  /\ pluginStep \in {"reselect", "bootReselect"} => profile = "old"
  /\ pluginStep \in {"resume", "undone", "bootUndone"} => Old

PluginKnown ==
  /\ PluginTypes /\ StepTells
  /\ IF pluginJournal.result = "failed" THEN FailureEnds ELSE PhaseTells

LEMMA PluginInitial == PluginInit => PluginKnown
<1> SUFFICES ASSUME PluginInit PROVE PluginKnown
  OBVIOUS
<1>1. pluginJournal.phase = "none" /\ pluginJournal.result = "none" /\ pluginStep = "rest" /\ Old
  BY DEF PluginInit, Old
<1>2. PluginTypes
  BY DEF PluginInit, PluginTypes, Journal, Steps
<1>3. StepTells /\ PhaseTells
  BY <1>1 DEF StepTells, PhaseTells, PluginEnds
<1> QED
  BY <1>1, <1>2, <1>3 DEF PluginKnown

-----------------------------------------------------------------------------
(* A step taken while nothing failed for good. *)

LEMMA ApplyKept ==
  ASSUME PluginKnown, NEW chosen \in {"restart", "next-start"}, ApplyPlugins(chosen)
  PROVE  PluginKnown' /\ Allowed(pluginJournal.phase, pluginJournal'.phase)
  BY DEF ApplyPlugins, Begun, PluginKnown, PluginTypes, Journal, Steps, StepTells, PhaseTells, PluginEnds, Old, New, Allowed

LEMMA ForwardKept ==
  ASSUME PluginKnown, pluginJournal.result # "failed",
         Pause \/ CreateSnapshot \/ RecordSnapshot \/ BeginMutation \/ WriteManifest \/ RemovePackages
         \/ WriteSelection \/ CommitPlugins \/ BeginRestart \/ RestartCommitted \/ CompletePlugins
         \/ Cleanup
  PROVE  PluginKnown' /\ (\/ pluginJournal'.phase = pluginJournal.phase
                          \/ Allowed(pluginJournal.phase, pluginJournal'.phase))
<1> USE DEF PluginKnown, PluginTypes, Journal, Steps, StepTells, PhaseTells, PluginEnds, Old, New, Saved,
            Allowed, Then, To, data
<1>1. CASE Pause BY <1>1 DEF Pause
<1>2. CASE CreateSnapshot BY <1>2 DEF CreateSnapshot
<1>3. CASE RecordSnapshot BY <1>3 DEF RecordSnapshot
<1>4. CASE BeginMutation BY <1>4 DEF BeginMutation
<1>5. CASE WriteManifest BY <1>5 DEF WriteManifest
<1>6. CASE RemovePackages BY <1>6 DEF RemovePackages
<1>7. CASE WriteSelection BY <1>7 DEF WriteSelection
<1>8. CASE CommitPlugins BY <1>8 DEF CommitPlugins
<1>9. CASE BeginRestart BY <1>9 DEF BeginRestart
<1>10. CASE RestartCommitted BY <1>10 DEF RestartCommitted
<1>11. CASE CompletePlugins BY <1>11 DEF CompletePlugins
<1>12. CASE Cleanup
  <2>1. /\ pluginStep = "cleanup" /\ pluginStep' = "rest" /\ profileSnapshot' \in BOOLEAN
        /\ UNCHANGED <<profile, selection, pluginJournal, dshUp>>
    BY <1>12 DEF Cleanup
  <2>2. pluginJournal.phase \in {"completed", "failed"}
    BY <2>1
  <2>3. PluginTypes' /\ StepTells'
    BY <2>1, <2>2
  <2>4. PhaseTells' /\ pluginJournal'.result # "failed"
    BY <2>1, <2>2
  <2> QED
    BY <2>1, <2>3, <2>4
<1> QED
  BY <1>1, <1>2, <1>3, <1>4, <1>5, <1>6, <1>7, <1>8, <1>9, <1>10, <1>11, <1>12

LEMMA BackKept ==
  ASSUME PluginKnown, pluginJournal.result # "failed",
         \/ FailsEarly \/ FailsLate
         \/ Empties("empty", "extract") \/ Extracts("extract", "reselect")
         \/ Reselects("reselect", "resume") \/ RestartRestored \/ Undone
         \/ RestorationFails({"empty", "extract", "reselect", "resume"}, "rest")
  PROVE  PluginKnown' /\ (\/ pluginJournal'.phase = pluginJournal.phase
                          \/ Allowed(pluginJournal.phase, pluginJournal'.phase))
<1> USE DEF PluginKnown, PluginTypes, Journal, Steps, StepTells, PhaseTells, PluginEnds, Old, New, Saved,
            Allowed, Then, To, Result, FailureEnds, data
<1>1. CASE FailsEarly
  <2>1. CASE pluginJournal.phase = "paused" /\ dshUp' = TRUE /\ Result("success")
    BY <1>1, <2>1 DEF FailsEarly
  <2>2. CASE pluginJournal.phase = "paused" /\ UNCHANGED dshUp /\ Result("failed")
    BY <1>1, <2>2 DEF FailsEarly
  <2>3. CASE pluginJournal.phase # "paused" /\ UNCHANGED dshUp /\ To("failed")
    BY <1>1, <2>3 DEF FailsEarly
  <2> QED
    BY <1>1, <2>1, <2>2, <2>3 DEF FailsEarly
<1>2. CASE FailsLate BY <1>2 DEF FailsLate
<1>3. CASE Empties("empty", "extract") BY <1>3 DEF Empties
<1>4. CASE Extracts("extract", "reselect") BY <1>4 DEF Extracts
<1>5. CASE Reselects("reselect", "resume") BY <1>5 DEF Reselects
<1>6. CASE RestartRestored BY <1>6 DEF RestartRestored
<1>7. CASE Undone BY <1>7 DEF Undone
<1>8. CASE RestorationFails({"empty", "extract", "reselect", "resume"}, "rest")
  BY <1>8 DEF RestorationFails
<1> QED
  BY <1>1, <1>2, <1>3, <1>4, <1>5, <1>6, <1>7, <1>8

LEMMA RecoveryKept ==
  ASSUME PluginKnown, pluginJournal.result # "failed",
         \/ RecoverPlugins
         \/ Empties("bootEmpty", "bootExtract") \/ Extracts("bootExtract", "bootReselect")
         \/ Reselects("bootReselect", "bootUndone")
         \/ RestorationFails({"bootEmpty", "bootExtract", "bootReselect"}, "dsh")
         \/ BootUndone \/ BootCleanup \/ DshStarts \/ CompleteDshStartup
  PROVE  PluginKnown' /\ (\/ pluginJournal'.phase = pluginJournal.phase
                          \/ Allowed(pluginJournal.phase, pluginJournal'.phase))
<1> USE DEF PluginKnown, PluginTypes, Journal, Steps, StepTells, PhaseTells, PluginEnds, Old, New, Saved,
            Allowed, Then, To, Result, FailureEnds, data
<1>1. CASE RecoverPlugins
  <2>0. pluginStep = "boot" /\ UNCHANGED <<profile, selection, dshUp>>
    BY <1>1 DEF RecoverPlugins, pluginBounds
  <2>1. CASE pluginJournal.phase \in PluginEnds
    <3>1. /\ profileSnapshot' \in BOOLEAN
          /\ pluginStep' = "dsh" /\ pluginJournal' = pluginJournal
      BY <1>1, <2>1 DEF RecoverPlugins
    <3> QED
      BY <2>0, <2>1, <3>1
  <2>2. CASE pluginJournal.phase \in {"validated", "paused"}
    <3>1. Result("success") /\ pluginStep' = "dsh" /\ UNCHANGED profileSnapshot
      BY <1>1, <2>2 DEF RecoverPlugins
    <3> QED
      BY <2>0, <2>2, <3>1
  <2>3. CASE pluginJournal.phase \in {"committed", "restarting"}
    <3>1. To("restarting") /\ pluginStep' = "dsh" /\ UNCHANGED profileSnapshot
      BY <1>1, <2>3 DEF RecoverPlugins
    <3> QED
      BY <2>0, <2>3, <3>1
  <2>4. CASE pluginJournal.phase \in {"snapshotted", "mutating", "restoring"}
    <3>1. To("restoring") /\ pluginStep' = "bootEmpty" /\ UNCHANGED profileSnapshot
      BY <1>1, <2>4 DEF RecoverPlugins
    <3> QED
      BY <2>0, <2>4, <3>1
  <2> QED
    BY <2>1, <2>2, <2>3, <2>4
<1>2. CASE Empties("bootEmpty", "bootExtract") BY <1>2 DEF Empties
<1>3. CASE Extracts("bootExtract", "bootReselect") BY <1>3 DEF Extracts
<1>4. CASE Reselects("bootReselect", "bootUndone") BY <1>4 DEF Reselects
<1>5. CASE RestorationFails({"bootEmpty", "bootExtract", "bootReselect"}, "dsh")
  BY <1>5 DEF RestorationFails
<1>6. CASE BootUndone BY <1>6 DEF BootUndone
<1>7. CASE BootCleanup
  <2>1. /\ pluginStep = "bootCleanup" /\ pluginStep' = "dsh" /\ profileSnapshot' \in BOOLEAN
        /\ UNCHANGED <<profile, selection, pluginJournal, dshUp>>
    BY <1>7 DEF BootCleanup
  <2>2. pluginJournal.phase \in {"completed", "failed"}
    BY <2>1
  <2>3. PluginTypes' /\ StepTells'
    BY <2>1, <2>2
  <2>4. PhaseTells' /\ pluginJournal'.result # "failed"
    BY <2>1, <2>2
  <2> QED
    BY <2>1, <2>3, <2>4
<1>8. CASE DshStarts BY <1>8 DEF DshStarts
<1>9. CASE CompleteDshStartup BY <1>9 DEF CompleteDshStartup
<1> QED
  BY <1>1, <1>2, <1>3, <1>4, <1>5, <1>6, <1>7, <1>8, <1>9

(* After a restoration that failed only starts happen. *)
LEMMA FailedKept ==
  ASSUME PluginKnown, pluginJournal.result = "failed", PluginSteps
  PROVE  PluginKnown' /\ pluginJournal' = pluginJournal
<1>1. pluginStep \in {"rest", "boot", "dsh"}
  BY DEF PluginKnown, FailureEnds
<1>2. RecoverPlugins \/ DshStarts
  BY <1>1 DEF PluginSteps, Pause, CreateSnapshot, RecordSnapshot, BeginMutation,
         WriteManifest, RemovePackages, WriteSelection, CommitPlugins, BeginRestart, RestartCommitted,
         CompletePlugins, Cleanup, FailsEarly, FailsLate, Empties, Extracts, Reselects, RestartRestored,
         Undone, RestorationFails, BootUndone, BootCleanup, CompleteDshStartup, Then
<1>3. CASE RecoverPlugins
  <2>1. pluginJournal.phase = "failed"
    BY DEF PluginKnown, FailureEnds
  <2>2. /\ profileSnapshot' \in {FALSE, profileSnapshot} /\ pluginStep' = "dsh"
        /\ UNCHANGED <<profile, selection, pluginJournal, dshUp>>
    BY <1>3, <2>1 DEF RecoverPlugins, PluginEnds, pluginBounds
  <2>3. PluginTypes'
    BY <2>2 DEF PluginKnown, PluginTypes, Steps
  <2>4. StepTells' /\ FailureEnds'
    BY <2>1, <2>2 DEF PluginKnown, StepTells, FailureEnds, PluginEnds
  <2> QED
    BY <2>2, <2>3, <2>4 DEF PluginKnown
<1>4. CASE DshStarts
  BY <1>4 DEF DshStarts, Then, data, PluginKnown, PluginTypes, Steps, StepTells, FailureEnds, PluginEnds, Journal
<1> QED
  BY <1>2, <1>3, <1>4

LEMMA CrashKept ==
  ASSUME PluginKnown, PluginCrash
  PROVE  PluginKnown' /\ pluginJournal' = pluginJournal
  BY DEF PluginCrash, data, PluginKnown, PluginTypes, Steps, StepTells, PhaseTells, FailureEnds, Old, New,
         Saved, PluginEnds

LEMMA PluginStepKept ==
  ASSUME PluginKnown, [PluginNext]_pluginVars
  PROVE  PluginKnown' /\ (\/ pluginJournal'.phase = pluginJournal.phase
                          \/ Allowed(pluginJournal.phase, pluginJournal'.phase))
<1>1. CASE PluginSteps
  BY <1>1, ForwardKept, BackKept, RecoveryKept, FailedKept DEF PluginSteps
<1>2. CASE PluginCrash
  BY <1>2, CrashKept
<1>3. CASE \E chosen \in {"restart", "next-start"} : ApplyPlugins(chosen)
  BY <1>3, ApplyKept
<1>4. CASE UNCHANGED pluginVars
  BY <1>4 DEF pluginVars, PluginKnown, PluginTypes, StepTells, PhaseTells, FailureEnds, Old, New, Saved
<1> QED
  BY <1>1, <1>2, <1>3, <1>4 DEF PluginNext

-----------------------------------------------------------------------------
(* However often the transaction and its recovery are interrupted, DSH     *)
(* runs on a whole profile, what can be undone has its snapshot and what   *)
(* was committed stays.                                                    *)
THEOREM PluginsRecoverable == PluginSpec => []ChangeRecoverable
<1>1. PluginKnown => ChangeRecoverable
  BY DEF PluginKnown, PluginTypes, Journal, PhaseTells, StepTells, FailureEnds, Old, New, Saved, PluginEnds,
         ChangeRecoverable, DshRunsOnWhole, UndoPossible, CommittedKept
<1> QED
  BY <1>1, PluginInitial, PluginStepKept, PTL DEF PluginSpec

(* The journal never refuses a transition: a transition it does not allow   *)
(* would leave the transaction where it is (user-journal.mjs).             *)
THEOREM JournalTransitions == PluginSpec => TransitionsAllowed
  BY PluginInitial, PluginStepKept, PTL DEF PluginSpec, TransitionsAllowed

LEMMA StrategyTyped ==
  ASSUME strategy \in {"restart", "next-start"}, [PluginNext]_pluginVars
  PROVE  strategy' \in {"restart", "next-start"}
<1>1. CASE PluginSteps
  BY <1>1 DEF PluginSteps, Pause, CreateSnapshot, RecordSnapshot, BeginMutation, WriteManifest, RemovePackages,
              WriteSelection, CommitPlugins, BeginRestart, RestartCommitted, CompletePlugins, Cleanup, FailsEarly,
              FailsLate, Empties, Extracts, Reselects, RestorationFails, RestartRestored, Undone, RecoverPlugins,
              BootUndone, BootCleanup, DshStarts, CompleteDshStartup, Then
<1>2. CASE PluginCrash \/ UNCHANGED pluginVars
  BY <1>2 DEF PluginCrash, pluginVars
<1>3. CASE \E chosen \in {"restart", "next-start"} : ApplyPlugins(chosen)
  BY <1>3 DEF ApplyPlugins
<1> QED
  BY <1>1, <1>2, <1>3 DEF PluginNext

(* Profile, selection, journal and step of a user-plugin change are well     *)
(* typed through any number of changes and crashes (user-transaction.mjs).   *)
THEOREM PluginTyped == PluginSpec => []PluginType
<1> DEFINE IInv == PluginKnown /\ strategy \in {"restart", "next-start"}
<1>1. PluginInit => IInv
  BY PluginInitial DEF PluginInit
<1>2. IInv /\ [PluginNext]_pluginVars => IInv'
  BY PluginStepKept, StrategyTyped
<1>3. IInv => PluginType
  BY DEF PluginKnown, PluginTypes, Journal, PluginType
<1> QED
  BY <1>1, <1>2, <1>3, PTL DEF PluginSpec

-----------------------------------------------------------------------------
(* System Plugins. *)

DownApart == Down \notin Plugins

Changes == [kind : {"change"}, at : {"asked", "written"}, plugin : Plugins, to : {"on", "off"}]
JobType ==
  pluginJob \in {NoJob, [kind |-> "start"]}
    \union Changes
    \union [kind : {"restart", "start", "stop"}, at : {"asked"}]
    \union [kind : {"restart"}, at : {"prepared", "active"}, next : SUBSET Plugins, previous : SUBSET Plugins]
Pages == [at : {"next", "sent", "waiting", "restart", "failing"},
          todo : SUBSET Plugins, want : SUBSET Plugins, changed : BOOLEAN, later : BOOLEAN]
PageType ==
  page \in {Resting, [at |-> "discarding"], [at |-> "reclaiming"], [at |-> "reloaded"]} \union Pages
OutcomeType ==
  outcome \in {NoOutcome} \union [of : Plugins, ok : {FALSE}]
               \union [of : Plugins, ok : {TRUE}, strategy : {"restart", "next-start"}]
ApplyType ==
  /\ stored \subseteq Plugins /\ current \subseteq Plugins
  /\ JobType /\ PageType
  /\ draft \subseteq Plugins /\ mark \in BOOLEAN
  /\ batch \in [ids : SUBSET Plugins, want : SUBSET Plugins, was : SUBSET Plugins, lost : {"yes", "no"}]
  /\ OutcomeType

(* A DSH that runs has the current view, except while it is restarted.      *)
LoadedKnown ==
  /\ loaded \in {Down, current}
  /\ pluginJob.kind = "restart" /\ pluginJob.at \in {"prepared", "active"} => loaded = Down

As(kept, ids) == \A x \in ids : x \in stored <=> x \in kept
\* An Apply has begun to change something; nothing does.
Changing == page.at \in {"sent", "waiting", "restart"} \/ (page.at = "next" /\ page.changed = TRUE)
Quiet == page.at \in {"idle", "discarding"} \/ (page.at \in {"next", "failing"} /\ page.changed = FALSE)

(* Where an Apply is: the changes before the one it waits for are stored.   *)
MarkKnown ==
  /\ page.at \in {"reloaded", "reclaiming", "waiting", "restart"} => mark = TRUE
  /\ page.at \in {"waiting", "restart"} => page.changed = TRUE
  /\ page.at \in {"next", "sent", "failing"} /\ page.changed = TRUE => mark = TRUE
WatchKnown ==
  pluginJob.kind = "change" =>
    /\ page.at \in {"sent", "waiting"} \/ mark = TRUE \/ batch.lost = "yes"
    /\ page.at \notin {"restart", "discarding", "reclaiming"}
    /\ page.at \in {"next", "failing"} => page.changed = FALSE
BatchKnown ==
  Changing => page.todo \subseteq batch.ids /\ page.want = batch.want
DoneKnown ==
  /\ page.at = "restart" \/ (page.at = "next" /\ page.changed = TRUE) =>
       As(batch.want, batch.ids \ page.todo)
  /\ page.at = "restart" => page.todo = {}
SentKnown ==
  page.at \in {"sent", "waiting"} =>
    IF pluginJob.kind = "change"
    THEN /\ pluginJob.plugin \in batch.ids \ page.todo
         /\ pluginJob.to = "on" <=> pluginJob.plugin \in batch.want
         /\ As(batch.want, batch.ids \ (page.todo \union {pluginJob.plugin}))
         /\ IF pluginJob.at = "asked" THEN outcome = NoOutcome
            ELSE As(batch.want, {pluginJob.plugin})
    ELSE outcome # NoOutcome /\ outcome.ok = TRUE => As(batch.want, batch.ids \ page.todo)
PageKnown == MarkKnown /\ WatchKnown /\ BatchKnown /\ DoneKnown /\ SentKnown

(* What is stored when no Apply is under way: all of it, none of it, or the *)
(* view that is current and stays so.                                      *)
TakenBackFor(ids) ==
  /\ As(current, ids)
  /\ pluginJob.kind = "restart" /\ pluginJob.at \in {"prepared", "active"} =>
       As(pluginJob.next, ids) /\ As(pluginJob.previous, ids)
RestKnown ==
  Quiet /\ mark = FALSE /\ batch.lost = "no" =>
    \/ As(batch.want, batch.ids)
    \/ As(batch.was, batch.ids)
    \/ TakenBackFor(batch.ids)
ApplyInv == ApplyType /\ LoadedKnown /\ PageKnown /\ RestKnown

(* The type invariant in parts: which records the task and the page can be. *)
LEMMA JobShape ==
  ASSUME JobType
  PROVE  /\ pluginJob.kind = "change" =>
              pluginJob \in Changes
         /\ pluginJob.kind = "restart" /\ pluginJob.at \in {"prepared", "active"} =>
              pluginJob \in [kind : {"restart"}, at : {"prepared", "active"}, next : SUBSET Plugins,
                            previous : SUBSET Plugins]
BY DEF JobType, NoJob, Changes

LEMMA PageShape ==
  ASSUME PageType
  PROVE  page.at \in {"next", "sent", "waiting", "restart", "failing"} =>
           page \in Pages
BY DEF PageType, Resting, Pages

LEMMA ApplyTypes ==
  ASSUME DownApart, ApplyInv, [PluginServerNext \/ PluginPageNext]_applyVars
  PROVE  ApplyType'
<1> USE DEF DownApart, ApplyInv, ApplyType, Changes, Pages, Batch, Loses, OutcomeType, JobType, PageType,
            serverState, pageState, applyVars, NoJob, Resting, NoOutcome
<1> DEFINE Batches == [ids : SUBSET Plugins, want : SUBSET Plugins, was : SUBSET Plugins, lost : {"yes", "no"}]
<1>0. [batch EXCEPT !.lost = "yes"] \in Batches
  OBVIOUS
<1>1. CASE UNCHANGED applyVars
  <2>1. JobType' /\ PageType' /\ OutcomeType'
    BY <1>1
  <2> QED
    BY <1>1, <2>1
<1>2. CASE StoreChange
  <2>1. pluginJob \in Changes
    BY <1>2, JobShape DEF StoreChange
  <2>2. JobType' /\ stored' \subseteq Plugins
    BY <1>2, <2>1 DEF StoreChange
  <2>3. outcome' = outcome \/ outcome' = [of |-> pluginJob.plugin, ok |-> FALSE]
    BY <1>2 DEF StoreChange
  <2>4. [of |-> pluginJob.plugin, ok |-> FALSE] \in [of : Plugins, ok : {FALSE}]
    BY <2>1
  <2>5. OutcomeType'
    BY <2>3, <2>4 DEF OutcomeType
  <2> QED
    BY <1>2, <2>2, <2>5 DEF StoreChange
<1>3. CASE EndChange
  <2>1. pluginJob \in Changes
    BY <1>3, JobShape DEF EndChange
  <2>2. OutcomeType'
    BY <1>3, <2>1 DEF EndChange, OutcomeType
  <2> QED
    BY <1>3, <2>2 DEF EndChange
<1>4. CASE Prepare
  BY <1>4 DEF Prepare
<1>5. CASE Activate
  <2>1. pluginJob \in [kind : {"restart"}, at : {"prepared", "active"}, next : SUBSET Plugins,
                      previous : SUBSET Plugins]
    BY <1>5, JobShape DEF Activate
  <2> QED
    BY <1>5, <2>1 DEF Activate
<1>6. CASE Restarted
  BY <1>6 DEF Restarted
<1>7. CASE RestartFails
  <2>1. pluginJob \in [kind : {"restart"}, at : {"prepared", "active"}, next : SUBSET Plugins,
                      previous : SUBSET Plugins]
    BY <1>7, JobShape DEF RestartFails
  <2> QED
    BY <1>7, <2>1 DEF RestartFails
<1>8. CASE Started
  BY <1>8 DEF Started, Trouble
<1>9. CASE StopDone
  BY <1>9 DEF StopDone
<1>10. CASE ContainerRestarts
  BY <1>10 DEF ContainerRestarts, FromOutside
<1>11. CASE \E kind \in {"restart", "start", "stop"} : Requested(kind)
  <2>1. PICK kind \in {"restart", "start", "stop"} : Requested(kind)
    BY <1>11
  <2>2. JobType'
    BY <2>1 DEF Requested
  <2> QED
    BY <2>1, <2>2 DEF Requested
<1>12. CASE \E x \in Plugins : Choose(x)
  BY <1>12 DEF Choose, Turned
<1>13. CASE \E x \in Plugins : SendChange(x)
  <2>1. PICK x \in Plugins : SendChange(x)
    BY <1>13
  <2>2. PageType'
    <3>1. \/ page' = [page EXCEPT !.at = "sent", !.todo = @ \ {x}]
          \/ page' = [page EXCEPT !.at = "failing"]
      BY <2>1 DEF SendChange
    <3> DEFINE At == Pages
    <3>2. page \in At
      BY <2>1, PageShape DEF SendChange
    <3>3. [page EXCEPT !.at = "sent", !.todo = @ \ {x}] \in At
      BY <3>2
    <3>4. [page EXCEPT !.at = "failing"] \in At
      BY <3>2
    <3>5. page' \in At
      BY <3>1, <3>3, <3>4
    <3> QED
      BY <3>5
  <2>3. JobType'
    <3>1. pluginJob' = pluginJob \/ 
             pluginJob' = [kind |-> "change", at |-> "asked", plugin |-> x,
                          to |-> IF x \in page.want THEN "on" ELSE "off"]
      BY <2>1 DEF SendChange, Refused
    <3> QED
      BY <3>1
  <2>4. OutcomeType'
    BY <2>1 DEF SendChange, Refused, OutcomeType
  <2>5. batch' \in [ids : SUBSET Plugins, want : SUBSET Plugins, was : SUBSET Plugins, lost : {"yes", "no"}]
    <3>1. page \in Pages
      BY <2>1, PageShape DEF SendChange
    <3>2. batch' = batch \/ batch' = Batch(page.todo, page.want, stored)
      BY <2>1 DEF SendChange, Refused
    <3>3. page.todo \subseteq Plugins /\ page.want \subseteq Plugins
      BY <3>1
    <3> QED
      BY <3>2, <3>3
  <2> QED
    BY <2>1, <2>2, <2>3, <2>4, <2>5 DEF SendChange, Refused
<1>14. CASE Apply
  BY <1>14 DEF Apply
<1>15. CASE Heard
  <2>1. page \in Pages
    BY <1>15, PageShape DEF Heard
  <2>2. PageType'
    BY <1>15, <2>1 DEF Heard
  <2> QED
    BY <1>15, <2>2 DEF Heard
<1>16. CASE Waited
  <2>1. page \in Pages
    BY <1>16, PageShape DEF Waited
  <2> DEFINE good == outcome # NoOutcome /\ outcome.ok
             later == page.later \/ (good /\ outcome.strategy = "next-start")
  <2>2. later \in BOOLEAN
    BY <2>1
  <2>3. \/ page' = [page EXCEPT !.at = "failing"]
        \/ page' = [page EXCEPT !.at = "next", !.later = later]
        \/ page' = Resting
        \/ page' = [page EXCEPT !.at = "restart"]
    BY <1>16 DEF Waited
  <2>4. PageType'
    <3> HIDE DEF later
    <3> DEFINE At == Pages
    <3>1. [page EXCEPT !.at = "failing"] \in At
      BY <2>1
    <3>2. [page EXCEPT !.at = "next", !.later = later] \in At
      BY <2>1, <2>2
    <3>3. [page EXCEPT !.at = "restart"] \in At
      BY <2>1
    <3>4. page' \in At \/ page' = Resting
      BY <2>3, <3>1, <3>2, <3>3
    <3> QED
      BY <3>4
  <2>5. mark' \in BOOLEAN
    BY <1>16, <2>2 DEF Waited
  <2> QED
    BY <1>16, <2>4, <2>5 DEF Waited
<1>17. CASE SendRestart
  <2>1. PageType'
    <3>1. page' = Resting \/ page' = [page EXCEPT !.at = "failing"]
      BY <1>17 DEF SendRestart
    <3> DEFINE At == Pages
    <3>2. page \in At
      BY <1>17, PageShape DEF SendRestart
    <3>3. [page EXCEPT !.at = "failing"] \in At
      BY <3>2
    <3>4. page' \in At \/ page' = Resting
      BY <3>1, <3>3
    <3> QED
      BY <3>4
  <2>2. JobType'
    <3>1. pluginJob' = pluginJob \/ pluginJob' = [kind |-> "restart", at |-> "asked"]
      BY <1>17 DEF SendRestart, Refused
    <3> QED
      BY <3>1
  <2>3. OutcomeType'
    BY <1>17 DEF SendRestart, Refused, OutcomeType
  <2>4. mark' \in BOOLEAN
    <3>1. mark' = mark \/ mark' = FALSE
      BY <1>17 DEF SendRestart
    <3> QED
      BY <3>1
  <2> QED
    BY <1>17, <2>1, <2>2, <2>3, <2>4 DEF SendRestart, Refused
<1>18. CASE Fail
  <2>1. batch' = batch \/ batch' = [batch EXCEPT !.lost = "yes"]
    BY <1>18 DEF Fail
  <2>2. batch' \in Batches
    BY <1>0, <2>1
  <2>3. /\ page' \in {Resting, [at |-> "discarding"]} /\ UNCHANGED <<serverState, draft>>
        /\ mark' = mark \/ mark' = FALSE
    BY <1>18 DEF Fail
  <2> HIDE DEF Batch, Changes, Pages
  <2> QED
    BY <2>2, <2>3
<1>19. CASE TakenBack
  BY <1>19 DEF TakenBack, Exclusive
<1>20. CASE CancelDraft
  <2>1. batch' \in {batch, [batch EXCEPT !.lost = "yes"], Batch(Plugins, current, stored)}
    BY <1>20 DEF CancelDraft
  <2>2. batch' \in Batches
    BY <1>0, <2>1
  <2>3. /\ page' \in {page, Resting, [at |-> "discarding"]} /\ draft' = {} /\ UNCHANGED serverState
        /\ mark' = mark \/ mark' = FALSE
    BY <1>20 DEF CancelDraft
  <2> HIDE DEF Batch, Changes, Pages
  <2> QED
    BY <2>2, <2>3
<1>21. CASE Reload
  BY <1>21 DEF Reload, FromOutside
<1>22. CASE Reclaim
  BY <1>22 DEF Reclaim, NothingRuns
<1> QED
  BY <1>1, <1>2, <1>3, <1>4, <1>5, <1>6, <1>7, <1>8, <1>9, <1>10, <1>11, <1>12, <1>13,
     <1>14, <1>15, <1>16, <1>17, <1>18, <1>19, <1>20, <1>21, <1>22
     DEF PluginServerNext, PluginPageNext

LEMMA LoadedStep ==
  ASSUME DownApart, ApplyInv, [PluginServerNext \/ PluginPageNext]_applyVars
  PROVE  LoadedKnown'
<1> USE DEF DownApart, ApplyInv, ApplyType, Changes, Pages, Batch, Loses, JobType, PageType, LoadedKnown,
            serverState, pageState, applyVars, NoJob, Resting, NoOutcome
<1>1. CASE UNCHANGED applyVars
  BY <1>1 DEF applyVars
<1>2. CASE StoreChange
  BY <1>2 DEF StoreChange, Trouble
<1>3. CASE EndChange
  BY <1>3 DEF EndChange
<1>4. CASE Prepare
  BY <1>4 DEF Prepare
<1>5. CASE Activate
  BY <1>5 DEF Activate
<1>6. CASE Restarted
  BY <1>6 DEF Restarted
<1>7. CASE RestartFails
  BY <1>7 DEF RestartFails, Trouble
<1>8. CASE Started
  BY <1>8 DEF Started, Trouble
<1>9. CASE StopDone
  BY <1>9 DEF StopDone
<1>10. CASE ContainerRestarts
  BY <1>10 DEF ContainerRestarts, FromOutside
<1>11. CASE \E kind \in {"restart", "start", "stop"} : Requested(kind)
  BY <1>11 DEF Requested, NothingRuns, FromOutside
<1>12. CASE \E x \in Plugins : Choose(x)
  BY <1>12 DEF Choose, Turned
<1>13. CASE \E x \in Plugins : SendChange(x)
  BY <1>13 DEF SendChange, NothingRuns, Refused
<1>14. CASE Apply
  BY <1>14 DEF Apply
<1>15. CASE Heard
  BY <1>15 DEF Heard
<1>16. CASE Waited
  BY <1>16 DEF Waited, TaskOver
<1>17. CASE SendRestart
  BY <1>17 DEF SendRestart, NothingRuns, Refused
<1>18. CASE Fail
  BY <1>18 DEF Fail, NothingRuns
<1>19. CASE TakenBack
  BY <1>19 DEF TakenBack, Exclusive
<1>20. CASE CancelDraft
  BY <1>20 DEF CancelDraft, NothingRuns
<1>21. CASE Reload
  BY <1>21 DEF Reload, FromOutside
<1>22. CASE Reclaim
  BY <1>22 DEF Reclaim, NothingRuns
<1> QED
  BY <1>1, <1>2, <1>3, <1>4, <1>5, <1>6, <1>7, <1>8, <1>9, <1>10, <1>11, <1>12, <1>13,
     <1>14, <1>15, <1>16, <1>17, <1>18, <1>19, <1>20, <1>21, <1>22
     DEF PluginServerNext, PluginPageNext

LEMMA PageStep ==
  ASSUME DownApart, ApplyInv, [PluginServerNext \/ PluginPageNext]_applyVars
  PROVE  PageKnown'
<1> USE DEF DownApart, ApplyInv, ApplyType, Changes, Pages, Batch, Loses, JobType, PageType, PageKnown, Changing, Quiet, As,
            serverState, pageState, applyVars, NoJob, Resting, NoOutcome
<1>1. CASE UNCHANGED applyVars
  BY <1>1 DEF applyVars, MarkKnown, WatchKnown, BatchKnown, DoneKnown, SentKnown
<1>2. CASE StoreChange
  <2>1. pluginJob \in Changes
    BY <1>2, JobShape DEF StoreChange
  <2> DEFINE x == pluginJob.plugin
  <2>2. UNCHANGED <<draft, page, mark, batch>>
    BY <1>2 DEF StoreChange
  <2>3. CASE /\ stored' = IF pluginJob.to = "on" THEN stored \union {x} ELSE stored \ {x}
             /\ pluginJob' = [pluginJob EXCEPT !.at = "written"] /\ UNCHANGED outcome
    <3>1. /\ pluginJob'.kind = "change" /\ pluginJob'.at = "written" /\ pluginJob'.plugin = x
          /\ pluginJob'.to = pluginJob.to
      BY <2>1, <2>3
    <3>2. \A y \in Plugins : y # x => (y \in stored' <=> y \in stored)
      BY <2>3
    <3>3. x \in stored' <=> pluginJob.to = "on"
      BY <2>3
    <3>4. pluginJob.kind = "change" /\ pluginJob.at = "asked"
      BY <1>2 DEF StoreChange
    <3>5. ~(page.at = "restart" \/ (page.at = "next" /\ page.changed = TRUE))
      BY <3>4 DEF WatchKnown
    <3>6. MarkKnown' /\ WatchKnown' /\ DoneKnown' /\ BatchKnown'
      BY <2>2, <3>1, <3>4, <3>5 DEF MarkKnown, WatchKnown, DoneKnown, BatchKnown
    <3>7. SentKnown'
      <4> SUFFICES ASSUME page.at \in {"sent", "waiting"} PROVE SentKnown'
        BY <2>2 DEF SentKnown
      <4>1. /\ x \in batch.ids \ page.todo /\ (pluginJob.to = "on" <=> x \in batch.want)
            /\ As(batch.want, batch.ids \ (page.todo \union {x}))
            /\ batch.ids \subseteq Plugins
        BY <3>4 DEF SentKnown
      <4> QED
        BY <2>2, <3>1, <3>2, <3>3, <4>1 DEF SentKnown
    <3> QED
      BY <3>6, <3>7
  <2>4. CASE pluginJob' = NoJob /\ UNCHANGED stored /\ outcome' = [of |-> x, ok |-> FALSE]
    BY <1>2, <2>2, <2>4 DEF MarkKnown, WatchKnown, BatchKnown, DoneKnown, SentKnown
  <2> QED
    BY <1>2, <2>3, <2>4 DEF StoreChange
<1>3. CASE EndChange
  BY <1>3 DEF EndChange, MarkKnown, WatchKnown, BatchKnown, DoneKnown, SentKnown
<1>4. CASE Prepare
  BY <1>4 DEF Prepare, MarkKnown, WatchKnown, BatchKnown, DoneKnown, SentKnown
<1>5. CASE Activate
  BY <1>5 DEF Activate, MarkKnown, WatchKnown, BatchKnown, DoneKnown, SentKnown
<1>6. CASE Restarted
  BY <1>6 DEF Restarted, MarkKnown, WatchKnown, BatchKnown, DoneKnown, SentKnown
<1>7. CASE RestartFails
  BY <1>7 DEF RestartFails, Trouble, MarkKnown, WatchKnown, BatchKnown, DoneKnown, SentKnown
<1>8. CASE Started
  BY <1>8 DEF Started, Trouble, MarkKnown, WatchKnown, BatchKnown, DoneKnown, SentKnown
<1>9. CASE StopDone
  BY <1>9 DEF StopDone, MarkKnown, WatchKnown, BatchKnown, DoneKnown, SentKnown
<1>10. CASE ContainerRestarts
  BY <1>10 DEF ContainerRestarts, FromOutside, MarkKnown, WatchKnown, BatchKnown, DoneKnown, SentKnown
<1>11. CASE \E kind \in {"restart", "start", "stop"} : Requested(kind)
  BY <1>11 DEF Requested, NothingRuns, FromOutside, MarkKnown, WatchKnown, BatchKnown, DoneKnown, SentKnown
<1>12. CASE \E x \in Plugins : Choose(x)
  BY <1>12 DEF Choose, Turned, MarkKnown, WatchKnown, BatchKnown, DoneKnown, SentKnown
<1>13. CASE \E x \in Plugins : SendChange(x)
  <2>1. PICK x \in Plugins : SendChange(x)
    BY <1>13
  <2>2. /\ page.at = "next" /\ x \in page.todo /\ UNCHANGED <<draft, mark, stored, current>>
        /\ pluginJob.kind # "change" \/ UNCHANGED pluginJob
    BY <2>1 DEF SendChange, Refused, NothingRuns
  <2>3. page \in Pages
    BY <2>2, PageShape
  <2>4. CASE /\ pluginJob' = [kind |-> "change", at |-> "asked", plugin |-> x,
                              to |-> IF x \in page.want THEN "on" ELSE "off"]
             /\ outcome' = NoOutcome
             /\ page' = [page EXCEPT !.at = "sent", !.todo = @ \ {x}]
             /\ batch' = IF page.changed THEN batch ELSE Batch(page.todo, page.want, stored)
    <3>1. /\ page'.at = "sent" /\ page'.todo = page.todo \ {x} /\ page'.changed = page.changed
          /\ page'.want = page.want
          /\ pluginJob'.kind = "change" /\ pluginJob'.at = "asked" /\ pluginJob'.plugin = x
          /\ pluginJob'.to = "on" <=> x \in page.want
      BY <2>3, <2>4
    <3>2. MarkKnown' /\ WatchKnown' /\ DoneKnown'
      BY <2>2, <3>1 DEF MarkKnown, WatchKnown, DoneKnown
    <3>3. CASE page.changed = TRUE
      <4>1. /\ batch' = batch /\ page.todo \subseteq batch.ids /\ page.want = batch.want
            /\ As(batch.want, batch.ids \ page.todo)
        BY <2>2, <2>4, <3>3 DEF BatchKnown, DoneKnown
      <4> QED
        BY <2>2, <2>4, <3>1, <3>2, <4>1 DEF BatchKnown, SentKnown
    <3>4. CASE page.changed = FALSE
      <4>1. batch'.ids = page.todo /\ batch'.want = page.want
        BY <2>4, <3>4
      <4> QED
        BY <2>2, <2>4, <3>1, <3>2, <4>1 DEF BatchKnown, SentKnown
    <3> QED
      BY <2>3, <3>3, <3>4
  <2>5. CASE UNCHANGED <<pluginJob, outcome, batch>> /\ page' = [page EXCEPT !.at = "failing"]
    <3>1. page'.at = "failing" /\ page'.changed = page.changed
      BY <2>3, <2>5
    <3> QED
      BY <2>2, <2>5, <3>1 DEF MarkKnown, WatchKnown, BatchKnown, DoneKnown, SentKnown
  <2> QED
    BY <2>1, <2>4, <2>5 DEF SendChange, Refused
<1>14. CASE Apply
  BY <1>14 DEF Apply, MarkKnown, WatchKnown, BatchKnown, DoneKnown, SentKnown
<1>15. CASE Heard
  BY <1>15 DEF Heard, MarkKnown, WatchKnown, BatchKnown, DoneKnown, SentKnown
<1>16. CASE Waited
  <2>1. page \in Pages
    BY <1>16, PageShape DEF Waited
  <2> DEFINE good == outcome # NoOutcome /\ outcome.ok
             later == page.later \/ (good /\ outcome.strategy = "next-start")
  <2>2. /\ page.at = "waiting" /\ pluginJob.kind # "change" /\ page.changed = TRUE /\ mark = TRUE
        /\ UNCHANGED <<stored, pluginJob, outcome, batch>>
    BY <1>16 DEF Waited, TaskOver, MarkKnown
  <2>3. CASE ~good /\ page' = [page EXCEPT !.at = "failing"] /\ UNCHANGED mark
    <3>1. page'.at = "failing" /\ page'.changed = TRUE
      BY <2>1, <2>2, <2>3
    <3> QED
      BY <2>2, <2>3, <3>1 DEF MarkKnown, WatchKnown, BatchKnown, DoneKnown, SentKnown
  <2>4. CASE good
    <3>1. As(batch.want, batch.ids \ page.todo)
      <4>1. outcome # NoOutcome /\ outcome.ok = TRUE
        BY <2>4
      <4> QED
        BY <2>2, <4>1 DEF SentKnown
    <3>2. CASE page.todo # {} /\ page' = [page EXCEPT !.at = "next", !.later = later] /\ mark' = mark
      <4>1. page'.at = "next" /\ page'.changed = TRUE /\ page'.todo = page.todo
        BY <2>1, <2>2, <3>2
      <4> QED
        BY <2>2, <3>1, <3>2, <4>1
           DEF MarkKnown, WatchKnown, BatchKnown, DoneKnown, SentKnown
    <3>3. CASE page.todo = {} /\ page' = Resting /\ draft' = {}
      BY <2>2, <3>3 DEF MarkKnown, WatchKnown, BatchKnown, DoneKnown, SentKnown
    <3>4. CASE page.todo = {} /\ page' = [page EXCEPT !.at = "restart"] /\ mark' = TRUE
      <4>1. page'.at = "restart" /\ page'.changed = TRUE /\ page'.todo = page.todo
        BY <2>1, <2>2, <3>4
      <4> QED
        BY <2>2, <3>1, <3>4, <4>1
           DEF MarkKnown, WatchKnown, BatchKnown, DoneKnown, SentKnown
    <3>5. mark = TRUE /\ ~later => (mark /\ ~later) = TRUE
      OBVIOUS
    <3> QED
      BY <1>16, <2>2, <2>4, <3>2, <3>3, <3>4 DEF Waited
  <2> QED
    BY <1>16, <2>3, <2>4 DEF Waited
<1>17. CASE SendRestart
  <2>1. page \in Pages
    BY <1>17, PageShape DEF SendRestart
  <2>2. /\ page.at = "restart" /\ pluginJob.kind # "change" /\ page.changed = TRUE
        /\ UNCHANGED <<stored, draft, batch>>
    BY <1>17 DEF SendRestart, Refused, MarkKnown, WatchKnown
  <2>3. CASE page' = Resting /\ mark' = FALSE /\ pluginJob' = [kind |-> "restart", at |-> "asked"]
    BY <2>2, <2>3 DEF MarkKnown, WatchKnown, BatchKnown, DoneKnown, SentKnown
  <2>4. CASE page' = [page EXCEPT !.at = "failing"] /\ UNCHANGED <<pluginJob, mark>>
    <3>1. page'.at = "failing" /\ page'.changed = TRUE
      BY <2>1, <2>2, <2>4
    <3> QED
      BY <2>2, <2>4, <3>1 DEF MarkKnown, WatchKnown, BatchKnown, DoneKnown, SentKnown
  <2> QED
    BY <1>17, <2>3, <2>4 DEF SendRestart, Refused
<1>18. CASE Fail
  BY <1>18 DEF Fail, NothingRuns, MarkKnown, WatchKnown, BatchKnown, DoneKnown, SentKnown
<1>19. CASE TakenBack
  BY <1>19 DEF TakenBack, Exclusive, MarkKnown, WatchKnown, BatchKnown, DoneKnown, SentKnown
<1>20. CASE CancelDraft
  BY <1>20 DEF CancelDraft, NothingRuns, MarkKnown, WatchKnown, BatchKnown, DoneKnown, SentKnown
<1>21. CASE Reload
  BY <1>21 DEF Reload, FromOutside, MarkKnown, WatchKnown, BatchKnown, DoneKnown, SentKnown
<1>22. CASE Reclaim
  <2>1. page.at = "reloaded" /\ mark = TRUE /\ UNCHANGED <<serverState, draft, mark, batch>>
    BY <1>22 DEF Reclaim, MarkKnown
  <2>2. CASE pluginJob.kind = "none" /\ page' = [at |-> "reclaiming"]
    BY <2>1, <2>2 DEF MarkKnown, WatchKnown, BatchKnown, DoneKnown, SentKnown
  <2>3. CASE page' = Resting
    BY <2>1, <2>3 DEF MarkKnown, WatchKnown, BatchKnown, DoneKnown, SentKnown
  <2> QED
    BY <1>22, <2>2, <2>3 DEF Reclaim, NothingRuns
<1> QED
  BY <1>1, <1>2, <1>3, <1>4, <1>5, <1>6, <1>7, <1>8, <1>9, <1>10, <1>11, <1>12, <1>13,
     <1>14, <1>15, <1>16, <1>17, <1>18, <1>19, <1>20, <1>21, <1>22
     DEF PluginServerNext, PluginPageNext

LEMMA RestStep ==
  ASSUME DownApart, ApplyInv, [PluginServerNext \/ PluginPageNext]_applyVars
  PROVE  RestKnown'
<1> USE DEF DownApart, ApplyInv, ApplyType, Changes, Pages, Batch, Loses, JobType, PageType, PageKnown, MarkKnown, BatchKnown, DoneKnown, SentKnown, WatchKnown, RestKnown, TakenBackFor, Changing, Quiet, As,
            serverState, pageState, applyVars, NoJob, Resting, NoOutcome
<1>1. CASE UNCHANGED applyVars
  BY <1>1 DEF applyVars
<1>2. CASE StoreChange
  BY <1>2 DEF StoreChange, Trouble
<1>3. CASE EndChange
  BY <1>3 DEF EndChange
<1>4. CASE Prepare
  BY <1>4 DEF Prepare
<1>5. CASE Activate
  BY <1>5 DEF Activate
<1>6. CASE Restarted
  BY <1>6 DEF Restarted
<1>7. CASE RestartFails
  BY <1>7 DEF RestartFails, Trouble
<1>8. CASE Started
  BY <1>8 DEF Started, Trouble
<1>9. CASE StopDone
  BY <1>9 DEF StopDone
<1>10. CASE ContainerRestarts
  BY <1>10 DEF ContainerRestarts, FromOutside
<1>11. CASE \E kind \in {"restart", "start", "stop"} : Requested(kind)
  BY <1>11 DEF Requested, NothingRuns, FromOutside
<1>12. CASE \E x \in Plugins : Choose(x)
  BY <1>12 DEF Choose, Turned
<1>13. CASE \E x \in Plugins : SendChange(x)
  BY <1>13 DEF SendChange, NothingRuns, Refused
<1>14. CASE Apply
  BY <1>14 DEF Apply
<1>15. CASE Heard
  BY <1>15 DEF Heard
<1>16. CASE Waited
  BY <1>16 DEF Waited, TaskOver
<1>17. CASE SendRestart
  BY <1>17 DEF SendRestart, NothingRuns, Refused
<1>18. CASE Fail
  BY <1>18 DEF Fail, NothingRuns
<1>19. CASE TakenBack
  BY <1>19 DEF TakenBack, Exclusive
<1>20. CASE CancelDraft
  BY <1>20 DEF CancelDraft, NothingRuns
<1>21. CASE Reload
  <2>1. /\ page' = IF mark THEN [at |-> "reloaded"] ELSE Resting
        /\ batch' = IF page.at = "sent" /\ ~mark THEN [batch EXCEPT !.lost = "yes"] ELSE batch
        /\ UNCHANGED <<serverState, mark>>
    BY <1>21 DEF Reload
  <2> SUFFICES ASSUME mark = FALSE, batch'.lost = "no" PROVE RestKnown'
    BY <2>1
  <2>2. page.at # "sent" /\ batch' = batch
    BY <2>1
  <2>3. Quiet
    BY <2>2
  <2> QED
    BY <2>1, <2>2, <2>3
<1>22. CASE Reclaim
  BY <1>22 DEF Reclaim, NothingRuns
<1> QED
  BY <1>1, <1>2, <1>3, <1>4, <1>5, <1>6, <1>7, <1>8, <1>9, <1>10, <1>11, <1>12, <1>13,
     <1>14, <1>15, <1>16, <1>17, <1>18, <1>19, <1>20, <1>21, <1>22
     DEF PluginServerNext, PluginPageNext

LEMMA ApplyInit == ASSUME DownApart, SystemPluginsInit PROVE ApplyInv
<1> USE DEF SystemPluginsInit, Resting, NoJob, NoOutcome
<1>1. ApplyType
  BY DEF ApplyType, JobType, PageType, OutcomeType, Batch
<1>2. LoadedKnown /\ RestKnown
  BY DEF LoadedKnown, RestKnown, As, Batch, Quiet
<1>3. PageKnown
  BY DEF PageKnown, MarkKnown, WatchKnown, BatchKnown, DoneKnown, SentKnown, Changing, Quiet
<1> QED
  BY <1>1, <1>2, <1>3 DEF ApplyInv

(* A DSH that runs has the plugins that are listed as active, and an Apply *)
(* that is over is stored whole, or not at all, or is what is active: for  *)
(* every set of plugins and however often Apply, restarts, failures and    *)
(* reloads follow each other (applySystemPluginDraft in app.js, and        *)
(* applySystemPluginSelection and discardSystemPluginSelection).           *)
THEOREM AppliesWhole == ASSUME DownApart PROVE SystemPluginsSpec => []ApplyWhole
<1>1. SystemPluginsInit => ApplyInv
  BY ApplyInit
<1>2. ApplyInv /\ [PluginServerNext \/ PluginPageNext]_applyVars => ApplyInv'
  <2> SUFFICES ASSUME ApplyInv, [PluginServerNext \/ PluginPageNext]_applyVars PROVE ApplyInv'
    OBVIOUS
  <2>1. ApplyType' /\ LoadedKnown' /\ PageKnown' /\ RestKnown'
    BY ApplyTypes, LoadedStep, PageStep, RestStep
  <2> QED
    BY <2>1 DEF ApplyInv
<1>3. ApplyInv => ApplyWhole
  <2> SUFFICES ASSUME ApplyInv PROVE ApplyWhole
    OBVIOUS
  <2>1. RunsCurrentView
    BY DEF ApplyInv, LoadedKnown, RunsCurrentView
  <2>2. AllOrNone
    <3> SUFFICES ASSUME page = Resting, mark = FALSE, batch.lost = "no"
                 PROVE  \/ As(batch.want, batch.ids) \/ As(batch.was, batch.ids) \/ As(current, batch.ids)
      BY DEF AllOrNone, As, ApplyInv, ApplyType
    <3> QED
      BY DEF ApplyInv, RestKnown, TakenBackFor, Resting, Quiet
  <2> QED
    BY <2>1, <2>2 DEF ApplyWhole
<1> QED
  BY <1>1, <1>2, <1>3, PTL DEF SystemPluginsSpec

-----------------------------------------------------------------------------
(* System Skills. *)

Selection(e) == [Catalog[e] -> {"on", "off", "gone"}]
Selections == UNION {Selection(e) : e \in SkillEnvs}
ChangeSteps == {"idle", "write", "prune", "link", "undo", "reprune", "relink"}
SkillTypes ==
  /\ skillEnv \in SkillEnvs /\ sourceEnv \in SkillEnvs /\ adopted \in BOOLEAN
  /\ tangled \in {"no", "now", "left"}
  /\ skillSelection \in Selections
  /\ skillChange \in [step : ChangeSteps, env : SkillEnvs \union {0},
                    before : Selections \union {<<>>}, next : Selections \union {<<>>}]
  /\ adopt \in [step : {"idle", "read", "write", "prune", "link"},
              by : {"queue", "recovery", "boot"}, env : SkillEnvs \union {0},
              next : Selections \union {<<>>}]

(* Between two tasks that ran alone the view is the selection's, and while *)
(* one runs alone its steps say how much of it has been written.           *)
Shown(choice, e) == links = [s \in Enabled(choice) |-> e]
RestsRight ==
  adopted = TRUE =>
    /\ sourceEnv = skillEnv /\ adopt.step = "idle"
    /\ tangled = "no" /\ skillChange.step = "idle" =>
         skillSelection \in Selection(skillEnv) /\ Shown(skillSelection, skillEnv)
ChangeRight ==
  skillChange.step # "idle" =>
    /\ skillChange.env \in SkillEnvs
    /\ skillChange.before \in Selection(skillChange.env) /\ skillChange.next \in Selection(skillChange.env)
    /\ skillChange.step \in {"undo", "reprune", "relink"} => skillChange.next = skillChange.before
    /\ tangled # "now" =>
         /\ adopt.step = "idle" /\ skillChange.env = sourceEnv
         /\ skillChange.step \in {"prune", "link", "reprune", "relink"} => skillSelection = skillChange.next
         /\ skillChange.step \in {"link", "relink"} => DOMAIN links \subseteq Enabled(skillChange.next)
AdoptRight ==
  adopt.step # "idle" =>
    /\ adopted = FALSE /\ adopt.env = skillEnv
    /\ adopt.step \in {"write", "prune", "link"} => adopt.next \in Selection(skillEnv)
    /\ tangled # "now" =>
         /\ skillChange.step = "idle"
         /\ adopt.step = "write" => adopt.next = Normalized(skillSelection, skillEnv)
         /\ adopt.step \in {"prune", "link"} => skillSelection = adopt.next
         /\ adopt.step = "link" => DOMAIN links \subseteq Enabled(adopt.next)
SkillInv == SkillTypes /\ RestsRight /\ ChangeRight /\ AdoptRight

LEMMA Normal ==
  ASSUME NEW e \in SkillEnvs, NEW choice \in Selections
  PROVE  Normalized(choice, e) \in Selection(e)
BY DEF Normalized, Selection, Selections

LEMMA NormalSame ==
  ASSUME NEW e \in SkillEnvs, NEW choice \in Selection(e)
  PROVE  Normalized(choice, e) = choice
BY DEF Normalized, Selection

(* Removing what is not enabled and linking what is shows the choice.      *)
LEMMA LinkedShows ==
  ASSUME NEW choice, NEW e, DOMAIN links \subseteq Enabled(choice)
  PROVE  Linked(choice, e) = [s \in Enabled(choice) |-> e]
BY DEF Linked

LEMMA PrunedInside ==
  ASSUME NEW choice
  PROVE  DOMAIN Pruned(choice) \subseteq Enabled(choice)
BY DEF Pruned

LEMMA SkillsInitial == ASSUME SkillsInit PROVE SkillInv
<1>1. /\ skillSelection \in Selection(skillEnv) /\ Enabled(skillSelection) = Catalog[skillEnv]
      /\ skillEnv \in SkillEnvs
  BY DEF SkillsInit, Normalized, Selection, Enabled
<1>2. SkillTypes
  BY <1>1 DEF SkillsInit, SkillTypes, Selections, ChangeSteps, NoChange, NoAdopt
<1>3. RestsRight
  BY <1>1 DEF SkillsInit, RestsRight, Shown, NoChange, NoAdopt
<1>4. ChangeRight /\ AdoptRight
  BY DEF SkillsInit, ChangeRight, AdoptRight, NoChange, NoAdopt
<1> QED
  BY <1>2, <1>3, <1>4 DEF SkillInv

LEMMA SkillStep ==
  ASSUME SkillInv, [SkillsNext]_skillVars
  PROVE  SkillInv'
<1> USE DEF SkillInv, SkillTypes, RestsRight, ChangeRight, AdoptRight, Shown, NoChange, NoAdopt,
            ChangeSteps, envVars, Use, SkillsBegin, EndsWell, EndsBadly
<1>1. CASE UNCHANGED skillVars
  BY <1>1 DEF skillVars
<1>2. CASE Configure
  <2>1. PICK s \in Catalog[sourceEnv] : \E to \in Outcomes(Normalized(skillSelection, sourceEnv)[s]) :
          skillChange' = [step |-> "write", env |-> sourceEnv, before |-> Normalized(skillSelection, sourceEnv),
                          next |-> [Normalized(skillSelection, sourceEnv) EXCEPT ![s] = to]]
    BY <1>2 DEF Configure
  <2>2. PICK to \in Outcomes(Normalized(skillSelection, sourceEnv)[s]) :
          skillChange' = [step |-> "write", env |-> sourceEnv, before |-> Normalized(skillSelection, sourceEnv),
                          next |-> [Normalized(skillSelection, sourceEnv) EXCEPT ![s] = to]]
    BY <2>1
  <2>3. Normalized(skillSelection, sourceEnv) \in Selection(sourceEnv)
    BY Normal
  <2>4. [Normalized(skillSelection, sourceEnv) EXCEPT ![s] = to] \in Selection(sourceEnv)
    BY <2>3 DEF Outcomes, Selection
  <2>5. Normalized(skillSelection, sourceEnv) \in Selections
        /\ [Normalized(skillSelection, sourceEnv) EXCEPT ![s] = to] \in Selections
    BY <2>3, <2>4 DEF Selections
  <2>6. skillChange' \in [step : ChangeSteps, env : SkillEnvs \union {0},
                    before : Selections \union {<<>>}, next : Selections \union {<<>>}]
    BY <2>2, <2>5
  <2> QED
    BY <1>2, <2>2, <2>3, <2>4, <2>6 DEF Configure
<1>3. CASE WriteChange
  BY <1>3 DEF WriteChange, Selections
<1>4. CASE ShowChange
  <2>1. CASE skillChange.step \in {"prune", "reprune"}
    BY <1>4, <2>1, PrunedInside DEF ShowChange, Afterwards
  <2>2. CASE skillChange.step \in {"link", "relink"}
    BY <1>4, <2>2, LinkedShows DEF ShowChange, Afterwards
  <2> QED
    BY <1>4, <2>1, <2>2 DEF ShowChange
<1>5. CASE ChangeFails
  <2>1. CASE skillChange.step \in {"write", "prune", "link"}
    <3>1. /\ skillChange' = [skillChange EXCEPT !.step = "undo", !.next = skillChange.before]
          /\ UNCHANGED <<envVars, skillSelection, links, adopt, adopted, tangled>>
      BY <1>5, <2>1 DEF ChangeFails
    <3>2. /\ skillChange'.step = "undo" /\ skillChange'.env = skillChange.env
          /\ skillChange'.before = skillChange.before /\ skillChange'.next = skillChange.before
          /\ skillChange' \in [step : ChangeSteps, env : SkillEnvs \union {0},
                    before : Selections \union {<<>>}, next : Selections \union {<<>>}]
      BY <3>1
    <3>3. ChangeRight'
      BY <2>1, <3>1, <3>2
    <3> QED
      BY <2>1, <3>1, <3>2, <3>3
  <2>2. CASE skillChange.step \in {"undo", "reprune", "relink"}
    <3>1. /\ skillChange' = NoChange /\ tangled' \in {"now", "left"}
          /\ UNCHANGED <<envVars, skillSelection, links, adopt, adopted>>
          /\ adopt.step # "idle" => tangled' = "now"
      BY <1>5, <2>2 DEF ChangeFails
    <3> QED
      BY <3>1
  <2> QED
    BY <1>5, <2>1, <2>2 DEF ChangeFails
<1>6. CASE UndoChange
  BY <1>6 DEF UndoChange, Selections
<1>7. CASE StartDsh
  <2>1. PICK by \in {"queue", "recovery"} :
          /\ IF by = "queue" THEN skillChange.step = "idle" /\ skillEnv' \in SkillEnvs
             ELSE UNCHANGED skillEnv
          /\ adopt' = [step |-> "read", by |-> by, env |-> skillEnv', next |-> <<>>]
    BY <1>7 DEF StartDsh
  <2>2. /\ adopt.step = "idle" /\ adopted' = FALSE /\ skillEnv' \in SkillEnvs
        /\ tangled' = IF skillChange.step = "idle" THEN tangled ELSE "now"
        /\ UNCHANGED <<sourceEnv, skillSelection, links, skillChange>>
    BY <1>7, <2>1 DEF StartDsh
  <2>3. SkillTypes' /\ RestsRight' /\ AdoptRight'
    BY <2>1, <2>2
  <2>4. ChangeRight'
    BY <2>2
  <2> QED
    BY <2>3, <2>4
<1>8. CASE UseSourceRoot
  <2>1. Normalized(skillSelection, adopt.env) \in Selection(skillEnv)
    BY <1>8, Normal DEF UseSourceRoot
  <2> QED
    BY <1>8, <2>1 DEF UseSourceRoot, Selections
<1>9. CASE WriteAdopted
  BY <1>9 DEF WriteAdopted, Selections
<1>10. CASE ShowAdopted
  <2>1. CASE adopt.step = "prune"
    BY <1>10, <2>1, PrunedInside DEF ShowAdopted
  <2>2. CASE adopt.step = "link"
    BY <1>10, <2>2, LinkedShows DEF ShowAdopted
  <2> QED
    BY <1>10, <2>1, <2>2 DEF ShowAdopted
<1>11. CASE AdoptFails
  <2>1. /\ adopt.step # "idle"
        /\ adopt' \in {[adopt EXCEPT !.step = "read", !.next = <<>>], NoAdopt}
        /\ UNCHANGED <<envVars, skillSelection, links, skillChange, adopted>>
        /\ tangled' = IF skillChange.step # "idle" THEN "now" ELSE "left"
    BY <1>11 DEF AdoptFails
  <2>2. CASE adopt' = NoAdopt
    BY <2>1, <2>2
  <2>3. CASE adopt' = [adopt EXCEPT !.step = "read", !.next = <<>>]
    <3>1. adopt'.step = "read" /\ adopt'.env = adopt.env
      BY <2>3
    <3>2. SkillTypes'
      BY <2>1, <2>3
    <3>3. AdoptRight' /\ RestsRight' /\ ChangeRight'
      BY <2>1, <3>1
    <3> QED
      BY <3>2, <3>3
  <2> QED
    BY <2>1, <2>2, <2>3
<1>12. CASE BootstrapCrashes
  BY <1>12 DEF BootstrapCrashes
<1> QED
  BY <1>1, <1>2, <1>3, <1>4, <1>5, <1>6, <1>7, <1>8, <1>9, <1>10, <1>11, <1>12 DEF SkillsNext

(* DSH has the Skills that were chosen, and only the user chooses, but for  *)
(* what a recovery overlaps or a failed undo leaves, which the next start or *)
(* change puts right: for every catalog, whatever writes failed and wherever *)
(* Bootstrap crashed (configure and useSourceRoot of skill-manager).        *)
THEOREM SkillsStand == SkillsSpec => SkillsAsChosen
<1>1. SkillsInit => SkillInv
  BY SkillsInitial
<1>2. SkillInv /\ [SkillsNext]_skillVars => SkillInv'
  BY SkillStep
<1>3. SkillInv => ViewRight
  BY NormalSame DEF SkillInv, SkillTypes, RestsRight, Shown, ViewRight
<1>4. SkillInv /\ [SkillsNext]_skillVars =>
        [skillChange' = skillChange /\ tangled # "now"
         => \A s \in DOMAIN skillSelection \cap DOMAIN skillSelection' :
              skillSelection'[s] = skillSelection[s]]_skillVars
  <2> SUFFICES ASSUME SkillInv, [SkillsNext]_skillVars, skillChange' = skillChange, tangled # "now",
                      NEW s \in DOMAIN skillSelection \cap DOMAIN skillSelection'
               PROVE  skillSelection'[s] = skillSelection[s]
    OBVIOUS
  <2>1. CASE UNCHANGED skillSelection
    BY <2>1
  <2>2. CASE WriteChange \/ UndoChange
    BY <2>2 DEF WriteChange, UndoChange, SkillInv, SkillTypes
  <2>3. CASE WriteAdopted
    BY <2>3 DEF WriteAdopted, SkillInv, AdoptRight, Normalized
  <2> QED
    BY <2>1, <2>2, <2>3 DEF SkillsNext, skillVars, Configure, ShowChange, ChangeFails, StartDsh, UseSourceRoot,
                            ShowAdopted, AdoptFails, BootstrapCrashes
<1> QED
  BY <1>1, <1>2, <1>3, <1>4, PTL DEF SkillsSpec, SkillsAsChosen, ChoiceStands

-----------------------------------------------------------------------------
(* The Managed store. *)

(* An asset or version 0 is the image's, and 99 stands for no Deployment.   *)
Numbered == {0, 99} \cap (Versions \union Envs) = {}

Versioned == [dsh : Versions \union {0, 99}, env : Envs \union {0, 99}, snap : Nat]
Working ==
  {"download", "pristine", "environment", "runtime", "plugins", "begin", "snapshot", "bind", "stage",
   "commit", "journal", "collect"}
BuildSteps == Working \union {"idle", "down", "collected"}
Builds == [step : BuildSteps, kind : {"stable", "experimental"}, to : Versioned, obsolete : Nat]
Txns ==
  [phase : {"none", "open", "snapshotted", "committed", "over"}, from : Versioned, to : Versioned, snap : Nat]
Slots == [current : Versioned, previous : Versioned]
StoreTypes ==
  /\ disk \in [DOMAIN disk -> {"whole", "torn"}]
  /\ managedSlots \in Slots /\ txn \in Txns /\ build \in Builds
  /\ cleaning \in [step : DOMAIN After \union {"idle", "read", "roots", "snapshots", "records"},
                   seen : SUBSET managedRecords, roots : SUBSET managedRecords, snap : Nat]
  /\ begun \in Nat

Found(r) == r \in managedRecords /\ AssetsOf(r) \subseteq DOMAIN disk
Slotted == {managedSlots.current, managedSlots.previous} \ {EmptySlot}
Referred == Slotted \union (switching \ {EmptySlot})
(* What may be started is there, and so is what is being switched to.      *)
NamedFound == \A r \in Referred : Combination(r) \notin beside => Found(r)
NamedWhole == \A r \in Referred : Combination(r) \notin Doubtful => \A a \in AssetsOf(r) : disk[a] = "whole"
(* The activation journal names the two ends of the switch under way.      *)
SwitchKnown ==
  /\ build.step = "commit" => switching = {managedSlots.current, build.to}
  /\ build.step \notin {"commit", "down"} => switching = {}
(* What is built beside a collection is marked as such, and the roots of a *)
(* collection hold whatever else the slots and the journal name.           *)
CleaningKnown ==
  cleaning.step # "idle" =>
    /\ build.step \in Working => Combination(build.to) \in beside
    /\ \A r \in Referred : r \in Slotted \/ Combination(r) \in beside
    /\ cleaning.step # "read" => \A r \in Slotted : Combination(r) \notin beside => r \in cleaning.seen
    /\ cleaning.step \notin {"read", "roots"} =>
         /\ \A r \in Slotted : Combination(r) \notin beside => r \in cleaning.roots
         /\ txn.phase \in {"snapshotted", "committed"} /\ Combination(txn.to) \notin beside =>
              cleaning.snap = txn.snap
(* What a build without doubts has done so far is whole.                   *)
Made ==
  (IF build.step \in {"download", "pristine"} THEN {} ELSE {<<"pristine", build.to.dsh, 0>>})
  \union (IF build.step \in {"download", "pristine", "environment", "runtime"} THEN {}
          ELSE {<<"runtime", build.to.dsh, build.to.env>>})
  \union (IF build.kind = "stable" /\ build.step \in {"download", "pristine", "environment"} THEN {}
          ELSE {<<"environment", 0, build.to.env>>})
  \union (IF build.kind = "stable" /\ build.step \in {"download", "pristine", "environment", "runtime", "plugins"}
          THEN {} ELSE {<<"plugins", 0, build.to.env>>})
BuildWhole ==
  /\ build.step \in Working /\ Combination(build.to) \notin Doubtful =>
       \A a \in Made \cap AssetsOf(build.to) : a \in DOMAIN disk => disk[a] = "whole"
  /\ build.step = "environment" => build.kind = "stable"
(* The snapshot of a transaction that can be undone is on disk.            *)
SnapshotKnown ==
  /\ build.step = "bind" /\ Combination(build.to) \notin beside => begun \in snaps
  /\ txn.phase \in {"snapshotted", "committed"} /\ Combination(txn.to) \notin beside => txn.snap \in snaps
  /\ build.step \in {"collect", "collected"} => txn.phase = "committed"
  /\ build.step \in {"stage", "commit", "journal"} /\ build.kind = "experimental" => txn.phase = "snapshotted"
  /\ build.step \in {"snapshot", "bind", "stage", "commit", "journal"} /\ build.kind = "experimental" =>
       Combination(txn.to) = Combination(build.to)
  /\ build.step \in {"begin", "snapshot", "bind", "journal"} => build.kind = "experimental"
  /\ build.step = "plugins" => build.kind = "stable"
StoreInv ==
  /\ StoreTypes /\ NamedFound /\ NamedWhole /\ SwitchKnown /\ CleaningKnown /\ BuildWhole /\ SnapshotKnown

LEMMA StoreShapes ==
  /\ EmptySlot \in Versioned /\ NoBuild \in Builds /\ [NoBuild EXCEPT !.step = "down"] \in Builds
  /\ \A b \in Builds, s \in BuildSteps : [b EXCEPT !.step = s] \in Builds
  /\ \A t \in Txns : [t EXCEPT !.phase = "over"] \in Txns
<1>1. EmptySlot \in Versioned
  BY DEF EmptySlot, Versioned
<1> HIDE DEF EmptySlot
<1>2. NoBuild \in Builds
  BY <1>1 DEF NoBuild, Builds, BuildSteps
<1>3. \A b \in Builds, s \in BuildSteps : [b EXCEPT !.step = s] \in Builds
  BY DEF Builds
<1>4. [NoBuild EXCEPT !.step = "down"] \in Builds
  BY <1>2, <1>3 DEF BuildSteps
<1>5. \A t \in Txns : [t EXCEPT !.phase = "over"] \in Txns
  BY DEF Txns
<1> QED
  BY <1>1, <1>2, <1>3, <1>4, <1>5


(* What a collection may remove belongs to no Deployment that is beyond     *)
(* doubt.                                                                  *)
LEMMA RootsAside ==
  ASSUME StoreInv, cleaning.step \in DOMAIN After, NEW r \in Referred, Combination(r) \notin beside
  PROVE  AssetsOf(r) \cap Unmarked(cleaning.step) = {}
<1>1. r \in cleaning.roots
  BY DEF StoreInv, CleaningKnown, After
<1>2. AssetsOf(r) \subseteq AssetsOfAll(cleaning.roots)
  BY <1>1 DEF AssetsOfAll
<1> QED
  BY <1>2 DEF Unmarked

(* An asset that is taken is whole, or what is built from it is marked.     *)
LEMMA TakesWhole ==
  ASSUME NEW A, StoreTypes, Takes(A), Combination(build.to) \notin halved'
  PROVE  /\ A \in DOMAIN disk' => disk'[A] = "whole"
         /\ \A b \in DOMAIN disk' : b # A => b \in DOMAIN disk /\ disk'[b] = disk[b]
         /\ halved \subseteq halved'
<1>1. ~Torn(A) /\ halved' = halved
  BY DEF Takes
<1>2. A \in DOMAIN disk => disk[A] = "whole"
  BY <1>1 DEF Torn, StoreTypes
<1> QED
  BY <1>1, <1>2 DEF Takes, Published

LEMMA BindShape ==
  ASSUME StoreTypes, BindSnapshot
  PROVE  /\ build'.step = "stage" /\ build'.kind = build.kind /\ build.step = "bind"
         /\ build'.to.dsh = build.to.dsh /\ build'.to.env = build.to.env
         /\ Combination(build'.to) = Combination(build.to) /\ Combination(txn'.to) = Combination(txn.to)
         /\ txn'.phase = "snapshotted" /\ txn'.snap = begun
         /\ UNCHANGED <<slotVars, cleaning, doubts, disk, snaps, begun>>
<1> DEFINE b == [build.to EXCEPT !.snap = begun]
           t == [txn.to EXCEPT !.snap = begun]
<1>1. build.to \in Versioned /\ txn.to \in Versioned
  BY DEF StoreTypes, Builds, Txns
<1>2. b.dsh = build.to.dsh /\ b.env = build.to.env /\ t.dsh = txn.to.dsh /\ t.env = txn.to.env
  BY <1>1 DEF Versioned
<1>3. /\ build' = [build EXCEPT !.step = "stage", !.to = b]
      /\ txn' = [txn EXCEPT !.phase = "snapshotted", !.snap = begun, !.to = t]
  BY DEF BindSnapshot, StoreTypes, Builds, Txns
<1> HIDE DEF b, t
<1>4. /\ build'.step = "stage" /\ build'.kind = build.kind /\ build'.to = b
      /\ txn'.to = t /\ txn'.phase = "snapshotted" /\ txn'.snap = begun
  BY <1>3 DEF StoreTypes, Builds, Txns
<1> QED
  BY <1>2, <1>4 DEF BindSnapshot, Combination

LEMMA StoreTypesKept ==
  ASSUME Numbered, StoreInv, [StoreNext]_storeVars
  PROVE  StoreTypes'
<1> USE DEF StoreInv, StoreTypes, BuildSteps, Working, NotCleaning, buildVars, slotVars, doubts
<1>1. CASE UNCHANGED storeVars
  BY <1>1 DEF storeVars, Builds, Txns, Slots
<1>2. CASE BeginStableBuild
  <2>1. PICK v \in Versions, e \in Envs :
          build' = [step |-> "download", kind |-> "stable", obsolete |-> 0, to |-> [dsh |-> v, env |-> e, snap |-> 0]]
    BY <1>2 DEF BeginStableBuild, BuildBegins
  <2>2. [dsh |-> v, env |-> e, snap |-> 0] \in Versioned
    BY DEF Versioned, Slots
  <2>3. build' \in Builds
    BY <2>1, <2>2 DEF Builds
  <2> QED
    BY <1>2, <2>3 DEF BeginStableBuild, BuildBegins
<1>3. CASE BeginExperimentalBuild
  <2>1. PICK v \in Versions :
          build' = [step |-> "download", kind |-> "experimental", obsolete |-> 0, to |-> [dsh |-> v, env |-> managedSlots.current.env, snap |-> 0]]
    BY <1>3 DEF BeginExperimentalBuild, BuildBegins
  <2>2. [dsh |-> v, env |-> managedSlots.current.env, snap |-> 0] \in Versioned
    BY DEF Versioned, Slots
  <2>3. build' \in Builds
    BY <2>1, <2>2 DEF Builds
  <2> QED
    BY <1>3, <2>3 DEF BeginExperimentalBuild, BuildBegins
<1>4. CASE Download
  BY <1>4 DEF Download, Builds, Txns, Slots
<1>5. CASE InstallPristine
  BY <1>5 DEF InstallPristine, Takes, Published, Builds, Txns, Slots
<1>6. CASE CopyEnvironment
  BY <1>6 DEF CopyEnvironment, Takes, Published, Builds, Txns, Slots
<1>7. CASE BuildRuntime
  BY <1>7 DEF BuildRuntime, Published, PristineThere, Builds, Txns, Slots
<1>8. CASE ReconcilePlugins
  BY <1>8 DEF ReconcilePlugins, Takes, Published, Builds, Txns, Slots
<1>9. CASE BeginTransaction
  BY <1>9 DEF BeginTransaction, Builds, Txns, Slots
<1>10. CASE TakeSnapshot
  BY <1>10 DEF TakeSnapshot, Builds, Txns, Slots
<1>11. CASE BindSnapshot
  <2> DEFINE b == [build.to EXCEPT !.snap = begun]
             t == [txn.to EXCEPT !.snap = begun]
  <2>1. b \in Versioned /\ t \in Versioned
    BY DEF Builds, Txns, Versioned
  <2>2. /\ build' = [build EXCEPT !.step = "stage", !.to = b]
        /\ txn' = [txn EXCEPT !.phase = "snapshotted", !.snap = begun, !.to = t]
    BY <1>11 DEF BindSnapshot, Builds, Txns
  <2>3. build' \in Builds /\ txn' \in Txns
    <3> HIDE DEF b, t
    <3> QED
      BY <2>1, <2>2 DEF Builds, Txns
  <2> QED
    BY <1>11, <2>3 DEF BindSnapshot
<1>12. CASE StageRecord
  BY <1>12 DEF StageRecord, Whole, Builds, Txns, Slots
<1>13. CASE CommitRecord
  <2>1. build' \in Builds
    BY <1>13, StoreShapes DEF CommitRecord
  <2>2. managedSlots' \in Slots
    BY <1>13 DEF CommitRecord, Slots, Builds
  <2> QED
    BY <1>13, <2>1, <2>2 DEF CommitRecord
<1>14. CASE JournalCommitted
  BY <1>14 DEF JournalCommitted, Builds, Txns, Slots
<1>15. CASE AskCollection
  BY <1>15 DEF AskCollection, Builds, Txns, Slots
<1>16. CASE RemoveObsolete
  <2>1. build' \in Builds
    BY <1>16, StoreShapes DEF RemoveObsolete
  <2>2. managedSlots' \in Slots
    BY <1>16 DEF RemoveObsolete, Slots, Builds
  <2> QED
    BY <1>16, <2>1, <2>2 DEF RemoveObsolete
<1>17. CASE BuildFails
  <2>1. build' \in Builds /\ txn' \in Txns
    BY <1>17, StoreShapes DEF BuildFails
  <2> QED
    BY <1>17, <2>1 DEF BuildFails
<1>18. CASE ReadRecords
  BY <1>18 DEF ReadRecords, Builds, Txns, Slots
<1>19. CASE ReadRoots
  <2>1. RootsOf(cleaning.seen) \subseteq managedRecords
    BY DEF RootsOf
  <2>2. txn.snap \in Nat
    BY DEF Txns
  <2>3. cleaning' = [cleaning EXCEPT !.step = "environment", !.roots = RootsOf(cleaning.seen), !.snap = txn.snap]
    BY <1>19 DEF ReadRoots
  <2>4. "environment" \in DOMAIN After
    BY DEF After
  <2> QED
    BY <1>19, <2>1, <2>2, <2>3, <2>4 DEF ReadRoots
<1>20. CASE StartRemoval
  BY <1>20 DEF StartRemoval, Unmarked, Builds, Txns, Slots
<1>21. CASE RemoveAssets
  BY <1>21 DEF RemoveAssets, After, Without, Unmarked, Builds, Txns, Slots
<1>22. CASE RemoveSnapshots
  BY <1>22 DEF RemoveSnapshots, RetainedSnapshots, Builds, Txns, Slots
<1>23. CASE RemoveRecords
  BY <1>23 DEF RemoveRecords, Builds, Txns, Slots
<1>24. CASE ReturnPrevious
  BY <1>24 DEF ReturnPrevious, Whole, Complete, Builds, Txns, Slots
<1>25. CASE ManagementDies
  <2>1. build' \in Builds
    BY <1>25, StoreShapes DEF ManagementDies
  <2>2. managedSlots' \in Slots
    BY <1>25 DEF ManagementDies, Slots, Builds
  <2> QED
    BY <1>25, <2>1, <2>2 DEF ManagementDies
<1>26. CASE BootstrapDies
  <2>1. build' \in Builds
    BY <1>26, StoreShapes DEF BootstrapDies
  <2>2. disk' \in [DOMAIN disk' -> {"whole", "torn"}]
    BY <1>26 DEF BootstrapDies, Without
  <2> QED
    BY <1>26, <2>1, <2>2 DEF BootstrapDies
<1>27. CASE RecoverUpdate
  <2>1. build' \in Builds /\ txn' \in Txns
    BY <1>27, StoreShapes DEF RecoverUpdate
  <2>2. managedSlots' \in Slots
    BY <1>27 DEF RecoverUpdate, Slots
  <2> QED
    BY <1>27, <2>1, <2>2 DEF RecoverUpdate
<1> QED
  BY <1>1, <1>2, <1>3, <1>4, <1>5, <1>6, <1>7, <1>8, <1>9, <1>10, <1>11, <1>12, <1>13,
     <1>14, <1>15, <1>16, <1>17, <1>18, <1>19, <1>20, <1>21, <1>22, <1>23, <1>24, <1>25, <1>26,
     <1>27
     DEF StoreNext, BuildNext, CollectNext

LEMMA NamedKept ==
  ASSUME Numbered, StoreInv, [StoreNext]_storeVars
  PROVE  NamedFound'
<1> USE DEF StoreInv, StoreTypes, BuildSteps, Working, Builds, Txns, Slots, NoBuild, NotCleaning, buildVars, slotVars, doubts,
            NamedFound, Found, Referred, Slotted, SwitchKnown, CleaningKnown, Named, Combination
<1>1. CASE UNCHANGED storeVars
  BY <1>1 DEF storeVars
<1>2. CASE BeginStableBuild
  BY <1>2 DEF BeginStableBuild, BuildBegins
<1>3. CASE BeginExperimentalBuild
  BY <1>3 DEF BeginExperimentalBuild, BuildBegins
<1>4. CASE Download
  BY <1>4 DEF Download
<1>5. CASE InstallPristine
  BY <1>5 DEF InstallPristine, Takes, Published
<1>6. CASE CopyEnvironment
  BY <1>6 DEF CopyEnvironment, Takes, Published
<1>7. CASE BuildRuntime
  BY <1>7 DEF BuildRuntime, Published, PristineThere
<1>8. CASE ReconcilePlugins
  BY <1>8 DEF ReconcilePlugins, Takes, Published
<1>9. CASE BeginTransaction
  BY <1>9 DEF BeginTransaction
<1>10. CASE TakeSnapshot
  BY <1>10 DEF TakeSnapshot
<1>11. CASE BindSnapshot
  BY <1>11 DEF BindSnapshot
<1>12. CASE StageRecord
  BY <1>12 DEF StageRecord, Whole
<1>13. CASE CommitRecord
  BY <1>13 DEF CommitRecord
<1>14. CASE JournalCommitted
  BY <1>14 DEF JournalCommitted
<1>15. CASE AskCollection
  BY <1>15 DEF AskCollection
<1>16. CASE RemoveObsolete
  BY <1>16 DEF RemoveObsolete
<1>17. CASE BuildFails
  BY <1>17 DEF BuildFails, Transacted
<1>18. CASE ReadRecords
  BY <1>18 DEF ReadRecords
<1>19. CASE ReadRoots
  BY <1>19 DEF ReadRoots, RootsOf
<1>20. CASE StartRemoval
  BY <1>20 DEF StartRemoval, Unmarked
<1>21. CASE RemoveAssets
  <2>1. DOMAIN disk' = DOMAIN disk \ Unmarked(cleaning.step)
    BY <1>21 DEF RemoveAssets, Without
  <2>2. \A r \in Referred : Combination(r) \notin beside => AssetsOf(r) \subseteq DOMAIN disk'
    BY <1>21, <2>1, RootsAside DEF RemoveAssets
  <2> QED
    BY <1>21, <2>2 DEF RemoveAssets
<1>22. CASE RemoveSnapshots
  BY <1>22 DEF RemoveSnapshots, RetainedSnapshots
<1>23. CASE RemoveRecords
  BY <1>23 DEF RemoveRecords
<1>24. CASE ReturnPrevious
  BY <1>24 DEF ReturnPrevious, Whole, Complete
<1>25. CASE ManagementDies
  BY <1>25 DEF ManagementDies
<1>26. CASE BootstrapDies
  <2>1. PICK gone \in SUBSET (IF cleaning.step \in DOMAIN After THEN Unmarked(cleaning.step) ELSE {}) :
          disk' = Without(gone)
    BY <1>26 DEF BootstrapDies
  <2>2. DOMAIN disk' = DOMAIN disk \ gone
    BY <2>1 DEF Without
  <2>3. \A r \in Referred : Combination(r) \notin beside => AssetsOf(r) \cap gone = {}
    BY <2>1, RootsAside
  <2> QED
    BY <1>26, <2>2, <2>3 DEF BootstrapDies
<1>27. CASE RecoverUpdate
  BY <1>27 DEF RecoverUpdate
<1> QED
  BY <1>1, <1>2, <1>3, <1>4, <1>5, <1>6, <1>7, <1>8, <1>9, <1>10, <1>11, <1>12, <1>13, <1>14,
     <1>15, <1>16, <1>17, <1>18, <1>19, <1>20, <1>21, <1>22, <1>23, <1>24, <1>25, <1>26, <1>27
     DEF StoreNext, BuildNext, CollectNext

LEMMA WholeKept ==
  ASSUME Numbered, StoreInv, [StoreNext]_storeVars
  PROVE  NamedWhole'
<1> USE DEF StoreInv, StoreTypes, BuildSteps, Working, Builds, Txns, Slots, NoBuild, NotCleaning, buildVars, slotVars, doubts,
            NamedFound, NamedWhole, Found, Referred, Slotted, SwitchKnown, CleaningKnown, BuildWhole, Named, Combination, Doubtful
<1>1. CASE UNCHANGED storeVars
  BY <1>1 DEF storeVars
<1>2. CASE BeginStableBuild
  BY <1>2 DEF BeginStableBuild, BuildBegins
<1>3. CASE BeginExperimentalBuild
  BY <1>3 DEF BeginExperimentalBuild, BuildBegins
<1>4. CASE Download
  BY <1>4 DEF Download
<1>5. CASE InstallPristine
  BY <1>5 DEF InstallPristine, Takes, Published
<1>6. CASE CopyEnvironment
  BY <1>6 DEF CopyEnvironment, Takes, Published
<1>7. CASE BuildRuntime
  BY <1>7 DEF BuildRuntime, Published, PristineThere
<1>8. CASE ReconcilePlugins
  BY <1>8 DEF ReconcilePlugins, Takes, Published
<1>9. CASE BeginTransaction
  BY <1>9 DEF BeginTransaction
<1>10. CASE TakeSnapshot
  BY <1>10 DEF TakeSnapshot
<1>11. CASE BindSnapshot
  BY <1>11 DEF BindSnapshot
<1>12. CASE StageRecord
  <2>1. build.step = "stage" /\ AssetsOf(build.to) \subseteq DOMAIN disk
    BY <1>12 DEF StageRecord, Whole
  <2>2. AssetsOf(build.to) \subseteq Made
    BY <2>1 DEF AssetsOf, Made
  <2>3. Combination(build.to) \notin Doubtful => \A a \in AssetsOf(build.to) : disk[a] = "whole"
    BY <2>1, <2>2
  <2>4. /\ Referred' \subseteq Slotted \union {build.to}
        /\ UNCHANGED <<disk, beside, halved>>
    BY <1>12 DEF StageRecord
  <2> QED
    BY <2>3, <2>4
<1>13. CASE CommitRecord
  BY <1>13 DEF CommitRecord
<1>14. CASE JournalCommitted
  BY <1>14 DEF JournalCommitted
<1>15. CASE AskCollection
  BY <1>15 DEF AskCollection
<1>16. CASE RemoveObsolete
  BY <1>16 DEF RemoveObsolete
<1>17. CASE BuildFails
  BY <1>17 DEF BuildFails, Transacted
<1>18. CASE ReadRecords
  BY <1>18 DEF ReadRecords
<1>19. CASE ReadRoots
  BY <1>19 DEF ReadRoots, RootsOf
<1>20. CASE StartRemoval
  <2>1. PICK a \in Unmarked(cleaning.step) : disk' = [disk EXCEPT ![a] = "torn"]
    BY <1>20 DEF StartRemoval
  <2>2. \A r \in Referred : Combination(r) \notin beside => a \notin AssetsOf(r)
    BY <1>20, RootsAside DEF StartRemoval
  <2>3. \A b : b # a => (b \in DOMAIN disk => disk'[b] = disk[b])
    BY <2>1
  <2> QED
    BY <1>20, <2>2, <2>3 DEF StartRemoval
<1>21. CASE RemoveAssets
  <2>1. \A b \in DOMAIN disk \ Unmarked(cleaning.step) : disk'[b] = disk[b]
    BY <1>21 DEF RemoveAssets, Without
  <2>2. \A r \in Referred : Combination(r) \notin beside =>
          AssetsOf(r) \subseteq DOMAIN disk \ Unmarked(cleaning.step)
    BY <1>21, RootsAside DEF RemoveAssets
  <2> QED
    BY <1>21, <2>1, <2>2 DEF RemoveAssets
<1>22. CASE RemoveSnapshots
  BY <1>22 DEF RemoveSnapshots, RetainedSnapshots
<1>23. CASE RemoveRecords
  BY <1>23 DEF RemoveRecords
<1>24. CASE ReturnPrevious
  BY <1>24 DEF ReturnPrevious, Whole, Complete
<1>25. CASE ManagementDies
  BY <1>25 DEF ManagementDies
<1>26. CASE BootstrapDies
  <2>1. PICK gone \in SUBSET (IF cleaning.step \in DOMAIN After THEN Unmarked(cleaning.step) ELSE {}) :
          disk' = Without(gone)
    BY <1>26 DEF BootstrapDies
  <2>2. \A b \in DOMAIN disk \ gone : disk'[b] = disk[b]
    BY <2>1 DEF Without
  <2>3. \A r \in Referred : Combination(r) \notin beside => AssetsOf(r) \subseteq DOMAIN disk \ gone
    BY <2>1, RootsAside
  <2> QED
    BY <1>26, <2>2, <2>3 DEF BootstrapDies
<1>27. CASE RecoverUpdate
  BY <1>27 DEF RecoverUpdate
<1> QED
  BY <1>1, <1>2, <1>3, <1>4, <1>5, <1>6, <1>7, <1>8, <1>9, <1>10, <1>11, <1>12, <1>13, <1>14,
     <1>15, <1>16, <1>17, <1>18, <1>19, <1>20, <1>21, <1>22, <1>23, <1>24, <1>25, <1>26, <1>27
     DEF StoreNext, BuildNext, CollectNext

LEMMA SwitchKept ==
  ASSUME Numbered, StoreInv, [StoreNext]_storeVars
  PROVE  SwitchKnown'
<1> USE DEF StoreInv, StoreTypes, BuildSteps, Working, Builds, Txns, Slots, NoBuild, NotCleaning, buildVars, slotVars, doubts, SwitchKnown
<1>1. CASE UNCHANGED storeVars
  BY <1>1 DEF storeVars
<1>2. CASE BeginStableBuild
  BY <1>2 DEF BeginStableBuild, BuildBegins
<1>3. CASE BeginExperimentalBuild
  BY <1>3 DEF BeginExperimentalBuild, BuildBegins
<1>4. CASE Download
  BY <1>4 DEF Download
<1>5. CASE InstallPristine
  BY <1>5 DEF InstallPristine, Takes, Published
<1>6. CASE CopyEnvironment
  BY <1>6 DEF CopyEnvironment, Takes, Published
<1>7. CASE BuildRuntime
  BY <1>7 DEF BuildRuntime, Published, PristineThere
<1>8. CASE ReconcilePlugins
  BY <1>8 DEF ReconcilePlugins, Takes, Published
<1>9. CASE BeginTransaction
  BY <1>9 DEF BeginTransaction
<1>10. CASE TakeSnapshot
  BY <1>10 DEF TakeSnapshot
<1>11. CASE BindSnapshot
  BY <1>11 DEF BindSnapshot
<1>12. CASE StageRecord
  BY <1>12 DEF StageRecord, Whole
<1>13. CASE CommitRecord
  BY <1>13 DEF CommitRecord
<1>14. CASE JournalCommitted
  BY <1>14 DEF JournalCommitted
<1>15. CASE AskCollection
  BY <1>15 DEF AskCollection
<1>16. CASE RemoveObsolete
  BY <1>16 DEF RemoveObsolete
<1>17. CASE BuildFails
  BY <1>17 DEF BuildFails, Transacted
<1>18. CASE ReadRecords
  BY <1>18 DEF ReadRecords
<1>19. CASE ReadRoots
  BY <1>19 DEF ReadRoots, RootsOf
<1>20. CASE StartRemoval
  BY <1>20 DEF StartRemoval, Unmarked
<1>21. CASE RemoveAssets
  BY <1>21 DEF RemoveAssets, After, Without, Unmarked
<1>22. CASE RemoveSnapshots
  BY <1>22 DEF RemoveSnapshots, RetainedSnapshots
<1>23. CASE RemoveRecords
  BY <1>23 DEF RemoveRecords
<1>24. CASE ReturnPrevious
  BY <1>24 DEF ReturnPrevious, Whole, Complete
<1>25. CASE ManagementDies
  BY <1>25 DEF ManagementDies
<1>26. CASE BootstrapDies
  BY <1>26 DEF BootstrapDies, Without, Unmarked, After
<1>27. CASE RecoverUpdate
  BY <1>27 DEF RecoverUpdate
<1> QED
  BY <1>1, <1>2, <1>3, <1>4, <1>5, <1>6, <1>7, <1>8, <1>9, <1>10, <1>11, <1>12, <1>13, <1>14,
     <1>15, <1>16, <1>17, <1>18, <1>19, <1>20, <1>21, <1>22, <1>23, <1>24, <1>25, <1>26, <1>27
     DEF StoreNext, BuildNext, CollectNext

LEMMA CleaningKept ==
  ASSUME Numbered, StoreInv, [StoreNext]_storeVars
  PROVE  CleaningKnown'
<1> USE DEF StoreInv, StoreTypes, BuildSteps, Working, Builds, Txns, Slots, NoBuild, NotCleaning, buildVars, slotVars, doubts,
            NamedFound, Found, Referred, Slotted, SwitchKnown, CleaningKnown, Named, Combination
<1>1. CASE UNCHANGED storeVars
  BY <1>1 DEF storeVars
<1>2. CASE BeginStableBuild
  BY <1>2 DEF BeginStableBuild, BuildBegins
<1>3. CASE BeginExperimentalBuild
  BY <1>3 DEF BeginExperimentalBuild, BuildBegins
<1>4. CASE Download
  BY <1>4 DEF Download
<1>5. CASE InstallPristine
  BY <1>5 DEF InstallPristine, Takes, Published
<1>6. CASE CopyEnvironment
  BY <1>6 DEF CopyEnvironment, Takes, Published
<1>7. CASE BuildRuntime
  BY <1>7 DEF BuildRuntime, Published, PristineThere
<1>8. CASE ReconcilePlugins
  BY <1>8 DEF ReconcilePlugins, Takes, Published
<1>9. CASE BeginTransaction
  BY <1>9 DEF BeginTransaction
<1>10. CASE TakeSnapshot
  BY <1>10 DEF TakeSnapshot
<1>11. CASE BindSnapshot
  <2>1. /\ build'.step = "stage" /\ build'.kind = build.kind /\ build.step = "bind"
        /\ Combination(build.to)' = Combination(build.to) /\ Combination(txn.to)' = Combination(txn.to)
        /\ txn'.phase = "snapshotted" /\ txn'.snap = begun /\ UNCHANGED <<slotVars, cleaning, doubts, disk, snaps, begun>>
        /\ build'.to.dsh = build.to.dsh /\ build'.to.env = build.to.env
    BY <1>11, BindShape
  <2>2. Combination(txn.to) = Combination(build.to)
    BY <2>1 DEF SnapshotKnown
  <2> QED
    BY <2>1, <2>2
<1>12. CASE StageRecord
  BY <1>12 DEF StageRecord, Whole
<1>13. CASE CommitRecord
  BY <1>13 DEF CommitRecord
<1>14. CASE JournalCommitted
  BY <1>14 DEF JournalCommitted, SnapshotKnown
<1>15. CASE AskCollection
  BY <1>15 DEF AskCollection
<1>16. CASE RemoveObsolete
  BY <1>16 DEF RemoveObsolete
<1>17. CASE BuildFails
  BY <1>17 DEF BuildFails, Transacted
<1>18. CASE ReadRecords
  BY <1>18 DEF ReadRecords
<1>19. CASE ReadRoots
  BY <1>19 DEF ReadRoots, RootsOf
<1>20. CASE StartRemoval
  BY <1>20 DEF StartRemoval, Unmarked
<1>21. CASE RemoveAssets
  BY <1>21 DEF RemoveAssets, After, Without, Unmarked
<1>22. CASE RemoveSnapshots
  BY <1>22 DEF RemoveSnapshots, RetainedSnapshots
<1>23. CASE RemoveRecords
  BY <1>23 DEF RemoveRecords
<1>24. CASE ReturnPrevious
  BY <1>24 DEF ReturnPrevious, Whole, Complete
<1>25. CASE ManagementDies
  BY <1>25 DEF ManagementDies
<1>26. CASE BootstrapDies
  BY <1>26 DEF BootstrapDies, Without, Unmarked, After
<1>27. CASE RecoverUpdate
  BY <1>27 DEF RecoverUpdate
<1> QED
  BY <1>1, <1>2, <1>3, <1>4, <1>5, <1>6, <1>7, <1>8, <1>9, <1>10, <1>11, <1>12, <1>13, <1>14,
     <1>15, <1>16, <1>17, <1>18, <1>19, <1>20, <1>21, <1>22, <1>23, <1>24, <1>25, <1>26, <1>27
     DEF StoreNext, BuildNext, CollectNext

LEMMA BuildKept ==
  ASSUME Numbered, StoreInv, [StoreNext]_storeVars
  PROVE  BuildWhole'
<1> USE DEF StoreInv, StoreTypes, BuildSteps, Working, Builds, Txns, Slots, NoBuild, NotCleaning, buildVars, slotVars, doubts,
            CleaningKnown, BuildWhole, Made, Combination, Doubtful
<1>1. CASE UNCHANGED storeVars
  BY <1>1 DEF storeVars
<1>2. CASE BeginStableBuild
  BY <1>2 DEF BeginStableBuild, BuildBegins
<1>3. CASE BeginExperimentalBuild
  <2>1. /\ build'.step = "download" /\ build'.kind = "experimental" /\ UNCHANGED disk
        /\ build'.to.env = managedSlots.current.env /\ build'.to.dsh \in Versions
        /\ Combination(managedSlots.current) \in Doubtful => Combination(build'.to) \in halved'
    BY <1>3 DEF BeginExperimentalBuild, BuildBegins
  <2>2. \A a \in Made' \cap AssetsOf(build'.to) :
          build'.to.env \in Envs /\ a \in {<<"environment", 0, build'.to.env>>, <<"plugins", 0, build'.to.env>>}
    BY <2>1 DEF AssetsOf
  <2>3. managedSlots.current.env \in Envs => managedSlots.current \in Referred
    BY DEF Numbered, EmptySlot, Referred, Slotted
  <2>4. Combination(managedSlots.current) \notin Doubtful =>
          \A a \in Made' \cap AssetsOf(build'.to) : disk[a] = "whole"
    BY <2>1, <2>2, <2>3 DEF NamedWhole, AssetsOf
  <2> QED
    BY <2>1, <2>4
<1>4. CASE Download
  BY <1>4 DEF Download
<1>5. CASE InstallPristine
  <2> DEFINE A == <<"pristine", build.to.dsh, 0>>
  <2>1. /\ Takes(A) /\ build'.to = build.to /\ build'.kind = build.kind /\ Made' \subseteq Made \union {A}
        /\ UNCHANGED beside /\ build.step \in Working
    BY <1>5 DEF InstallPristine, Takes
  <2>2. build'.step = "environment" => build'.kind = "stable"
    BY <1>5 DEF InstallPristine
  <2> SUFFICES ASSUME Combination(build.to) \notin beside \union halved'
               PROVE  \A a \in Made' \cap AssetsOf(build.to) : a \in DOMAIN disk' => disk'[a] = "whole"
    BY <2>1, <2>2
  <2> HIDE DEF A
  <2> QED
    BY <2>1, TakesWhole
<1>6. CASE CopyEnvironment
  <2> DEFINE A == <<"environment", 0, build.to.env>>
  <2>1. /\ Takes(A) /\ build'.to = build.to /\ build'.kind = build.kind /\ Made' \subseteq Made \union {A}
        /\ UNCHANGED beside /\ build.step \in Working
    BY <1>6 DEF CopyEnvironment, Takes
  <2>2. build'.step = "environment" => build'.kind = "stable"
    BY <1>6 DEF CopyEnvironment
  <2> SUFFICES ASSUME Combination(build.to) \notin beside \union halved'
               PROVE  \A a \in Made' \cap AssetsOf(build.to) : a \in DOMAIN disk' => disk'[a] = "whole"
    BY <2>1, <2>2
  <2> HIDE DEF A
  <2> QED
    BY <2>1, TakesWhole
<1>7. CASE BuildRuntime
  <2> DEFINE A == <<"runtime", build.to.dsh, build.to.env>>
             P == <<"pristine", build.to.dsh, 0>>
  <2>1. /\ build'.to = build.to /\ build'.kind = build.kind /\ Made' \subseteq Made \union {A} /\ P \in Made
        /\ UNCHANGED beside /\ build.step \in Working /\ P \in DOMAIN disk /\ build'.step # "environment"
        /\ disk' = [Published(A) EXCEPT ![A] = IF A \in DOMAIN disk THEN disk[A] ELSE disk[P]]
        /\ halved' = IF Torn(A) THEN halved \union {Combination(build.to)} ELSE halved
    BY <1>7 DEF BuildRuntime, PristineThere
  <2> SUFFICES ASSUME Combination(build.to) \notin beside \union halved'
               PROVE  \A a \in Made' \cap AssetsOf(build.to) : a \in DOMAIN disk' => disk'[a] = "whole"
    BY <2>1
  <2>2. ~Torn(A) /\ halved' = halved
    BY <2>1
  <2>3. \A b \in DOMAIN disk' : b # A => b \in DOMAIN disk /\ disk'[b] = disk[b]
    BY <2>1 DEF Published
  <2>4. A \in AssetsOf(build.to) => P \in AssetsOf(build.to)
    BY DEF AssetsOf
  <2>5. A \in AssetsOf(build.to) => disk'[A] = "whole"
    BY <2>1, <2>2, <2>4 DEF Published, Torn
  <2> HIDE DEF A, P
  <2> QED
    BY <2>1, <2>2, <2>3, <2>5
<1>8. CASE ReconcilePlugins
  <2> DEFINE A == <<"plugins", 0, build.to.env>>
  <2>1. /\ Takes(A) /\ build'.to = build.to /\ build'.kind = build.kind /\ Made' \subseteq Made \union {A}
        /\ UNCHANGED beside /\ build.step \in Working
    BY <1>8 DEF ReconcilePlugins, Takes
  <2>2. build'.step = "environment" => build'.kind = "stable"
    BY <1>8 DEF ReconcilePlugins
  <2> SUFFICES ASSUME Combination(build.to) \notin beside \union halved'
               PROVE  \A a \in Made' \cap AssetsOf(build.to) : a \in DOMAIN disk' => disk'[a] = "whole"
    BY <2>1, <2>2
  <2> HIDE DEF A
  <2> QED
    BY <2>1, TakesWhole
<1>9. CASE BeginTransaction
  BY <1>9 DEF BeginTransaction
<1>10. CASE TakeSnapshot
  BY <1>10 DEF TakeSnapshot
<1>11. CASE BindSnapshot
  <2>1. /\ build'.step = "stage" /\ build'.kind = build.kind /\ build.step = "bind"
        /\ Combination(build.to)' = Combination(build.to) /\ Combination(txn.to)' = Combination(txn.to)
        /\ txn'.phase = "snapshotted" /\ txn'.snap = begun /\ UNCHANGED <<slotVars, cleaning, doubts, disk, snaps, begun>>
        /\ build'.to.dsh = build.to.dsh /\ build'.to.env = build.to.env
    BY <1>11, BindShape
  <2>2. AssetsOf(build'.to) = AssetsOf(build.to)
    BY <2>1 DEF AssetsOf
  <2>3. Made' = Made
    BY <2>1, <2>2
  <2> QED
    BY <2>1, <2>2, <2>3
<1>12. CASE StageRecord
  BY <1>12 DEF StageRecord, Whole
<1>13. CASE CommitRecord
  BY <1>13 DEF CommitRecord
<1>14. CASE JournalCommitted
  BY <1>14 DEF JournalCommitted
<1>15. CASE AskCollection
  BY <1>15 DEF AskCollection
<1>16. CASE RemoveObsolete
  BY <1>16 DEF RemoveObsolete
<1>17. CASE BuildFails
  BY <1>17 DEF BuildFails, Transacted
<1>18. CASE ReadRecords
  BY <1>18 DEF ReadRecords
<1>19. CASE ReadRoots
  BY <1>19 DEF ReadRoots, RootsOf
<1>20. CASE StartRemoval
  BY <1>20 DEF StartRemoval, Unmarked
<1>21. CASE RemoveAssets
  BY <1>21 DEF RemoveAssets, After, Without, Unmarked
<1>22. CASE RemoveSnapshots
  BY <1>22 DEF RemoveSnapshots, RetainedSnapshots
<1>23. CASE RemoveRecords
  BY <1>23 DEF RemoveRecords
<1>24. CASE ReturnPrevious
  BY <1>24 DEF ReturnPrevious, Whole, Complete
<1>25. CASE ManagementDies
  BY <1>25 DEF ManagementDies
<1>26. CASE BootstrapDies
  BY <1>26 DEF BootstrapDies, Without, Unmarked, After
<1>27. CASE RecoverUpdate
  BY <1>27 DEF RecoverUpdate
<1> QED
  BY <1>1, <1>2, <1>3, <1>4, <1>5, <1>6, <1>7, <1>8, <1>9, <1>10, <1>11, <1>12, <1>13, <1>14,
     <1>15, <1>16, <1>17, <1>18, <1>19, <1>20, <1>21, <1>22, <1>23, <1>24, <1>25, <1>26, <1>27
     DEF StoreNext, BuildNext, CollectNext

LEMMA SnapshotKept ==
  ASSUME Numbered, StoreInv, [StoreNext]_storeVars
  PROVE  SnapshotKnown'
<1> USE DEF StoreInv, StoreTypes, BuildSteps, Working, Builds, Txns, Slots, NoBuild, NotCleaning, buildVars, slotVars, doubts,
            CleaningKnown, SnapshotKnown, Named, Combination
<1>1. CASE UNCHANGED storeVars
  BY <1>1 DEF storeVars
<1>2. CASE BeginStableBuild
  BY <1>2 DEF BeginStableBuild, BuildBegins
<1>3. CASE BeginExperimentalBuild
  BY <1>3 DEF BeginExperimentalBuild, BuildBegins
<1>4. CASE Download
  BY <1>4 DEF Download
<1>5. CASE InstallPristine
  BY <1>5 DEF InstallPristine, Takes, Published
<1>6. CASE CopyEnvironment
  BY <1>6 DEF CopyEnvironment, Takes, Published
<1>7. CASE BuildRuntime
  BY <1>7 DEF BuildRuntime, Published, PristineThere
<1>8. CASE ReconcilePlugins
  BY <1>8 DEF ReconcilePlugins, Takes, Published
<1>9. CASE BeginTransaction
  BY <1>9 DEF BeginTransaction
<1>10. CASE TakeSnapshot
  BY <1>10 DEF TakeSnapshot
<1>11. CASE BindSnapshot
  <2>1. /\ build'.step = "stage" /\ build'.kind = build.kind /\ build.step = "bind"
        /\ Combination(build.to)' = Combination(build.to) /\ Combination(txn.to)' = Combination(txn.to)
        /\ txn'.phase = "snapshotted" /\ txn'.snap = begun /\ UNCHANGED <<slotVars, cleaning, doubts, disk, snaps, begun>>
        /\ build'.to.dsh = build.to.dsh /\ build'.to.env = build.to.env
    BY <1>11, BindShape
  <2> QED
    BY <2>1
<1>12. CASE StageRecord
  BY <1>12 DEF StageRecord, Whole
<1>13. CASE CommitRecord
  BY <1>13 DEF CommitRecord
<1>14. CASE JournalCommitted
  BY <1>14 DEF JournalCommitted
<1>15. CASE AskCollection
  BY <1>15 DEF AskCollection
<1>16. CASE RemoveObsolete
  BY <1>16 DEF RemoveObsolete
<1>17. CASE BuildFails
  BY <1>17 DEF BuildFails, Transacted
<1>18. CASE ReadRecords
  BY <1>18 DEF ReadRecords
<1>19. CASE ReadRoots
  BY <1>19 DEF ReadRoots, RootsOf
<1>20. CASE StartRemoval
  BY <1>20 DEF StartRemoval, Unmarked
<1>21. CASE RemoveAssets
  BY <1>21 DEF RemoveAssets, After, Without, Unmarked
<1>22. CASE RemoveSnapshots
  BY <1>22 DEF RemoveSnapshots, RetainedSnapshots
<1>23. CASE RemoveRecords
  BY <1>23 DEF RemoveRecords
<1>24. CASE ReturnPrevious
  BY <1>24 DEF ReturnPrevious, Whole, Complete
<1>25. CASE ManagementDies
  BY <1>25 DEF ManagementDies
<1>26. CASE BootstrapDies
  BY <1>26 DEF BootstrapDies, Without, Unmarked, After
<1>27. CASE RecoverUpdate
  BY <1>27 DEF RecoverUpdate
<1> QED
  BY <1>1, <1>2, <1>3, <1>4, <1>5, <1>6, <1>7, <1>8, <1>9, <1>10, <1>11, <1>12, <1>13, <1>14,
     <1>15, <1>16, <1>17, <1>18, <1>19, <1>20, <1>21, <1>22, <1>23, <1>24, <1>25, <1>26, <1>27
     DEF StoreNext, BuildNext, CollectNext

LEMMA StoreInitial == ASSUME Numbered, StoreInit PROVE StoreInv
<1> USE DEF StoreInit
<1>1. /\ BuiltInRecord \in Versioned /\ EmptySlot \in Versioned /\ NoBuild \in Builds
      /\ AssetsOf(BuiltInRecord) = {}
  BY StoreShapes DEF BuiltInRecord, Versioned, AssetsOf, Numbered
<1>2. StoreTypes
  <2>1. disk \in [DOMAIN disk -> {"whole", "torn"}]
    OBVIOUS
  <2>2. managedSlots \in Slots
    BY <1>1 DEF Slots
  <2>3. txn \in Txns
    BY <1>1 DEF Txns, NoTxn
  <2>4. cleaning \in [step : DOMAIN After \union {"idle", "read", "roots", "snapshots", "records"},
                      seen : SUBSET managedRecords, roots : SUBSET managedRecords, snap : Nat]
    BY DEF NotCleaning
  <2> QED
    BY <1>1, <2>1, <2>2, <2>3, <2>4 DEF StoreTypes
<1>3. NamedFound
  BY <1>1 DEF NamedFound, Found, Referred, Slotted
<1>4. NamedWhole
  BY <1>1 DEF NamedWhole, Referred, Slotted
<1>5. SwitchKnown /\ CleaningKnown /\ BuildWhole /\ SnapshotKnown
  BY DEF SwitchKnown, CleaningKnown, BuildWhole, Working, SnapshotKnown, NoBuild, NotCleaning, NoTxn
<1> QED
  BY <1>2, <1>3, <1>4, <1>5 DEF StoreInv

(* Whatever may be started or returned to is still in the Store: for any   *)
(* versions and however many updates, returns, failures, crashes and       *)
(* collections there are, the current and the previous Deployment and both *)
(* ends of a switch have their records and assets, and a return that needs *)
(* a data snapshot finds it, unless it was built beside a collection left  *)
(* by an Updater that died or over a tree that a crash left half removed   *)
(* (preparer.mjs, managed-store.mjs and gc.mjs).                           *)
THEOREM StoreStands == ASSUME Numbered PROVE StoreSpec => []StoreKept
<1>1. StoreInit => StoreInv
  BY StoreInitial
<1>2. StoreInv /\ [StoreNext]_storeVars => StoreInv'
  <2> SUFFICES ASSUME StoreInv, [StoreNext]_storeVars PROVE StoreInv'
    OBVIOUS
  <2>1. /\ StoreTypes' /\ NamedFound' /\ NamedWhole' /\ SwitchKnown' /\ CleaningKnown' /\ BuildWhole'
        /\ SnapshotKnown'
    BY StoreTypesKept, NamedKept, WholeKept, SwitchKept, CleaningKept, BuildKept, SnapshotKept
  <2> QED
    BY <2>1 DEF StoreInv
<1>3. StoreInv => StoreKept
  <2> SUFFICES ASSUME StoreInv PROVE StoreKept
    OBVIOUS
  <2>1. RootsKept
    BY DEF StoreInv, NamedFound, NamedWhole, Referred, Slotted, Found, RootsKept
  <2>2. ReturnPossible
    BY DEF StoreInv, SnapshotKnown, ReturnPossible, Complete
  <2> QED
    BY <2>1, <2>2 DEF StoreKept
<1> QED
  BY <1>1, <1>2, <1>3, PTL DEF StoreSpec

=============================================================================
