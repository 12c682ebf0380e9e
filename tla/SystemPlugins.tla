----------------------------- MODULE SystemPlugins -----------------------------
(***************************************************************************)
(* System Plugins: the stored selection, the view DSH loads its plugins    *)
(* from, and the console page that applies a draft change by change, has   *)
(* DSH restarted, and takes everything back when one change fails. A       *)
(* change turns one plugin on or off; the view is rebuilt from the         *)
(* selection whenever DSH is started, and put back when a restart fails.   *)
(***************************************************************************)
EXTENDS Naturals, FiniteSets

CONSTANTS
  Plugins,       \* the System Plugins of the current Environment
  Down,          \* a model value: no DSH is running
  MaxApplies,    \* bound on drafts that are applied
  MaxTrouble,    \* bound on refusals, failed changes and failed starts
  MaxOutside     \* bound on starts, stops, restarts and reloads from outside

VARIABLES
  stored,   \* system-plugins.json: the plugins that are on
  current,  \* system-plugin-views/current
  loaded,   \* what the running DSH loaded
  dsh,      \* the lifecycle state that is shown
  pluginJob,      \* the Management task under way
  outcome,  \* what the plugin task before it came to
  draft,    \* systemPluginDraft: plugins to be switched
  page,     \* applySystemPluginDraft
  mark,     \* the mark in sessionStorage: changes are stored but not active
  batch,    \* history: the changes of the latest Apply, what they ask for, and
            \* whether the page has lost track of them ("yes" or "no")
  trouble, outside, applies

serverState == <<stored, current, loaded, dsh, pluginJob, outcome>>
pageState == <<draft, page, mark, batch, applies>>
applyVars == <<serverState, pageState, trouble, outside>>

NoJob == [kind |-> "none"]
Resting == [at |-> "idle"]
NoOutcome == [of |-> Down]
Batch(ids, want, was) == [ids |-> ids, want |-> want, was |-> was, lost |-> "no"]
SystemPluginsInit ==
  /\ stored = Plugins /\ current = Plugins /\ loaded = Plugins /\ dsh = "up"
  /\ pluginJob = NoJob /\ outcome = NoOutcome
  /\ draft = {} /\ page = Resting /\ mark = FALSE /\ batch = Batch({}, {}, {})
  /\ trouble = 0 /\ outside = 0 /\ applies = 0

Trouble == trouble < MaxTrouble /\ trouble' = trouble + 1
FromOutside == outside < MaxOutside /\ outside' = outside + 1
Turned(on, x) == IF x \in on THEN on \ {x} ELSE on \union {x}
(* requireRuntimeIdle                                                      *)
NothingRuns == pluginJob = NoJob
Exclusive == pluginJob.kind = "restart" /\ pluginJob.at \notin {"asked"}

(* ---- Changing the selection: startPluginAction, configureSelection. ------- *)

(* The new selection replaces the old one, or the old one is written back. *)
StoreChange ==
  /\ pluginJob.kind = "change" /\ pluginJob.at = "asked"
  /\ \/ /\ stored' = IF pluginJob.to = "on" THEN stored \union {pluginJob.plugin}
                     ELSE stored \ {pluginJob.plugin}
        /\ pluginJob' = [pluginJob EXCEPT !.at = "written"]
        /\ UNCHANGED <<outcome, trouble>>
     \/ /\ Trouble /\ pluginJob' = NoJob /\ UNCHANGED stored
        /\ outcome' = [of |-> pluginJob.plugin, ok |-> FALSE]
  /\ UNCHANGED <<current, loaded, dsh, pageState, outside>>
EndChange ==
  /\ pluginJob.kind = "change" /\ pluginJob.at = "written" /\ pluginJob' = NoJob
  /\ outcome' = [of |-> pluginJob.plugin, ok |-> TRUE,
                 strategy |-> IF dsh = "up" THEN "restart" ELSE "next-start"]
  /\ UNCHANGED <<stored, current, loaded, dsh, pageState, trouble, outside>>

(* ---- DSH: the view it starts from. ----------------------------------------- *)

Requested(kind) ==
  /\ NothingRuns /\ FromOutside /\ pluginJob' = [kind |-> kind, at |-> "asked"]
  /\ CASE kind = "restart" -> dsh = "up" [] kind = "start" -> dsh # "up"
       [] kind = "stop" -> dsh = "up"
  /\ UNCHANGED <<stored, current, loaded, dsh, outcome, pageState, trouble>>
(* prepareSystemPluginSelection, and DSH is stopped.                       *)
Prepare ==
  /\ pluginJob.kind = "restart" /\ pluginJob.at = "asked"
  /\ pluginJob' = [kind |-> "restart", at |-> "prepared", next |-> stored, previous |-> current]
  /\ loaded' = Down /\ UNCHANGED <<stored, current, dsh, outcome, pageState, trouble, outside>>
Activate ==
  /\ pluginJob.kind = "restart" /\ pluginJob.at = "prepared"
  /\ current' = pluginJob.next /\ pluginJob' = [pluginJob EXCEPT !.at = "active"]
  /\ UNCHANGED <<stored, loaded, dsh, outcome, pageState, trouble, outside>>
Restarted ==
  /\ pluginJob.kind = "restart" /\ pluginJob.at = "active"
  /\ loaded' = current /\ dsh' = "up" /\ pluginJob' = NoJob
  /\ UNCHANGED <<stored, current, outcome, pageState, trouble, outside>>
(* The view is put back and DSH started with it; the selection stays.      *)
RestartFails ==
  /\ pluginJob.kind = "restart" /\ pluginJob.at = "active" /\ Trouble
  /\ dsh' = "failed" /\ pluginJob' = NoJob /\ current' = pluginJob.previous
  /\ loaded' \in {pluginJob.previous, Down}
  /\ UNCHANGED <<stored, outcome, pageState, outside>>
(* resume, and the start of the container: applySystemPluginSelection.     *)
Started ==
  /\ pluginJob.kind = "start" /\ pluginJob' = NoJob /\ current' = stored
  /\ \/ loaded' = current' /\ dsh' = "up" /\ UNCHANGED trouble
     \/ loaded' = Down /\ dsh' = "failed" /\ Trouble
  /\ UNCHANGED <<stored, outcome, pageState, outside>>
StopDone ==
  /\ pluginJob.kind = "stop" /\ pluginJob' = NoJob /\ loaded' = Down /\ dsh' = "stopped"
  /\ UNCHANGED <<stored, current, outcome, pageState, trouble, outside>>
(* The container is restarted: what a task had written stays.              *)
ContainerRestarts ==
  /\ FromOutside /\ pluginJob' = [kind |-> "start"] /\ loaded' = Down /\ outcome' = NoOutcome
  /\ UNCHANGED <<stored, current, dsh, pageState, trouble>>

(* ---- The page. -------------------------------------------------------------- *)

Choose(x) ==
  /\ page = Resting /\ draft' = Turned(draft, x) /\ applies < MaxApplies
  /\ UNCHANGED <<serverState, page, mark, batch, applies, trouble, outside>>
Apply ==
  /\ page = Resting /\ draft # {} /\ applies < MaxApplies /\ applies' = applies + 1
  /\ page' = [at |-> "next", todo |-> draft, want |-> draft \ stored, changed |-> FALSE, later |-> FALSE]
  /\ UNCHANGED <<serverState, draft, mark, batch, trouble, outside>>
Refused == Trouble /\ UNCHANGED <<serverState, batch>>
SendChange(x) ==
  /\ page.at = "next" /\ x \in page.todo
  /\ \/ /\ NothingRuns /\ outcome' = NoOutcome
        /\ pluginJob' = [kind |-> "change", at |-> "asked", plugin |-> x,
                        to |-> IF x \in page.want THEN "on" ELSE "off"]
        /\ page' = [page EXCEPT !.at = "sent", !.todo = @ \ {x}]
        /\ batch' = IF page.changed THEN batch ELSE Batch(page.todo, page.want, stored)
        /\ UNCHANGED <<stored, current, loaded, dsh, trouble>>
     \/ Refused /\ page' = [page EXCEPT !.at = "failing"]
     \/ /\ ~NothingRuns /\ UNCHANGED <<serverState, batch, trouble>>
        /\ page' = [page EXCEPT !.at = "failing"]
  /\ UNCHANGED <<draft, mark, applies, outside>>
Heard ==
  /\ page.at = "sent" /\ mark' = TRUE
  /\ page' = [page EXCEPT !.at = "waiting", !.changed = TRUE]
  /\ UNCHANGED <<serverState, draft, batch, applies, trouble, outside>>
(* waitForManagementTask; a task that no longer exists is given up.        *)
TaskOver == pluginJob.kind # "change"
Waited ==
  /\ page.at = "waiting" /\ TaskOver /\ UNCHANGED <<serverState, batch, applies>>
  /\ LET good == outcome # NoOutcome /\ outcome.ok
         later == page.later \/ (good /\ outcome.strategy = "next-start")
     IN IF ~good THEN page' = [page EXCEPT !.at = "failing"] /\ UNCHANGED <<draft, mark>>
        ELSE IF page.todo # {}
        THEN page' = [page EXCEPT !.at = "next", !.later = later] /\ UNCHANGED <<draft, mark>>
        ELSE /\ draft' = {}
             /\ page' = IF later THEN Resting ELSE [page EXCEPT !.at = "restart"]
             /\ mark' = (mark /\ ~later)
  /\ UNCHANGED <<trouble, outside>>
SendRestart ==
  /\ page.at = "restart"
  /\ \/ /\ NothingRuns /\ dsh = "up" /\ pluginJob' = [kind |-> "restart", at |-> "asked"]
        /\ page' = Resting /\ mark' = FALSE
        /\ UNCHANGED <<stored, current, loaded, dsh, outcome, batch, trouble>>
     \/ Refused /\ page' = [page EXCEPT !.at = "failing"] /\ UNCHANGED mark
     \/ /\ ~(NothingRuns /\ dsh = "up") /\ UNCHANGED <<serverState, batch, trouble, mark>>
        /\ page' = [page EXCEPT !.at = "failing"]
  /\ UNCHANGED <<draft, applies, outside>>
(* The mark goes although changes may be stored that nothing takes back.   *)
Loses == page' = Resting /\ mark' = FALSE /\ batch' = [batch EXCEPT !.lost = "yes"]
(* A failed Apply asks once for the changes to be taken back. The route    *)
(* looks for running tasks first and only then asks Bootstrap.             *)
DefectFail ==
  /\ page.at = "failing" /\ mark' = FALSE /\ page' = Resting
  /\ UNCHANGED <<serverState, draft, batch, applies, trouble, outside>>
Fail ==
  /\ page.at = "failing"
  /\ CASE page.changed /\ NothingRuns -> page' = [at |-> "discarding"] /\ UNCHANGED <<mark, batch>>
       [] page.changed /\ ~NothingRuns -> Loses
       [] ~page.changed /\ mark -> Loses
       [] OTHER -> page' = Resting /\ UNCHANGED <<mark, batch>>
  /\ UNCHANGED <<serverState, draft, applies, trouble, outside>>
(* discardSystemPluginSelection: the selection becomes what is active. A   *)
(* page that was loaded anew asks again, and leaves the mark if it gives up. *)
TakenBack ==
  /\ page.at \in {"discarding", "reclaiming"} /\ ~Exclusive
  /\ \/ stored' = current /\ page' = Resting /\ mark' = FALSE /\ UNCHANGED <<batch, trouble>>
     \/ Trouble /\ page.at = "discarding" /\ Loses /\ UNCHANGED stored
     \/ Trouble /\ page.at = "reclaiming" /\ page' = Resting /\ UNCHANGED <<stored, mark, batch>>
  /\ UNCHANGED <<current, loaded, dsh, pluginJob, outcome, draft, applies, outside>>
(* cancelSystemPluginDraft: what is stored and not active is given up, too. *)
CancelDraft ==
  /\ page = Resting /\ draft' = {}
  /\ CASE stored # current /\ NothingRuns ->
            /\ page' = [at |-> "discarding"] /\ UNCHANGED mark
            /\ batch' = Batch(Plugins, current, stored)
       [] ~(stored # current /\ NothingRuns) /\ mark -> Loses
       [] OTHER -> draft # {} /\ UNCHANGED <<page, mark, batch>>
  /\ UNCHANGED <<serverState, applies, trouble, outside>>
(* A page that is loaded with the mark set takes the changes back, trying  *)
(* for five seconds; the mark outlives a page that gives up. One that left *)
(* before its first change was answered has set none.                      *)
Reload ==
  /\ FromOutside /\ draft' = {}
  /\ page' = IF mark THEN [at |-> "reloaded"] ELSE Resting
  /\ batch' = IF page.at = "sent" /\ ~mark THEN [batch EXCEPT !.lost = "yes"] ELSE batch
  /\ UNCHANGED <<serverState, mark, applies, trouble>>
Reclaim ==
  /\ page.at = "reloaded"
  /\ \/ NothingRuns /\ page' = [at |-> "reclaiming"]
     \/ ~NothingRuns /\ page' = Resting
  /\ UNCHANGED <<serverState, draft, mark, batch, applies, trouble, outside>>

PluginServerNext ==
  \/ StoreChange \/ EndChange \/ Prepare \/ Activate \/ Restarted \/ RestartFails
  \/ Started \/ StopDone \/ ContainerRestarts
  \/ \E kind \in {"restart", "start", "stop"} : Requested(kind)
PluginPageNext ==
  \/ \E x \in Plugins : Choose(x) \/ SendChange(x)
  \/ Apply \/ Heard \/ Waited \/ SendRestart \/ Fail \/ TakenBack \/ CancelDraft
  \/ Reload \/ Reclaim
(* Tasks run to their end, and the page's code goes on by itself.          *)
SystemPluginsSpec ==
  /\ SystemPluginsInit /\ [][PluginServerNext \/ PluginPageNext]_applyVars
  /\ WF_applyVars(StoreChange) /\ WF_applyVars(EndChange) /\ WF_applyVars(Prepare)
  /\ WF_applyVars(Activate) /\ WF_applyVars(Restarted \/ RestartFails)
  /\ WF_applyVars(Started) /\ WF_applyVars(StopDone)
  /\ WF_applyVars(\E x \in Plugins : SendChange(x)) /\ WF_applyVars(Heard)
  /\ WF_applyVars(Waited) /\ WF_applyVars(SendRestart) /\ WF_applyVars(Fail)
  /\ WF_applyVars(TakenBack) /\ WF_applyVars(Reclaim)

(* A running DSH has the plugins of the view that is current, whatever     *)
(* restarts failed and were put back: what is listed as active is active.  *)
RunsCurrentView == loaded # Down /\ pluginJob = NoJob => loaded = current

(* When an Apply is over and no change is marked, all of its changes are   *)
(* stored, or none is, or none waits for a start: nothing is half applied, *)
(* unless the page lost track of them: the request to take them back was   *)
(* refused or failed, or the page was left before it was answered. The     *)
(* next Apply or Cancel that gets through is whole again.                  *)
AllOrNone ==
  page = Resting /\ ~mark /\ batch.lost = "no" =>
    \/ \A x \in batch.ids : x \in stored <=> x \in batch.want
    \/ \A x \in batch.ids : x \in stored <=> x \in batch.was
    \/ \A x \in batch.ids : x \in stored <=> x \in current

(* ---- Violated: where DSH does not run, taking back the changes of an     *)
(* Apply that failed leaves alone what earlier ones left for its next start. *)
RetainedKept ==
  [][page.at = "discarding" /\ dsh # "up" /\ stored' # stored =>
       \A x \in Plugins \ batch.ids : x \in stored <=> x \in stored']_applyVars

(* What is listed as active runs, and an Apply is never half done.         *)
ApplyWhole == RunsCurrentView /\ AllOrNone
=============================================================================
