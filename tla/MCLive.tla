------------------------------- MODULE MCLive -------------------------------
(***************************************************************************)
(* What must come to an end on the server, side by side: the Updater's     *)
(* checks and tasks, DSH and its recovery, the pages the Gateway answers   *)
(* with meanwhile, proxy tests, Experimental updates, and Bootstrap's      *)
(* start-up with the switches of Deployments asked for during it.          *)
(* A behaviour is one of the part that 'focus' names, and in the others    *)
(* nothing happens; the fairness is that of each module's own specification, *)
(* asked for the part in focus.                                            *)
(***************************************************************************)
EXTENDS UpdateCoordinator, ExperimentalUpdate

VARIABLES focus,
  dshProcess, launch, dshPublished, lifecycle, recoveryMode, reported,
  holder, at, request, tries, attempt, fatals, owned, deferred, startup,
  goingDown, quietStop, overrun, dshExits, dshRequests,
  test, run, abort, active, kept, alive,
  platform, servedDsh, seen, recovery, bundles, page, marker, reports,
  startSlots, startActivation, startImage, startView, startRuns, startBoot, startPlan,
  startFallback, startOp, startCrashes, startFaults, startTorn, startReceipts, startGoal

(* Two signed targets; DSH, environment and Bootstrap have their number. *)
SameNumber == [t \in Targets |-> t]

Runtime == INSTANCE DshRuntime WITH
  MaxDshExits <- 2, MaxDshRequests <- 2, dsh <- dshProcess,
  published <- dshPublished, down <- goingDown
runtimeVars == <<dshProcess, launch, dshPublished, lifecycle, recoveryMode,
                 reported, holder, at, request, tries, attempt, fatals, owned,
                 deferred, startup, goingDown, quietStop, overrun,
                 dshExits, dshRequests>>

ProxyTrials == {"p1", "p2", "p3"}

Trial == INSTANCE ProxyTests WITH
  Tests <- ProxyTrials, Stages <- 2, Lookups <- {1}, EarlyWriteFails <- FALSE
trialsVars == <<test, run, abort, active, kept, alive>>

PageTabs == {"t1"}

Pages == INSTANCE GatewayPages WITH
  Tabs <- PageTabs, MaxMoves <- 1, MaxRecords <- 2, dsh <- servedDsh
pagesVars == <<platform, servedDsh, seen, recovery, bundles, page, marker,
               reports>>

(* An image, its Managed copy and two Experimental builds, each of a newer  *)
(* DSH.                                                                     *)
Releases == {"image", "managed", "candidate-2", "candidate-3"}
Copies == [r \in Releases |-> IF r = "image" THEN "managed" ELSE r]
Candidates == <<"candidate-2", "candidate-3">>
NoTarget == <<>>
DshVersions ==
  [r \in Releases |-> CASE r = "candidate-2" -> 2 [] r = "candidate-3" -> 3 [] OTHER -> 1]

(* An image, its Managed copy and one release.                              *)
StartRecords == {"image", "managed", "a"}
StartTokens == [r \in StartRecords |-> IF r = "a" THEN {"ta"} ELSE {}]
StartNumber == [r \in StartRecords |-> IF r = "a" THEN 2 ELSE 1]

Starts == INSTANCE DeploymentManager WITH
  Record <- StartRecords, Image <- {"image"}, Token <- {"ta"},
  Materialized <- [i \in {"image"} |-> "managed"], ReceiptTokens <- StartTokens,
  TargetSequence <- StartNumber, DshVersion <- StartNumber,
  Authority <- [r \in StartRecords |-> "stable"], Environment <- StartNumber,
  Content <- [r \in StartRecords |-> IF r = "managed" THEN "image" ELSE r],
  EarlyRequests <- TRUE, SlowStage0 <- FALSE, MaxCrashes <- 1, MaxFaults <- 1,
  slots <- startSlots, activation <- startActivation, image <- startImage,
  view <- startView, running <- startRuns, boot <- startBoot, plan <- startPlan,
  recovery <- startFallback, op <- startOp, crashes <- startCrashes,
  faults <- startFaults, torn <- startTorn, receipts <- startReceipts, goal <- startGoal
startsVars == <<startSlots, startActivation, startImage, startView, startRuns, startBoot,
                startPlan, startFallback, startOp, startCrashes, startFaults, startTorn,
                startReceipts, startGoal>>

Focus ==
  { "updates", "runtime", "trials", "pages", "transactions", "starts" }

LiveInit ==
  /\ focus \in Focus
  /\ CoordinatorInit
  /\ (focus = "updates" \/ (published = 1 /\ upstream = 2))
  /\ Runtime!DshInit
  /\ Trial!TestInit
  /\ Pages!PageInit /\ (focus = "pages" \/ servedDsh.good)
  /\ Init
  /\ Starts!Init

LiveNext ==
  /\ UNCHANGED focus
  /\ IF focus = "updates" THEN CoordinatorNext ELSE UNCHANGED coordinator
  /\ IF focus = "runtime" THEN Runtime!DshNext ELSE UNCHANGED runtimeVars
  /\ IF focus = "trials" THEN Trial!TestNext ELSE UNCHANGED trialsVars
  /\ IF focus = "pages" THEN Pages!PageNext ELSE UNCHANGED pagesVars
  /\ IF focus = "transactions" THEN Next ELSE UNCHANGED vars
  /\ IF focus = "starts" THEN Starts!Next ELSE UNCHANGED startsVars

everything ==
  <<focus, coordinator, runtimeVars, trialsVars, pagesVars, vars, startsVars>>
LiveSpec ==
  /\ LiveInit /\ [][LiveNext]_everything
  /\ WF_coordinator(focus = "updates" /\ Checking)
  /\ WF_coordinator(focus = "updates" /\ Writing)
  /\ WF_coordinator(focus = "updates" /\ Working)
  /\ WF_coordinator(focus = "updates" /\ job.step = "handoff" /\ Restart)
  /\ WF_runtimeVars(focus = "runtime" /\ Runtime!ClientSteps)
  /\ WF_runtimeVars(focus = "runtime" /\ Runtime!RecoverySteps)
  /\ \A t \in ProxyTrials :
       /\ WF_trialsVars(focus = "trials" /\ Trial!TestSaved(t))
       /\ WF_trialsVars(focus = "trials" /\ Trial!EnterStage(t))
       /\ WF_trialsVars(focus = "trials" /\ Trial!StageTimesOut(t))
       /\ WF_trialsVars(focus = "trials" /\ Trial!StageAborted(t))
       /\ WF_trialsVars(focus = "trials" /\ Trial!TotalTimer(t))
       /\ WF_trialsVars(focus = "trials" /\ Trial!Succeed(t))
       /\ WF_trialsVars(focus = "trials" /\ Trial!Fail(t))
       /\ WF_trialsVars(focus = "trials" /\ Trial!End(t))
  /\ WF_pagesVars(focus = "pages" /\ Pages!DshRecovers)
  /\ WF_pagesVars(focus = "pages" /\ Pages!DshListens)
  /\ WF_pagesVars(focus = "pages" /\ Pages!DshPublished)
  /\ WF_pagesVars(focus = "pages" /\ Pages!RecentPasses)
  /\ WF_pagesVars(focus = "pages" /\ Pages!ClientEvent)
  /\ WF_pagesVars(focus = "pages" /\ Pages!StatusPolled)
  /\ \A t \in PageTabs :
       /\ WF_pagesVars(focus = "pages" /\ Pages!Gateway(t))
  /\ WF_vars(focus = "transactions" /\ UpdaterNext)
  /\ WF_vars(focus = "transactions" /\ BootstrapNext)
  /\ WF_startsVars(focus = "starts" /\ Starts!Operation)
  /\ WF_startsVars(focus = "starts" /\ Starts!Stage0Writes("ta"))
  \* Strong fairness of two or three parts at a time: one of them has the focus.
  /\ SF_<<coordinator, pagesVars, startsVars>>
       (\/ /\ focus = "updates" /\ StartCheck("automatic")
           /\ UNCHANGED <<pagesVars, startsVars>>
        \/ /\ focus = "pages" /\ UNCHANGED <<coordinator, startsVars>>
           /\ \E t \in PageTabs : Pages!DeadlinePasses(t)
        \/ focus = "starts" /\ Starts!Startup /\ UNCHANGED <<coordinator, pagesVars>>)
  /\ SF_<<coordinator, pagesVars>>
       (\/ /\ focus = "updates" /\ check.step = "begun" /\ check.source = "automatic"
           /\ CheckPlans /\ UNCHANGED pagesVars
        \/ /\ focus = "pages" /\ UNCHANGED coordinator
           /\ \E t \in PageTabs : Pages!HeldTimesOut(t))

(* Every control operation of Bootstrap ends, and so does its start-up      *)
(* unless the Updater goes on switching Deployments under it or no          *)
(* Deployment can be resolved start after start, in which Bootstrap ends    *)
(* and is launched again.                                                   *)
EverythingEnds == focus = "starts" => Starts!EverythingEnds

(* DSH is what it is shown to be, and its exits are answered.              *)
RuntimeTrue == Runtime!RuntimeTrue

(* Tests run one at a time, and each gives way to the next.                *)
TestsTakeTurns == Trial!TestsTakeTurns

(* A page whose bundle fails comes to rest once DSH does: it is loaded, or  *)
(* it says what is wrong, and is not exchanged for ever.                   *)
PagesRest == focus = "pages" => Pages!PagesSettle

(* What was begun comes to rest on the server: checks, tasks and what they *)
(* announce, transactions across crashes, and the pages the Gateway        *)
(* answers with (coordinator.mjs, recovery.mjs, proxy.mjs).                *)
ServerSettles == UpdaterSettles /\ Settles /\ PagesRest

==============================================================================
