------------------------ MODULE MCDeploymentManager ------------------------
(***************************************************************************)
(* Small instances of DeploymentManager, of which 'focus' names the one    *)
(* that moves.  i1 and i3 are the images of the first and third release    *)
(* and d a development image; m1, m3 and md are the Managed Records made   *)
(* of them.  a is the second release, b a third one with other content     *)
(* than i3, and x an Experimental build on b.                              *)
(***************************************************************************)
EXTENDS DeploymentManager, TLC

CONSTANT Parts  \* the instances explored: "images", "overtaken", "releases"

CONSTANTS i1, i3, d, m1, m3, md, a, b, x, ta, tb, tx

VARIABLES focus,
  nextSlots, nextActivation, nextImage, nextView, nextRuns, nextBoot, nextPlan,
  nextFallback, nextOp, nextCrashes, nextFaults, nextTorn, nextReceipts, nextGoal,
  updateSlots, updateActivation, updateImage, updateView, updateRuns, updateBoot, updatePlan,
  updateFallback, updateOp, updateCrashes, updateFaults, updateTorn, updateReceipts, updateGoal

MCMaterialized ==
  [i \in Image |-> CASE i = i1 -> m1 [] i = i3 -> m3 [] i = d -> md]

MCReceiptTokens ==
  [r \in Record |-> CASE r = a -> {ta} [] r = b -> {tb} [] r = x -> {tb, tx} [] OTHER -> {}]

MCTargetSequence ==
  [r \in Record |-> CASE r \in {d, md} -> 0 [] r \in {i1, m1} -> 1
                      [] r = a -> 2 [] r \in {i3, m3, b, x} -> 3]

MCDshVersion ==
  [r \in Record |-> CASE r \in {i1, m1} -> 1 [] r = a -> 2 [] r = x -> 4 [] OTHER -> 3]

MCAuthority ==
  [r \in Record |-> CASE r = x -> "experimental" [] r \in {d, md} -> "development"
                      [] OTHER -> "stable"]

MCEnvironment == MCTargetSequence

MCContent == [r \in Record |-> CASE r \in {i1, m1} -> i1 [] r \in {i3, m3} -> i3
                                 [] r \in {d, md} -> d [] OTHER -> r]

(* A relaunched Bootstrap that does not wait for the writes its predecessor *)
(* has asked Stage-0 for: an image, its copy and two releases.              *)
Releases == {"image", "managed", "a", "b"}
ReleaseTokens ==
  [r \in Releases |-> IF r = "a" THEN {"ta"} ELSE IF r = "b" THEN {"tb"} ELSE {}]
ReleaseNumber ==
  [r \in Releases |-> IF r = "a" THEN 2 ELSE IF r = "b" THEN 3 ELSE 1]

Overtaken == INSTANCE DeploymentManager WITH
  Record <- Releases, Image <- {"image"}, Token <- {"ta", "tb"},
  Materialized <- [i \in {"image"} |-> "managed"],
  ReceiptTokens <- ReleaseTokens, TargetSequence <- ReleaseNumber,
  DshVersion <- ReleaseNumber, Authority <- [r \in Releases |-> "stable"],
  Environment <- ReleaseNumber,
  Content <- [r \in Releases |-> IF r = "managed" THEN "image" ELSE r],
  EarlyRequests <- FALSE, SlowStage0 <- TRUE, MaxCrashes <- 1, MaxFaults <- 0,
  slots <- nextSlots, activation <- nextActivation, image <- nextImage,
  view <- nextView, running <- nextRuns, boot <- nextBoot, plan <- nextPlan,
  recovery <- nextFallback, op <- nextOp, crashes <- nextCrashes,
  faults <- nextFaults, torn <- nextTorn, receipts <- nextReceipts, goal <- nextGoal
overtakenVars == <<nextSlots, nextActivation, nextImage, nextView, nextRuns, nextBoot,
                   nextPlan, nextFallback, nextOp, nextCrashes, nextFaults, nextTorn,
                   nextReceipts, nextGoal>>

(* The same where it waits, with two crashes. *)
Updates == INSTANCE DeploymentManager WITH
  Record <- Releases, Image <- {"image"}, Token <- {"ta", "tb"},
  Materialized <- [i \in {"image"} |-> "managed"],
  ReceiptTokens <- ReleaseTokens, TargetSequence <- ReleaseNumber,
  DshVersion <- ReleaseNumber, Authority <- [r \in Releases |-> "stable"],
  Environment <- ReleaseNumber,
  Content <- [r \in Releases |-> IF r = "managed" THEN "image" ELSE r],
  EarlyRequests <- FALSE, SlowStage0 <- FALSE, MaxCrashes <- 2, MaxFaults <- 0,
  slots <- updateSlots, activation <- updateActivation, image <- updateImage,
  view <- updateView, running <- updateRuns, boot <- updateBoot, plan <- updatePlan,
  recovery <- updateFallback, op <- updateOp, crashes <- updateCrashes,
  faults <- updateFaults, torn <- updateTorn, receipts <- updateReceipts, goal <- updateGoal
updatesVars == <<updateSlots, updateActivation, updateImage, updateView, updateRuns, updateBoot,
                updatePlan, updateFallback, updateOp, updateCrashes, updateFaults, updateTorn,
                updateReceipts, updateGoal>>

-----------------------------------------------------------------------------
PartsInit ==
  /\ focus \in Parts
  /\ Init /\ (focus = "images" \/ image = i1)
  /\ Overtaken!Init
  /\ Updates!Init

PartsNext ==
  /\ UNCHANGED focus
  /\ IF focus = "images" THEN Next ELSE UNCHANGED vars
  /\ IF focus = "overtaken" THEN Overtaken!Next ELSE UNCHANGED overtakenVars
  /\ IF focus = "releases" THEN Updates!Next ELSE UNCHANGED updatesVars

PartsSpec == PartsInit /\ [][PartsNext]_<<focus, vars, overtakenVars, updatesVars>>

FairPartsSpec == PartsSpec /\ Fairness

(* recoverActivation can carry out what the journal says as far as the      *)
(* receipts are concerned, also when Stage-0 still writes for a Bootstrap   *)
(* that died: what it goes back to can be activated again, and what it      *)
(* commits is active already.  And whichever release was switched to and    *)
(* whatever fell back, what the slots select can be run, and nothing else   *)
(* is run.                                                                  *)
DeploymentsStand ==
  /\ Overtaken!JournalRecoverable
  /\ Updates!ReceiptsSound /\ Updates!CurrentSound
=============================================================================
