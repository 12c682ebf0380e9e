----------------------------- MODULE RuntimeReset -----------------------------
(***************************************************************************)
(* "Reset runtime" (deployments.mjs, resetCurrentRuntime): Bootstrap builds *)
(* the Runtime of the current Deployment again, stops DSH, moves the        *)
(* directory that is there aside and the new one into its place, starts DSH *)
(* on it and removes what it moved aside; a step that fails is undone.  The *)
(* record of the image names a Runtime of the image, so its reset makes a   *)
(* record of its own.  What an interruption leaves is met by the next       *)
(* start-up and by the collector.                                           *)
(***************************************************************************)
EXTENDS Naturals, TLAPS

CONSTANTS
  RetainedRecords,        \* what the previous slot holds at first: "old", or "none"
  MaxResets, MaxResetFaults, MaxResetCrashes  \* bounds

VARIABLES
  inPlace,    \* the tree under the name the records give: "none", "whole", "damaged"
  aside,      \* the tree that was moved aside
  resetSlots, \* current and previous Deployment
  dshOn,      \* the Deployment DSH runs on
  reset,      \* resetCurrentRuntime
  harmed,     \* the Runtime was damaged, and not replaced since
  cut,        \* a reset was cut where nothing undoes it, and none succeeded since:
              \* "none", "lost" (with the container), "late" (a step failed)
  resets, resetFaults, resetCrashes \* what the bounds leave

resetVars == <<inPlace, aside, resetSlots, dshOn, reset, harmed, cut, resets, resetFaults, resetCrashes>>
trees == <<inPlace, aside>>
resetBounds == <<resets, resetFaults, resetCrashes>>

\* "image": the image's record; "repaired": its record with the Runtime in
\* place; "managed": of an update, with the Runtime in place; "old": another.
InPlace == {"repaired", "managed"}
NoReset == [step |-> "idle", result |-> "none", from |-> "image", prior |-> "none",
            slots |-> [current |-> "image", previous |-> "none"]]

ResetInit ==
  /\ \E current \in {"image", "managed"}, previous \in RetainedRecords :
       resetSlots = [current |-> current, previous |-> previous]
  /\ inPlace \in IF resetSlots.current = "image" THEN {"none"} ELSE {"whole", "damaged"}
  /\ harmed = (inPlace = "damaged") /\ cut = "none"
  /\ aside = "none" /\ dshOn = resetSlots.current /\ reset = NoReset
  /\ resets = MaxResets /\ resetFaults = MaxResetFaults /\ resetCrashes = MaxResetCrashes

Repaired == IF reset.from = "image" THEN "repaired" ELSE reset.from

Goes(from, to) == reset.step = from /\ reset' = [reset EXCEPT !.step = to] /\ UNCHANGED resetBounds
Finishes(from, result) ==
  /\ reset.step = from /\ reset' = [reset EXCEPT !.step = "idle", !.result = result]
Fails(from, to) ==
  /\ reset.step = from /\ reset' = [reset EXCEPT !.step = to]
  /\ resetFaults > 0 /\ resetFaults' = resetFaults - 1 /\ UNCHANGED <<resets, resetCrashes>>
\* ... where nothing undoes it: after the commit, or in the undo.
LateFailure(from, to) ==
  /\ reset.step = from /\ reset' = [reset EXCEPT !.step = to, !.result = "late"] /\ cut' = "late"
  /\ resetFaults > 0 /\ resetFaults' = resetFaults - 1 /\ UNCHANGED <<resets, resetCrashes>>

-----------------------------------------------------------------------------
(* resetCurrentRuntime. *)

(* The Runtime is built beside the others and its hash compared. *)
BeginReset ==
  /\ reset.step = "idle" /\ dshOn # "lost" /\ resetSlots.current # "old"
  /\ resets > 0 /\ resets' = resets - 1
  /\ reset' = [step |-> "pause", result |-> "none", from |-> resetSlots.current,
               prior |-> inPlace, slots |-> resetSlots]
  /\ UNCHANGED <<trees, resetSlots, dshOn, harmed, cut, resetFaults, resetCrashes>>
(* A build that fails changes nothing; a stop that fails has stopped DSH,   *)
(* which is not started again.                                              *)
ResetFailsEarly ==
  /\ Finishes("pause", "failed") /\ dshOn' \in {dshOn, "down"}
  /\ resetFaults > 0 /\ resetFaults' = resetFaults - 1
  /\ UNCHANGED <<trees, resetSlots, harmed, cut, resets, resetCrashes>>
PauseDsh ==
  /\ Goes("pause", IF inPlace = "none" THEN "place" ELSE "aside") /\ dshOn' = "down"
  /\ UNCHANGED <<trees, resetSlots, harmed, cut>>

(* replaceRuntimeDirectory. *)
MoveAside ==
  /\ \/ Goes("aside", "place") /\ aside' = inPlace /\ inPlace' = "none"
     \/ Fails("aside", "reselect") /\ UNCHANGED trees
  /\ UNCHANGED <<resetSlots, dshOn, harmed, cut>>
\* Mutant: a rename that fails leaves what was moved aside there.
DefectMoveIntoPlace ==
  /\ \/ Goes("place", "start") /\ inPlace' = "whole" /\ UNCHANGED aside
     \/ Fails("place", "reselect") /\ UNCHANGED trees
  /\ UNCHANGED <<resetSlots, dshOn, harmed, cut>>
MoveIntoPlace ==
  /\ \/ Goes("place", "start") /\ inPlace' = "whole" /\ UNCHANGED <<aside, cut>>
     \/ /\ Fails("place", "reselect") /\ UNCHANGED cut
        /\ IF reset.prior # "none" THEN inPlace' = aside /\ aside' = "none" ELSE UNCHANGED trees
     \/ LateFailure("place", "reselect") /\ reset.prior # "none" /\ UNCHANGED trees
  /\ UNCHANGED <<resetSlots, dshOn, harmed>>

(* The view is switched and DSH started. *)
StartRepaired ==
  /\ \/ Goes("start", IF Repaired = reset.from THEN "remove" ELSE "commit") /\ dshOn' = Repaired
     \/ Fails("start", "undo") /\ UNCHANGED dshOn
  /\ UNCHANGED <<trees, resetSlots, harmed, cut>>
CommitRepaired ==
  /\ \/ /\ Goes("commit", "remove")
        /\ resetSlots' = [current |-> "repaired",
                          previous |-> IF reset.slots.previous = "repaired" THEN "none"
                                       ELSE reset.slots.previous]
     \/ Fails("commit", "undo") /\ UNCHANGED resetSlots
  /\ UNCHANGED <<trees, dshOn, harmed, cut>>
RemoveAside ==
  /\ \/ /\ Goes("remove", "status") /\ UNCHANGED cut
        /\ aside' = (IF reset.prior = "none" THEN aside ELSE "none")
     \/ /\ LateFailure("remove", "undo") /\ reset.prior # "none"
        /\ aside' \in {aside, "damaged"}
  /\ UNCHANGED <<inPlace, resetSlots, dshOn, harmed>>
ResetDone ==
  /\ \/ Finishes("status", "done") /\ harmed' = FALSE /\ cut' = "none" /\ UNCHANGED resetBounds
     \/ LateFailure("status", "undo") /\ UNCHANGED harmed
  /\ UNCHANGED <<trees, resetSlots, dshOn>>

(* The catch block: replacement.rollback, then the record there was.  The   *)
(* rollback's own failure is not heard; what was moved aside may be gone.   *)
RemoveRepaired ==
  /\ \/ /\ Goes("undo", IF reset.prior = "none" THEN "reselect" ELSE "putback")
        /\ inPlace' = "none" /\ UNCHANGED cut
     \/ LateFailure("undo", "reselect") /\ inPlace' \in {inPlace, "damaged"}
  /\ UNCHANGED <<aside, resetSlots, dshOn, harmed>>
PutBack ==
  /\ \/ /\ Goes("putback", "reselect") /\ inPlace' = aside /\ aside' = "none"
        /\ UNCHANGED cut
     \/ LateFailure("putback", "reselect") /\ UNCHANGED trees
  /\ UNCHANGED <<resetSlots, dshOn, harmed>>
RestartPrior ==
  /\ Finishes("reselect", IF reset.result = "late" THEN "late" ELSE "failed")
  /\ UNCHANGED resetBounds
  /\ dshOn' \in CASE reset.from = "image" -> {"image"}
                  [] inPlace = "whole" -> {reset.from}
                  [] inPlace = "damaged" -> {reset.from, "down"}
                  [] OTHER -> {"down"}
  /\ UNCHANGED <<trees, resetSlots, harmed, cut>>

-----------------------------------------------------------------------------
(* What happens otherwise. *)

RuntimeDamaged ==
  /\ reset.step = "idle" /\ inPlace = "whole" /\ inPlace' = "damaged" /\ harmed' = TRUE
  /\ reset' = NoReset
  /\ resetFaults > 0 /\ resetFaults' = resetFaults - 1
  /\ UNCHANGED <<aside, resetSlots, dshOn, cut, resets, resetCrashes>>

(* The container is stopped or lost. *)
ContainerLost ==
  /\ dshOn # "lost" /\ resetCrashes > 0 /\ resetCrashes' = resetCrashes - 1
  /\ dshOn' = "lost" /\ reset' = NoReset
  /\ inPlace' \in IF reset.step = "undo" THEN {inPlace, "damaged"} ELSE {inPlace}
  /\ IF reset.step = "undo" \/ (reset.step \in {"place", "putback"} /\ reset.prior # "none")
     THEN cut' = "lost" ELSE UNCHANGED cut
  /\ UNCHANGED <<aside, resetSlots, harmed, resets, resetFaults>>

(* prepareImage: the image is preferred to a record of the same content; the *)
(* Runtime of an update is hashed, and the previous Deployment is taken when *)
(* it is not what the record says.  Without one Bootstrap ends, every time.  *)
StartUp ==
  /\ dshOn = "lost"
  /\ CASE resetSlots.current = "repaired" ->
            resetSlots' = [current |-> "image", previous |-> "repaired"] /\ dshOn' = "image"
       [] resetSlots.current = "managed" /\ inPlace # "whole" ->
            /\ resetSlots.previous # "none"
            /\ resetSlots' = [current |-> "old", previous |-> "managed"] /\ dshOn' = "old"
       [] OTHER -> dshOn' = resetSlots.current /\ UNCHANGED resetSlots
  /\ UNCHANGED <<trees, reset, harmed, cut, resetBounds>>

(* The collector keeps the Runtimes the slots name. *)
Rooted == {resetSlots.current, resetSlots.previous} \cap InPlace # {}
Collect ==
  /\ reset.step = "idle" /\ dshOn # "lost"
  /\ aside' = "none" /\ inPlace' = (IF Rooted THEN inPlace ELSE "none")
  /\ reset' = NoReset
  /\ UNCHANGED <<resetSlots, dshOn, harmed, cut, resetBounds>>

ResetNext ==
  \/ BeginReset \/ ResetFailsEarly \/ PauseDsh \/ MoveAside \/ MoveIntoPlace
  \/ StartRepaired \/ CommitRepaired \/ RemoveAside \/ ResetDone
  \/ RemoveRepaired \/ PutBack \/ RestartPrior
  \/ RuntimeDamaged \/ ContainerLost \/ StartUp \/ Collect
ResetSpec == ResetInit /\ [][ResetNext]_resetVars

-----------------------------------------------------------------------------
(* The Runtime a slot names is in its place, or was just moved aside by a   *)
(* reset that will put it back or something better there; or a reset was cut. *)
RuntimeKept ==
  Rooted => \/ inPlace # "none"
            \/ reset.step \in {"place", "putback"} /\ aside # "none"
            \/ cut # "none"

(* A reset that failed has left the Runtime and the slots that were there, or *)
(* failed late, having committed at most its own record; one that succeeded  *)
(* leaves a Runtime that is whole, even if the one before it was cut.  Each   *)
(* leaves the previous Deployment.                                            *)
PreviousStands == resetSlots.previous = reset.slots.previous \/ reset.slots.previous = "repaired"
ResetEnds ==
  /\ reset.step = "idle" /\ reset.result = "failed" =>
       inPlace = reset.prior /\ resetSlots = reset.slots
  /\ reset.step = "idle" /\ reset.result = "late" =>
       resetSlots = reset.slots \/ (resetSlots.current = "repaired" /\ PreviousStands)
  /\ reset.step = "idle" /\ reset.result = "done" =>
       /\ inPlace = "whole" /\ resetSlots.current = dshOn /\ dshOn = Repaired
       /\ PreviousStands

(* Start-up leaves the current Deployment for the one before only when its  *)
(* Runtime was damaged, or a reset was cut.                                 *)
VersionKept == resetSlots.current = "old" => harmed = TRUE \/ cut # "none"

(* A reset costs no Runtime and no version, unless the container is lost     *)
(* between its renames, a step fails after the commit, or the undo itself    *)
(* fails: the code has nothing there that would bring the Runtime back.      *)
ResetSafe == RuntimeKept /\ ResetEnds /\ VersionKept

(* Resetting does not change what can be rolled back to (the guide: it does  *)
(* not change the rollback slots).                                           *)
RollbackSlotKept == resetSlots.current # "old" => resetSlots.previous \in RetainedRecords

-----------------------------------------------------------------------------
(* ResetSafe holds for all bounds.                                           *)
PreviousAtFirst == RetainedRecords \subseteq {"old", "none"}

Tree == {"none", "whole", "damaged"}
DshRecords == {"image", "repaired", "managed", "old"}
Slots == [current : DshRecords, previous : {"none", "old", "repaired", "managed"}]
ResetRecord ==
  [step : {"idle", "pause", "aside", "place", "start", "commit", "remove", "status",
           "undo", "putback", "reselect"},
   result : {"none", "failed", "late", "done"}, from : {"image", "repaired", "managed"},
   prior : Tree, slots : Slots]
ResetTypes ==
  /\ inPlace \in Tree /\ aside \in Tree /\ resetSlots \in Slots
  /\ dshOn \in DshRecords \cup {"down", "lost"} /\ harmed \in BOOLEAN /\ cut \in {"none", "lost", "late"}
  /\ reset \in ResetRecord

(* What each step of a reset finds: the trees, and the slots it began with.  *)
PlaceUntouched ==
  /\ reset.step \in {"pause", "aside"} => inPlace = reset.prior
  /\ reset.step = "reselect" /\ reset.result # "late" => inPlace = reset.prior
MovedAside ==
  /\ reset.step \in {"place", "putback"} => inPlace = "none"
  /\ reset.step \in {"start", "commit", "remove", "status", "undo"} => inPlace = "whole"
  /\ /\ reset.step \in {"place", "start", "commit", "undo", "putback"}
     /\ reset.prior # "none" /\ reset.result # "late"
     => aside = reset.prior
  /\ reset.step \in {"aside", "putback"} => reset.prior # "none"
SlotsStand ==
  /\ reset.step # "idle" =>
       \/ resetSlots = reset.slots
       \/ resetSlots.current = "repaired" /\ PreviousStands
  /\ reset.step \in {"pause", "aside", "place", "start", "commit", "undo", "putback", "reselect"} =>
       /\ reset.result # "late" => resetSlots = reset.slots
       /\ reset.prior = "none" /\ cut = "none" => ~Rooted
  /\ reset.step # "idle" => reset.from = reset.slots.current
  /\ reset.step = "commit" => reset.from = "image"
  /\ reset.step \in {"commit", "remove", "status"} => dshOn = Repaired
  /\ reset.step \in {"remove", "status"} => resetSlots.current = dshOn /\ PreviousStands
Harm ==
  /\ inPlace = "damaged" => harmed = TRUE \/ cut # "none"
  /\ reset.step # "idle" /\ reset.prior = "damaged" => harmed = TRUE \/ cut # "none"
  /\ reset.step # "idle" /\ reset.result = "late" => cut # "none"
  /\ reset.step \notin {"idle", "undo", "putback", "reselect"} => reset.result = "none"
  /\ dshOn = "lost" => reset.step = "idle" /\ reset.result = "none"

ResetKnown == ResetTypes /\ ResetSafe /\ PlaceUntouched /\ MovedAside /\ SlotsStand /\ Harm

LEMMA ResetEnded ==
  ASSUME reset \in ResetRecord, NEW result \in {"none", "failed", "late", "done"}
  PROVE  [reset EXCEPT !.step = "idle", !.result = result] \in ResetRecord
BY DEF ResetRecord

LEMMA FailedLate ==
  ASSUME reset \in ResetRecord, NEW from,
         NEW to \in {"undo", "putback", "reselect"}, LateFailure(from, to)
  PROVE  /\ reset' \in ResetRecord /\ reset.step = from /\ reset'.step = to /\ reset'.result = "late"
         /\ reset'.from = reset.from /\ reset'.prior = reset.prior /\ reset'.slots = reset.slots
         /\ cut' = "late"
BY DEF ResetRecord, LateFailure

LEMMA ResetInitial == ASSUME PreviousAtFirst, ResetInit PROVE ResetKnown
<1> USE DEF PreviousAtFirst, ResetInit, NoReset
<1>1. ResetTypes
  BY DEF ResetTypes, ResetRecord, Tree, Slots, DshRecords
<1>2. Harm
  BY DEF Harm
<1>3. RuntimeKept /\ VersionKept
  BY DEF RuntimeKept, VersionKept, Rooted, InPlace
<1> QED
  BY <1>1, <1>2, <1>3 DEF ResetKnown, ResetSafe, ResetEnds, PlaceUntouched, MovedAside, SlotsStand

LEMMA ResetStep == ASSUME PreviousAtFirst, ResetKnown, [ResetNext]_resetVars PROVE ResetKnown'
<1> USE DEF PreviousAtFirst, ResetKnown, ResetTypes, ResetRecord, Tree, Slots, DshRecords, trees, resetBounds
<1>1. CASE BeginReset
  <2>1. ResetTypes'
    BY <1>1 DEF BeginReset, PlaceUntouched, MovedAside, SlotsStand, PreviousStands, Harm, Repaired
  <2>2. PlaceUntouched' /\ MovedAside' /\ SlotsStand' /\ Harm'
    BY <1>1 DEF BeginReset, PlaceUntouched, MovedAside, SlotsStand, PreviousStands, Harm, Rooted, InPlace, Repaired, ResetSafe, RuntimeKept
  <2>3. ResetSafe'
    BY <1>1 DEF BeginReset, PlaceUntouched, MovedAside, SlotsStand, PreviousStands, Harm, Rooted, InPlace, Repaired,
                ResetSafe, RuntimeKept, ResetEnds, PreviousStands, VersionKept
  <2> QED
    BY <2>1, <2>2, <2>3
<1>2. CASE ResetFailsEarly
  <2>1. /\ reset.step = "pause" /\ reset' = [reset EXCEPT !.step = "idle", !.result = "failed"]
        /\ dshOn' \in {dshOn, "down"} /\ UNCHANGED <<trees, resetSlots, harmed, cut>>
    BY <1>2 DEF ResetFailsEarly, Finishes
  <2>2. /\ reset'.step = "idle" /\ reset'.result = "failed" /\ reset'.prior = reset.prior
        /\ reset'.slots = reset.slots /\ reset'.from = reset.from
    BY <2>1
  <2>3. ResetTypes'
    <3> USE <2>1 DEF ResetTypes, trees
    <3> HIDE DEF ResetRecord, Slots, Tree
    <3>1. reset' \in ResetRecord
      BY ResetEnded
    <3> QED
      BY <3>1
  <2>4. PlaceUntouched' /\ MovedAside' /\ SlotsStand'
    BY <2>2 DEF PlaceUntouched, MovedAside, SlotsStand
  <2>5. Harm'
    BY <2>1, <2>2 DEF Harm
  <2>6. ResetSafe'
    BY <2>1, <2>2 DEF PlaceUntouched, SlotsStand, PreviousStands, Harm, Rooted, InPlace, ResetSafe, RuntimeKept, ResetEnds, VersionKept
  <2> QED
    BY <2>3, <2>4, <2>5, <2>6
<1>3. CASE PauseDsh
  <2>1. ResetTypes'
    BY <1>3 DEF PauseDsh, Goes, PlaceUntouched, MovedAside, SlotsStand, PreviousStands, Harm, Repaired
  <2>2. PlaceUntouched' /\ MovedAside' /\ SlotsStand' /\ Harm'
    BY <1>3 DEF PauseDsh, Goes, PlaceUntouched, MovedAside, SlotsStand, PreviousStands, Harm, Rooted, InPlace, Repaired, ResetSafe, RuntimeKept
  <2>3. ResetSafe'
    BY <1>3 DEF PauseDsh, Goes, PlaceUntouched, MovedAside, SlotsStand, PreviousStands, Harm, Rooted, InPlace, Repaired,
                ResetSafe, RuntimeKept, ResetEnds, PreviousStands, VersionKept
  <2> QED
    BY <2>1, <2>2, <2>3
<1>4. CASE MoveAside
  <2>1. ResetTypes'
    BY <1>4 DEF MoveAside, Goes, Fails, LateFailure, PreviousStands, PlaceUntouched, MovedAside, SlotsStand, Harm, Repaired
  <2>2. PlaceUntouched' /\ MovedAside' /\ SlotsStand' /\ Harm'
    BY <1>4 DEF MoveAside, Goes, Fails, LateFailure, PreviousStands, PlaceUntouched, MovedAside, SlotsStand, Harm, Rooted, InPlace, Repaired, ResetSafe, RuntimeKept
  <2>3. ResetSafe'
    BY <1>4 DEF MoveAside, Goes, Fails, LateFailure, PreviousStands, PlaceUntouched, MovedAside, SlotsStand, Harm, Rooted, InPlace, Repaired,
                ResetSafe, RuntimeKept, ResetEnds, PreviousStands, VersionKept
  <2> QED
    BY <2>1, <2>2, <2>3
<1>5. CASE MoveIntoPlace
  <2>1. CASE Goes("place", "start") /\ inPlace' = "whole" /\ UNCHANGED <<aside, cut>> /\ UNCHANGED <<resetSlots, dshOn, harmed>>
    <3>1. ResetTypes'
      BY <2>1 DEF Goes, Fails, PlaceUntouched, MovedAside, SlotsStand, PreviousStands, Harm, Rooted, InPlace, Repaired
    <3>2. PlaceUntouched' /\ MovedAside' /\ SlotsStand' /\ Harm'
      BY <2>1 DEF Goes, Fails, PlaceUntouched, MovedAside, SlotsStand, PreviousStands, Harm, Rooted, InPlace, Repaired, ResetSafe, RuntimeKept
    <3>3. ResetSafe'
      BY <2>1 DEF Goes, Fails, PlaceUntouched, MovedAside, SlotsStand, PreviousStands, Harm, Rooted, InPlace, Repaired, ResetSafe, RuntimeKept, ResetEnds, VersionKept
    <3> QED
      BY <3>1, <3>2, <3>3
  <2>2. CASE Fails("place", "reselect") /\ UNCHANGED cut /\ (IF reset.prior # "none" THEN inPlace' = aside /\ aside' = "none" ELSE UNCHANGED trees) /\ UNCHANGED <<resetSlots, dshOn, harmed>>
    <3>1. ResetTypes'
      BY <2>2 DEF Goes, Fails, PlaceUntouched, MovedAside, SlotsStand, PreviousStands, Harm, Rooted, InPlace, Repaired
    <3>2. PlaceUntouched' /\ MovedAside' /\ SlotsStand' /\ Harm'
      BY <2>2 DEF Goes, Fails, PlaceUntouched, MovedAside, SlotsStand, PreviousStands, Harm, Rooted, InPlace, Repaired, ResetSafe, RuntimeKept
    <3>3. ResetSafe'
      BY <2>2 DEF Goes, Fails, PlaceUntouched, MovedAside, SlotsStand, PreviousStands, Harm, Rooted, InPlace, Repaired, ResetSafe, RuntimeKept, ResetEnds, VersionKept
    <3> QED
      BY <3>1, <3>2, <3>3
  <2>3. CASE LateFailure("place", "reselect") /\ reset.prior # "none" /\ UNCHANGED trees /\ UNCHANGED <<resetSlots, dshOn, harmed>>
    <3>1. /\ reset' \in ResetRecord /\ reset.step = "place" /\ reset'.step = "reselect"
          /\ reset'.result = "late" /\ reset'.from = reset.from /\ reset'.prior = reset.prior
          /\ reset'.slots = reset.slots /\ cut' = "late"
      <4> HIDE DEF ResetRecord
      <4> QED
        BY <2>3, FailedLate
    <3>2. ResetTypes'
      BY <2>3, <3>1
    <3>3. PlaceUntouched' /\ MovedAside' /\ SlotsStand' /\ Harm'
      BY <2>3, <3>1 DEF PlaceUntouched, MovedAside, SlotsStand, PreviousStands, Harm, Rooted, InPlace, Repaired, ResetSafe, RuntimeKept
    <3>4. ResetSafe'
      BY <2>3, <3>1 DEF PlaceUntouched, MovedAside, SlotsStand, PreviousStands, Harm, Rooted, InPlace, Repaired, ResetSafe, RuntimeKept, ResetEnds, VersionKept
    <3> QED
      BY <3>2, <3>3, <3>4
  <2> QED
    BY <1>5, <2>1, <2>2, <2>3 DEF MoveIntoPlace
<1>6. CASE StartRepaired
  <2>1. ResetTypes'
    BY <1>6 DEF StartRepaired, Goes, Fails, LateFailure, PreviousStands, PlaceUntouched, MovedAside, SlotsStand, Harm, Repaired
  <2>2. PlaceUntouched' /\ MovedAside' /\ SlotsStand' /\ Harm'
    BY <1>6 DEF StartRepaired, Goes, Fails, LateFailure, PreviousStands, PlaceUntouched, MovedAside, SlotsStand, Harm, Rooted, InPlace, Repaired, ResetSafe, RuntimeKept
  <2>3. ResetSafe'
    BY <1>6 DEF StartRepaired, Goes, Fails, LateFailure, PreviousStands, PlaceUntouched, MovedAside, SlotsStand, Harm, Rooted, InPlace, Repaired,
                ResetSafe, RuntimeKept, ResetEnds, PreviousStands, VersionKept
  <2> QED
    BY <2>1, <2>2, <2>3
<1>7. CASE CommitRepaired
  <2>1. ResetTypes'
    BY <1>7 DEF CommitRepaired, Goes, Fails, LateFailure, PreviousStands, PlaceUntouched, MovedAside, SlotsStand, Harm, Repaired
  <2>2. PlaceUntouched' /\ MovedAside' /\ SlotsStand' /\ Harm'
    BY <1>7 DEF CommitRepaired, Goes, Fails, LateFailure, PreviousStands, PlaceUntouched, MovedAside, SlotsStand, Harm, Rooted, InPlace, Repaired, ResetSafe, RuntimeKept
  <2>3. ResetSafe'
    BY <1>7 DEF CommitRepaired, Goes, Fails, LateFailure, PreviousStands, PlaceUntouched, MovedAside, SlotsStand, Harm, Rooted, InPlace, Repaired,
                ResetSafe, RuntimeKept, ResetEnds, PreviousStands, VersionKept
  <2> QED
    BY <2>1, <2>2, <2>3
<1>8. CASE RemoveAside
  <2>1. CASE Goes("remove", "status") /\ UNCHANGED cut /\ aside' = (IF reset.prior = "none" THEN aside ELSE "none") /\ UNCHANGED <<inPlace, resetSlots, dshOn, harmed>>
    <3>1. ResetTypes'
      BY <2>1 DEF Goes, Fails, PlaceUntouched, MovedAside, SlotsStand, PreviousStands, Harm, Rooted, InPlace, Repaired
    <3>2. PlaceUntouched' /\ MovedAside' /\ SlotsStand' /\ Harm'
      BY <2>1 DEF Goes, Fails, PlaceUntouched, MovedAside, SlotsStand, PreviousStands, Harm, Rooted, InPlace, Repaired, ResetSafe, RuntimeKept
    <3>3. ResetSafe'
      BY <2>1 DEF Goes, Fails, PlaceUntouched, MovedAside, SlotsStand, PreviousStands, Harm, Rooted, InPlace, Repaired, ResetSafe, RuntimeKept, ResetEnds, VersionKept
    <3> QED
      BY <3>1, <3>2, <3>3
  <2>2. CASE LateFailure("remove", "undo") /\ reset.prior # "none" /\ aside' \in {aside, "damaged"} /\ UNCHANGED <<inPlace, resetSlots, dshOn, harmed>>
    <3>1. /\ reset' \in ResetRecord /\ reset.step = "remove" /\ reset'.step = "undo"
          /\ reset'.result = "late" /\ reset'.from = reset.from /\ reset'.prior = reset.prior
          /\ reset'.slots = reset.slots /\ cut' = "late"
      <4> HIDE DEF ResetRecord
      <4> QED
        BY <2>2, FailedLate
    <3>2. ResetTypes'
      BY <2>2, <3>1
    <3>3. PlaceUntouched' /\ MovedAside' /\ SlotsStand' /\ Harm'
      BY <2>2, <3>1 DEF PlaceUntouched, MovedAside, SlotsStand, PreviousStands, Harm, Rooted, InPlace, Repaired, ResetSafe, RuntimeKept
    <3>4. ResetSafe'
      BY <2>2, <3>1 DEF PlaceUntouched, MovedAside, SlotsStand, PreviousStands, Harm, Rooted, InPlace, Repaired, ResetSafe, RuntimeKept, ResetEnds, VersionKept
    <3> QED
      BY <3>2, <3>3, <3>4
  <2> QED
    BY <1>8, <2>1, <2>2 DEF RemoveAside
<1>9. CASE ResetDone
  <2>0. CASE LateFailure("status", "undo") /\ UNCHANGED <<trees, resetSlots, dshOn, harmed>>
    <3>1. /\ reset' \in ResetRecord /\ reset.step = "status" /\ reset'.step = "undo"
          /\ reset'.result = "late" /\ reset'.from = reset.from /\ reset'.prior = reset.prior
          /\ reset'.slots = reset.slots /\ cut' = "late"
      <4> HIDE DEF ResetRecord
      <4> QED
        BY <2>0, FailedLate
    <3>2. ResetTypes'
      BY <2>0, <3>1
    <3>3. PlaceUntouched' /\ MovedAside' /\ SlotsStand' /\ Harm'
      BY <2>0, <3>1 DEF PlaceUntouched, MovedAside, SlotsStand, PreviousStands, Harm, Rooted, InPlace, Repaired, ResetSafe, RuntimeKept
    <3>4. ResetSafe'
      BY <2>0, <3>1 DEF PlaceUntouched, MovedAside, SlotsStand, PreviousStands, Harm, Rooted, InPlace, Repaired, ResetSafe, RuntimeKept, ResetEnds, VersionKept
    <3> QED
      BY <3>2, <3>3, <3>4
  <2>10. CASE /\ Finishes("status", "done") /\ harmed' = FALSE /\ cut' = "none"
            /\ UNCHANGED <<trees, resetSlots, dshOn>>
    <3>1. /\ reset.step = "status" /\ reset' = [reset EXCEPT !.step = "idle", !.result = "done"]
          /\ harmed' = FALSE /\ cut' = "none" /\ UNCHANGED <<trees, resetSlots, dshOn>>
      BY <2>10 DEF Finishes
    <3>2. /\ reset'.step = "idle" /\ reset'.result = "done" /\ reset'.prior = reset.prior
          /\ reset'.slots = reset.slots /\ reset'.from = reset.from
      BY <3>1
    <3>3. /\ inPlace = "whole" /\ resetSlots.current = dshOn /\ dshOn = Repaired
          /\ resetSlots.previous = reset.slots.previous \/ reset.slots.previous = "repaired"
      BY <3>1 DEF MovedAside, SlotsStand, PreviousStands
    <3>4. Repaired \in {"repaired", "managed"}
      BY DEF Repaired
    <3>5. ResetTypes'
      <4> USE <3>1 DEF ResetTypes, trees
      <4> HIDE DEF ResetRecord, Slots, Tree
      <4>1. reset' \in ResetRecord
        BY ResetEnded
      <4> QED
        BY <4>1
    <3>6. PlaceUntouched' /\ MovedAside' /\ SlotsStand'
      BY <3>2 DEF PlaceUntouched, MovedAside, SlotsStand
    <3>7. Harm'
      BY <3>1, <3>2, <3>3, <3>4 DEF Harm
    <3>8. ResetSafe'
      BY <3>1, <3>2, <3>3, <3>4 DEF ResetSafe, RuntimeKept, ResetEnds, PreviousStands, VersionKept, Repaired
    <3> QED
      BY <3>5, <3>6, <3>7, <3>8
  <2> QED
    BY <1>9, <2>0, <2>10 DEF ResetDone
<1>10. CASE RemoveRepaired
  <2>1. CASE Goes("undo", IF reset.prior = "none" THEN "reselect" ELSE "putback") /\ inPlace' = "none" /\ UNCHANGED cut /\ UNCHANGED <<aside, resetSlots, dshOn, harmed>>
    <3>1. ResetTypes'
      BY <2>1 DEF Goes, Fails, PlaceUntouched, MovedAside, SlotsStand, PreviousStands, Harm, Rooted, InPlace, Repaired
    <3>2. PlaceUntouched' /\ MovedAside' /\ SlotsStand' /\ Harm'
      BY <2>1 DEF Goes, Fails, PlaceUntouched, MovedAside, SlotsStand, PreviousStands, Harm, Rooted, InPlace, Repaired, ResetSafe, RuntimeKept
    <3>3. ResetSafe'
      BY <2>1 DEF Goes, Fails, PlaceUntouched, MovedAside, SlotsStand, PreviousStands, Harm, Rooted, InPlace, Repaired, ResetSafe, RuntimeKept, ResetEnds, VersionKept
    <3> QED
      BY <3>1, <3>2, <3>3
  <2>2. CASE LateFailure("undo", "reselect") /\ inPlace' \in {inPlace, "damaged"} /\ UNCHANGED <<aside, resetSlots, dshOn, harmed>>
    <3>1. /\ reset' \in ResetRecord /\ reset.step = "undo" /\ reset'.step = "reselect"
          /\ reset'.result = "late" /\ reset'.from = reset.from /\ reset'.prior = reset.prior
          /\ reset'.slots = reset.slots /\ cut' = "late"
      <4> HIDE DEF ResetRecord
      <4> QED
        BY <2>2, FailedLate
    <3>2. ResetTypes'
      BY <2>2, <3>1
    <3>3. PlaceUntouched' /\ MovedAside' /\ SlotsStand' /\ Harm'
      BY <2>2, <3>1 DEF PlaceUntouched, MovedAside, SlotsStand, PreviousStands, Harm, Rooted, InPlace, Repaired, ResetSafe, RuntimeKept
    <3>4. ResetSafe'
      BY <2>2, <3>1 DEF PlaceUntouched, MovedAside, SlotsStand, PreviousStands, Harm, Rooted, InPlace, Repaired, ResetSafe, RuntimeKept, ResetEnds, VersionKept
    <3> QED
      BY <3>2, <3>3, <3>4
  <2> QED
    BY <1>10, <2>1, <2>2 DEF RemoveRepaired
<1>11. CASE PutBack
  <2>1. CASE Goes("putback", "reselect") /\ inPlace' = aside /\ aside' = "none" /\ UNCHANGED cut /\ UNCHANGED <<resetSlots, dshOn, harmed>>
    <3>1. ResetTypes'
      BY <2>1 DEF Goes, Fails, PlaceUntouched, MovedAside, SlotsStand, PreviousStands, Harm, Rooted, InPlace, Repaired
    <3>2. PlaceUntouched' /\ MovedAside' /\ SlotsStand' /\ Harm'
      BY <2>1 DEF Goes, Fails, PlaceUntouched, MovedAside, SlotsStand, PreviousStands, Harm, Rooted, InPlace, Repaired, ResetSafe, RuntimeKept
    <3>3. ResetSafe'
      BY <2>1 DEF Goes, Fails, PlaceUntouched, MovedAside, SlotsStand, PreviousStands, Harm, Rooted, InPlace, Repaired, ResetSafe, RuntimeKept, ResetEnds, VersionKept
    <3> QED
      BY <3>1, <3>2, <3>3
  <2>2. CASE LateFailure("putback", "reselect") /\ UNCHANGED trees /\ UNCHANGED <<resetSlots, dshOn, harmed>>
    <3>1. /\ reset' \in ResetRecord /\ reset.step = "putback" /\ reset'.step = "reselect"
          /\ reset'.result = "late" /\ reset'.from = reset.from /\ reset'.prior = reset.prior
          /\ reset'.slots = reset.slots /\ cut' = "late"
      <4> HIDE DEF ResetRecord
      <4> QED
        BY <2>2, FailedLate
    <3>2. ResetTypes'
      BY <2>2, <3>1
    <3>3. PlaceUntouched' /\ MovedAside' /\ SlotsStand' /\ Harm'
      BY <2>2, <3>1 DEF PlaceUntouched, MovedAside, SlotsStand, PreviousStands, Harm, Rooted, InPlace, Repaired, ResetSafe, RuntimeKept
    <3>4. ResetSafe'
      BY <2>2, <3>1 DEF PlaceUntouched, MovedAside, SlotsStand, PreviousStands, Harm, Rooted, InPlace, Repaired, ResetSafe, RuntimeKept, ResetEnds, VersionKept
    <3> QED
      BY <3>2, <3>3, <3>4
  <2> QED
    BY <1>11, <2>1, <2>2 DEF PutBack
<1>12. CASE RestartPrior
  <2> DEFINE Result == IF reset.result = "late" THEN "late" ELSE "failed"
  <2>1. /\ reset.step = "reselect" /\ reset' = [reset EXCEPT !.step = "idle", !.result = Result]
        /\ dshOn' \in DshRecords \cup {"down"} /\ dshOn' # "lost"
        /\ UNCHANGED <<trees, resetSlots, harmed, cut>>
    BY <1>12 DEF RestartPrior, Finishes
  <2>2. /\ reset'.step = "idle" /\ reset'.result = Result /\ reset'.prior = reset.prior
        /\ reset'.slots = reset.slots /\ reset'.from = reset.from
    BY <2>1
  <2>3. ResetTypes'
    <3> USE <2>1 DEF ResetTypes, trees
    <3> HIDE DEF ResetRecord, Slots, Tree
    <3>1. reset' \in ResetRecord
      BY ResetEnded
    <3> QED
      BY <3>1
  <2>4. PlaceUntouched' /\ MovedAside' /\ SlotsStand'
    BY <2>2 DEF PlaceUntouched, MovedAside, SlotsStand
  <2>5. Harm'
    BY <2>1, <2>2 DEF Harm
  <2>6. ResetSafe'
    BY <2>1, <2>2 DEF PlaceUntouched, SlotsStand, PreviousStands, Rooted, InPlace, ResetSafe, RuntimeKept, ResetEnds, VersionKept
  <2> QED
    BY <2>3, <2>4, <2>5, <2>6
<1>13. CASE RuntimeDamaged
  <2>1. ResetTypes'
    BY <1>13 DEF RuntimeDamaged, NoReset, PlaceUntouched, MovedAside, SlotsStand, PreviousStands, Harm, Repaired
  <2>2. PlaceUntouched' /\ MovedAside' /\ SlotsStand' /\ Harm'
    BY <1>13 DEF RuntimeDamaged, NoReset, PlaceUntouched, MovedAside, SlotsStand, PreviousStands, Harm, Rooted, InPlace, Repaired, ResetSafe, RuntimeKept
  <2>3. ResetSafe'
    BY <1>13 DEF RuntimeDamaged, NoReset, PlaceUntouched, MovedAside, SlotsStand, PreviousStands, Harm, Rooted, InPlace, Repaired,
                ResetSafe, RuntimeKept, ResetEnds, PreviousStands, VersionKept
  <2> QED
    BY <2>1, <2>2, <2>3
<1>14. CASE ContainerLost
  <2>1. ResetTypes'
    BY <1>14 DEF ContainerLost, NoReset, PlaceUntouched, MovedAside, SlotsStand, PreviousStands, Harm, Repaired
  <2>2. PlaceUntouched' /\ MovedAside' /\ SlotsStand' /\ Harm'
    BY <1>14 DEF ContainerLost, NoReset, PlaceUntouched, MovedAside, SlotsStand, PreviousStands, Harm, Rooted, InPlace, Repaired, ResetSafe, RuntimeKept
  <2>3. ResetSafe'
    BY <1>14 DEF ContainerLost, NoReset, PlaceUntouched, MovedAside, SlotsStand, PreviousStands, Harm, Rooted, InPlace, Repaired,
                ResetSafe, RuntimeKept, ResetEnds, PreviousStands, VersionKept
  <2> QED
    BY <2>1, <2>2, <2>3
<1>15. CASE StartUp
  <2>1. ResetTypes'
    BY <1>15 DEF StartUp, Harm
  <2>2. PlaceUntouched' /\ MovedAside' /\ SlotsStand' /\ Harm'
    BY <1>15 DEF StartUp, PlaceUntouched, MovedAside, SlotsStand, PreviousStands, Harm, Rooted, InPlace, Repaired, ResetSafe, RuntimeKept
  <2>3. ResetEnds'
    BY <1>15 DEF StartUp, Harm, ResetEnds
  <2>4. Rooted => inPlace # "none" \/ cut # "none"
    BY <1>15 DEF StartUp, Harm, ResetSafe, RuntimeKept
  <2>5. ResetSafe'
    <3>1. CASE resetSlots.current = "repaired"
      BY <1>15, <2>3, <2>4, <3>1 DEF StartUp, Rooted, InPlace, ResetSafe, RuntimeKept, VersionKept
    <3>2. CASE resetSlots.current = "managed" /\ inPlace # "whole"
      <4>1. harmed = TRUE \/ cut # "none"
        BY <2>4, <3>2 DEF Rooted, InPlace, Harm
      <4>2. RuntimeKept'
        BY <1>15, <2>4, <3>2 DEF StartUp, RuntimeKept, Rooted, InPlace
      <4> QED
        BY <1>15, <2>3, <3>2, <4>1, <4>2 DEF StartUp, ResetSafe, VersionKept
    <3>3. CASE resetSlots.current # "repaired" /\ ~(resetSlots.current = "managed" /\ inPlace # "whole")
      BY <1>15, <2>3, <2>4, <3>3 DEF StartUp, Rooted, ResetSafe, RuntimeKept, VersionKept
    <3> QED
      BY <3>1, <3>2, <3>3
  <2> QED
    BY <2>1, <2>2, <2>5
<1>16. CASE Collect
  <2>1. ResetTypes'
    BY <1>16 DEF Collect, NoReset, PlaceUntouched, MovedAside, SlotsStand, PreviousStands, Harm, Repaired
  <2>2. PlaceUntouched' /\ MovedAside' /\ SlotsStand' /\ Harm'
    BY <1>16 DEF Collect, NoReset, PlaceUntouched, MovedAside, SlotsStand, PreviousStands, Harm, Rooted, InPlace, Repaired, ResetSafe, RuntimeKept
  <2>3. ResetSafe'
    BY <1>16 DEF Collect, NoReset, PlaceUntouched, MovedAside, SlotsStand, PreviousStands, Harm, Rooted, InPlace, Repaired,
                ResetSafe, RuntimeKept, ResetEnds, PreviousStands, VersionKept
  <2> QED
    BY <2>1, <2>2, <2>3
<1>17. CASE UNCHANGED resetVars
  BY <1>17 DEF resetVars, PlaceUntouched, MovedAside, SlotsStand, PreviousStands, Harm, Rooted, InPlace, Repaired,
              ResetSafe, RuntimeKept, ResetEnds, PreviousStands, VersionKept
<1> QED
  BY <1>1, <1>2, <1>3, <1>4, <1>5, <1>6, <1>7, <1>8, <1>9, <1>10, <1>11, <1>12, <1>13, <1>14, <1>15, <1>16, <1>17 DEF ResetNext

THEOREM ResetsSafe == ASSUME PreviousAtFirst PROVE ResetSpec => []ResetSafe
<1>1. ResetKnown => ResetSafe
  BY DEF ResetKnown
<1> QED
  BY <1>1, ResetInitial, ResetStep, PTL DEF ResetSpec
=============================================================================
