---------------------- MODULE DeploymentManagerProofs ----------------------
(***************************************************************************)
(* Theorems about DeploymentManager, for every set of Records, images and  *)
(* receipts.                                                               *)
(***************************************************************************)
EXTENDS DeploymentManager, ConsoleStatus, TLAPS

(* What the types of the other variables rest on: a platform without a      *)
(* current Deployment has no previous one, a plan that is carried out has a *)
(* target, a journal that is being reverted exists, and an operation that   *)
(* wrote a journal has a Deployment to go back to.                          *)
BeforePlan == {"down", "recover", "revert", "reverting", "recovered", "plan", "unresolved"}
Fallback == {"accept-previous", "receipts-previous", "journal-previous",
             "commit-previous", "clear-previous"}
Unjournaled == {"prepare", "journal"}

SlotsFilled == slots.current = NoRecord => slots.previous = NoRecord
PlanFilled == /\ plan.kind # "none" => plan.target # NoRecord
              /\ plan.kind = "previous" => plan.replaces # NoRecord
              /\ boot = "accept" => plan.kind = "image"
              /\ boot \in Fallback => plan.kind = "previous"
RevertsJournal == boot \in {"revert", "reverting"} => activation # NoJournal
IdleStartup == boot \in BeforePlan => op.kind = "idle"
OpFilled == /\ op.step = "journal" => slots.current # NoRecord
            /\ op.step \in OpStep \ Unjournaled => op.from # NoRecord

TypeInv == /\ TypeOK
           /\ SlotsFilled
           /\ PlanFilled
           /\ RevertsJournal
           /\ IdleStartup
           /\ OpFilled
-----------------------------------------------------------------------------
(* The operators the actions are built from. *)

(* Going to the next step changes the step of an operation only. *)
LEMMA GotoStep ==
  ASSUME NEW step \in OpStep, op \in Op, op.step \in OpStep, Goto(step)
  PROVE  /\ op' \in Op
         /\ op'.kind = op.kind /\ op'.from = op.from /\ op'.to = op.to
         /\ op'.step = step
         /\ op.kind # "idle"
BY DEF Goto, Op, OpStep, Result

(* An operation that is over has no step, and one with a step is not over. *)
LEMMA IdleOp ==
  ASSUME NEW result \in Result
  PROVE  /\ Idle(result) \in Op
         /\ Idle(result).kind = "idle"
         /\ Idle(result).step = result
         /\ result \notin OpStep
BY DEF Idle, Op, Result, OpStep

(* Only an operation that is not over has a step, and then a target. *)
LEMMA OpHasTarget ==
  ASSUME op \in Op
  PROVE  /\ op.step \in OpStep <=> op.kind # "idle"
         /\ op.step \in Result <=> op.kind = "idle"
         /\ op.step \in OpStep => op.to \in Record /\ op.from \in Maybe(Record)
         /\ op.kind \in {"idle", "activate", "rollback", "stage", "commit"}
BY DEF Op, OpStep, Result

(* commit() names its argument and leaves the plan as it is, but stale. *)
LEMMA CommittedSlots ==
  ASSUME NEW current \in Record, NEW previous \in Maybe(Record), plan \in Plan,
         CommitSlots(current, previous)
  PROVE  /\ slots' \in [current : Maybe(Record), previous : Maybe(Record)]
         /\ slots'.current = current
         /\ slots'.previous = IF previous = current THEN NoRecord ELSE previous
         /\ plan' \in Plan
         /\ plan'.kind = plan.kind /\ plan'.target = plan.target
         /\ plan'.replaces = plan.replaces
         /\ ~plan'.fresh
BY DEF CommitSlots, Maybe, Plan

(* A new plan. *)
LEMMA NewPlan ==
  ASSUME NEW kind \in {"image", "previous"}, NEW target \in Record,
         NEW replaces \in Maybe(Record), NEW refresh \in BOOLEAN,
         PlanFor(kind, target, replaces, refresh)
  PROVE  /\ plan' \in Plan
         /\ plan'.kind = kind /\ plan'.target = target /\ plan'.replaces = replaces
         /\ plan'.refresh = refresh
BY DEF PlanFor, Plan, Maybe

(* The plan of a fallback. *)
LEMMA PreviousPlan ==
  ASSUME slots \in [current : Maybe(Record), previous : Maybe(Record)],
         slots.current # NoRecord, slots.previous # NoRecord, PlanPrevious
  PROVE  /\ plan' \in Plan
         /\ plan'.kind = "previous"
         /\ plan'.target = slots.previous /\ plan'.replaces = slots.current
         /\ view' \in Maybe(Record)
<1>1. slots.previous \in Record /\ slots.current \in Maybe(Record)
  BY DEF Maybe
<1>2. PlanFor("previous", slots.previous, slots.current, FALSE) /\ view' = slots.previous
  BY DEF PlanPrevious
<1> QED
  BY <1>1, <1>2, NewPlan DEF Maybe

(* Stage-0's own steps keep the receipts well typed. *)
LEMMA ReceiptTypes ==
  ASSUME ReceiptTypeOK
  PROVE  /\ \A S : BeginActivation(S) => ReceiptTypeOK'
         /\ \A t \in Token : ImportReceipt(t) \/ RevokeReceipt(t) => ReceiptTypeOK'
         /\ \A t \in Token : WriteReceipt(t) => ReceiptTypeOK'
         /\ AbandonActivation => ReceiptTypeOK'
         /\ UNCHANGED receiptVars => ReceiptTypeOK'
<1>1. \A S : AfterActivation(S) \in [Token -> Status]
  BY DEF ReceiptTypeOK, AfterActivation, Status
<1>2. \A S : BeginActivation(S) => ReceiptTypeOK'
  BY <1>1 DEF ReceiptTypeOK, BeginActivation
<1>3. \A t \in Token : ImportReceipt(t) \/ RevokeReceipt(t) => ReceiptTypeOK'
  BY DEF ReceiptTypeOK, ImportReceipt, RevokeReceipt, Status
<1>4. \A t \in Token : WriteReceipt(t) => ReceiptTypeOK'
  BY DEF ReceiptTypeOK, WriteReceipt
<1>5. (AbandonActivation => ReceiptTypeOK') /\ (UNCHANGED receiptVars => ReceiptTypeOK')
  BY DEF ReceiptTypeOK, AbandonActivation, receiptVars
<1> QED
  BY <1>2, <1>3, <1>4, <1>5

-----------------------------------------------------------------------------
(* Type correctness. *)

LEMMA TypeInit ==
  Init => TypeInv
<1> SUFFICES ASSUME Init
             PROVE  TypeInv
  OBVIOUS
<1>1. ReceiptTypeOK
  BY DEF Init, ReceiptInit, ReceiptTypeOK, Status
<1>2. op \in Op /\ op.kind = "idle" /\ op.step \notin OpStep
  BY IdleOp DEF Init, Result
<1>3. TypeOK
  <2>1. plan \in Plan /\ slots \in [current : Maybe(Record), previous : Maybe(Record)]
    BY DEF Init, Maybe, Plan, NoPlan
  <2>2. crashes \in 0..MaxCrashes /\ faults \in 0..MaxFaults
    BY BoundAssumption DEF Init
  <2>3. activation \in Journal \union {NoJournal} /\ boot \in BootStep
    BY DEF Init, BootStep
  <2>4. /\ image \in Image /\ view \in Maybe(Record) /\ running \in Maybe(Record)
        /\ recovery \in BOOLEAN /\ torn \in BOOLEAN
    BY DEF Init, Maybe
  <2> QED
    BY <1>1, <1>2, <2>1, <2>2, <2>3, <2>4 DEF TypeOK
<1>4. SlotsFilled /\ RevertsJournal /\ IdleStartup /\ OpFilled
  BY <1>2 DEF Init, SlotsFilled, RevertsJournal, IdleStartup, OpFilled, OpStep
<1>5. PlanFilled
  BY DEF Init, PlanFilled, NoPlan, Fallback
<1> QED
  BY <1>3, <1>4, <1>5 DEF TypeInv

LEMMA TypeStep ==
  TypeInv /\ [Next]_vars => TypeInv'
<1> SUFFICES ASSUME TypeInv, [Next]_vars
             PROVE  TypeInv'
  OBVIOUS
<1> USE RecordAssumption, BoundAssumption, ReceiptTypes
        DEF TypeInv, TypeOK, SlotsFilled, PlanFilled, RevertsJournal, IdleStartup, OpFilled,
            BeforePlan, Fallback, Unjournaled, Maybe, BootStep,
            diskVars, dshVars, boundVars, receiptVars
<1>1. CASE UNCHANGED vars
  BY <1>1 DEF vars
<1>2. CASE StartBootstrap
  BY <1>2 DEF StartBootstrap, Plan, NoPlan
<1>3. CASE RecoverNothing
  BY <1>3 DEF RecoverNothing
<1>4. CASE RecoverCommit
  BY <1>4, CommittedSlots DEF RecoverCommit, Journal, NoJournal, Phase
<1>5. CASE RecoverUndecided
  BY <1>5 DEF RecoverUndecided
<1>6. CASE RecoverRevert
  BY <1>6 DEF RecoverRevert
<1>7. CASE RecoverReverted
  BY <1>7, CommittedSlots DEF RecoverReverted, Journal, NoJournal, Phase
<1>8. CASE RecoverFails
  BY <1>8 DEF RecoverFails
<1>9. CASE RecoverClear
  BY <1>9 DEF RecoverClear, Journal, NoJournal, Phase
<1>10. CASE PlanInitialize
  <2>1. /\ image \in Record /\ image # NoRecord /\ NoRecord \in Maybe(Record)
        /\ PlanFor("image", image, NoRecord, FALSE)
    BY <1>10 DEF PlanInitialize
  <2>2. plan' \in Plan /\ plan'.kind = "image" /\ plan'.target = image
    BY <2>1, NewPlan
  <2> QED
    BY <1>10, <2>1, <2>2 DEF PlanInitialize
<1>11. CASE PlanImage
  <2> DEFINE refresh == DevelopmentRefresh(slots.current)
             replaces == IF refresh THEN NoRecord ELSE slots.current
  <2>1. refresh \in BOOLEAN
    BY DEF DevelopmentRefresh
  <2>2. replaces \in Maybe(Record)
    OBVIOUS
  <2>3. PlanFor("image", image, replaces, refresh)
    BY <1>11 DEF PlanImage
  <2> HIDE DEF refresh, replaces
  <2>4. plan' \in Plan /\ plan'.kind = "image" /\ plan'.target # NoRecord
    BY <2>1, <2>2, <2>3, NewPlan
  <2> QED
    BY <1>11, <2>4 DEF PlanImage
<1>12. CASE PlanCurrent
  BY <1>12, NewPlan DEF PlanCurrent
<1>13. CASE PlanUnresolved
  BY <1>13, PreviousPlan DEF PlanUnresolved, PreviousRecoverable
<1>14. CASE PlanConflict
  BY <1>14 DEF PlanConflict
<1>14a. CASE NothingSelected
  BY <1>14a DEF NothingSelected
<1>14b. CASE UnresolvedEnds
  BY <1>14b, IdleOp DEF UnresolvedEnds, BootstrapEnds, Result
<1>15. CASE BootStarts
  BY <1>15 DEF BootStarts, Launchable, Plan
<1>16. CASE BootRejectsImage
  BY <1>16 DEF BootRejectsImage, Plan
<1>17. CASE BootTriesPrevious
  <2>1. slots.current # NoRecord /\ slots.previous # NoRecord
    BY <1>17 DEF BootTriesPrevious, PreviousRecoverable
  <2> QED
    BY <1>17, <2>1, PreviousPlan DEF BootTriesPrevious
<1>18. CASE BootGivesUp
  BY <1>18 DEF BootGivesUp
<1>19. CASE FallbackStarts
  BY <1>19 DEF FallbackStarts, Launchable
<1>20. CASE AcceptImage
  BY <1>20, CommittedSlots DEF AcceptImage, Plan
<1>21. CASE AcceptImageStale
  BY <1>21, IdleOp DEF AcceptImageStale, BootstrapEnds, Result
<1>22. CASE AcceptPrevious
  BY <1>22 DEF AcceptPrevious
<1>23. CASE AcceptPreviousRefused
  BY <1>23 DEF AcceptPreviousRefused
<1>24. CASE AcceptPreviousActivated
  BY <1>24 DEF AcceptPreviousActivated
<1>25. CASE AcceptPreviousJournal
  BY <1>25 DEF AcceptPreviousJournal, WriteActivation, Plan, Journal, NoJournal, Phase
<1>26. CASE AcceptPreviousCommit
  BY <1>26, CommittedSlots DEF AcceptPreviousCommit, Plan
<1>27. CASE AcceptPreviousClear
  BY <1>27 DEF AcceptPreviousClear, Journal, NoJournal, Phase
<1>28. CASE Prepare
  BY <1>28, GotoStep, OpHasTarget, CommittedSlots DEF Prepare, OnlyOp, OpStep
<1>29. CASE PrepareFails
  BY <1>29, IdleOp DEF PrepareFails, OnlyOp, Result
<1>30. CASE JournalPrepared
  <2>1. /\ op.kind # "idle" /\ slots.current \in Record
        /\ slots.current # NoRecord /\ Destination \in Record
    BY <1>30, OpHasTarget DEF JournalPrepared, Journaled, Destination, OpStep
  <2>2. /\ op' \in Op /\ op'.step = "switch" /\ op'.kind = op.kind
        /\ op'.from = slots.current
    BY <1>30, <2>1 DEF JournalPrepared, Op, OpStep
  <2>3. activation' \in Journal /\ activation'.from = slots.current
    BY <1>30, <2>1 DEF JournalPrepared, WriteActivation, Journal, Phase
  <2> QED
    BY <1>30, <2>1, <2>2, <2>3 DEF JournalPrepared, OnlyOp, Journal, NoJournal, Phase
<1>31. CASE NotJournaled
  BY <1>31, IdleOp DEF NotJournaled, OnlyOp, Result
<1>32. CASE SwitchHealthy
  <2>1. view' \in Maybe(Record) /\ running' \in Maybe(Record) /\ recovery' \in BOOLEAN
    BY <1>32, OpHasTarget DEF SwitchHealthy, OpStep
  <2> QED
    BY <1>32, <2>1, GotoStep DEF SwitchHealthy, OnlyOp, OpStep
<1>33. CASE SwitchFails
  BY <1>33, GotoStep, OpHasTarget DEF SwitchFails, OnlyOp, OpStep
<1>34. CASE JournalHealthy
  BY <1>34, GotoStep, OpHasTarget DEF JournalHealthy, WriteActivation, OnlyOp, OpStep,
     Journal, NoJournal, Phase
<1>35. CASE JournalProbation
  BY <1>35, IdleOp, OpHasTarget DEF JournalProbation, WriteActivation, OnlyOp, OpStep,
     Result, Journal, NoJournal, Phase
<1>36. CASE ActivateReceipts
  BY <1>36, GotoStep DEF ActivateReceipts, OnlyOp, OpStep
<1>37. CASE ReceiptsRefused
  BY <1>37, GotoStep, IdleOp DEF ReceiptsRefused, OnlyOp, OpStep, Result
<1>38. CASE JournalReceiptsActive
  BY <1>38, GotoStep, OpHasTarget DEF JournalReceiptsActive, WriteActivation, OnlyOp,
     OpStep, Journal, NoJournal, Phase
<1>39. CASE Commit
  BY <1>39, GotoStep, OpHasTarget, CommittedSlots DEF Commit, OnlyOp, OpStep
<1>40. CASE Clear
  BY <1>40, GotoStep DEF Clear, OnlyOp, OpStep, Journal, NoJournal, Phase
<1>41. CASE Publish
  BY <1>41, IdleOp DEF Publish, OnlyOp, Result
<1>42. CASE UndoReceipts
  BY <1>42, GotoStep DEF UndoReceipts, OnlyOp, OpStep
<1>43. CASE UndoReceiptsEnd
  BY <1>43, GotoStep DEF UndoReceiptsEnd, OnlyOp, OpStep
<1>44. CASE Undo
  <2>1. view' \in Maybe(Record) /\ running' \in Maybe(Record)
    BY <1>44, OpHasTarget DEF Undo, OpStep
  <2>2. recovery' \in BOOLEAN
    BY <1>44 DEF Undo
  <2> QED
    BY <1>44, <2>1, <2>2, GotoStep DEF Undo, OnlyOp, OpStep
<1>45. CASE UndoClear
  <2>1. op' \in Op /\ op'.kind = "idle" /\ op'.step \notin OpStep
    BY <1>45, IdleOp DEF UndoClear, Result
  <2>2. op.kind # "idle"
    BY <1>45, OpHasTarget DEF UndoClear, OpStep
  <2> QED
    BY <1>45, <2>1, <2>2 DEF UndoClear, OnlyOp, OpStep
<1>46. CASE \E c \in Installable : RequestActivate(c) \/ RequestStage(c)
  BY <1>46 DEF RequestActivate, RequestStage, Request, Accepting, OnlyOp, Installable, Op,
     OpStep
<1>47. CASE \E c \in Installable : RequestCommit(c)
  BY <1>47, IdleOp DEF RequestCommit, Accepting, OnlyOp, Installable, Op, OpStep, Result,
     Journal, NoJournal, Phase
<1>48. CASE \E c \in Installable : ImportCandidate(c)
  BY <1>48 DEF ImportCandidate, Installable
<1>49. CASE RequestRollback
  BY <1>49 DEF RequestRollback, Request, Accepting, OnlyOp, Op, OpStep
<1>50. CASE CancelCandidate
  BY <1>50 DEF CancelCandidate, OnlyOp, Accepting, Journal, NoJournal, Phase
<1>51. CASE SuspendDsh
  BY <1>51 DEF SuspendDsh, OnlyOp
<1>52. CASE ResumeDsh
  <2>1. running' \in Maybe(Record) /\ recovery' \in BOOLEAN
    BY <1>52 DEF ResumeDsh
  <2> QED
    BY <1>52, <2>1 DEF ResumeDsh, OnlyOp
<1>53. CASE \E t \in Token : Stage0Writes(t) \/ RevokeStaged(t)
  BY <1>53 DEF Stage0Writes, RevokeStaged
<1>54. CASE WriteFails
  BY <1>54, GotoStep, IdleOp DEF WriteFails, OpStep, Result
<1>55. CASE BootstrapRestarts
  BY <1>55, IdleOp DEF BootstrapRestarts, BootstrapEnds, Result
<1>56. CASE ContainerDies
  BY <1>56, IdleOp DEF ContainerDies, BootstrapEnds, Result
<1> QED
  BY <1>1, <1>2, <1>3, <1>4, <1>5, <1>6, <1>7, <1>8, <1>9, <1>10, <1>11, <1>12, <1>13,
     <1>14, <1>14a, <1>14b, <1>15, <1>16, <1>17, <1>18, <1>19, <1>20, <1>21, <1>22, <1>23, <1>24, <1>25,
     <1>26, <1>27, <1>28, <1>29, <1>30, <1>31, <1>32, <1>33, <1>34, <1>35, <1>36, <1>37,
     <1>38, <1>39, <1>40, <1>41, <1>42, <1>43, <1>44, <1>45, <1>46, <1>47, <1>48, <1>49,
     <1>50, <1>51, <1>52, <1>53, <1>54, <1>55, <1>56 DEF Next, Startup, Recover,
     Operation, Updater

(* Whatever dies, fails or interleaves, every file and every variable of    *)
(* Bootstrap holds what its reader expects: slots, journal and operation    *)
(* name Records where the code dereferences them.                           *)
THEOREM TypeCorrect ==
  Spec => []TypeOK
<1>1. TypeInv => TypeOK
  BY DEF TypeInv
<1> QED
  BY <1>1, TypeInit, TypeStep, PTL DEF Spec

-----------------------------------------------------------------------------
(* The safety invariant.  It holds when the Updater asks for nothing before *)
(* the start-up is complete and no durable write fails, as long as no       *)
(* Bootstrap that may be relaunched before Stage-0 is done dies while the   *)
(* receipts it goes back to are being written (Awaited).  That takes two    *)
(* deaths, and a relaunch faster than Stage-0: the next Bootstrap may read  *)
(* the candidate's receipts as active and commit it while they are being    *)
(* taken away.                                                              *)
Composed == ~EarlyRequests /\ MaxFaults = 0
Orderly == Composed /\ (SlowStage0 => MaxCrashes <= 1)

RevertEnds == SlowStage0 /\ boot = "reverting" /\ boot' = "down" => Quiet'
Awaited == [][RevertEnds]_vars

Tokens(r) == ReceiptTokens[r]
TokensActive(r) == \A t \in Tokens(r) : receipts[t] = "active" /\ goal[t] = "active"
TokensHeld(r) ==
  \A t \in Tokens(r) :
    receipts[t] \in {"active", "previous"} /\ goal[t] \in {"active", "previous"}
TokensComing(r) == \A t \in Tokens(r) : goal[t] = "active"

(* Who may be waiting for Stage-0, and what Stage-0 is writing then. *)
StartupAlone == op.kind # "idle" => BootComplete
WhoWrites == \/ Quiet
             \/ boot \in {"down", "reverting", "receipts-previous"}
             \/ op.step = "activating"
             \/ /\ SlowStage0 /\ op.kind = "idle"
                /\ boot \notin {"journal-previous", "commit-previous", "clear-previous"}

(* What outlives its Bootstrap goes the way of the journal it leaves.       *)
OneWay == (activation # NoJournal /\ ~Quiet) =>
            \/ boot = "reverting"
            \/ boot = "down" /\ ~SlowStage0
            \/ TokensComing(activation.to)

WhatIsWritten ==
  /\ op.step = "activating" => TokensComing(op.to)
  /\ boot = "reverting" => TokensComing(activation.from)
  /\ boot = "receipts-previous" => TokensComing(plan.target)
  /\ boot = "journal-previous" => TokensActive(plan.target)

(* What the journal says at each step of the start-up and of an operation. *)
JournalIs(phases, from, to) ==
  activation.phase \in phases /\ activation.from = from /\ activation.to = to

StartupJournal ==
  /\ boot \in {"plan", "unresolved", "start", "fallback", "accept", "accept-previous",
               "receipts-previous", "journal-previous"} => activation = NoJournal
  /\ boot \in {"commit-previous", "clear-previous"} =>
       JournalIs({"receipts-active"}, plan.replaces, plan.target)
  /\ boot \in {"revert", "reverting"} => activation.phase # "receipts-active"

OperationJournal ==
  /\ BootComplete /\ op.step \in Result \union {"prepare", "journal", "publish"} =>
       activation = NoJournal \/ activation.phase = "probation"
  /\ op.step \in {"switch", "healthy"} => JournalIs({"prepared"}, op.from, op.to)
  /\ op.step \in {"receipts", "activating"} =>
       JournalIs(IF op.kind = "commit" THEN {"probation"} ELSE {"healthy"}, op.from, op.to)
  /\ op.kind = "commit" =>
       op.step \in {"receipts", "activating", "commit", "clear", "publish"}
  /\ op.step \in {"undo", "undo-clear"} =>
       JournalIs({"prepared", "healthy"}, op.from, op.to)
  /\ op.step \in {"commit", "clear"} => JournalIs({"receipts-active"}, op.from, op.to)
  /\ op.step \notin {"undo-receipts", "undo-activating"}

(* The slots leave the Deployment a journal comes from when its receipts    *)
(* are active and Stage-0 is at rest.                                       *)
SlotsInJournal ==
  activation # NoJournal =>
    /\ slots.current = activation.from \/
         /\ slots.current = activation.to
         /\ activation.phase \in {"healthy", "receipts-active"}
         /\ TokensActive(activation.to)
         /\ boot \in {"down", "recover", "recovered", "clear-previous"} \/ op.step = "clear"
    /\ activation.phase = "receipts-active" => TokensActive(activation.to) /\ Quiet
    /\ activation.phase = "probation" => slots.current \notin Image
    /\ op.step = "clear" => slots.current = op.to
    /\ boot = "clear-previous" => slots.current = plan.target
    /\ boot = "recovered" => (slots.current = activation.from \/ Decided)

(* An operation sets out from no Deployment until it writes its journal,    *)
(* and only a rollback from an image's own Record.                          *)
Origin ==
  /\ op.step \in {"prepare", "journal"} => op.from = NoRecord
  /\ op.kind \in {"activate", "stage"} /\ op.step \in {"journal", "switch", "healthy"} =>
       slots.current \notin Image

(* The generation check: what a plan says of the slots stays true. *)
PlanFresh ==
  /\ plan.fresh /\ plan.kind = "previous" => slots.current = plan.replaces
  /\ plan.fresh /\ plan.kind = "image" => plan.target \in Image \union {slots.current}
  /\ boot \in {"receipts-previous", "journal-previous", "commit-previous"} =>
       slots.current = plan.replaces

(* The receipts of the current Deployment are active except from the moment *)
(* those of another begin to replace them until the slots have moved, or    *)
(* until they have been activated again after a crash.                      *)
Exposed ==
  \/ op.step \in {"activating", "commit"}
  \/ boot \in {"receipts-previous", "journal-previous", "commit-previous"}
  \/ /\ boot \in {"down", "recover", "revert", "reverting"}
     /\ activation.phase \in {"healthy", "probation", "receipts-active"}
CurrentHeld ==
  (slots.current # NoRecord /\ ~torn) =>
    /\ TokensHeld(slots.current)
    /\ ~Exposed => TokensActive(slots.current)

(* What a journal goes back to can be activated again. *)
SourceHeld == (activation # NoJournal /\ ~torn) => TokensHeld(activation.from)

SafeInv == /\ TypeInv
           /\ StartupAlone
           /\ WhoWrites
           /\ OneWay
           /\ WhatIsWritten
           /\ StartupJournal
           /\ OperationJournal
           /\ SlotsInJournal
           /\ Origin
           /\ PlanFresh
           /\ CurrentHeld
           /\ SourceHeld

-----------------------------------------------------------------------------
(* What the steps of Stage-0 do to a receipt. *)

LEMMA ActivationBegins ==
  ASSUME ReceiptTypeOK, NEW S \in SUBSET Token, BeginActivation(S)
  PROVE  /\ Quiet
         /\ receipts' = receipts
         /\ \A t \in S : goal'[t] = "active"
         /\ \A t \in Token : receipts[t] = "active" => goal'[t] \in {"active", "previous"}
BY DEF ReceiptTypeOK, BeginActivation, AfterActivation, Quiet

LEMMA ReceiptWritten ==
  ASSUME ReceiptTypeOK, NEW u \in Token, WriteReceipt(u)
  PROVE  /\ ~Quiet
         /\ goal' = goal
         /\ \A t \in Token : receipts'[t] \in {receipts[t], goal[t]}
BY DEF ReceiptTypeOK, WriteReceipt, Quiet

(* What an import or a revocation rewrites is neither active nor previous.  *)
LEMMA StagedOnly ==
  ASSUME ReceiptTypeOK, NEW u \in Token, ImportReceipt(u) \/ RevokeReceipt(u)
  PROVE  /\ Quiet
         /\ goal' = receipts'
         /\ \A t \in Token :
              receipts[t] \in {"active", "previous"} => receipts'[t] = receipts[t]
BY DEF ReceiptTypeOK, ImportReceipt, RevokeReceipt, Quiet

(* The receipts of a Record are receipts. *)
LEMMA RecordTokens ==
  /\ \A r \in Record : ReceiptTokens[r] \in SUBSET Token
  /\ \A i \in Image : ReceiptTokens[i] = {} /\ Materialized[i] \in Record \ Image
                       /\ ReceiptTokens[Materialized[i]] = {}
BY RecordAssumption, ImageAssumption

LEMMA SafeInit ==
  Init => SafeInv
<1> SUFFICES ASSUME Init
             PROVE  SafeInv
  OBVIOUS
<1>1. TypeInv
  BY TypeInit
<1>2. op.kind = "idle" /\ op.step = "none" /\ boot = "down" /\ activation = NoJournal
  BY DEF Init, Idle
<1>3. /\ StartupAlone /\ WhoWrites /\ OneWay /\ WhatIsWritten /\ StartupJournal
      /\ OperationJournal
  BY <1>2 DEF StartupAlone, WhoWrites, OneWay, WhatIsWritten, StartupJournal, OperationJournal,
     BootComplete
<1>4. SlotsInJournal /\ Origin /\ CurrentHeld /\ SourceHeld
  BY <1>2 DEF Init, SlotsInJournal, Origin, CurrentHeld, SourceHeld
<1>5. PlanFresh
  BY <1>2 DEF Init, NoPlan, PlanFresh
<1> QED
  BY <1>1, <1>3, <1>4, <1>5 DEF SafeInv

LEMMA SafeStep ==
  ASSUME Composed, SafeInv, [Next]_vars, RevertEnds
  PROVE  SafeInv'
<1>0. TypeInv /\ TypeInv'
  BY TypeStep DEF SafeInv
<1> USE <1>0, RecordAssumption, RecordTokens, OpHasTarget
        DEF Composed, RevertEnds, SafeInv, StartupAlone, WhoWrites, OneWay, WhatIsWritten, StartupJournal,
           OperationJournal,
            SlotsInJournal, Origin, PlanFresh, CurrentHeld, SourceHeld, Exposed,
               JournalIs, Tokens, TokensActive,
            TokensHeld, TokensComing, BootComplete, Quiet, TypeInv, TypeOK, OpStep, Result,
            diskVars, dshVars, boundVars, receiptVars
<1>1. CASE UNCHANGED vars
  BY <1>1 DEF vars, Decided, Active
<1>2. CASE StartBootstrap
  BY <1>2 DEF StartBootstrap, NoPlan
<1>3. CASE RecoverNothing
  BY <1>3 DEF RecoverNothing, Journal, NoJournal, Phase
<1>4. CASE RecoverCommit
  <2>1. activation.to \in Record /\ TokensActive(activation.to)
    BY <1>4 DEF RecoverCommit, Decided, Active, Journal, NoJournal
  <2>2. /\ slots'.current = activation.to
        /\ boot' = "recovered" /\ op' = op /\ activation' = activation
        /\ UNCHANGED <<receipts, goal, torn>>
        /\ ~plan'.fresh \/ (plan' = plan /\ slots' = slots)
    BY <1>4, <2>1 DEF RecoverCommit, CommitSlots, Plan
  <2>3. Decided'
    BY <1>4, <2>2 DEF RecoverCommit, Decided, Active
  <2>4. /\ activation.phase \in {"healthy", "receipts-active"}
        /\ activation # NoJournal /\ op.kind = "idle"
        /\ TokensComing(activation.to) /\ boot = "recover"
    BY <1>4, <2>1 DEF RecoverCommit, Decided
  <2>5. SlotsInJournal' /\ CurrentHeld'
    BY <2>1, <2>2, <2>3, <2>4
  <2> QED
    BY <2>2, <2>4, <2>5
<1>5. CASE RecoverUndecided
  BY <1>5 DEF RecoverUndecided, Decided, Active, Journal, NoJournal, Phase
<1>6. CASE RecoverRevert
  BY <1>6, ActivationBegins DEF RecoverRevert, RevertsJournal, Journal, NoJournal, Phase
<1>7. CASE RecoverReverted
  BY <1>7 DEF RecoverReverted, RevertsJournal, Journal, NoJournal, Phase
<1>8. CASE RecoverFails
  BY <1>8 DEF RecoverFails, RevertsJournal, Journal, NoJournal, Phase
<1>9. CASE RecoverClear
  BY <1>9 DEF RecoverClear, Journal, NoJournal, Phase
<1>10. CASE PlanInitialize
  BY <1>10 DEF PlanInitialize, PlanFor
<1>11. CASE PlanImage
  BY <1>11 DEF PlanImage, PlanFor
<1>12. CASE PlanCurrent
  BY <1>12 DEF PlanCurrent, PlanFor
<1>13. CASE PlanUnresolved
  BY <1>13 DEF PlanUnresolved, PlanPrevious, PlanFor
<1>14. CASE PlanConflict
  BY <1>14 DEF PlanConflict
<1>14a. CASE NothingSelected
  BY <1>14a DEF NothingSelected
<1>14b. CASE UnresolvedEnds
  BY <1>14b DEF UnresolvedEnds, BootstrapEnds, Idle
<1>15. CASE BootStarts
  BY <1>15 DEF BootStarts, PlanFilled, Plan, Journal, NoJournal, Phase
<1>16. CASE BootRejectsImage
  BY <1>16 DEF BootRejectsImage
<1>17. CASE BootTriesPrevious
  BY <1>17 DEF BootTriesPrevious, PlanPrevious, PlanFor
<1>18. CASE BootGivesUp
  BY <1>18 DEF BootGivesUp, Journal, NoJournal, Phase
<1>19. CASE FallbackStarts
  BY <1>19 DEF FallbackStarts, Journal, NoJournal, Phase
<1>20. CASE AcceptImage
  <2>1. /\ plan.target \in Image \union {slots.current}
        /\ UNCHANGED <<receipts, goal, activation, torn, op>>
        /\ boot = "accept" /\ boot' = "ready" /\ op.kind = "idle" /\ activation = NoJournal
    BY <1>20 DEF AcceptImage, PlanFilled
  <2>2. CASE slots.current = plan.target
    BY <1>20, <2>1, <2>2 DEF AcceptImage, Journal, NoJournal
  <2>3. CASE slots.current # plan.target
    <3>1. slots'.current = plan.target /\ ~plan'.fresh
      BY <1>20, <2>3 DEF AcceptImage, CommitSlots, Plan
    <3>2. ReceiptTokens[plan.target] = {}
      BY <2>1, <2>3
    <3> QED
      BY <2>1, <3>1, <3>2 DEF NoJournal
  <2> QED
    BY <2>2, <2>3
<1>21. CASE AcceptImageStale
  BY <1>21 DEF AcceptImageStale, BootstrapEnds, Idle
<1>22. CASE AcceptPrevious
  BY <1>22, ActivationBegins DEF AcceptPrevious, PlanFilled, Fallback, Plan, Maybe
<1>23. CASE AcceptPreviousRefused
  BY <1>23 DEF AcceptPreviousRefused, Journal, NoJournal, Phase
<1>24. CASE AcceptPreviousActivated
  BY <1>24 DEF AcceptPreviousActivated
<1>25. CASE AcceptPreviousJournal
  BY <1>25 DEF AcceptPreviousJournal, WriteActivation, Journal, NoJournal, Phase
<1>26. CASE AcceptPreviousCommit
  BY <1>26 DEF AcceptPreviousCommit, CommitSlots, Journal, NoJournal, Phase
<1>27. CASE AcceptPreviousClear
  BY <1>27 DEF AcceptPreviousClear, Journal, NoJournal, Phase
<1>28. CASE Prepare
  <2>1. /\ op' \in Op /\ op'.kind = op.kind /\ op'.step = "journal" /\ op.kind # "idle"
        /\ op'.from = op.from
        /\ UNCHANGED <<receipts, goal, activation, torn, boot>>
    BY <1>28, GotoStep DEF Prepare, OnlyOp
  <2>2. CASE slots.current \in Image
    <3>1. /\ slots'.current = Materialized[slots.current] /\ ~plan'.fresh
          /\ slots'.current \notin Image /\ ReceiptTokens[slots'.current] = {}
      BY <1>28, <2>2 DEF Prepare, CommitSlots, Plan
    <3>2. activation = NoJournal
      BY <1>28, <2>1, <2>2 DEF Prepare
    <3> QED
      BY <1>28, <2>1, <3>1, <3>2 DEF Prepare
  <2>3. CASE slots.current \notin Image
    <3>1. UNCHANGED <<slots, plan>>
      BY <1>28, <2>3 DEF Prepare
    <3> QED
      BY <1>28, <2>1, <2>3, <3>1 DEF Prepare, Decided, Active
  <2> QED
    BY <2>2, <2>3
<1>29. CASE PrepareFails
  BY <1>29 DEF PrepareFails, OnlyOp, Idle
<1>30. CASE JournalPrepared
  BY <1>30 DEF JournalPrepared, WriteActivation, OnlyOp, Op, Journal, NoJournal, Phase
<1>31. CASE NotJournaled
  BY <1>31 DEF NotJournaled, OnlyOp, Idle
<1>32. CASE SwitchHealthy
  BY <1>32, GotoStep DEF SwitchHealthy, OnlyOp
<1>33. CASE SwitchFails
  BY <1>33, GotoStep DEF SwitchFails, OnlyOp
<1>34. CASE JournalHealthy
  BY <1>34, GotoStep DEF JournalHealthy, WriteActivation, OnlyOp, Journal, NoJournal, Phase
<1>35. CASE JournalProbation
  <2>1. /\ op'.kind = "idle" /\ op'.step = "ok" /\ op.from = slots.current
        /\ slots.current \notin Image /\ Quiet /\ BootComplete /\ op.kind = "stage"
        /\ UNCHANGED <<receipts, goal, slots, torn, boot, plan>>
    BY <1>35 DEF JournalProbation, OnlyOp, Idle, Journal, NoJournal
  <2>2. activation' = [phase |-> "probation", from |-> op.from, to |-> op.to]
    BY <1>35 DEF JournalProbation, WriteActivation
  <2>3. SlotsInJournal'
    BY <2>1, <2>2
  <2>4. CurrentHeld' /\ SourceHeld'
    <3>1. op.step = "healthy" /\ slots.current # NoRecord
      BY <1>35, <2>1 DEF JournalProbation, OpFilled, Unjournaled
    <3>2. ~torn => TokensActive(slots.current)
      BY <2>1, <3>1
    <3> QED
      BY <2>1, <2>2, <3>2
  <2> QED
    BY <1>35, <2>1, <2>2, <2>3, <2>4 DEF JournalProbation
<1>36. CASE ActivateReceipts
  BY <1>36, GotoStep, ActivationBegins DEF ActivateReceipts, OnlyOp, Journal, NoJournal,
     Phase
<1>37. CASE ReceiptsRefused
  <2>1. /\ UNCHANGED <<receipts, goal, slots, activation, torn, boot, plan>>
        /\ Quiet /\ op.step = "receipts" /\ BootComplete
    BY <1>37 DEF ReceiptsRefused, OnlyOp
  <2>2. CASE op.kind = "commit"
    BY <1>37, <2>1, <2>2 DEF ReceiptsRefused, Idle, Decided, Active
  <2>3. CASE op.kind # "commit"
    BY <1>37, <2>1, <2>3, GotoStep DEF ReceiptsRefused, Decided, Active
  <2> QED
    BY <2>2, <2>3
<1>38. CASE JournalReceiptsActive
  BY <1>38, GotoStep DEF JournalReceiptsActive, WriteActivation, OnlyOp, Journal,
     NoJournal, Phase
<1>39. CASE Commit
  BY <1>39, GotoStep DEF Commit, OnlyOp, CommitSlots, Journal, NoJournal, Phase
<1>40. CASE Clear
  BY <1>40, GotoStep DEF Clear, OnlyOp, Journal, NoJournal, Phase
<1>41. CASE Publish
  BY <1>41 DEF Publish, OnlyOp, Idle
<1>42. CASE UndoReceipts
  BY <1>42 DEF UndoReceipts
<1>43. CASE UndoReceiptsEnd
  BY <1>43, GotoStep DEF UndoReceiptsEnd, OnlyOp
<1>44. CASE Undo
  BY <1>44, GotoStep DEF Undo, OnlyOp
<1>45. CASE UndoClear
  BY <1>45 DEF UndoClear, OnlyOp, Idle, Journal, NoJournal, Phase
<1>46. CASE \E c \in Installable : RequestActivate(c) \/ RequestStage(c)
  <2>1. /\ UNCHANGED <<receipts, goal, slots, activation, torn, boot, plan>>
        /\ op.kind = "idle" /\ op'.step = "prepare" /\ BootComplete /\ Quiet
        /\ op'.kind \in {"activate", "stage"} /\ op'.from = NoRecord
    BY <1>46 DEF RequestActivate, RequestStage, Request, Accepting, OnlyOp
  <2> QED
    BY <2>1
<1>47. CASE \E c \in Installable : RequestCommit(c)
  <2>1. PICK c \in Installable : RequestCommit(c)
    BY <1>47
  <2>2. /\ UNCHANGED <<receipts, goal, slots, activation, torn, boot, plan>>
        /\ op.kind = "idle" /\ BootComplete /\ Quiet
    BY <2>1 DEF RequestCommit, Accepting, OnlyOp
  <2>3. CASE activation.phase = "probation" /\ activation.to = c
    <3>1. /\ op'.kind = "commit" /\ op'.step = "receipts"
          /\ op'.from = activation.from /\ op'.to = activation.to
      BY <2>1, <2>3 DEF RequestCommit
    <3> QED
      BY <2>2, <2>3, <3>1
  <2>4. CASE ~(activation.phase = "probation" /\ activation.to = c)
    <3>1. op'.kind = "idle" /\ op'.step = "failed"
      BY <2>1, <2>4 DEF RequestCommit, Idle
    <3> QED
      BY <2>2, <3>1
  <2> QED
    BY <2>3, <2>4
<1>48. CASE \E c \in Installable : ImportCandidate(c)
  <2>1. PICK c \in Installable : ImportCandidate(c)
    BY <1>48
  <2>2. /\ UNCHANGED <<slots, activation, torn, boot, plan, op>>
        /\ op.kind = "idle" /\ BootComplete
    BY <2>1 DEF ImportCandidate, Accepting
  <2>3. /\ Quiet /\ Quiet'
        /\ \A t \in Token : receipts[t] \in {"active",
           "previous"} => receipts'[t] = receipts[t]
    BY <2>1, StagedOnly DEF ImportCandidate, Installable
  <2>4. \A r \in Record : (TokensActive(r) => TokensActive(r)') /\ (TokensHeld(r) => TokensHeld(r)')
    BY <2>3
  <2>5. SlotsInJournal'
    BY <2>2, <2>3, <2>4 DEF Journal
  <2>6. CurrentHeld' /\ SourceHeld'
    BY <2>2, <2>4 DEF Maybe, Journal
  <2> QED
    BY <2>2, <2>3, <2>5, <2>6
<1>49. CASE RequestRollback
  <2>1. /\ UNCHANGED <<receipts, goal, slots, activation, torn, boot, plan>>
        /\ op.kind = "idle" /\ op'.kind = "rollback" /\ op'.step = "journal"
        /\ op'.from = NoRecord /\ BootComplete /\ Quiet
    BY <1>49 DEF RequestRollback, Request, Accepting, OnlyOp
  <2> QED
    BY <2>1
<1>50. CASE CancelCandidate
  BY <1>50 DEF CancelCandidate, OnlyOp, Accepting, Journal, NoJournal, Phase
<1>51. CASE SuspendDsh
  BY <1>51 DEF Decided, Active, SuspendDsh, OnlyOp
<1>52. CASE ResumeDsh
  BY <1>52 DEF Decided, Active, ResumeDsh, OnlyOp
<1>53. CASE \E t \in Token : Stage0Writes(t)
  <2>1. PICK t \in Token : Stage0Writes(t)
    BY <1>53
  <2>2. UNCHANGED <<slots, activation, torn, boot, plan, op>>
    BY <2>1 DEF Stage0Writes, boundVars
  <2>3. /\ ~Quiet /\ goal' = goal
        /\ \A u \in Token : receipts'[u] \in {receipts[u], goal[u]}
    BY <2>1, ReceiptWritten DEF Stage0Writes
  <2>4. \A r \in Record : /\ TokensActive(r) => TokensActive(r)'
                          /\ TokensHeld(r) => TokensHeld(r)'
                          /\ TokensComing(r) => TokensComing(r)'
    BY <2>3
  <2>5. SlotsInJournal'
    <3>1. activation.phase # "receipts-active"
      BY <2>3 DEF NoJournal
    <3>2. activation # NoJournal => activation.to \in Record
      BY DEF Journal
    <3>3. (activation # NoJournal /\ TokensActive(activation.to)) => TokensActive(activation.to)'
      BY <2>2, <2>4, <3>2
    <3>4. (activation # NoJournal /\ boot = "recovered") => (slots.current = activation.from \/ Decided')
      BY <2>2, <3>1, <3>2, <3>3 DEF Decided, Active
    <3> QED
      BY <2>2, <3>1, <3>3, <3>4
  <2>6. CurrentHeld' /\ SourceHeld'
    BY <2>2, <2>4 DEF Maybe, Journal
  <2>7. WhatIsWritten'
    BY <2>2, <2>3
  <2>8. WhoWrites' /\ OneWay'
    BY <2>2, <2>3
  <2> QED
    BY <2>2, <2>5, <2>6, <2>7, <2>8
<1>54. CASE \E t \in Token : RevokeStaged(t)
  <2>1. PICK t \in Token : RevokeStaged(t)
    BY <1>54
  <2>2. UNCHANGED <<slots, activation, torn, boot, plan, op>>
    BY <2>1 DEF RevokeStaged, boundVars
  <2>3. /\ Quiet /\ Quiet'
        /\ \A u \in Token : receipts[u] \in {"active",
           "previous"} => receipts'[u] = receipts[u]
    BY <2>1, StagedOnly DEF RevokeStaged
  <2>4. \A r \in Record : /\ TokensActive(r) => TokensActive(r)'
                          /\ TokensHeld(r) => TokensHeld(r)'
                          /\ TokensComing(r) => TokensComing(r)'
    BY <2>3
  <2>5. Decided => Decided'
    BY <2>2, <2>3 DEF Decided, Active
  <2>6. SlotsInJournal'
    BY <2>2, <2>3, <2>4, <2>5 DEF Journal
  <2>7. CurrentHeld' /\ SourceHeld'
    BY <2>2, <2>4 DEF Maybe, Journal
  <2>8. WhatIsWritten'
    <3>1. boot = "reverting" => activation.from \in Record
      BY DEF RevertsJournal, Journal
    <3>2. boot \in {"receipts-previous", "journal-previous"} => plan.target \in Record
      BY DEF PlanFilled, Fallback, Plan, Maybe
    <3> QED
      BY <2>2, <2>4, <3>1, <3>2
  <2> QED
    BY <2>2, <2>3, <2>6, <2>7, <2>8
<1>55. CASE WriteFails
  BY <1>55 DEF WriteFails
<1>56. CASE BootstrapRestarts
  <2>1. /\ UNCHANGED <<receipts, goal, slots, activation, plan>>
        /\ boot' = "down" /\ op'.kind = "idle" /\ op'.step = "none"
        /\ torn' = (torn \/ boot \in {"receipts-previous", "journal-previous"})
    BY <1>56 DEF BootstrapRestarts, BootstrapEnds, Idle
  <2>2. SlotsInJournal' /\ PlanFresh'
    BY <2>1
  <2>3. CurrentHeld'
    <3>1. SUFFICES ASSUME slots.current # NoRecord, ~torn'
                   PROVE  TokensHeld(slots.current) /\ (~Exposed' => TokensActive(slots.current))
      BY <2>1
    <3>2. ~torn /\ boot \notin {"receipts-previous", "journal-previous"}
      BY <2>1, <3>1
    <3> QED
      BY <2>1, <3>1, <3>2
  <2>4. SourceHeld'
    BY <2>1
  <2> QED
    BY <2>1, <2>2, <2>3, <2>4
<1>57. CASE ContainerDies
  <2>1. /\ UNCHANGED <<receipts, slots, activation, plan>> /\ goal' = receipts
        /\ boot' = "down" /\ op'.kind = "idle" /\ op'.step = "none"
        /\ torn' = (torn \/ boot \in {"receipts-previous", "journal-previous"})
    BY <1>57 DEF ContainerDies, BootstrapEnds, AbandonActivation, Idle
  <2>2. /\ \A r \in Record : TokensActive(r) => TokensActive(r)'
        /\ \A r \in Record : TokensHeld(r) => TokensHeld(r)'
    BY <2>1
  <2>3. SlotsInJournal' /\ PlanFresh'
    BY <2>1, <2>2 DEF Journal
  <2>4. CurrentHeld'
    <3>1. SUFFICES ASSUME slots.current # NoRecord, ~torn'
                   PROVE  TokensHeld(slots.current)' /\ (~Exposed' => TokensActive(slots.current)')
      BY <2>1
    <3>2. ~torn /\ boot \notin {"receipts-previous", "journal-previous"}
      BY <2>1, <3>1
    <3> QED
      BY <2>1, <3>1, <3>2
  <2>5. SourceHeld'
    BY <2>1
  <2> QED
    BY <2>1, <2>3, <2>4, <2>5
<1> QED
  BY <1>1, <1>2, <1>3, <1>4, <1>5, <1>6, <1>7, <1>8, <1>9, <1>10, <1>11, <1>12, <1>13,
     <1>14, <1>14a, <1>14b, <1>15, <1>16, <1>17, <1>18, <1>19, <1>20, <1>21, <1>22, <1>23, <1>24, <1>25,
     <1>26, <1>27, <1>28, <1>29, <1>30, <1>31, <1>32, <1>33, <1>34, <1>35, <1>36, <1>37,
     <1>38, <1>39, <1>40, <1>41, <1>42, <1>43, <1>44, <1>45, <1>46, <1>47, <1>48, <1>49,
     <1>50, <1>51, <1>52, <1>53, <1>54, <1>55, <1>56, <1>57
     DEF Next, Startup, Recover, Operation, Updater

-----------------------------------------------------------------------------
(* What follows. *)

LEMMA AlwaysSafe ==
  ASSUME Composed
  PROVE  Spec /\ Awaited => []SafeInv
<1>1. SafeInv /\ [Next]_vars /\ [RevertEnds]_vars => SafeInv'
  <2>1. UNCHANGED vars => RevertEnds
    BY DEF vars, RevertEnds
  <2> QED
    BY <2>1, SafeStep
<1> QED
  BY <1>1, SafeInit, PTL DEF Spec, Awaited

(* A journal that a start-up finds was left by a Bootstrap that died. *)
Bequeathed == activation # NoJournal /\ boot \in BeforePlan \ {"plan", "unresolved"} => crashes # 0

LEMMA BequeathedStep ==
  ASSUME SafeInv, Bequeathed, [Next]_vars
  PROVE  Bequeathed'
<1> USE OpHasTarget DEF SafeInv, TypeInv, TypeOK, Bequeathed, BeforePlan, IdleStartup,
        diskVars, boundVars
<1>1. CASE UNCHANGED vars
  BY <1>1 DEF vars
<1>2. CASE StartBootstrap \/ Recover
  BY <1>2 DEF StartBootstrap, Recover, RecoverNothing, RecoverCommit, RecoverUndecided,
     RecoverRevert, RecoverReverted, RecoverFails, RecoverClear
<1>3. CASE AcceptImageStale \/ UnresolvedEnds
  BY <1>3 DEF AcceptImageStale, UnresolvedEnds, BootstrapEnds, StartupJournal
<1>4. CASE Startup /\ ~StartBootstrap /\ ~Recover /\ ~AcceptImageStale /\ ~UnresolvedEnds
  <2>1. boot' \notin BeforePlan \ {"unresolved"}
    BY <1>4 DEF Startup, PlanInitialize, PlanImage, PlanCurrent, PlanUnresolved,
       PlanConflict, NothingSelected, BootStarts, BootRejectsImage, BootTriesPrevious,
       BootGivesUp, FallbackStarts, AcceptImage, AcceptPrevious, AcceptPreviousRefused,
       AcceptPreviousActivated, AcceptPreviousJournal, AcceptPreviousCommit,
       AcceptPreviousClear, Plan
  <2> QED
    BY <2>1
<1>5. CASE Operation
  <2>1. op.kind # "idle" /\ boot' = boot
    BY <1>5 DEF Operation, Prepare, PrepareFails, JournalPrepared, NotJournaled,
       SwitchHealthy, SwitchFails, JournalHealthy, JournalProbation, ActivateReceipts,
       ReceiptsRefused, JournalReceiptsActive, Commit, Clear, Publish, UndoReceipts,
       UndoReceiptsEnd, Undo, UndoClear, OnlyOp, OpStep
  <2> QED
    BY <2>1
<1>6. CASE Updater
  <2>1. /\ UNCHANGED <<boot, crashes>> /\ activation' \in {activation, NoJournal}
    BY <1>6 DEF Updater, RequestActivate, RequestStage, RequestCommit, ImportCandidate,
       RequestRollback, CancelCandidate, SuspendDsh, ResumeDsh, OnlyOp
  <2> QED
    BY <2>1
<1>7. CASE (\E t \in Token : Stage0Writes(t) \/ RevokeStaged(t)) \/ WriteFails
  BY <1>7 DEF Stage0Writes, RevokeStaged, WriteFails
<1>8. CASE BootstrapRestarts \/ ContainerDies
  BY <1>8, BoundAssumption DEF BootstrapRestarts, ContainerDies
<1> QED
  BY <1>1, <1>2, <1>3, <1>4, <1>5, <1>6, <1>7, <1>8 DEF Next, Startup

(* Nothing is reverted before one Bootstrap has died. *)
LEMMA RevertsEnd ==
  ASSUME Orderly, SafeInv, Bequeathed, [Next]_vars
  PROVE  RevertEnds
<1> SUFFICES ASSUME SlowStage0, boot = "reverting", boot' = "down"
             PROVE  Quiet'
  BY DEF RevertEnds
<1>1. crashes # 0 /\ MaxCrashes <= 1 /\ ~(crashes < MaxCrashes)
  BY BoundAssumption DEF Orderly, Bequeathed, BeforePlan, SafeInv, TypeInv, TypeOK, RevertsJournal
<1>2. CASE RecoverFails
  BY <1>2 DEF RecoverFails, Quiet, diskVars
<1>3. CASE ~RecoverFails
  <2>1. CASE UNCHANGED vars
    BY <2>1 DEF vars
  <2>2. CASE Startup
    BY <1>3, <2>2 DEF Startup, Recover, StartBootstrap, RecoverNothing, RecoverCommit,
       RecoverUndecided, RecoverRevert, RecoverReverted, RecoverClear, PlanInitialize,
       PlanImage, PlanCurrent, PlanUnresolved, PlanConflict, NothingSelected,
       UnresolvedEnds, BootstrapEnds, BootStarts, BootRejectsImage, BootTriesPrevious, BootGivesUp, FallbackStarts, AcceptImage, AcceptImageStale,
       AcceptPrevious, AcceptPreviousRefused, AcceptPreviousActivated,
       AcceptPreviousJournal, AcceptPreviousCommit, AcceptPreviousClear
  <2>3. CASE Operation
    BY <2>3 DEF Operation, Prepare, PrepareFails, JournalPrepared, NotJournaled,
       SwitchHealthy, SwitchFails, JournalHealthy, JournalProbation, ActivateReceipts,
       ReceiptsRefused, JournalReceiptsActive, Commit, Clear, Publish, UndoReceipts,
       UndoReceiptsEnd, Undo, UndoClear, OnlyOp
  <2>4. CASE Updater
    BY <2>4 DEF Updater, RequestActivate, RequestStage, RequestCommit, ImportCandidate,
       RequestRollback, CancelCandidate, SuspendDsh, ResumeDsh, OnlyOp
  <2>5. CASE (\E t \in Token : Stage0Writes(t) \/ RevokeStaged(t)) \/ WriteFails
    BY <2>5 DEF Stage0Writes, RevokeStaged, WriteFails
  <2>6. CASE BootstrapRestarts \/ ContainerDies
    BY <1>1, <2>6 DEF BootstrapRestarts, ContainerDies
  <2> QED
    BY <2>1, <2>2, <2>3, <2>4, <2>5, <2>6 DEF Next
<1> QED
  BY <1>2, <1>3

(* Awaited asks for nothing where Stage-0 is never overtaken, and of a      *)
(* platform that Bootstrap dies on at most once.                            *)
THEOREM RevertsAwaited ==
  ASSUME Orderly
  PROVE  Spec => Awaited
<1>1. CASE ~SlowStage0
  <2>1. [Next]_vars => [RevertEnds]_vars
    BY <1>1 DEF RevertEnds
  <2> QED
    BY <2>1, PTL DEF Spec, Awaited
<1>2. CASE SlowStage0
  <2>1. Init => SafeInv /\ Bequeathed
    BY SafeInit DEF Init, Bequeathed
  <2>2. SafeInv /\ Bequeathed /\ [Next]_vars => (SafeInv /\ Bequeathed)'
    BY RevertsEnd, SafeStep, BequeathedStep DEF Orderly
  <2>3. SafeInv /\ Bequeathed /\ [Next]_vars => [RevertEnds]_vars
    BY RevertsEnd
  <2> QED
    BY <2>1, <2>2, <2>3, PTL DEF Spec, Awaited
<1> QED
  BY <1>1, <1>2

(* A Record whose receipts are active in the sense of the invariant has     *)
(* them among activeReceipts().                                             *)
LEMMA ActiveTokens ==
  \A r \in Record : TokensActive(r) => ReceiptTokens[r] \subseteq Active
BY RecordTokens DEF TokensActive, Tokens, Active

(* A journal always names the Deployment the slots select, as what it       *)
(* leaves or, once it is decided, as what it enters, so recoverActivation   *)
(* never moves the slots to a Deployment that has nothing to do with them.  *)
THEOREM JournalCorrect ==
  ASSUME Composed
  PROVE  Spec /\ Awaited => []JournalNamesCurrent
<1>1. SafeInv => JournalNamesCurrent
  <2> SUFFICES ASSUME SafeInv, activation # NoJournal
               PROVE  /\ slots.current \in {activation.from, activation.to}
                      /\ slots.current # activation.from => Decided
    BY DEF JournalNamesCurrent
  <2>1. activation.to \in Record
    BY DEF SafeInv, TypeInv, TypeOK, Journal
  <2> QED
    BY <2>1, ActiveTokens DEF SafeInv, SlotsInJournal, Decided
<1> QED
  BY <1>1, AlwaysSafe, PTL

(* After a crash at any point recoverActivation can do what the journal     *)
(* says, as far as the receipts are concerned.                              *)
THEOREM RecoveryPossible ==
  ASSUME Composed
  PROVE  Spec /\ Awaited => []JournalRecoverable
<1>1. SafeInv => JournalRecoverable
  <2> SUFFICES ASSUME SafeInv, activation # NoJournal, ~torn
               PROVE  IF activation.phase = "receipts-active"
                      THEN ReceiptTokens[activation.to] \subseteq Active
                      ELSE Usable(ReceiptTokens[activation.from])
    BY DEF JournalRecoverable
  <2>1. activation.to \in Record
    BY DEF SafeInv, TypeInv, TypeOK, Journal
  <2>2. TokensHeld(activation.from)
    BY DEF SafeInv, SourceHeld
  <2>3. Usable(ReceiptTokens[activation.from])
    BY <2>2 DEF TokensHeld, Tokens, Usable
  <2> QED
    BY <2>1, <2>3, ActiveTokens DEF SafeInv, SlotsInJournal
<1> QED
  BY <1>1, AlwaysSafe, PTL

(* Whatever dies, Stage-0 accepts the receipts of the current Deployment,   *)
(* and they are the active ones when nothing is in progress.                *)
THEOREM CurrentReceipts ==
  ASSUME Composed
  PROVE  Spec /\ Awaited => [](CurrentUsable /\ CurrentActive)
<1>1. SafeInv => CurrentUsable
  BY DEF SafeInv, CurrentHeld, CurrentUsable, TokensHeld, Tokens, Usable
<1>2. SafeInv => CurrentActive
  <2> SUFFICES ASSUME SafeInv, Settled, ~torn, slots.current # NoRecord
               PROVE  ReceiptTokens[slots.current] \subseteq Active
    BY DEF CurrentActive
  <2>1. op.step \notin OpStep /\ BootComplete
    BY OpHasTarget DEF Settled, SafeInv, TypeInv, TypeOK
  <2>2. ~Exposed
    BY <2>1 DEF Exposed, OpStep, BootComplete
  <2>3. TokensActive(slots.current) /\ slots.current \in Record
    BY <2>2 DEF SafeInv, CurrentHeld, TypeInv, TypeOK, Maybe
  <2> QED
    BY <2>3, ActiveTokens
<1> QED
  BY <1>1, <1>2, AlwaysSafe, PTL

(* The six steps that commit slots. *)
Committing == \/ RecoverCommit \/ RecoverReverted \/ AcceptImage \/ AcceptPreviousCommit
              \/ Prepare \/ Commit

LEMMA OthersKeepSlots ==
  ASSUME [Next]_vars, ~Committing
  PROVE  UNCHANGED slots
<1> USE DEF diskVars
<1>1. CASE UNCHANGED vars
  BY <1>1 DEF vars
<1>2. CASE Startup
  BY <1>2 DEF Committing, Startup, Recover, StartBootstrap, RecoverNothing,
     RecoverUndecided,
     RecoverRevert, RecoverFails, RecoverClear, PlanInitialize, PlanImage, PlanCurrent,
     PlanUnresolved, PlanConflict, NothingSelected, UnresolvedEnds, BootStarts,
     BootRejectsImage, BootTriesPrevious, BootGivesUp, FallbackStarts, AcceptImageStale, BootstrapEnds, AcceptPrevious,
     AcceptPreviousRefused, AcceptPreviousActivated, AcceptPreviousJournal,
        AcceptPreviousClear
<1>3. CASE Operation
  BY <1>3 DEF Committing, Operation, PrepareFails, JournalPrepared, NotJournaled,
     SwitchHealthy,
     SwitchFails, JournalHealthy, JournalProbation, ActivateReceipts, ReceiptsRefused,
     JournalReceiptsActive, Clear, Publish, UndoReceipts, UndoReceiptsEnd, Undo, UndoClear
<1>4. CASE Updater
  BY <1>4 DEF Updater, RequestActivate, RequestStage, RequestCommit, ImportCandidate,
     RequestRollback, CancelCandidate, SuspendDsh, ResumeDsh
<1>5. CASE (\E t \in Token : Stage0Writes(t) \/ RevokeStaged(t)) \/ WriteFails
  BY <1>5 DEF Stage0Writes, RevokeStaged, WriteFails
<1>6. CASE BootstrapRestarts \/ ContainerDies
  BY <1>6 DEF BootstrapRestarts, ContainerDies, BootstrapEnds
<1> QED
  BY <1>1, <1>2, <1>3, <1>4, <1>5, <1>6 DEF Next

LEMMA SwitchStep ==
  ASSUME Composed, SafeInv, [Next]_vars, slots'.current # slots.current
  PROVE  ReceiptTokens[slots'.current] \subseteq Active
<1> USE DEF SafeInv, TypeInv, TypeOK, CommitSlots
<1>1. Committing
  BY OthersKeepSlots
<1>2. CASE RecoverCommit
  <2>1. activation.to \in Record /\ Decided /\ slots'.current = activation.to
    BY <1>2 DEF RecoverCommit, Journal
  <2>2. activation.phase = "receipts-active" => TokensActive(activation.to)
    BY <1>2 DEF RecoverCommit, SlotsInJournal
  <2> QED
    BY <2>1, <2>2, ActiveTokens DEF Decided
<1>3. CASE RecoverReverted
  <2>1. slots.current = activation.from
    <3>1. activation # NoJournal /\ op.step # "clear"
      BY <1>3, OpHasTarget DEF RecoverReverted, RevertsJournal, IdleStartup, BeforePlan,
         OpStep
    <3> QED
      BY <1>3, <3>1 DEF RecoverReverted, SlotsInJournal
  <2> QED
    BY <1>3, <2>1 DEF RecoverReverted
<1>4. CASE AcceptImage
  BY <1>4, RecordTokens DEF AcceptImage, PlanFilled, PlanFresh
<1>5. CASE AcceptPreviousCommit
  <2>1. JournalIs({"receipts-active"}, plan.replaces, plan.target)
    BY <1>5 DEF AcceptPreviousCommit, StartupJournal
  <2>2. TokensActive(plan.target) /\ plan.target \in Record
    BY <2>1 DEF JournalIs, SlotsInJournal, Journal, NoJournal
  <2> QED
    BY <1>5, <2>2, ActiveTokens DEF AcceptPreviousCommit
<1>6. CASE Prepare
  BY <1>6, RecordTokens DEF Prepare
<1>7. CASE Commit
  <2>1. JournalIs({"receipts-active"}, op.from, op.to)
    BY <1>7 DEF Commit, OperationJournal
  <2>2. TokensActive(op.to) /\ op.to \in Record
    BY <2>1 DEF JournalIs, SlotsInJournal, Journal, NoJournal
  <2> QED
    BY <1>7, <2>2, ActiveTokens DEF Commit
<1> QED
  BY <1>1, <1>2, <1>3, <1>4, <1>5, <1>6, <1>7 DEF Committing

(* Slots move to a Deployment only when each of its receipts is active.     *)
THEOREM SwitchCorrect ==
  ASSUME Composed
  PROVE  Spec /\ Awaited => SwitchFollowsReceipts
<1>1. SafeInv /\ [Next]_vars =>
        [slots'.current # slots.current => ReceiptTokens[slots'.current] \subseteq Active]_vars
  BY SwitchStep
<1> QED
  BY <1>1, AlwaysSafe, PTL DEF Spec, SwitchFollowsReceipts

(* Failure is reported by a refused commitCandidate and by the end of an    *)
(* undone operation.                                                        *)
LEMMA FailureStep ==
  ASSUME Composed, SafeInv, [Next]_vars, op.from # NoRecord, op'.step = "failed"
  PROVE  slots'.current = op.from
<1> USE DEF SafeInv, TypeInv, TypeOK
<1>1. op.kind # "idle" /\ op.step \in OpStep \ Unjournaled /\ op'.step \notin OpStep
  BY OpHasTarget DEF Origin, Op, Unjournaled, OpStep
<1>2. op' # op
  BY <1>1
<1>3. ReceiptsRefused \/ UndoClear \/ (WriteFails /\ faults < MaxFaults)
  <2>1. CASE UNCHANGED vars
    BY <1>2, <2>1 DEF vars
  <2>2. CASE Startup
    <3>1. CASE AcceptImageStale \/ UnresolvedEnds
      BY <3>1 DEF AcceptImageStale, UnresolvedEnds, BootstrapEnds, Idle
    <3>2. CASE Startup /\ ~AcceptImageStale /\ ~UnresolvedEnds
      BY <1>2, <3>2 DEF Startup, Recover, StartBootstrap, RecoverNothing, RecoverCommit,
         RecoverUndecided, RecoverRevert, RecoverReverted, RecoverFails, RecoverClear,
         PlanInitialize, PlanImage, PlanCurrent, PlanUnresolved, PlanConflict,
         NothingSelected, BootStarts, BootRejectsImage, BootTriesPrevious, BootGivesUp, FallbackStarts, AcceptImage,
         AcceptPrevious, AcceptPreviousRefused, AcceptPreviousActivated,
         AcceptPreviousJournal, AcceptPreviousCommit, AcceptPreviousClear
    <3> QED
      BY <2>2, <3>1, <3>2
  <2>3. CASE Operation
    <3>1. \A step \in OpStep : ~Goto(step)
      BY <1>1, GotoStep
    <3> QED
      BY <1>1, <2>3, <3>1 DEF Operation, Prepare, PrepareFails, JournalPrepared,
         NotJournaled,
         SwitchHealthy, SwitchFails, JournalHealthy, JournalProbation, ActivateReceipts,
         JournalReceiptsActive, Commit, Clear, Publish, UndoReceipts, UndoReceiptsEnd,
         Undo, Idle, OpStep, Unjournaled
  <2>4. CASE Updater
    BY <1>1, <1>2, <2>4 DEF Updater, RequestActivate, RequestStage, RequestCommit,
       ImportCandidate,
       RequestRollback, CancelCandidate, SuspendDsh, ResumeDsh, Accepting
  <2>5. CASE \E t \in Token : Stage0Writes(t) \/ RevokeStaged(t)
    BY <1>2, <2>5 DEF Stage0Writes, RevokeStaged
  <2>6. CASE WriteFails
    BY <2>6 DEF WriteFails
  <2>7. CASE BootstrapRestarts \/ ContainerDies
    BY <2>7 DEF BootstrapRestarts, ContainerDies, BootstrapEnds, Idle
  <2> QED
    BY <2>1, <2>2, <2>3, <2>4, <2>5, <2>6, <2>7 DEF Next
<1>4. ~(faults < MaxFaults)
  BY DEF Composed
<1>5. op.step \in {"receipts", "undo-clear"} /\ UNCHANGED slots
  BY <1>3, <1>4 DEF ReceiptsRefused, UndoClear, diskVars
<1>6. activation # NoJournal /\ activation.from = op.from
  BY <1>5 DEF OperationJournal, JournalIs, NoJournal
<1>7. boot \in {"ready", "degraded"}
  BY <1>1 DEF StartupAlone, BootComplete
<1> QED
  BY <1>5, <1>6, <1>7 DEF SlotsInJournal

(* An operation that reports failure leaves the slots on the Deployment it  *)
(* set out from.                                                            *)
THEOREM FailureCorrect ==
  ASSUME Composed
  PROVE  Spec /\ Awaited => FailureKeepsCurrent
<1>1. SafeInv /\ [Next]_vars =>
        [(op.from # NoRecord /\ op'.step = "failed") => slots'.current = op.from]_vars
  BY FailureStep
<1> QED
  BY <1>1, AlwaysSafe, PTL DEF Spec, FailureKeepsCurrent

(* Receipts, journal and slots fit together at every moment.                *)
THEOREM ReceiptsCorrect ==
  ASSUME Orderly
  PROVE  Spec => []ReceiptsSound
<1>0. Composed
  BY DEF Orderly
<1>1. Spec => []TypeOK
  BY TypeCorrect
<1>2. Spec /\ Awaited => []JournalNamesCurrent
  BY <1>0, JournalCorrect
<1>3. Spec /\ Awaited => []JournalRecoverable
  BY <1>0, RecoveryPossible
<1>4. Spec /\ Awaited => [](CurrentUsable /\ CurrentActive)
  BY <1>0, CurrentReceipts
<1>5. TypeOK /\ JournalNamesCurrent /\ JournalRecoverable /\ CurrentUsable /\ CurrentActive
        => ReceiptsSound
  BY DEF ReceiptsSound
<1> QED
  BY <1>1, <1>2, <1>3, <1>4, <1>5, RevertsAwaited, PTL

(* A switch is a switch of receipts first and slots second, and one that    *)
(* fails has not switched anything.                                         *)
THEOREM SwitchesCorrect ==
  ASSUME Orderly
  PROVE  Spec => SwitchesWhole
<1>0. Composed
  BY DEF Orderly
<1>1. Spec /\ Awaited => SwitchFollowsReceipts
  BY <1>0, SwitchCorrect
<1>2. Spec /\ Awaited => FailureKeepsCurrent
  BY <1>0, FailureCorrect
<1> QED
  BY <1>1, <1>2, RevertsAwaited, PTL DEF SwitchesWhole

-----------------------------------------------------------------------------
(* What a switch amounts to.  The journal goes from one Deployment to       *)
(* another, and once the slots have moved they keep what they left.         *)
JournalMoves ==
  activation # NoJournal =>
    /\ activation.to # activation.from
    /\ slots.current = activation.to => slots.previous = activation.from
SlotsDiffer == slots.previous # NoRecord => slots.previous # slots.current

(* Nothing is planned before the journal is dealt with, and the slots a     *)
(* fallback was planned on are those it commits.                            *)
PlanHeld ==
  /\ boot \in BeforePlan \ {"down"} => plan.kind = "none"
  /\ plan.kind = "previous" /\ boot \in {"start", "fallback"} \union (Fallback \ {"clear-previous"}) =>
       slots.current = plan.replaces /\ slots.previous = plan.target
  /\ boot = "clear-previous" => slots.previous = plan.replaces

(* What an operation undoes has not been won.  What a start-up undoes may   *)
(* be won after all, by the writes of a Stage-0 it did not wait for, but    *)
(* not once it is undone: a receipt of the candidate is not among those it  *)
(* goes back to.                                                            *)
Lost(r) == \E t \in Tokens(r) : receipts[t] # "active" /\ goal[t] # "active"
Undoing ==
  activation.phase = "healthy" =>
    \E t \in Tokens(activation.to) :
       /\ t \notin Tokens(activation.from)
       /\ boot = "reverting" => goal[t] # "active" /\ (receipts[t] # "active" \/ SlowStage0)
UndoneIsLost ==
  /\ op.step \in {"undo", "undo-clear"} => ~Decided
  /\ boot = "revert" => ~Decided \/ SlowStage0
  /\ boot \in {"revert", "reverting"} => Undoing
  /\ boot = "recovered" /\ (Decided \/ ~Quiet) => slots.current = activation.to

(* While a healthy candidate is journaled, receipts it shares with what it  *)
(* replaces stay active, and Stage-0 writes in one direction.               *)
OneDirection ==
  activation.phase = "healthy" =>
    /\ \A t \in Tokens(activation.to) \intersect Tokens(activation.from) :
         receipts[t] = "active" /\ goal[t] = "active"
    /\ \/ \A t \in Tokens(activation.to) : receipts[t] = "active" => goal[t] = "active"
       \/ Lost(activation.to)
       \/ boot = "reverting"

SwitchInv == JournalMoves /\ SlotsDiffer /\ PlanHeld /\ UndoneIsLost /\ OneDirection

(* Journal, slots and plan keep in step.                                    *)
LEMMA SlotsStep ==
  ASSUME Composed, SafeInv, [Next]_vars, JournalMoves, SlotsDiffer, PlanHeld
  PROVE  (JournalMoves /\ SlotsDiffer /\ PlanHeld)'
<1>0. TypeInv /\ TypeInv'
  BY TypeStep DEF SafeInv
<1> USE <1>0, RecordAssumption, RecordTokens, OpHasTarget
        DEF Composed, SafeInv, StartupAlone, StartupJournal, OperationJournal,
            SlotsInJournal, PlanFresh, JournalIs, BootComplete, TypeInv, TypeOK, OpStep, Result,
            JournalMoves, SlotsDiffer, PlanHeld, Fallback, BeforePlan, NoJournal,
            diskVars, dshVars, boundVars, receiptVars
<1>1. CASE UNCHANGED vars
  BY <1>1 DEF vars
<1>2. CASE StartBootstrap
  BY <1>2 DEF StartBootstrap, NoPlan
<1>3. CASE RecoverNothing
  BY <1>3 DEF RecoverNothing
<1>4. CASE RecoverCommit
  <2>1. /\ UNCHANGED <<activation, op>> /\ boot = "recover" /\ boot' = "recovered"
        /\ activation \in Journal
    BY <1>4 DEF RecoverCommit
  <2>2. CASE slots.current = activation.to
    BY <1>4, <2>1, <2>2 DEF RecoverCommit
  <2>3. CASE slots.current # activation.to
    <3>1. /\ slots'.current = activation.to /\ plan'.kind = plan.kind
          /\ slots'.previous = activation.from
      BY <1>4, <2>1, <2>3, CommittedSlots DEF RecoverCommit, Journal, Maybe
    <3> QED
      BY <2>1, <3>1
  <2> QED
    BY <2>2, <2>3
<1>5. CASE RecoverUndecided
  BY <1>5 DEF RecoverUndecided
<1>6. CASE RecoverRevert
  BY <1>6 DEF RecoverRevert
<1>7. CASE RecoverReverted
  <2>1. /\ UNCHANGED <<activation, op>> /\ boot = "reverting" /\ boot' = "recovered"
        /\ slots.current = activation.from
    BY <1>7 DEF RecoverReverted, RevertsJournal
  <2>2. UNCHANGED <<slots, plan>>
    BY <1>7, <2>1 DEF RecoverReverted
  <2> QED
    BY <2>1, <2>2
<1>8. CASE RecoverFails
  BY <1>8 DEF RecoverFails
<1>9. CASE RecoverClear
  BY <1>9 DEF RecoverClear
<1>10. CASE PlanInitialize
  BY <1>10 DEF PlanInitialize, PlanFor
<1>11. CASE PlanImage
  BY <1>11 DEF PlanImage, PlanFor
<1>12. CASE PlanCurrent
  BY <1>12 DEF PlanCurrent, PlanFor
<1>13. CASE PlanUnresolved
  <2>1. /\ UNCHANGED <<slots, activation, op>> /\ boot = "plan" /\ boot' = "start"
        /\ plan.kind = "none"
    BY <1>13 DEF PlanUnresolved
  <2>2. plan' = plan \/ PlanPrevious
    BY <1>13 DEF PlanUnresolved
  <2>3. PlanPrevious => plan'.target = slots.previous /\ plan'.replaces = slots.current
    BY DEF PlanPrevious, PlanFor
  <2> QED
    BY <2>1, <2>2, <2>3
<1>14. CASE PlanConflict
  BY <1>14 DEF PlanConflict
<1>14a. CASE NothingSelected
  BY <1>14a DEF NothingSelected
<1>14b. CASE UnresolvedEnds
  BY <1>14b DEF UnresolvedEnds, BootstrapEnds, Idle
<1>15. CASE BootStarts
  <2>1. /\ UNCHANGED <<slots, activation, op, plan>> /\ boot = "start"
        /\ boot' \in {"accept", "accept-previous", "degraded"}
    BY <1>15 DEF BootStarts, Plan
  <2> QED
    BY <2>1
<1>16. CASE BootRejectsImage
  BY <1>16 DEF BootRejectsImage
<1>17. CASE BootTriesPrevious
  BY <1>17 DEF BootTriesPrevious, PlanPrevious, PlanFor, PreviousRecoverable
<1>18. CASE BootGivesUp
  BY <1>18 DEF BootGivesUp
<1>19. CASE FallbackStarts
  BY <1>19 DEF FallbackStarts, Launchable
<1>20. CASE AcceptImage
  BY <1>20 DEF AcceptImage, CommitSlots
<1>21. CASE AcceptImageStale
  BY <1>21 DEF AcceptImageStale, BootstrapEnds, Idle
<1>22. CASE AcceptPrevious
  BY <1>22 DEF AcceptPrevious
<1>23. CASE AcceptPreviousRefused
  BY <1>23 DEF AcceptPreviousRefused
<1>24. CASE AcceptPreviousActivated
  BY <1>24 DEF AcceptPreviousActivated
<1>25. CASE AcceptPreviousJournal
  <2>1. /\ UNCHANGED <<slots, op, plan>> /\ boot = "journal-previous" /\ boot' = "commit-previous"
        /\ activation'.from = plan.replaces /\ activation'.to = plan.target
    BY <1>25 DEF AcceptPreviousJournal, WriteActivation
  <2>2. /\ slots.current = plan.replaces /\ slots.previous = plan.target
        /\ plan.target # NoRecord
    BY <2>1, <1>0 DEF PlanFilled
  <2> QED
    BY <2>1, <2>2
<1>26. CASE AcceptPreviousCommit
  BY <1>26 DEF AcceptPreviousCommit, CommitSlots
<1>27. CASE AcceptPreviousClear
  BY <1>27 DEF AcceptPreviousClear
<1>28. CASE Prepare
  BY <1>28, GotoStep DEF Prepare, OnlyOp, CommitSlots
<1>29. CASE PrepareFails
  BY <1>29 DEF PrepareFails, OnlyOp, Idle
<1>30. CASE JournalPrepared
  <2>1. /\ UNCHANGED <<slots, plan, boot>> /\ op'.step = "switch"
        /\ activation'.from = slots.current /\ activation'.to = Destination
    BY <1>30 DEF JournalPrepared, WriteActivation, OnlyOp, Op
  <2>2. Destination # slots.current
    <3>1. slots.current \in Record
      BY <1>30 DEF JournalPrepared, OpFilled, Maybe
    <3>2. op.kind = "stage" => DshVersion[op.to] > DshVersion[slots.current]
      BY <1>30 DEF JournalPrepared, Journaled, ValidExperimental
    <3>3. op.kind = "stage" => op.to # slots.current
      BY <3>1, <3>2
    <3> QED
      BY <1>30, <3>3 DEF JournalPrepared, Journaled, Destination
  <2> QED
    BY <2>1, <2>2
<1>31. CASE NotJournaled
  BY <1>31 DEF NotJournaled, OnlyOp, Idle
<1>32. CASE SwitchHealthy
  BY <1>32, GotoStep DEF SwitchHealthy, OnlyOp
<1>33. CASE SwitchFails
  BY <1>33, GotoStep DEF SwitchFails, OnlyOp
<1>34. CASE JournalHealthy
  BY <1>34, GotoStep DEF JournalHealthy, OnlyOp, WriteActivation
<1>35. CASE JournalProbation
  BY <1>35 DEF JournalProbation, OnlyOp, WriteActivation, Idle
<1>36. CASE ActivateReceipts
  BY <1>36, GotoStep DEF ActivateReceipts, OnlyOp
<1>37. CASE ReceiptsRefused
  BY <1>37, GotoStep DEF ReceiptsRefused, OnlyOp, Idle
<1>38. CASE JournalReceiptsActive
  BY <1>38, GotoStep DEF JournalReceiptsActive, OnlyOp, WriteActivation
<1>39. CASE Commit
  BY <1>39, GotoStep DEF Commit, OnlyOp, CommitSlots
<1>40. CASE Clear
  BY <1>40, GotoStep DEF Clear, OnlyOp
<1>41. CASE Publish
  BY <1>41 DEF Publish, OnlyOp, Idle
<1>42. CASE UndoReceipts
  BY <1>42, GotoStep DEF UndoReceipts, OnlyOp
<1>43. CASE UndoReceiptsEnd
  BY <1>43, GotoStep DEF UndoReceiptsEnd, OnlyOp
<1>44. CASE Undo
  BY <1>44, GotoStep DEF Undo, OnlyOp
<1>45. CASE UndoClear
  BY <1>45 DEF UndoClear, OnlyOp, Idle
<1>46. CASE \E c \in Installable : RequestActivate(c) \/ RequestStage(c)
  BY <1>46 DEF RequestActivate, RequestStage, Request, Accepting, OnlyOp, Idle
<1>47. CASE \E c \in Installable : RequestCommit(c)
  BY <1>47 DEF RequestCommit, Accepting, OnlyOp, Idle
<1>48. CASE \E c \in Installable : ImportCandidate(c)
  BY <1>48 DEF ImportCandidate, Accepting
<1>49. CASE RequestRollback
  BY <1>49 DEF RequestRollback, OnlyOp, Request, Accepting
<1>50. CASE CancelCandidate
  BY <1>50 DEF CancelCandidate, OnlyOp, Accepting
<1>51. CASE SuspendDsh
  BY <1>51 DEF SuspendDsh, OnlyOp, Accepting
<1>52. CASE ResumeDsh
  BY <1>52 DEF ResumeDsh, OnlyOp, Accepting
<1>53. CASE \E t \in Token : Stage0Writes(t)
  BY <1>53 DEF Stage0Writes
<1>54. CASE \E t \in Token : RevokeStaged(t)
  BY <1>54 DEF RevokeStaged
<1>55. CASE WriteFails
  BY <1>55 DEF WriteFails
<1>56. CASE BootstrapRestarts
  BY <1>56 DEF BootstrapRestarts, BootstrapEnds, Idle
<1>57. CASE ContainerDies
  BY <1>57 DEF ContainerDies, BootstrapEnds, Idle, AbandonActivation
<1> QED
  BY <1>1, <1>2, <1>3, <1>4, <1>5, <1>6, <1>7, <1>8, <1>9, <1>10, <1>11, <1>12, <1>13,
     <1>14, <1>14a, <1>14b, <1>15, <1>16, <1>17, <1>18, <1>19, <1>20, <1>21, <1>22, <1>23, <1>24, <1>25,
     <1>26, <1>27, <1>28, <1>29, <1>30, <1>31, <1>32, <1>33, <1>34, <1>35, <1>36, <1>37,
     <1>38, <1>39, <1>40, <1>41, <1>42, <1>43, <1>44, <1>45, <1>46, <1>47, <1>48, <1>49,
     <1>50, <1>51, <1>52, <1>53, <1>54, <1>55, <1>56, <1>57
     DEF Next, Startup, Recover, Operation, Updater

LEMMA ReceiptsStep ==
  ASSUME Composed, SafeInv, [Next]_vars, RevertEnds, ~torn, JournalMoves, UndoneIsLost, OneDirection
  PROVE  (UndoneIsLost /\ OneDirection)'
<1>0. TypeInv /\ TypeInv'
  BY TypeStep DEF SafeInv
<1> USE <1>0, RecordAssumption, RecordTokens, OpHasTarget
        DEF Composed, SafeInv, StartupAlone, StartupJournal, OperationJournal, WhoWrites,
            SlotsInJournal, JournalIs, BootComplete, TypeInv, TypeOK, OpStep, Result,
            JournalMoves, RevertEnds, Undoing, UndoneIsLost, OneDirection, Decided, Active, Tokens, Lost, Quiet, NoJournal,
            diskVars, dshVars, boundVars, receiptVars
<1>1. CASE UNCHANGED vars
  BY <1>1 DEF vars
<1>2. CASE StartBootstrap
  BY <1>2 DEF StartBootstrap, NoPlan
<1>3. CASE RecoverNothing
  BY <1>3 DEF RecoverNothing
<1>4. CASE RecoverCommit
  BY <1>4 DEF RecoverCommit, CommitSlots
<1>5. CASE RecoverUndecided
  <2>1. /\ UNCHANGED <<receipts, goal, activation, op, slots>> /\ boot' = "revert"
        /\ ~Decided /\ op.kind = "idle" /\ activation \in Journal
    BY <1>5 DEF RecoverUndecided, IdleStartup, BeforePlan
  <2>2. activation.phase = "healthy" =>
          \E t \in ReceiptTokens[activation.to] : t \in Token /\ receipts[t] # "active"
    BY <2>1 DEF Journal
  <2>3. ~Decided' /\ op.step \notin {"undo", "undo-clear"}
    BY <2>1
  <2>4. Undoing'
    BY <2>1, <2>2
  <2>5. OneDirection'
    BY <2>1, <1>5 DEF RecoverUndecided
  <2> QED
    BY <2>1, <2>3, <2>4, <2>5
<1>6. CASE RecoverRevert
  <2>1. /\ UNCHANGED <<receipts, activation, op, slots>> /\ boot = "revert" /\ boot' = "reverting"
        /\ BeginActivation(ReceiptTokens[activation.from])
    BY <1>6 DEF RecoverRevert, BeginActivation
  <2>0. op.kind = "idle" /\ activation \in Journal
    BY <2>1 DEF IdleStartup, BeforePlan, RevertsJournal
  <2>2. SUFFICES ASSUME activation.phase = "healthy"
                 PROVE  /\ Undoing'
                        /\ \A t \in Tokens(activation.to) \intersect Tokens(activation.from) :
                             receipts'[t] = "active" /\ goal'[t] = "active"
    BY <2>0, <2>1
  <2>3. PICK t \in ReceiptTokens[activation.to] :
          t \notin ReceiptTokens[activation.from] /\ (receipts[t] # "active" \/ SlowStage0)
    BY <2>0, <2>1, <2>2 DEF Journal
  <2>4. t \in Token
    BY <2>0, <2>3 DEF Journal
  <2>5. goal'[t] # "active"
    BY <2>1, <2>3, <2>4 DEF BeginActivation, AfterActivation
  <2>6. \A u \in ReceiptTokens[activation.from] : goal'[u] = "active"
    BY <2>0, <2>1, ActivationBegins DEF Journal
  <2> QED
    BY <2>1, <2>2, <2>3, <2>5, <2>6
<1>7. CASE RecoverReverted
  BY <1>7 DEF RecoverReverted, CommitSlots
<1>8. CASE RecoverFails
  BY <1>8 DEF RecoverFails
<1>9. CASE RecoverClear
  BY <1>9 DEF RecoverClear
<1>10. CASE PlanInitialize
  BY <1>10 DEF PlanInitialize, PlanFor
<1>11. CASE PlanImage
  BY <1>11 DEF PlanImage, PlanFor
<1>12. CASE PlanCurrent
  BY <1>12 DEF PlanCurrent, PlanFor
<1>13. CASE PlanUnresolved
  BY <1>13 DEF PlanUnresolved, PlanPrevious, PlanFor, PreviousRecoverable
<1>14. CASE PlanConflict
  BY <1>14 DEF PlanConflict
<1>14a. CASE NothingSelected
  BY <1>14a DEF NothingSelected
<1>14b. CASE UnresolvedEnds
  BY <1>14b DEF UnresolvedEnds, BootstrapEnds, Idle
<1>15. CASE BootStarts
  <2>1. /\ UNCHANGED <<receipts, goal, activation, op, slots>> /\ boot = "start"
        /\ boot' \in {"accept", "accept-previous", "degraded"}
    BY <1>15 DEF BootStarts, Plan
  <2> QED
    BY <2>1
<1>16. CASE BootRejectsImage
  BY <1>16 DEF BootRejectsImage
<1>17. CASE BootTriesPrevious
  BY <1>17 DEF BootTriesPrevious, PlanPrevious, PlanFor, PreviousRecoverable
<1>18. CASE BootGivesUp
  BY <1>18 DEF BootGivesUp
<1>19. CASE FallbackStarts
  BY <1>19 DEF FallbackStarts, Launchable
<1>20. CASE AcceptImage
  BY <1>20 DEF AcceptImage, CommitSlots
<1>21. CASE AcceptImageStale
  BY <1>21 DEF AcceptImageStale, BootstrapEnds, Idle
<1>22. CASE AcceptPrevious
  BY <1>22 DEF AcceptPrevious
<1>23. CASE AcceptPreviousRefused
  BY <1>23 DEF AcceptPreviousRefused
<1>24. CASE AcceptPreviousActivated
  BY <1>24 DEF AcceptPreviousActivated
<1>25. CASE AcceptPreviousJournal
  BY <1>25 DEF AcceptPreviousJournal, WriteActivation
<1>26. CASE AcceptPreviousCommit
  BY <1>26 DEF AcceptPreviousCommit, CommitSlots
<1>27. CASE AcceptPreviousClear
  BY <1>27 DEF AcceptPreviousClear
<1>28. CASE Prepare
  BY <1>28, GotoStep DEF Prepare, OnlyOp, CommitSlots
<1>29. CASE PrepareFails
  BY <1>29 DEF PrepareFails, OnlyOp, Idle
<1>30. CASE JournalPrepared
  BY <1>30 DEF JournalPrepared, OnlyOp, WriteActivation, Journaled, Destination, ValidStable, ValidExperimental
<1>31. CASE NotJournaled
  BY <1>31 DEF NotJournaled, OnlyOp, Idle
<1>32. CASE SwitchHealthy
  BY <1>32, GotoStep DEF SwitchHealthy, OnlyOp
<1>33. CASE SwitchFails
  BY <1>33, GotoStep DEF SwitchFails, OnlyOp
<1>34. CASE JournalHealthy
  <2>1. /\ UNCHANGED <<receipts, goal, slots, boot>> /\ op.step = "healthy" /\ op'.step = "receipts"
        /\ activation'.from = op.from /\ activation'.to = op.to /\ goal = receipts
        /\ boot \in {"ready", "degraded"} /\ op.from \in Record /\ op.to \in Record
    BY <1>34, GotoStep DEF JournalHealthy, WriteActivation, OnlyOp, Journal
  <2>2. slots.current = op.from
    BY <2>1
  <2>3. \A t \in Tokens(op.from) : receipts[t] = "active"
    BY <2>1, <2>2 DEF CurrentHeld, Exposed, TokensActive
  <2> QED
    BY <2>1, <2>3
<1>35. CASE JournalProbation
  BY <1>35 DEF JournalProbation, OnlyOp, WriteActivation, Idle
<1>36. CASE ActivateReceipts
  <2>1. /\ UNCHANGED <<receipts, slots, boot, activation>>
        /\ BeginActivation(ReceiptTokens[op.to]) /\ op.step = "receipts" /\ Goto("activating")
    BY <1>36 DEF ActivateReceipts, OnlyOp, BeginActivation
  <2>0. /\ op'.step = "activating" /\ op.kind # "idle"
    BY <2>1, GotoStep
  <2>3. /\ activation.to = op.to /\ op.to \in Record /\ boot \in {"ready", "degraded"}
    BY <2>1, <2>0
  <2>2. \A t \in ReceiptTokens[op.to] : goal'[t] = "active"
    BY <2>1, <2>3, ActivationBegins
  <2> QED
    BY <2>0, <2>1, <2>2, <2>3
<1>37. CASE ReceiptsRefused
  <2>1. /\ UNCHANGED <<receipts, goal, slots, boot, activation>> /\ boot \in {"ready", "degraded"}
        /\ activation.to = op.to /\ op'.step \in {"failed", "undo"} /\ op.to \in Record
    BY <1>37, GotoStep DEF ReceiptsRefused, OnlyOp, Idle
  <2>2. PICK t \in ReceiptTokens[op.to] : receipts[t] # "active"
    BY <1>37 DEF ReceiptsRefused, Usable
  <2>3. ~Decided /\ ~Decided'
    BY <2>1, <2>2, <1>37 DEF ReceiptsRefused
  <2> QED
    BY <2>1, <2>3
<1>38. CASE JournalReceiptsActive
  BY <1>38, GotoStep DEF JournalReceiptsActive, OnlyOp, WriteActivation
<1>39. CASE Commit
  BY <1>39, GotoStep DEF Commit, OnlyOp, CommitSlots
<1>40. CASE Clear
  BY <1>40, GotoStep DEF Clear, OnlyOp
<1>41. CASE Publish
  BY <1>41 DEF Publish, OnlyOp, Idle
<1>42. CASE UndoReceipts
  BY <1>42, GotoStep DEF UndoReceipts, OnlyOp
<1>43. CASE UndoReceiptsEnd
  BY <1>43, GotoStep DEF UndoReceiptsEnd, OnlyOp
<1>44. CASE Undo
  BY <1>44, GotoStep DEF Undo, OnlyOp
<1>45. CASE UndoClear
  BY <1>45 DEF UndoClear, OnlyOp, Idle
<1>46. CASE \E c \in Installable : RequestActivate(c) \/ RequestStage(c)
  BY <1>46 DEF RequestActivate, RequestStage, Request, Accepting, OnlyOp, Idle
<1>47. CASE \E c \in Installable : RequestCommit(c)
  BY <1>47 DEF RequestCommit, Accepting, OnlyOp, Idle
<1>48. CASE \E c \in Installable : ImportCandidate(c)
  BY <1>48 DEF ImportCandidate, Accepting
<1>49. CASE RequestRollback
  BY <1>49 DEF RequestRollback, OnlyOp, Request, Accepting
<1>50. CASE CancelCandidate
  BY <1>50 DEF CancelCandidate, OnlyOp, Accepting
<1>51. CASE SuspendDsh
  BY <1>51 DEF SuspendDsh, OnlyOp, Accepting
<1>52. CASE ResumeDsh
  BY <1>52 DEF ResumeDsh, OnlyOp, Accepting
<1>53. CASE \E t \in Token : Stage0Writes(t)
  <2>1. PICK t \in Token : Stage0Writes(t)
    BY <1>53
  <2>2. /\ UNCHANGED <<slots, activation, boot, op, goal>> /\ goal # receipts
        /\ \A u \in Token : receipts'[u] = receipts[u] \/ receipts'[u] = goal[u]
    BY <2>1, ReceiptWritten DEF Stage0Writes
  <2>3. /\ op.step \notin {"undo", "undo-clear"}
        /\ boot = "revert" => SlowStage0
        /\ boot = "recovered" => slots.current = activation.to
    BY <2>2
  <2>4. UndoneIsLost'
    BY <2>2, <2>3 DEF Journal
  <2>5. OneDirection'
    <3>1. SUFFICES ASSUME activation.phase = "healthy" PROVE OneDirection'
      BY <2>2
    <3>2. activation.to \in Record /\ activation.from \in Record
      BY <3>1 DEF Journal
    <3>3. Lost(activation.to) => Lost(activation.to)'
      BY <2>2, <3>2
    <3> QED
      BY <2>2, <3>1, <3>2, <3>3
  <2> QED
    BY <2>4, <2>5
<1>54. CASE \E t \in Token : RevokeStaged(t)
  <2>1. PICK t \in Token : RevokeStaged(t)
    BY <1>54
  <2>2. /\ UNCHANGED <<slots, activation, boot, op>> /\ goal = receipts /\ goal' = receipts'
        /\ \A u \in Token : receipts'[u] = "active" <=> receipts[u] = "active"
    BY <2>1 DEF RevokeStaged, RevokeReceipt
  <2>3. Decided <=> Decided'
    BY <2>2
  <2>4. boot # "reverting" \/ activation.phase # "healthy" \/ Lost(activation.to)'
    BY <2>2 DEF Journal
  <2>5. OneDirection'
    BY <2>2 DEF Journal
  <2> QED
    BY <2>2, <2>3, <2>4, <2>5
<1>55. CASE WriteFails
  BY <1>55 DEF WriteFails
<1>56. CASE BootstrapRestarts
  BY <1>56 DEF BootstrapRestarts, BootstrapEnds, Idle
<1>57. CASE ContainerDies
  BY <1>57 DEF ContainerDies, BootstrapEnds, Idle, AbandonActivation
<1> QED
  BY <1>1, <1>2, <1>3, <1>4, <1>5, <1>6, <1>7, <1>8, <1>9, <1>10, <1>11, <1>12, <1>13,
     <1>14, <1>14a, <1>14b, <1>15, <1>16, <1>17, <1>18, <1>19, <1>20, <1>21, <1>22, <1>23, <1>24, <1>25,
     <1>26, <1>27, <1>28, <1>29, <1>30, <1>31, <1>32, <1>33, <1>34, <1>35, <1>36, <1>37,
     <1>38, <1>39, <1>40, <1>41, <1>42, <1>43, <1>44, <1>45, <1>46, <1>47, <1>48, <1>49,
     <1>50, <1>51, <1>52, <1>53, <1>54, <1>55, <1>56, <1>57
     DEF Next, Startup, Recover, Operation, Updater

-----------------------------------------------------------------------------
(* What the journal and the slots amount to together.                       *)
Installed == IF Won THEN activation.to ELSE slots.current
Retained == IF Won THEN activation.from ELSE slots.previous
Pending == IF activation # NoJournal /\ ~Won THEN activation.to ELSE NoRecord

LEMMA AtomicSteps ==
  /\ UNCHANGED <<Installed, Retained, Pending>> => [Atomic!Next]_(Atomic!vars)
  /\ \A r \in Record :
       Installed # NoRecord /\ r # Installed /\ Pending' = r /\ UNCHANGED <<Installed, Retained>>
         => [Atomic!Next]_(Atomic!vars)
  /\ Pending' = NoRecord /\ UNCHANGED <<Installed, Retained>> => [Atomic!Next]_(Atomic!vars)
  /\ Pending # NoRecord /\ Installed' = Pending /\ Retained' = Installed /\ Pending' = NoRecord
       => [Atomic!Next]_(Atomic!vars)
  /\ Pending = NoRecord /\ Retained # NoRecord /\ Installed' = Retained /\ Retained' = Installed
     /\ UNCHANGED Pending => [Atomic!Next]_(Atomic!vars)
  /\ \A i \in Image : Pending = NoRecord /\ Installed' = i /\ Retained' \in {Installed, NoRecord}
       /\ UNCHANGED Pending => [Atomic!Next]_(Atomic!vars)
  /\ \A i \in Image : Pending = NoRecord /\ Installed = i /\ Installed' = Materialized[i]
       /\ Retained' = (IF Retained = Materialized[i] THEN NoRecord ELSE Retained)
       /\ UNCHANGED Pending => [Atomic!Next]_(Atomic!vars)
<1> USE DEF Atomic!Next, Atomic!vars
<1>1. UNCHANGED <<Installed, Retained, Pending>> => UNCHANGED Atomic!vars
  BY DEF Installed, Retained, Pending
<1>2. \A r \in Record :
       Installed # NoRecord /\ r # Installed /\ Pending' = r /\ UNCHANGED <<Installed, Retained>>
         => Atomic!Begin(r)
  BY DEF Atomic!Begin, Installed, Retained, Pending
<1>3. Pending' = NoRecord /\ UNCHANGED <<Installed, Retained>> => Atomic!Abort
  BY DEF Atomic!Abort, Installed, Retained, Pending
<1>4. Pending # NoRecord /\ Installed' = Pending /\ Retained' = Installed /\ Pending' = NoRecord
       => Atomic!Commit
  BY DEF Atomic!Commit, Installed, Retained, Pending
<1>5. Pending = NoRecord /\ Retained # NoRecord /\ Installed' = Retained /\ Retained' = Installed
     /\ UNCHANGED Pending => Atomic!Fallback
  BY DEF Atomic!Fallback, Installed, Retained, Pending
<1>6. \A i \in Image : Pending = NoRecord /\ Installed' = i /\ Retained' \in {Installed, NoRecord}
       /\ UNCHANGED Pending => Atomic!AdoptImage(i)
  BY DEF Atomic!AdoptImage, Installed, Retained, Pending
<1>7. \A i \in Image : Pending = NoRecord /\ Installed = i /\ Installed' = Materialized[i]
       /\ Retained' = (IF Retained = Materialized[i] THEN NoRecord ELSE Retained)
       /\ UNCHANGED Pending => Atomic!Materialize(i)
  BY DEF Atomic!Materialize, Atomic!Other, Installed, Retained, Pending
<1> QED
  BY <1>1, <1>2, <1>3, <1>4, <1>5, <1>6, <1>7

LEMMA AtomicStep ==
  ASSUME Composed, SafeInv, SafeInv', SwitchInv, SwitchInv', [Next]_vars
  PROVE  [Atomic!Next]_(Atomic!vars)
<1> DEFINE Still == UNCHANGED <<Installed, Retained, Pending>>
<1>0. Still => [Atomic!Next]_(Atomic!vars)
  BY AtomicSteps
<1> USE RecordAssumption, RecordTokens, OpHasTarget
        DEF Composed, SafeInv, StartupAlone, StartupJournal, OperationJournal, IdleStartup, BeforePlan, RevertsJournal,
            SlotsInJournal, JournalIs, BootComplete, TypeInv, TypeOK, OpStep, Result,
            SwitchInv, JournalMoves, UndoneIsLost, Decided, Active, NoJournal,
            Won, Installed, Retained, Pending, 
            diskVars, dshVars, boundVars, receiptVars
<1>e. ASSUME UNCHANGED <<slots, activation, receipts>>, boot' = "down", boot # "down"
      PROVE  [Atomic!Next]_(Atomic!vars)
  <2>1. Decided' <=> Decided
    BY <1>e
  <2>2. CASE boot \notin {"revert", "reverting"} \/ ~Decided
    <3>1. Still
      BY <1>e, <2>1, <2>2
    <3> QED
      BY <1>0, <3>1
  <2>3. CASE boot \in {"revert", "reverting"} /\ Decided
    <3>1. activation \in Journal /\ slots.current = activation.from /\ ~Won /\ Won'
      BY <1>e, <2>1, <2>3
    <3>2. /\ Pending = activation.to /\ Installed = activation.from /\ activation.to # NoRecord
          /\ Installed' = activation.to /\ Retained' = activation.from /\ Pending' = NoRecord
      BY <1>e, <3>1 DEF Journal
    <3> HIDE DEF Installed, Retained, Pending, Won, Atomic!Next
    <3> QED
      BY <3>2, AtomicSteps
  <2> QED
    BY <2>2, <2>3
<1>1. CASE UNCHANGED vars
  BY <1>1, <1>0 DEF vars
<1>2. CASE StartBootstrap
  BY <1>2, <1>0 DEF StartBootstrap, NoPlan
<1>3. CASE RecoverNothing
  BY <1>3, <1>0 DEF RecoverNothing
<1>4. CASE RecoverCommit
  BY <1>4, <1>0 DEF RecoverCommit, CommitSlots
<1>5. CASE RecoverUndecided
  BY <1>5, <1>0 DEF RecoverUndecided
<1>6. CASE RecoverRevert
  BY <1>6, <1>0 DEF RecoverRevert
<1>7. CASE RecoverReverted
  BY <1>7, <1>0 DEF RecoverReverted, CommitSlots
<1>8. CASE RecoverFails
  BY <1>8, <1>e DEF RecoverFails
<1>9. CASE RecoverClear
  <2>1. UNCHANGED <<slots, receipts>> /\ activation' = NoJournal /\ boot = "recovered"
    BY <1>9 DEF RecoverClear
  <2>2. Pending' = NoRecord /\ Installed' = slots.current /\ Retained' = slots.previous
    BY <2>1
  <2>3. CASE Won
    BY <1>0, <2>1, <2>2, <2>3
  <2>4. CASE ~Won
    BY <2>1, <2>2, <2>4, AtomicSteps
  <2> QED
    BY <2>3, <2>4
<1>10. CASE PlanInitialize
  BY <1>10, <1>0 DEF PlanInitialize, PlanFor
<1>11. CASE PlanImage
  BY <1>11, <1>0 DEF PlanImage, PlanFor
<1>12. CASE PlanCurrent
  BY <1>12, <1>0 DEF PlanCurrent, PlanFor
<1>13. CASE PlanUnresolved
  BY <1>13, <1>0 DEF PlanUnresolved, PlanPrevious, PlanFor, PreviousRecoverable
<1>14. CASE PlanConflict
  BY <1>14, <1>0 DEF PlanConflict
<1>14a. CASE NothingSelected
  BY <1>14a, <1>0 DEF NothingSelected
<1>14b. CASE UnresolvedEnds
  BY <1>14b, <1>0 DEF UnresolvedEnds, BootstrapEnds, Idle
<1>15. CASE BootStarts
  BY <1>15, <1>0 DEF BootStarts, Launchable
<1>16. CASE BootRejectsImage
  BY <1>16, <1>0 DEF BootRejectsImage
<1>17. CASE BootTriesPrevious
  BY <1>17, <1>0 DEF BootTriesPrevious, PlanPrevious, PlanFor, PreviousRecoverable
<1>18. CASE BootGivesUp
  BY <1>18, <1>0 DEF BootGivesUp
<1>19. CASE FallbackStarts
  BY <1>19, <1>0 DEF FallbackStarts, Launchable
<1>20. CASE AcceptImage
  <2>1. activation = NoJournal /\ activation' = NoJournal
    BY <1>20 DEF AcceptImage
  <2>2. /\ Pending = NoRecord /\ Installed = slots.current /\ Retained = slots.previous
        /\ Pending' = NoRecord /\ Installed' = slots'.current /\ Retained' = slots'.previous
    BY <2>1
  <2>3. CASE slots.current = plan.target
    BY <1>0, <1>20, <2>2, <2>3 DEF AcceptImage
  <2>4. CASE slots.current # plan.target
    <3>1. plan.target \in Image
      BY <1>20, <2>4 DEF AcceptImage, PlanFresh, PlanFilled
    <3>2. slots'.current = plan.target /\ slots'.previous \in {slots.current, NoRecord}
      BY <1>20, <2>4 DEF AcceptImage, CommitSlots
    <3> HIDE DEF Installed, Retained, Pending, SafeInv, SwitchInv, TypeInv
    <3> QED
      BY <2>2, <3>1, <3>2, AtomicSteps
  <2> QED
    BY <2>3, <2>4
<1>21. CASE AcceptImageStale
  BY <1>21, <1>0 DEF AcceptImageStale, BootstrapEnds, Idle
<1>22. CASE AcceptPrevious
  BY <1>22, <1>0 DEF AcceptPrevious
<1>23. CASE AcceptPreviousRefused
  BY <1>23, <1>0 DEF AcceptPreviousRefused
<1>24. CASE AcceptPreviousActivated
  BY <1>24, <1>0 DEF AcceptPreviousActivated
<1>25. CASE AcceptPreviousJournal
  <2>1. /\ activation = NoJournal /\ UNCHANGED slots /\ boot' = "commit-previous"
        /\ activation' = [phase |-> "receipts-active", from |-> plan.replaces, to |-> plan.target]
        /\ boot = "journal-previous"
    BY <1>25 DEF AcceptPreviousJournal, WriteActivation
  <2>2. slots.current = plan.replaces /\ slots.previous = plan.target /\ plan.target # NoRecord
    BY <2>1 DEF PlanHeld, PlanFilled, Fallback
  <2>3. Won' /\ ~Won
    BY <2>1
  <2>4. Installed' = Retained /\ Retained' = Installed /\ Pending = NoRecord /\ Pending' = NoRecord
    BY <2>1, <2>2, <2>3
  <2> QED
    BY <2>1, <2>2, <2>3, <2>4, AtomicSteps
<1>26. CASE AcceptPreviousCommit
  BY <1>26, <1>0 DEF AcceptPreviousCommit, CommitSlots
<1>27. CASE AcceptPreviousClear
  BY <1>27, <1>0 DEF AcceptPreviousClear
<1>28. CASE Prepare
  <2>1. UNCHANGED <<activation, boot, receipts>>
    BY <1>28 DEF Prepare, OnlyOp
  <2>2. CASE slots.current \notin Image
    BY <1>0, <1>28, <2>1, <2>2 DEF Prepare
  <2>3. CASE slots.current \in Image
    <3>1. activation = NoJournal
      BY <1>28, <2>3 DEF Prepare
    <3>2. /\ slots'.current = Materialized[slots.current]
          /\ slots'.previous = IF slots.previous = Materialized[slots.current] THEN NoRecord
                               ELSE slots.previous
      BY <1>28, <2>3 DEF Prepare, CommitSlots
    <3>3. /\ Pending = NoRecord /\ Installed = slots.current /\ Retained = slots.previous
          /\ Pending' = NoRecord /\ Installed' = slots'.current /\ Retained' = slots'.previous
      BY <2>1, <3>1
    <3> HIDE DEF Installed, Retained, Pending, SafeInv, SwitchInv, TypeInv
    <3> QED
      BY <2>3, <3>2, <3>3, AtomicSteps
  <2> QED
    BY <2>2, <2>3
<1>29. CASE PrepareFails
  BY <1>29, <1>0 DEF PrepareFails, OnlyOp, Idle
<1>30. CASE JournalPrepared
  <2>1. /\ UNCHANGED <<slots, boot>>
        /\ activation' = [phase |-> "prepared", from |-> slots.current, to |-> Destination]
        /\ op.step = "journal" /\ slots.current # NoRecord
    BY <1>30 DEF JournalPrepared, WriteActivation, OnlyOp, OpFilled
  <2>2. ~Won /\ ~Won'
    BY <2>1
  <2>3. /\ Installed = slots.current /\ Pending' = Destination
        /\ Installed' = slots.current /\ Retained' = Retained
    BY <2>1, <2>2
  <2>4. activation'.to \in Record /\ activation'.to # slots.current
    BY <2>1 DEF Journal
  <2> QED
    BY <2>1, <2>3, <2>4, AtomicSteps
<1>31. CASE NotJournaled
  BY <1>31, <1>0 DEF NotJournaled, OnlyOp, Idle
<1>32. CASE SwitchHealthy
  BY <1>32, GotoStep, <1>0 DEF SwitchHealthy, OnlyOp
<1>33. CASE SwitchFails
  BY <1>33, GotoStep, <1>0 DEF SwitchFails, OnlyOp
<1>34. CASE JournalHealthy
  <2>1. /\ UNCHANGED <<slots, boot, receipts>> /\ op.step = "healthy"
        /\ activation' = [phase |-> "healthy", from |-> op.from, to |-> op.to]
    BY <1>34 DEF JournalHealthy, WriteActivation, OnlyOp
  <2>2. /\ activation.phase = "prepared" /\ activation.from = op.from /\ activation.to = op.to
        /\ slots.current = op.from /\ boot \in {"ready", "degraded"} /\ op.to # NoRecord
    BY <2>1
  <2>3. /\ ~Won /\ Installed = op.from /\ Pending = op.to /\ Retained = slots.previous
    BY <2>2
  <2>4. CASE Won'
    BY <2>1, <2>2, <2>3, <2>4, AtomicSteps
  <2>5. CASE ~Won'
    BY <1>0, <2>1, <2>2, <2>3, <2>5
  <2> QED
    BY <2>4, <2>5
<1>35. CASE JournalProbation
  BY <1>35, <1>0 DEF JournalProbation, OnlyOp, WriteActivation, Idle
<1>36. CASE ActivateReceipts
  <2>1. UNCHANGED <<slots, activation, boot, receipts>>
    BY <1>36 DEF ActivateReceipts, OnlyOp, BeginActivation
  <2>2. Still
    BY <2>1
  <2> QED
    BY <1>0, <2>2
<1>37. CASE ReceiptsRefused
  BY <1>37, GotoStep, <1>0 DEF ReceiptsRefused, OnlyOp, Idle
<1>38. CASE JournalReceiptsActive
  <2>1. /\ UNCHANGED <<slots, boot, receipts>> /\ op.step = "activating" /\ Quiet
        /\ activation' = [phase |-> "receipts-active", from |-> op.from, to |-> op.to]
    BY <1>38 DEF JournalReceiptsActive, WriteActivation, OnlyOp
  <2>2. /\ activation.phase \in {"healthy", "probation"} /\ activation.from = op.from
        /\ activation.to = op.to /\ activation # NoJournal
        /\ boot \in {"ready", "degraded"} /\ op.to \in Record
    BY <2>1
  <2>3. Won' /\ Installed' = op.to /\ Retained' = op.from /\ Pending' = NoRecord
    BY <2>1, <2>2
  <2>4. CASE activation.phase = "healthy"
    <3>1. ReceiptTokens[op.to] \subseteq Active
      BY <2>1, <2>2 DEF WhatIsWritten, TokensComing, Tokens, Quiet
    <3>2. Still
      BY <2>2, <2>3, <2>4, <3>1
    <3> QED
      BY <1>0, <3>2
  <2>5. CASE activation.phase = "probation"
    <3>1. /\ ~Won /\ slots.current = op.from /\ Pending = op.to /\ Installed = op.from
          /\ op.to # NoRecord
      BY <2>2, <2>5
    <3>2. Pending # NoRecord /\ Installed' = Pending /\ Retained' = Installed
      BY <2>3, <3>1
    <3> HIDE DEF Installed, Retained, Pending, Won, Atomic!Next
    <3> QED
      BY <2>3, <3>2, AtomicSteps
  <2> QED
    BY <2>2, <2>4, <2>5
<1>39. CASE Commit
  BY <1>39, GotoStep, <1>0 DEF Commit, OnlyOp, CommitSlots
<1>40. CASE Clear
  BY <1>40, GotoStep, <1>0 DEF Clear, OnlyOp
<1>41. CASE Publish
  BY <1>41, <1>0 DEF Publish, OnlyOp, Idle
<1>42. CASE UndoReceipts
  BY <1>42, GotoStep, <1>0 DEF UndoReceipts, OnlyOp
<1>43. CASE UndoReceiptsEnd
  BY <1>43, GotoStep, <1>0 DEF UndoReceiptsEnd, OnlyOp
<1>44. CASE Undo
  BY <1>44, GotoStep, <1>0 DEF Undo, OnlyOp
<1>45. CASE UndoClear
  <2>1. UNCHANGED <<slots, boot>> /\ activation' = NoJournal /\ ~Decided
    BY <1>45 DEF UndoClear, OnlyOp
  <2>2. Pending' = NoRecord /\ UNCHANGED <<Installed, Retained>>
    BY <2>1
  <2> QED
    BY <2>2, AtomicSteps
<1>46. CASE \E c \in Installable : RequestActivate(c) \/ RequestStage(c)
  BY <1>46, <1>0 DEF RequestActivate, RequestStage, Request, Accepting, OnlyOp, Idle
<1>47. CASE \E c \in Installable : RequestCommit(c)
  BY <1>47, <1>0 DEF RequestCommit, Accepting, OnlyOp, Idle
<1>48. CASE \E c \in Installable : ImportCandidate(c)
  BY <1>48, <1>0 DEF ImportCandidate, Accepting
<1>49. CASE RequestRollback
  BY <1>49, <1>0 DEF RequestRollback, OnlyOp, Request, Accepting
<1>50. CASE CancelCandidate
  <2>1. UNCHANGED <<slots, boot>> /\ activation' = NoJournal
    BY <1>50 DEF CancelCandidate, OnlyOp
  <2>2. ~Decided
    BY <1>50 DEF CancelCandidate, Accepting
  <2>3. Pending' = NoRecord /\ UNCHANGED <<Installed, Retained>>
    BY <2>1, <2>2
  <2> QED
    BY <2>3, AtomicSteps
<1>51. CASE SuspendDsh
  BY <1>51, <1>0 DEF SuspendDsh, OnlyOp, Accepting
<1>52. CASE ResumeDsh
  BY <1>52, <1>0 DEF ResumeDsh, OnlyOp, Accepting
<1>53. CASE \E t \in Token : Stage0Writes(t)
  <2>1. PICK t \in Token : Stage0Writes(t)
    BY <1>53
  <2>2. /\ UNCHANGED <<slots, activation, boot>>
        /\ \A u \in Token : receipts'[u] = receipts[u] \/ receipts'[u] = goal[u]
        /\ goal # receipts
    BY <2>1, ReceiptWritten DEF Stage0Writes, Quiet
  <2>3. CASE activation.phase = "healthy" /\ ~Won /\ Won'
    <3>1. slots.current = activation.from
      BY <2>2, <2>3 DEF TokensActive, Tokens, Journal
    <3>2. /\ Pending = activation.to /\ Installed = activation.from /\ activation.to # NoRecord
          /\ Installed' = activation.to /\ Retained' = activation.from /\ Pending' = NoRecord
      BY <2>2, <2>3, <3>1 DEF Journal
    <3> QED
      BY <3>2, AtomicSteps
  <2>4. CASE activation.phase = "healthy" /\ Won
    <3>1. \A u \in ReceiptTokens[activation.to] : u \in Token /\ receipts[u] = "active"
      BY <2>4 DEF Journal
    <3>2. \A u \in ReceiptTokens[activation.to] : receipts'[u] = "active"
      BY <2>2, <2>4, <3>1 DEF OneDirection, Lost, Tokens
    <3>3. Won'
      BY <2>2, <2>4, <3>1, <3>2
    <3>4. Still
      BY <2>2, <2>4, <3>3
    <3> QED
      BY <1>0, <3>4
  <2>5. CASE activation.phase # "healthy" \/ (~Won /\ ~Won')
    <3>1. Won <=> Won'
      BY <2>2, <2>5
    <3>2. Still
      BY <2>2, <3>1
    <3> QED
      BY <1>0, <3>2
  <2> QED
    BY <2>3, <2>4, <2>5
<1>54. CASE \E t \in Token : RevokeStaged(t)
  <2>1. PICK t \in Token : RevokeStaged(t)
    BY <1>54
  <2>2. /\ UNCHANGED <<slots, activation, boot>>
        /\ \A u \in Token : receipts'[u] = "active" <=> receipts[u] = "active"
    BY <2>1 DEF RevokeStaged, RevokeReceipt
  <2>3. Won <=> Won'
    BY <2>2
  <2>4. Still
    BY <2>2, <2>3
  <2> QED
    BY <1>0, <2>4
<1>55. CASE WriteFails
  BY <1>55, <1>0 DEF WriteFails
<1>56. CASE BootstrapRestarts
  BY <1>56, <1>e DEF BootstrapRestarts, BootstrapEnds
<1>57. CASE ContainerDies
  BY <1>57, <1>e DEF ContainerDies, BootstrapEnds, AbandonActivation
<1> QED
  BY <1>1, <1>2, <1>3, <1>4, <1>5, <1>6, <1>7, <1>8, <1>9, <1>10, <1>11, <1>12, <1>13,
     <1>14, <1>14a, <1>14b, <1>15, <1>16, <1>17, <1>18, <1>19, <1>20, <1>21, <1>22, <1>23, <1>24, <1>25,
     <1>26, <1>27, <1>28, <1>29, <1>30, <1>31, <1>32, <1>33, <1>34, <1>35, <1>36, <1>37,
     <1>38, <1>39, <1>40, <1>41, <1>42, <1>43, <1>44, <1>45, <1>46, <1>47, <1>48, <1>49,
     <1>50, <1>51, <1>52, <1>53, <1>54, <1>55, <1>56, <1>57
     DEF Next, Startup, Recover, Operation, Updater

LEMMA SwitchInit == ASSUME Init PROVE SwitchInv /\ Atomic!Init
<1>1. /\ boot = "down" /\ activation = NoJournal /\ op.step = "none" /\ plan.kind = "none"
      /\ slots.previous = NoRecord /\ slots.current = NoRecord
  BY DEF Init, Idle, NoPlan
<1>2. JournalMoves /\ SlotsDiffer
  BY <1>1 DEF JournalMoves, SlotsDiffer
<1>3. PlanHeld
  BY <1>1 DEF PlanHeld, BeforePlan, Fallback
<1>4. UndoneIsLost /\ OneDirection
  BY <1>1 DEF UndoneIsLost, OneDirection, NoJournal
<1>5. Atomic!Init
  BY <1>1 DEF Atomic!Init, Won
<1> QED
  BY <1>2, <1>3, <1>4, <1>5 DEF SwitchInv

(* However many files a switch of Deployments is written to, and wherever   *)
(* it is cut off, what is installed changes in one step: AtomicDeployment.  *)
(* The exception is a start-up that dies after it has activated the         *)
(* receipts of an automatic fallback and before it journals it.             *)
THEOREM AwaitedIsAtomic ==
  ASSUME Composed
  PROVE  Spec /\ Awaited /\ []~torn => AtomicSwitch
<1>1. SafeInv /\ SwitchInv /\ ~torn /\ [Next]_vars /\ [RevertEnds]_vars => SafeInv' /\ SwitchInv'
  <2> SUFFICES ASSUME SafeInv, SwitchInv, ~torn, [Next]_vars, [RevertEnds]_vars
               PROVE  SafeInv' /\ SwitchInv'
    OBVIOUS
  <2>0. RevertEnds
    BY DEF vars, RevertEnds
  <2>1. SafeInv'
    BY <2>0, SafeStep
  <2>2. (JournalMoves /\ SlotsDiffer /\ PlanHeld)'
    BY SlotsStep DEF SwitchInv
  <2>3. (UndoneIsLost /\ OneDirection)'
    BY <2>0, ReceiptsStep DEF SwitchInv
  <2> QED
    BY <2>1, <2>2, <2>3 DEF SwitchInv
<1>2. SafeInv /\ SafeInv' /\ SwitchInv /\ SwitchInv' /\ [Next]_vars
        => [Atomic!Next]_(Atomic!vars)
  BY AtomicStep
<1>3. Init => SafeInv /\ SwitchInv /\ Atomic!Init
  BY SafeInit, SwitchInit
<1> QED
  BY <1>1, <1>2, <1>3, PTL DEF Spec, Awaited, AtomicSwitch, Atomic!Spec

(* The same without the condition, where it always holds.                   *)
THEOREM SwitchIsAtomic ==
  ASSUME Orderly
  PROVE  Spec /\ []~torn => AtomicSwitch
<1>1. Spec /\ Awaited /\ []~torn => AtomicSwitch
  BY AwaitedIsAtomic DEF Orderly
<1> QED
  BY <1>1, RevertsAwaited, PTL

-----------------------------------------------------------------------------
(* What DSH runs. *)
ImagesNumbered ==
  \A i, j \in Image :
    /\ Authority[i] # "experimental"
    /\ TargetSequence[i] = TargetSequence[j] => Content[i] = Content[j]

(* What a start-up has selected, and what it starts.                        *)
BootView ==
  /\ boot \in BeforePlan \union {"start", "fallback"} => running = NoRecord
  /\ boot \in {"accept"} \union Fallback => running = view /\ view = plan.target
  /\ boot = "start" =>
       CASE plan.kind = "none" -> view \in {NoRecord, slots.current}
         [] plan.kind = "image" -> /\ view = plan.target
                                   /\ plan.replaces \in {NoRecord, slots.current}
                                   /\ slots.current # NoRecord => ~Conflict(slots.current)
         [] OTHER -> view = plan.target
  /\ boot = "fallback" =>
       view = IF plan.kind = "previous" THEN plan.target ELSE slots.current
  /\ boot \in {"start", "fallback", "accept", "accept-previous"} /\ plan.kind # "none" => plan.fresh
  /\ boot = "recovered" => view = slots.current

(* A view that outlives Bootstrap is that of the current Deployment, or the *)
(* next start selects another.                                              *)
Reselected ==
  \/ slots.current = NoRecord
  \/ /\ ~Conflict(slots.current)
     /\ TakesImage(slots.current) \/ PreviousRecoverable(slots.current)
ViewKept == activation = NoJournal => view \in {NoRecord, slots.current} \/ Reselected

(* What an operation has selected, and what it leaves behind.               *)
OpView ==
  /\ op.step \in {"healthy", "receipts", "activating", "commit", "clear", "publish"} =>
       view = op.to /\ running \in {NoRecord, op.to}
  /\ op.step = "publish" => slots.current = op.to
  /\ op.step = "undo-clear" => view = op.from \/ ~Available(op.from)
  /\ BootComplete /\ activation.phase = "probation" =>
       view = activation.to /\ running \in {NoRecord, activation.to}

(* At rest, view and DSH are those of the current Deployment, or of what a  *)
(* start that gave up had selected.                                         *)
Selected(r) ==
  \/ r \in {NoRecord, slots.current}
  \/ boot = "degraded" /\ plan.fresh /\ r = plan.target
RestView ==
  BootComplete /\ op.step \in {"none", "ok"} /\ activation = NoJournal =>
    Selected(view) /\ Selected(running)

ViewInv == BootView /\ ViewKept /\ OpView /\ RestView

LEMMA ReselectedKept ==
  ASSUME UNCHANGED <<slots, image>>
  PROVE  /\ Reselected => Reselected'
         /\ Conflict(slots.current) <=> Conflict(slots.current)'
BY DEF Reselected, Conflict, TakesImage, PreviousRecoverable, DevelopmentRefresh, ImageRollback, Available

(* The Record of another image is replaced by the next start.               *)
LEMMA OtherImage ==
  ASSUME ImagesNumbered, image \in Image, slots.current \in Image, slots.current # image
  PROVE  Reselected
<1>1. /\ Authority[slots.current] # "experimental" /\ ReceiptTokens[slots.current] = {}
      /\ TargetSequence[image] \in Nat /\ TargetSequence[slots.current] \in Nat
      /\ TargetSequence[image] = TargetSequence[slots.current]
           => Content[image] = Content[slots.current]
  BY RecordAssumption, RecordTokens DEF ImagesNumbered
<1>2. ~Conflict(slots.current)
  BY <1>1 DEF Conflict
<1>3. TakesImage(slots.current)
  BY <1>1 DEF TakesImage, ImageRollback
<1> QED
  BY <1>2, <1>3 DEF Reselected

(* A step of Stage-0 selects nothing.                                       *)
LEMMA ViewSame ==
  ASSUME UNCHANGED <<view, running, slots, plan, image, activation, boot, op>>, ViewInv
  PROVE  ViewInv'
<1>b. BootView'
  BY ReselectedKept DEF ViewInv, BootView
<1>k. ViewKept'
  BY ReselectedKept DEF ViewInv, ViewKept
<1>o. OpView'
  BY DEF ViewInv, OpView, Available, BootComplete
<1>r. RestView'
  BY DEF ViewInv, RestView, Selected, BootComplete
<1> QED
  BY <1>b, <1>k, <1>o, <1>r DEF ViewInv

LEMMA ViewStep ==
  ASSUME Composed, ImagesNumbered, SafeInv, JournalMoves, PlanHeld, [Next]_vars, RevertEnds, ViewInv
  PROVE  ViewInv'
<1>0. TypeInv /\ TypeInv' /\ SafeInv'
  BY TypeStep, SafeStep DEF SafeInv
<1> USE <1>0, RecordAssumption, RecordTokens, OpHasTarget, ReselectedKept
        DEF Composed, SafeInv, StartupAlone, StartupJournal, OperationJournal,
            SlotsInJournal, JournalIs, BootComplete, TypeInv, TypeOK, OpStep, Result,
            JournalMoves, PlanHeld, PlanFilled, IdleStartup, Fallback, BeforePlan, NoJournal, 
            ViewInv, BootView, ViewKept, OpView, Selected, RestView,
            diskVars, dshVars, boundVars, receiptVars
<1>1. CASE UNCHANGED vars
  BY <1>1, ViewSame DEF vars
<1>2. CASE StartBootstrap
  BY <1>2 DEF StartBootstrap, NoPlan
<1>3. CASE RecoverNothing
  BY <1>3 DEF RecoverNothing
<1>4. CASE RecoverCommit
  BY <1>4 DEF RecoverCommit, CommitSlots
<1>5. CASE RecoverUndecided
  BY <1>5 DEF RecoverUndecided
<1>6. CASE RecoverRevert
  BY <1>6 DEF RecoverRevert
<1>7. CASE RecoverReverted
  BY <1>7 DEF RecoverReverted, CommitSlots
<1>8. CASE RecoverFails
  BY <1>8 DEF RecoverFails
<1>9. CASE RecoverClear
  BY <1>9 DEF RecoverClear
<1>10. CASE PlanInitialize
  <2>1. /\ plan'.kind = "image" /\ plan'.target = image /\ plan'.replaces = NoRecord /\ plan'.fresh
        /\ view' = image /\ boot' = "start" /\ running' = running /\ slots' = slots /\ running = NoRecord
        /\ slots.current = NoRecord
    BY <1>10 DEF PlanInitialize, PlanFor, Plan
  <2>b. BootView'
    BY <1>10, <2>1
  <2>k. ViewKept'
    BY <1>10, <2>1 DEF Reselected
  <2>o. OpView'
    BY <1>10 DEF PlanInitialize, Available
  <2>r. RestView'
    BY <2>1
  <2> QED
    BY <2>b, <2>k, <2>o, <2>r
<1>11. CASE PlanImage
  <2>1. /\ plan'.kind = "image" /\ plan'.target = image /\ plan'.replaces \in {NoRecord, slots.current} /\ plan'.fresh
        /\ view' = image /\ boot' = "start" /\ running' = running /\ slots' = slots /\ running = NoRecord
        /\ op' = op /\ op.kind = "idle" /\ op.step \notin OpStep /\ UNCHANGED <<slots, image>>
    BY <1>11 DEF PlanImage, PlanFor, Plan
  <2>2. ~Conflict(slots.current) /\ TakesImage(slots.current)
    BY <1>11 DEF PlanImage
  <2>b. BootView'
    BY <2>1, <2>2
  <2>k. ViewKept'
    BY <2>1, <2>2 DEF Reselected
  <2>o. OpView'
    BY <2>1
  <2>r. RestView'
    BY <2>1
  <2> QED
    BY <2>b, <2>k, <2>o, <2>r
<1>12. CASE PlanCurrent
  BY <1>12 DEF PlanCurrent, PlanFor
<1>13. CASE PlanUnresolved
  <2>1. /\ boot' = "start" /\ running' = running /\ slots' = slots /\ running = NoRecord
        /\ op' = op /\ op.kind = "idle" /\ op.step \notin OpStep /\ UNCHANGED <<slots, image, activation>>
        /\ ~Conflict(slots.current) /\ slots.current # NoRecord
        /\ PreviousRecoverable(slots.current) /\ activation = NoJournal /\ plan.kind = "none"
    BY <1>13 DEF PlanUnresolved
  <2>2. /\ plan'.kind = "previous" /\ plan'.target = slots.previous /\ view' = slots.previous /\ plan'.fresh
    BY <1>13 DEF PlanUnresolved, PlanPrevious, PlanFor
  <2> QED
    BY <2>1, <2>2 DEF Reselected
<1>14. CASE PlanConflict
  <2>1. /\ boot' = "start" /\ running' = running /\ slots' = slots /\ running = NoRecord
        /\ op' = op /\ op.kind = "idle" /\ op.step \notin OpStep /\ UNCHANGED <<slots, image, activation, plan, view>>
        /\ activation = NoJournal /\ plan.kind = "none" /\ slots.current # NoRecord /\ Conflict(slots.current)
    BY <1>14 DEF PlanConflict
  <2>2. view \in {NoRecord, slots.current}
    BY <2>1 DEF Reselected
  <2>b. BootView'
    BY <2>1, <2>2
  <2>k. ViewKept'
    BY <2>1, <2>2
  <2>o. OpView'
    BY <2>1
  <2>r. RestView'
    BY <2>1
  <2> QED
    BY <2>b, <2>k, <2>o, <2>r
<1>14a. CASE NothingSelected
  BY <1>14a DEF NothingSelected
<1>14b. CASE UnresolvedEnds
  BY <1>14b DEF UnresolvedEnds, BootstrapEnds, Idle
<1>15. CASE BootStarts
  <2>1. /\ boot = "start" /\ running' = view /\ view # NoRecord
        /\ op' = op /\ op.kind = "idle" /\ op.step \notin OpStep /\ UNCHANGED <<slots, image, activation, plan, view>>
        /\ activation = NoJournal
    BY <1>15 DEF BootStarts, Launchable
  <2>2. \/ plan.kind = "image" /\ boot' = "accept"
        \/ plan.kind = "previous" /\ boot' = "accept-previous"
        \/ plan.kind = "none" /\ boot' = "degraded"
    BY <1>15 DEF BootStarts, Plan
  <2>b. BootView'
    BY <2>1, <2>2
  <2>k. ViewKept'
    BY <2>1
  <2>o. OpView'
    BY <2>1
  <2>r. RestView'
    BY <2>1, <2>2
  <2> QED
    BY <2>b, <2>k, <2>o, <2>r
<1>16. CASE BootRejectsImage
  BY <1>16 DEF BootRejectsImage
<1>17. CASE BootTriesPrevious
  <2>1. /\ boot = "start" /\ boot' = "fallback" /\ running' = running /\ plan.kind = "image"
        /\ op' = op /\ op.kind = "idle" /\ op.step \notin OpStep /\ UNCHANGED <<slots, image, activation>>
        /\ activation = NoJournal
    BY <1>17 DEF BootTriesPrevious
  <2>2. /\ plan'.kind = "previous" /\ plan'.target = slots.previous /\ view' = slots.previous /\ plan'.fresh
    BY <1>17 DEF BootTriesPrevious, PlanPrevious, PlanFor
  <2>3. slots.current = plan.target /\ PreviousRecoverable(slots.current) /\ slots.current # NoRecord
    BY <1>17, <2>1 DEF BootTriesPrevious, PreviousRecoverable
  <2>b. BootView'
    BY <2>1, <2>2
  <2>k. ViewKept'
    BY <2>1, <2>3 DEF Reselected
  <2>o. OpView'
    BY <2>1
  <2>r. RestView'
    BY <2>1
  <2> QED
    BY <2>b, <2>k, <2>o, <2>r
<1>18. CASE BootGivesUp
  BY <1>18 DEF BootGivesUp
<1>19. CASE FallbackStarts
  BY <1>19 DEF FallbackStarts, Launchable
<1>20. CASE AcceptImage
  BY <1>20 DEF AcceptImage, CommitSlots
<1>21. CASE AcceptImageStale
  BY <1>21 DEF AcceptImageStale, BootstrapEnds, Idle
<1>22. CASE AcceptPrevious
  BY <1>22 DEF AcceptPrevious
<1>23. CASE AcceptPreviousRefused
  BY <1>23 DEF AcceptPreviousRefused
<1>24. CASE AcceptPreviousActivated
  BY <1>24 DEF AcceptPreviousActivated
<1>25. CASE AcceptPreviousJournal
  BY <1>25 DEF AcceptPreviousJournal, WriteActivation
<1>26. CASE AcceptPreviousCommit
  BY <1>26 DEF AcceptPreviousCommit, CommitSlots
<1>27. CASE AcceptPreviousClear
  BY <1>27 DEF AcceptPreviousClear
<1>28. CASE Prepare
  BY <1>28, GotoStep DEF Prepare, OnlyOp, CommitSlots
<1>29. CASE PrepareFails
  BY <1>29 DEF PrepareFails, OnlyOp, Idle
<1>30. CASE JournalPrepared
  BY <1>30 DEF JournalPrepared, OnlyOp, WriteActivation, Journaled, Destination, ValidStable, ValidExperimental
<1>31. CASE NotJournaled
  BY <1>31 DEF NotJournaled, OnlyOp, Idle
<1>32. CASE SwitchHealthy
  BY <1>32, GotoStep DEF SwitchHealthy, OnlyOp
<1>33. CASE SwitchFails
  BY <1>33, GotoStep DEF SwitchFails, OnlyOp
<1>34. CASE JournalHealthy
  BY <1>34, GotoStep DEF JournalHealthy, OnlyOp, WriteActivation
<1>35. CASE JournalProbation
  BY <1>35 DEF JournalProbation, OnlyOp, WriteActivation, Idle
<1>36. CASE ActivateReceipts
  BY <1>36, GotoStep DEF ActivateReceipts, OnlyOp
<1>37. CASE ReceiptsRefused
  BY <1>37, GotoStep DEF ReceiptsRefused, OnlyOp, Idle
<1>38. CASE JournalReceiptsActive
  BY <1>38, GotoStep DEF JournalReceiptsActive, OnlyOp, WriteActivation
<1>39. CASE Commit
  BY <1>39, GotoStep DEF Commit, OnlyOp, CommitSlots
<1>40. CASE Clear
  BY <1>40, GotoStep DEF Clear, OnlyOp
<1>41. CASE Publish
  BY <1>41 DEF Publish, OnlyOp, Idle
<1>42. CASE UndoReceipts
  BY <1>42, GotoStep DEF UndoReceipts, OnlyOp
<1>43. CASE UndoReceiptsEnd
  BY <1>43, GotoStep DEF UndoReceiptsEnd, OnlyOp
<1>44. CASE Undo
  <2>1. /\ op.step = "undo" /\ op'.step = "undo-clear" /\ op'.from = op.from /\ op'.kind = op.kind /\ op.kind # "idle"
        /\ UNCHANGED <<slots, image, activation, plan, boot>> /\ BootComplete /\ boot' = boot
    BY <1>44, GotoStep DEF Undo, OnlyOp
  <2>2. activation # NoJournal /\ activation.phase # "probation"
    BY <2>1
  <2>3. view' = op.from \/ ~Available(op.from)'
    BY <1>44, <2>1 DEF Undo, Available
  <2>b. BootView'
    BY <2>1
  <2>k. ViewKept'
    BY <2>1, <2>2
  <2>o. OpView'
    BY <2>1, <2>2, <2>3
  <2>r. RestView'
    BY <2>1
  <2> QED
    BY <2>b, <2>k, <2>o, <2>r
<1>45. CASE UndoClear
  <2>1. /\ op.step = "undo-clear" /\ op' = Idle("failed") /\ op'.step = "failed" /\ op.kind # "idle"
        /\ UNCHANGED <<slots, image, plan, boot, view, running>> /\ BootComplete /\ activation'.phase = "none"
    BY <1>45 DEF UndoClear, OnlyOp, Idle, NoJournal
  <2>2. slots.current = op.from
    BY <2>1
  <2>3. ~Available(op.from) => Reselected
    BY <2>2, OtherImage DEF Available
  <2>b. BootView'
    BY <2>1
  <2>k. ViewKept'
    BY <2>1, <2>2, <2>3
  <2>o. OpView'
    BY <2>1
  <2>r. RestView'
    BY <2>1
  <2> QED
    BY <2>b, <2>k, <2>o, <2>r
<1>46. CASE \E c \in Installable : RequestActivate(c) \/ RequestStage(c)
  BY <1>46 DEF RequestActivate, RequestStage, Request, Accepting, OnlyOp, Idle
<1>47. CASE \E c \in Installable : RequestCommit(c)
  BY <1>47 DEF RequestCommit, Accepting, OnlyOp, Idle
<1>48. CASE \E c \in Installable : ImportCandidate(c)
  BY <1>48 DEF ImportCandidate, Accepting
<1>49. CASE RequestRollback
  BY <1>49 DEF RequestRollback, OnlyOp, Request, Accepting
<1>50. CASE CancelCandidate
  BY <1>50 DEF CancelCandidate, OnlyOp, Accepting
<1>51. CASE SuspendDsh
  BY <1>51 DEF SuspendDsh, OnlyOp, Accepting
<1>52. CASE ResumeDsh
  BY <1>52 DEF ResumeDsh, OnlyOp, Accepting
<1>53. CASE \E t \in Token : Stage0Writes(t)
  BY <1>53, ViewSame DEF Stage0Writes
<1>54. CASE \E t \in Token : RevokeStaged(t)
  BY <1>54, ViewSame DEF RevokeStaged
<1>55. CASE WriteFails
  BY <1>55 DEF WriteFails
<1>56. CASE BootstrapRestarts
  BY <1>56 DEF BootstrapRestarts, BootstrapEnds, Idle
<1>57. CASE ContainerDies
  BY <1>57 DEF ContainerDies, BootstrapEnds, Idle, AbandonActivation
<1> QED
  BY <1>1, <1>2, <1>3, <1>4, <1>5, <1>6, <1>7, <1>8, <1>9, <1>10, <1>11, <1>12, <1>13,
     <1>14, <1>14a, <1>14b, <1>15, <1>16, <1>17, <1>18, <1>19, <1>20, <1>21, <1>22, <1>23, <1>24, <1>25,
     <1>26, <1>27, <1>28, <1>29, <1>30, <1>31, <1>32, <1>33, <1>34, <1>35, <1>36, <1>37,
     <1>38, <1>39, <1>40, <1>41, <1>42, <1>43, <1>44, <1>45, <1>46, <1>47, <1>48, <1>49,
     <1>50, <1>51, <1>52, <1>53, <1>54, <1>55, <1>56, <1>57
     DEF Next, Startup, Recover, Operation, Updater

LEMMA ViewInit == ASSUME Init PROVE ViewInv
<1>1. /\ boot = "down" /\ activation = NoJournal /\ op.step = "none" /\ plan.kind = "none"
      /\ view = NoRecord /\ running = NoRecord
  BY DEF Init, Idle, NoPlan
<1> QED
  BY <1>1 DEF ViewInv, BootView, ViewKept, OpView, RestView, Fallback, BootComplete, NoJournal

(* The Deployment the slots select can be run, and once the start-up is     *)
(* over and no operation goes on DSH runs it or nothing, but for what a     *)
(* start-up that gave up had selected.                                      *)
THEOREM AwaitedIsCurrent ==
  ASSUME Composed, ImagesNumbered
  PROVE  Spec /\ Awaited => []CurrentSound
<1> DEFINE IInv == SafeInv /\ JournalMoves /\ SlotsDiffer /\ PlanHeld /\ ViewInv
<1>1. IInv /\ [Next]_vars /\ [RevertEnds]_vars => IInv'
  <2> SUFFICES ASSUME IInv, [Next]_vars, [RevertEnds]_vars PROVE IInv'
    OBVIOUS
  <2>0. RevertEnds
    BY DEF vars, RevertEnds
  <2>1. SafeInv'
    BY <2>0, SafeStep
  <2>2. (JournalMoves /\ SlotsDiffer /\ PlanHeld)'
    BY SlotsStep
  <2>3. ViewInv'
    BY <2>0, ViewStep
  <2> QED
    BY <2>1, <2>2, <2>3
<1>2. Init => IInv
  BY SafeInit, SwitchInit, ViewInit DEF SwitchInv
<1>3. IInv => RunsCurrent
  <2> SUFFICES ASSUME IInv, Settled, op.step \in {"none", "ok"}
               PROVE  \/ running \in {NoRecord, slots.current}
                      \/ boot = "degraded" /\ plan.fresh /\ running = plan.target
    BY DEF RunsCurrent
  <2> QED
    BY DEF ViewInv, RestView, Settled, Selected
<1>4. Spec /\ Awaited => [](CurrentUsable /\ CurrentActive)
  BY CurrentReceipts
<1> QED
  BY <1>1, <1>2, <1>3, <1>4, PTL DEF Spec, Awaited, CurrentSound

(* The same without the condition, where it always holds.                   *)
THEOREM CurrentCorrect ==
  ASSUME Orderly, ImagesNumbered
  PROVE  Spec => []CurrentSound
<1>1. Spec /\ Awaited => []CurrentSound
  BY AwaitedIsCurrent DEF Orderly
<1> QED
  BY <1>1, RevertsAwaited, PTL

-----------------------------------------------------------------------------
(* What the console shows of the server's state.                           *)

SentLoad == [at : {"sent"}, again : BOOLEAN]
ReadLoad == [at : {"read"}, again : BOOLEAN, saw : Nat]
PageFlow ==
  [at : {"post", "posted", "refresh", "inventory", "status", "shown"}, kind : {"act", "change"},
   blind : BOOLEAN, due : [Kinds -> Nat]]
StatusTypes ==
  /\ actual \in [Kinds -> Nat] /\ shows \in [Kinds -> Nat]
  /\ fetch \in [Kinds -> {NoFetch} \union SentLoad \union ReadLoad]
  /\ flow \in {NoFlow} \union PageFlow

(* Loads of a kind follow one another: what is shown is not newer than     *)
(* what was read last, nor that than what there is.                        *)
LoadsOrdered ==
  \A k \in Kinds :
    /\ shows[k] =< actual[k]
    /\ fetch[k] \in ReadLoad => shows[k] =< fetch[k].saw /\ fetch[k].saw =< actual[k]

(* What a flow is to show of a kind is shown, or a load is under way that  *)
(* will, unless one failed.                                                *)
Shown(k) == flow.blind = TRUE \/ shows[k] >= flow.due[k]
Coming(k) ==
  \/ Shown(k) \/ fetch[k] \in SentLoad
  \/ fetch[k] \in ReadLoad /\ (fetch[k].again = TRUE \/ fetch[k].saw >= flow.due[k])
FlowKnown ==
  flow \in PageFlow =>
    /\ \A k \in Kinds : flow.due[k] =< actual[k]
    /\ flow.at = "posted" /\ flow.kind = "act" => flow.due["inventory"] = 0
    /\ flow.at = "inventory" => Coming("inventory")
    /\ flow.at = "status" => Shown("inventory") /\ Coming("status")
    /\ flow.at = "shown" => Shown("inventory") /\ Shown("status")
ConsoleInv == StatusTypes /\ LoadsOrdered /\ FlowKnown

LEMMA ConsoleBegins == ASSUME ConsoleStatusInit PROVE ConsoleInv
<1>1. actual = [k \in Kinds |-> 0] /\ shows = [k \in Kinds |-> 0] /\ flow = NoFlow
      /\ fetch = [k \in Kinds |-> NoFetch]
  BY DEF ConsoleStatusInit
<1> QED BY <1>1 DEF ConsoleInv, StatusTypes, LoadsOrdered, FlowKnown, NoFetch, NoFlow, PageFlow, ReadLoad

(* The server's state changes under a load: nothing that was coming is     *)
(* lost.                                                                   *)
LEMMA GrowsKnown ==
  ASSUME ConsoleInv, actual' \in [Kinds -> Nat], \A k \in Kinds : actual'[k] >= actual[k],
         UNCHANGED <<fetch, shows, flow>>
  PROVE  ConsoleInv'
<1>1. StatusTypes'
  BY DEF ConsoleInv, StatusTypes
<1>2. LoadsOrdered'
  BY DEF ConsoleInv, StatusTypes, LoadsOrdered, ReadLoad
<1>3. FlowKnown'
  BY DEF ConsoleInv, StatusTypes, FlowKnown, PageFlow, Coming, Shown
<1> QED BY <1>1, <1>2, <1>3 DEF ConsoleInv

LEMMA ServerKnown ==
  ASSUME ConsoleInv, \/ \E k \in Kinds : ChangesElsewhere(k)
                     \/ WorkEnds \/ StreamBreaks \/ StreamOpens
  PROVE  ConsoleInv'
<1>1. UNCHANGED <<fetch, shows, flow>>
  BY DEF ChangesElsewhere, WorkEnds, StreamBreaks, StreamOpens
<1>2. actual' \in [Kinds -> Nat] /\ \A k \in Kinds : actual'[k] >= actual[k]
  BY DEF ConsoleInv, StatusTypes, ChangesElsewhere, WorkEnds, StreamBreaks, StreamOpens, Kinds
<1> QED BY <1>1, <1>2, GrowsKnown

(* A load that is asked for again is run again.                            *)
LEMMA AskedKnown ==
  ASSUME StatusTypes, NEW ks \in SUBSET Kinds, AskFor(ks)
  PROVE  /\ fetch' \in [Kinds -> {NoFetch} \union SentLoad \union ReadLoad]
         /\ \A k \in ks : \/ fetch'[k] \in SentLoad
                          \/ fetch[k] \in ReadLoad /\ fetch'[k] \in ReadLoad /\ fetch'[k].again = TRUE
                             /\ fetch'[k].saw = fetch[k].saw
         /\ \A k \in Kinds \ ks : fetch'[k] = fetch[k]
         /\ \A k \in Kinds : fetch[k] \in SentLoad => fetch'[k] \in SentLoad
<1>1. ASSUME NEW k \in ks PROVE \/ fetch'[k] \in SentLoad
                                \/ fetch[k] \in ReadLoad /\ fetch'[k] \in ReadLoad /\ fetch'[k].again = TRUE
                                   /\ fetch'[k].saw = fetch[k].saw
  <2>1. CASE fetch[k] = NoFetch
    BY <2>1 DEF AskFor, SentLoad
  <2>2. CASE fetch[k] \in SentLoad
    BY <2>2 DEF AskFor, SentLoad, NoFetch
  <2>3. CASE fetch[k] \in ReadLoad
    <3>1. fetch[k] # NoFetch /\ k \in Kinds
      BY <2>3 DEF ReadLoad, NoFetch
    <3>2. fetch'[k] = [fetch[k] EXCEPT !.again = TRUE]
      BY <3>1 DEF AskFor
    <3> QED BY <2>3, <3>2 DEF ReadLoad
  <2> QED BY <2>1, <2>2, <2>3 DEF StatusTypes
<1>2. \A k \in Kinds \ ks : fetch'[k] = fetch[k]
  BY DEF AskFor
<1>3. \A k \in ks : fetch[k] \in SentLoad => fetch'[k] \in SentLoad
  BY <1>1 DEF SentLoad, ReadLoad
<1>4. fetch' \in [Kinds -> {NoFetch} \union SentLoad \union ReadLoad]
  <2>1. fetch' = [k \in Kinds |-> fetch'[k]]
    BY DEF AskFor
  <2>2. \A k \in Kinds : fetch'[k] \in {NoFetch} \union SentLoad \union ReadLoad
    BY <1>1, <1>2 DEF StatusTypes
  <2> QED BY <2>1, <2>2
<1> QED BY <1>1, <1>2, <1>3, <1>4

LEMMA AsksKnown ==
  ASSUME ConsoleInv, NEW ks \in SUBSET Kinds, AskFor(ks), UNCHANGED <<actual, shows, flow>>
  PROVE  ConsoleInv'
<1>1. /\ fetch' \in [Kinds -> {NoFetch} \union SentLoad \union ReadLoad]
      /\ \A k \in ks : \/ fetch'[k] \in SentLoad
                       \/ fetch[k] \in ReadLoad /\ fetch'[k] \in ReadLoad /\ fetch'[k].again = TRUE
                          /\ fetch'[k].saw = fetch[k].saw
      /\ \A k \in Kinds \ ks : fetch'[k] = fetch[k]
  BY AskedKnown DEF ConsoleInv
<1>2. StatusTypes'
  BY <1>1 DEF ConsoleInv, StatusTypes
<1>3. LoadsOrdered'
  BY <1>1 DEF ConsoleInv, LoadsOrdered, SentLoad, ReadLoad
<1>4. \A k \in Kinds : Coming(k) => Coming(k)'
  BY <1>1 DEF Coming, Shown
<1>5. FlowKnown'
  BY <1>4 DEF ConsoleInv, FlowKnown, Shown, Kinds
<1> QED BY <1>2, <1>3, <1>5 DEF ConsoleInv

LEMMA ReadsKnown == ASSUME ConsoleInv, NEW k \in Kinds, Reads(k) PROVE ConsoleInv'
<1>1. /\ fetch[k] \in SentLoad /\ UNCHANGED <<actual, shows, flow>>
      /\ fetch' = [fetch EXCEPT ![k] = [at |-> "read", again |-> fetch[k].again, saw |-> actual[k]]]
  BY DEF Reads, ConsoleInv, StatusTypes, SentLoad, ReadLoad, NoFetch
<1>2. /\ fetch'[k] \in ReadLoad /\ fetch'[k].saw = actual[k]
      /\ \A j \in Kinds \ {k} : fetch'[j] = fetch[j]
      /\ fetch' \in [Kinds -> {NoFetch} \union SentLoad \union ReadLoad]
  BY <1>1 DEF ConsoleInv, StatusTypes, SentLoad, ReadLoad
<1>3. StatusTypes'
  BY <1>1, <1>2 DEF ConsoleInv, StatusTypes
<1>4. LoadsOrdered'
  BY <1>1, <1>2 DEF ConsoleInv, StatusTypes, LoadsOrdered
<1>5. ASSUME flow \in PageFlow, NEW j \in Kinds, Coming(j) PROVE Coming(j)'
  <2>1. CASE j = k
    <3>1. flow.due[k] =< actual[k]
      BY <1>5 DEF ConsoleInv, FlowKnown
    <3> QED BY <1>1, <1>2, <2>1, <3>1 DEF Coming, ConsoleInv, StatusTypes, PageFlow
  <2>2. CASE j # k
    BY <1>1, <1>2, <1>5, <2>2 DEF Coming, Shown
  <2> QED BY <2>1, <2>2
<1>6. FlowKnown'
  BY <1>1, <1>5 DEF ConsoleInv, FlowKnown, Shown, Kinds
<1> QED BY <1>3, <1>4, <1>6 DEF ConsoleInv

LEMMA AnswersKnown == ASSUME ConsoleInv, NEW k \in Kinds, Answers(k) PROVE ConsoleInv'
<1>1. /\ fetch[k] \in ReadLoad /\ UNCHANGED actual /\ fetch' = Again(k)
      /\ \/ shows' = [shows EXCEPT ![k] = fetch[k].saw] /\ flow' = flow
         \/ shows' = shows /\ flow' = IF flow = NoFlow THEN flow ELSE [flow EXCEPT !.blind = TRUE]
  BY DEF Answers, ConsoleInv, StatusTypes, SentLoad, ReadLoad, NoFetch
<1>2. /\ fetch'[k] \in {NoFetch} \union SentLoad
      /\ fetch[k].again = TRUE => fetch'[k] \in SentLoad
      /\ \A j \in Kinds \ {k} : fetch'[j] = fetch[j]
      /\ fetch' \in [Kinds -> {NoFetch} \union SentLoad \union ReadLoad]
  BY <1>1 DEF Again, ConsoleInv, StatusTypes, SentLoad, ReadLoad
<1>3. fetch'[k] \notin ReadLoad
  BY <1>2 DEF NoFetch, SentLoad, ReadLoad
<1>4. CASE shows' = [shows EXCEPT ![k] = fetch[k].saw] /\ flow' = flow
  <2>1. /\ shows' \in [Kinds -> Nat] /\ shows'[k] = fetch[k].saw /\ shows[k] =< fetch[k].saw
        /\ fetch[k].saw \in Nat /\ fetch[k].saw =< actual[k]
        /\ \A j \in Kinds \ {k} : shows'[j] = shows[j]
    BY <1>1, <1>4 DEF ConsoleInv, StatusTypes, LoadsOrdered, ReadLoad
  <2>2. StatusTypes'
    BY <1>1, <1>2, <1>4, <2>1 DEF ConsoleInv, StatusTypes
  <2>3. LoadsOrdered'
    BY <1>1, <1>2, <1>3, <2>1 DEF ConsoleInv, LoadsOrdered
  <2>4. ASSUME flow \in PageFlow, NEW j \in Kinds PROVE (Coming(j) => Coming(j)') /\ (Shown(j) => Shown(j)')
    <3>1. flow.due[j] \in Nat /\ shows[j] \in Nat /\ shows'[j] \in Nat /\ shows'[j] >= shows[j]
      BY <2>1, <2>4 DEF ConsoleInv, StatusTypes, PageFlow
    <3>2. Shown(j) => Shown(j)'
      BY <1>4, <3>1 DEF Shown
    <3>3. CASE j # k
      BY <1>2, <1>4, <3>2, <3>3 DEF Coming
    <3>4. CASE j = k
      <4>1. fetch[k] \notin SentLoad
        BY <1>1 DEF ReadLoad, SentLoad
      <4>2. fetch[k].saw >= flow.due[k] => Shown(k)'
        BY <1>4, <2>1, <3>1, <3>4 DEF Shown
      <4> QED BY <1>2, <3>2, <3>4, <4>1, <4>2 DEF Coming
    <3> QED BY <3>2, <3>3, <3>4
  <2>5. FlowKnown'
    BY <1>1, <1>4, <2>4 DEF ConsoleInv, FlowKnown, Kinds
  <2> QED BY <2>2, <2>3, <2>5 DEF ConsoleInv
<1>5. CASE shows' = shows /\ flow' = IF flow = NoFlow THEN flow ELSE [flow EXCEPT !.blind = TRUE]
  <2>1. flow' \in {NoFlow} \union PageFlow
    BY <1>5 DEF ConsoleInv, StatusTypes, PageFlow
  <2>2. flow' \in PageFlow => flow'.blind = TRUE /\ flow \in PageFlow /\ flow'.due = flow.due
                              /\ flow'.at = flow.at /\ flow'.kind = flow.kind
    BY <1>5 DEF ConsoleInv, StatusTypes, PageFlow, NoFlow
  <2>3. StatusTypes'
    BY <1>1, <1>2, <1>5, <2>1 DEF ConsoleInv, StatusTypes
  <2>4. LoadsOrdered'
    BY <1>1, <1>2, <1>3, <1>5 DEF ConsoleInv, LoadsOrdered
  <2>5. FlowKnown'
    BY <1>1, <2>2 DEF ConsoleInv, FlowKnown, Coming, Shown
  <2> QED BY <2>3, <2>4, <2>5 DEF ConsoleInv
<1> QED BY <1>1, <1>4, <1>5

(* A flow takes its next step, and asks for what it waits for next.        *)
LEMMA FlowSteps ==
  ASSUME ConsoleInv, StartFlow("act") \/ StartFlow("change") \/ Accepted \/ EndsFlow \/ Released
  PROVE  ConsoleInv'
<1>1. CASE StartFlow("act") \/ StartFlow("change")
  <2>1. /\ UNCHANGED <<actual, fetch, shows>>
        /\ \E kind \in {"act", "change"} :
             flow' = [at |-> "post", kind |-> kind, blind |-> FALSE, due |-> [k \in Kinds |-> 0]]
    BY <1>1 DEF StartFlow
  <2>2. flow' \in PageFlow /\ flow'.at = "post" /\ flow'.due = [k \in Kinds |-> 0]
    BY <2>1 DEF PageFlow
  <2> QED BY <2>1, <2>2 DEF ConsoleInv, StatusTypes, LoadsOrdered, FlowKnown
<1>2. CASE Accepted
  <2>1. /\ UNCHANGED <<fetch, shows>> /\ flow \in PageFlow
        /\ actual' = [actual EXCEPT !["status"] = @ + 1]
        /\ flow' = [flow EXCEPT !.at = "posted", !.due = [actual' EXCEPT !["inventory"] = 0]]
    BY <1>2 DEF Accepted, ConsoleInv, StatusTypes, NoFlow
  <2>2. /\ actual' \in [Kinds -> Nat] /\ \A k \in Kinds : actual'[k] >= actual[k]
        /\ [actual' EXCEPT !["inventory"] = 0] \in [Kinds -> Nat]
        /\ \A k \in Kinds : [actual' EXCEPT !["inventory"] = 0][k] =< actual'[k]
        /\ [actual' EXCEPT !["inventory"] = 0]["inventory"] = 0
    BY <2>1 DEF ConsoleInv, StatusTypes, Kinds
  <2>3. flow' \in PageFlow /\ flow'.at = "posted" /\ flow'.due = [actual' EXCEPT !["inventory"] = 0]
    BY <2>1, <2>2 DEF PageFlow
  <2>4. StatusTypes'
    BY <2>1, <2>2, <2>3 DEF ConsoleInv, StatusTypes
  <2>5. LoadsOrdered'
    BY <2>1, <2>2 DEF ConsoleInv, StatusTypes, LoadsOrdered, ReadLoad
  <2>6. FlowKnown'
    BY <2>2, <2>3 DEF FlowKnown
  <2> QED BY <2>4, <2>5, <2>6 DEF ConsoleInv
<1>3. CASE EndsFlow
  <2>1. /\ UNCHANGED <<actual, fetch, shows>> /\ flow \in PageFlow /\ flow.at = "status"
        /\ fetch["status"] = NoFetch /\ flow' = [flow EXCEPT !.at = "shown"]
    BY <1>3 DEF EndsFlow, ConsoleInv, StatusTypes, NoFlow
  <2>2. /\ flow' \in PageFlow /\ flow'.at = "shown"
        /\ flow'.due = flow.due /\ flow'.blind = flow.blind /\ flow'.kind = flow.kind
    BY <2>1 DEF PageFlow
  <2>3. Shown("inventory") /\ Shown("status")
    BY <2>1 DEF ConsoleInv, FlowKnown, Coming, NoFetch, SentLoad, ReadLoad
  <2> QED BY <2>1, <2>2, <2>3 DEF ConsoleInv, StatusTypes, LoadsOrdered, FlowKnown, Shown
<1>4. CASE Released
  <2>1. UNCHANGED <<actual, fetch, shows>> /\ flow' = NoFlow
    BY <1>4 DEF Released
  <2>2. flow' \notin PageFlow
    BY <2>1 DEF NoFlow, PageFlow
  <2> QED BY <2>1, <2>2 DEF ConsoleInv, StatusTypes, LoadsOrdered, FlowKnown
<1> QED BY <1>1, <1>2, <1>3, <1>4

(* A load that was asked for is coming.                                    *)
LEMMA AskedIsComing ==
  ASSUME StatusTypes, NEW ks \in SUBSET Kinds, NEW k \in ks, AskFor(ks) PROVE Coming(k)'
BY AskedKnown DEF Coming

LEMMA FlowAsks == ASSUME ConsoleInv, Posted \/ Refreshes \/ Refreshed PROVE ConsoleInv'
<1>1. UNCHANGED <<actual, shows>> /\ flow \in PageFlow
  BY DEF Posted, Refreshes, Refreshed, ConsoleInv, StatusTypes, NoFlow
<1>2. flow.due \in [Kinds -> Nat] /\ \A k \in Kinds : flow.due[k] =< actual[k]
  BY <1>1 DEF ConsoleInv, FlowKnown, PageFlow
<1>3. CASE Posted /\ flow.kind # "act"
  <2>1. UNCHANGED fetch /\ flow' = [flow EXCEPT !.at = "refresh", !.due = actual]
    BY <1>3 DEF Posted
  <2>2. flow' \in PageFlow /\ flow'.at = "refresh" /\ flow'.due = actual
    BY <1>1, <2>1 DEF PageFlow, ConsoleInv, StatusTypes
  <2> QED BY <1>1, <2>1, <2>2 DEF ConsoleInv, StatusTypes, LoadsOrdered, FlowKnown
<1>4. CASE (Posted /\ flow.kind = "act") \/ Refreshes \/ Refreshed
  <2>1. PICK k \in Kinds : AskFor({k}) /\ flow' = [flow EXCEPT !.at = k]
                         /\ (k = "status" => Shown("inventory"))
    <3>1. CASE Posted /\ flow.kind = "act"
      <4>1. flow.due["inventory"] = 0 /\ shows["inventory"] \in Nat
        BY <1>1, <3>1 DEF Posted, ConsoleInv, FlowKnown, StatusTypes, Kinds
      <4>2. AskFor({"status"}) /\ flow' = [flow EXCEPT !.at = "status"]
        BY <3>1 DEF Posted
      <4> QED BY <4>1, <4>2 DEF Shown, Kinds
    <3>2. CASE Refreshes
      BY <3>2 DEF Refreshes, Kinds
    <3>3. CASE Refreshed
      <4>1. Shown("inventory")
        BY <1>1, <3>3 DEF Refreshed, ConsoleInv, FlowKnown, Coming, NoFetch, SentLoad, ReadLoad
      <4>2. AskFor({"status"}) /\ flow' = [flow EXCEPT !.at = "status"]
        BY <3>3 DEF Refreshed
      <4> QED BY <4>1, <4>2 DEF Kinds
    <3> QED BY <1>4, <3>1, <3>2, <3>3
  <2>2. /\ flow' \in PageFlow /\ flow'.at = k /\ k \in {"status", "inventory"}
        /\ flow'.due = flow.due /\ flow'.blind = flow.blind /\ flow'.kind = flow.kind
    BY <1>1, <2>1 DEF PageFlow, Kinds
  <2>3. Coming(k)'
    BY <2>1, AskedIsComing DEF ConsoleInv
  <2>4. /\ fetch' \in [Kinds -> {NoFetch} \union SentLoad \union ReadLoad]
        /\ \A j \in {k} : \/ fetch'[j] \in SentLoad
                          \/ fetch[j] \in ReadLoad /\ fetch'[j] \in ReadLoad /\ fetch'[j].again = TRUE
                             /\ fetch'[j].saw = fetch[j].saw
        /\ \A j \in Kinds \ {k} : fetch'[j] = fetch[j]
    BY <2>1, AskedKnown DEF ConsoleInv
  <2>5. StatusTypes'
    BY <1>1, <2>2, <2>4 DEF ConsoleInv, StatusTypes
  <2>6. LoadsOrdered'
    BY <1>1, <2>4 DEF ConsoleInv, LoadsOrdered, SentLoad, ReadLoad
  <2>7. FlowKnown'
    BY <1>1, <1>2, <2>1, <2>2, <2>3 DEF FlowKnown, Shown
  <2> QED BY <2>5, <2>6, <2>7 DEF ConsoleInv
<1> QED BY <1>3, <1>4

LEMMA ConsoleStep == ASSUME ConsoleInv, [ConsoleStatusNext]_statusVars PROVE ConsoleInv'
<1>1. CASE EventArrives
  BY <1>1, AsksKnown DEF EventArrives
<1>2. CASE PollsStatus
  BY <1>2, AsksKnown DEF PollsStatus, Kinds
<1>3. CASE UNCHANGED statusVars
  BY <1>3 DEF statusVars, ConsoleInv, StatusTypes, LoadsOrdered, FlowKnown, Coming, Shown
<1> QED BY <1>1, <1>2, <1>3, ServerKnown, ReadsKnown, AnswersKnown, FlowSteps, FlowAsks DEF ConsoleStatusNext

(* Whatever loads a flow of the page runs into, and whatever changes        *)
(* meanwhile: when it gives the buttons back, the page shows the status and *)
(* the inventory with what the flow did, or was told that a load failed     *)
(* (loadStatus, loadInventory and the flows that await them in app.js).     *)
THEOREM FlowsShown == ConsoleStatusSpec => []FlowShown
<1>1. ConsoleStatusSpec => []ConsoleInv
  BY ConsoleBegins, ConsoleStep, PTL DEF ConsoleStatusSpec
<1>2. ConsoleInv => FlowShown
  <2>1. StatusTypes /\ flow \notin PageFlow => flow.at = "rest"
    BY DEF StatusTypes, NoFlow
  <2>2. \A k \in Kinds : k = "status" \/ k = "inventory"
    BY DEF Kinds
  <2> QED BY <2>1, <2>2 DEF ConsoleInv, FlowKnown, Shown, FlowShown
<1> QED BY <1>1, <1>2, PTL
=============================================================================
