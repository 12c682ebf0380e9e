------------------------------- MODULE ProxyTests -------------------------------
(***************************************************************************)
(* Connection tests of the outbound proxy (ProxyTestManager): one test at  *)
(* a time goes through its stages, each with a deadline, the whole with    *)
(* another, and may be cancelled; its record is written to disk on the     *)
(* way, and a restart ends what was running.                               *)
(***************************************************************************)
EXTENDS Naturals

CONSTANTS
  Tests,          \* connection tests
  Stages,         \* the number of stages
  Lookups,        \* stages that resolve names: the stage's deadline does not reach them
  EarlyWriteFails \* whether the first write of a test may fail

VARIABLES
  test,     \* the record of each test in memory
  run,      \* where the run of a test is
  abort,    \* why a test was aborted, if it was
  active,   \* the test that holds the manager
  kept,     \* the status of each test on disk
  alive     \* whether the process runs

testVars == <<test, run, abort, active, kept, alive>>

Nobody == "nobody"
TestInit ==
  /\ test = [t \in Tests |-> "unknown"] /\ kept = test
  /\ run = [t \in Tests |-> [at |-> "none", stage |-> 0]]
  /\ abort = [t \in Tests |-> "none"]
  /\ active = Nobody /\ alive = TRUE

RunIs(t, at, stage) == run' = [run EXCEPT ![t] = [at |-> at, stage |-> stage]]
StatusIs(t, status) == test' = [test EXCEPT ![t] = status]
(* persist: what memory holds when it is written.                          *)
Persisted == kept' = test

BeginTest(t) ==
  /\ alive /\ active = Nobody /\ test[t] = "unknown"
  /\ active' = t /\ StatusIs(t, "running") /\ RunIs(t, "starting", 0)
  /\ UNCHANGED <<abort, kept, alive>>
TestSaved(t) ==
  /\ run[t].at = "starting" /\ Persisted /\ RunIs(t, "entering", 1)
  /\ UNCHANGED <<test, abort, active, alive>>
(* persist rejects in start: the request fails, the run never begins and   *)
(* nothing gives the manager back.                                         *)
TestUnsaved(t) ==
  /\ EarlyWriteFails /\ run[t].at = "starting" /\ RunIs(t, "none", 0)
  /\ UNCHANGED <<test, abort, active, kept, alive>>

(* stage: recorded as running, tried, recorded as successful.              *)
EnterStage(t) ==
  /\ run[t].at = "entering" /\ Persisted
  /\ RunIs(t, "working", run[t].stage)
  /\ UNCHANGED <<test, abort, active, alive>>
StageSucceeds(t) ==
  /\ run[t].at = "working" /\ Persisted
  /\ IF run[t].stage = Stages THEN RunIs(t, "done", Stages) ELSE RunIs(t, "entering", run[t].stage + 1)
  /\ UNCHANGED <<test, abort, active, alive>>
Raised(t) == RunIs(t, "raised", 0) /\ UNCHANGED <<test, abort, active, kept, alive>>
StageFails(t) == run[t].at = "working" /\ Raised(t)
StageTimesOut(t) == run[t].at = "working" /\ run[t].stage \notin Lookups /\ Raised(t)
StageAborted(t) == run[t].at = "working" /\ abort[t] # "none" /\ Raised(t)
WriteFails(t) == run[t].at = "entering" /\ Raised(t)

(* The total timer and cancel abort the test once; the first reason stays. *)
Cancel(t) ==
  /\ alive /\ test[t] = "running" /\ abort[t] = "none"
  /\ abort' = [abort EXCEPT ![t] = "cancelled"]
  /\ UNCHANGED <<test, run, active, kept, alive>>
DefectTotalTimer(t) == FALSE /\ UNCHANGED testVars
TotalTimer(t) ==
  /\ run[t].at \in {"entering", "working", "done", "raised"} /\ abort[t] = "none"
  /\ abort' = [abort EXCEPT ![t] = "timeout"]
  /\ UNCHANGED <<test, run, active, kept, alive>>

Succeed(t) ==
  /\ run[t].at = "done" /\ StatusIs(t, "success") /\ kept' = test'
  /\ RunIs(t, "ending", 0)
  /\ UNCHANGED <<abort, active, alive>>
SuccessUnsaved(t) ==
  /\ run[t].at = "done" /\ StatusIs(t, "success") /\ RunIs(t, "raised", 0)
  /\ UNCHANGED <<abort, active, kept, alive>>
(* The catch clause; the write may fail, the finally clause runs all the   *)
(* same.                                                                   *)
Fail(t) ==
  /\ run[t].at = "raised"
  /\ StatusIs(t, IF abort[t] = "cancelled" THEN "cancelled" ELSE "failed")
  /\ kept' \in {kept, test'}
  /\ RunIs(t, "ending", 0)
  /\ UNCHANGED <<abort, active, alive>>
End(t) ==
  /\ run[t].at = "ending" /\ RunIs(t, "none", 0)
  /\ active' = IF active = t THEN Nobody ELSE active
  /\ abort' = [abort EXCEPT ![t] = "none"] /\ kept' \in {kept, test}
  /\ UNCHANGED <<test, alive>>

(* initialize: what was running has failed.                                *)
Interrupted(status) == IF status = "running" THEN "failed" ELSE status
TestsStop ==
  /\ alive /\ alive' = FALSE
  /\ run' = [t \in Tests |-> [at |-> "none", stage |-> 0]]
  /\ abort' = [t \in Tests |-> "none"] /\ active' = Nobody
  /\ UNCHANGED <<test, kept>>
TestsStart ==
  /\ ~alive /\ alive' = TRUE
  /\ test' = [t \in Tests |-> Interrupted(kept[t])] /\ kept' = test'
  /\ UNCHANGED <<run, abort, active>>

Works(t) ==
  \/ TestSaved(t) \/ EnterStage(t) \/ StageSucceeds(t) \/ StageFails(t) \/ StageTimesOut(t)
  \/ StageAborted(t) \/ WriteFails(t) \/ Succeed(t) \/ SuccessUnsaved(t)
  \/ Fail(t) \/ End(t)
TestNext ==
  \/ TestsStop \/ TestsStart
  \/ \E t \in Tests : BeginTest(t) \/ TestUnsaved(t) \/ Cancel(t) \/ TotalTimer(t) \/ Works(t)
(* The event loop runs what is ready and timers fire; a connection that is *)
(* tried may never answer.                                                 *)
TestFairness ==
  \A t \in Tests :
    /\ WF_testVars(TestSaved(t)) /\ WF_testVars(EnterStage(t)) /\ WF_testVars(StageTimesOut(t))
    /\ WF_testVars(StageAborted(t)) /\ WF_testVars(TotalTimer(t)) /\ WF_testVars(Succeed(t))
    /\ WF_testVars(Fail(t)) /\ WF_testVars(End(t))
TestSpec == TestInit /\ [][TestNext]_testVars /\ TestFairness

------------------------------------------------------------------------------
(* Only the test that holds the manager is under way: no connection is     *)
(* tried for two candidates at a time, and none for a test that is over.   *)
OneTestRuns ==
  \A t \in Tests :
    /\ run[t].at # "none" => active = t
    /\ run[t].at \in {"starting", "entering", "working", "done"} => test[t] = "running"

(* The manager is given back: however the stages, the deadlines, a cancel  *)
(* and failing writes fall, a new test is possible again.                  *)
ManagerFreed == active # Nobody ~> active = Nobody

(* Tests run one at a time, and each gives way to the next.                *)
TestsTakeTurns == []OneTestRuns /\ ManagerFreed
==============================================================================
