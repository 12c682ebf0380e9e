---------------------------- MODULE BootstrapProofs ----------------------------
(***************************************************************************)
(* Proofs about Stage-0.  BootstrapSlots: what it trusts stays in force    *)
(* over every step of the start, the supervisor, the requests and the      *)
(* crashes.  TerminalSessions, the shells its helper keeps: a tab shows    *)
(* all of the one it is connected to.  DshRuntime, the harness it runs:   *)
(* what is served, shown and promised to whom asked.  ConsoleAuth, the tab *)
(* that turns two-factor on: its buttons act.                              *)
(***************************************************************************)
EXTENDS BootstrapSlots, TerminalSessions, DshRuntime, ConsoleAuth, TLAPS

(* What the signer of the keyrings holds to: a key that is revoked is not   *)
(* used again.  Stage-0 checks it against the keyring that is in force     *)
(* only, and a generation whose acceptance was interrupted is not.         *)
RevokedForGood ==
  \A k, n \in Keyring : k.generation <= n.generation => {n.current, n.next} \cap k.revoked = {}

(* The inductive invariant: a generation that is being accepted is kept    *)
(* and follows the keyring in force.                                       *)
LedgerKnown ==
  /\ LedgerType /\ GenerationsUnique /\ TargetReadable
  /\ accepting # None =>
       /\ accepting \in generations
       /\ keyring # None => ValidKeyringTransition(keyring, accepting)

LedgerStep ==
  \/ \E k \in Keyring : RecordGeneration(k)
  \/ ReplaceKeyring
  \/ \E t \in Target : AcceptTarget(t)
  \/ \E o \in Official : AcceptOfficialDsh(o)
  \/ LedgerLost
  \/ UNCHANGED trust

(* What no step of the ledger may do. *)
Forward ==
  /\ keyring # None => /\ keyring' # None
                       /\ keyring'.generation >= keyring.generation
                       /\ keyring.revoked \subseteq keyring'.revoked
  /\ target # None => target' # None /\ target'.sequence >= target.sequence
  /\ official # None => official' # None /\ official'.version >= official.version

LEMMA LedgerInitial == Init => LedgerKnown /\ image \in Image
  BY DEF Init, LedgerInit, LedgerKnown, LedgerType, GenerationsUnique, TargetReadable

-----------------------------------------------------------------------------
(* Every step of Stage-0 is one of the ledger's, or leaves it alone.       *)

LEMMA EndsLedger == Ends => LedgerLost
  BY DEF Ends

LEMMA SupervisorLedger ==
  ASSUME Supervise \/ ChildExits \/ BeginShutdown \/ EndShutdown \/ Crash
  PROVE  LedgerStep /\ UNCHANGED image
<1>1. CASE BeginTransition \/ LaunchCurrent \/ BecomesReady \/ ChildExits \/ BeginShutdown
  BY <1>1 DEF BeginTransition, LaunchCurrent, BecomesReady, ChildExits, BeginShutdown, Kept, LedgerStep
<1>2. CASE RollBack \/ LaunchPrevious \/ LaunchFails
  BY <1>2, EndsLedger DEF RollBack, LaunchPrevious, LaunchFails, Gives, LedgerStep
<1>3. CASE EndShutdown \/ Crash
  BY <1>3, EndsLedger DEF EndShutdown, Crash, LedgerStep
<1> QED
  BY <1>1, <1>2, <1>3 DEF Supervise

LEMMA RequestsLedger ==
  ASSUME Requests \/ CollectReads \/ \E q \in Requester, p \in Package : InstallArchive(q, p)
  PROVE  LedgerStep /\ UNCHANGED image
  BY DEF Requests, StageArchive, RestartForStaged, CollectLists, CollectAssets, CollectRecords,
         CollectReads, InstallArchive, LedgerStep

LEMMA StartLedger ==
  ASSUME image \in Image, Startup \/ AcceptTrust \/ \E i \in Image : StartStage0(i)
  PROVE  LedgerStep /\ image' \in Image
<1>1. CASE ReconcileImage
  BY <1>1, EndsLedger DEF ReconcileImage, LedgerStep
<1>2. CASE AcceptSeed
  <2>1. SeedKeyring[image] \in Keyring
    BY SlotsAssumption DEF SlotsAssumption
  <2> QED
    BY <1>2, <2>1, EndsLedger DEF AcceptSeed, LedgerStep
<1>3. CASE AcceptTrust
  BY <1>3 DEF AcceptTrust, LedgerNext, LedgerStep
<1>4. CASE \E i \in Image : StartStage0(i)
  BY <1>4 DEF StartStage0, LedgerStep
<1> QED
  BY <1>1, <1>2, <1>3, <1>4 DEF Startup

LEMMA NextLedger ==
  ASSUME image \in Image, [Next]_vars
  PROVE  LedgerStep /\ image' \in Image
<1>1. CASE UNCHANGED vars
  BY <1>1 DEF vars, LedgerStep
<1> QED
  BY <1>1, SupervisorLedger, RequestsLedger, StartLedger DEF Next

-----------------------------------------------------------------------------
(* The ledger's steps. *)

LEMMA LedgerKept ==
  ASSUME LedgerKnown, LedgerStep
  PROVE  LedgerKnown' /\ Forward
<1> USE LedgerAssumption DEF LedgerAssumption, LedgerKnown, LedgerType, GenerationsUnique, TargetReadable,
        ValidKeyringTransition, Forward
<1>1. CASE \E k \in Keyring : RecordGeneration(k)
  BY <1>1 DEF RecordGeneration, Acceptable, Unlocked
<1>2. CASE ReplaceKeyring
  BY <1>2 DEF ReplaceKeyring
<1>3. CASE \E t \in Target : AcceptTarget(t)
  BY <1>3 DEF AcceptTarget, Unlocked
<1>4. CASE \E o \in Official : AcceptOfficialDsh(o)
  BY <1>4 DEF AcceptOfficialDsh, Unlocked
<1>5. CASE LedgerLost \/ UNCHANGED trust
  BY <1>5 DEF LedgerLost, trust
<1> QED
  BY <1>1, <1>2, <1>3, <1>4, <1>5 DEF LedgerStep

(* Whatever is interrupted, rolled back or started from another image, a   *)
(* generation names one keyring, the accepted target can be verified, and  *)
(* keyring, target and DSH version never go back.                          *)
THEOREM TrustStandsAlways == ASSUME RevokedForGood PROVE Spec => TrustStands
<1> DEFINE Known == LedgerKnown /\ image \in Image
<1>1. Init => Known
  BY LedgerInitial
<1>2. Known /\ [Next]_vars => Known'
  BY NextLedger, LedgerKept
<1>3. Known => GenerationsUnique /\ TargetVerifiable
  BY DEF LedgerKnown, TargetVerifiable
<1>4. Known /\ [Next]_vars =>
        [ /\ Forward
          /\ keyring' # None =>
               \A g \in generations : g.generation <= keyring'.generation =>
                 {keyring'.current, keyring'.next} \cap g.revoked = {}
        ]_trust
  BY NextLedger, LedgerKept DEF LedgerKnown, LedgerType, RevokedForGood
<1> QED
  BY <1>1, <1>2, <1>3, <1>4, PTL DEF Spec, TrustStands, NoTrustRollback, Forward

-----------------------------------------------------------------------------
(* The slots.  The Updater runs one task at a time, and a task stages or    *)
(* collects.                                                               *)
OneTask == ~Overlapping /\ \A p, q \in Requester : p = q

(* What is queued.  A Bootstrap is staged while no start is in progress.   *)
QueueKnown ==
  /\ queue \in {<<>>, <<"start">>, <<"restart">>, <<"stop">>, <<"restart", "stop">>, <<"stop", "restart">>}
  /\ phase = "starting" => queue = <<"start">>
  /\ phase \in {"serving", "stopped"} => queue \in {<<>>, <<"restart">>}
  /\ phase = "stopping" => queue \in {<<"stop">>, <<"restart", "stop">>, <<"stop", "restart">>}
  /\ ~Serves => queue = <<>> /\ child = NoChild /\ collect = NoCollect /\ Idle
  /\ step # "begin" => Head(queue) # "stop" /\ ~child.ready
  /\ ~Idle => queue \in {<<>>, <<"stop">>}

(* What a start has read and launched. *)
Own(r) == FromImage(r) => r = ImageRecord[image]
StartKnown ==
  /\ step \in {"waiting", "rollback"} => read = slots
  /\ step = "waiting" => child.record = slots.current
  /\ step \in {"relaunch", "rewaiting"} => slots.current = read.previous /\ read.previous # NoRecord
  /\ step = "rewaiting" => child.record = read.previous
  /\ step \in {"waiting", "rewaiting"} => Own(child.record)

(* What is stored while a Bootstrap is staged or a collection runs. *)
Selected == {slots.current, slots.previous} \ {NoRecord}
StoreKnown ==
  /\ SelectedInstalled
  /\ \A q \in Requester : staging[q].at # "none" =>
       /\ collect.at = "none"
       /\ staging[q].record \in records \cap Package
       /\ Content[staging[q].record] \in assets
  /\ collect.at # "none" => Selected \subseteq collect.retained
  /\ collect.at \in {"listed", "pruned"} => Selected \subseteq collect.seen

(* What works, and what a restart goes back to. *)
Good(r) == r # NoRecord /\ Own(r) /\ Content[r] \in proved
Restarting == \/ queue \in {<<"restart">>, <<"restart", "stop">>, <<"stop", "restart">>}
              \/ \E q \in Requester : staging[q].at = "staged"
GoodKnown ==
  /\ KnownGoodKept
  /\ proved \cap Broken = {}
  /\ Restarting /\ step \in {"begin", "launch", "waiting", "rollback"} => Good(slots.previous)
  /\ Restarting /\ step \in {"relaunch", "rewaiting"} => Good(slots.current)
  /\ ~Restarting /\ (child.ready \/ ~Idle) => Good(slots.current)
  /\ ~Restarting /\ child.ready => Content[child.record] = Content[slots.current]

SlotsKnown == /\ TypeOK /\ QueueKnown /\ StartKnown /\ StoreKnown /\ GoodKnown /\ NeverStranded

-----------------------------------------------------------------------------
(* The supervisor's queue holds one or two transitions. *)

LEMMA AppendToOne == ASSUME NEW s, NEW t PROVE  Append(<<s>>, t) = <<s, t>>
<1>1. <<s>> \in Seq({s, t}) /\ Len(<<s>>) = 1 /\ <<s>>[1] = s /\ t \in {s, t} OBVIOUS
<1>2. Append(<<s>>, t) = [i \in 1..2 |-> IF i = 2 THEN t ELSE s] BY <1>1
<1>3. <<s, t>> = [i \in 1..2 |-> IF i = 2 THEN t ELSE s] OBVIOUS
<1> QED BY <1>2, <1>3
LEMMA QueueSteps ==
  /\ \A s, t, u : /\ Head(<<s>>) = s /\ <<s>> # <<>> /\ Tail(<<s>>) = <<>> /\ Append(<<>>, s) = <<s>>
                  /\ Head(<<s, t>>) = s /\ Tail(<<s, t>>) = <<t>> /\ Append(<<s>>, t) = <<s, t>>
                  /\ <<s, t>> # <<>> /\ <<u>> # <<s, t>>
                  /\ <<s>> = <<t>> => s = t
  /\ <<"restart", "stop">> # <<"stop", "restart">>
<1>1. \A s, t : Append(<<s>>, t) = <<s, t>>
  BY AppendToOne
<1>2. \A s, t : /\ Head(<<s, t>>) = s /\ Tail(<<s, t>>) = <<t>> /\ <<s, t>> # <<>>
  OBVIOUS
<1>3. \A s, t, u : <<s>> # <<>> /\ <<u>> # <<s, t>> /\ (<<s>> = <<t>> => s = t)
  OBVIOUS
<1>4. \A s : Head(<<s>>) = s /\ Tail(<<s>>) = <<>> /\ Append(<<>>, s) = <<s>>
  OBVIOUS
<1> QED BY <1>1, <1>2, <1>3, <1>4

LEMMA QueueTail ==
  ASSUME QueueKnown, queue # <<>>
  PROVE  \/ queue = <<"start">> /\ Head(queue) = "start" /\ Tail(queue) = <<>>
         \/ queue = <<"restart">> /\ Head(queue) = "restart" /\ Tail(queue) = <<>>
         \/ queue = <<"stop">> /\ Head(queue) = "stop" /\ Tail(queue) = <<>>
         \/ queue = <<"restart", "stop">> /\ Head(queue) = "restart" /\ Tail(queue) = <<"stop">>
         \/ queue = <<"stop", "restart">> /\ Head(queue) = "stop" /\ Tail(queue) = <<"restart">>
<1>1. CASE queue = <<"start">>
  BY <1>1, QueueSteps
<1>2. CASE queue = <<"restart">>
  BY <1>2, QueueSteps
<1>3. CASE queue = <<"stop">>
  BY <1>3, QueueSteps
<1>4. CASE queue = <<"restart", "stop">>
  BY <1>4, QueueSteps
<1>5. CASE queue = <<"stop", "restart">>
  BY <1>5, QueueSteps
<1> QED
  BY <1>1, <1>2, <1>3, <1>4, <1>5 DEF QueueKnown

LEMMA QueueAppend ==
  /\ Append(<<>>, "stop") = <<"stop">> /\ Append(<<>>, "restart") = <<"restart">>
  /\ Append(<<"stop">>, "restart") = <<"stop", "restart">>
  /\ Append(<<"restart">>, "stop") = <<"restart", "stop">>
BY QueueSteps

LEMMA QueueDiffers ==
  /\ <<"start">> # <<>> /\ <<"restart">> # <<>> /\ <<"stop">> # <<>>
  /\ <<"restart", "stop">> # <<>> /\ <<"stop", "restart">> # <<>>
  /\ <<"start">> # <<"restart">> /\ <<"start">> # <<"stop">> /\ <<"restart">> # <<"stop">>
  /\ <<"start">> # <<"restart", "stop">> /\ <<"start">> # <<"stop", "restart">>
  /\ <<"restart">> # <<"restart", "stop">> /\ <<"restart">> # <<"stop", "restart">>
  /\ <<"stop">> # <<"restart", "stop">> /\ <<"stop">> # <<"stop", "restart">>
  /\ <<"restart", "stop">> # <<"stop", "restart">>
BY QueueSteps

-----------------------------------------------------------------------------
(* The inductive invariant, a part at a time. *)

LEMMA QueueStep ==
  ASSUME OneTask, SlotsKnown, [Next]_vars
  PROVE  QueueKnown'
<1> USE SlotsAssumption, QueueDiffers DEF SlotsKnown, TypeOK, OneTask, QueueKnown, NoChild, NoStaging, Phases, Serves, Idle,
    stage0, store, requests, vars
<1>1. CASE UNCHANGED vars
  BY <1>1 DEF vars
<1>2. CASE \E i \in Image : StartStage0(i)
  BY <1>2 DEF StartStage0
<1>3. CASE ReconcileImage
  BY <1>3 DEF ReconcileImage, Ends
<1>4. CASE AcceptSeed
  BY <1>4 DEF AcceptSeed, Ends
<1>5. CASE BeginTransition
  BY <1>5, QueueTail DEF BeginTransition, At, NextTransition, Kept
<1>6. CASE LaunchCurrent
  BY <1>6 DEF LaunchCurrent, Launch, At, Kept
<1>7. CASE RollBack
  <2>0. queue # <<>> /\ step # "begin" /\ queue' \in {queue, <<>>, Tail(queue)}
    BY <1>7 DEF RollBack, Gives, Ends, NextTransition, At, Waiting
  <2>1. CASE Ends
    BY <1>7, <2>1 DEF Ends
  <2>2. CASE ~Ends
    <3>1. /\ phase' = phase /\ staging' = staging /\ collect' = collect /\ ~child'.ready
          /\ \/ queue' = queue
             \/ queue' = Tail(queue) /\ step' = "begin" /\ Head(queue) # "start"
      BY <2>0, <1>7, <2>2 DEF RollBack, At, Gives, NextTransition
    <3>2. Idle /\ Idle' /\ Serves /\ Serves'
      BY <2>0, <3>1, QueueTail
    <3> QED
      BY <2>0, <3>1, <3>2, QueueTail
  <2> QED
    BY <2>1, <2>2
<1>8. CASE LaunchPrevious
  <2>0. queue # <<>> /\ step # "begin" /\ queue' \in {queue, <<>>, Tail(queue)}
    BY <1>8 DEF LaunchPrevious, Gives, Ends, NextTransition, At, Waiting
  <2>1. CASE Ends
    BY <1>8, <2>1 DEF Ends
  <2>2. CASE ~Ends
    <3>1. /\ phase' = phase /\ staging' = staging /\ collect' = collect /\ ~child'.ready
          /\ \/ queue' = queue
             \/ queue' = Tail(queue) /\ step' = "begin" /\ Head(queue) # "start"
      BY <1>8, <2>2 DEF LaunchPrevious, Launch, Gives, NextTransition
    <3>2. Idle /\ Idle' /\ Serves /\ Serves'
      BY <2>0, <3>1, QueueTail
    <3> QED
      BY <2>0, <3>1, <3>2, QueueTail
  <2> QED
    BY <2>1, <2>2
<1>9. CASE BecomesReady
  BY <1>9, QueueTail DEF BecomesReady, Waiting, NextTransition, Kept
<1>10. CASE LaunchFails
  <2>0. queue # <<>> /\ step # "begin" /\ queue' \in {queue, <<>>, Tail(queue)}
    BY <1>10 DEF LaunchFails, Gives, Ends, NextTransition, At, Waiting
  <2>1. CASE Ends
    BY <1>10, <2>1 DEF Ends
  <2>2. CASE ~Ends
    <3>1. /\ phase' = phase /\ staging' = staging /\ collect' = collect /\ ~child'.ready
          /\ \/ queue' = queue
             \/ queue' = Tail(queue) /\ step' = "begin" /\ Head(queue) # "start"
      BY <1>10, <2>2 DEF LaunchFails, Launch, Gives, NextTransition
    <3>2. Idle /\ Idle' /\ Serves /\ Serves'
      BY <2>0, <3>1, QueueTail
    <3> QED
      BY <2>0, <3>1, <3>2, QueueTail
  <2> QED
    BY <2>1, <2>2
<1>11. CASE ChildExits
  BY <1>11 DEF ChildExits, Kept
<1>12. CASE BeginShutdown
  <2>1. /\ phase = "serving" /\ phase' = "stopping" /\ queue' = Append(queue, "stop")
        /\ UNCHANGED <<step, child, staging, collect>>
    BY <1>12 DEF BeginShutdown, Kept
  <2>2. CASE queue = <<>>
    BY <2>1, <2>2, QueueAppend
  <2>3. CASE queue = <<"restart">>
    BY <2>1, <2>3, QueueAppend, QueueSteps
  <2> QED
    BY <2>1, <2>2, <2>3
<1>13. CASE EndShutdown
  BY <1>13 DEF EndShutdown, Ends
<1>14. CASE Crash
  BY <1>14 DEF Crash, Ends
<1>15. CASE \E q \in Requester, p \in Package : InstallArchive(q, p)
  BY <1>15 DEF InstallArchive
<1>16. CASE \E q \in Requester : StageArchive(q)
  BY <1>16 DEF StageArchive, Commit
<1>17. CASE \E q \in Requester : RestartForStaged(q)
  <2>1. PICK q \in Requester : RestartForStaged(q)
    BY <1>17
  <2>2. /\ phase' = phase /\ Serves /\ queue' = Append(queue, "restart") /\ ~Idle /\ Idle'
        /\ UNCHANGED <<step, child>>
    BY <2>1 DEF RestartForStaged
  <2>3. step = "begin"
    BY <2>2, QueueSteps
  <2>4. CASE queue = <<>>
    BY <2>2, <2>3, <2>4, QueueAppend
  <2>5. CASE queue = <<"stop">>
    BY <2>2, <2>3, <2>5, QueueAppend
  <2> QED
    BY <2>2, <2>4, <2>5
<1>18. CASE CollectReads
  BY <1>18 DEF CollectReads
<1>19. CASE CollectLists
  BY <1>19 DEF CollectLists
<1>20. CASE CollectAssets
  BY <1>20 DEF CollectAssets, Retained
<1>21. CASE CollectRecords
  BY <1>21 DEF CollectRecords
<1>22. CASE AcceptTrust
  BY <1>22 DEF AcceptTrust
<1> QED
  BY <1>1, <1>2, <1>3, <1>4, <1>5, <1>6, <1>7, <1>8, <1>9, <1>10, <1>11, <1>12, <1>13,
     <1>14, <1>15, <1>16, <1>17, <1>18, <1>19, <1>20, <1>21, <1>22
     DEF Next, Startup, Supervise, Requests

(* The type invariant in parts. *)
StoreType ==
  /\ slots \in [current: Record \union {NoRecord}, previous: Record \union {NoRecord}]
  /\ records \subseteq Record
  /\ assets \subseteq {Content[p] : p \in Package}
StepType ==
  /\ phase \in Phases
  /\ step \in {"begin", "launch", "waiting", "rollback", "relaunch", "rewaiting"}
  /\ step # "begin" => queue # <<>>
ReadType == read \in [current: Record \union {NoRecord}, previous: Record \union {NoRecord}]
ChildType ==
  /\ child \in [record: Record \union {NoRecord}, ready: BOOLEAN]
  /\ child.ready \/ step \in {"waiting", "rewaiting"} => child.record # NoRecord
FatalType == fatal \in BOOLEAN
ProvedType == proved \subseteq {Content[r] : r \in Record}
StagingType ==
  /\ staging \in [Requester -> [at: {"none", "installed", "staged"}, record: Record \union {NoRecord}]]
  /\ \A q \in Requester : (staging[q].at = "none") = (staging[q].record = NoRecord)
CollectType ==
  collect \in [at: {"none", "read", "listed", "pruned"}, retained: SUBSET Record, seen: SUBSET Record]
UsedType ==
  used \in [stages: 0..MaxStages, starts: 0..MaxStarts, exits: 0..MaxExits]

LEMMA TypesStep ==
  ASSUME OneTask, SlotsKnown, LedgerType', image' \in Image, QueueKnown', [Next]_vars
  PROVE  TypeOK'
<1>a. StoreType /\ StepType /\ ReadType /\ ChildType /\ FatalType /\ ProvedType /\ StagingType /\ CollectType /\ UsedType
  BY DEF SlotsKnown, TypeOK, StoreType, StepType, ReadType, ChildType, FatalType, ProvedType, StagingType, CollectType, UsedType
<1>q. queue' \in Seq({"start", "restart", "stop"})
  <2>1. /\ <<>> \in Seq({"start", "restart", "stop"}) /\ <<"start">> \in Seq({"start", "restart", "stop"})
        /\ <<"restart">> \in Seq({"start", "restart", "stop"}) /\ <<"stop">> \in Seq({"start", "restart", "stop"})
        /\ <<"restart", "stop">> \in Seq({"start", "restart", "stop"})
        /\ <<"stop", "restart">> \in Seq({"start", "restart", "stop"})
    OBVIOUS
  <2> QED
    BY <2>1 DEF QueueKnown
<1>b. StoreType' /\ StepType' /\ ReadType' /\ ChildType' /\ FatalType' /\ ProvedType' /\ StagingType' /\ CollectType' /\ UsedType' => TypeOK'
  BY <1>q DEF TypeOK, StoreType, StepType, ReadType, ChildType, FatalType, ProvedType, StagingType, CollectType, UsedType
<1>c. /\ NoRecord \notin Record /\ Package \subseteq Record /\ \A i \in Image : ImageRecord[i] \in Record
      /\ MaxStages \in Nat /\ MaxStarts \in Nat /\ MaxExits \in Nat /\ image \in Image
  BY SlotsAssumption DEF SlotsAssumption, Record, SlotsKnown, TypeOK
<1>d. /\ NoChild \in [record: Record \union {NoRecord}, ready: BOOLEAN] /\ ~NoChild.ready
      /\ \A r \in Record : /\ [record |-> r, ready |-> FALSE] \in [record: Record \union {NoRecord}, ready: BOOLEAN]
                          /\ ~[record |-> r, ready |-> FALSE].ready
                          /\ [record |-> r, ready |-> FALSE].record = r
  BY DEF NoChild
<1> USE <1>a, <1>b, <1>c, <1>d
<1>1. CASE UNCHANGED vars
  <2>1. StoreType'
    BY <1>1 DEF vars, StoreType, NoChild, stage0, store, requests
  <2>2. StepType'
    BY <1>1 DEF vars, StepType, Phases, stage0, store, requests
  <2>3. ReadType'
    BY <1>1 DEF vars, ReadType, StoreType, stage0, store, requests
  <2>4. ChildType'
    BY <1>1 DEF vars, ChildType, StoreType, ReadType, StepType, Resolves, stage0, store, requests
  <2>5. FatalType'
    BY <1>1 DEF vars, FatalType, stage0, store, requests
  <2>6. ProvedType'
    BY <1>1 DEF vars, ProvedType, ChildType, stage0, store, requests
  <2>7. StagingType'
    BY <1>1 DEF vars, StagingType, NoStaging, Idle, stage0, store, requests
  <2>8. CollectType'
    BY <1>1 DEF vars, CollectType, NoCollect, StoreType, stage0, store, requests
  <2>9. UsedType'
    BY <1>1 DEF vars, UsedType, stage0, store, requests
  <2> QED
    BY <2>1, <2>2, <2>3, <2>4, <2>5, <2>6, <2>7, <2>8, <2>9
<1>2. CASE \E i \in Image : StartStage0(i)
  <2>1. StoreType'
    BY <1>2 DEF StartStage0, StoreType, NoChild, stage0, store, requests
  <2>2. StepType'
    BY <1>2 DEF StartStage0, StepType, Phases, stage0, store, requests
  <2>3. ReadType'
    BY <1>2 DEF StartStage0, ReadType, StoreType, stage0, store, requests
  <2>4. ChildType'
    BY <1>2 DEF StartStage0, ChildType, StoreType, ReadType, StepType, Resolves, stage0, store, requests
  <2>5. FatalType'
    BY <1>2 DEF StartStage0, FatalType, stage0, store, requests
  <2>6. ProvedType'
    BY <1>2 DEF StartStage0, ProvedType, ChildType, stage0, store, requests
  <2>7. StagingType'
    BY <1>2 DEF StartStage0, StagingType, NoStaging, Idle, stage0, store, requests
  <2>8. CollectType'
    BY <1>2 DEF StartStage0, CollectType, NoCollect, StoreType, stage0, store, requests
  <2>9. UsedType'
    BY <1>2 DEF StartStage0, UsedType, stage0, store, requests
  <2> QED
    BY <2>1, <2>2, <2>3, <2>4, <2>5, <2>6, <2>7, <2>8, <2>9
<1>3. CASE ReconcileImage
  <2>1. StoreType'
    BY <1>3 DEF ReconcileImage, AfterImage, StoreType, Ends, store
  <2>2. StepType'
    BY <1>3 DEF ReconcileImage, Ends, StepType, Phases, stage0, store, requests
  <2>3. ReadType'
    BY <1>3 DEF ReconcileImage, Ends, ReadType, StoreType, stage0, store, requests
  <2>4. ChildType'
    BY <1>3 DEF ReconcileImage, Ends, ChildType, StoreType, ReadType, StepType, Resolves, stage0, store, requests
  <2>5. FatalType'
    BY <1>3 DEF ReconcileImage, Ends, FatalType, stage0, store, requests
  <2>6. ProvedType'
    BY <1>3 DEF ReconcileImage, Remembered, ProvedType
  <2>7. StagingType'
    BY <1>3 DEF ReconcileImage, Ends, StagingType, NoStaging, Idle, stage0, store, requests
  <2>8. CollectType'
    BY <1>3 DEF ReconcileImage, Ends, CollectType, NoCollect, StoreType, stage0, store, requests
  <2>9. UsedType'
    BY <1>3 DEF ReconcileImage, Ends, UsedType, stage0, store, requests
  <2> QED
    BY <2>1, <2>2, <2>3, <2>4, <2>5, <2>6, <2>7, <2>8, <2>9
<1>4. CASE AcceptSeed
  <2>1. StoreType'
    BY <1>4 DEF AcceptSeed, Ends, StoreType, NoChild, stage0, store, requests
  <2>2. StepType'
    BY <1>4 DEF AcceptSeed, Ends, StepType, Phases, stage0, store, requests
  <2>3. ReadType'
    BY <1>4 DEF AcceptSeed, Ends, ReadType, StoreType, stage0, store, requests
  <2>4. ChildType'
    BY <1>4 DEF AcceptSeed, Ends, ChildType, StoreType, ReadType, StepType, Resolves, stage0, store, requests
  <2>5. FatalType'
    BY <1>4 DEF AcceptSeed, Ends, FatalType, stage0, store, requests
  <2>6. ProvedType'
    BY <1>4 DEF AcceptSeed, Ends, ProvedType, ChildType, stage0, store, requests
  <2>7. StagingType'
    BY <1>4 DEF AcceptSeed, Ends, StagingType, NoStaging, Idle, stage0, store, requests
  <2>8. CollectType'
    BY <1>4 DEF AcceptSeed, Ends, CollectType, NoCollect, StoreType, stage0, store, requests
  <2>9. UsedType'
    BY <1>4 DEF AcceptSeed, Ends, UsedType, stage0, store, requests
  <2> QED
    BY <2>1, <2>2, <2>3, <2>4, <2>5, <2>6, <2>7, <2>8, <2>9
<1>5. CASE BeginTransition
  <2>1. StoreType'
    BY <1>5 DEF BeginTransition, At, NextTransition, Kept, StoreType, NoChild, stage0, store, requests
  <2>2. StepType'
    BY <1>5 DEF BeginTransition, At, NextTransition, Kept, StepType, Phases, stage0, store, requests
  <2>3. ReadType'
    BY <1>5 DEF BeginTransition, At, NextTransition, Kept, ReadType, StoreType, stage0, store, requests
  <2>4. ChildType'
    BY <1>5 DEF BeginTransition, At, NextTransition, Kept, ChildType, StoreType, ReadType, StepType, Resolves, stage0, store, requests
  <2>5. FatalType'
    BY <1>5 DEF BeginTransition, At, NextTransition, Kept, FatalType, stage0, store, requests
  <2>6. ProvedType'
    BY <1>5 DEF BeginTransition, At, NextTransition, Kept, ProvedType, ChildType, stage0, store, requests
  <2>7. StagingType'
    BY <1>5 DEF BeginTransition, At, NextTransition, Kept, StagingType, NoStaging, Idle, stage0, store, requests
  <2>8. CollectType'
    BY <1>5 DEF BeginTransition, At, NextTransition, Kept, CollectType, NoCollect, StoreType, stage0, store, requests
  <2>9. UsedType'
    BY <1>5 DEF BeginTransition, At, NextTransition, Kept, UsedType, stage0, store, requests
  <2> QED
    BY <2>1, <2>2, <2>3, <2>4, <2>5, <2>6, <2>7, <2>8, <2>9
<1>6. CASE LaunchCurrent
  <2>1. StoreType'
    BY <1>6 DEF LaunchCurrent, Launch, At, Kept, StoreType, NoChild, stage0, store, requests
  <2>2. StepType'
    BY <1>6 DEF LaunchCurrent, Launch, At, Kept, StepType, Phases, stage0, store, requests
  <2>3. ReadType'
    BY <1>6 DEF LaunchCurrent, Launch, At, Kept, ReadType, StoreType, stage0, store, requests
  <2>4. ChildType'
    <3>1. \/ child' = [record |-> slots.current, ready |-> FALSE] /\ slots.current \in Record
          \/ child' = child /\ step' \notin {"waiting", "rewaiting"}
          \/ child' = NoChild /\ step' = "begin"
      BY <1>6 DEF LaunchCurrent, Launch, At, Kept, Resolves, StoreType
    <3> QED
      BY <3>1 DEF ChildType
  <2>5. FatalType'
    BY <1>6 DEF LaunchCurrent, Launch, At, Kept, FatalType, stage0, store, requests
  <2>6. ProvedType'
    BY <1>6 DEF LaunchCurrent, Launch, At, Kept, ProvedType, ChildType, stage0, store, requests
  <2>7. StagingType'
    BY <1>6 DEF LaunchCurrent, Launch, At, Kept, StagingType, NoStaging, Idle, stage0, store, requests
  <2>8. CollectType'
    BY <1>6 DEF LaunchCurrent, Launch, At, Kept, CollectType, NoCollect, StoreType, stage0, store, requests
  <2>9. UsedType'
    BY <1>6 DEF LaunchCurrent, Launch, At, Kept, UsedType, stage0, store, requests
  <2> QED
    BY <2>1, <2>2, <2>3, <2>4, <2>5, <2>6, <2>7, <2>8, <2>9
<1>7. CASE RollBack
  <2>1. StoreType'
    BY <1>7 DEF RollBack, At, Gives, Ends, NextTransition, Commit, StoreType, NoChild, stage0, store, requests
  <2>2. StepType'
    BY <1>7 DEF RollBack, At, Gives, Ends, NextTransition, Commit, StepType, Phases, stage0, store, requests
  <2>3. ReadType'
    BY <1>7 DEF RollBack, At, Gives, Ends, NextTransition, Commit, ReadType, StoreType, stage0, store, requests
  <2>4. ChildType'
    BY <1>7 DEF RollBack, At, Gives, Ends, NextTransition, Commit, ChildType, StoreType, ReadType, StepType, Resolves, stage0, store, requests
  <2>5. FatalType'
    BY <1>7 DEF RollBack, At, Gives, Ends, NextTransition, Commit, FatalType, stage0, store, requests
  <2>6. ProvedType'
    BY <1>7 DEF RollBack, At, Gives, Ends, NextTransition, Commit, ProvedType, ChildType, stage0, store, requests
  <2>7. StagingType'
    BY <1>7 DEF RollBack, At, Gives, Ends, NextTransition, Commit, StagingType, NoStaging, Idle, stage0, store, requests
  <2>8. CollectType'
    BY <1>7 DEF RollBack, At, Gives, Ends, NextTransition, Commit, CollectType, NoCollect, StoreType, stage0, store, requests
  <2>9. UsedType'
    BY <1>7 DEF RollBack, At, Gives, Ends, NextTransition, Commit, UsedType, stage0, store, requests
  <2> QED
    BY <2>1, <2>2, <2>3, <2>4, <2>5, <2>6, <2>7, <2>8, <2>9
<1>8. CASE LaunchPrevious
  <2>1. StoreType'
    BY <1>8 DEF LaunchPrevious, Launch, At, Gives, Ends, NextTransition, StoreType, NoChild, stage0, store, requests
  <2>2. StepType'
    BY <1>8 DEF LaunchPrevious, Launch, At, Gives, Ends, NextTransition, StepType, Phases, stage0, store, requests
  <2>3. ReadType'
    BY <1>8 DEF LaunchPrevious, Launch, At, Gives, Ends, NextTransition, ReadType, StoreType, stage0, store, requests
  <2>4. ChildType'
    <3>1. \/ child' = [record |-> read.previous, ready |-> FALSE] /\ read.previous \in Record
          \/ child' = child /\ step' \notin {"waiting", "rewaiting"}
          \/ child' = NoChild /\ step' = "begin"
      BY <1>8 DEF LaunchPrevious, Launch, At, Gives, Ends, NextTransition, Resolves, StoreType
    <3> QED
      BY <3>1 DEF ChildType
  <2>5. FatalType'
    BY <1>8 DEF LaunchPrevious, Launch, At, Gives, Ends, NextTransition, FatalType, stage0, store, requests
  <2>6. ProvedType'
    BY <1>8 DEF LaunchPrevious, Launch, At, Gives, Ends, NextTransition, ProvedType, ChildType, stage0, store, requests
  <2>7. StagingType'
    BY <1>8 DEF LaunchPrevious, Launch, At, Gives, Ends, NextTransition, StagingType, NoStaging, Idle, stage0, store, requests
  <2>8. CollectType'
    BY <1>8 DEF LaunchPrevious, Launch, At, Gives, Ends, NextTransition, CollectType, NoCollect, StoreType, stage0, store, requests
  <2>9. UsedType'
    BY <1>8 DEF LaunchPrevious, Launch, At, Gives, Ends, NextTransition, UsedType, stage0, store, requests
  <2> QED
    BY <2>1, <2>2, <2>3, <2>4, <2>5, <2>6, <2>7, <2>8, <2>9
<1>9. CASE BecomesReady
  <2>1. StoreType'
    BY <1>9 DEF BecomesReady, Waiting, NextTransition, Kept, StoreType, NoChild, stage0, store, requests
  <2>2. StepType'
    BY <1>9 DEF BecomesReady, Waiting, NextTransition, Kept, StepType, Phases, stage0, store, requests
  <2>3. ReadType'
    BY <1>9 DEF BecomesReady, Waiting, NextTransition, Kept, ReadType, StoreType, stage0, store, requests
  <2>4. ChildType'
    BY <1>9 DEF BecomesReady, Waiting, NextTransition, Kept, ChildType, StoreType, ReadType, StepType, Resolves, stage0, store, requests
  <2>5. FatalType'
    BY <1>9 DEF BecomesReady, Waiting, NextTransition, Kept, FatalType, stage0, store, requests
  <2>6. ProvedType'
    BY <1>9 DEF BecomesReady, Waiting, NextTransition, Kept, ProvedType, ChildType, stage0, store, requests
  <2>7. StagingType'
    BY <1>9 DEF BecomesReady, Waiting, NextTransition, Kept, StagingType, NoStaging, Idle, stage0, store, requests
  <2>8. CollectType'
    BY <1>9 DEF BecomesReady, Waiting, NextTransition, Kept, CollectType, NoCollect, StoreType, stage0, store, requests
  <2>9. UsedType'
    BY <1>9 DEF BecomesReady, Waiting, NextTransition, Kept, UsedType, stage0, store, requests
  <2> QED
    BY <2>1, <2>2, <2>3, <2>4, <2>5, <2>6, <2>7, <2>8, <2>9
<1>10. CASE LaunchFails
  <2>1. StoreType'
    BY <1>10 DEF LaunchFails, Waiting, Gives, Ends, NextTransition, StoreType, NoChild, stage0, store, requests
  <2>2. StepType'
    BY <1>10 DEF LaunchFails, Waiting, Gives, Ends, NextTransition, StepType, Phases, stage0, store, requests
  <2>3. ReadType'
    BY <1>10 DEF LaunchFails, Waiting, Gives, Ends, NextTransition, ReadType, StoreType, stage0, store, requests
  <2>4. ChildType'
    BY <1>10 DEF LaunchFails, Waiting, Gives, Ends, NextTransition, ChildType, StoreType, ReadType, StepType, Resolves, stage0, store, requests
  <2>5. FatalType'
    BY <1>10 DEF LaunchFails, Waiting, Gives, Ends, NextTransition, FatalType, stage0, store, requests
  <2>6. ProvedType'
    BY <1>10 DEF LaunchFails, Waiting, Gives, Ends, NextTransition, ProvedType, ChildType, stage0, store, requests
  <2>7. StagingType'
    BY <1>10 DEF LaunchFails, Waiting, Gives, Ends, NextTransition, StagingType, NoStaging, Idle, stage0, store, requests
  <2>8. CollectType'
    BY <1>10 DEF LaunchFails, Waiting, Gives, Ends, NextTransition, CollectType, NoCollect, StoreType, stage0, store, requests
  <2>9. UsedType'
    BY <1>10 DEF LaunchFails, Waiting, Gives, Ends, NextTransition, UsedType, stage0, store, requests
  <2> QED
    BY <2>1, <2>2, <2>3, <2>4, <2>5, <2>6, <2>7, <2>8, <2>9
<1>11. CASE ChildExits
  <2>1. StoreType'
    BY <1>11 DEF ChildExits, Kept, StoreType, NoChild, stage0, store, requests
  <2>2. StepType'
    BY <1>11 DEF ChildExits, Kept, StepType, Phases, stage0, store, requests
  <2>3. ReadType'
    BY <1>11 DEF ChildExits, Kept, ReadType, StoreType, stage0, store, requests
  <2>4. ChildType'
    BY <1>11 DEF ChildExits, ChildType, SlotsKnown, QueueKnown
  <2>5. FatalType'
    BY <1>11 DEF ChildExits, Kept, FatalType, stage0, store, requests
  <2>6. ProvedType'
    BY <1>11 DEF ChildExits, Kept, ProvedType, ChildType, stage0, store, requests
  <2>7. StagingType'
    BY <1>11 DEF ChildExits, Kept, StagingType, NoStaging, Idle, stage0, store, requests
  <2>8. CollectType'
    BY <1>11 DEF ChildExits, Kept, CollectType, NoCollect, StoreType, stage0, store, requests
  <2>9. UsedType'
    BY <1>11 DEF ChildExits, Kept, UsedType, stage0, store, requests
  <2> QED
    BY <2>1, <2>2, <2>3, <2>4, <2>5, <2>6, <2>7, <2>8, <2>9
<1>12. CASE BeginShutdown
  <2>1. StoreType'
    BY <1>12 DEF BeginShutdown, Kept, StoreType, NoChild, stage0, store, requests
  <2>2. StepType'
    BY <1>12 DEF BeginShutdown, Kept, StepType, Phases, stage0, store, requests
  <2>3. ReadType'
    BY <1>12 DEF BeginShutdown, Kept, ReadType, StoreType, stage0, store, requests
  <2>4. ChildType'
    BY <1>12 DEF BeginShutdown, Kept, ChildType, StoreType, ReadType, StepType, Resolves, stage0, store, requests
  <2>5. FatalType'
    BY <1>12 DEF BeginShutdown, Kept, FatalType, stage0, store, requests
  <2>6. ProvedType'
    BY <1>12 DEF BeginShutdown, Kept, ProvedType, ChildType, stage0, store, requests
  <2>7. StagingType'
    BY <1>12 DEF BeginShutdown, Kept, StagingType, NoStaging, Idle, stage0, store, requests
  <2>8. CollectType'
    BY <1>12 DEF BeginShutdown, Kept, CollectType, NoCollect, StoreType, stage0, store, requests
  <2>9. UsedType'
    BY <1>12 DEF BeginShutdown, Kept, UsedType, stage0, store, requests
  <2> QED
    BY <2>1, <2>2, <2>3, <2>4, <2>5, <2>6, <2>7, <2>8, <2>9
<1>13. CASE EndShutdown
  <2>1. StoreType'
    BY <1>13 DEF EndShutdown, Ends, StoreType, NoChild, stage0, store, requests
  <2>2. StepType'
    BY <1>13 DEF EndShutdown, Ends, StepType, Phases, stage0, store, requests
  <2>3. ReadType'
    BY <1>13 DEF EndShutdown, Ends, ReadType, StoreType, stage0, store, requests
  <2>4. ChildType'
    BY <1>13 DEF EndShutdown, Ends, ChildType, StoreType, ReadType, StepType, Resolves, stage0, store, requests
  <2>5. FatalType'
    BY <1>13 DEF EndShutdown, Ends, FatalType, stage0, store, requests
  <2>6. ProvedType'
    BY <1>13 DEF EndShutdown, Ends, ProvedType, ChildType, stage0, store, requests
  <2>7. StagingType'
    BY <1>13 DEF EndShutdown, Ends, StagingType, NoStaging, Idle, stage0, store, requests
  <2>8. CollectType'
    BY <1>13 DEF EndShutdown, Ends, CollectType, NoCollect, StoreType, stage0, store, requests
  <2>9. UsedType'
    BY <1>13 DEF EndShutdown, Ends, UsedType, stage0, store, requests
  <2> QED
    BY <2>1, <2>2, <2>3, <2>4, <2>5, <2>6, <2>7, <2>8, <2>9
<1>14. CASE Crash
  <2>1. StoreType'
    BY <1>14 DEF Crash, Ends, StoreType, NoChild, stage0, store, requests
  <2>2. StepType'
    BY <1>14 DEF Crash, Ends, StepType, Phases, stage0, store, requests
  <2>3. ReadType'
    BY <1>14 DEF Crash, Ends, ReadType, StoreType, stage0, store, requests
  <2>4. ChildType'
    BY <1>14 DEF Crash, Ends, ChildType, StoreType, ReadType, StepType, Resolves, stage0, store, requests
  <2>5. FatalType'
    BY <1>14 DEF Crash, Ends, FatalType, stage0, store, requests
  <2>6. ProvedType'
    BY <1>14 DEF Crash, Ends, ProvedType, ChildType, stage0, store, requests
  <2>7. StagingType'
    BY <1>14 DEF Crash, Ends, StagingType, NoStaging, Idle, stage0, store, requests
  <2>8. CollectType'
    BY <1>14 DEF Crash, Ends, CollectType, NoCollect, StoreType, stage0, store, requests
  <2>9. UsedType'
    BY <1>14 DEF Crash, Ends, UsedType, stage0, store, requests
  <2> QED
    BY <2>1, <2>2, <2>3, <2>4, <2>5, <2>6, <2>7, <2>8, <2>9
<1>15. CASE \E q \in Requester, p \in Package : InstallArchive(q, p)
  <2>1. StoreType'
    BY <1>15 DEF InstallArchive, StoreType, NoChild, stage0, store, requests
  <2>2. StepType'
    BY <1>15 DEF InstallArchive, StepType, Phases, stage0, store, requests
  <2>3. ReadType'
    BY <1>15 DEF InstallArchive, ReadType, StoreType, stage0, store, requests
  <2>4. ChildType'
    BY <1>15 DEF InstallArchive, ChildType, StoreType, ReadType, StepType, Resolves, stage0, store, requests
  <2>5. FatalType'
    BY <1>15 DEF InstallArchive, FatalType, stage0, store, requests
  <2>6. ProvedType'
    BY <1>15 DEF InstallArchive, ProvedType, ChildType, stage0, store, requests
  <2>7. StagingType'
    BY <1>15 DEF InstallArchive, StagingType, NoStaging, Idle, stage0, store, requests
  <2>8. CollectType'
    BY <1>15 DEF InstallArchive, CollectType, NoCollect, StoreType, stage0, store, requests
  <2>9. UsedType'
    BY <1>15 DEF InstallArchive, UsedType, stage0, store, requests
  <2> QED
    BY <2>1, <2>2, <2>3, <2>4, <2>5, <2>6, <2>7, <2>8, <2>9
<1>16. CASE \E q \in Requester : StageArchive(q)
  <2>1. StoreType'
    BY <1>16 DEF StageArchive, Commit, StoreType, StagingType
  <2>2. StepType'
    BY <1>16 DEF StageArchive, Commit, StepType, Phases, stage0, store, requests
  <2>3. ReadType'
    BY <1>16 DEF StageArchive, Commit, ReadType, StoreType, stage0, store, requests
  <2>4. ChildType'
    BY <1>16 DEF StageArchive, Commit, ChildType, StoreType, ReadType, StepType, Resolves, stage0, store, requests
  <2>5. FatalType'
    BY <1>16 DEF StageArchive, Commit, FatalType, stage0, store, requests
  <2>6. ProvedType'
    BY <1>16 DEF StageArchive, Commit, ProvedType, ChildType, stage0, store, requests
  <2>7. StagingType'
    BY <1>16 DEF StageArchive, Commit, StagingType, NoStaging, Idle, stage0, store, requests
  <2>8. CollectType'
    BY <1>16 DEF StageArchive, Commit, CollectType, NoCollect, StoreType, stage0, store, requests
  <2>9. UsedType'
    BY <1>16 DEF StageArchive, Commit, UsedType, stage0, store, requests
  <2> QED
    BY <2>1, <2>2, <2>3, <2>4, <2>5, <2>6, <2>7, <2>8, <2>9
<1>17. CASE \E q \in Requester : RestartForStaged(q)
  <2>1. StoreType'
    BY <1>17 DEF RestartForStaged, StoreType, NoChild, stage0, store, requests
  <2>2. StepType'
    BY <1>17 DEF RestartForStaged, StepType, Phases, stage0, store, requests
  <2>3. ReadType'
    BY <1>17 DEF RestartForStaged, ReadType, StoreType, stage0, store, requests
  <2>4. ChildType'
    BY <1>17 DEF RestartForStaged, ChildType, StoreType, ReadType, StepType, Resolves, stage0, store, requests
  <2>5. FatalType'
    BY <1>17 DEF RestartForStaged, FatalType, stage0, store, requests
  <2>6. ProvedType'
    BY <1>17 DEF RestartForStaged, ProvedType, ChildType, stage0, store, requests
  <2>7. StagingType'
    BY <1>17 DEF RestartForStaged, StagingType, NoStaging, Idle, stage0, store, requests
  <2>8. CollectType'
    BY <1>17 DEF RestartForStaged, CollectType, NoCollect, StoreType, stage0, store, requests
  <2>9. UsedType'
    BY <1>17 DEF RestartForStaged, UsedType, stage0, store, requests
  <2> QED
    BY <2>1, <2>2, <2>3, <2>4, <2>5, <2>6, <2>7, <2>8, <2>9
<1>18. CASE CollectReads
  <2>1. StoreType'
    BY <1>18 DEF CollectReads, StoreType, NoChild, stage0, store, requests
  <2>2. StepType'
    BY <1>18 DEF CollectReads, StepType, Phases, stage0, store, requests
  <2>3. ReadType'
    BY <1>18 DEF CollectReads, ReadType, StoreType, stage0, store, requests
  <2>4. ChildType'
    BY <1>18 DEF CollectReads, ChildType, StoreType, ReadType, StepType, Resolves, stage0, store, requests
  <2>5. FatalType'
    BY <1>18 DEF CollectReads, FatalType, stage0, store, requests
  <2>6. ProvedType'
    BY <1>18 DEF CollectReads, ProvedType, ChildType, stage0, store, requests
  <2>7. StagingType'
    BY <1>18 DEF CollectReads, StagingType, NoStaging, Idle, stage0, store, requests
  <2>8. CollectType'
    BY <1>18 DEF CollectReads, CollectType, NoCollect, StoreType, stage0, store, requests
  <2>9. UsedType'
    BY <1>18 DEF CollectReads, UsedType, stage0, store, requests
  <2> QED
    BY <2>1, <2>2, <2>3, <2>4, <2>5, <2>6, <2>7, <2>8, <2>9
<1>19. CASE CollectLists
  <2>1. StoreType'
    BY <1>19 DEF CollectLists, StoreType, NoChild, stage0, store, requests
  <2>2. StepType'
    BY <1>19 DEF CollectLists, StepType, Phases, stage0, store, requests
  <2>3. ReadType'
    BY <1>19 DEF CollectLists, ReadType, StoreType, stage0, store, requests
  <2>4. ChildType'
    BY <1>19 DEF CollectLists, ChildType, StoreType, ReadType, StepType, Resolves, stage0, store, requests
  <2>5. FatalType'
    BY <1>19 DEF CollectLists, FatalType, stage0, store, requests
  <2>6. ProvedType'
    BY <1>19 DEF CollectLists, ProvedType, ChildType, stage0, store, requests
  <2>7. StagingType'
    BY <1>19 DEF CollectLists, StagingType, NoStaging, Idle, stage0, store, requests
  <2>8. CollectType'
    BY <1>19 DEF CollectLists, CollectType, NoCollect, StoreType, stage0, store, requests
  <2>9. UsedType'
    BY <1>19 DEF CollectLists, UsedType, stage0, store, requests
  <2> QED
    BY <2>1, <2>2, <2>3, <2>4, <2>5, <2>6, <2>7, <2>8, <2>9
<1>20. CASE CollectAssets
  <2>1. StoreType'
    BY <1>20 DEF CollectAssets, Retained, StoreType, NoChild, stage0, store, requests
  <2>2. StepType'
    BY <1>20 DEF CollectAssets, Retained, StepType, Phases, stage0, store, requests
  <2>3. ReadType'
    BY <1>20 DEF CollectAssets, Retained, ReadType, StoreType, stage0, store, requests
  <2>4. ChildType'
    BY <1>20 DEF CollectAssets, Retained, ChildType, StoreType, ReadType, StepType, Resolves, stage0, store, requests
  <2>5. FatalType'
    BY <1>20 DEF CollectAssets, Retained, FatalType, stage0, store, requests
  <2>6. ProvedType'
    BY <1>20 DEF CollectAssets, Retained, ProvedType, ChildType, stage0, store, requests
  <2>7. StagingType'
    BY <1>20 DEF CollectAssets, Retained, StagingType, NoStaging, Idle, stage0, store, requests
  <2>8. CollectType'
    BY <1>20 DEF CollectAssets, Retained, CollectType, NoCollect, StoreType, stage0, store, requests
  <2>9. UsedType'
    BY <1>20 DEF CollectAssets, Retained, UsedType, stage0, store, requests
  <2> QED
    BY <2>1, <2>2, <2>3, <2>4, <2>5, <2>6, <2>7, <2>8, <2>9
<1>21. CASE CollectRecords
  <2>1. StoreType'
    BY <1>21 DEF CollectRecords, StoreType, NoChild, stage0, store, requests
  <2>2. StepType'
    BY <1>21 DEF CollectRecords, StepType, Phases, stage0, store, requests
  <2>3. ReadType'
    BY <1>21 DEF CollectRecords, ReadType, StoreType, stage0, store, requests
  <2>4. ChildType'
    BY <1>21 DEF CollectRecords, ChildType, StoreType, ReadType, StepType, Resolves, stage0, store, requests
  <2>5. FatalType'
    BY <1>21 DEF CollectRecords, FatalType, stage0, store, requests
  <2>6. ProvedType'
    BY <1>21 DEF CollectRecords, ProvedType, ChildType, stage0, store, requests
  <2>7. StagingType'
    BY <1>21 DEF CollectRecords, StagingType, NoStaging, Idle, stage0, store, requests
  <2>8. CollectType'
    BY <1>21 DEF CollectRecords, CollectType, NoCollect, StoreType, stage0, store, requests
  <2>9. UsedType'
    BY <1>21 DEF CollectRecords, UsedType, stage0, store, requests
  <2> QED
    BY <2>1, <2>2, <2>3, <2>4, <2>5, <2>6, <2>7, <2>8, <2>9
<1>22. CASE AcceptTrust
  <2>1. StoreType'
    BY <1>22 DEF AcceptTrust, StoreType, NoChild, stage0, store, requests
  <2>2. StepType'
    BY <1>22 DEF AcceptTrust, StepType, Phases, stage0, store, requests
  <2>3. ReadType'
    BY <1>22 DEF AcceptTrust, ReadType, StoreType, stage0, store, requests
  <2>4. ChildType'
    BY <1>22 DEF AcceptTrust, ChildType, StoreType, ReadType, StepType, Resolves, stage0, store, requests
  <2>5. FatalType'
    BY <1>22 DEF AcceptTrust, FatalType, stage0, store, requests
  <2>6. ProvedType'
    BY <1>22 DEF AcceptTrust, ProvedType, ChildType, stage0, store, requests
  <2>7. StagingType'
    BY <1>22 DEF AcceptTrust, StagingType, NoStaging, Idle, stage0, store, requests
  <2>8. CollectType'
    BY <1>22 DEF AcceptTrust, CollectType, NoCollect, StoreType, stage0, store, requests
  <2>9. UsedType'
    BY <1>22 DEF AcceptTrust, UsedType, stage0, store, requests
  <2> QED
    BY <2>1, <2>2, <2>3, <2>4, <2>5, <2>6, <2>7, <2>8, <2>9
<1> QED
  BY <1>1, <1>2, <1>3, <1>4, <1>5, <1>6, <1>7, <1>8, <1>9, <1>10, <1>11, <1>12, <1>13,
     <1>14, <1>15, <1>16, <1>17, <1>18, <1>19, <1>20, <1>21, <1>22
     DEF Next, Startup, Supervise, Requests

LEMMA StartStep ==
  ASSUME OneTask, SlotsKnown, TypeOK', QueueKnown', [Next]_vars
  PROVE  StartKnown'
<1> USE SlotsAssumption DEF SlotsKnown, TypeOK, OneTask, QueueKnown, NoChild, NoStaging, Phases, Serves, Idle,
    StartKnown, Own, FromImage, Resolves, stage0, store, requests, vars
<1>1. CASE UNCHANGED vars
  BY <1>1 DEF vars
<1>2. CASE \E i \in Image : StartStage0(i)
  BY <1>2 DEF StartStage0
<1>3. CASE ReconcileImage
  BY <1>3 DEF ReconcileImage, Ends
<1>4. CASE AcceptSeed
  BY <1>4 DEF AcceptSeed, Ends
<1>5. CASE BeginTransition
  BY <1>5, QueueTail DEF BeginTransition, At, NextTransition, Kept
<1>6. CASE LaunchCurrent
  BY <1>6 DEF LaunchCurrent, Launch, At, Kept
<1>7. CASE RollBack
  BY <1>7, QueueTail DEF RollBack, At, Gives, Ends, NextTransition, Commit
<1>8. CASE LaunchPrevious
  BY <1>8, QueueTail DEF LaunchPrevious, Launch, At, Gives, Ends, NextTransition
<1>9. CASE BecomesReady
  BY <1>9, QueueTail DEF BecomesReady, Waiting, NextTransition, Kept
<1>10. CASE LaunchFails
  BY <1>10, QueueTail DEF LaunchFails, Waiting, Gives, Ends, NextTransition
<1>11. CASE ChildExits
  BY <1>11 DEF ChildExits, Kept
<1>12. CASE BeginShutdown
  BY <1>12, QueueAppend DEF BeginShutdown, Kept
<1>13. CASE EndShutdown
  BY <1>13 DEF EndShutdown, Ends
<1>14. CASE Crash
  BY <1>14 DEF Crash, Ends
<1>15. CASE \E q \in Requester, p \in Package : InstallArchive(q, p)
  BY <1>15 DEF InstallArchive
<1>16. CASE \E q \in Requester : StageArchive(q)
  BY <1>16 DEF StageArchive, Commit
<1>17. CASE \E q \in Requester : RestartForStaged(q)
  BY <1>17, QueueAppend DEF RestartForStaged
<1>18. CASE CollectReads
  BY <1>18 DEF CollectReads
<1>19. CASE CollectLists
  BY <1>19 DEF CollectLists
<1>20. CASE CollectAssets
  BY <1>20 DEF CollectAssets, Retained
<1>21. CASE CollectRecords
  BY <1>21 DEF CollectRecords
<1>22. CASE AcceptTrust
  BY <1>22 DEF AcceptTrust
<1> QED
  BY <1>1, <1>2, <1>3, <1>4, <1>5, <1>6, <1>7, <1>8, <1>9, <1>10, <1>11, <1>12, <1>13,
     <1>14, <1>15, <1>16, <1>17, <1>18, <1>19, <1>20, <1>21, <1>22
     DEF Next, Startup, Supervise, Requests

LEMMA StoreStep ==
  ASSUME OneTask, SlotsKnown, TypeOK', QueueKnown', [Next]_vars
  PROVE  StoreKnown'
<1> USE SlotsAssumption DEF SlotsAssumption, SlotsKnown, TypeOK, OneTask, QueueKnown, NoChild, NoStaging, NoCollect, Phases, Serves, Idle,
    StoreKnown, SelectedInstalled, Selected, FromImage, Record, stage0, store, requests, vars
<1>1. CASE UNCHANGED vars
  BY <1>1 DEF vars
<1>2. CASE \E i \in Image : StartStage0(i)
  BY <1>2 DEF StartStage0
<1>3. CASE ReconcileImage
  BY <1>3 DEF ReconcileImage, Ends, AfterImage
<1>4. CASE AcceptSeed
  BY <1>4 DEF AcceptSeed, Ends
<1>5. CASE BeginTransition
  BY <1>5, QueueTail DEF BeginTransition, At, NextTransition, Kept
<1>6. CASE LaunchCurrent
  BY <1>6 DEF LaunchCurrent, Launch, At, Kept
<1>7. CASE RollBack
  BY <1>7, QueueTail DEF RollBack, At, Gives, Ends, NextTransition, Commit
<1>8. CASE LaunchPrevious
  BY <1>8, QueueTail DEF LaunchPrevious, Launch, At, Gives, Ends, NextTransition
<1>9. CASE BecomesReady
  BY <1>9, QueueTail DEF BecomesReady, Waiting, NextTransition, Kept
<1>10. CASE LaunchFails
  BY <1>10, QueueTail DEF LaunchFails, Waiting, Gives, Ends, NextTransition
<1>11. CASE ChildExits
  BY <1>11 DEF ChildExits, Kept
<1>12. CASE BeginShutdown
  BY <1>12, QueueAppend DEF BeginShutdown, Kept
<1>13. CASE EndShutdown
  BY <1>13 DEF EndShutdown, Ends
<1>14. CASE Crash
  BY <1>14 DEF Crash, Ends
<1>15. CASE \E q \in Requester, p \in Package : InstallArchive(q, p)
  BY <1>15 DEF InstallArchive
<1>16. CASE \E q \in Requester : StageArchive(q)
  BY <1>16 DEF StageArchive, Commit
<1>17. CASE \E q \in Requester : RestartForStaged(q)
  BY <1>17, QueueAppend DEF RestartForStaged
<1>18. CASE CollectReads
  BY <1>18 DEF CollectReads
<1>19. CASE CollectLists
  BY <1>19 DEF CollectLists
<1>20. CASE CollectAssets
  <2>1. /\ assets' = assets \cap Retained /\ collect.at = "listed" /\ collect'.at = "pruned"
        /\ collect'.retained = collect.retained /\ collect'.seen = collect.seen
        /\ UNCHANGED <<slots, records, staging>>
    BY <1>20 DEF CollectAssets
  <2>2. ASSUME NEW r \in Selected, r \in Package PROVE Content[r] \in Retained
    <3>1. r \in collect.retained \cap collect.seen
      BY <2>1, <2>2
    <3>2. r \notin {ImageRecord[i] : i \in Image}
      BY <2>2
    <3> QED
      BY <3>1, <3>2 DEF Retained
  <2>3. SelectedInstalled'
    BY <2>1, <2>2
  <2> QED
    BY <2>1, <2>3
<1>21. CASE CollectRecords
  BY <1>21 DEF CollectRecords
<1>22. CASE AcceptTrust
  BY <1>22 DEF AcceptTrust
<1> QED
  BY <1>1, <1>2, <1>3, <1>4, <1>5, <1>6, <1>7, <1>8, <1>9, <1>10, <1>11, <1>12, <1>13,
     <1>14, <1>15, <1>16, <1>17, <1>18, <1>19, <1>20, <1>21, <1>22
     DEF Next, Startup, Supervise, Requests

LEMMA GoodStep ==
  ASSUME OneTask, SlotsKnown, TypeOK', QueueKnown', [Next]_vars
  PROVE  GoodKnown'
<1> USE SlotsAssumption, QueueDiffers DEF SlotsKnown, TypeOK, OneTask, QueueKnown, NoChild, NoStaging, Phases, Serves, Idle,
    StartKnown, GoodKnown, Good, Own, Restarting, KnownGoodKept, FromImage, stage0, store, requests, vars
<1>1. CASE UNCHANGED vars
  BY <1>1 DEF vars
<1>2. CASE \E i \in Image : StartStage0(i)
  BY <1>2 DEF StartStage0
<1>3. CASE ReconcileImage
  BY <1>3 DEF ReconcileImage, Ends, AfterImage, Remembered
<1>4. CASE AcceptSeed
  BY <1>4, QueueSteps DEF AcceptSeed, Ends
<1>5. CASE BeginTransition
  <2>1. /\ step = "begin" /\ queue # <<>> /\ ~child'.ready /\ step' \in {"begin", "launch"}
        /\ UNCHANGED <<slots, image, staging, proved>>
        /\ \/ queue' = queue
           \/ queue' = Tail(queue) /\ Head(queue) = "stop"
    BY <1>5 DEF BeginTransition, At, NextTransition, Kept
  <2>2. Restarting' = Restarting
    BY <2>1, QueueTail
  <2> QED
    BY <2>1, <2>2
<1>6. CASE LaunchCurrent
  BY <1>6 DEF LaunchCurrent, Launch, At, Kept
<1>7. CASE RollBack
  BY <1>7, QueueTail DEF RollBack, At, Gives, Ends, NextTransition, Commit
<1>8. CASE LaunchPrevious
  BY <1>8, QueueTail DEF LaunchPrevious, Launch, At, Gives, Ends, NextTransition
<1>9. CASE BecomesReady
  <2>1. /\ step \in {"waiting", "rewaiting"} /\ step' = "begin" /\ queue # <<>> /\ queue' = Tail(queue)
        /\ child' = [child EXCEPT !.ready = TRUE] /\ Content[child.record] \notin Broken
        /\ proved' = proved \union {Content[child.record]}
        /\ UNCHANGED <<slots, image, staging>>
    BY <1>9 DEF BecomesReady, Waiting, NextTransition, Kept
  <2>2. /\ child.record = slots.current /\ slots.current # NoRecord /\ Own(slots.current) /\ child'.record = child.record
    BY <2>1
  <2>3. Idle /\ Idle'
    BY <2>1, QueueTail
  <2>4. Head(queue) \in {"start", "restart"}
    BY <2>1, QueueTail
  <2>5. ~Restarting'
    BY <2>1, <2>3, <2>4, QueueTail
  <2>6. Good(slots.current)'
    BY <2>1, <2>2
  <2> QED
    BY <2>1, <2>2, <2>5, <2>6
<1>10. CASE LaunchFails
  BY <1>10, QueueTail DEF LaunchFails, Waiting, Gives, Ends, NextTransition
<1>11. CASE ChildExits
  BY <1>11 DEF ChildExits, Kept
<1>12. CASE BeginShutdown
  <2>1. queue' = Append(queue, "stop") /\ UNCHANGED <<slots, image, staging, proved, child, step>>
    BY <1>12 DEF BeginShutdown, Kept
  <2>2. CASE queue = <<>> /\ queue' = <<"stop">>
    BY <2>1, <2>2
  <2>3. CASE queue = <<"restart">> /\ queue' = <<"restart", "stop">>
    BY <2>1, <2>3
  <2> QED
    BY ONLY <1>12, <2>1, <2>2, <2>3, QueueKnown, QueueAppend DEF BeginShutdown, QueueKnown
<1>13. CASE EndShutdown
  BY <1>13 DEF EndShutdown, Ends
<1>14. CASE Crash
  BY <1>14 DEF Crash, Ends
<1>15. CASE \E q \in Requester, p \in Package : InstallArchive(q, p)
  BY <1>15 DEF InstallArchive
<1>16. CASE \E q \in Requester : StageArchive(q)
  <2> PICK q \in Requester : StageArchive(q)
    BY <1>16
  <2> DEFINE r == staging[q].record
  <2>1. /\ staging[q].at = "installed" /\ UNCHANGED <<queue, step, child, image, proved>>
        /\ ~Idle /\ \A p \in Requester : p = q
    BY DEF StageArchive
  <2>2. ~Restarting /\ Good(slots.current) /\ slots.current \in records /\ r \in Package /\ r # NoRecord
    BY <2>1 DEF StoreKnown, SelectedInstalled
  <2>3. slots'.current = r /\ (r # slots.current => slots'.previous = slots.current)
        /\ (r = slots.current => slots' = slots)
    BY <2>2 DEF StageArchive, Commit
  <2>4. CASE Content[r] = Content[slots.current]
    <3>1. staging'[q].at = "none"
      BY <2>2, <2>4 DEF StageArchive
    <3>2. ~Restarting'
      BY <2>1, <2>2, <3>1
    <3>3. Good(slots.current)'
      BY <2>1, <2>2, <2>3, <2>4
    <3> QED
      BY <2>1, <2>2, <2>3, <2>4, <3>2, <3>3
  <2>5. CASE Content[r] # Content[slots.current]
    <3>1. staging'[q].at = "staged" /\ slots'.previous = slots.current
      BY <2>2, <2>3, <2>5 DEF StageArchive
    <3>2. Restarting' /\ step = "begin"
      BY <2>1, <3>1, QueueSteps
    <3>3. Good(slots.previous)'
      BY <2>1, <2>2, <3>1
    <3> QED
      BY <2>1, <2>2, <3>1, <3>2, <3>3
  <2> QED
    BY <2>4, <2>5
<1>17. CASE \E q \in Requester : RestartForStaged(q)
  BY <1>17, QueueAppend DEF RestartForStaged
<1>18. CASE CollectReads
  BY <1>18 DEF CollectReads
<1>19. CASE CollectLists
  BY <1>19 DEF CollectLists
<1>20. CASE CollectAssets
  BY <1>20 DEF CollectAssets, Retained
<1>21. CASE CollectRecords
  BY <1>21 DEF CollectRecords
<1>22. CASE AcceptTrust
  BY <1>22 DEF AcceptTrust
<1> QED
  BY <1>1, <1>2, <1>3, <1>4, <1>5, <1>6, <1>7, <1>8, <1>9, <1>10, <1>11, <1>12, <1>13,
     <1>14, <1>15, <1>16, <1>17, <1>18, <1>19, <1>20, <1>21, <1>22
     DEF Next, Startup, Supervise, Requests

LEMMA StrandedStep ==
  ASSUME OneTask, SlotsKnown, TypeOK', QueueKnown', [Next]_vars
  PROVE  NeverStranded'
<1> USE SlotsAssumption, QueueDiffers DEF SlotsKnown, TypeOK, OneTask, QueueKnown, NoChild, Phases, Serves, Idle,
    StartKnown, GoodKnown, Good, Own, Restarting, StoreKnown, SelectedInstalled, NeverStranded, stage0, store, requests, vars
<1>1. CASE UNCHANGED vars
  BY <1>1 DEF vars
<1>2. CASE \E i \in Image : StartStage0(i)
  BY <1>2 DEF StartStage0
<1>3. CASE ReconcileImage
  BY <1>3 DEF ReconcileImage, Ends
<1>4. CASE AcceptSeed
  BY <1>4, QueueSteps DEF AcceptSeed, Ends
<1>5. CASE BeginTransition
  BY <1>5, QueueTail DEF BeginTransition, At, NextTransition, Kept
<1>6. CASE LaunchCurrent
  BY <1>6 DEF LaunchCurrent, Launch, At, Kept
<1>7. CASE RollBack
  BY <1>7, QueueTail DEF RollBack, At, Gives, Ends, NextTransition, Commit
<1>8. CASE LaunchPrevious
  <2>1. /\ step = "relaunch" /\ queue # <<>> /\ UNCHANGED <<used, slots, image>>
    BY <1>8 DEF LaunchPrevious, At
  <2>2. CASE Gives
    <3>1. CASE Head(queue) = "start"
      BY <2>2, <3>1 DEF Gives, Ends
    <3>2. CASE Head(queue) # "start"
      <4>1. Good(slots.current) /\ slots.current = read.previous
        BY <2>1, <3>2, QueueTail
      <4>2. Resolves(read.previous)
        BY <4>1 DEF Resolves
      <4>3. queue' = queue
        BY <1>8, <4>2 DEF LaunchPrevious
      <4> QED
        BY <2>1, <4>3
    <3> QED
      BY <3>1, <3>2
  <2>3. CASE queue' = queue
    BY <2>1, <2>3
  <2> QED
    BY <1>8, <2>2, <2>3 DEF LaunchPrevious
<1>9. CASE BecomesReady
  BY <1>9, QueueTail DEF BecomesReady, Waiting, NextTransition, Kept
<1>10. CASE LaunchFails
  BY <1>10, QueueTail DEF LaunchFails, Waiting, Gives, Ends, NextTransition
<1>11. CASE ChildExits
  BY <1>11 DEF ChildExits, Kept
<1>12. CASE BeginShutdown
  BY <1>12, QueueAppend DEF BeginShutdown, Kept
<1>13. CASE EndShutdown
  BY <1>13 DEF EndShutdown, Ends
<1>14. CASE Crash
  BY <1>14 DEF Crash, Ends
<1>15. CASE \E q \in Requester, p \in Package : InstallArchive(q, p)
  BY <1>15 DEF InstallArchive
<1>16. CASE \E q \in Requester : StageArchive(q)
  BY <1>16 DEF StageArchive, Commit
<1>17. CASE \E q \in Requester : RestartForStaged(q)
  BY <1>17, QueueAppend DEF RestartForStaged
<1>18. CASE CollectReads
  BY <1>18 DEF CollectReads
<1>19. CASE CollectLists
  BY <1>19 DEF CollectLists
<1>20. CASE CollectAssets
  BY <1>20 DEF CollectAssets, Retained
<1>21. CASE CollectRecords
  BY <1>21 DEF CollectRecords
<1>22. CASE AcceptTrust
  BY <1>22 DEF AcceptTrust
<1> QED
  BY <1>1, <1>2, <1>3, <1>4, <1>5, <1>6, <1>7, <1>8, <1>9, <1>10, <1>11, <1>12, <1>13,
     <1>14, <1>15, <1>16, <1>17, <1>18, <1>19, <1>20, <1>21, <1>22
     DEF Next, Startup, Supervise, Requests

LEMMA SlotsInitial == Init => SlotsKnown
<1> SUFFICES ASSUME Init PROVE SlotsKnown
  OBVIOUS
<1> USE SlotsAssumption, LedgerInitial DEF SlotsAssumption, Init
<1>1. TypeOK
  <2>1. /\ slots \in [current: Record \union {NoRecord}, previous: Record \union {NoRecord}]
        /\ read = slots /\ child \in [record: Record \union {NoRecord}, ready: BOOLEAN]
        /\ ~child.ready /\ step = "begin"
    BY DEF NoChild
  <2>2. collect \in [at: {"none", "read", "listed", "pruned"}, retained: SUBSET Record, seen: SUBSET Record]
    BY DEF NoCollect
  <2>3. used \in [stages: 0..MaxStages, starts: 0..MaxStarts, exits: 0..MaxExits]
    OBVIOUS
  <2>4. /\ staging \in [Requester -> [at: {"none", "installed", "staged"}, record: Record \union {NoRecord}]]
        /\ \A q \in Requester : staging[q].at = "none" /\ staging[q].record = NoRecord
    BY DEF NoStaging
  <2>5. LedgerType /\ image \in Image /\ phase \in Phases /\ queue \in Seq({"start", "restart", "stop"})
    BY DEF LedgerKnown, Phases
  <2>6. /\ records \subseteq Record /\ assets \subseteq {Content[p] : p \in Package}
        /\ fatal \in BOOLEAN /\ proved \subseteq {Content[r] : r \in Record}
    OBVIOUS
  <2> QED
    BY <2>1, <2>2, <2>3, <2>4, <2>5, <2>6 DEF TypeOK
<1>2. QueueKnown
  BY DEF QueueKnown, Serves, Idle, NoStaging
<1>3. StartKnown
  BY DEF StartKnown
<1>4. StoreKnown
  BY DEF StoreKnown, SelectedInstalled, Selected, NoStaging, NoCollect
<1>5. GoodKnown
  BY QueueDiffers DEF GoodKnown, KnownGoodKept, Restarting, Idle, NoStaging, NoChild
<1>6. NeverStranded
  BY DEF NeverStranded
<1> QED
  BY <1>1, <1>2, <1>3, <1>4, <1>5, <1>6 DEF SlotsKnown

LEMMA SlotsKept == ASSUME OneTask PROVE Spec => [](LedgerKnown /\ SlotsKnown)
<1> DEFINE IInv == LedgerKnown /\ SlotsKnown
<1>1. Init => IInv
  BY LedgerInitial, SlotsInitial
<1>2. IInv /\ [Next]_vars => IInv'
  <2> SUFFICES ASSUME IInv, [Next]_vars PROVE IInv'
    OBVIOUS
  <2>1. image \in Image
    BY DEF SlotsKnown, TypeOK
  <2>2. LedgerKnown' /\ image' \in Image
    BY <2>1, NextLedger, LedgerKept
  <2>3. LedgerType'
    BY <2>2 DEF LedgerKnown
  <2>4. QueueKnown'
    BY QueueStep
  <2>5. TypeOK'
    BY <2>2, <2>3, <2>4, TypesStep
  <2>6. StartKnown' /\ StoreKnown' /\ GoodKnown' /\ NeverStranded'
    BY <2>4, <2>5, StartStep, StoreStep, GoodStep, StrandedStep
  <2> QED
    BY <2>2, <2>4, <2>5, <2>6 DEF SlotsKnown
<1> QED
  BY <1>1, <1>2, PTL DEF Spec

(* Whatever crashes, fails or is collected while the image is exchanged and *)
(* Bootstraps are staged, the slots name Bootstraps that are there, keep    *)
(* one that has worked, and Stage-0 runs what they select: a broken one     *)
(* never takes the place of the one that staged it.                        *)
THEOREM SlotsAlwaysSound == ASSUME OneTask PROVE Spec => []SlotsSound
<1>1. SlotsKnown => SlotsSound
  <2> SUFFICES ASSUME SlotsKnown PROVE SlotsSound
    OBVIOUS
  <2>1. SelectedInstalled /\ KnownGoodKept /\ NeverStranded
    BY DEF SlotsKnown, StoreKnown, GoodKnown
  <2>2. RunsSelected
    BY QueueDiffers DEF RunsSelected, SlotsKnown, GoodKnown, Restarting, Idle
  <2> QED
    BY <2>1, <2>2 DEF SlotsSound
<1> QED
  BY <1>1, SlotsKept, PTL

(* The slots, the Store, the queue and the processes of Stage-0 are well     *)
(* typed through every start, request, collection and crash (slots.mjs,      *)
(* supervisor.mjs).                                                          *)
THEOREM SlotsTyped == ASSUME OneTask PROVE Spec => []TypeOK
<1>1. SlotsKnown => TypeOK
  BY DEF SlotsKnown
<1> QED
  BY <1>1, SlotsKept, PTL

------------------------------------------------------------------------------
(* The terminal, and the page that shows it. *)

Statuses == {"loading", "idle", "failed", "starting", "connecting", "connected", "reconnecting", "exited", "closed"}
Tab ==
  [id : Sessions \union {NoSession}, status : Statuses, socket : {"none", "opening", "open", "waiting"},
   asks : {"none", "restore", "create"}, target : Sessions \union {NoSession},
   closing : Sessions \union {NoSession}, late : BOOLEAN]
TerminalTypes ==
  /\ session \in [Sessions -> [is : {"new", "running", "exited", "closed"}, out : Nat]]
  /\ attached \in [Sessions -> SUBSET {"page", "old"}]
  /\ page \in Tab /\ screen \in Nat /\ line \in [out : Nat, exit : BOOLEAN]

(* Only the socket the page has open is attached, to the session it shows.  *)
(* A page that asks for a session has no socket; one that opens it has an   *)
(* empty screen.                                                            *)
SocketKnown ==
  /\ \A s \in Sessions : "page" \in attached[s] => page.id = s /\ page.socket = "open"
  /\ page.socket # "none" => page.id \in Sessions /\ page.asks = "none"
  /\ page.socket = "opening" => screen = 0

TerminalKnown == TerminalTypes /\ SocketKnown /\ ScreenWhole

LEMMA TerminalInitial == TerminalInit => TerminalKnown
<1> SUFFICES ASSUME TerminalInit PROVE TerminalKnown
  OBVIOUS
<1>1. TerminalTypes
  BY DEF TerminalInit, TerminalTypes, Tab, Statuses, Blank, Silent, NoSession
<1>2. SocketKnown /\ ScreenWhole
  BY DEF TerminalInit, SocketKnown, ScreenWhole, Blank
<1> QED
  BY <1>1, <1>2 DEF TerminalKnown

(* A page that has given up its socket, or never had one. *)
LEMMA NoSocketStep ==
  ASSUME TerminalKnown, NEW p \in Tab, NEW n \in Nat, NEW l \in [out : Nat, exit : BOOLEAN],
         page' = p, screen' = n, line' = l,
         p.socket # "open", p.socket # "none" => p.id \in Sessions /\ p.asks = "none",
         p.socket = "opening" => n = 0,
         session' \in [Sessions -> [is : {"new", "running", "exited", "closed"}, out : Nat]],
         \/ attached' = GivenUp
         \/ attached' = attached /\ page.socket # "open"
  PROVE  TerminalKnown'
<1>1. attached' \in [Sessions -> SUBSET {"page", "old"}] /\ \A s \in Sessions : "page" \notin attached'[s]
  BY DEF TerminalKnown, TerminalTypes, SocketKnown, GivenUp
<1>2. TerminalTypes'
  BY <1>1 DEF TerminalTypes
<1>3. SocketKnown' /\ ScreenWhole'
  BY <1>1 DEF SocketKnown, ScreenWhole
<1> QED
  BY <1>2, <1>3 DEF TerminalKnown

(* The tab and its screen stay, and so does what the session it shows kept; *)
(* a socket may be gone.                                                    *)
LEMMA SameTabStep ==
  ASSUME TerminalKnown, NEW p \in Tab, page' = p, UNCHANGED screen,
         p.id = page.id, p.socket = page.socket, p.asks = page.asks,
         line' \in [out : Nat, exit : BOOLEAN], line'.out = line.out,
         session' \in [Sessions -> [is : {"new", "running", "exited", "closed"}, out : Nat]],
         \A s \in Sessions : session'[s].out = session[s].out,
         attached' \in [Sessions -> SUBSET {"page", "old"}],
         \A s \in Sessions : "page" \in attached'[s] => "page" \in attached[s]
  PROVE  TerminalKnown'
<1>1. TerminalTypes'
  BY DEF TerminalKnown, TerminalTypes
<1>2. SocketKnown'
  BY DEF TerminalKnown, SocketKnown
<1>3. ScreenWhole'
  BY DEF TerminalKnown, SocketKnown, ScreenWhole
<1> QED
  BY <1>1, <1>2, <1>3 DEF TerminalKnown

LEMMA TerminalFacts ==
  ASSUME TerminalKnown
  PROVE  /\ session \in [Sessions -> [is : {"new", "running", "exited", "closed"}, out : Nat]]
         /\ attached \in [Sessions -> SUBSET {"page", "old"}]
         /\ page \in Tab /\ screen \in Nat /\ line \in [out : Nat, exit : BOOLEAN]
         /\ Silent \in [out : Nat, exit : BOOLEAN] /\ 0 \in Nat
  BY DEF TerminalKnown, TerminalTypes, Silent

LEMMA TerminateStep ==
  ASSUME TerminalKnown, NEW u \in Sessions, Terminate(u), UNCHANGED <<page, screen, line>>
  PROVE  TerminalKnown'
<1>1. session' = [session EXCEPT ![u].is = "closed"] /\ attached' = [attached EXCEPT ![u] = {}]
  BY DEF Terminate
<1>2. session' \in [Sessions -> [is : {"new", "running", "exited", "closed"}, out : Nat]]
      /\ \A v \in Sessions : session'[v].out = session[v].out
  BY <1>1, TerminalFacts
<1>3. attached' \in [Sessions -> SUBSET {"page", "old"}]
      /\ \A v \in Sessions : "page" \in attached'[v] => "page" \in attached[v]
  BY <1>1, TerminalFacts
<1> QED
  BY <1>2, <1>3, TerminalFacts, SameTabStep

(* The sessions. *)
LEMMA SessionsKept ==
  ASSUME TerminalKnown, NEW s \in Sessions,
         ShellExits(s) \/ HelperFails(s) \/ Expire(s) \/ ShellEnds(s) \/ Broadcast(s) \/ SocketClosed(s)
  PROVE  TerminalKnown'
<1>1. CASE ShellExits(s)
  <2>1. UNCHANGED <<page, screen, attached>> /\ session' = [session EXCEPT ![s].is = "exited"]
        /\ (line' = line \/ line' = [line EXCEPT !.exit = TRUE])
    BY <1>1 DEF ShellExits, Finish, tabVars
  <2>2. line' \in [out : Nat, exit : BOOLEAN] /\ line'.out = line.out
    BY <2>1, TerminalFacts
  <2>3. session' \in [Sessions -> [is : {"new", "running", "exited", "closed"}, out : Nat]]
        /\ \A u \in Sessions : session'[u].out = session[u].out
    BY <2>1, TerminalFacts
  <2> QED
    BY <2>1, <2>2, <2>3, TerminalFacts, SameTabStep
<1>3. CASE HelperFails(s) \/ Expire(s)
  BY <1>3, TerminateStep DEF HelperFails, Expire, tabVars, lineVars
<1>4. CASE ShellEnds(s)
  BY <1>4, TerminalFacts, SameTabStep DEF ShellEnds, tabVars, lineVars
<1>5. CASE Broadcast(s)
  <2>1. /\ UNCHANGED <<page, screen, attached>> /\ session' = [session EXCEPT ![s].out = session[s].out + 1]
        /\ line' = IF "page" \in attached[s] THEN [line EXCEPT !.out = line.out + 1] ELSE line
    BY <1>5 DEF Broadcast, tabVars
  <2>2. session' \in [Sessions -> [is : {"new", "running", "exited", "closed"}, out : Nat]]
        /\ session'[s].out = session[s].out + 1
        /\ \A u \in Sessions : u # s => session'[u] = session[u]
    BY <2>1, TerminalFacts
  <2>3. line' \in [out : Nat, exit : BOOLEAN]
        /\ line'.out = IF "page" \in attached[s] THEN line.out + 1 ELSE line.out
    BY <2>1, TerminalFacts
  <2>4. TerminalTypes' /\ SocketKnown'
    BY <2>1, <2>2, <2>3 DEF TerminalKnown, TerminalTypes, SocketKnown
  <2>5. ScreenWhole'
    <3> SUFFICES ASSUME page.socket = "open", "page" \in attached[page.id]
        PROVE  screen + line'.out = session'[page.id].out
      BY <2>1 DEF ScreenWhole
    <3>1. screen + line.out = session[page.id].out /\ page.id \in Sessions
      BY DEF TerminalKnown, ScreenWhole, SocketKnown
    <3>2. CASE page.id = s
      BY <2>2, <2>3, <3>1, <3>2, TerminalFacts
    <3>3. CASE page.id # s
      BY <2>2, <2>3, <3>1, <3>3 DEF TerminalKnown, SocketKnown
    <3> QED
      BY <3>2, <3>3
  <2> QED
    BY <2>4, <2>5 DEF TerminalKnown
<1>6. CASE SocketClosed(s)
  <2>1. UNCHANGED <<page, screen, session, line>> /\ attached' = [attached EXCEPT ![s] = attached[s] \ {"old"}]
    BY <1>6 DEF SocketClosed, tabVars, lineVars
  <2>2. attached' \in [Sessions -> SUBSET {"page", "old"}]
        /\ \A v \in Sessions : "page" \in attached'[v] => "page" \in attached[v]
    BY <2>1, TerminalFacts
  <2> QED
    BY <2>1, <2>2, TerminalFacts, SameTabStep
<1> QED
  BY <1>1, <1>3, <1>4, <1>5, <1>6

(* What the tab becomes. *)
TabOf(id, status, socket, asks, wanted, closing, late) ==
  [id |-> id, status |-> status, socket |-> socket, asks |-> asks, target |-> wanted,
   closing |-> closing, late |-> late]

LEMMA TabFields ==
  ASSUME NEW q \in Tab
  PROVE  /\ q.id \in Sessions \union {NoSession} /\ q.status \in Statuses
         /\ q.socket \in {"none", "opening", "open", "waiting"} /\ q.asks \in {"none", "restore", "create"}
         /\ q.target \in Sessions \union {NoSession} /\ q.closing \in Sessions \union {NoSession}
         /\ q = TabOf(q.id, q.status, q.socket, q.asks, q.target, q.closing, q.late)
  BY DEF Tab, TabOf

(* The session is forgotten, its socket given up. *)
LEMMA ForgetStep ==
  ASSUME TerminalKnown, NEW status \in Statuses, NEW asks \in {"none", "restore", "create"},
         NEW closing \in Sessions \union {NoSession}, Forget(status, asks, closing),
         session' = session
  PROVE  TerminalKnown'
<1>1. PICK q \in Tab : q = page
  BY TerminalFacts
<1>2. PICK wanted \in Sessions \union {NoSession} : wanted = IF asks = "none" THEN NoSession ELSE q.target
  BY TabFields
<1>3. PICK new : new = [q EXCEPT !.id = NoSession, !.status = status, !.socket = "none", !.late = FALSE,
                                 !.asks = asks, !.closing = closing, !.target = wanted]
  OBVIOUS
<1>4. PICK p : p = TabOf(NoSession, status, "none", asks, wanted, closing, FALSE)
  OBVIOUS
<1>5. p = new
  BY <1>1, <1>3, <1>4 DEF Tab, TabOf
<1>6. p \in Tab /\ p.socket = "none"
  BY <1>2, <1>4 DEF Tab, TabOf
<1>7. page' = p /\ attached' = GivenUp /\ screen' = 0 /\ line' = Silent
  BY <1>1, <1>2, <1>3, <1>5 DEF Forget
<1> QED
  BY <1>6, <1>7, TerminalFacts, NoSocketStep

(* A socket is opened for a session, the screen is empty. *)
LEMMA ConnectStep ==
  ASSUME TerminalKnown, page.socket # "open", NEW id \in Sessions, NEW status \in Statuses,
         NEW late, late \in BOOLEAN, Connect(id, status, late), session' = session, attached' = attached
  PROVE  TerminalKnown'
<1>1. PICK q \in Tab : q = page
  BY TerminalFacts
<1>2. PICK new : new = [q EXCEPT !.id = id, !.status = status, !.socket = "opening",
                                 !.asks = "none", !.target = NoSession, !.late = late]
  OBVIOUS
<1>3. PICK p : p = TabOf(id, status, "opening", "none", NoSession, q.closing, late)
  OBVIOUS
<1>4. p = new
  BY <1>1, <1>2, <1>3 DEF Tab, TabOf
<1>5. p \in Tab /\ p.socket = "opening" /\ p.id = id /\ p.asks = "none"
  BY <1>3, TabFields DEF Tab, TabOf
<1>6. page' = p /\ screen' = 0 /\ line' = Silent
  BY <1>1, <1>2, <1>4 DEF Connect
<1> QED
  BY <1>5, <1>6, TerminalFacts, NoSocketStep

(* The tab goes on without a socket. *)
LEMMA TabStep ==
  ASSUME TerminalKnown, page.socket = "none", NEW id \in Sessions \union {NoSession}, NEW status \in Statuses,
         NEW asks \in {"none", "restore", "create"}, TabIs(id, status, "none", asks),
         session' = session, attached' = attached, screen' = screen, line' = line
  PROVE  TerminalKnown'
<1>1. PICK q \in Tab : q = page
  BY TerminalFacts
<1>2. PICK wanted \in Sessions \union {NoSession} : wanted = IF asks = "none" THEN NoSession ELSE q.target
  BY TabFields
<1>3. PICK new : new = [q EXCEPT !.id = id, !.status = status, !.socket = "none", !.asks = asks,
                                 !.target = wanted]
  OBVIOUS
<1>4. PICK p : p = TabOf(id, status, "none", asks, wanted, q.closing, q.late)
  OBVIOUS
<1>5. p = new
  BY <1>1, <1>3, <1>4 DEF Tab, TabOf
<1>6. p \in Tab /\ p.socket = "none"
  BY <1>1, <1>2, <1>4 DEF Tab, TabOf
<1>7. page' = p
  BY <1>1, <1>2, <1>3, <1>5 DEF TabIs
<1> QED
  BY <1>6, <1>7, TerminalFacts, NoSocketStep

(* The connection is lost. *)
LEMMA LostStep ==
  ASSUME TerminalKnown, page.socket # "none", Lost, session' = session
  PROVE  TerminalKnown'
<1>1. PICK q \in Tab : q = page
  BY TerminalFacts
<1>2. q.id \in Sessions /\ q.asks = "none" /\ (q.socket = "opening" => screen = 0)
  BY <1>1 DEF TerminalKnown, SocketKnown
<1>3. CASE page.status = "exited"
  <2>1. PICK p : p = [q EXCEPT !.socket = "none"]
    OBVIOUS
  <2>2. p \in Tab /\ p.socket = "none"
    BY <1>1, <2>1 DEF Tab
  <2>3. page' = p /\ attached' = GivenUp /\ line' = Silent /\ screen' = screen
    BY <1>1, <1>3, <2>1 DEF Lost
  <2> QED
    BY <2>2, <2>3, TerminalFacts, NoSocketStep
<1>4. CASE page.status # "exited" /\ page.late
  <2>1. Forget("failed", q.asks, q.closing)
    BY <1>1, <1>4 DEF Lost
  <2> QED
    BY <2>1, TabFields, ForgetStep DEF Statuses
<1>5. CASE page.status # "exited" /\ ~page.late
  <2>1. PICK new : new = [q EXCEPT !.status = "reconnecting", !.socket = "waiting"]
    OBVIOUS
  <2>2. PICK p : p = TabOf(q.id, "reconnecting", "waiting", q.asks, q.target, q.closing, q.late)
    OBVIOUS
  <2>3. p = new
    BY <1>1, <2>1, <2>2 DEF Tab, TabOf
  <2>4. p \in Tab /\ p.socket = "waiting" /\ p.id = q.id /\ p.asks = q.asks
    BY <1>1, <2>2 DEF Tab, TabOf, Statuses
  <2>5. page' = p /\ attached' = GivenUp /\ line' = Silent /\ screen' = screen
    BY <1>1, <1>5, <2>1, <2>3 DEF Lost
  <2> QED
    BY <1>2, <2>4, <2>5, TerminalFacts, NoSocketStep
<1> QED
  BY <1>3, <1>4, <1>5

(* A page that asks for a session has no socket. *)
LEMMA AskingIs ==
  ASSUME TerminalKnown, page.asks # "none" PROVE page.socket = "none"
  BY DEF TerminalKnown, SocketKnown

LEMMA RestoresKept ==
  ASSUME TerminalKnown, RestoreAnswered PROVE TerminalKnown'
<1>1. PICK q \in Tab : q = page
  BY TerminalFacts
<1>2. q.socket = "none" /\ page.socket # "open" /\ session' = session /\ stored = stored
  BY <1>1, AskingIs DEF RestoreAnswered
<1>3. CASE page' = [page EXCEPT !.status = "idle", !.asks = "none"] /\ UNCHANGED <<attached, lineVars>>
  <2>1. PICK new : new = [q EXCEPT !.status = "idle", !.asks = "none"]
    OBVIOUS
  <2>2. PICK p : p = TabOf(q.id, "idle", q.socket, "none", q.target, q.closing, q.late)
    OBVIOUS
  <2>3. p = new
    BY <1>1, <2>1, <2>2 DEF Tab, TabOf
  <2>4. p \in Tab /\ p.socket = "none"
    BY <1>1, <1>2, <2>2 DEF Tab, TabOf, Statuses
  <2>5. page' = p /\ attached' = attached /\ screen' = screen /\ line' = line
    BY <1>1, <1>3, <2>1, <2>3 DEF lineVars
  <2> QED
    BY <1>2, <2>4, <2>5, TerminalFacts, NoSocketStep
<1>4. ASSUME NEW s \in Sessions, Connect(s, "connecting", FALSE), UNCHANGED attached PROVE TerminalKnown'
  <2>1. "connecting" \in Statuses /\ FALSE \in BOOLEAN
    BY DEF Statuses
  <2> QED
    BY <1>2, <1>4, <2>1, ConnectStep
<1>5. ASSUME Forget("idle", "none", page.closing) PROVE TerminalKnown'
  <2>1. Forget("idle", "none", q.closing)
    BY <1>1, <1>5
  <2> QED
    BY <1>2, <2>1, TabFields, ForgetStep DEF Statuses
<1>6. ASSUME NEW s \in Sessions, TabIs(s, "failed", "none", "none"), UNCHANGED <<attached, lineVars>>
      PROVE  TerminalKnown'
  <2>1. s \in Sessions \union {NoSession} /\ "failed" \in Statuses /\ attached' = attached
        /\ screen' = screen /\ line' = line /\ page.socket = "none"
    BY <1>1, <1>2, <1>6 DEF Statuses, lineVars
  <2> QED
    BY <1>2, <1>6, <2>1, TabStep
<1> QED
  BY <1>3, <1>4, <1>5, <1>6 DEF RestoreAnswered, HeldSessions

LEMMA CreationsKept ==
  ASSUME TerminalKnown, NewTerminal \/ Creates \/ Created \/ CreateFails PROVE TerminalKnown'
<1>1. PICK q \in Tab : q = page
  BY TerminalFacts
<1>2. CASE NewTerminal
  <2>1. page.socket = "none"
    BY <1>2, SessionsAreNamed DEF NewTerminal, TerminalKnown, SocketKnown
  <2>2. TabIs(NoSession, "starting", "none", "create") /\ UNCHANGED <<session, attached, screen, line>>
    BY <1>2 DEF NewTerminal, serverVars, lineVars
  <2>3. NoSession \in Sessions \union {NoSession} /\ "starting" \in Statuses
    BY DEF Statuses
  <2> QED
    BY <2>1, <2>2, <2>3, TabStep
<1>3. CASE Creates
  <2>1. PICK s \in Sessions : /\ session' = [session EXCEPT ![s].is = "running"]
                              /\ page' = [q EXCEPT !.target = s] /\ UNCHANGED <<attached, screen, line>>
    BY <1>1, <1>3 DEF Creates, Create, lineVars
  <2>2. PICK p : p = [q EXCEPT !.target = s]
    OBVIOUS
  <2>3. p \in Tab /\ p.id = q.id /\ p.socket = q.socket /\ p.asks = q.asks
    BY <1>1, <2>2 DEF Tab
  <2>4. session' \in [Sessions -> [is : {"new", "running", "exited", "closed"}, out : Nat]]
        /\ \A u \in Sessions : session'[u].out = session[u].out
    BY <2>1, TerminalFacts
  <2> QED
    BY <1>1, <2>1, <2>2, <2>3, <2>4, TerminalFacts, SameTabStep
<1>4. CASE Created
  <2>1. page.socket # "open" /\ session' = session /\ attached' = attached /\ q.target # NoSession
        /\ Connect(q.target, "connecting", FALSE)
    BY <1>1, <1>4, AskingIs DEF Created, serverVars
  <2>2. q.target \in Sessions /\ "connecting" \in Statuses /\ FALSE \in BOOLEAN
    BY <1>1, <2>1, TabFields DEF Statuses
  <2> QED
    BY <2>1, <2>2, ConnectStep
<1>5. CASE CreateFails
  <2>1. Forget("failed", "none", q.closing) /\ session' = session
    BY <1>1, <1>5 DEF CreateFails
  <2> QED
    BY <2>1, TabFields, ForgetStep DEF Statuses
<1> QED
  BY <1>2, <1>3, <1>4, <1>5

LEMMA OpensKept ==
  ASSUME TerminalKnown, Opens PROVE TerminalKnown'
<1>1. PICK q \in Tab : q = page
  BY TerminalFacts
<1>2. q.socket = "opening" /\ q.id \in Sessions /\ q.asks = "none" /\ screen = 0
  BY <1>1 DEF Opens, TerminalKnown, SocketKnown
<1>3. PICK new : new = [q EXCEPT !.status = "connected", !.socket = "open", !.late = FALSE]
  OBVIOUS
<1>4. PICK p : p = TabOf(q.id, "connected", "open", q.asks, q.target, q.closing, FALSE)
  OBVIOUS
<1>5. p = new
  BY <1>1, <1>3, <1>4 DEF Tab, TabOf
<1>6. p \in Tab /\ p.socket = "open" /\ p.id = q.id /\ p.asks = q.asks
  BY <1>1, <1>4 DEF Tab, TabOf, Statuses
<1>7. page' = p /\ session' = session /\ screen' = screen
  BY <1>1, <1>3, <1>5 DEF Opens
<1>8. PICK id \in Sessions : id = q.id
  BY <1>2
<1>9. attached' = [attached EXCEPT ![id] = attached[id] \union {"page"}]
      /\ line' = [out |-> session[id].out, exit |-> session[id].is = "exited"]
  BY <1>1, <1>8 DEF Opens, Attach
<1>10. attached' \in [Sessions -> SUBSET {"page", "old"}]
       /\ \A s \in Sessions : "page" \in attached'[s] => s = id \/ "page" \in attached[s]
  BY <1>9, TerminalFacts
<1>11. line' \in [out : Nat, exit : BOOLEAN] /\ line'.out = session[id].out
  <2>1. PICK b \in BOOLEAN : b = (session[id].is = "exited")
    OBVIOUS
  <2>2. session[id].out \in Nat
    BY TerminalFacts
  <2> QED
    BY <1>9, <2>1, <2>2
<1>12. \A s \in Sessions : "page" \notin attached[s]
  BY <1>1, <1>2 DEF TerminalKnown, SocketKnown
<1>13. TerminalTypes'
  BY <1>6, <1>7, <1>10, <1>11, TerminalFacts DEF TerminalTypes
<1>14. SocketKnown'
  BY <1>2, <1>6, <1>7, <1>8, <1>10, <1>12 DEF SocketKnown
<1>15. ScreenWhole'
  BY <1>2, <1>6, <1>7, <1>8, <1>11, TerminalFacts DEF ScreenWhole
<1> QED
  BY <1>13, <1>14, <1>15 DEF TerminalKnown

LEMMA ConnectionsKept ==
  ASSUME TerminalKnown, Refused \/ Drops \/ ServerCloses \/ Reconnect \/ DeadlinePasses PROVE TerminalKnown'
<1>1. PICK q \in Tab : q = page
  BY TerminalFacts
<1>2. CASE Refused \/ Drops \/ ServerCloses
  BY <1>2, LostStep DEF Refused, Drops, ServerCloses
<1>3. CASE Reconnect
  <2>1. q.id \in Sessions /\ page.socket # "open" /\ session' = session /\ attached' = attached
    BY <1>1, <1>3 DEF Reconnect, serverVars, TerminalKnown, SocketKnown
  <2>2. PICK late \in BOOLEAN : late = q.late
    BY <1>1 DEF Tab
  <2>3. Connect(q.id, "reconnecting", late) /\ "reconnecting" \in Statuses
    BY <1>1, <1>3, <2>2 DEF Reconnect, Statuses
  <2> QED
    BY <2>1, <2>3, ConnectStep
<1>4. CASE DeadlinePasses
  <2>1. PICK p : p = [q EXCEPT !.late = TRUE]
    OBVIOUS
  <2>2. p \in Tab /\ p.id = q.id /\ p.socket = q.socket /\ p.asks = q.asks
    BY <1>1, <2>1 DEF Tab
  <2>3. page' = p /\ UNCHANGED <<session, attached, screen, line>>
    BY <1>1, <1>4, <2>1 DEF DeadlinePasses, serverVars, lineVars
  <2> QED
    BY <1>1, <2>2, <2>3, TerminalFacts, SameTabStep
<1> QED
  BY <1>2, <1>3, <1>4

LEMMA ReceivesKept ==
  ASSUME TerminalKnown, ReceiveOutput PROVE TerminalKnown'
<1>1. page.socket = "open" /\ UNCHANGED <<session, attached>>
  BY DEF ReceiveOutput, serverVars
<1>2. CASE line.out > 0 /\ line' = [line EXCEPT !.out = @ - 1] /\ screen' = screen + 1 /\ UNCHANGED page
  <2>1. line' \in [out : Nat, exit : BOOLEAN] /\ line'.out = line.out - 1 /\ line.out \in Nat /\ screen \in Nat
    BY <1>2, TerminalFacts
  <2>2. TerminalTypes'
    BY <1>1, <1>2, <2>1, TerminalFacts DEF TerminalTypes
  <2>3. SocketKnown'
    BY <1>1, <1>2 DEF TerminalKnown, SocketKnown
  <2>4. ScreenWhole'
    BY <1>1, <1>2, <2>1 DEF TerminalKnown, ScreenWhole
  <2> QED
    BY <2>2, <2>3, <2>4 DEF TerminalKnown
<1>3. CASE line = [out |-> 0, exit |-> TRUE] /\ line' = Silent
           /\ page' = [page EXCEPT !.status = "exited"] /\ UNCHANGED screen
  <2>1. PICK q \in Tab : q = page
    BY TerminalFacts
  <2>2. PICK p : p = [q EXCEPT !.status = "exited"]
    OBVIOUS
  <2>3. p \in Tab /\ p.id = q.id /\ p.socket = q.socket /\ p.asks = q.asks
    BY <2>1, <2>2 DEF Tab, Statuses
  <2>4. line'.out = line.out
    BY <1>3 DEF Silent
  <2>5. page' = p
    BY <1>3, <2>1, <2>2
  <2> QED
    BY <1>1, <1>3, <2>1, <2>3, <2>4, <2>5, TerminalFacts, SameTabStep
<1> QED
  BY <1>2, <1>3 DEF ReceiveOutput

LEMMA ClosesKept ==
  ASSUME TerminalKnown, CloseTerminal \/ CloseReached \/ CloseAnswered \/ Leave PROVE TerminalKnown'
<1>1. PICK q \in Tab : q = page
  BY TerminalFacts
<1>2. CASE CloseTerminal
  <2>1. PICK p : p = [q EXCEPT !.closing = q.id]
    OBVIOUS
  <2>2. p \in Tab /\ p.id = q.id /\ p.socket = q.socket /\ p.asks = q.asks
    BY <1>1, <2>1 DEF Tab
  <2>3. page' = p /\ UNCHANGED <<session, attached, screen, line>>
    BY <1>1, <1>2, <2>1 DEF CloseTerminal, serverVars, lineVars
  <2> QED
    BY <1>1, <2>2, <2>3, TerminalFacts, SameTabStep
<1>3. CASE CloseReached
  <2>1. PICK u \in Sessions : u = page.closing
    BY <1>3 DEF CloseReached, HeldSessions
  <2>2. Terminate(u) /\ UNCHANGED <<page, screen, line>>
    BY <1>3, <2>1 DEF CloseReached, tabVars, lineVars
  <2> QED
    BY <2>2, TerminateStep
<1>4. CASE CloseAnswered
  <2>1. Forget("closed", q.asks, NoSession) /\ session' = session
    BY <1>1, <1>4 DEF CloseAnswered
  <2> QED
    BY <2>1, TabFields, ForgetStep DEF Statuses
<1>5. CASE Leave
  <2>1. Blank \in Tab /\ Blank.socket = "none"
    BY DEF Blank, Tab, Statuses
  <2>2. page' = Blank /\ attached' = GivenUp /\ screen' = 0 /\ line' = Silent /\ session' = session
    BY <1>5 DEF Leave
  <2> QED
    BY <2>1, <2>2, TerminalFacts, NoSocketStep
<1> QED
  BY <1>2, <1>3, <1>4, <1>5

LEMMA TerminalKept ==
  ASSUME TerminalKnown, [TerminalNext]_termVars PROVE TerminalKnown'
<1>1. CASE UNCHANGED termVars
  <2>1. UNCHANGED <<session, attached, page, screen, line>>
    BY <1>1 DEF termVars, serverVars, tabVars, lineVars
  <2> QED
    BY <2>1 DEF TerminalKnown, TerminalTypes, SocketKnown, ScreenWhole
<1> QED
  BY <1>1, SessionsKept, RestoresKept, CreationsKept, OpensKept, ConnectionsKept, ReceivesKept, ClosesKept
     DEF TerminalNext, PageNext

(* ScreenWhole: through any number of lost and found connections, page      *)
(* loads, exits and closes the screen shows each output of a shell once and *)
(* in full (sessions.mjs: attach, app.js: connectTerminal).                 *)
THEOREM ScreenStaysWhole == TerminalSpec => []ScreenWhole
<1>1. TerminalKnown => ScreenWhole
  BY DEF TerminalKnown
<1> QED
  BY TerminalInitial, TerminalKept, <1>1, PTL DEF TerminalSpec

-----------------------------------------------------------------------------
(* How Bootstrap keeps DSH running.                                        *)

ClientAt == {"idle", "prepare", "queue", "stop", "start", "confirm", "commit", "mark"}
RecoveryAt == {"idle", "sleep", "prepare", "queue", "stop", "start", "confirm", "publish", "isolate"}

DshTypes ==
  /\ dsh \in {"none", "starting", "ready", "dead", "stopping"}
  /\ launch \in {"none", "starting", "ready", "verified"}
  /\ lifecycle \in {"starting", "running", "stopping", "restarting", "stopped", "failed", "recovering"}
  /\ holder \in {"free", "client", "recovery"}
  /\ at \in [client : ClientAt, recovery : RecoveryAt]
  /\ request \in Asks /\ tries \in Nat /\ attempt \in Nat /\ fatals \in Nat

(* The launch session is that of the process.                              *)
LaunchKnown ==
  /\ launch = "verified" => dsh \in {"ready", "stopping"}
  /\ launch # "none" => dsh \in {"starting", "ready", "stopping"}
  /\ dsh = "starting" => launch \in {"starting", "ready"}

(* The runner works for whoever is about to stop or to start DSH.          *)
HolderKnown ==
  /\ at.client \in {"stop", "start"} <=> holder = "client"
  /\ at.recovery \in {"stop", "start"} => holder = "recovery"
  /\ holder = "recovery" => at.recovery \in {"stop", "start", "isolate"}
  /\ dsh = "starting" => holder # "free" /\ at[holder] = "start"
  /\ dsh = "stopping" => holder # "free" /\ at[holder] \in {"stop", "isolate"}

(* The start-up comes before what is asked for.                            *)
StartupKnown ==
  /\ ~startup => request = "boot" /\ lifecycle # "stopped"
  /\ startup => request # "boot" \/ at.client = "idle"
  /\ at.client = "mark" => request = "boot"

(* An exit waits for the recovery, or was left to the owner.               *)
ExitKnown == dsh = "dead" => fatals > 0 \/ at.recovery # "idle" \/ deferred

(* Who is still to correct what is shown.                                  *)
ShownKnown ==
  /\ lifecycle \in {"running", "recovering"} /\ ~deferred /\ ~down =>
       \/ dsh = "ready" \/ reported \/ overrun
       \/ Recovering \/ at.client \notin {"idle", "commit"}
  /\ at.recovery = "isolate" => lifecycle # "recovering"
  /\ lifecycle = "stopped" =>
       \/ dsh = "none" \/ fatals > 0 \/ at.recovery \notin {"idle", "publish"}
       \/ at.client = "start"
       \/ at.client = "confirm" /\ launch = "verified"

(* A stop that nothing disturbed.                                          *)
QuietKnown ==
  quietStop =>
    /\ ~Recovering
    /\ \/ at.client = "idle" /\ dsh = "none"
       \/ at.client = "stop" /\ ~Starts("client") /\ dsh \in {"none", "stopping"}

RuntimeKnown ==
  /\ DshTypes /\ LaunchKnown /\ HolderKnown /\ StartupKnown /\ ExitKnown /\ ShownKnown /\ QuietKnown

LEMMA DshExitsKnown == ASSUME RuntimeKnown, DshExits PROVE RuntimeKnown'
<1>1. DshTypes'
  BY DEF DshExits, shown, RuntimeKnown, DshTypes
<1>2. LaunchKnown'
  BY DEF DshExits, LaunchKnown
<1>3. HolderKnown'
  BY DEF DshExits, RuntimeKnown, HolderKnown
<1>4. StartupKnown'
  BY DEF DshExits, shown, RuntimeKnown, StartupKnown
<1>5. ExitKnown'
  BY DEF DshExits, RuntimeKnown, DshTypes, ExitKnown
<1>6. ShownKnown'
  BY DEF DshExits, shown, Recovering, RuntimeKnown, DshTypes, ShownKnown
<1>7. QuietKnown'
  BY DEF DshExits, history, RuntimeKnown, QuietKnown
<1> QED BY <1>1, <1>2, <1>3, <1>4, <1>5, <1>6, <1>7 DEF RuntimeKnown

LEMMA AcquireKnown == ASSUME NEW who \in {"client", "recovery"}, RuntimeKnown, Acquire(who) PROVE RuntimeKnown'
<1>1. DshTypes'
  BY DEF Acquire, process, shown, Goes, Unmoved, ClientAt, RecoveryAt, RuntimeKnown, DshTypes
<1>2. LaunchKnown'
  BY DEF Acquire, process, RuntimeKnown, LaunchKnown
<1>3. HolderKnown'
  BY DEF Acquire, process, Goes, RuntimeKnown, DshTypes, HolderKnown
<1>4. StartupKnown'
  BY DEF Acquire, shown, Goes, Constant, Unmoved, RuntimeKnown, StartupKnown
<1>5. ExitKnown'
  BY DEF Acquire, process, Goes, Unmoved, RuntimeKnown, ExitKnown
<1>6. ShownKnown'
  BY DEF Acquire, process, shown, Goes, Unmoved, Recovering, RuntimeKnown, ShownKnown
<1>7. QuietKnown'
  BY DEF Acquire, history, Recovering, RuntimeKnown, QuietKnown
<1> QED BY <1>1, <1>2, <1>3, <1>4, <1>5, <1>6, <1>7 DEF RuntimeKnown

LEMMA StopBeginsKnown == ASSUME NEW who \in {"client", "recovery"}, RuntimeKnown, StopBegins(who) PROVE RuntimeKnown'
<1>1. DshTypes'
  BY DEF StopBegins, shown, Unmoved, RuntimeKnown, DshTypes
<1>2. LaunchKnown'
  BY DEF StopBegins, RuntimeKnown, LaunchKnown
<1>3. HolderKnown'
  BY DEF StopBegins, RuntimeKnown, HolderKnown
<1>4. StartupKnown'
  BY DEF StopBegins, shown, Constant, Unmoved, RuntimeKnown, StartupKnown
<1>5. ExitKnown'
  BY DEF StopBegins, ExitKnown
<1>6. ShownKnown'
  BY DEF StopBegins, shown, Unmoved, Recovering, RuntimeKnown, ShownKnown
<1>7. QuietKnown'
  BY DEF StopBegins, Unmoved, Starts, Recovering, RuntimeKnown, HolderKnown, QuietKnown
<1> QED BY <1>1, <1>2, <1>3, <1>4, <1>5, <1>6, <1>7 DEF RuntimeKnown

LEMMA StopEndsKnown == ASSUME NEW who \in {"client", "recovery"}, RuntimeKnown, StopEnds(who) PROVE RuntimeKnown'
<1>1. DshTypes'
  BY DEF StopEnds, shown, Unmoved, RuntimeKnown, DshTypes
<1>2. LaunchKnown'
  BY DEF StopEnds, LaunchKnown
<1>3. HolderKnown'
  BY DEF StopEnds, RuntimeKnown, HolderKnown
<1>4. StartupKnown'
  BY DEF StopEnds, shown, Constant, Unmoved, RuntimeKnown, StartupKnown
<1>5. ExitKnown'
  BY DEF StopEnds, ExitKnown
<1>6. ShownKnown'
  BY DEF StopEnds, shown, Recovering, RuntimeKnown, HolderKnown, ShownKnown
<1>7. QuietKnown'
  BY DEF StopEnds, history, Unmoved, Starts, Recovering, RuntimeKnown, QuietKnown
<1> QED BY <1>1, <1>2, <1>3, <1>4, <1>5, <1>6, <1>7 DEF RuntimeKnown

LEMMA StoppedKnown == ASSUME NEW who \in {"client", "recovery"}, RuntimeKnown, Stopped(who) PROVE RuntimeKnown'
<1>1. DshTypes'
  BY DEF Stopped, process, shown, Goes, Unmoved, ClientAt, RecoveryAt, RuntimeKnown, DshTypes
<1>2. LaunchKnown'
  BY DEF Stopped, process, RuntimeKnown, LaunchKnown
<1>3. HolderKnown'
  BY DEF Stopped, process, Goes, RuntimeKnown, HolderKnown
<1>4. StartupKnown'
  BY DEF Stopped, shown, Goes, Constant, Unmoved, RuntimeKnown, StartupKnown
<1>5. ExitKnown'
  BY DEF Stopped, process, ExitKnown
<1>6. ShownKnown'
  BY DEF Stopped, shown, Goes, Recovering, RuntimeKnown, DshTypes, ShownKnown
<1>7. QuietKnown'
  BY DEF Stopped, history, Recovering, RuntimeKnown, QuietKnown
<1> QED BY <1>1, <1>2, <1>3, <1>4, <1>5, <1>6, <1>7 DEF RuntimeKnown

LEMMA LaunchesKnown == ASSUME NEW who \in {"client", "recovery"}, RuntimeKnown, Start(who) PROVE RuntimeKnown'
<1>1. DshTypes'
  BY DEF Start, shown, Unmoved, RuntimeKnown, DshTypes
<1>2. LaunchKnown'
  BY DEF Start, LaunchKnown
<1>3. HolderKnown'
  BY DEF Start, RuntimeKnown, HolderKnown
<1>4. StartupKnown'
  BY DEF Start, shown, Constant, Unmoved, RuntimeKnown, StartupKnown
<1>5. ExitKnown'
  BY DEF Start, ExitKnown
<1>6. ShownKnown'
  BY DEF Start, shown, Recovering, RuntimeKnown, ShownKnown
<1>7. QuietKnown'
  BY DEF Start, Recovering, RuntimeKnown, QuietKnown
<1> QED BY <1>1, <1>2, <1>3, <1>4, <1>5, <1>6, <1>7 DEF RuntimeKnown

LEMMA DshClaimsKnown == ASSUME RuntimeKnown, DshClaims PROVE RuntimeKnown'
<1>1. DshTypes'
  BY DEF DshClaims, shown, Unmoved, RuntimeKnown, DshTypes
<1>2. LaunchKnown'
  BY DEF DshClaims, LaunchKnown
<1>3. HolderKnown'
  BY DEF DshClaims, RuntimeKnown, HolderKnown
<1>4. StartupKnown'
  BY DEF DshClaims, shown, Constant, Unmoved, RuntimeKnown, StartupKnown
<1>5. ExitKnown'
  BY DEF DshClaims, ExitKnown
<1>6. ShownKnown'
  BY DEF DshClaims, shown, Recovering, RuntimeKnown, DshTypes, HolderKnown, ShownKnown
<1>7. QuietKnown'
  BY DEF DshClaims, history, RuntimeKnown, QuietKnown
<1> QED BY <1>1, <1>2, <1>3, <1>4, <1>5, <1>6, <1>7 DEF RuntimeKnown

LEMMA StartCompletesKnown == ASSUME NEW who \in {"client", "recovery"}, RuntimeKnown, StartCompletes(who) PROVE RuntimeKnown'
<1>1. DshTypes'
  BY DEF StartCompletes, shown, Goes, Show, EnterRecovery, Unmoved, ClientAt, RecoveryAt,
     RuntimeKnown, DshTypes
<1>2. LaunchKnown'
  BY DEF StartCompletes, LaunchKnown
<1>3. HolderKnown'
  BY DEF StartCompletes, Goes, RuntimeKnown, DshTypes, HolderKnown
<1>4. StartupKnown'
  BY DEF StartCompletes, shown, Goes, Constant, Unmoved, RuntimeKnown, DshTypes, StartupKnown
<1>5. ExitKnown'
  BY DEF StartCompletes, ExitKnown
<1>6. ShownKnown'
  BY DEF StartCompletes, shown, Goes, Show, EnterRecovery, RuntimeKnown, DshTypes, ShownKnown
<1>7. QuietKnown'
  BY DEF StartCompletes, history, RuntimeKnown, QuietKnown
<1> QED BY <1>1, <1>2, <1>3, <1>4, <1>5, <1>6, <1>7 DEF RuntimeKnown

LEMMA AlreadyListedKnown == ASSUME RuntimeKnown, AlreadyListed PROVE RuntimeKnown'
<1>1. DshTypes'
  BY DEF AlreadyListed, shown, Goes, Show, EnterRecovery, Unmoved, ClientAt, RuntimeKnown,
     DshTypes
<1>2. LaunchKnown'
  BY DEF AlreadyListed, RuntimeKnown, LaunchKnown
<1>3. HolderKnown'
  BY DEF AlreadyListed, Goes, RuntimeKnown, DshTypes, HolderKnown
<1>4. StartupKnown'
  BY DEF AlreadyListed, Goes, Constant, Unmoved, RuntimeKnown, DshTypes, StartupKnown
<1>5. ExitKnown'
  BY DEF AlreadyListed, Goes, Unmoved, RuntimeKnown, DshTypes, ExitKnown
<1>6. ShownKnown'
  BY DEF AlreadyListed, shown, Goes, Show, EnterRecovery, RuntimeKnown, DshTypes, ShownKnown
<1>7. QuietKnown'
  BY DEF AlreadyListed, history, RuntimeKnown, QuietKnown
<1> QED BY <1>1, <1>2, <1>3, <1>4, <1>5, <1>6, <1>7 DEF RuntimeKnown

LEMMA StartFailsKnown == ASSUME NEW who \in {"client", "recovery"}, RuntimeKnown, StartFails(who) PROVE RuntimeKnown'
<1>1. DshTypes'
  BY DEF StartFails, shown, Goes, Show, EnterRecovery, Fails, ClientFails, RecoveryFails,
     ClientAt, RecoveryAt, RuntimeKnown, DshTypes
<1>2. LaunchKnown'
  BY DEF StartFails, LaunchKnown
<1>3. HolderKnown'
  BY DEF StartFails, Goes, Fails, ClientFails, RecoveryFails, RuntimeKnown, DshTypes, HolderKnown
<1>4. StartupKnown'
  BY DEF StartFails, shown, Goes, Show, EnterRecovery, Constant, Fails, ClientFails,
     RecoveryFails, RuntimeKnown, DshTypes, StartupKnown
<1>5. ExitKnown'
  BY DEF StartFails, ExitKnown
<1>6. ShownKnown'
  BY DEF StartFails, shown, Goes, Show, EnterRecovery, Recovering, Fails, ClientFails,
     RecoveryFails, RuntimeKnown, DshTypes, ShownKnown
<1>7. QuietKnown'
  BY DEF StartFails, history, Fails, RuntimeKnown, QuietKnown
<1> QED BY <1>1, <1>2, <1>3, <1>4, <1>5, <1>6, <1>7 DEF RuntimeKnown

LEMMA AskKnown == ASSUME NEW kind \in Asks, RuntimeKnown, Ask(kind) PROVE RuntimeKnown'
<1>1. DshTypes'
  BY DEF Ask, process, Goes, ClientAt, RuntimeKnown, DshTypes
<1>2. LaunchKnown'
  BY DEF Ask, process, RuntimeKnown, LaunchKnown
<1>3. HolderKnown'
  BY DEF Ask, process, Goes, RuntimeKnown, HolderKnown
<1>4. StartupKnown'
  BY DEF Ask, Goes, Constant, StartupKnown
<1>5. ExitKnown'
  BY DEF Ask, process, Goes, RuntimeKnown, ExitKnown
<1>6. ShownKnown'
  BY DEF Ask, process, Goes, RuntimeKnown, DshTypes, ShownKnown
<1>7. QuietKnown'
  BY DEF Ask, QuietKnown
<1> QED BY <1>1, <1>2, <1>3, <1>4, <1>5, <1>6, <1>7 DEF RuntimeKnown

LEMMA PreparedKnown == ASSUME NEW who \in {"client", "recovery"}, RuntimeKnown, Prepared(who) PROVE RuntimeKnown'
<1>1. DshTypes'
  BY DEF Prepared, process, shown, Goes, Unmoved, ClientAt, RecoveryAt, RuntimeKnown, DshTypes
<1>2. LaunchKnown'
  BY DEF Prepared, process, RuntimeKnown, LaunchKnown
<1>3. HolderKnown'
  BY DEF Prepared, process, Goes, RuntimeKnown, HolderKnown
<1>4. StartupKnown'
  BY DEF Prepared, shown, Goes, Constant, Unmoved, RuntimeKnown, StartupKnown
<1>5. ExitKnown'
  BY DEF Prepared, process, Goes, Unmoved, RuntimeKnown, ExitKnown
<1>6. ShownKnown'
  BY DEF Prepared, process, shown, Goes, Unmoved, Recovering, RuntimeKnown, ShownKnown
<1>7. QuietKnown'
  BY DEF Prepared, history, Recovering, RuntimeKnown, QuietKnown
<1> QED BY <1>1, <1>2, <1>3, <1>4, <1>5, <1>6, <1>7 DEF RuntimeKnown

LEMMA PreparationFailsKnown == ASSUME NEW who \in {"client", "recovery"}, RuntimeKnown, PreparationFails(who) PROVE RuntimeKnown'
<1>1. DshTypes'
  BY DEF PreparationFails, process, shown, Goes, Show, EnterRecovery, Fails, ClientFails,
     RecoveryFails, ClientAt, RecoveryAt, RuntimeKnown, DshTypes
<1>2. LaunchKnown'
  BY DEF PreparationFails, process, RuntimeKnown, LaunchKnown
<1>3. HolderKnown'
  BY DEF PreparationFails, process, Goes, Fails, ClientFails, RecoveryFails, RuntimeKnown,
     DshTypes, HolderKnown
<1>4. StartupKnown'
  BY DEF PreparationFails, shown, Goes, Show, EnterRecovery, Constant, Fails, ClientFails,
     RecoveryFails, RuntimeKnown, DshTypes, StartupKnown
<1>5. ExitKnown'
  BY DEF PreparationFails, process, Goes, Fails, ClientFails, RecoveryFails, RuntimeKnown,
     DshTypes, ExitKnown
<1>6. ShownKnown'
  BY DEF PreparationFails, process, shown, Goes, Show, EnterRecovery, Recovering, Fails,
     ClientFails, RecoveryFails, RuntimeKnown, DshTypes, ShownKnown
<1>7. QuietKnown'
  BY DEF PreparationFails, history, Recovering, Fails, RuntimeKnown, QuietKnown
<1> QED BY <1>1, <1>2, <1>3, <1>4, <1>5, <1>6, <1>7 DEF RuntimeKnown

LEMMA ClientStoppedKnown == ASSUME RuntimeKnown, ClientStopped PROVE RuntimeKnown'
<1>1. DshTypes'
  BY DEF ClientStopped, process, Goes, Show, Unmoved, ClientAt, RuntimeKnown, DshTypes
<1>2. LaunchKnown'
  BY DEF ClientStopped, process, RuntimeKnown, LaunchKnown
<1>3. HolderKnown'
  BY DEF ClientStopped, process, Goes, RuntimeKnown, DshTypes, HolderKnown
<1>4. StartupKnown'
  BY DEF ClientStopped, Goes, Constant, Unmoved, Starts, RuntimeKnown, StartupKnown
<1>5. ExitKnown'
  BY DEF ClientStopped, process, ExitKnown
<1>6. ShownKnown'
  BY DEF ClientStopped, process, Show, ShownKnown
<1>7. QuietKnown'
  BY DEF ClientStopped, process, Goes, Unmoved, Recovering, RuntimeKnown, DshTypes, QuietKnown
<1> QED BY <1>1, <1>2, <1>3, <1>4, <1>5, <1>6, <1>7 DEF RuntimeKnown

LEMMA ConfirmKnown == ASSUME NEW who \in {"client", "recovery"}, RuntimeKnown, Confirm(who) PROVE RuntimeKnown'
<1>1. DshTypes'
  BY DEF Confirm, process, shown, Goes, Show, EnterRecovery, Fails, ClientFails, ClientAt,
     RecoveryAt, RuntimeKnown, DshTypes
<1>2. LaunchKnown'
  BY DEF Confirm, process, RuntimeKnown, LaunchKnown
<1>3. HolderKnown'
  BY DEF Confirm, process, Goes, Fails, ClientFails, RuntimeKnown, DshTypes, HolderKnown
<1>4. StartupKnown'
  BY DEF Confirm, Goes, Show, Constant, Fails, ClientFails, RuntimeKnown, DshTypes, StartupKnown
<1>5. ExitKnown'
  BY DEF Confirm, process, Goes, Fails, ClientFails, RuntimeKnown, DshTypes, ExitKnown
<1>6. ShownKnown'
  BY DEF Confirm, process, shown, Goes, Show, EnterRecovery, Recovering, Fails, ClientFails,
     RuntimeKnown, DshTypes, LaunchKnown, HolderKnown, ShownKnown
<1>7. QuietKnown'
  BY DEF Confirm, history, Recovering, Fails, RuntimeKnown, QuietKnown
<1> QED BY <1>1, <1>2, <1>3, <1>4, <1>5, <1>6, <1>7 DEF RuntimeKnown

LEMMA RecoveryPublishesKnown == ASSUME RuntimeKnown, RecoveryPublishes PROVE RuntimeKnown'
<1>1. DshTypes'
  BY DEF RecoveryPublishes, shown, Goes, Show, EnterRecovery, RecoveryFails, RecoveryAt,
     RuntimeKnown, DshTypes
<1>2. LaunchKnown'
  BY DEF RecoveryPublishes, RuntimeKnown, LaunchKnown
<1>3. HolderKnown'
  BY DEF RecoveryPublishes, Goes, RecoveryFails, RuntimeKnown, DshTypes, HolderKnown
<1>4. StartupKnown'
  BY DEF RecoveryPublishes, shown, Goes, Show, EnterRecovery, Constant, RecoveryFails,
     RuntimeKnown, DshTypes, StartupKnown
<1>5. ExitKnown'
  BY DEF RecoveryPublishes, Goes, RecoveryFails, RuntimeKnown, DshTypes, LaunchKnown, ExitKnown
<1>6. ShownKnown'
  BY DEF RecoveryPublishes, shown, Goes, Show, EnterRecovery, Recovering, RecoveryFails,
     RuntimeKnown, DshTypes, LaunchKnown, HolderKnown, ShownKnown
<1>7. QuietKnown'
  BY DEF RecoveryPublishes, history, Recovering, RuntimeKnown, QuietKnown
<1> QED BY <1>1, <1>2, <1>3, <1>4, <1>5, <1>6, <1>7 DEF RuntimeKnown

LEMMA SwitchCommitsKnown == ASSUME RuntimeKnown, SwitchCommits PROVE RuntimeKnown'
<1>1. DshTypes'
  BY DEF SwitchCommits, process, shown, Goes, ClientAt, RuntimeKnown, DshTypes
<1>2. LaunchKnown'
  BY DEF SwitchCommits, process, RuntimeKnown, LaunchKnown
<1>3. HolderKnown'
  BY DEF SwitchCommits, process, Goes, RuntimeKnown, HolderKnown
<1>4. StartupKnown'
  BY DEF SwitchCommits, shown, Goes, Constant, RuntimeKnown, StartupKnown
<1>5. ExitKnown'
  BY DEF SwitchCommits, process, Goes, RuntimeKnown, ExitKnown
<1>6. ShownKnown'
  BY DEF SwitchCommits, process, shown, history, Goes, Constant, Recovering, RuntimeKnown,
     ShownKnown
<1>7. QuietKnown'
  BY DEF SwitchCommits, history, RuntimeKnown, QuietKnown
<1> QED BY <1>1, <1>2, <1>3, <1>4, <1>5, <1>6, <1>7 DEF RuntimeKnown

LEMMA StartupCompletesKnown == ASSUME RuntimeKnown, StartupCompletes PROVE RuntimeKnown'
<1>1. DshTypes'
  BY DEF StartupCompletes, Goes, ClientAt, RuntimeKnown, DshTypes
<1>2. LaunchKnown'
  BY DEF StartupCompletes, RuntimeKnown, LaunchKnown
<1>3. HolderKnown'
  BY DEF StartupCompletes, Goes, RuntimeKnown, HolderKnown
<1>4. StartupKnown'
  BY DEF StartupCompletes, Goes, RuntimeKnown, DshTypes, StartupKnown
<1>5. ExitKnown'
  BY DEF StartupCompletes, Goes, RuntimeKnown, ExitKnown
<1>6. ShownKnown'
  BY DEF StartupCompletes, Goes, Recovering, RuntimeKnown, DshTypes, LaunchKnown, HolderKnown,
     ShownKnown
<1>7. QuietKnown'
  BY DEF StartupCompletes, history, RuntimeKnown, QuietKnown
<1> QED BY <1>1, <1>2, <1>3, <1>4, <1>5, <1>6, <1>7 DEF RuntimeKnown

LEMMA HandleFatalKnown == ASSUME RuntimeKnown, HandleFatal PROVE RuntimeKnown'
<1>1. DshTypes'
  BY DEF HandleFatal, process, Goes, Show, Defer, RecoveryAt, RuntimeKnown, DshTypes
<1>2. LaunchKnown'
  BY DEF HandleFatal, process, RuntimeKnown, LaunchKnown
<1>3. HolderKnown'
  BY DEF HandleFatal, process, Goes, Defer, RuntimeKnown, DshTypes, HolderKnown
<1>4. StartupKnown'
  BY DEF HandleFatal, Goes, Show, Constant, Defer, RuntimeKnown, DshTypes, StartupKnown
<1>5. ExitKnown'
  BY DEF HandleFatal, Goes, Defer, RuntimeKnown, DshTypes, ExitKnown
<1>6. ShownKnown'
  BY DEF HandleFatal, Goes, Show, Recovering, Defer, RuntimeKnown, DshTypes, ShownKnown
<1>7. QuietKnown'
  BY DEF HandleFatal, history, Recovering, RuntimeKnown, QuietKnown
<1> QED BY <1>1, <1>2, <1>3, <1>4, <1>5, <1>6, <1>7 DEF RuntimeKnown

LEMMA AttemptsKnown == ASSUME RuntimeKnown, Attempts PROVE RuntimeKnown'
<1>1. DshTypes'
  BY DEF Attempts, process, Goes, Show, Defer, RecoveryAt, RuntimeKnown, DshTypes
<1>2. LaunchKnown'
  BY DEF Attempts, process, RuntimeKnown, LaunchKnown
<1>3. HolderKnown'
  BY DEF Attempts, process, Goes, Defer, RuntimeKnown, DshTypes, HolderKnown
<1>4. StartupKnown'
  BY DEF Attempts, Goes, Show, Constant, Defer, RuntimeKnown, DshTypes, StartupKnown
<1>5. ExitKnown'
  BY DEF Attempts, Goes, Defer, RuntimeKnown, DshTypes, ExitKnown
<1>6. ShownKnown'
  BY DEF Attempts, Goes, Show, Recovering, Defer, RuntimeKnown, DshTypes, ShownKnown
<1>7. QuietKnown'
  BY DEF Attempts, history, Recovering, RuntimeKnown, QuietKnown
<1> QED BY <1>1, <1>2, <1>3, <1>4, <1>5, <1>6, <1>7 DEF RuntimeKnown

LEMMA IsolationAcquiresKnown == ASSUME RuntimeKnown, IsolationAcquires PROVE RuntimeKnown'
<1>1. DshTypes'
  BY DEF IsolationAcquires, process, shown, Unmoved, RuntimeKnown, DshTypes
<1>2. LaunchKnown'
  BY DEF IsolationAcquires, process, RuntimeKnown, LaunchKnown
<1>3. HolderKnown'
  BY DEF IsolationAcquires, process, RuntimeKnown, HolderKnown
<1>4. StartupKnown'
  BY DEF IsolationAcquires, shown, Constant, Unmoved, RuntimeKnown, StartupKnown
<1>5. ExitKnown'
  BY DEF IsolationAcquires, ExitKnown
<1>6. ShownKnown'
  BY DEF IsolationAcquires, shown, Recovering, RuntimeKnown, ShownKnown
<1>7. QuietKnown'
  BY DEF IsolationAcquires, history, Recovering, RuntimeKnown, QuietKnown
<1> QED BY <1>1, <1>2, <1>3, <1>4, <1>5, <1>6, <1>7 DEF RuntimeKnown

LEMMA IsolatedKnown == ASSUME RuntimeKnown, Isolated PROVE RuntimeKnown'
<1>1. DshTypes'
  BY DEF Isolated, process, shown, Goes, Unmoved, RecoveryAt, RuntimeKnown, DshTypes
<1>2. LaunchKnown'
  BY DEF Isolated, process, RuntimeKnown, LaunchKnown
<1>3. HolderKnown'
  BY DEF Isolated, process, Goes, RuntimeKnown, HolderKnown
<1>4. StartupKnown'
  BY DEF Isolated, shown, Goes, Constant, Unmoved, RuntimeKnown, StartupKnown
<1>5. ExitKnown'
  BY DEF Isolated, process, ExitKnown
<1>6. ShownKnown'
  BY DEF Isolated, process, shown, RuntimeKnown, ShownKnown
<1>7. QuietKnown'
  BY DEF Isolated, Recovering, RuntimeKnown, QuietKnown
<1> QED BY <1>1, <1>2, <1>3, <1>4, <1>5, <1>6, <1>7 DEF RuntimeKnown

LEMMA InitRuntimeKnown == ASSUME DshInit PROVE RuntimeKnown
BY DEF DshInit, RuntimeKnown, DshTypes, LaunchKnown, HolderKnown, StartupKnown, ExitKnown, ShownKnown,
       QuietKnown, ClientAt, RecoveryAt, Asks, Starts, Recovering

LEMMA NextRuntimeKnown == ASSUME RuntimeKnown, [DshNext]_dshVars PROVE RuntimeKnown'
<1>1. ASSUME NEW who \in {"client", "recovery"}, RunnerSteps(who) PROVE RuntimeKnown'
  BY <1>1, AcquireKnown, StopBeginsKnown, StopEndsKnown, StoppedKnown, LaunchesKnown, StartCompletesKnown,
     StartFailsKnown, PreparedKnown, PreparationFailsKnown, ConfirmKnown DEF RunnerSteps
<1>2. CASE ClientSteps
  BY <1>1, <1>2, AlreadyListedKnown, ClientStoppedKnown, SwitchCommitsKnown, StartupCompletesKnown
     DEF ClientSteps
<1>3. CASE RecoverySteps
  BY <1>1, <1>3, RecoveryPublishesKnown, HandleFatalKnown, AttemptsKnown, IsolationAcquiresKnown,
     IsolatedKnown DEF RecoverySteps
<1>4. CASE DshClaims
  BY <1>4, DshClaimsKnown
<1>5. CASE DshExits
  BY <1>5, DshExitsKnown
<1>6. ASSUME NEW kind \in Asks, Ask(kind) PROVE RuntimeKnown'
  BY <1>6, AskKnown
<1>7. CASE UNCHANGED dshVars
  BY <1>7 DEF dshVars, process, shown, history, RuntimeKnown, DshTypes, LaunchKnown, HolderKnown,
     StartupKnown, ExitKnown, ShownKnown, QuietKnown, Starts, Recovering
<1> QED BY <1>2, <1>3, <1>4, <1>5, <1>6, <1>7 DEF DshNext

LEMMA KnownIsHonest == ASSUME RuntimeKnown PROVE RuntimeHonest
<1>1. PublicIsServed
  BY DEF RuntimeKnown, LaunchKnown, PublicIsServed, PublicReady
<1>2. StatusTrue
  BY DEF RuntimeKnown, DshTypes, LaunchKnown, ShownKnown, StatusTrue, AtRest, Recovering
<1>3. QuietStopLasts
  BY DEF RuntimeKnown, QuietKnown, QuietStopLasts
<1> QED BY <1>1, <1>2, <1>3 DEF RuntimeHonest

(* However the requests of a client, the exits of DSH and its automatic     *)
(* recovery meet: DSH traffic is admitted only for a process that started   *)
(* completely and still runs, what the state says of DSH at rest is not     *)
(* better than the truth, and an explicit stop lasts until DSH is asked for *)
(* again (runtime.mjs, lifecycle.mjs).                                      *)
THEOREM RuntimeStaysHonest == DshSpec => []RuntimeHonest
<1>1. DshSpec => []RuntimeKnown
  BY InitRuntimeKnown, NextRuntimeKnown, PTL DEF DshSpec
<1> QED BY <1>1, KnownIsHonest, PTL

-----------------------------------------------------------------------------
(* The security tab of a user who waits for the answers.                   *)

Calls == {"begin", "confirm", "cancel", "save", "load"}
BeginCall == [at : {"sent", "no"}, kind : Kinds] \union [at : {"yes"}, kind : Kinds, id : {1, 2}]
ConfirmCall == [at : {"sent", "yes", "no", "wrong", "gone"}, kind : Kinds, id : {1, 2}]
CancelCall == [at : {"sent", "yes", "no"}, kind : Kinds, id : {1, 2}, reset : BOOLEAN]
SaveCall ==
  [at : {"sent", "yes", "no", "gone"}, kind : {"none"} \union Kinds, id : {0, 1, 2}]
LoadCall == [at : {"sent", "no"}] \union [at : {"yes"}, on : BOOLEAN]
Change == [kind : Kinds, id : {0, 1, 2}, confirmed : BOOLEAN]

AuthTypes ==
  /\ calls = [c \in Calls |-> calls[c]]
  /\ calls["begin"] \in {Idly} \union BeginCall
  /\ calls["confirm"] \in {Idly} \union ConfirmCall
  /\ calls["cancel"] \in {Idly} \union CancelCall
  /\ calls["save"] \in {Idly} \union SaveCall
  /\ calls["load"] \in {Idly} \union LoadCall
  /\ toggle \in [on : BOOLEAN, free : BOOLEAN]
  /\ pending \in {NoFlow} \union Change
  /\ flow \in {NoFlow} \union [kind : Kinds, id : {1, 2}, confirmed : BOOLEAN]
  /\ factor \in BOOLEAN /\ known \in BOOLEAN /\ dialog \in {"closed", "open", "spent"}

(* One request at a time, and none that sets the form under the dialog.    *)
OneCall == \A c, d \in Calls : calls[c] # Idly /\ calls[d] # Idly => c = d
DialogQuiet ==
  /\ dialog # "closed" => Quiet({"begin", "save", "load"})
  /\ calls["confirm"] # Idly => dialog # "closed"

(* The change in the form is that of the account the page knows.           *)
KindFor == IF known THEN "disable" ELSE "enable"
ChangeKnown ==
  /\ pending # NoFlow => pending.kind = KindFor
  /\ calls["begin"] # Idly =>
       /\ calls["begin"].kind = KindFor /\ toggle.on = TRUE
       /\ calls["begin"].kind = "enable" => pending = NoFlow
  /\ calls["confirm"] # Idly =>
       /\ pending # NoFlow /\ pending.kind = calls["confirm"].kind
       /\ pending.id = calls["confirm"].id

(* A change waits for its code in the dialog, or for the answer that opens *)
(* it; and while the dialog is open nothing can be saved.                  *)
DialogKnown ==
  /\ dialog # "closed" =>
       pending # NoFlow /\ pending.id # 0 /\ pending.confirmed = FALSE /\ saveOff = TRUE
  /\ pending # NoFlow /\ pending.confirmed = FALSE => dialog # "closed" \/ calls["begin"] # Idly
  /\ pending # NoFlow /\ pending.confirmed = TRUE => pending.id # 0

(* A cancellation takes back the switch, or closes the dialog.             *)
CancelKnown ==
  calls["cancel"] # Idly =>
    /\ pending # NoFlow
    /\ calls["cancel"].reset = TRUE => dialog # "closed"
    /\ calls["cancel"].reset = FALSE =>
         dialog = "closed" /\ pending.confirmed = TRUE /\ toggle.on = known

(* The switch differs from the account for a change under way.             *)
SwitchKnown ==
  toggle.on # known =>
    \/ calls["begin"] # Idly
    \/ /\ pending # NoFlow /\ pending.kind = Wanted
       /\ pending.confirmed = TRUE \/ dialog # "closed"

AuthInv ==
  /\ AuthTypes /\ OneCall /\ DialogQuiet /\ ChangeKnown /\ DialogKnown /\ CancelKnown
  /\ SwitchKnown

LEMMA PutIs ==
  ASSUME AuthTypes, NEW c \in Calls, NEW r, Put(c, r)
  PROVE  /\ calls' = [d \in Calls |-> calls'[d]] /\ calls'[c] = r
         /\ \A d \in Calls \ {c} : calls'[d] = calls[d]
BY DEF AuthTypes, Put

LEMMA ChangeFieldKnown ==
  ASSUME AuthInv, ~Hasty, ChangeField
  PROVE  AuthInv'
<1>1. AuthTypes'
  BY DEF ChangeField, AuthInv, AuthTypes
<1>2. OneCall'
  BY DEF ChangeField, OneCall, MayAct, Quiet, Calls
<1>3. DialogQuiet'
  BY DEF ChangeField, AuthInv, DialogQuiet, Quiet
<1>4. ChangeKnown'
  BY DEF ChangeField, AuthInv, ChangeKnown, KindFor
<1>5. DialogKnown'
  BY DEF ChangeField, AuthInv, DialogKnown, RenderSave
<1>6. CancelKnown'
  BY DEF ChangeField, CancelKnown, MayAct, Quiet
<1>7. SwitchKnown'
  BY DEF ChangeField, AuthInv, SwitchKnown, Wanted
<1> QED BY <1>1, <1>2, <1>3, <1>4, <1>5, <1>6, <1>7 DEF AuthInv

LEMMA TakeBackKnown ==
  ASSUME AuthInv, ~Hasty, Toggle, toggle' = [toggle EXCEPT !.on = known], pending' = pending,
         calls' = calls \/ (pending # NoFlow /\ Put("cancel", CancelOf(pending, FALSE)))
  PROVE  AuthInv'
<1>a. /\ \A c \in Calls : calls[c] = Idly
      /\ dialog = "closed" /\ UNCHANGED <<known, dialog, fields, factor, flow>>
      /\ pending # NoFlow => pending \in Change /\ pending.confirmed = TRUE /\ pending.id # 0
  BY DEF Toggle, MayAct, Quiet, AuthInv, AuthTypes, DialogQuiet, DialogKnown, Calls
<1>b. CancelOf(pending, FALSE) \in CancelCall \/ pending = NoFlow
  BY <1>a DEF CancelOf, CancelCall, Change
<1>c. \/ calls' = calls
      \/ /\ pending # NoFlow /\ calls'["cancel"] \in CancelCall
         /\ calls'["cancel"].reset = FALSE
         /\ calls' = [d \in Calls |-> calls'[d]]
         /\ \A d \in Calls \ {"cancel"} : calls'[d] = calls[d]
  BY <1>b, PutIs DEF AuthInv, CancelOf, Calls
<1>1. AuthTypes'
  BY <1>a, <1>c DEF AuthInv, AuthTypes, Calls
<1>2. OneCall'
  BY <1>a, <1>c DEF OneCall
<1>3. DialogQuiet'
  BY <1>a, <1>c DEF DialogQuiet, Calls
<1>4. ChangeKnown'
  BY <1>a, <1>c DEF AuthInv, ChangeKnown, KindFor, Calls
<1>5. DialogKnown'
  BY <1>a DEF DialogKnown
<1>6. CancelKnown'
  BY <1>a, <1>c DEF CancelKnown, Calls
<1>7. SwitchKnown'
  BY <1>a DEF SwitchKnown
<1> QED BY <1>1, <1>2, <1>3, <1>4, <1>5, <1>6, <1>7 DEF AuthInv

LEMMA AskDisableKnown ==
  ASSUME AuthInv, ~Hasty, Toggle, known, toggle' = [on |-> TRUE, free |-> FALSE],
         pending' = [kind |-> "disable", id |-> 0, confirmed |-> FALSE],
         Put("begin", BeginOf("disable"))
  PROVE  AuthInv'
<1>a. /\ \A c \in Calls : calls[c] = Idly
      /\ dialog = "closed" /\ UNCHANGED <<known, dialog, fields, factor, flow>>
      /\ pending # NoFlow => pending \in Change /\ pending.confirmed = TRUE /\ pending.id # 0
  BY DEF Toggle, MayAct, Quiet, AuthInv, AuthTypes, DialogQuiet, DialogKnown, Calls
<1>b. /\ calls'["begin"] = [at |-> "sent", kind |-> "disable"]
      /\ calls' = [d \in Calls |-> calls'[d]]
      /\ \A d \in Calls \ {"begin"} : calls'[d] = calls[d]
  BY PutIs DEF AuthInv, BeginOf, Calls
<1>c. /\ calls'["begin"] \in BeginCall /\ calls'["begin"].kind = "disable"
      /\ calls'["begin"] # Idly
  BY <1>b DEF BeginCall, Kinds, Idly
<1>e. /\ pending' \in Change /\ pending' # NoFlow /\ pending'.kind = "disable"
      /\ pending'.confirmed = FALSE /\ known = TRUE
  BY DEF Change, Kinds, NoFlow, AuthInv, AuthTypes
<1>1. AuthTypes'
  BY <1>a, <1>b, <1>c, <1>e DEF AuthInv, AuthTypes, Calls
<1>2. OneCall'
  BY <1>a, <1>b DEF OneCall
<1>3. DialogQuiet'
  BY <1>a, <1>b DEF DialogQuiet, Calls
<1>4. ChangeKnown'
  BY <1>a, <1>b DEF ChangeKnown, KindFor, Calls
<1>5. DialogKnown'
  BY <1>a, <1>c DEF DialogKnown
<1>6. CancelKnown'
  BY <1>a, <1>b DEF CancelKnown, Calls
<1>7. SwitchKnown'
  BY <1>c DEF SwitchKnown
<1> QED BY <1>1, <1>2, <1>3, <1>4, <1>5, <1>6, <1>7 DEF AuthInv

LEMMA TakeUpKnown ==
  ASSUME AuthInv, ~Hasty, Toggle, ~known, pending # NoFlow, pending.confirmed,
         toggle' = [toggle EXCEPT !.on = TRUE],
         UNCHANGED <<pending, calls>>
  PROVE  AuthInv'
<1>a. /\ \A c \in Calls : calls[c] = Idly
      /\ dialog = "closed" /\ UNCHANGED <<known, dialog, fields, factor, flow>>
      /\ pending # NoFlow => pending \in Change /\ pending.confirmed = TRUE /\ pending.id # 0
  BY DEF Toggle, MayAct, Quiet, AuthInv, AuthTypes, DialogQuiet, DialogKnown, Calls
<1>1. AuthTypes'
  BY <1>a DEF AuthInv, AuthTypes
<1>2. OneCall'
  BY <1>a DEF OneCall
<1>3. DialogQuiet'
  BY <1>a DEF DialogQuiet, Calls
<1>4. ChangeKnown'
  BY <1>a DEF AuthInv, ChangeKnown, KindFor
<1>5. DialogKnown'
  BY <1>a DEF DialogKnown
<1>6. CancelKnown'
  BY <1>a DEF CancelKnown, Calls
<1>7. SwitchKnown'
  BY DEF AuthInv, ChangeKnown, SwitchKnown, Wanted, KindFor
<1> QED BY <1>1, <1>2, <1>3, <1>4, <1>5, <1>6, <1>7 DEF AuthInv

LEMMA AskEnableKnown ==
  ASSUME AuthInv, ~Hasty, Toggle, ~known,
         ~(pending # NoFlow /\ pending.confirmed), pending' = pending,
         toggle' = [on |-> TRUE, free |-> FALSE], Put("begin", BeginOf("enable"))
  PROVE  AuthInv'
<1>a. /\ \A c \in Calls : calls[c] = Idly
      /\ dialog = "closed" /\ UNCHANGED <<known, dialog, fields, factor, flow>>
      /\ pending # NoFlow => pending \in Change /\ pending.confirmed = TRUE /\ pending.id # 0
  BY DEF Toggle, MayAct, Quiet, AuthInv, AuthTypes, DialogQuiet, DialogKnown, Calls
<1>b. /\ calls'["begin"] = [at |-> "sent", kind |-> "enable"]
      /\ calls' = [d \in Calls |-> calls'[d]]
      /\ \A d \in Calls \ {"begin"} : calls'[d] = calls[d]
  BY PutIs DEF AuthInv, BeginOf, Calls
<1>c. /\ calls'["begin"] \in BeginCall /\ calls'["begin"].kind = "enable"
      /\ calls'["begin"] # Idly
  BY <1>b DEF BeginCall, Kinds, Idly
<1>1. AuthTypes'
  BY <1>a, <1>b, <1>c DEF AuthInv, AuthTypes, Calls
<1>2. OneCall'
  BY <1>a, <1>b DEF OneCall
<1>3. DialogQuiet'
  BY <1>a, <1>b DEF DialogQuiet, Calls
<1>4. ChangeKnown'
  BY <1>a, <1>b DEF ChangeKnown, KindFor, Calls
<1>5. DialogKnown'
  BY <1>a DEF DialogKnown
<1>6. CancelKnown'
  BY <1>a, <1>b DEF CancelKnown, Calls
<1>7. SwitchKnown'
  BY <1>c DEF SwitchKnown
<1> QED BY <1>1, <1>2, <1>3, <1>4, <1>5, <1>6, <1>7 DEF AuthInv

LEMMA GiveCodeKnown ==
  ASSUME AuthInv, ~Hasty, GiveCode
  PROVE  AuthInv'
<1>a. /\ UNCHANGED <<factor, flow, pageState>> /\ dialog # "closed"
      /\ calls["confirm"] = Idly /\ calls["cancel"] = Idly
      /\ calls["begin"] = Idly /\ calls["save"] = Idly /\ calls["load"] = Idly
      /\ pending \in Change /\ pending # NoFlow /\ pending.id # 0
  BY DEF GiveCode, Quiet, AuthInv, AuthTypes, DialogQuiet, DialogKnown
<1>b. /\ calls'["confirm"] = [at |-> "sent", kind |-> pending.kind, id |-> pending.id]
      /\ calls' = [d \in Calls |-> calls'[d]]
      /\ \A d \in Calls \ {"confirm"} : calls'[d] = calls[d]
  BY PutIs DEF AuthInv, GiveCode, Calls
<1>c. /\ calls'["confirm"] \in ConfirmCall /\ calls'["confirm"].kind = pending.kind
      /\ calls'["confirm"].id = pending.id
  BY <1>a, <1>b DEF ConfirmCall, Change
<1>1. AuthTypes'
  BY <1>a, <1>b, <1>c DEF AuthInv, AuthTypes, pageState, Calls
<1>2. OneCall'
  BY <1>a, <1>b DEF OneCall, Calls
<1>3. DialogQuiet'
  BY <1>a, <1>b DEF DialogQuiet, pageState, Quiet, Calls
<1>4. ChangeKnown'
  BY <1>a, <1>b DEF AuthInv, ChangeKnown, pageState, KindFor, Calls
<1>5. DialogKnown'
  BY <1>a DEF AuthInv, DialogKnown, pageState
<1>6. CancelKnown'
  BY <1>a, <1>b DEF CancelKnown, Calls
<1>7. SwitchKnown'
  BY <1>a DEF AuthInv, SwitchKnown, pageState, Wanted
<1> QED BY <1>1, <1>2, <1>3, <1>4, <1>5, <1>6, <1>7 DEF AuthInv

LEMMA CloseDialogKnown ==
  ASSUME AuthInv, ~Hasty, CloseDialog
  PROVE  AuthInv'
<1>a. /\ UNCHANGED <<factor, flow, pageState>> /\ dialog # "closed"
      /\ calls["confirm"] = Idly /\ calls["cancel"] = Idly
      /\ calls["begin"] = Idly /\ calls["save"] = Idly /\ calls["load"] = Idly
      /\ pending \in Change /\ pending # NoFlow /\ pending.id # 0
      /\ Put("cancel", CancelOf(pending, TRUE))
  BY DEF CloseDialog, Quiet, AuthInv, AuthTypes, DialogQuiet, DialogKnown
<1>b. CancelOf(pending, TRUE) \in CancelCall /\ CancelOf(pending, TRUE).reset = TRUE
  BY <1>a DEF CancelOf, CancelCall, Change
<1>c. /\ calls'["cancel"] \in CancelCall /\ calls'["cancel"].reset = TRUE
      /\ calls' = [d \in Calls |-> calls'[d]]
      /\ \A d \in Calls \ {"cancel"} : calls'[d] = calls[d]
  BY <1>a, <1>b, PutIs DEF AuthInv, Calls
<1>1. AuthTypes'
  BY <1>a, <1>c DEF AuthInv, AuthTypes, pageState, Calls
<1>2. OneCall'
  BY <1>a, <1>c DEF OneCall, Calls
<1>3. DialogQuiet'
  BY <1>a, <1>c DEF DialogQuiet, Quiet, Calls
<1>4. ChangeKnown'
  BY <1>a, <1>c DEF AuthInv, ChangeKnown, pageState, KindFor, Calls
<1>5. DialogKnown'
  BY <1>a DEF AuthInv, DialogKnown, pageState
<1>6. CancelKnown'
  BY <1>a, <1>c DEF CancelKnown, pageState
<1>7. SwitchKnown'
  BY <1>a DEF AuthInv, SwitchKnown, pageState, Wanted
<1> QED BY <1>1, <1>2, <1>3, <1>4, <1>5, <1>6, <1>7 DEF AuthInv

LEMMA PressSaveKnown ==
  ASSUME AuthInv, ~Hasty, PressSave
  PROVE  AuthInv'
<1>1. AuthTypes'
  BY DEF PressSave, AuthInv, AuthTypes, Put, Confirmed, Calls, SaveCall, Change
<1>2. OneCall'
  BY DEF PressSave, AuthInv, AuthTypes, OneCall, DialogQuiet, MayAct, Quiet, Put, Calls
<1>3. DialogQuiet'
  BY DEF PressSave, AuthInv, AuthTypes, DialogQuiet, MayAct, Put, Calls
<1>4. ChangeKnown'
  BY DEF PressSave, AuthInv, AuthTypes, ChangeKnown, Put, KindFor, Calls
<1>5. DialogKnown'
  BY DEF PressSave, AuthInv, DialogKnown, MayAct, Quiet
<1>6. CancelKnown'
  BY DEF PressSave, AuthInv, AuthTypes, CancelKnown, Put, Calls
<1>7. SwitchKnown'
  BY DEF PressSave, AuthInv, SwitchKnown, Confirmed, Wanted
<1> QED BY <1>1, <1>2, <1>3, <1>4, <1>5, <1>6, <1>7 DEF AuthInv

LEMMA EnterTabKnown ==
  ASSUME AuthInv, ~Hasty, EnterTab
  PROVE  AuthInv'
<1>a. /\ UNCHANGED <<factor, flow, pageState>> /\ dialog = "closed"
      /\ \A c \in Calls : calls[c] = Idly
  BY DEF EnterTab, MayAct, Quiet, AuthInv, DialogQuiet, Calls
<1>b. /\ calls'["load"] = [at |-> "sent"] /\ calls' = [d \in Calls |-> calls'[d]]
      /\ \A d \in Calls \ {"load"} : calls'[d] = calls[d]
  BY PutIs DEF AuthInv, EnterTab, Calls
<1>c. calls'["load"] \in LoadCall
  BY <1>b DEF LoadCall
<1>1. AuthTypes'
  BY <1>a, <1>b, <1>c DEF AuthInv, AuthTypes, pageState, Calls
<1>2. OneCall'
  BY <1>a, <1>b DEF OneCall
<1>3. DialogQuiet'
  BY <1>a, <1>b DEF DialogQuiet, pageState, Calls
<1>4. ChangeKnown'
  BY <1>a, <1>b DEF AuthInv, ChangeKnown, pageState, KindFor, Calls
<1>5. DialogKnown'
  BY <1>a DEF AuthInv, DialogKnown, pageState, Calls
<1>6. CancelKnown'
  BY <1>a, <1>b DEF CancelKnown, Calls
<1>7. SwitchKnown'
  BY <1>a DEF AuthInv, SwitchKnown, pageState, Wanted, Calls
<1> QED BY <1>1, <1>2, <1>3, <1>4, <1>5, <1>6, <1>7 DEF AuthInv

LEMMA LeavePageKnown ==
  ASSUME AuthInv, ~Hasty, LeavePage
  PROVE  AuthInv'
<1>a. /\ known' = FALSE /\ toggle' = [on |-> FALSE, free |-> TRUE] /\ pending' = NoFlow
      /\ dialog' = "closed"
      /\ calls' = [AllIdle EXCEPT !["load"] = [at |-> "sent"]] /\ flow' \in {flow, NoFlow}
      /\ UNCHANGED factor
  BY DEF LeavePage
<1>b. /\ calls' = [c \in Calls |-> calls'[c]] /\ calls'["load"] = [at |-> "sent"]
      /\ \A c \in Calls \ {"load"} : calls'[c] = Idly
  BY <1>a DEF AllIdle, Calls
<1>c. calls'["load"] \in LoadCall
  BY <1>b DEF LoadCall
<1>e. /\ calls'["begin"] = Idly /\ calls'["confirm"] = Idly /\ calls'["cancel"] = Idly
      /\ calls'["save"] = Idly
      /\ \A c \in Calls : calls'[c] # Idly => c = "load"
  BY <1>b DEF Calls
<1>f. /\ flow' \in {NoFlow} \union [kind : Kinds, id : {1, 2}, confirmed : BOOLEAN]
      /\ factor' \in BOOLEAN
  BY <1>a DEF AuthInv, AuthTypes
<1>1. AuthTypes'
  BY <1>a, <1>b, <1>c, <1>e, <1>f DEF AuthTypes
<1>2. OneCall'
  BY <1>e DEF OneCall
<1>3. DialogQuiet'
  BY <1>a, <1>e DEF DialogQuiet
<1>4. ChangeKnown'
  BY <1>a, <1>e DEF ChangeKnown
<1>5. DialogKnown'
  BY <1>a DEF DialogKnown
<1>6. CancelKnown'
  BY <1>e DEF CancelKnown
<1>7. SwitchKnown'
  BY <1>a DEF SwitchKnown
<1> QED BY <1>1, <1>2, <1>3, <1>4, <1>5, <1>6, <1>7 DEF AuthInv

LEMMA BeginReachedKnown ==
  ASSUME AuthInv, ~Hasty, BeginReached
  PROVE  AuthInv'
<1>a. /\ UNCHANGED <<factor, pageState>> /\ calls["begin"] \in BeginCall
      /\ calls["begin"].at = "sent"
  BY DEF BeginReached, AuthInv, AuthTypes, Idly
<1>b. /\ calls' = [d \in Calls |-> calls'[d]]
      /\ \A d \in Calls \ {"begin"} : calls'[d] = calls[d]
      /\ calls'["begin"] \in BeginCall /\ calls'["begin"].kind = calls["begin"].kind
      /\ flow' \in {NoFlow} \union [kind : Kinds, id : {1, 2}, confirmed : BOOLEAN]
  <2>1. CASE Answered("begin", "no") /\ UNCHANGED flow
    <3>1. /\ [calls["begin"] EXCEPT !.at = "no"] \in BeginCall
          /\ [calls["begin"] EXCEPT !.at = "no"].kind = calls["begin"].kind
      BY <1>a DEF BeginCall
    <3> QED BY <2>1, <3>1, PutIs DEF Answered, AuthInv, AuthTypes, Calls
  <2>2. CASE \E id \in {1, 2} : /\ flow' = [kind |-> calls["begin"].kind, id |-> id, confirmed |-> FALSE]
                                /\ Put("begin", [at |-> "yes", kind |-> calls["begin"].kind, id |-> id])
    <3>1. PICK id \in {1, 2} : /\ flow' = [kind |-> calls["begin"].kind, id |-> id, confirmed |-> FALSE]
                               /\ Put("begin", [at |-> "yes", kind |-> calls["begin"].kind, id |-> id])
      BY <2>2
    <3>2. calls["begin"].kind \in Kinds
      BY <1>a DEF BeginCall
    <3>3. /\ calls'["begin"] = [at |-> "yes", kind |-> calls["begin"].kind, id |-> id]
          /\ calls' = [d \in Calls |-> calls'[d]]
          /\ \A d \in Calls \ {"begin"} : calls'[d] = calls[d]
      BY <3>1, PutIs DEF AuthInv, Calls
    <3> QED BY <3>1, <3>2, <3>3 DEF BeginCall
  <2>3. (IF flow # NoFlow THEN 3 - flow.id ELSE 1) \in {1, 2}
    BY DEF AuthInv, AuthTypes
  <2> QED BY <2>1, <2>2, <2>3 DEF BeginReached
<1>c. calls'["begin"] # Idly /\ calls["begin"] # Idly
  BY <1>a, <1>b DEF BeginCall, Idly
<1>1. AuthTypes'
  BY <1>a, <1>b DEF AuthInv, AuthTypes, pageState, Calls
<1>2. OneCall'
  BY <1>b, <1>c DEF AuthInv, OneCall
<1>3. DialogQuiet'
  BY <1>a, <1>b, <1>c DEF AuthInv, DialogQuiet, pageState, Quiet, Calls
<1>4. ChangeKnown'
  BY <1>a, <1>b, <1>c DEF AuthInv, ChangeKnown, pageState, KindFor, Calls
<1>5. DialogKnown'
  BY <1>a, <1>c DEF AuthInv, DialogKnown, pageState
<1>6. CancelKnown'
  BY <1>a, <1>b DEF AuthInv, CancelKnown, pageState, Calls
<1>7. SwitchKnown'
  BY <1>c DEF SwitchKnown
<1> QED BY <1>1, <1>2, <1>3, <1>4, <1>5, <1>6, <1>7 DEF AuthInv

LEMMA ConfirmReachedKnown ==
  ASSUME AuthInv, ~Hasty, ConfirmReached
  PROVE  AuthInv'
<1>a. /\ UNCHANGED <<pageState>> /\ calls["confirm"] \in ConfirmCall
      /\ calls["confirm"].at = "sent"
      /\ factor' = factor /\ flow' \in {flow, [flow EXCEPT !.confirmed = TRUE]} 
      /\ flow' # flow => flow # NoFlow
      /\ \E how \in {"yes", "wrong", "gone"} : Answered("confirm", how)
  BY DEF ConfirmReached, AuthInv, AuthTypes, Idly, Live
<1>b. /\ calls' = [d \in Calls |-> calls'[d]]
      /\ \A d \in Calls \ {"confirm"} : calls'[d] = calls[d]
      /\ calls'["confirm"] \in ConfirmCall /\ calls'["confirm"].kind = calls["confirm"].kind
      /\ calls'["confirm"].id = calls["confirm"].id
  <2> PICK how \in {"yes", "wrong", "gone"} : Answered("confirm", how)
    BY <1>a
  <2>1. /\ [calls["confirm"] EXCEPT !.at = how] \in ConfirmCall
        /\ [calls["confirm"] EXCEPT !.at = how].kind = calls["confirm"].kind
        /\ [calls["confirm"] EXCEPT !.at = how].id = calls["confirm"].id
    BY <1>a DEF ConfirmCall
  <2> QED BY <2>1, PutIs DEF Answered, AuthInv, Calls
<1>c. calls'["confirm"] # Idly /\ calls["confirm"] # Idly
  BY <1>a, <1>b DEF ConfirmCall, Idly
<1>d. flow' \in {NoFlow} \union [kind : Kinds, id : {1, 2}, confirmed : BOOLEAN]
  BY <1>a DEF AuthInv, AuthTypes
<1>1. AuthTypes'
  BY <1>a, <1>b, <1>d DEF AuthInv, AuthTypes, pageState, Calls
<1>2. OneCall'
  BY <1>b, <1>c DEF AuthInv, OneCall
<1>3. DialogQuiet'
  BY <1>a, <1>b, <1>c DEF AuthInv, DialogQuiet, pageState, Quiet, Calls
<1>4. ChangeKnown'
  BY <1>a, <1>b, <1>c DEF AuthInv, ChangeKnown, pageState, KindFor, Calls
<1>5. DialogKnown'
  BY <1>a, <1>b DEF AuthInv, DialogKnown, pageState, Calls
<1>6. CancelKnown'
  BY <1>a, <1>b DEF AuthInv, CancelKnown, pageState, Calls
<1>7. SwitchKnown'
  BY <1>a, <1>b DEF AuthInv, SwitchKnown, pageState, Wanted, Calls
<1> QED BY <1>1, <1>2, <1>3, <1>4, <1>5, <1>6, <1>7 DEF AuthInv

LEMMA CancelReachedKnown ==
  ASSUME AuthInv, ~Hasty, CancelReached
  PROVE  AuthInv'
<1>a. /\ UNCHANGED <<pageState>> /\ calls["cancel"] \in CancelCall
      /\ calls["cancel"].at = "sent"
      /\ factor' = factor
      /\ flow' \in {NoFlow} \union [kind : Kinds, id : {1, 2}, confirmed : BOOLEAN]
      /\ \E how \in {"yes"} : Answered("cancel", how)
  BY DEF CancelReached, AuthInv, AuthTypes, Idly, Live
<1>b. /\ calls' = [d \in Calls |-> calls'[d]]
      /\ \A d \in Calls \ {"cancel"} : calls'[d] = calls[d]
      /\ calls'["cancel"] \in CancelCall /\ calls'["cancel"].reset = calls["cancel"].reset
  <2> PICK how \in {"yes"} : Answered("cancel", how)
    BY <1>a
  <2>1. /\ [calls["cancel"] EXCEPT !.at = how] \in CancelCall
        /\ [calls["cancel"] EXCEPT !.at = how].reset = calls["cancel"].reset
    BY <1>a DEF CancelCall
  <2> QED BY <2>1, PutIs DEF Answered, AuthInv, Calls
<1>c. calls'["cancel"] # Idly /\ calls["cancel"] # Idly
  BY <1>a, <1>b DEF CancelCall, Idly
<1>1. AuthTypes'
  BY <1>a, <1>b DEF AuthInv, AuthTypes, pageState, Calls
<1>2. OneCall'
  BY <1>b, <1>c DEF AuthInv, OneCall
<1>3. DialogQuiet'
  BY <1>a, <1>b DEF AuthInv, DialogQuiet, pageState, Quiet, Calls
<1>4. ChangeKnown'
  BY <1>a, <1>b DEF AuthInv, ChangeKnown, pageState, KindFor, Calls
<1>5. DialogKnown'
  BY <1>a, <1>b DEF AuthInv, DialogKnown, pageState, Calls
<1>6. CancelKnown'
  BY <1>a, <1>b, <1>c DEF AuthInv, CancelKnown, pageState
<1>7. SwitchKnown'
  BY <1>a, <1>b DEF AuthInv, SwitchKnown, pageState, Wanted, Calls
<1> QED BY <1>1, <1>2, <1>3, <1>4, <1>5, <1>6, <1>7 DEF AuthInv

LEMMA SaveReachedKnown ==
  ASSUME AuthInv, ~Hasty, SaveReached
  PROVE  AuthInv'
<1>a. /\ UNCHANGED <<pageState>> /\ calls["save"] \in SaveCall /\ calls["save"].at = "sent"
      /\ factor' \in {factor, calls["save"].kind = "enable"} /\ flow' \in {flow, NoFlow}
      /\ \E how \in {"yes", "gone"} : Answered("save", how)
  BY DEF SaveReached, AuthInv, AuthTypes, Idly, Live
<1>b. /\ calls' = [d \in Calls |-> calls'[d]]
      /\ \A d \in Calls \ {"save"} : calls'[d] = calls[d]
      /\ calls'["save"] \in SaveCall /\ calls'["save"].kind = calls["save"].kind
  <2> PICK how \in {"yes", "gone"} : Answered("save", how)
    BY <1>a
  <2>1. /\ [calls["save"] EXCEPT !.at = how] \in SaveCall
        /\ [calls["save"] EXCEPT !.at = how].kind = calls["save"].kind
    BY <1>a DEF SaveCall
  <2> QED BY <2>1, PutIs DEF Answered, AuthInv, Calls
<1>c. calls'["save"] # Idly /\ calls["save"] # Idly
  BY <1>a, <1>b DEF SaveCall, Idly
<1>d. /\ factor' \in BOOLEAN
      /\ flow' \in {NoFlow} \union [kind : Kinds, id : {1, 2}, confirmed : BOOLEAN]
  BY <1>a DEF AuthInv, AuthTypes
<1>1. AuthTypes'
  BY <1>a, <1>b, <1>d DEF AuthInv, AuthTypes, pageState, Calls
<1>2. OneCall'
  BY <1>b, <1>c DEF AuthInv, OneCall
<1>3. DialogQuiet'
  BY <1>a, <1>b, <1>c DEF AuthInv, DialogQuiet, pageState, Quiet, Calls
<1>4. ChangeKnown'
  BY <1>a, <1>b DEF AuthInv, ChangeKnown, pageState, KindFor, Calls
<1>5. DialogKnown'
  BY <1>a, <1>b DEF AuthInv, DialogKnown, pageState, Calls
<1>6. CancelKnown'
  BY <1>a, <1>b DEF AuthInv, CancelKnown, pageState, Calls
<1>7. SwitchKnown'
  BY <1>a, <1>b DEF AuthInv, SwitchKnown, pageState, Wanted, Calls
<1> QED BY <1>1, <1>2, <1>3, <1>4, <1>5, <1>6, <1>7 DEF AuthInv

LEMMA LoadReachedKnown ==
  ASSUME AuthInv, ~Hasty, LoadReached
  PROVE  AuthInv'
<1>a. /\ UNCHANGED <<factor, flow, pageState>> /\ calls["load"] # Idly
  BY DEF LoadReached, AuthInv, AuthTypes, Idly
<1>b. /\ calls'["load"] = [at |-> "yes", on |-> factor]
      /\ calls' = [d \in Calls |-> calls'[d]]
      /\ \A d \in Calls \ {"load"} : calls'[d] = calls[d]
  BY PutIs DEF LoadReached, AuthInv, Calls
<1>c. calls'["load"] \in LoadCall
  <2>1. factor = TRUE \/ factor = FALSE
    BY DEF AuthInv, AuthTypes
  <2>2. CASE factor = TRUE
    <3>1. calls'["load"] = [at |-> "yes", on |-> TRUE]
      BY <1>b, <2>2, Zenon
    <3> QED BY <3>1 DEF LoadCall
  <2>3. CASE factor = FALSE
    <3>1. calls'["load"] = [at |-> "yes", on |-> FALSE]
      BY <1>b, <2>3, Zenon
    <3> QED BY <3>1 DEF LoadCall
  <2> QED BY <2>1, <2>2, <2>3
<1>1. AuthTypes'
  BY <1>a, <1>b, <1>c DEF AuthInv, AuthTypes, pageState, Calls
<1>2. OneCall'
  BY <1>a, <1>b DEF AuthInv, OneCall
<1>3. DialogQuiet'
  BY <1>a, <1>b DEF AuthInv, DialogQuiet, pageState, Quiet, Calls
<1>4. ChangeKnown'
  BY <1>a, <1>b DEF AuthInv, ChangeKnown, pageState, KindFor, Calls
<1>5. DialogKnown'
  BY <1>a, <1>b DEF AuthInv, DialogKnown, pageState, Calls
<1>6. CancelKnown'
  BY <1>a, <1>b DEF AuthInv, CancelKnown, pageState, Calls
<1>7. SwitchKnown'
  BY <1>a, <1>b DEF AuthInv, SwitchKnown, pageState, Wanted, Calls
<1> QED BY <1>1, <1>2, <1>3, <1>4, <1>5, <1>6, <1>7 DEF AuthInv

LEMMA CallFailsKnown ==
  ASSUME NEW c \in Calls, AuthInv, ~Hasty, CallFails(c)
  PROVE  AuthInv'
<1>a. /\ UNCHANGED <<factor, flow, pageState>> /\ calls[c].at = "sent" /\ Answered(c, "no")
      /\ calls[c] # Idly
  BY DEF CallFails, Idly
<1>b. /\ calls' = [d \in Calls |-> calls'[d]] /\ \A d \in Calls \ {c} : calls'[d] = calls[d]
      /\ calls'[c] = [calls[c] EXCEPT !.at = "no"]
  BY <1>a, PutIs DEF Answered, AuthInv
<1>c. /\ c = "begin" => calls'[c] \in BeginCall /\ calls'[c].kind = calls[c].kind
      /\ c = "load" => calls'[c] \in LoadCall
  BY <1>a, <1>b DEF AuthInv, AuthTypes, BeginCall, LoadCall
<1>d. c = "confirm" =>
        calls'[c] \in ConfirmCall /\ calls'[c].kind = calls[c].kind /\ calls'[c].id = calls[c].id
  BY <1>a, <1>b DEF AuthInv, AuthTypes, ConfirmCall
<1>e. /\ c = "cancel" => calls'[c] \in CancelCall /\ calls'[c].reset = calls[c].reset
      /\ c = "save" => calls'[c] \in SaveCall
  BY <1>a, <1>b DEF AuthInv, AuthTypes, CancelCall, SaveCall
<1>1. AuthTypes'
  BY <1>a, <1>b, <1>c, <1>d, <1>e DEF AuthInv, AuthTypes, pageState, Calls
<1>2. OneCall'
  BY <1>a, <1>b DEF AuthInv, OneCall
<1>3. DialogQuiet'
  BY <1>a, <1>b DEF AuthInv, DialogQuiet, pageState, Quiet, Calls
<1>4. ChangeKnown'
  BY <1>a, <1>b, <1>c, <1>d DEF AuthInv, ChangeKnown, pageState, KindFor, Calls, BeginCall,
     ConfirmCall
<1>5. DialogKnown'
  BY <1>a, <1>b DEF AuthInv, DialogKnown, pageState, Calls, Idly
<1>6. CancelKnown'
  BY <1>a, <1>b, <1>e DEF AuthInv, CancelKnown, pageState, Calls, CancelCall
<1>7. SwitchKnown'
  BY <1>a, <1>b DEF AuthInv, SwitchKnown, pageState, Wanted, Calls, Idly
<1> QED BY <1>1, <1>2, <1>3, <1>4, <1>5, <1>6, <1>7 DEF AuthInv

LEMMA TokenExpiresKnown ==
  ASSUME AuthInv, ~Hasty, TokenExpires
  PROVE  AuthInv'
<1>1. AuthTypes'
  BY DEF TokenExpires, AuthInv, AuthTypes, pageState
<1>2. OneCall'
  BY DEF TokenExpires, AuthInv, OneCall
<1>3. DialogQuiet'
  BY DEF TokenExpires, AuthInv, DialogQuiet, pageState, Quiet
<1>4. ChangeKnown'
  BY DEF TokenExpires, AuthInv, ChangeKnown, pageState, KindFor
<1>5. DialogKnown'
  BY DEF TokenExpires, AuthInv, DialogKnown, pageState
<1>6. CancelKnown'
  BY DEF TokenExpires, AuthInv, CancelKnown, pageState
<1>7. SwitchKnown'
  BY DEF TokenExpires, AuthInv, SwitchKnown, pageState, Wanted
<1> QED BY <1>1, <1>2, <1>3, <1>4, <1>5, <1>6, <1>7 DEF AuthInv

LEMMA OthersChangeKnown ==
  ASSUME AuthInv, ~Hasty, OthersChange
  PROVE  AuthInv'
<1>1. AuthTypes'
  BY DEF OthersChange, AuthInv, AuthTypes, pageState
<1>2. OneCall'
  BY DEF OthersChange, AuthInv, OneCall
<1>3. DialogQuiet'
  BY DEF OthersChange, AuthInv, DialogQuiet, pageState, Quiet
<1>4. ChangeKnown'
  BY DEF OthersChange, AuthInv, ChangeKnown, pageState, KindFor
<1>5. DialogKnown'
  BY DEF OthersChange, AuthInv, DialogKnown, pageState
<1>6. CancelKnown'
  BY DEF OthersChange, AuthInv, CancelKnown, pageState
<1>7. SwitchKnown'
  BY DEF OthersChange, AuthInv, SwitchKnown, pageState, Wanted
<1> QED BY <1>1, <1>2, <1>3, <1>4, <1>5, <1>6, <1>7 DEF AuthInv

LEMMA BeginAnsweredKnown ==
  ASSUME AuthInv, ~Hasty, BeginAnswered
  PROVE  AuthInv'
<1>a. /\ UNCHANGED <<factor, flow>> /\ calls["begin"] \in BeginCall
      /\ (\A d \in Calls \ {"begin"} : calls[d] = Idly) /\ dialog = "closed"
      /\ toggle.on = TRUE
      /\ UNCHANGED <<known, fields>> /\ calls["begin"].kind = KindFor /\ known \in BOOLEAN
      /\ calls["begin"].at \in {"yes", "no"}
      /\ calls["begin"].kind = "enable" => pending = NoFlow
  BY DEF BeginAnswered, AuthInv, AuthTypes, OneCall, DialogQuiet, DialogKnown, ChangeKnown,
     CancelKnown, Idly, Calls, Quiet, pageState
<1>b. /\ calls'["begin"] = Idly /\ calls' = [d \in Calls |-> calls'[d]]
      /\ \A d \in Calls \ {"begin"} : calls'[d] = calls[d]
  BY PutIs DEF BeginAnswered, AuthInv, Calls
<1>c. CASE calls["begin"].at = "yes"
  <2>1. pending' = [kind |-> calls["begin"].kind, id |-> calls["begin"].id, confirmed |-> FALSE]
    BY <1>c DEF BeginAnswered
  <2>2. calls["begin"].kind \in Kinds /\ calls["begin"].id \in {1, 2}
    BY <1>a, <1>c DEF BeginCall
  <2>3. /\ pending' \in Change /\ pending' # NoFlow /\ pending'.id # 0
        /\ pending'.confirmed = FALSE /\ pending'.kind = KindFor
    BY <1>a, <2>1, <2>2 DEF Change, NoFlow, Kinds
  <2>4. saveOff' = TRUE
    BY <2>3 DEF BeginAnswered, RenderSave
  <2>5. toggle' = [toggle EXCEPT !.free = TRUE] /\ dialog' = "open"
    BY <1>c DEF BeginAnswered
  <2>6. toggle' \in [on : BOOLEAN, free : BOOLEAN] /\ toggle'.on = TRUE
    <3>1. toggle \in [on : BOOLEAN, free : BOOLEAN] /\ toggle.on = TRUE
      BY <1>a DEF AuthInv, AuthTypes
    <3>2. toggle' = [toggle EXCEPT !.free = TRUE]
      BY <2>5
    <3> QED BY <3>1, <3>2
  <2>7. KindFor' = KindFor
    BY <1>a DEF KindFor
  <2>8. \A d \in Calls : calls'[d] = Idly
    BY <1>a, <1>b
  <2>9. AuthTypes' /\ OneCall' /\ DialogQuiet'
    BY <1>a, <1>b, <2>3, <2>5, <2>6, <2>8 DEF AuthInv, AuthTypes, OneCall, DialogQuiet,
       Quiet, Calls
  <2>10. ChangeKnown' /\ DialogKnown' /\ CancelKnown' /\ SwitchKnown'
    BY <1>a, <2>3, <2>4, <2>5, <2>6, <2>7, <2>8 DEF ChangeKnown, DialogKnown, CancelKnown,
       SwitchKnown, KindFor, Wanted, Calls
  <2> QED BY <2>9, <2>10 DEF AuthInv
<1>d. CASE calls["begin"].at = "no"
  <2>1. pending' = NoFlow /\ dialog' = dialog
    BY <1>a, <1>d DEF BeginAnswered, KindFor
  <2>2. toggle' \in [on : BOOLEAN, free : BOOLEAN] /\ toggle'.on = known
    <3>1. CASE calls["begin"].kind = "enable"
      <4>1. toggle' = [on |-> FALSE, free |-> TRUE] /\ known = FALSE
        BY <1>a, <1>d, <3>1 DEF BeginAnswered, KindFor
      <4> QED BY <4>1
    <3>2. CASE calls["begin"].kind # "enable"
      <4>1. toggle' = [on |-> TRUE, free |-> TRUE] /\ known = TRUE
        <5>1. toggle' = [on |-> toggle.on, free |-> TRUE] /\ known = TRUE
          BY <1>a, <1>d, <3>2 DEF BeginAnswered, KindFor
        <5> QED BY <1>a, <5>1, Zenon
      <4> QED BY <4>1
    <3> QED BY <3>1, <3>2
  <2>3. \A d \in Calls : calls'[d] = Idly
    BY <1>a, <1>b
  <2> QED BY <1>a, <1>b, <2>1, <2>2, <2>3 DEF AuthInv, AuthTypes, OneCall, DialogQuiet, ChangeKnown,
           DialogKnown, CancelKnown, SwitchKnown, Quiet, Calls
<1> QED BY <1>a, <1>c, <1>d

LEMMA ConfirmAnsweredKnown ==
  ASSUME AuthInv, ~Hasty, ConfirmAnswered
  PROVE  AuthInv'
<1>a. /\ UNCHANGED <<factor, flow>> /\ calls["confirm"] \in ConfirmCall
      /\ (\A d \in Calls \ {"confirm"} : calls[d] = Idly) /\ dialog # "closed"
      /\ UNCHANGED <<known, fields>> /\ pending \in Change /\ pending # NoFlow
      /\ pending.kind = KindFor /\ pending.id # 0
      /\ pending.confirmed = FALSE /\ pending.kind = calls["confirm"].kind
      /\ pending.id = calls["confirm"].id
  BY DEF ConfirmAnswered, AuthInv, AuthTypes, OneCall, DialogQuiet, DialogKnown,
     ChangeKnown, CancelKnown, Idly, Calls, Quiet, pageState
<1>b. /\ calls'["confirm"] = Idly /\ calls' = [d \in Calls |-> calls'[d]]
      /\ \A d \in Calls \ {"confirm"} : calls'[d] = calls[d]
  BY PutIs DEF ConfirmAnswered, AuthInv, Calls
<1>c. \/ /\ pending' = [pending EXCEPT !.confirmed = TRUE] /\ dialog' = "closed"
         /\ toggle' = [toggle EXCEPT !.on = IF pending.kind = "disable" THEN FALSE ELSE @]
      \/ UNCHANGED <<toggle, pending>> /\ dialog' \in {dialog, "spent"} /\ saveOff' = TRUE
  BY <1>a DEF ConfirmAnswered, RenderSave
<1>d. /\ pending' \in Change /\ pending'.kind = pending.kind /\ pending'.id = pending.id
      /\ pending' # NoFlow
      /\ pending' # pending => pending'.confirmed = TRUE
  BY <1>a, <1>c DEF Change, Kinds, NoFlow
<1>e. toggle' \in [on : BOOLEAN, free : BOOLEAN]
  BY <1>a, <1>c DEF AuthInv, AuthTypes
<1>f. /\ dialog' \in {"closed", "open", "spent"}
      /\ dialog' # "closed" => UNCHANGED <<toggle, pending>> /\ saveOff' = TRUE
  BY <1>a, <1>c DEF AuthInv, AuthTypes
<1>g. dialog' = "closed" =>
        pending'.confirmed = TRUE /\ (pending.kind = "disable" => toggle'.on = FALSE)
  <2>1. SUFFICES ASSUME dialog' = "closed" PROVE <1>g!2
    OBVIOUS
  <2>2. /\ pending' = [pending EXCEPT !.confirmed = TRUE]
        /\ toggle' = [toggle EXCEPT !.on = IF pending.kind = "disable" THEN FALSE ELSE @]
    BY <1>a, <1>c, <2>1
  <2>3. pending'.confirmed = TRUE
    BY <1>a, <2>2 DEF Change
  <2>4. toggle \in [on : BOOLEAN, free : BOOLEAN]
    BY DEF AuthInv, AuthTypes
  <2>5. pending.kind = "disable" => toggle'.on = FALSE
    BY <2>2, <2>4
  <2> QED BY <2>3, <2>5
<1>1. AuthTypes'
  BY <1>a, <1>b, <1>d, <1>e, <1>f DEF AuthInv, AuthTypes, Calls
<1>2. OneCall'
  BY <1>a, <1>b DEF OneCall
<1>3. DialogQuiet'
  BY <1>a, <1>b DEF DialogQuiet, Quiet, Calls
<1>4. ChangeKnown'
  BY <1>a, <1>b, <1>d DEF ChangeKnown, KindFor, Calls
<1>5. DialogKnown'
  BY <1>a, <1>d, <1>f, <1>g DEF DialogKnown
<1>6. CancelKnown'
  BY <1>a, <1>b DEF CancelKnown, Calls
<1>7. SwitchKnown'
  BY <1>a, <1>c, <1>d, <1>e, <1>g DEF AuthInv, SwitchKnown, Wanted, Calls
<1> QED BY <1>1, <1>2, <1>3, <1>4, <1>5, <1>6, <1>7 DEF AuthInv

LEMMA CancelAnsweredKnown ==
  ASSUME AuthInv, ~Hasty, CancelAnswered
  PROVE  AuthInv'
<1>a. /\ UNCHANGED <<factor, flow>> /\ calls["cancel"] \in CancelCall
      /\ (\A d \in Calls \ {"cancel"} : calls[d] = Idly) /\ UNCHANGED <<known, fields>>
      /\ calls["cancel"] # Idly /\ pending # NoFlow
  BY DEF CancelAnswered, AuthInv, AuthTypes, OneCall, DialogQuiet, DialogKnown, ChangeKnown,
     CancelKnown, Idly, Calls, Quiet, pageState
<1>b. /\ calls'["cancel"] = Idly /\ calls' = [d \in Calls |-> calls'[d]]
      /\ \A d \in Calls \ {"cancel"} : calls'[d] = calls[d]
  BY PutIs DEF CancelAnswered, AuthInv, Calls
<1>c. \/ /\ UNCHANGED <<pending, dialog>>
         /\ toggle' = IF ~known /\ ~calls["cancel"].reset /\ dialog = "closed"
                      THEN [toggle EXCEPT !.on = TRUE] ELSE toggle
      \/ /\ pending' = NoFlow /\ dialog' = "closed"
         /\ toggle' = IF calls["cancel"].reset THEN [toggle EXCEPT !.on = known] ELSE toggle
  BY DEF CancelAnswered
<1>d. /\ toggle' \in [on : BOOLEAN, free : BOOLEAN]
      /\ (toggle'.on = toggle.on \/ toggle'.on = known \/ (known = FALSE /\ toggle'.on = TRUE))
  BY <1>c DEF AuthInv, AuthTypes
<1>e. pending' # NoFlow /\ dialog' # "closed" => saveOff' = TRUE
  BY <1>c DEF CancelAnswered, RenderSave, AuthInv, DialogKnown
<1>1. AuthTypes'
  BY <1>a, <1>b, <1>c DEF AuthInv, AuthTypes, Calls
<1>2. OneCall'
  BY <1>a, <1>b DEF OneCall
<1>3. DialogQuiet'
  BY <1>a, <1>b DEF DialogQuiet, Quiet, Calls
<1>4. ChangeKnown'
  BY <1>a, <1>b, <1>c DEF AuthInv, ChangeKnown, KindFor, Calls
<1>5. DialogKnown'
  BY <1>b, <1>c, <1>e DEF AuthInv, DialogKnown, Calls
<1>6. CancelKnown'
  BY <1>b DEF CancelKnown
<1>7. SwitchKnown'
  BY <1>a, <1>c, <1>d DEF AuthInv, ChangeKnown, CancelKnown, SwitchKnown, Wanted, KindFor,
     CancelCall
<1> QED BY <1>1, <1>2, <1>3, <1>4, <1>5, <1>6, <1>7 DEF AuthInv

LEMMA SaveAnsweredKnown ==
  ASSUME AuthInv, ~Hasty, SaveAnswered
  PROVE  AuthInv'
<1>1. AuthTypes'
  BY DEF SaveAnswered, AuthInv, AuthTypes, Put, Calls, LoadCall
<1>2. OneCall'
  BY DEF SaveAnswered, AuthInv, AuthTypes, OneCall, Put, Calls, Idly
<1>3. DialogQuiet'
  BY DEF SaveAnswered, AuthInv, AuthTypes, DialogQuiet, Quiet, Put, Calls, Idly
<1>4. ChangeKnown'
  BY DEF SaveAnswered, AuthInv, AuthTypes, OneCall, ChangeKnown, Put, KindFor, Calls, Idly
<1>5. DialogKnown'
  BY DEF SaveAnswered, AuthInv, OneCall, DialogQuiet, DialogKnown, Quiet, Calls, Idly
<1>6. CancelKnown'
  BY DEF SaveAnswered, AuthInv, AuthTypes, OneCall, CancelKnown, Put, Calls, Idly
<1>7. SwitchKnown'
  BY DEF SaveAnswered, AuthInv, AuthTypes, SwitchKnown, Put, Wanted, Calls
<1> QED BY <1>1, <1>2, <1>3, <1>4, <1>5, <1>6, <1>7 DEF AuthInv

LEMMA LoadAnsweredKnown ==
  ASSUME AuthInv, ~Hasty, LoadAnswered
  PROVE  AuthInv'
<1>a. /\ UNCHANGED <<factor, flow>> /\ calls["load"] \in LoadCall
      /\ (\A d \in Calls \ {"load"} : calls[d] = Idly) /\ dialog = "closed"
      /\ dialog' = dialog /\ calls["load"] # Idly
  BY DEF LoadAnswered, AuthInv, AuthTypes, OneCall, DialogQuiet, DialogKnown, ChangeKnown,
     CancelKnown, Idly, Calls, Quiet, pageState
<1>b. /\ calls'["load"] = Idly /\ calls' = [d \in Calls |-> calls'[d]]
      /\ \A d \in Calls \ {"load"} : calls'[d] = calls[d]
  BY PutIs DEF LoadAnswered, AuthInv, Calls
<1>c. \/ UNCHANGED pageState
      \/ /\ known' = calls["load"].on /\ toggle' = [toggle EXCEPT !.on = calls["load"].on]
         /\ pending' = NoFlow
         /\ calls["load"].on \in BOOLEAN
  BY <1>a DEF LoadAnswered, LoadCall
<1>d. /\ known' \in BOOLEAN /\ toggle' \in [on : BOOLEAN, free : BOOLEAN]
      /\ (pending' = pending \/ (pending' = NoFlow /\ toggle'.on = known'))
  BY <1>c DEF AuthInv, AuthTypes, pageState
<1>1. AuthTypes'
  BY <1>a, <1>b, <1>d DEF AuthInv, AuthTypes, Calls
<1>2. OneCall'
  BY <1>a, <1>b DEF OneCall
<1>3. DialogQuiet'
  BY <1>a, <1>b DEF DialogQuiet, Calls
<1>4. ChangeKnown'
  BY <1>a, <1>b, <1>c DEF AuthInv, ChangeKnown, pageState, KindFor, Calls
<1>5. DialogKnown'
  BY <1>a, <1>d DEF AuthInv, DialogKnown, Calls
<1>6. CancelKnown'
  BY <1>a, <1>b DEF CancelKnown, Calls
<1>7. SwitchKnown'
  BY <1>b, <1>c, <1>d DEF AuthInv, SwitchKnown, pageState, Wanted, Calls
<1> QED BY <1>1, <1>2, <1>3, <1>4, <1>5, <1>6, <1>7 DEF AuthInv

LEMMA ToggleKnown ==
  ASSUME AuthInv, ~Hasty, Toggle
  PROVE  AuthInv'
<1>1. CASE known /\ ~toggle.on
  <2>1. calls' = calls \/ (pending # NoFlow /\ Put("cancel", CancelOf(pending, FALSE)))
    <3>1. pending.kind = "disable" => pending # NoFlow
      BY DEF NoFlow
    <3> QED BY <1>1, <3>1 DEF Toggle, ToggleWhenOn, ToggleWhenOff
  <2>2. toggle' = [toggle EXCEPT !.on = TRUE] /\ known = TRUE /\ pending' = pending
    BY <1>1 DEF Toggle, ToggleWhenOn, ToggleWhenOff, AuthInv, AuthTypes
  <2>3. toggle' = [toggle EXCEPT !.on = known]
    BY <2>2
  <2> QED BY <2>1, <2>2, <2>3, TakeBackKnown
<1>2. CASE known /\ toggle.on
  BY <1>2, AskDisableKnown DEF Toggle, ToggleWhenOn, ToggleWhenOff
<1>3. CASE ~known /\ toggle.on
  <2>1. calls' = calls \/ (pending # NoFlow /\ Put("cancel", CancelOf(pending, FALSE)))
    BY <1>3 DEF Toggle, ToggleWhenOn, ToggleWhenOff
  <2>2. toggle' = [toggle EXCEPT !.on = FALSE] /\ known = FALSE /\ pending' = pending
    BY <1>3 DEF Toggle, ToggleWhenOn, ToggleWhenOff, AuthInv, AuthTypes
  <2>3. toggle' = [toggle EXCEPT !.on = known]
    BY <2>2
  <2> QED BY <2>1, <2>2, <2>3, TakeBackKnown
<1>4. CASE ~known /\ ~toggle.on
  <2>1. CASE pending # NoFlow /\ pending.confirmed
    BY <1>4, <2>1, TakeUpKnown DEF Toggle, ToggleWhenOn, ToggleWhenOff
  <2>2. CASE ~(pending # NoFlow /\ pending.confirmed)
    BY <1>4, <2>2, AskEnableKnown DEF Toggle, ToggleWhenOn, ToggleWhenOff
  <2> QED BY <2>1, <2>2
<1> QED BY <1>1, <1>2, <1>3, <1>4

LEMMA AuthInitKnown == AuthInit => AuthInv
<1> SUFFICES ASSUME AuthInit PROVE AuthInv
  OBVIOUS
<1>1. /\ \A c \in Calls : calls[c] = Idly
      /\ calls = [c \in Calls |-> calls[c]]
  BY DEF AuthInit, AllIdle, Calls
<1>2. /\ toggle \in [on : BOOLEAN, free : BOOLEAN] /\ toggle.on = known
      /\ pending = NoFlow /\ flow = NoFlow /\ dialog = "closed" /\ factor \in BOOLEAN
      /\ known \in BOOLEAN
  BY DEF AuthInit
<1> QED BY <1>1, <1>2 DEF AuthInv, AuthTypes, OneCall, DialogQuiet, ChangeKnown, DialogKnown,
     CancelKnown, SwitchKnown, Quiet, Calls

LEMMA AuthNextKnown ==
  ASSUME AuthInv, ~Hasty, [AuthNext]_authVars
  PROVE  AuthInv'
<1>1. CASE AuthUserNext
  BY <1>1, ChangeFieldKnown, ToggleKnown, GiveCodeKnown, CloseDialogKnown, PressSaveKnown,
     EnterTabKnown, LeavePageKnown DEF AuthUserNext
<1>2. CASE AuthServerNext
  BY <1>2, BeginReachedKnown, ConfirmReachedKnown, CancelReachedKnown, SaveReachedKnown,
     LoadReachedKnown DEF AuthServerNext
<1>3. CASE AuthAnswerNext
  BY <1>3, BeginAnsweredKnown, ConfirmAnsweredKnown, CancelAnsweredKnown, SaveAnsweredKnown,
     LoadAnsweredKnown DEF AuthAnswerNext
<1>4. CASE \E c \in DOMAIN calls : CallFails(c)
  <2>1. DOMAIN calls = Calls
    BY DEF AuthInv, AuthTypes
  <2> QED BY <1>4, <2>1, CallFailsKnown
<1>5. CASE TokenExpires \/ OthersChange
  BY <1>5, TokenExpiresKnown, OthersChangeKnown
<1>6. CASE UNCHANGED authVars
  BY <1>6 DEF authVars, pageState, AuthInv, AuthTypes, OneCall, DialogQuiet, ChangeKnown,
     DialogKnown, CancelKnown, SwitchKnown, Quiet, KindFor, Wanted
<1> QED BY <1>1, <1>2, <1>3, <1>4, <1>5, <1>6 DEF AuthNext

LEMMA AuthInvServes == AuthInv => SaveMeans /\ DialogServes
<1> SUFFICES ASSUME AuthInv PROVE SaveMeans /\ DialogServes
  OBVIOUS
<1>1. DOMAIN calls = Calls
  BY DEF AuthInv, AuthTypes
<1>2. SaveMeans
  BY <1>1 DEF SaveMeans, Confirmed, AuthInv, AuthTypes, DialogKnown, SwitchKnown, Quiet,
     Calls
<1>3. DialogServes
  BY DEF DialogServes, AuthInv, DialogKnown
<1> QED BY <1>2, <1>3

(* For a user who waits for the answers that set the form, the security    *)
(* tab never ends in a dead button: a switch that differs from the account *)
(* while nothing is under way is backed by a change whose code was         *)
(* accepted, and an open dialog always has the change its code is for.     *)
THEOREM SettingsMean ==
  ASSUME ~Hasty
  PROVE  AuthSpec => []SaveMeans /\ []DialogServes
<1>1. AuthInit => AuthInv
  BY AuthInitKnown
<1>2. AuthInv /\ [AuthNext]_authVars => AuthInv'
  BY AuthNextKnown
<1>3. AuthInv => SaveMeans /\ DialogServes
  BY AuthInvServes
<1> QED BY <1>1, <1>2, <1>3, PTL DEF AuthSpec
==============================================================================
