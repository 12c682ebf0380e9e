---------------------------- MODULE GatewayPages ----------------------------
(***************************************************************************)
(* The Gateway (services/gateway/lib/proxy.mjs) and the DSH pages it       *)
(* serves: a page waits until DSH is ready, loads a Plugin bundle, and     *)
(* when the bundle fails either the Gateway answers with a module that     *)
(* sends the page back to waiting or the guard it put into the page        *)
(* (polyfill.mjs) does.  Both count, so that a bundle which stays broken   *)
(* does not reload the page for ever.  What the Gateway knows of DSH are   *)
(* three separate reads: publication, a probe, and the platform's status,  *)
(* which may be missing (250 ms) or the last one (10 s).                   *)
(***************************************************************************)
EXTENDS Naturals, FiniteSets

CONSTANTS
  Tabs,       \* pages open in browsers
  MaxMoves,   \* bound: how often DSH is restarted, stopped or crashes
  MaxRecords  \* bound: Deployment Records

VARIABLES
  platform,  \* what the status reports of DSH: life, current record, transition, whether it is recent
  dsh,       \* DSH itself: listening, and whether it serves the bundle
  seen,      \* lastPlatformStatus
  recovery,  \* pluginRecoveryIdentity and consumedPluginRecoveries
  bundles,   \* records whose bundle is in the cache
  page,      \* what each page is doing
  marker,    \* sessionStorage of each page
  reports    \* pages whose recovery event is on its way to the Gateway

pageVars == <<platform, dsh, seen, recovery, bundles, page, marker, reports>>

None == [life |-> "unknown"]
NoMarker == [move |-> MaxMoves + 1, attempt |-> 0]
Settled == {"shown", "settled", "failure-page", "bad-gateway"}

(* A bundle request remembers the attempt it is making and its last response; *)
(* holds counts the returns to the waiting page since the latest transition. *)
Fresh(at, holds) == [at |-> at, holds |-> holds]
Request(since, holds) == [at |-> "ask", holds |-> holds, since |-> since, attempts |-> 0,
                          eligible |-> FALSE, value |-> "none", last |-> "none", before |-> 0]

PageInit ==
  /\ platform = [life |-> "running", record |-> 1, move |-> 0, recent |-> FALSE]
  /\ \E good \in BOOLEAN : dsh = [up |-> TRUE, good |-> good]
  /\ seen = None
  /\ recovery = [record |-> 0, used |-> 0] /\ bundles = {}
  /\ page = [t \in Tabs |-> Fresh("load", 0)]
  /\ marker = [t \in Tabs |-> NoMarker]
  /\ reports = {}

-----------------------------------------------------------------------------
(* DSH and what the platform says of it. *)

platformOnly == <<seen, recovery, bundles, marker, reports>>

Moves(life, up) ==
  /\ platform.move < MaxMoves
  /\ platform' = [platform EXCEPT !.life = life, !.move = @ + 1, !.recent = TRUE]
  /\ dsh' = [dsh EXCEPT !.up = up]
  /\ page' = [t \in Tabs |-> [page[t] EXCEPT !.holds = 0]]
  /\ UNCHANGED platformOnly

DshRestarts == platform.life # "restarting" /\ (dsh.up \/ platform.life = "stopped") /\ Moves("restarting", FALSE)
DshStopped == platform.life = "running" /\ dsh.up /\ Moves("stopped", FALSE)

DshGone ==
  /\ platform.life = "running" /\ dsh.up /\ platform.move < MaxMoves
  /\ dsh' = [dsh EXCEPT !.up = FALSE]
  /\ UNCHANGED <<platform, page, platformOnly>>
DshRecovers == platform.life = "running" /\ ~dsh.up /\ Moves("restarting", FALSE)
DshListens ==
  /\ platform.life = "restarting" /\ ~dsh.up
  /\ \E good \in BOOLEAN : dsh' = [up |-> TRUE, good |-> good]
  /\ UNCHANGED <<platform, page, platformOnly>>
DshPublished ==
  /\ platform.life = "restarting" /\ dsh.up
  /\ \E r \in {platform.record, platform.record + 1} \intersect 1 .. MaxRecords :
       platform' = [platform EXCEPT !.life = "running", !.record = r]
  /\ UNCHANGED <<dsh, page, platformOnly>>

(* 30 seconds after the transition. *)
RecentPasses ==
  /\ platform.recent /\ platform.life # "restarting"
  /\ platform' = [platform EXCEPT !.recent = FALSE]
  /\ UNCHANGED <<dsh, page, platformOnly>>

-----------------------------------------------------------------------------
(* Reading the status. *)

Statuses == {platform, seen, None}

(* refreshPlatformStatus keeps what it got; a failed request falls back to *)
(* it, a slow one to nothing. *)
Reads(s) == s \in Statuses /\ seen' = IF s = platform THEN platform ELSE seen

StatusPolled == seen # platform /\ Reads(platform) /\ UNCHANGED <<platform, dsh, recovery, bundles, page, marker, reports>>

(* After 10 seconds it is not used any more. *)
StatusExpires ==
  /\ seen \notin {platform, None} /\ seen' = None
  /\ UNCHANGED <<platform, dsh, recovery, bundles, page, marker, reports>>
Current == seen \in {platform, None}

Published == platform.life = "running"
HoldState(s) == s.life = "restarting"
FailedState(s) == s.life = "stopped"
Registered(s) == HoldState(s) \/ FailedState(s)

(* currentPluginRecoveryIdentity: another record starts the count again. *)
Identified(s) ==
  IF s.life = "running" /\ s.record # recovery.record THEN [record |-> s.record, used |-> 0] ELSE recovery
RecoveryAvailable(s) == s.life = "running" /\ Identified(s).used < 2

DefectConsumed(r) == r
Consumed(r) == IF r.record # 0 /\ r.used < 2 THEN [r EXCEPT !.used = @ + 1] ELSE r

To(t, at) == page' = [page EXCEPT ![t] = Fresh(at, page[t].holds)]

(* A return to the waiting page long after the latest transition; counted up to 5. *)
Returned(t) == IF platform.recent \/ page[t].holds = 5 THEN page[t].holds ELSE page[t].holds + 1

-----------------------------------------------------------------------------
(* A page asks for readiness until it is told to return, and then loads. *)

Waits(t) ==
  /\ page[t].at = "wait"
  /\ \E s \in Statuses :
       /\ Reads(s) /\ recovery' = Identified(s)
       /\ To(t, IF Published /\ dsh.up /\ ~Registered(s) THEN "load" ELSE "wait")
  /\ UNCHANGED <<platform, dsh, bundles, marker, reports>>

(* The page waits 600 ms before it asks; the event it sent on leaving      *)
(* (reports) arrives before that. *)
ReportArrives(t) == t \notin reports

(* requireDsh, proxyHttp and, when DSH does not answer, rejectDshFailure:  *)
(* a registered or confirmed outage has a page that waits, an unknown one  *)
(* is a bare 502. *)
Loads(t) ==
  /\ page[t].at = "load" /\ ReportArrives(t)
  /\ \E s \in Statuses :
       /\ Reads(s)
       /\ \/ ~Published /\ To(t, "wait")
          \/ Published /\ dsh.up /\ To(t, "bundle")
          \/ Published /\ ~dsh.up /\ To(t, "wait")
          \/ Published /\ ~dsh.up /\ ~Registered(s) /\ To(t, "bad-gateway")
  /\ UNCHANGED <<platform, dsh, recovery, bundles, marker, reports>>

(* The guard in the page follows the platform's events. *)
Leaves(t) ==
  /\ page[t].at \in {"shown", "settled"} /\ Registered(platform)
  /\ To(t, "wait")
  /\ UNCHANGED <<platform, dsh, platformOnly>>

-----------------------------------------------------------------------------
(* The request for a bundle: first it is held, then it is fetched. *)

Asking(t) == page' = [page EXCEPT ![t] = Request(platform.move, page[t].holds)]

HoldBundle(t) ==
  /\ page[t].at = "bundle"
  /\ \E s \in Statuses :
       /\ Reads(s)
       /\ \/ HoldState(s) /\ To(t, "held")
          \/ FailedState(s) /\ To(t, "broken")
          \/ ~Registered(s) /\ Asking(t)
  /\ UNCHANGED <<platform, dsh, recovery, bundles, marker, reports>>

HeldPolls(t) ==
  /\ page[t].at = "held"
  /\ \E s \in Statuses :
       /\ Reads(s)
       /\ \/ dsh.up /\ ~Registered(s) /\ Asking(t)
          \/ FailedState(s) /\ To(t, "broken")
          \/ (HoldState(s) \/ (~dsh.up /\ ~Registered(s))) /\ UNCHANGED page
  /\ UNCHANGED <<platform, dsh, recovery, bundles, marker, reports>>

(* 60 seconds: a status of 10 seconds ago is not what held it. *)
HeldTimesOut(t) ==
  /\ page[t].at = "held" /\ Current /\ (Registered(platform) \/ ~dsh.up)
  /\ To(t, "broken")
  /\ UNCHANGED <<platform, dsh, platformOnly>>

(* One attempt: the record before, the bundle, and then readiness and the  *)
(* record after it. *)
RecordOf(s) == IF s = None THEN 0 ELSE s.record
Response == IF ~dsh.up THEN "error" ELSE IF dsh.good THEN "good" ELSE "bad"

Asks(t) ==
  /\ page[t].at = "ask"
  /\ \E s \in Statuses :
       /\ Reads(s)
       /\ page' = [page EXCEPT ![t] = [page[t] EXCEPT
            !.at = "judge", !.attempts = IF @ < 2 THEN @ + 1 ELSE @, !.before = RecordOf(s),
            !.value = Response, !.last = IF Response = "error" THEN @ ELSE Response]]
  /\ UNCHANGED <<platform, dsh, recovery, bundles, marker, reports>>

(* Eligible once, eligible for the rest of the request. *)
EligibleNow(t, s) ==
  page[t].eligible \/ HoldState(s) \/ (s # None /\ s.recent) \/ RecoveryAvailable(s)

Settles(t, s) == page[t].value # "error" /\ dsh.up /\ page[t].before = RecordOf(s) /\ ~Registered(s)

Judges(t) ==
  /\ page[t].at = "judge"
  /\ \E s \in Statuses :
       LET p == page[t]
           cached == p.before \in bundles
           eligible == EligibleNow(t, s)
       IN /\ Reads(s)
          /\ recovery' = IF p.eligible \/ HoldState(s) \/ (s # None /\ s.recent) \/ (p.value = "error" /\ cached)
                         THEN recovery ELSE Identified(s)
          /\ \/ Settles(t, s) /\ p.value = "good" /\ To(t, "shown")
             \/ (p.value = "error" \/ Settles(t, s)) /\ p.value # "good" /\ cached /\ To(t, "shown")
             \/ Settles(t, s) /\ p.value = "bad" /\ ~cached /\ ~eligible /\ To(t, "broken")
             \/ /\ ~Settles(t, s) /\ ~(p.value = "error" /\ cached)
                /\ ~eligible /\ p.attempts = 2
                /\ To(t, IF p.last = "good" THEN "shown" ELSE "broken")
             \/ /\ ~(Settles(t, s) /\ p.value = "good") /\ ~((p.value = "error" \/ Settles(t, s)) /\ cached)
                /\ eligible \/ (p.attempts < 2 /\ ~Settles(t, s))
                /\ page' = [page EXCEPT ![t] = [p EXCEPT !.at = "ask", !.eligible = eligible,
                                                         !.before = 0, !.value = "none"]]
          /\ bundles' = IF Settles(t, s) /\ p.value = "good" /\ p.before # 0 THEN bundles \union {p.before}
                        ELSE bundles
  /\ UNCHANGED <<platform, dsh, marker, reports>>

(* After 60 seconds, longer than a transition counts as recent. *)
DeadlinePasses(t) ==
  /\ page[t].at = "ask" /\ page[t].eligible /\ Current
  /\ ~platform.recent \/ platform.move # page[t].since
  /\ recovery' = Consumed(recovery)
  /\ page' = [page EXCEPT ![t] = Fresh("wait", Returned(t))]
  /\ UNCHANGED <<platform, dsh, seen, bundles, marker, reports>>

-----------------------------------------------------------------------------
(* recover of the guard in the page: a failed bundle.  It asks the Gateway *)
(* for readiness (s) and the platform for its status (seenHere), counts    *)
(* the failures of one transition, and forgets them after two minutes.     *)
Guards(t) ==
  /\ page[t].at = "broken"
  /\ \E s \in Statuses, here \in {platform, None}, remembered \in BOOLEAN :
       LET ready == Published /\ dsh.up /\ ~Registered(s)
           move == IF here = None THEN MaxMoves + 1 ELSE here.move
           again == remembered /\ marker[t].move = move
           attempt == IF again THEN (IF marker[t].attempt < 3 THEN marker[t].attempt + 1 ELSE 3) ELSE 1
           eligible == Registered(here) \/ (here # None /\ here.recent) \/ (ready /\ RecoveryAvailable(s))
       IN /\ Reads(s) /\ recovery' = Identified(s)
          /\ marker' = IF attempt = 3 \/ eligible
                       THEN [marker EXCEPT ![t] = [move |-> move, attempt |-> attempt]] ELSE marker
          /\ \/ attempt = 3 /\ To(t, "failure-page") /\ UNCHANGED reports
             \/ attempt < 3 /\ ~eligible /\ To(t, "settled") /\ UNCHANGED reports
             \/ /\ attempt < 3 /\ eligible
                /\ page' = [page EXCEPT ![t] = Fresh("wait", Returned(t))]
                /\ reports' = reports \union {t}
  /\ UNCHANGED <<platform, dsh, bundles>>

(* The event of a page that returned to waiting: it is refused like every  *)
(* request while DSH is not published. *)
ClientEvent ==
  /\ \E t \in reports : reports' = reports \ {t}
  /\ recovery' = IF Published THEN Consumed(recovery) ELSE recovery
  /\ UNCHANGED <<platform, dsh, seen, bundles, page, marker>>

Gateway(t) ==
  \/ Waits(t) \/ Loads(t) \/ Leaves(t) \/ HoldBundle(t) \/ HeldPolls(t) \/ HeldTimesOut(t)
  \/ Asks(t) \/ Judges(t) \/ DeadlinePasses(t) \/ Guards(t)
PageNext ==
  \/ DshRestarts \/ DshStopped \/ DshGone \/ DshRecovers \/ DshListens \/ DshPublished \/ RecentPasses
  \/ StatusPolled \/ StatusExpires \/ ClientEvent
  \/ \E t \in Tabs : Gateway(t)

(* Every page goes on, deadlines pass, and a restart ends. *)
PageFairness ==
  /\ WF_pageVars(DshRecovers) /\ WF_pageVars(DshListens) /\ WF_pageVars(DshPublished) /\ WF_pageVars(RecentPasses)
  /\ WF_pageVars(ClientEvent) /\ WF_pageVars(StatusPolled)
  /\ \A t \in Tabs :
       /\ WF_pageVars(Gateway(t))
       /\ SF_pageVars(DeadlinePasses(t)) /\ SF_pageVars(HeldTimesOut(t))
PageSpec == PageInit /\ [][PageNext]_pageVars /\ PageFairness

AtRest(t) == page[t].at \in Settled \/ (page[t].at = "wait" /\ platform.life = "stopped")
(* A page does not reload for ever (guide.md:428): once DSH is left alone,  *)
(* every page is shown, has failed for good, or waits because DSH is       *)
(* stopped.                                                                *)
PagesSettle == <>[](\A t \in Tabs : AtRest(t))

=============================================================================
