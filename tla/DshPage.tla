------------------------------ MODULE DshPage ------------------------------
(***************************************************************************)
(* A DSH page and the Gateway's waiting page: the guard the platform's     *)
(* plug-in adds to the page (LifecycleGuard in client.js) watches the      *)
(* page's connection to DSH and the platform's state events and exchanges  *)
(* the page for the waiting page when DSH is away; the waiting page polls  *)
(* the Gateway's readiness (availability.mjs) and returns.                 *)
(***************************************************************************)
EXTENDS Naturals

CONSTANTS
  MaxOutages,    \* times DSH goes away
  MaxBlips,      \* times only the page's connection breaks
  MaxSlowProbes, \* probes that time out although DSH is up
  MaxGatewayEnds \* times the Gateway starts anew

VARIABLES
  dshUp,     \* "up", "away" (the platform says so), "dark" (it does not yet)
  gateway,   \* the Gateway's DshAvailability
  view,      \* what the tab shows: the DSH page, the waiting page
  link,      \* the page's connection generation and whether it ever had one
  guardTimer,\* the guard's timer or readiness request
  told,      \* a state event or the page's own start has it ask for the status
  outages, blips, slowProbes, gatewayEnds, \* bounds
  down       \* DSH or the Gateway has been away since the page was loaded

dshPageVars == <<dshUp, gateway, view, link, guardTimer, told, outages, blips,
                 slowProbes, gatewayEnds, down>>
platformVars == <<dshUp, outages>>
lossVars == <<blips, slowProbes, gatewayEnds>>

Failures == 3
Fresh == [ever |-> FALSE, failed |-> 0, long |-> FALSE]
NewLink == [on |-> FALSE, had |-> FALSE]

DshPageInit ==
  /\ dshUp = "up"
  /\ gateway = [Fresh EXCEPT !.ever = TRUE]
  /\ view = "page" /\ link = NewLink
  /\ guardTimer = "none" /\ told = "asks"
  /\ outages = 0 /\ blips = 0 /\ slowProbes = 0 /\ gatewayEnds = 0
  /\ down = FALSE

-----------------------------------------------------------------------------
(* DSH and the Gateway.                                                    *)

Breaks == link' = [link EXCEPT !.on = FALSE]
\* connectionChanged: the first loss starts the grace period.
GraceStarts ==
  guardTimer' = IF link.on /\ guardTimer = "none" THEN "grace" ELSE guardTimer
Event == told' = IF view = "page" THEN "asks" ELSE told

\* A stop, a restart or a switch is registered before DSH goes away.
DshLeaves ==
  /\ dshUp = "up" /\ outages < MaxOutages
  /\ dshUp' = "away" /\ outages' = outages + 1 /\ down' = TRUE
  /\ Event
  /\ UNCHANGED <<gateway, view, link, guardTimer, lossVars>>
DshDies ==
  /\ dshUp = "up" /\ outages < MaxOutages
  /\ dshUp' = "dark" /\ outages' = outages + 1 /\ down' = TRUE
  /\ UNCHANGED <<gateway, view, link, guardTimer, told, lossVars>>
DshExitSeen ==
  /\ dshUp = "dark"
  /\ dshUp' = "away"
  /\ Event
  /\ UNCHANGED <<gateway, view, link, guardTimer, outages, lossVars, down>>
DshReturns ==
  /\ dshUp = "away"
  /\ dshUp' = "up"
  /\ Event
  /\ UNCHANGED <<gateway, view, link, guardTimer, outages, lossVars, down>>

\* The page's connection follows DSH, and sometimes breaks by itself.
LinkEnds ==
  /\ view = "page" /\ link.on /\ dshUp # "up"
  /\ Breaks /\ GraceStarts
  /\ UNCHANGED <<platformVars, gateway, view, told, lossVars, down>>
LinkBlips ==
  /\ view = "page" /\ link.on /\ dshUp = "up"
  /\ blips < MaxBlips /\ blips' = blips + 1
  /\ Breaks /\ GraceStarts
  /\ UNCHANGED <<platformVars, gateway, view, told, slowProbes, gatewayEnds, down>>
LinkForms ==
  /\ view = "page" /\ ~link.on /\ dshUp = "up"
  /\ link' = [on |-> TRUE, had |-> TRUE]
  /\ guardTimer' = IF guardTimer \in {"grace", "retry"} THEN "none" ELSE guardTimer
  /\ UNCHANGED <<platformVars, gateway, view, told, lossVars, down>>

\* A Gateway that starts anew has never seen DSH ready.
GatewayEnds ==
  /\ gatewayEnds < MaxGatewayEnds /\ gatewayEnds' = gatewayEnds + 1
  /\ gateway' = Fresh /\ down' = TRUE
  /\ IF view = "page" THEN Breaks /\ GraceStarts ELSE UNCHANGED <<link, guardTimer>>
  /\ UNCHANGED <<platformVars, view, told, blips, slowProbes>>

\* More than the failure window has passed since the first failed probe.
WindowPasses ==
  /\ gateway.failed > 0 /\ ~gateway.long
  /\ gateway' = [gateway EXCEPT !.long = TRUE]
  /\ UNCHANGED <<platformVars, view, link, guardTimer, told, lossVars, down>>

-----------------------------------------------------------------------------
(* Readiness: a probe of DSH, observed and classified.                     *)

Observed(ok) ==
  IF ok THEN [ever |-> TRUE, failed |-> 0, long |-> FALSE]
  ELSE [gateway EXCEPT !.failed = IF @ < Failures THEN @ + 1 ELSE @]

Classified(ok, g) ==
  CASE dshUp = "away" -> "registered"
    [] dshUp # "away" /\ ok -> "ready"
    [] dshUp # "away" /\ ~ok /\ ~g.ever -> "starting"
    [] dshUp # "away" /\ ~ok /\ g.ever /\ g.failed >= Failures /\ g.long -> "unavailable"
    [] OTHER -> "unknown"

\* A probe succeeds when DSH is up and answers in time.
Probe(ok) ==
  /\ ok => dshUp = "up"
  /\ IF ok \/ dshUp # "up" THEN UNCHANGED slowProbes
     ELSE slowProbes < MaxSlowProbes /\ slowProbes' = slowProbes + 1
  /\ gateway' = Observed(ok)

\* The guard exchanges the page for the waiting page.
Navigate ==
  /\ view' = "wait"
  /\ guardTimer' = "none" /\ told' = "none" /\ link' = NewLink
Remain == UNCHANGED <<view, link>>

GuardTimer ==
  /\ view = "page" /\ guardTimer \in {"grace", "retry"}
  /\ guardTimer' = IF link.on THEN "none" ELSE "asks"
  /\ UNCHANGED <<platformVars, gateway, view, link, told, lossVars, down>>

\* verifyReadiness: only a state that is known sends the page away.
DefectVerifyReadiness ==
  /\ view = "page" /\ guardTimer = "asks"
  /\ \E ok \in BOOLEAN :
       /\ Probe(ok)
       /\ IF Classified(ok, Observed(ok)) \in {"ready", "unknown"}
          THEN guardTimer' = "none" /\ Remain /\ UNCHANGED told
          ELSE Navigate
  /\ UNCHANGED <<platformVars, blips, gatewayEnds, down>>
VerifyReadiness ==
  /\ view = "page" /\ guardTimer = "asks"
  /\ \E ok \in BOOLEAN :
       /\ Probe(ok)
       /\ IF Classified(ok, Observed(ok)) \in {"ready", "unknown"}
          THEN guardTimer' = "retry" /\ Remain /\ UNCHANGED told
          ELSE Navigate
  /\ UNCHANGED <<platformVars, blips, gatewayEnds, down>>

\* inspectPlatformState: the status as it is when the answer is made.
InspectPlatformState ==
  /\ view = "page" /\ told = "asks"
  /\ told' = IF dshUp = "away" THEN "leaves" ELSE "none"
  /\ UNCHANGED <<platformVars, gateway, view, link, guardTimer, lossVars, down>>
InspectAnswered ==
  /\ view = "page" /\ told = "leaves"
  /\ Navigate
  /\ UNCHANGED <<platformVars, gateway, lossVars, down>>

\* The waiting page asks until DSH is ready, then loads the page anew.
WaitPoll ==
  /\ view = "wait"
  /\ \E ok \in BOOLEAN :
       /\ Probe(ok)
       /\ IF Classified(ok, Observed(ok)) = "ready"
          THEN view' = "page" /\ told' = "asks" /\ down' = FALSE
          ELSE UNCHANGED <<view, told, down>>
  /\ UNCHANGED <<platformVars, link, guardTimer, blips, gatewayEnds>>

PageMoves ==
  \/ LinkForms \/ GuardTimer \/ VerifyReadiness \/ InspectPlatformState \/ InspectAnswered
  \/ WaitPoll
DshMoves == DshLeaves \/ DshDies \/ DshExitSeen \/ DshReturns
DshPageNext == PageMoves \/ DshMoves \/ LinkEnds \/ LinkBlips \/ GatewayEnds \/ WindowPasses

DshPageSpec ==
  /\ DshPageInit /\ [][DshPageNext]_dshPageVars
  /\ WF_dshPageVars(LinkForms) /\ WF_dshPageVars(GuardTimer)
  /\ WF_dshPageVars(VerifyReadiness) /\ WF_dshPageVars(InspectPlatformState)
  /\ WF_dshPageVars(InspectAnswered) /\ WF_dshPageVars(WaitPoll)
  /\ WF_dshPageVars(WindowPasses) /\ WF_dshPageVars(LinkEnds)

-----------------------------------------------------------------------------
(* A page is taken from its user only for cause: while DSH and the Gateway *)
(* have stayed up since it was loaded, losing its connection, however      *)
(* often, does not exchange it for the waiting page.                       *)
BlipTolerated == [][view = "page" /\ view' = "wait" => down]_dshPageVars

(* The tab follows DSH: a page that was connected gives way to the waiting *)
(* page unless DSH comes back, whether or not the platform ever registers  *)
(* the outage, and when DSH stays up the tab shows a connected DSH page.   *)
TabFollows ==
  /\ dshUp # "up" /\ link.had ~> view = "wait" \/ dshUp = "up"
  /\ <>[](dshUp = "up") => <>[](view = "page" /\ link.on)

(* The tab is exchanged for cause, and whenever there is one.              *)
PageTrue == BlipTolerated /\ TabFollows
=============================================================================
