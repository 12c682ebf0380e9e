------------------------------- MODULE MCTabs -------------------------------
(***************************************************************************)
(* The pages open in a browser, side by side: a page of DSH with its update *)
(* reminder, and the status and the settings of the console.               *)
(* A behaviour is one of the part that 'focus' names, and in the others    *)
(* nothing happens; the fairness is that of each module's own specification, *)
(* asked for the part in focus.                                            *)
(***************************************************************************)
EXTENDS Naturals

VARIABLES focus,
  dshUp, gateway, view, link, guardTimer, told, outages, blips, slowProbes,
  gatewayEnds, dshWasDown,
  actual, work, stream, fetch, shows, buttonFlow, spending,
  factor, factorFlow, known, toggle, pending, dialog, fields, saveOff, calls,
  spentAuth, move, entry, movingTab, lost,
  offer, older, noticeStore, noticeTabs, due, heard, counts

Page == INSTANCE DshPage WITH
  MaxOutages <- 2, MaxBlips <- 2, MaxSlowProbes <- 2, MaxGatewayEnds <- 1,
  down <- dshWasDown
dshPageVars == <<dshUp, gateway, view, link, guardTimer, told, outages, blips,
                 slowProbes, gatewayEnds, dshWasDown>>

Status == INSTANCE ConsoleStatus WITH
  MaxFlows <- 1, MaxChanges <- 1, MaxStreamLosses <- 1, MaxLoadErrors <- 1,
  flow <- buttonFlow
statusVars == <<actual, work, stream, fetch, shows, buttonFlow, spending>>

Auth == INSTANCE ConsoleAuth WITH
  MaxToggles <- 3, MaxAuthErrors <- 2, MaxOutsiders <- 1, MaxLeaves <- 1,
  Probes <- 2, MaxMoveErrors <- 1, Hasty <- FALSE, LosesCommit <- FALSE,
  flow <- factorFlow, tab <- movingTab
authVars == <<factor, factorFlow, known, toggle, pending, dialog, fields,
              saveOff, calls, spentAuth>>
moveVars == <<move, entry, movingTab, lost>>

NoticeTabs == {"t1", "t2"}

Notices == INSTANCE UpdateNotices WITH
  DshTabs <- NoticeTabs, MaxVersions <- 1, MaxDone <- 1, MaxTabMoves <- 2,
  MaxPutOffs <- 1, tabs <- noticeTabs, store <- noticeStore
noticesVars == <<offer, older, noticeStore, noticeTabs, due, heard, counts>>

Focus ==
  { "page", "statusTab", "settings", "moving", "notices" }

TabsInit ==
  /\ focus \in Focus
  /\ Page!DshPageInit
  /\ Status!ConsoleStatusInit
  /\ Auth!AuthInit /\ (focus = "settings" \/ factor)
  /\ Auth!MoveInit
  /\ Notices!NoticeInit

TabsNext ==
  /\ UNCHANGED focus
  /\ IF focus = "page" THEN Page!DshPageNext ELSE UNCHANGED dshPageVars
  /\ IF focus = "statusTab" THEN Status!ConsoleStatusNext ELSE UNCHANGED statusVars
  /\ IF focus = "settings" THEN Auth!AuthNext ELSE UNCHANGED authVars
  /\ IF focus = "moving" THEN Auth!MoveNext ELSE UNCHANGED moveVars
  /\ IF focus = "notices" THEN Notices!NoticeNext ELSE UNCHANGED noticesVars

everything ==
  <<focus, dshPageVars, statusVars, authVars, moveVars, noticesVars>>
TabsSpec ==
  /\ TabsInit /\ [][TabsNext]_everything
  /\ WF_dshPageVars(focus = "page" /\ Page!LinkForms)
  /\ WF_dshPageVars(focus = "page" /\ Page!GuardTimer)
  /\ WF_dshPageVars(focus = "page" /\ Page!VerifyReadiness)
  /\ WF_dshPageVars(focus = "page" /\ Page!InspectPlatformState)
  /\ WF_dshPageVars(focus = "page" /\ Page!InspectAnswered)
  /\ WF_dshPageVars(focus = "page" /\ Page!WaitPoll)
  /\ WF_dshPageVars(focus = "page" /\ Page!WindowPasses)
  /\ WF_dshPageVars(focus = "page" /\ Page!LinkEnds)
  /\ WF_statusVars(focus = "statusTab" /\ Status!WorkEnds)
  /\ WF_statusVars(focus = "statusTab" /\ Status!StreamOpens)
  /\ WF_statusVars(focus = "statusTab" /\ Status!EventArrives)
  /\ WF_statusVars(focus = "statusTab" /\ Status!Accepted)
  /\ WF_statusVars(focus = "statusTab" /\ Status!Posted)
  /\ WF_statusVars(focus = "statusTab" /\ Status!Refreshes)
  /\ WF_statusVars(focus = "statusTab" /\ Status!Refreshed)
  /\ WF_statusVars(focus = "statusTab" /\ Status!EndsFlow)
  /\ WF_statusVars(focus = "statusTab" /\ Status!Released)
  /\ \A k \in Status!Kinds :
       /\ WF_statusVars(focus = "statusTab" /\ Status!Reads(k))
       /\ WF_statusVars(focus = "statusTab" /\ Status!Answers(k))
  /\ WF_authVars(focus = "settings" /\ Auth!AuthServerNext)
  /\ WF_authVars(focus = "settings" /\ Auth!AuthAnswerNext)
  /\ SF_authVars(focus = "settings" /\ Auth!CloseDialog)
  /\ WF_moveVars(focus = "moving" /\ Auth!MoveStepNext)
  /\ WF_noticesVars(focus = "notices" /\ Notices!Period)
  /\ \A t \in NoticeTabs :
       /\ WF_noticesVars(focus = "notices" /\ Notices!Refresh(t))
       /\ WF_noticesVars(focus = "notices" /\ Notices!LeaseTimer(t))
       /\ WF_noticesVars(focus = "notices" /\ Notices!OwnerTimer(t))
       /\ WF_noticesVars(focus = "notices" /\ Notices!StorageChanged(t))

(* The tab is exchanged for cause, and whenever there is one.              *)
PageTrue == Page!BlipTolerated /\ (focus = "page" => Page!TabFollows)

(* The page shows what its own flows did at once, the rest in the end.     *)
StatusShown == Status!StatusShown

(* The settings page serves its user: its buttons act, its dialog can be   *)
(* left, and it follows the console to its new place.                      *)
SettingsServe == Auth!SettingsServe

(* The reminder is shown when it is due, once, and not after a dismissal.  *)
NoticeRight == Notices!NoticeRight

==============================================================================
