------------------------------- MODULE ConsoleAuth -------------------------------
(***************************************************************************)
(* The security tab of the console.  Two-factor authentication is turned   *)
(* on or off by a switch that opens a dialog for a code; the switch only   *)
(* counts once the form is saved, with the token the code was given for.   *)
(* Meanwhile tokens expire, and the account changes from elsewhere.  The   *)
(* second half moves the console to another origin: create a transition,   *)
(* probe the new origin, commit, and follow.                               *)
(***************************************************************************)
EXTENDS Naturals

CONSTANTS
  MaxToggles,     \* bound: uses of the switch
  MaxAuthErrors,  \* bound: requests that fail, tokens that expire
  MaxOutsiders,   \* bound: changes of the account by others
  MaxLeaves,      \* bound: reloads of the page
  Probes,         \* probes of the new origin (12 in the code)
  MaxMoveErrors,  \* bound: requests of the move that fail
  LosesCommit,    \* whether the answer to a commit may be lost
  Hasty           \* whether the user acts on the form before an answer came

VARIABLES
  factor,   \* the account: is two-factor on
  flow,     \* the token of the session at the Access Manager
  known,    \* authenticationSettings.account.totp.enabled
  toggle,   \* the switch: shown as on, and whether it can be used
  pending,  \* pendingTotpChange
  dialog,   \* the code dialog: closed, open, or open with no way to confirm
  fields,   \* whether other fields were changed
  saveOff,  \* the Save button is disabled
  calls,    \* requests under way: begin, confirm, cancel, save, load
  spentAuth, \* what the bounds count
  move,     \* changeManagementOrigin: the step it is at, the probes made
  entry,    \* where the console is served, whether the continuation is unused
  tab,      \* the page: where it is, MANAGEMENT_TRANSITION_TARGET_KEY
  lost      \* requests of the move that failed

pageState == <<known, toggle, pending, dialog, fields, saveOff>>
authVars == <<factor, flow, pageState, calls, spentAuth>>

NoFlow == [kind |-> "none"]
Kinds == {"enable", "disable"}
Idly == [at |-> "idle"]
AllIdle == [c \in {"begin", "confirm", "cancel", "save", "load"} |-> Idly]
Quiet(cs) == \A c \in cs : calls[c] = Idly
Put(c, r) == calls' = [calls EXCEPT ![c] = r]
Spend(what) == spentAuth' = [spentAuth EXCEPT ![what] = @ + 1]
ErrorsLeft == spentAuth.errors < MaxAuthErrors

AuthInit ==
  /\ factor \in BOOLEAN /\ known = factor /\ flow = NoFlow
  /\ toggle = [on |-> factor, free |-> TRUE] /\ pending = NoFlow /\ dialog = "closed"
  /\ fields = FALSE /\ saveOff = TRUE /\ calls = AllIdle
  /\ spentAuth = [toggles |-> 0, errors |-> 0, outsiders |-> 0, leaves |-> 0]

(* renderAuthenticationAccountSaveState, of what the page becomes.         *)
RenderSave ==
  saveOff' = \/ pending' # NoFlow /\ ~pending'.confirmed
             \/ ~(toggle'.on # known' \/ fields')

(* ---- The user. ------------------------------------------------------------ *)

(* A patient user waits for the answers that set the form.                 *)
MayAct == dialog = "closed" /\ (Hasty \/ Quiet({"begin", "cancel", "save", "load"}))
ChangeField ==
  /\ MayAct /\ ~fields /\ fields' = TRUE
  /\ UNCHANGED <<known, toggle, pending, dialog>> /\ RenderSave
  /\ UNCHANGED <<factor, flow, calls, spentAuth>>

CancelOf(change, reset) ==
  [at |-> "sent", kind |-> change.kind, id |-> change.id, reset |-> reset]
BeginOf(kind) == [at |-> "sent", kind |-> kind]
(* changeTotpEnabled, when two-factor is on: a confirmed disable is taken  *)
(* back, or a confirmation is asked for while the switch goes back.        *)
ToggleWhenOn ==
  /\ known
  /\ IF ~toggle.on
     THEN /\ toggle' = [toggle EXCEPT !.on = TRUE]
          /\ IF pending.kind = "disable" /\ Quiet({"cancel"})
             THEN Put("cancel", CancelOf(pending, FALSE)) ELSE UNCHANGED calls
          /\ UNCHANGED pending
     ELSE /\ toggle' = [on |-> TRUE, free |-> FALSE]
          /\ pending' = [kind |-> "disable", id |-> 0, confirmed |-> FALSE]
          /\ Put("begin", BeginOf("disable"))
(* changeTotpEnabled, when it is off.                                      *)
ToggleWhenOff ==
  /\ ~known
  /\ IF toggle.on
     THEN /\ toggle' = [toggle EXCEPT !.on = FALSE] /\ UNCHANGED pending
          /\ IF pending # NoFlow /\ Quiet({"cancel"})
             THEN Put("cancel", CancelOf(pending, FALSE)) ELSE UNCHANGED calls
     ELSE /\ UNCHANGED pending
          /\ IF pending # NoFlow /\ pending.confirmed
             THEN toggle' = [toggle EXCEPT !.on = TRUE] /\ UNCHANGED calls
             ELSE toggle' = [on |-> TRUE, free |-> FALSE] /\ Put("begin", BeginOf("enable"))
Toggle ==
  /\ MayAct /\ toggle.free /\ Quiet({"begin"}) /\ spentAuth.toggles < MaxToggles
  /\ Spend("toggles")
  /\ ToggleWhenOn \/ ToggleWhenOff
  /\ UNCHANGED <<known, dialog, fields>> /\ RenderSave
  /\ UNCHANGED <<factor, flow>>

(* confirmTotpEnrollment: with a pending change, the code goes out.        *)
GiveCode ==
  /\ dialog = "open" /\ Quiet({"confirm"}) /\ (Hasty \/ Quiet({"cancel"})) /\ pending # NoFlow
  /\ Put("confirm", [at |-> "sent", kind |-> pending.kind, id |-> pending.id])
  /\ UNCHANGED <<factor, flow, pageState, spentAuth>>
(* cancelTotpChange: not while a code is checked.                          *)
CloseDialog ==
  /\ dialog # "closed" /\ Quiet({"confirm", "cancel"})
  /\ IF pending = NoFlow
     THEN /\ dialog' = "closed" /\ toggle' = [toggle EXCEPT !.on = known]
          /\ UNCHANGED <<known, pending, fields, calls>> /\ RenderSave
     ELSE Put("cancel", CancelOf(pending, TRUE)) /\ UNCHANGED pageState
  /\ UNCHANGED <<factor, flow, spentAuth>>

(* saveAccountSettings: the button goes off; a switch without its token    *)
(* ends the call there.                                                    *)
Confirmed(kind) == pending # NoFlow /\ pending.kind = kind /\ pending.confirmed
Wanted == IF toggle.on THEN "enable" ELSE "disable"
PressSave ==
  /\ ~saveOff /\ MayAct /\ Quiet({"save"}) /\ saveOff' = TRUE
  /\ IF toggle.on # known /\ ~Confirmed(Wanted) THEN UNCHANGED calls
     ELSE Put("save", [at |-> "sent", kind |-> IF toggle.on # known THEN Wanted ELSE "none",
                       id |-> IF toggle.on # known THEN pending.id ELSE 0])
  /\ UNCHANGED <<factor, flow, known, toggle, pending, dialog, fields, spentAuth>>

(* Entering the tab loads the settings; discardTotpChangeOnPageLeave sends *)
(* a cancellation nobody waits for, and the next page starts afresh.       *)
EnterTab ==
  /\ MayAct /\ Quiet({"load"}) /\ spentAuth.leaves < MaxLeaves
  /\ Spend("leaves") /\ Put("load", [at |-> "sent"])
  /\ UNCHANGED <<factor, flow, pageState>>
LeavePage ==
  /\ spentAuth.leaves < MaxLeaves /\ Spend("leaves")
  /\ flow' \in IF pending # NoFlow /\ flow # NoFlow /\ pending.id = flow.id
               THEN {flow, NoFlow} ELSE {flow}
  /\ known' = FALSE /\ toggle' = [on |-> FALSE, free |-> TRUE] /\ pending' = NoFlow
  /\ dialog' = "closed" /\ fields' = FALSE /\ saveOff' = TRUE
  /\ calls' = [AllIdle EXCEPT !["load"] = [at |-> "sent"]]
  /\ UNCHANGED factor

(* ---- The Access Manager. --------------------------------------------------- *)

Live(r) == flow # NoFlow /\ flow.id = r.id /\ flow.kind = r.kind
Answered(c, how) == Put(c, [calls[c] EXCEPT !.at = how])
BeginReached ==
  /\ calls["begin"].at = "sent"
  /\ LET right == (calls["begin"].kind = "enable") = ~factor
         id == IF flow # NoFlow THEN 3 - flow.id ELSE 1 IN
     IF right
     THEN /\ flow' = [kind |-> calls["begin"].kind, id |-> id, confirmed |-> FALSE]
          /\ Put("begin", [at |-> "yes", kind |-> calls["begin"].kind, id |-> id])
     ELSE Answered("begin", "no") /\ UNCHANGED flow
  /\ UNCHANGED <<factor, pageState, spentAuth>>
ConfirmReached ==
  /\ calls["confirm"].at = "sent"
  /\ IF Live(calls["confirm"])
     THEN \/ Answered("confirm", "yes") /\ flow' = [flow EXCEPT !.confirmed = TRUE]
          \/ Answered("confirm", "wrong") /\ UNCHANGED flow
     ELSE Answered("confirm", "gone") /\ UNCHANGED flow
  /\ UNCHANGED <<factor, pageState, spentAuth>>
CancelReached ==
  /\ calls["cancel"].at = "sent" /\ Answered("cancel", "yes")
  /\ flow' = IF Live(calls["cancel"]) THEN NoFlow ELSE flow
  /\ UNCHANGED <<factor, pageState, spentAuth>>
(* updateAuthenticationSettings, TwoFactor's ChangeFactor.                 *)
SaveReached ==
  /\ calls["save"].at = "sent"
  /\ LET r == calls["save"] IN
     IF r.kind = "none" THEN Answered("save", "yes") /\ flow' = NoFlow /\ UNCHANGED factor
     ELSE IF Live(r) /\ flow.confirmed
     THEN factor' = (r.kind = "enable") /\ flow' = NoFlow /\ Answered("save", "yes")
     ELSE Answered("save", "gone") /\ UNCHANGED <<factor, flow>>
  /\ UNCHANGED <<pageState, spentAuth>>
LoadReached ==
  /\ calls["load"].at = "sent" /\ Put("load", [at |-> "yes", on |-> factor])
  /\ UNCHANGED <<factor, flow, pageState, spentAuth>>
(* Requests fail, tokens expire; a change by others drops every token.     *)
CallFails(c) ==
  /\ calls[c].at = "sent" /\ ErrorsLeft /\ Spend("errors") /\ Answered(c, "no")
  /\ UNCHANGED <<factor, flow, pageState>>
TokenExpires ==
  /\ flow # NoFlow /\ ErrorsLeft /\ Spend("errors") /\ flow' = NoFlow
  /\ UNCHANGED <<factor, pageState, calls>>
OthersChange ==
  /\ spentAuth.outsiders < MaxOutsiders /\ Spend("outsiders")
  /\ factor' \in BOOLEAN /\ flow' = NoFlow
  /\ UNCHANGED <<pageState, calls>>

(* ---- The answers. ---------------------------------------------------------- *)

(* openTotpEnrollment, openTotpDisableConfirmation, or the handler's catch. *)
BeginAnswered ==
  /\ calls["begin"].at \in {"yes", "no"} /\ Put("begin", Idly)
  /\ LET r == calls["begin"] IN
     IF r.at = "yes"
     THEN /\ pending' = [kind |-> r.kind, id |-> r.id, confirmed |-> FALSE]
          /\ dialog' = "open" /\ toggle' = [toggle EXCEPT !.free = TRUE]
     ELSE /\ pending' = IF r.kind = "disable" THEN NoFlow ELSE pending
          /\ toggle' = [on |-> IF r.kind = "enable" THEN FALSE ELSE toggle.on, free |-> TRUE]
          /\ UNCHANGED dialog
  /\ UNCHANGED <<known, fields>> /\ RenderSave
  /\ UNCHANGED <<factor, flow, spentAuth>>
(* The change the code was for is confirmed, whether or not it still is    *)
(* the pending one; a token that is gone leaves only the way to close.     *)
DefectGoneStays ==
  /\ calls["confirm"].at \in {"yes", "no", "wrong", "gone"}
  /\ IF calls["confirm"].at = "yes"
     THEN /\ Put("confirm", Idly) /\ dialog' = "closed"
          /\ pending' = [pending EXCEPT !.confirmed = TRUE]
          /\ toggle' = [toggle EXCEPT !.on = calls["confirm"].kind = "enable"]
     ELSE /\ dialog' = IF calls["confirm"].at = "gone" THEN "spent" ELSE dialog
          /\ Put("confirm", IF calls["confirm"].at = "gone" THEN [at |-> "over"] ELSE Idly)
          /\ UNCHANGED <<toggle, pending>>
  /\ UNCHANGED <<known, fields>> /\ RenderSave
  /\ UNCHANGED <<factor, flow, spentAuth>>
ConfirmAnswered ==
  /\ calls["confirm"].at \in {"yes", "no", "wrong", "gone"} /\ Put("confirm", Idly)
  /\ LET r == calls["confirm"]
         same == pending # NoFlow /\ pending.id = r.id /\ pending.kind = r.kind IN
     IF r.at = "yes"
     THEN /\ pending' = IF same THEN [pending EXCEPT !.confirmed = TRUE] ELSE pending
          /\ toggle' = [toggle EXCEPT !.on = IF r.kind = "disable" THEN FALSE ELSE @]
          /\ dialog' = "closed"
     ELSE /\ dialog' = IF r.at = "gone" /\ dialog = "open" THEN "spent" ELSE dialog
          /\ UNCHANGED <<toggle, pending>>
  /\ UNCHANGED <<known, fields>> /\ RenderSave
  /\ UNCHANGED <<factor, flow, spentAuth>>
(* A cancellation that failed leaves the dialog and the change as they are. *)
CancelAnswered ==
  /\ calls["cancel"].at \in {"yes", "no"} /\ Put("cancel", Idly)
  /\ IF calls["cancel"].at = "no"
     THEN /\ UNCHANGED <<pending, dialog>>
          /\ toggle' = IF ~known /\ ~calls["cancel"].reset /\ dialog = "closed"
                       THEN [toggle EXCEPT !.on = TRUE] ELSE toggle
     ELSE /\ pending' = NoFlow /\ dialog' = "closed"
          /\ toggle' = IF calls["cancel"].reset THEN [toggle EXCEPT !.on = known] ELSE toggle
  /\ UNCHANGED <<known, fields>> /\ RenderSave
  /\ UNCHANGED <<factor, flow, spentAuth>>
(* finishAccountSettings loads the settings again.                         *)
SaveAnswered ==
  /\ calls["save"].at \in {"yes", "no", "gone"}
  /\ CASE calls["save"].at = "yes" ->
            calls' = [calls EXCEPT !["save"] = Idly, !["load"] = [at |-> "sent"]]
       [] OTHER -> Put("save", Idly)
  /\ IF calls["save"].at = "gone"
     THEN pending' = NoFlow /\ toggle' = [toggle EXCEPT !.on = known]
     ELSE UNCHANGED <<pending, toggle>>
  /\ saveOff' = FALSE
  /\ UNCHANGED <<factor, flow, known, dialog, fields, spentAuth>>
LoadAnswered ==
  /\ calls["load"].at \in {"yes", "no"} /\ Put("load", Idly)
  /\ IF calls["load"].at = "yes"
     THEN /\ known' = calls["load"].on /\ toggle' = [toggle EXCEPT !.on = calls["load"].on]
          /\ pending' = NoFlow /\ fields' = FALSE /\ UNCHANGED dialog /\ RenderSave
     ELSE UNCHANGED pageState
  /\ UNCHANGED <<factor, flow, spentAuth>>

AuthServerNext ==
  \/ BeginReached \/ ConfirmReached \/ CancelReached \/ SaveReached \/ LoadReached
AuthAnswerNext ==
  \/ BeginAnswered \/ ConfirmAnswered \/ CancelAnswered \/ SaveAnswered \/ LoadAnswered
AuthUserNext ==
  \/ ChangeField \/ Toggle \/ GiveCode \/ CloseDialog \/ PressSave \/ EnterTab \/ LeavePage
AuthNext ==
  \/ AuthUserNext \/ AuthServerNext \/ AuthAnswerNext
  \/ \E c \in DOMAIN calls : CallFails(c)
  \/ TokenExpires \/ OthersChange
AuthSpec ==
  /\ AuthInit /\ [][AuthNext]_authVars
  /\ WF_authVars(AuthServerNext) /\ WF_authVars(AuthAnswerNext) /\ SF_authVars(CloseDialog)

(* ---- Moving to another origin. ---------------------------------------------- *)

MoveInit ==
  /\ move = [at |-> "idle", tries |-> 0]
  /\ entry = [at |-> "old", token |-> FALSE]
  /\ tab = [at |-> "old", target |-> FALSE] /\ lost = 0
moveVars == <<move, entry, tab, lost>>
MoveTo(step) == move' = [move EXCEPT !.at = step]
Lose == lost < MaxMoveErrors /\ lost' = lost + 1

(* saveManagementOrigin, with confirmIsolationEnable: the user may decline. *)
AskMove ==
  /\ tab.at = "old" /\ move.at = "idle" /\ entry.at = "old"
  /\ \/ MoveTo("confirm")
     \/ move' = [at |-> "create", tries |-> 0]
  /\ UNCHANGED <<entry, tab, lost>>
ConfirmMove ==
  /\ move.at = "confirm"
  /\ move' \in {[at |-> "idle", tries |-> 0], [at |-> "create", tries |-> 0]}
  /\ UNCHANGED <<entry, tab, lost>>
(* changeManagementOrigin.                                                 *)
CreateMove ==
  /\ move.at = "create"
  /\ \/ MoveTo("probe") /\ UNCHANGED lost
     \/ Lose /\ MoveTo("idle")
  /\ UNCHANGED <<entry, tab>>
(* probeManagementOrigin: a failed probe is repeated, the last one reported. *)
Probe ==
  /\ move.at = "probe"
  /\ \/ MoveTo("commit")
     \/ move' = [at |-> IF move.tries + 1 < Probes THEN "probe" ELSE "report",
                 tries |-> move.tries + 1]
  /\ UNCHANGED <<entry, tab, lost>>
ReportMove == move.at = "report" /\ MoveTo("idle") /\ UNCHANGED <<entry, tab, lost>>
(* From the commit on, the old origin serves the console no more.          *)
CommitMove ==
  /\ move.at = "commit"
  /\ \/ /\ entry' = [at |-> "new", token |-> TRUE]
        /\ \E step \in {"continue"} \union (IF LosesCommit THEN {"idle"} ELSE {}) : MoveTo(step)
        /\ UNCHANGED lost
     \/ Lose /\ MoveTo("idle") /\ UNCHANGED entry
  /\ UNCHANGED tab
(* continueManagementTransition remembers where it goes.                   *)
ContinueMove ==
  /\ move.at = "continue" /\ MoveTo("idle")
  /\ tab' = [at |-> "leaving", target |-> TRUE]
  /\ UNCHANGED <<entry, lost>>
Arrive ==
  /\ tab.at = "leaving"
  /\ \/ /\ tab' = [tab EXCEPT !.at = IF entry.token THEN "new" ELSE "login"]
        /\ entry' = [entry EXCEPT !.token = FALSE] /\ UNCHANGED lost
     \/ Lose /\ tab' = [tab EXCEPT !.at = "old"] /\ UNCHANGED entry
  /\ UNCHANGED move
(* startManagementSessionGuard: while the session holds the target is       *)
(* forgotten; when the console is gone from here, the page goes there.     *)
Inspect ==
  /\ tab.at = "old" /\ tab.target
  /\ tab' = [at |-> IF entry.at = "old" THEN "old" ELSE "leaving", target |-> FALSE]
  /\ UNCHANGED <<move, entry, lost>>

MoveStepNext ==
  \/ ConfirmMove \/ CreateMove \/ Probe \/ ReportMove \/ CommitMove \/ ContinueMove
  \/ Arrive \/ Inspect
MoveNext == AskMove \/ MoveStepNext
MoveSpec == MoveInit /\ [][MoveNext]_moveVars /\ WF_moveVars(MoveStepNext)

(* ---- Properties. ------------------------------------------------------------ *)

(* With Save enabled and nothing under way, a switch that differs from the   *)
(* account is backed by a change whose code was accepted: saving never ends  *)
(* in the silent return of saveAccountSettings that leaves the button dead.  *)
SaveMeans ==
  ~saveOff /\ Quiet(DOMAIN calls) /\ toggle.on # known => Confirmed(Wanted)

(* An open code dialog always has the change it asks a code for: its buttons *)
(* act on something (confirmTotpEnrollment returns at once without one).     *)
DialogServes == dialog # "closed" => pending # NoFlow /\ pending.id # 0

(* The dialog and the switch are never stuck: however the code, the token or *)
(* a request fares, the dialog can be left and the switch used again.        *)
DialogCloses == (dialog # "closed" \/ ~toggle.free) ~> (dialog = "closed" /\ toggle.free)

(* Once the console has moved, its page follows: even when the first try to  *)
(* reach the new origin failed and the user is back on the old page.         *)
PageFollows == entry.at = "new" ~> tab.at \in {"new", "login"}

(* The settings page serves its user: its buttons act, its dialog can be   *)
(* left, and it follows the console to its new place.                      *)
SettingsServe == []SaveMeans /\ []DialogServes /\ DialogCloses /\ PageFollows
=============================================================================
