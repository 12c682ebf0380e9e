------------------------------ MODULE ConsoleProxy ------------------------------
(***************************************************************************)
(* The proxy tab of the console: a form that is saved as a whole, switches *)
(* that are saved at once and in order, each save naming the revision it   *)
(* was made from, and a test of the form's candidate that is polled. The   *)
(* configuration is also changed from elsewhere (the plugin page inside    *)
(* DSH). A connection is a number, a switch is on or off.                  *)
(***************************************************************************)
EXTENDS Naturals, Sequences

CONSTANTS
  Switches,     \* the master switch and the source switches
  MaxEdits,     \* bound on what the user types and switches
  MaxElsewhere, \* bound on changes made elsewhere
  MaxErrors     \* bound on requests that fail on the way

VARIABLES
  config,     \* the stored configuration: revision, connection, switches on
  seen,       \* proxyConfiguration: the copy the page works from
  form,       \* the fields: connection typed, whether a password is typed
  boxes,      \* the switches that are shown as on
  queue,      \* switches waiting to be saved, one after the other
  immediate,  \* the save of a switch under way
  saving,     \* the save of the form under way
  loading,    \* loadProxy: the load under way
  trial,      \* the test dialog, and what the server says of the test
  wished,     \* how the user left each switch
  edits, elsewhere, errors

tabState == <<seen, form, boxes>>
userVars == <<wished, edits>>
envVars == <<elsewhere, errors>>
proxyTabVars ==
  <<config, tabState, queue, immediate, saving, loading, trial, userVars, envVars>>

NoSave == [at |-> "idle"]
ProxyTabInit ==
  /\ config = [rev |-> 1, conn |-> 0, on |-> {}] /\ seen = config
  /\ form = [conn |-> 0, secret |-> FALSE] /\ boxes = {}
  /\ queue = <<>> /\ immediate = NoSave /\ saving = NoSave /\ loading = "idle"
  /\ trial = [shown |-> "closed", real |-> "none"]
  /\ wished = {} /\ edits = 0 /\ elsewhere = 0 /\ errors = 0

(* renderProxyConfiguration: the copy becomes what the page shows.         *)
Render(copy) ==
  /\ seen' = copy /\ boxes' = copy.on
  /\ form' = [form EXCEPT !.conn = copy.conn]
ClearSecrets == [conn |-> form.conn, secret |-> FALSE]

(* ---- The user. ------------------------------------------------------------ *)

Type ==
  /\ edits < MaxEdits /\ edits' = edits + 1
  /\ \/ form' = [form EXCEPT !.conn = edits + 1]
     \/ form' = [form EXCEPT !.secret = TRUE]
  /\ UNCHANGED <<config, seen, boxes, queue, immediate, saving, loading, trial, wished, envVars>>
Switched(on, s) == IF s \in on THEN on \ {s} ELSE on \union {s}
(* The handler queues a save; the switch itself is read when it starts.    *)
Switch(s) ==
  /\ edits < MaxEdits /\ edits' = edits + 1
  /\ boxes' = Switched(boxes, s) /\ queue' = Append(queue, s)
  /\ wished' = IF s \in boxes THEN wished \ {s} ELSE wished \union {s}
  /\ UNCHANGED <<config, seen, form, immediate, saving, loading, trial, envVars>>
(* selectTab: leaving the tab forgets the password.                         *)
LeaveTab ==
  /\ form.secret /\ form' = ClearSecrets
  /\ UNCHANGED <<config, seen, boxes, queue, immediate, saving, loading, trial, userVars, envVars>>

(* ---- The stored configuration. -------------------------------------------- *)

ElsewhereSaves ==
  /\ elsewhere < MaxElsewhere /\ elsewhere' = elsewhere + 1
  /\ \/ config' = [config EXCEPT !.rev = @ + 1, !.conn = 100 + elsewhere]
     \/ \E s \in Switches : config' = [config EXCEPT !.rev = @ + 1, !.on = Switched(@, s)]
  /\ UNCHANGED <<tabState, queue, immediate, saving, loading, trial, userVars, errors>>
(* PUT proxy: only onto the revision the change was made from.             *)
Checked(ask) == [ask EXCEPT !.at = "answered", !.took = ask.base = config.rev]
Becomes(ask) == [rev |-> config.rev + 1, conn |-> ask.conn, on |-> ask.on]
SaveRefused(ask) == [ask EXCEPT !.at = "failed"]

(* ---- saveProxyImmediate. --------------------------------------------------- *)

DefectAsked(conn, on) ==
  [at |-> "sent", base |-> seen.rev, conn |-> form.conn, on |-> on, draft |-> form, took |-> FALSE]
Asked(conn, on) ==
  [at |-> "sent", base |-> seen.rev, conn |-> conn, on |-> on, draft |-> form, took |-> FALSE]
StartImmediate ==
  /\ immediate = NoSave /\ queue # <<>>
  /\ queue' = Tail(queue)
  /\ immediate' = Asked(seen.conn, IF Head(queue) \in boxes THEN seen.on \union {Head(queue)}
                                   ELSE seen.on \ {Head(queue)})
  /\ UNCHANGED <<config, tabState, saving, loading, trial, userVars, envVars>>
ImmediateReached ==
  /\ immediate.at = "sent"
  /\ \/ /\ immediate' = Checked(immediate) /\ UNCHANGED errors
        /\ config' = IF immediate'.took THEN Becomes(immediate) ELSE config
     \/ /\ errors < MaxErrors /\ errors' = errors + 1
        /\ immediate' = SaveRefused(immediate) /\ UNCHANGED config
  /\ UNCHANGED <<tabState, queue, saving, loading, trial, userVars, elsewhere>>
(* The answer is rendered and the draft of before the save put back; a     *)
(* conflict loads the configuration anew, another failure renders the copy.*)
ImmediateAnswered ==
  /\ immediate.at \in {"answered", "failed"}
  /\ IF immediate.at = "failed" THEN Render(seen) /\ immediate' = NoSave /\ UNCHANGED loading
     ELSE IF immediate.took
     THEN /\ seen' = [rev |-> immediate.base + 1, conn |-> immediate.conn, on |-> immediate.on]
          /\ boxes' = immediate.on /\ form' = immediate.draft
          /\ immediate' = NoSave /\ UNCHANGED loading
     ELSE /\ immediate' = [immediate EXCEPT !.at = "waiting"]
          /\ loading' = "conflict" /\ UNCHANGED tabState
  /\ UNCHANGED <<config, queue, saving, trial, userVars, envVars>>

(* ---- saveProxyConfiguration. ---------------------------------------------- *)

TestRuns == trial.shown \in {"starting", "running"}
StartSave ==
  /\ saving = NoSave /\ ~TestRuns /\ (form.conn # seen.conn \/ form.secret)
  /\ saving' = Asked(form.conn, seen.on)
  /\ UNCHANGED <<config, tabState, queue, immediate, loading, trial, userVars, envVars>>
SaveReached ==
  /\ saving.at = "sent"
  /\ \/ /\ saving' = Checked(saving) /\ UNCHANGED errors
        /\ config' = IF saving'.took THEN Becomes(saving) ELSE config
     \/ /\ errors < MaxErrors /\ errors' = errors + 1
        /\ saving' = SaveRefused(saving) /\ UNCHANGED config
  /\ UNCHANGED <<tabState, queue, immediate, loading, trial, userVars, elsewhere>>
SaveAnswered ==
  /\ saving.at \in {"answered", "failed"} /\ saving' = NoSave
  /\ IF saving.at = "answered" /\ saving.took
     THEN /\ seen' = [rev |-> saving.base + 1, conn |-> saving.conn, on |-> saving.on]
          /\ boxes' = saving.on /\ form' = [conn |-> saving.conn, secret |-> FALSE]
          /\ UNCHANGED loading
     ELSE /\ UNCHANGED tabState
          /\ loading' = IF saving.at = "answered" THEN "conflict" ELSE loading
  /\ UNCHANGED <<config, queue, immediate, trial, userVars, envVars>>

(* loadProxy: one load at a time, whoever asks; a failed one shows itself. *)
Loaded ==
  /\ loading = "conflict"
  /\ immediate' = IF immediate.at = "waiting" THEN NoSave ELSE immediate
  /\ \/ /\ seen' = config /\ boxes' = config.on /\ UNCHANGED errors
        /\ form' = [conn |-> config.conn, secret |-> FALSE] /\ loading' = "idle"
     \/ /\ errors < MaxErrors /\ errors' = errors + 1 /\ loading' = "failed"
        /\ UNCHANGED tabState
  /\ UNCHANGED <<config, queue, saving, trial, userVars, elsewhere>>

(* ---- startProxyTest and its polls. ---------------------------------------- *)

StartTest ==
  /\ trial.shown = "closed" /\ trial.real # "running" /\ edits < MaxEdits /\ edits' = edits + 1
  /\ trial' = [shown |-> "starting", real |-> "none"]
  /\ UNCHANGED <<config, tabState, queue, immediate, saving, loading, wished, envVars>>
(* The candidate's revision must be the stored one, as with a save.        *)
TestStarted ==
  /\ trial.shown = "starting"
  /\ \/ /\ seen.rev = config.rev /\ trial' = [shown |-> "running", real |-> "running"]
        /\ UNCHANGED <<loading, errors>>
     \/ /\ seen.rev # config.rev /\ trial' = [trial EXCEPT !.shown = "ended"]
        /\ loading' = "conflict" /\ UNCHANGED errors
     \/ /\ errors < MaxErrors /\ errors' = errors + 1 /\ UNCHANGED loading
        /\ trial' = [trial EXCEPT !.shown = "ended"]
  /\ UNCHANGED <<config, tabState, queue, immediate, saving, userVars, elsewhere>>
TestEnds ==
  /\ trial.real = "running" /\ trial' = [trial EXCEPT !.real = "ended"]
  /\ UNCHANGED <<config, tabState, queue, immediate, saving, loading, userVars, envVars>>
(* A poll that fails ends the polling; the end of the test forgets the     *)
(* password it was made with.                                               *)
PollTest ==
  /\ trial.shown = "running"
  /\ \/ /\ trial.real = "ended" /\ trial' = [trial EXCEPT !.shown = "ended"]
        /\ form' = ClearSecrets /\ UNCHANGED errors
     \/ /\ errors < MaxErrors /\ errors' = errors + 1
        /\ trial' = [trial EXCEPT !.shown = "ended"] /\ UNCHANGED form
  /\ UNCHANGED <<config, seen, boxes, queue, immediate, saving, loading, userVars, elsewhere>>
CloseTest ==
  /\ trial.shown = "ended" /\ trial' = [trial EXCEPT !.shown = "closed"]
  /\ UNCHANGED <<config, tabState, queue, immediate, saving, loading, userVars, envVars>>

(* The chain goes on before the page handles anything else.                *)
ChainGoesOn == immediate = NoSave /\ queue # <<>>
ProxyTabNext ==
  \/ StartImmediate
  \/ /\ ~ChainGoesOn
     /\ \/ Type \/ (\E s \in Switches : Switch(s)) \/ LeaveTab \/ ElsewhereSaves
        \/ ImmediateReached \/ ImmediateAnswered
        \/ StartSave \/ SaveReached \/ SaveAnswered \/ Loaded
        \/ StartTest \/ TestStarted \/ TestEnds \/ PollTest \/ CloseTest
ProxyTabFairness ==
  /\ WF_proxyTabVars(StartImmediate) /\ WF_proxyTabVars(ImmediateReached)
  /\ WF_proxyTabVars(ImmediateAnswered) /\ WF_proxyTabVars(SaveReached)
  /\ WF_proxyTabVars(SaveAnswered) /\ WF_proxyTabVars(Loaded)
  /\ WF_proxyTabVars(TestStarted) /\ WF_proxyTabVars(TestEnds) /\ WF_proxyTabVars(PollTest)
ProxyTabSpec == ProxyTabInit /\ [][ProxyTabNext]_proxyTabVars /\ ProxyTabFairness

(* ---- Properties. ------------------------------------------------------------ *)

AtRest == queue = <<>> /\ immediate = NoSave /\ saving = NoSave /\ loading = "idle"

(* A save changes only what its user changed: a switch leaves the stored   *)
(* connection and every other switch alone, the form leaves the switches,  *)
(* whatever was saved elsewhere meanwhile (app.js: baseRevision).          *)
SavesOwnOnly ==
  [][config' # config =>
       \/ elsewhere' # elsewhere
       \/ /\ immediate'.at = "answered" /\ immediate.at = "sent"
          /\ config'.conn = config.conn
          /\ \E s \in Switches : config'.on \subseteq config.on \union {s}
                                 /\ config.on \subseteq config'.on \union {s}
       \/ saving'.at = "answered" /\ config'.on = config.on]_proxyTabVars

(* The switches are independent of each other (guide.md): with nobody else *)
(* saving and nothing failing, each ends as the user left it.              *)
SwitchesKept ==
  AtRest /\ elsewhere = 0 /\ errors = 0 => config.on = wished
=============================================================================
