------------------------------- MODULE TwoFactor -------------------------------
(***************************************************************************)
(* Turning two-factor authentication on and off (access-manager: the TOTP  *)
(* flows).  A secret is enrolled, a code of it is verified, and only then  *)
(* do the settings take it over; disabling is confirmed with a code too.   *)
(***************************************************************************)
EXTENDS Naturals

CONSTANTS
  Consoles,     \* Management sessions
  MaxSecrets,   \* bound: enrolments
  MaxRevisions  \* bound: changes of the account

VARIABLES
  totp,      \* account.totp, with the revision of the account
  flows,     \* enrolments and confirmations of disabling
  working,   \* what the request of a session is doing: nothing, a code, the settings
  proved,    \* secrets a code was given for
  secrets    \* secrets generated so far

factorVars == <<totp, flows, working, proved, secrets>>

Waiting == [step |-> "none"]
FactorInit ==
  /\ totp = [on |-> FALSE, secret |-> 0, revision |-> 0]
  /\ flows = {} /\ proved = {} /\ secrets = 0
  /\ working = [s \in Consoles |-> Waiting]

Working(s, step, flow) ==
  working' = [working EXCEPT ![s] = [step |-> step, flow |-> flow, revision |-> totp.revision]]
FlowFinished(s) == working' = [working EXCEPT ![s] = Waiting]
(* createEnrollment and createDisableConfirmation drop the session's last one. *)
FlowStarted(kind, s, secret) ==
  {f \in flows : ~(f.kind = kind /\ f.session = s)}
    \union {[kind |-> kind, session |-> s, secret |-> secret, revision |-> totp.revision,
             confirmed |-> FALSE]}

BeginEnrollment(s) ==
  /\ working[s] = Waiting /\ ~totp.on /\ secrets < MaxSecrets
  /\ secrets' = secrets + 1
  /\ flows' = FlowStarted("enrollment", s, secrets + 1)
  /\ UNCHANGED <<totp, working, proved>>
BeginDisable(s) ==
  /\ working[s] = Waiting /\ totp.on
  /\ flows' = FlowStarted("disable", s, totp.secret)
  /\ UNCHANGED <<totp, working, proved, secrets>>
Cancel(f) ==
  /\ f.revision = totp.revision /\ flows' = flows \ {f}
  /\ UNCHANGED <<totp, working, proved, secrets>>
CancelTotpEnrollment(f) == f.kind = "enrollment" /\ Cancel(f)
CancelTotpDisable(f) == f.kind = "disable" /\ Cancel(f)

(* confirmTotpEnrollment, confirmTotpDisable: the code is verified, then   *)
(* what it was for is marked, if it is still there.                        *)
VerifyCode(s, f) ==
  /\ working[s] = Waiting /\ f.session = s /\ f.revision = totp.revision
  /\ Working(s, "code", f)
  /\ proved' = proved \union {f.secret}
  /\ UNCHANGED <<totp, flows, secrets>>
Confirmed(f) == [f EXCEPT !.confirmed = TRUE]
Key(f) == <<f.kind, f.session, f.secret, f.revision>>
ConfirmFlow(s) ==
  /\ working[s].step = "code" /\ FlowFinished(s)
  /\ flows' = {IF Key(f) = Key(working[s].flow) THEN Confirmed(f) ELSE f : f \in flows}
  /\ UNCHANGED <<totp, proved, secrets>>

(* updateAuthenticationSettings with totpEnabled. *)
ChangeFactor(s, f) ==
  /\ working[s] = Waiting /\ f.session = s /\ f.revision = totp.revision /\ f.confirmed
  /\ f.kind = "enrollment" <=> ~totp.on
  /\ Working(s, "settings", f)
  /\ UNCHANGED <<totp, flows, proved, secrets>>

DefectSettingsChanged(s) ==
  /\ working[s].step = "settings" /\ FlowFinished(s)
  /\ totp.revision < MaxRevisions
  /\ totp' = [on |-> working[s].flow.kind = "enrollment", revision |-> totp.revision + 1,
              secret |-> IF working[s].flow.kind = "enrollment" THEN working[s].flow.secret ELSE 0]
  /\ flows' = {f \in flows : Key(f) # Key(working[s].flow)}
  /\ UNCHANGED <<proved, secrets>>

SettingsChanged(s) ==
  /\ working[s].step = "settings" /\ FlowFinished(s)
  /\ IF working[s].revision = totp.revision
     THEN /\ totp.revision < MaxRevisions
          /\ totp' = [on |-> working[s].flow.kind = "enrollment", revision |-> totp.revision + 1,
                      secret |-> IF working[s].flow.kind = "enrollment"
                                 THEN working[s].flow.secret ELSE 0]
          /\ flows' = {f \in flows : Key(f) # Key(working[s].flow)}
     ELSE UNCHANGED <<totp, flows>>
  /\ UNCHANGED <<proved, secrets>>

(* The account changes otherwise; a new main password drops the flows, and *)
(* the recovery commands can turn the second factor off.                   *)
AccountChanges ==
  /\ totp.revision < MaxRevisions
  /\ \E off, password \in BOOLEAN :
       /\ totp' = IF off THEN [on |-> FALSE, secret |-> 0, revision |-> totp.revision + 1]
                  ELSE [totp EXCEPT !.revision = @ + 1]
       /\ flows' = IF password THEN {} ELSE flows
  /\ UNCHANGED <<working, proved, secrets>>

FactorNext ==
  \/ \E s \in Consoles : BeginEnrollment(s) \/ BeginDisable(s) \/ ConfirmFlow(s) \/ SettingsChanged(s)
  \/ \E f \in flows : CancelTotpEnrollment(f) \/ CancelTotpDisable(f)
  \/ \E s \in Consoles, f \in flows : VerifyCode(s, f) \/ ChangeFactor(s, f)
  \/ AccountChanges
FactorSpec == FactorInit /\ [][FactorNext]_factorVars

(* Nobody is asked for codes of a secret that no code was ever given for:    *)
(* the administrator who turns two-factor on can log in afterwards.          *)
SecretProved == totp.on => totp.secret \in proved

(* The settings replace a secret only through being turned off: an enrolment *)
(* of another session that was under way does not take its place.            *)
SecretKept == [][totp.on /\ totp'.on => totp'.secret = totp.secret]_factorVars

(* The secret in force was proved by a code and is not exchanged.          *)
SecretStands == []SecretProved /\ SecretKept
=============================================================================
