---------------------------- MODULE AccountProofs ----------------------------
(***************************************************************************)
(* Proofs about how the account of the administrator is made and guarded:  *)
(* AccessManager, AccountState, LoginLimits, TwoFactor and BrowserLogin.   *)
(***************************************************************************)
EXTENDS AccessManager, AccountState, LoginLimits, TwoFactor, BrowserLogin, FiniteSetTheorems, TLAPS

-----------------------------------------------------------------------------
(* The account is open for creation once.                                  *)

Initialization ==
  {"missing", "damaged", "never-initialized", "migration-required", "recovery-required",
   "initialized"}

StateTypes ==
  /\ initialization \in Initialization
  /\ accountFile \in {"missing", "damaged", "valid"}
  /\ creating \in BOOLEAN /\ classified \in BOOLEAN
  /\ answered \in Nat /\ accounts \in Nat /\ damages \in Nat

(* As long as one file at most was lost, one of the two still says that    *)
(* there was an account.                                                   *)
AccountKnown ==
  /\ creating => accountFile = "valid"
  /\ answered > 0 =>
       /\ initialization # "never-initialized"
       /\ ~(initialization = "missing" /\ accountFile = "missing")
       /\ damages = 0 => initialization # "missing" /\ accountFile = "valid"

LEMMA AccountInit == StateInit => StateTypes /\ AccountKnown
<1> SUFFICES ASSUME StateInit PROVE StateTypes /\ AccountKnown
  OBVIOUS
<1>1. answered = 0 /\ 0 \in Nat /\ ~(answered > 0)
  BY SMT DEF StateInit
<1>2. StateTypes
  BY <1>1 DEF StateInit, StateTypes, Initialization
<1>3. AccountKnown
  BY <1>1 DEF StateInit, AccountKnown
<1> QED
  BY <1>2, <1>3

LEMMA ClassifiedType ==
  ASSUME StateTypes, NEW evidence \in BOOLEAN
  PROVE  /\ Classified(evidence) \in Initialization \ {"missing"}
         /\ Classified(evidence) = "never-initialized" =>
              \/ initialization = "never-initialized"
              \/ initialization = "missing" /\ accountFile = "missing"
  BY DEF StateTypes, Classified, Initialization

LEMMA AccountStep ==
  ASSUME StateTypes, AccountKnown, [StateNext]_stateVars, MaxDamage \in Nat, MaxDamage <= 1
  PROVE  StateTypes' /\ AccountKnown'
<1>1. CASE Classify
  BY <1>1, ClassifiedType DEF Classify, StateTypes, AccountKnown
<1>2. CASE GenerateResetKey
  BY <1>2 DEF GenerateResetKey, StateTypes, AccountKnown
<1>3. CASE CreateAccount
  BY <1>3 DEF CreateAccount, StateTypes, AccountKnown
<1>4. CASE CreationAnswered
  BY <1>4 DEF CreationAnswered, StateTypes, AccountKnown, Initialization
<1>5. CASE AccessRestarts
  BY <1>5 DEF AccessRestarts, StateTypes, AccountKnown
<1>6. CASE Damage
  BY <1>6 DEF Damage, StateTypes, AccountKnown, Initialization
<1>7. CASE UNCHANGED stateVars
  BY <1>7 DEF stateVars, StateTypes, AccountKnown
<1> QED
  BY <1>1, <1>2, <1>3, <1>4, <1>5, <1>6, <1>7 DEF StateNext

(* Once the creation of an account has been answered, nobody creates        *)
(* another one without a reset key, however often the creation, the process *)
(* or the container is interrupted, as long as one file at most is lost.    *)
THEOREM AccountOpenOnce ==
  ASSUME MaxDamage \in Nat, MaxDamage <= 1
  PROVE  StateSpec => []OpenOnce
<1>1. StateTypes /\ AccountKnown => OpenOnce
  BY DEF StateTypes, AccountKnown, OpenOnce, AccessState, Initialization
<1> QED
  BY <1>1, AccountInit, AccountStep, PTL DEF StateSpec

-----------------------------------------------------------------------------
(* The secret in force was proved by a code and is not exchanged.          *)

Flow == [kind : {"enrollment", "disable"}, session : Consoles, secret : Nat, revision : Nat,
         confirmed : BOOLEAN]
Work == {Waiting} \union [step : {"code", "settings"}, flow : Flow, revision : Nat]

FactorTypes ==
  /\ totp \in [on : BOOLEAN, secret : Nat, revision : Nat]
  /\ flows \subseteq Flow
  /\ working \in [Consoles -> Work]
  /\ secrets \in Nat

(* A flow is confirmed by a code of its secret, and settings that are still *)
(* of the account's revision turn the factor the other way.                *)
FactorKnown ==
  /\ totp.on = TRUE => totp.secret \in proved
  /\ \A f \in flows : f.confirmed = TRUE => f.secret \in proved
  /\ \A s \in Consoles : working[s].step # "none" =>
       /\ working[s].flow.secret \in proved
       /\ working[s].revision <= totp.revision
       /\ working[s].step = "settings" /\ working[s].revision = totp.revision
            => (working[s].flow.kind = "enrollment" <=> totp.on = FALSE)

LEMMA FactorInitial == FactorInit => FactorTypes /\ FactorKnown
  BY DEF FactorInit, FactorTypes, FactorKnown, Work, Waiting

LEMMA StartedFlow ==
  ASSUME FactorTypes, NEW kind \in {"enrollment", "disable"}, NEW s \in Consoles, NEW secret \in Nat
  PROVE  FlowStarted(kind, s, secret) \subseteq Flow
         /\ \A f \in FlowStarted(kind, s, secret) : f \in flows \/ f.confirmed = FALSE
<1> DEFINE new == [kind |-> kind, session |-> s, secret |-> secret, revision |-> totp.revision,
                   confirmed |-> FALSE]
<1>1. new \in Flow /\ new.confirmed = FALSE
  BY DEF FactorTypes, Flow
<1>2. FlowStarted(kind, s, secret) \subseteq flows \union {new}
  BY DEF FlowStarted
<1> HIDE DEF new
<1> QED
  BY <1>1, <1>2 DEF FactorTypes

LEMMA FactorStep ==
  ASSUME FactorTypes, FactorKnown, [FactorNext]_factorVars
  PROVE  FactorTypes' /\ FactorKnown' /\ (totp.on = TRUE /\ totp'.on = TRUE => totp'.secret = totp.secret)
<1> USE DEF FactorTypes, FactorKnown
<1>1. CASE \E s \in Consoles : BeginEnrollment(s)
  <2> PICK s \in Consoles : BeginEnrollment(s)
    BY <1>1
  <2> QED
    <3>1. flows' = FlowStarted("enrollment", s, secrets + 1) /\ secrets' = secrets + 1
          /\ secrets + 1 \in Nat
      BY DEF BeginEnrollment
    <3>2. flows' \subseteq Flow /\ \A f \in flows' : f \in flows \/ f.confirmed = FALSE
      BY <3>1, StartedFlow
    <3> QED
      BY <3>1, <3>2 DEF BeginEnrollment
<1>2. CASE \E s \in Consoles : BeginDisable(s)
  <2> PICK s \in Consoles : BeginDisable(s)
    BY <1>2
  <2> QED
    <3>1. flows' = FlowStarted("disable", s, totp.secret)
      BY DEF BeginDisable
    <3>2. flows' \subseteq Flow /\ \A f \in flows' : f \in flows \/ f.confirmed = FALSE
      BY <3>1, StartedFlow
    <3> QED
      BY <3>1, <3>2 DEF BeginDisable
<1>3. CASE \E s \in Consoles : ConfirmFlow(s)
  <2> PICK s \in Consoles : ConfirmFlow(s)
    BY <1>3
  <2> QED
    <3>1. working[s] \in [step : {"code", "settings"}, flow : Flow, revision : Nat]
      BY DEF ConfirmFlow, Work, Waiting
    <3>2. \A f \in flows' : f \in Flow /\ (f.confirmed = TRUE => f.secret \in proved)
      <4> TAKE f \in flows'
      <4> PICK g \in flows :
            f = IF Key(g) = Key(working[s].flow) THEN [g EXCEPT !.confirmed = TRUE] ELSE g
        BY DEF ConfirmFlow, Confirmed
      <4>1. CASE Key(g) = Key(working[s].flow)
        <5>1. g.secret = working[s].flow.secret
          BY <4>1 DEF Key
        <5>2. f \in Flow /\ f.secret = g.secret
          BY <4>1 DEF Flow
        <5> QED
          BY <3>1, <5>1, <5>2 DEF ConfirmFlow
      <4>2. CASE Key(g) # Key(working[s].flow)
        BY <4>2
      <4> QED
        BY <4>1, <4>2
    <3>3. working' = [working EXCEPT ![s] = Waiting] /\ UNCHANGED <<totp, proved, secrets>>
      BY DEF ConfirmFlow, FlowFinished
    <3>4. FactorTypes'
      BY <3>2, <3>3 DEF Work
    <3>5. FactorKnown'
      BY <3>2, <3>3 DEF Waiting
    <3> QED
      BY <3>3, <3>4, <3>5
<1>4. CASE \E s \in Consoles : SettingsChanged(s)
  <2> PICK s \in Consoles : SettingsChanged(s)
    BY <1>4
  <2> QED
    <3>1. working[s] \in [step : {"settings"}, flow : Flow, revision : Nat]
      BY DEF SettingsChanged, Work, Waiting
    <3>2. working' = [working EXCEPT ![s] = Waiting] /\ UNCHANGED <<proved, secrets>>
      BY DEF SettingsChanged, FlowFinished
    <3>3. CASE working[s].revision = totp.revision
      <4>1. /\ totp' = [on |-> working[s].flow.kind = "enrollment", revision |-> totp.revision + 1,
                        secret |-> IF working[s].flow.kind = "enrollment"
                                   THEN working[s].flow.secret ELSE 0]
            /\ flows' \subseteq flows
        BY <3>3 DEF SettingsChanged
      <4>2. /\ totp' \in [on : BOOLEAN, secret : Nat, revision : Nat] /\ totp'.revision = totp.revision + 1
            /\ totp'.on = TRUE => /\ working[s].flow.kind = "enrollment"
                                  /\ totp'.secret = working[s].flow.secret
        <5>1. CASE working[s].flow.kind = "enrollment"
          <6>1. totp' = [on |-> TRUE, secret |-> working[s].flow.secret, revision |-> totp.revision + 1]
            BY <4>1, <5>1
          <6> QED
            BY <3>1, <5>1, <6>1 DEF Flow
        <5>2. CASE working[s].flow.kind # "enrollment"
          <6>1. totp' = [on |-> FALSE, secret |-> 0, revision |-> totp.revision + 1]
            BY <4>1, <5>2
          <6> QED
            BY <6>1
        <5> QED
          BY <5>1, <5>2
      <4>3. FactorTypes'
        BY <3>2, <4>1, <4>2 DEF Work
      <4>4. totp'.on = TRUE => totp'.secret \in proved' /\ totp.on = FALSE
        BY <3>1, <3>2, <3>3, <4>2
      <4>5. \A r \in Consoles : working'[r].step # "none" =>
               /\ working'[r] = working[r]
               /\ working[r] \in [step : {"code", "settings"}, flow : Flow, revision : Nat]
        BY <3>2 DEF Work, Waiting
      <4>6. FactorKnown'
        BY <3>2, <4>1, <4>2, <4>4, <4>5
      <4> QED
        BY <4>3, <4>4, <4>6
    <3>4. CASE working[s].revision # totp.revision
      <4>1. UNCHANGED <<totp, flows>>
        BY <3>4 DEF SettingsChanged
      <4> QED
        BY <3>2, <4>1 DEF Work, Waiting
    <3> QED
      BY <3>3, <3>4
<1>5. CASE \E f \in flows : CancelTotpEnrollment(f) \/ CancelTotpDisable(f)
  BY <1>5 DEF CancelTotpEnrollment, CancelTotpDisable, Cancel
<1>6. CASE \E s \in Consoles, f \in flows : VerifyCode(s, f)
  <2> PICK s \in Consoles, f \in flows : VerifyCode(s, f)
    BY <1>6
  <2> QED
    BY DEF VerifyCode, Working, Flow, Work, Waiting
<1>7. CASE \E s \in Consoles, f \in flows : ChangeFactor(s, f)
  <2> PICK s \in Consoles, f \in flows : ChangeFactor(s, f)
    BY <1>7
  <2> QED
    BY DEF ChangeFactor, Working, Flow, Work, Waiting
<1>8. CASE AccountChanges
  BY <1>8 DEF AccountChanges, Work, Flow, Waiting
<1>9. CASE UNCHANGED factorVars
  BY <1>9 DEF factorVars
<1> QED
  BY <1>1, <1>2, <1>3, <1>4, <1>5, <1>6, <1>7, <1>8, <1>9 DEF FactorNext

(* Whatever the sessions enrol, confirm and disable beside each other, the *)
(* secret that is asked for was proved by a code and is not exchanged      *)
(* while the factor stays on.                                              *)
THEOREM SecretStandsAlways == FactorSpec => SecretStands
<1>1. FactorTypes /\ FactorKnown => SecretProved
  BY DEF FactorTypes, FactorKnown, SecretProved
<1>2. ASSUME FactorTypes, FactorKnown, [FactorNext]_factorVars
      PROVE  [totp.on /\ totp'.on => totp'.secret = totp.secret]_factorVars
  <2>1. totp.on = TRUE /\ totp'.on = TRUE => totp'.secret = totp.secret
    BY <1>2, FactorStep
  <2>2. totp \in [on : BOOLEAN, secret : Nat, revision : Nat] /\ totp' \in [on : BOOLEAN, secret : Nat, revision : Nat]
    BY <1>2, FactorStep DEF FactorTypes
  <2> QED
    BY <2>1, <2>2
<1> QED
  BY <1>1, <1>2, FactorInitial, FactorStep, PTL DEF FactorSpec, SecretStands, SecretKept

-----------------------------------------------------------------------------
(* A browser that signed out stays signed out.                             *)

Entry == [id : Nat, source : Nat]

SessionTypes ==
  /\ access \in [up : BOOLEAN, extra : BOOLEAN, dsh : SUBSET Nat, management : SUBSET Entry,
                 handoffs : SUBSET Entry, pendings : SUBSET Entry]
  /\ loginsUsed \in [dsh : Nat, entries : Nat, outages : Nat]

(* Sessions are numbered in their order: what was signed out has no number *)
(* that a later one gets.                                                  *)
EndedKnown ==
  /\ \A id \in access.dsh \union ended : id <= loginsUsed.dsh
  /\ ended \subseteq Nat

LoginKnown == SessionTypes /\ EndedKnown /\ SignedOutStays

LEMMA LoginInitial == LoginInit => LoginKnown
  BY DEF LoginInit, LoginKnown, SessionTypes, EndedKnown, SignedOutStays, Entry

LEMMA NewHandoffKept ==
  ASSUME LoginKnown, NEW source \in access.dsh, NewHandoff(source), UNCHANGED ended
  PROVE  LoginKnown'
<1>1. [id |-> loginsUsed.entries + 1, source |-> source] \in Entry
  BY DEF LoginKnown, SessionTypes, Entry
<1> QED
  BY <1>1 DEF NewHandoff, LoginKnown, SessionTypes, EndedKnown, SignedOutStays

(* A handoff is exchanged for a session of a DSH session that still is.    *)
LEMMA ExchangeKept ==
  ASSUME LoginKnown, NEW h \in access.handoffs,
         Exchange(h, [access EXCEPT !.handoffs = @ \ {h}]), UNCHANGED <<ended, loginsUsed>>
  PROVE  LoginKnown'
<1> DEFINE taken == [access EXCEPT !.handoffs = @ \ {h}]
<1>1. /\ taken \in [up : BOOLEAN, extra : BOOLEAN, dsh : SUBSET Nat, management : SUBSET Entry,
                    handoffs : SUBSET Entry, pendings : SUBSET Entry]
      /\ taken.dsh = access.dsh /\ taken.management = access.management
      /\ h \in Entry
  BY DEF LoginKnown, SessionTypes
<1> HIDE DEF taken
<1>2. CASE access' = taken
  BY <1>1, <1>2 DEF LoginKnown, SessionTypes, EndedKnown, SignedOutStays
<1>3. CASE access' = [taken EXCEPT !.pendings = @ \union {h}]
  BY <1>1, <1>3 DEF LoginKnown, SessionTypes, EndedKnown, SignedOutStays
<1>4. CASE h.source \in access.dsh /\ access' = [taken EXCEPT !.management = @ \union {h}]
  BY <1>1, <1>4 DEF LoginKnown, SessionTypes, EndedKnown, SignedOutStays
<1> QED
  BY <1>2, <1>3, <1>4 DEF Exchange, taken

LEMMA CompletedKept ==
  ASSUME LoginKnown, NEW valid \in SUBSET access.pendings, \A p \in valid : p.source \in access.dsh,
         access' = [access EXCEPT !.management = @ \union valid, !.pendings = @ \ valid],
         UNCHANGED <<ended, loginsUsed>>
  PROVE  LoginKnown'
  BY DEF LoginKnown, SessionTypes, EndedKnown, SignedOutStays

LEMMA LoginStep ==
  ASSUME LoginKnown, [LoginNext]_loginVars
  PROVE  LoginKnown'
<1> USE DEF LoginKnown
<1>1. CASE UNCHANGED <<access, ended, loginsUsed>>
  BY <1>1 DEF SessionTypes, EndedKnown, SignedOutStays
<1>2. CASE AccessStops
  <2>1. access' = [access EXCEPT !.up = FALSE, !.dsh = {}, !.management = {}, !.handoffs = {},
                                 !.pendings = {}]
    BY <1>2 DEF AccessStops
  <2>2. access'.dsh = {} /\ access'.management = {}
    BY <2>1 DEF SessionTypes
  <2>3. loginsUsed' \in [dsh : Nat, entries : Nat, outages : Nat] /\ loginsUsed'.dsh = loginsUsed.dsh /\ ended' = ended
    BY <1>2 DEF AccessStops, SessionTypes
  <2> QED
    BY <2>1, <2>2, <2>3 DEF SessionTypes, EndedKnown, SignedOutStays
<1>3. CASE AccessStarts
  BY <1>3 DEF AccessStarts, SessionTypes, EndedKnown, SignedOutStays
<1>4. ASSUME NEW t \in Tabs, Serve(t) PROVE LoginKnown'
  <2>1. CASE Login(t)
    BY <2>1 DEF Login, SessionTypes, EndedKnown, SignedOutStays
  <2>2. CASE Locate(t)
    BY <1>1, <2>2, NewHandoffKept DEF Locate
  <2>3. CASE BrowserLogout(t)
    <3>1. CASE SignedIn(t)
      <4> DEFINE id == OfJar(t).dsh
      <4>1. id \in access.dsh /\ ended' = ended \union {id} /\ UNCHANGED loginsUsed
        BY <2>3, <3>1 DEF BrowserLogout, SignedIn
      <4>2. PICK live \in SUBSET {s \in access.management : s.source # id} :
              access' = [access EXCEPT !.dsh = @ \ {id}, !.management = live]
        BY <2>3, <3>1 DEF BrowserLogout, DropDerived
      <4> HIDE DEF id
      <4> QED
        BY <4>1, <4>2 DEF SessionTypes, EndedKnown, SignedOutStays
    <3> QED
      BY <1>1, <2>3, <3>1 DEF BrowserLogout
  <2>4. CASE ManagementLogout(t)
    BY <2>4 DEF ManagementLogout, Drop, SessionTypes, EndedKnown, SignedOutStays
  <2>5. CASE EnterManagement(t)
    BY <1>1, <2>5, NewHandoffKept DEF EnterManagement, SignedIn
  <2>6. CASE Handoff(t)
    BY <1>1, <2>6, ExchangeKept DEF Handoff
  <2>7. CASE Pending(t)
    BY <1>1, <2>7, CompletedKept DEF Pending, CompleteSignIn
  <2>8. CASE Renew(t)
    BY <1>1, <2>8, NewHandoffKept DEF Renew, SignedIn
  <2>9. CASE RenewConsume(t)
    BY <1>1, <2>9, ExchangeKept, CompletedKept DEF RenewConsume, CompleteSignIn
  <2>10. CASE AuthenticationPage(t) \/ WrongPassword(t) \/ Console(t) \/ Unavailable(t) \/ Receive(t)
    BY <1>1, <2>10 DEF AuthenticationPage, WrongPassword, Console, Unavailable, Receive
  <2> QED
    BY <1>4, <2>1, <2>2, <2>3, <2>4, <2>5, <2>6, <2>7, <2>8, <2>9, <2>10 DEF Serve
<1>5. ASSUME NEW t \in Tabs, NEW route \in Routes, Send(t, route) PROVE LoginKnown'
  BY <1>1, <1>5 DEF Send
<1> QED
  BY <1>1, <1>2, <1>3, <1>4, <1>5 DEF LoginNext, loginVars

(* Whatever the other tabs have under way when a browser signs out - page   *)
(* loads, handoffs, logins waiting for a password - no session of the one   *)
(* that ended is there afterwards, nor comes to be.                         *)
THEOREM SignedOutAlways == LoginSpec => []SignedOutStays
<1>1. LoginKnown => SignedOutStays
  BY DEF LoginKnown
<1> QED
  BY <1>1, LoginInitial, LoginStep, PTL DEF LoginSpec

-----------------------------------------------------------------------------
(* Sessions are opened with the passwords in force.                        *)

Busy(c) == call[c].at # "idle"

Account == [revision : Nat, main : Nat, extra : Nat \ {0}, access : Nat, extraOn : BOOLEAN, totp : BOOLEAN,
            password : Nat, second : Nat]
Session == [kind : {"dsh", "management"}, id : Nat, main : Nat, access : Nat, extra : Nat, source : Nat,
            password : Nat, second : Nat]
Entrance == [kind : {"handoff", "pending"}, main : Nat, access : Nat, source : Nat, password : Nat]
Proof == [kind : {"challenge"}, revision : Nat, password : Nat]
Leave == [kind : {"capability"}, session : Nat, main : Nat, access : Nat, extra : Nat]
Passage == [kind : {"continuation"}, revision : Nat, source : Nat, password : Nat, second : Nat]
Move == [kind : {"transition"}, revision : Nat, session : Nat, source : Nat, password : Nat, second : Nat, probed : BOOLEAN]
Underway == {"work", "checked", "written"}

(* A password, and a Management password, that the account had under a version. *)
Fits(main, password) == \E x \in given : x.main = main /\ x.password = password
FitsSecond(extra, second) == \E x \in given : x.extra = extra /\ x.second = second

(* What was proved under a version was a password of that version, and so  *)
(* for the Management password and for a revision.                         *)
Proved(t) == Fits(t.main, t.password)
SecondKnown(t) == t.extra = 0 \/ FitsSecond(t.extra, t.second)
ProvedAt(t) ==
  t.revision <= account.revision /\ \A x \in given : x.revision = t.revision => Fits(x.main, t.password)
SecondAt(t) == \A x \in given : (x.revision = t.revision /\ x.extraOn = TRUE) => FitsSecond(x.extra, t.second)
(* It knows a DSH session by its number, and that session's password.       *)
Linked(t) == t.source <= issued /\ \A d \in sessions : d.kind = "dsh" /\ d.id = t.source => d.password = t.password

(* Versions only grow while no change is undone. *)
Grown ==
  undone = "no" =>
    /\ \A x \in given : x.main <= account.main /\ x.extra <= account.extra
    /\ \A x, y \in given : (x.main = y.main => x.password = y.password) /\ (x.extra = y.extra => x.second = y.second)
AccountsKnown ==
  /\ account \in given /\ given \subseteq Account
  /\ \A x \in given : x.revision <= account.revision
  /\ \A x, y \in given : x.revision = y.revision => x = y
  /\ Grown

SessionsKnown ==
  /\ sessions \subseteq Session /\ issued \in Nat
  /\ \A s \in sessions : s.id <= issued /\ Proved(s)
  /\ \A s \in sessions : s.kind = "management" => SecondKnown(s) /\ Linked(s)
  /\ \A s, t \in sessions : s.id = t.id => s = t

TokenKnown(t) ==
  /\ t \in {NoToken} \union Entrance \union Proof \union Leave \union Passage
  /\ t \in Entrance => Proved(t) /\ Linked(t)
  /\ t \in Proof => ProvedAt(t)
  /\ t \in Passage => ProvedAt(t) /\ SecondAt(t) /\ Linked(t)
  /\ t \in Leave =>
       /\ t.session <= issued
       /\ \A s \in sessions : s.id = t.session => s.kind = "management" /\ s.main = t.main /\ s.extra = t.extra
MoveKnown(t) ==
  /\ t \in {NoToken} \union Move
  /\ t \in Move => ProvedAt(t) /\ SecondAt(t) /\ Linked(t)

CallKnown(r) ==
  /\ r.at \in Steps
  /\ r.at # "idle" => r.a \in given
  /\ r.at = "code" => Fits(r.a.main, r.held.password)
  /\ r.at \in {"accept", "second"} =>
       r.held \in Entrance /\ r.held.main = r.a.main /\ Proved(r.held) /\ Linked(r.held)
  /\ r.at = "second" => r.a.extraOn = TRUE
  /\ r.at = "prepare" =>
       /\ r.held \in Session /\ r.held.main = r.a.main /\ r.held.extra = ExtraVersion(r.a)
       /\ Proved(r.held) /\ SecondKnown(r.held) /\ Linked(r.held)
  /\ r.at \in Underway =>
       /\ r = [at |-> r.at, a |-> r.a, held |-> r.held, change |-> r.change]
       /\ r.change \in Changes \union {"access"}
       /\ r.change = "access" =>
            /\ r.held \in Move /\ Linked(r.held) /\ Fits(r.a.main, r.held.password)
            /\ r.a.extraOn = TRUE => FitsSecond(r.a.extra, r.held.second)
CallsKnown ==
  /\ DOMAIN call = Calls
  /\ \A c \in Calls : CallKnown(call[c])
  /\ ChangesKept

AccessInv == AccountsKnown /\ SessionsKnown /\ TokenKnown(token) /\ MoveKnown(transition) /\ CallsKnown

(* A step that changes neither the account nor what a known session number  *)
(* stands for.                                                              *)
SessionsQuiet ==
  /\ issued' \in Nat /\ issued <= issued'
  /\ \A s \in sessions' :
       \/ s \in sessions
       \/ s.id > issued
       \/ s.kind = "dsh" /\ \E d \in sessions : d.kind = "dsh" /\ d.id = s.id /\ d.password = s.password
Quiet == account' = account /\ given' = given /\ SessionsQuiet

(* What was proved stays proved, ... *)
LEMMA QuietKeeps ==
  ASSUME Quiet, NEW t
  PROVE  /\ Proved(t) => Proved(t)'
         /\ SecondKnown(t) => SecondKnown(t)'
         /\ ProvedAt(t) => ProvedAt(t)'
         /\ SecondAt(t) => SecondAt(t)'
BY DEF Quiet, Proved, SecondKnown, ProvedAt, SecondAt, Fits, FitsSecond

(* ... and a number that is known stands for what it stood for: so tokens, ... *)
LEMMA LinkKept ==
  ASSUME SessionsQuiet, SessionsKnown, SessionsKnown', NEW t, t.source \in Nat, Linked(t)
  PROVE  Linked(t)'
<1>1. t.source <= issued'
  BY DEF SessionsQuiet, SessionsKnown, Linked
<1>2. ASSUME NEW d \in sessions', d.kind = "dsh", d.id = t.source PROVE d.password = t.password
  <2>1. ~(d.id > issued)
    BY <1>2 DEF SessionsKnown, Linked
  <2> QED
    BY <1>2, <2>1 DEF SessionsQuiet, Linked
<1> QED
  BY <1>1, <1>2 DEF Linked

LEMMA TokenKept ==
  ASSUME Quiet, SessionsKnown, SessionsKnown', NEW t, TokenKnown(t)
  PROVE  TokenKnown(t)'
<1>1. ASSUME t \in Entrance PROVE Proved(t)' /\ Linked(t)'
  BY <1>1, QuietKeeps, LinkKept DEF TokenKnown, Entrance, Quiet
<1>2. ASSUME t \in Proof PROVE ProvedAt(t)'
  BY <1>2, QuietKeeps DEF TokenKnown
<1>3. ASSUME t \in Passage PROVE ProvedAt(t)' /\ SecondAt(t)' /\ Linked(t)'
  BY <1>3, QuietKeeps, LinkKept DEF TokenKnown, Passage, Quiet
<1>4. ASSUME t \in Leave
      PROVE  /\ t.session <= issued'
             /\ \A s \in sessions' : s.id = t.session => s.kind = "management" /\ s.main = t.main /\ s.extra = t.extra
  <2>1. t.session \in Nat /\ t.session <= issued /\ issued \in Nat
    BY <1>4 DEF TokenKnown, Leave, SessionsKnown
  <2>2. t.session <= issued'
    BY <2>1 DEF Quiet, SessionsQuiet
  <2>3. ASSUME NEW s \in sessions', s.id = t.session PROVE s \in sessions
    <3>1. ~(s.id > issued)
      BY <2>1, <2>3
    <3>2. \A d \in sessions : d.id = t.session => d.kind = "management"
      BY <1>4 DEF TokenKnown
    <3> QED
      BY <2>3, <3>1, <3>2 DEF Quiet, SessionsQuiet
  <2> QED
    BY <1>4, <2>2, <2>3 DEF TokenKnown
<1> QED
  BY <1>1, <1>2, <1>3, <1>4 DEF TokenKnown

(* ... transitions ... *)
LEMMA MoveKept ==
  ASSUME Quiet, SessionsKnown, SessionsKnown', NEW t, MoveKnown(t)
  PROVE  MoveKnown(t)'
<1>1. ASSUME t \in Move PROVE ProvedAt(t)' /\ SecondAt(t)' /\ Linked(t)'
  BY <1>1, QuietKeeps, LinkKept DEF MoveKnown, Move, Quiet
<1> QED
  BY <1>1 DEF MoveKnown

(* ... and calls are as good as they were. *)
LEMMA CallKept ==
  ASSUME Quiet, SessionsKnown, SessionsKnown', NEW r, CallKnown(r)
  PROVE  CallKnown(r)'
<1>1. ASSUME r.at \in {"accept", "second"} PROVE Proved(r.held)' /\ Linked(r.held)'
  BY <1>1, QuietKeeps, LinkKept DEF CallKnown, Entrance, Quiet
<1>2. ASSUME r.at = "prepare" PROVE Proved(r.held)' /\ SecondKnown(r.held)' /\ Linked(r.held)'
  BY <1>2, QuietKeeps, LinkKept DEF CallKnown, Session, Quiet
<1>3. ASSUME r.at \in Underway, r.change = "access" PROVE Linked(r.held)'
  BY <1>3, LinkKept DEF CallKnown, Move, Quiet
<1> QED
  BY <1>1, <1>2, <1>3 DEF CallKnown, Quiet, Fits, FitsSecond

(* Sessions that go, ... *)
LEMMA SessionsGo ==
  ASSUME AccessInv, UNCHANGED <<account, given, issued>>, sessions' \subseteq sessions
  PROVE  Quiet /\ SessionsKnown'
<1>1. Quiet
  BY DEF Quiet, SessionsQuiet, AccessInv, SessionsKnown
<1>2. ASSUME NEW s \in sessions'
      PROVE  s.id <= issued' /\ Proved(s)' /\ (s.kind = "management" => SecondKnown(s)' /\ Linked(s)')
  <2>1. s \in sessions /\ s.source \in Nat
    BY DEF AccessInv, SessionsKnown, Session
  <2>2. Linked(s) => Linked(s)'
    BY DEF Linked
  <2> QED
    BY <1>1, <2>1, <2>2, QuietKeeps DEF AccessInv, SessionsKnown
<1> QED
  BY <1>1, <1>2 DEF AccessInv, SessionsKnown

(* ... and one that is issued to someone who proved what he had to.        *)
LEMMA SessionIssued ==
  ASSUME AccessInv, UNCHANGED <<account, given>>, NEW kind \in {"dsh", "management"},
         NEW a \in given, NEW source \in Nat, NEW password, NEW second \in Nat, Issue(kind, a, source, password, second),
         Fits(a.main, password),
         kind = "management" =>
            /\ a.extraOn = TRUE => FitsSecond(a.extra, second)
            /\ source <= issued
            /\ \A d \in sessions : d.kind = "dsh" /\ d.id = source => d.password = password
  PROVE  Quiet /\ SessionsKnown'
<1>1. issued' = issued + 1 /\ issued \in Nat
  BY DEF Issue, AccessInv, SessionsKnown
<1>2. a \in Account /\ ExtraVersion(a) \in Nat
  BY DEF AccessInv, AccountsKnown, Account, ExtraVersion
<1>3. PICK new \in Session :
        /\ sessions' = sessions \union {new}
        /\ new.id = issued' /\ new.kind = kind /\ new.main = a.main
        /\ new.password = password /\ new.source = source /\ new.extra = ExtraVersion(a) /\ new.second = second
  <2> DEFINE n == [kind |-> kind, id |-> issued + 1, main |-> a.main, access |-> a.access,
                   extra |-> ExtraVersion(a), source |-> source, password |-> password, second |-> second]
  <2>1. n \in Session
    <3>1. a.main \in Nat /\ a.access \in Nat /\ issued + 1 \in Nat /\ password \in Nat
      BY <1>1, <1>2 DEF Account, Fits, AccessInv, AccountsKnown
    <3> QED
      BY <1>2, <3>1 DEF Session
  <2>2. sessions' = sessions \union {n}
    BY DEF Issue
  <2> QED
    BY <1>1, <2>1, <2>2
<1>4. Quiet
  BY <1>1, <1>3 DEF Quiet, SessionsQuiet
<1>5. Proved(new)'
  BY <1>3 DEF Proved, Fits
<1>6. ASSUME kind = "management" PROVE SecondKnown(new)'
  <2>1. CASE a.extraOn = TRUE
    <3>1. new.extra = a.extra /\ new.second = second /\ FitsSecond(a.extra, second)
      BY <1>3, <1>6, <2>1 DEF ExtraVersion
    <3> QED
      BY <3>1 DEF SecondKnown, FitsSecond
  <2>2. CASE a.extraOn = FALSE
    <3>1. new.extra = 0
      BY <1>3, <2>2 DEF ExtraVersion
    <3> QED
      BY <3>1 DEF SecondKnown
  <2> QED
    BY <1>2, <2>1, <2>2 DEF Account
<1>7. ASSUME kind = "management" PROVE Linked(new)'
  <2>1. source <= issued'
    BY <1>1, <1>7
  <2>2. ASSUME NEW d \in sessions', d.kind = "dsh", d.id = source PROVE d.password = password
    BY <1>1, <1>3, <1>7, <2>2
  <2> QED
    BY <1>3, <2>1, <2>2 DEF Linked
<1>8. ASSUME NEW s \in sessions
      PROVE  s.id <= issued' /\ Proved(s)' /\ (s.kind = "management" => SecondKnown(s)' /\ Linked(s)')
  <2>1. s.source \in Nat /\ s.id \in Nat /\ s.id <= issued
    BY DEF AccessInv, SessionsKnown, Session
  <2>2. ASSUME Linked(s) PROVE Linked(s)'
    <3>1. s.source <= issued /\ s.source <= issued'
      BY <1>1, <2>1, <2>2 DEF Linked
    <3>2. ASSUME NEW d \in sessions', d.kind = "dsh", d.id = s.source PROVE d.password = s.password
      BY <1>1, <1>3, <2>1, <2>2, <3>1, <3>2 DEF Linked
    <3> QED
      BY <3>1, <3>2 DEF Linked
  <2>3. s.id <= issued'
    BY <1>1, <2>1
  <2> QED
    BY <1>4, <2>2, <2>3, QuietKeeps DEF AccessInv, SessionsKnown
<1>9. \A s, t \in sessions' : s.id = t.id => s = t
  <2>1. \A s \in sessions : s.id # new.id
    BY <1>1, <1>3 DEF AccessInv, SessionsKnown, Session
  <2> QED
    BY <1>3, <2>1 DEF AccessInv, SessionsKnown
<1>10. \A s \in sessions' : s.id <= issued' /\ Proved(s)' /\ (s.kind = "management" => SecondKnown(s)' /\ Linked(s)')
  <2>1. new.id <= issued'
    BY <1>1, <1>3
  <2> QED
    BY <1>1, <1>3, <1>5, <1>6, <1>7, <1>8, <2>1
<1>11. sessions' \subseteq Session /\ issued' \in Nat
  BY <1>1, <1>3 DEF AccessInv, SessionsKnown
<1> QED
  BY <1>4, <1>9, <1>10, <1>11 DEF SessionsKnown

(* What calls have read is known. *)
LEMMA KnownTypes ==
  ASSUME AccessInv
  PROVE  /\ account \in given /\ account \in Account
         /\ \A c \in Calls : Busy(c) => call[c].a \in given /\ call[c].a \in Account
BY DEF AccessInv, AccountsKnown, CallsKnown, CallKnown, Busy

(* What is left to show of a step of one call. *)
LEMMA QuietStep ==
  ASSUME AccessInv, UNCHANGED kept, NEW c \in Calls, NEW r, call' = [call EXCEPT ![c] = r],
         r.at = "checked" => r.a.revision = account.revision,
         Quiet, SessionsKnown', CallKnown(r)', TokenKnown(token)', MoveKnown(transition)'
  PROVE  AccessInv'
<1>1. DOMAIN call' = Calls /\ call'[c] = r /\ \A d \in Calls : d # c => call'[d] = call[d]
  BY DEF AccessInv, CallsKnown
<1>2. AccountsKnown'
  BY DEF AccessInv, AccountsKnown, Grown, kept
<1>3. ASSUME NEW d \in Calls PROVE CallKnown(call[d])'
  <2>1. CASE d = c
    BY <1>1, <2>1 DEF CallKnown, Proved, Linked, SecondKnown
  <2>2. CASE d # c
    <3>1. call'[d] = call[d] /\ CallKnown(call[d])
      BY <1>1, <2>2 DEF AccessInv, CallsKnown
    <3> DEFINE q == call[d]
    <3>2. CallKnown(q)
      BY <3>1
    <3> HIDE DEF q
    <3>3. QED
      BY <3>1, CallKept DEF AccessInv
  <2> QED
    BY <2>1, <2>2
<1>4. ChangesKept'
  BY <1>1 DEF AccessInv, CallsKnown, ChangesKept, CallAt, kept
<1>5. CallsKnown'
  BY <1>1, <1>3, <1>4 DEF CallsKnown
<1> QED
  BY <1>2, <1>5 DEF AccessInv

(* To hold nothing is to know nothing. *)
LEMMA NoneKnown == TokenKnown(NoToken) /\ MoveKnown(NoToken) /\ CallKnown(NoCall)
<1>1. NoToken \notin Entrance /\ NoToken \notin Proof /\ NoToken \notin Leave /\ NoToken \notin Passage /\ NoToken \notin Move
  BY DEF NoToken, Entrance, Proof, Leave, Passage, Move
<1>2. CallKnown(NoCall)
  BY DEF CallKnown, NoCall, Steps, Underway
<1> QED
  BY <1>1, <1>2 DEF TokenKnown, MoveKnown

(* What the token says, by its kind. *)
LEMMA TokenKinds ==
  ASSUME AccessInv
  PROVE  /\ token.kind \in {"handoff", "pending"} => token \in Entrance /\ Proved(token) /\ Linked(token)
         /\ token.kind = "challenge" => token \in Proof /\ ProvedAt(token)
         /\ token.kind = "continuation" => token \in Passage /\ ProvedAt(token) /\ SecondAt(token) /\ Linked(token)
         /\ token.kind = "capability" =>
              /\ token \in Leave /\ token.session <= issued
              /\ \A s \in sessions : s.id = token.session =>
                    s.kind = "management" /\ s.main = token.main /\ s.extra = token.extra
         /\ transition # NoToken =>
              transition \in Move /\ ProvedAt(transition) /\ SecondAt(transition) /\ Linked(transition)
<1>1. /\ token.kind \in {"handoff", "pending"} => token \in Entrance
      /\ token.kind = "challenge" => token \in Proof
      /\ token.kind = "continuation" => token \in Passage
      /\ token.kind = "capability" => token \in Leave
  <2>1. token \in {NoToken} \union Entrance \union Proof \union Leave \union Passage
    BY DEF AccessInv, TokenKnown
  <2> QED
    BY <2>1 DEF NoToken, Entrance, Proof, Leave, Passage
<1> QED
  BY <1>1 DEF AccessInv, TokenKnown, MoveKnown

(* A step of one call that changes no account and issues no session: what   *)
(* the call goes on with and the tokens it leaves are to be known.          *)
LEMMA CallStep ==
  ASSUME AccessInv, UNCHANGED <<kept, issued>>, sessions' \subseteq sessions,
         NEW c \in Calls, NEW r, call' = [call EXCEPT ![c] = r],
         r.at = "checked" => r.a.revision = account.revision, CallKnown(r),
         TokenKnown(token'), MoveKnown(transition')
  PROVE  AccessInv'
<1>1. UNCHANGED <<account, given, issued>>
  BY DEF kept
<1>2. Quiet /\ SessionsKnown' /\ SessionsKnown
  BY <1>1, SessionsGo DEF AccessInv
<1>3. CallKnown(r)'
  BY <1>2, CallKept
<1>4. TokenKnown(token)'
  BY <1>2, TokenKept
<1>5. MoveKnown(transition)'
  BY <1>2, MoveKept
<1> QED
  BY <1>2, <1>3, <1>4, <1>5, QuietStep

(* The same of a call that returns with a session. *)
LEMMA IssueStep ==
  ASSUME AccessInv, UNCHANGED <<kept, transition>>, token' \in {token, NoToken},
         NEW c \in Calls, Returns(c), Busy(c), NEW kind \in {"dsh", "management"},
         NEW a \in given, NEW source \in Nat, NEW password, NEW second \in Nat, Issue(kind, a, source, password, second),
         Fits(a.main, password),
         kind = "management" =>
            /\ a.extraOn = TRUE => FitsSecond(a.extra, second)
            /\ source <= issued
            /\ \A d \in sessions : d.kind = "dsh" /\ d.id = source => d.password = password
  PROVE  AccessInv'
<1>1. call' = [call EXCEPT ![c] = NoCall] /\ NoCall.at = "idle"
  BY DEF Returns, NoCall
<1>2. UNCHANGED <<account, given>>
  BY DEF kept
<1>3. Quiet /\ SessionsKnown' /\ SessionsKnown
  BY <1>2, SessionIssued DEF AccessInv
<1>4. CallKnown(NoCall)'
  BY <1>3, NoneKnown, CallKept
<1>5. TokenKnown(token)'
  BY <1>3, NoneKnown, TokenKept DEF AccessInv
<1>6. MoveKnown(transition)'
  BY <1>3, MoveKept DEF AccessInv
<1> QED
  BY <1>1, <1>3, <1>4, <1>5, <1>6, QuietStep

(* A call reads the account. *)
LEMMA ReadsKept ==
  ASSUME AccessInv, NEW c \in Calls, Reads(c)
  PROVE  AccessInv'
<1>1. PICK r : r = [at |-> "read", a |-> account]
  OBVIOUS
<1>2. CallKnown(r)
  BY <1>1, KnownTypes DEF CallKnown, Steps, Underway
<1> QED
  BY <1>1, <1>2, CallStep, KnownTypes DEF Reads, tokens, AccessInv

(* The password of the account that was read is that of its revision and version. *)
LEMMA LoginDshKept ==
  ASSUME AccessInv, NEW c \in Calls, LoginDsh(c)
  PROVE  AccessInv'
<1>1. Busy(c) /\ call[c].a \in given /\ call[c].a \in Account /\ Returns(c)
  BY KnownTypes DEF LoginDsh, CallAt, Busy
<1>2. PICK a \in Account : a = call[c].a
  BY <1>1
<1>3. CASE a.totp
  <2>1. PICK t \in Proof : t.revision = a.revision /\ t.password = a.password /\ token' = t
    BY <1>2, <1>3 DEF LoginDsh, Proof, Account
  <2>2. ProvedAt(t)
    BY <1>1, <1>2, <2>1 DEF ProvedAt, Fits, AccessInv, AccountsKnown, Account
  <2>3. TokenKnown(token')
    BY <2>1, <2>2 DEF TokenKnown, Entrance, Proof, Leave, Passage
  <2>4. UNCHANGED <<sessions, issued, kept, transition>>
    BY <1>2, <1>3 DEF LoginDsh
  <2> QED
    BY <1>1, <2>3, <2>4, CallStep, NoneKnown DEF Returns, NoCall, AccessInv
<1>4. CASE ~a.totp
  <2>1. Issue("dsh", a, 0, a.password, 0) /\ UNCHANGED <<token, kept, transition>>
    BY <1>2, <1>4 DEF LoginDsh
  <2>2. Fits(a.main, a.password) /\ 0 \in Nat
    BY <1>1, <1>2 DEF Fits
  <2> QED
    BY <1>1, <1>2, <2>1, <2>2, IssueStep
<1> QED
  BY <1>3, <1>4

(* The challenge is of the revision that was read, ... *)
LEMMA CheckChallengeKept ==
  ASSUME AccessInv, NEW c \in Calls, CheckChallenge(c)
  PROVE  AccessInv'
<1>1. Busy(c) /\ call[c].a \in given
  BY KnownTypes DEF CheckChallenge, CallAt, Busy
<1>2. UNCHANGED <<sessions, issued, kept, transition, token>>
  BY DEF CheckChallenge, tokens
<1>3. CASE token.kind = "challenge" /\ token.revision = call[c].a.revision /\ Awaits(c, "code", token)
  <2>1. PICK r : r = [at |-> "code", a |-> call[c].a, held |-> token]
    OBVIOUS
  <2>2. Fits(call[c].a.main, token.password)
    BY <1>1, <1>3, TokenKinds DEF ProvedAt
  <2>3. CallKnown(r)
    BY <1>1, <2>1, <2>2 DEF CallKnown, Steps, Underway
  <2> QED
    BY <1>1, <1>2, <1>3, <2>1, <2>3, CallStep DEF Awaits, AccessInv
<1>4. CASE Returns(c)
  BY <1>2, <1>4, CallStep, NoneKnown DEF Returns, NoCall, AccessInv
<1> QED
  BY <1>3, <1>4 DEF CheckChallenge

(* ... so its session is opened with the password of that revision. *)
LEMMA CompleteDshTotpKept ==
  ASSUME AccessInv, NEW c \in Calls, CompleteDshTotp(c)
  PROVE  AccessInv'
<1>1. Busy(c) /\ call[c].a \in given /\ Fits(call[c].a.main, call[c].held.password)
  <2>1. call[c].at = "code" /\ CallKnown(call[c])
    BY DEF CompleteDshTotp, CallAt, AccessInv, CallsKnown
  <2> QED
    BY <2>1, KnownTypes DEF Busy, CallKnown
<1>2. /\ UNCHANGED <<kept, transition>> /\ token' \in {token, NoToken} /\ Returns(c)
      /\ Issue("dsh", call[c].a, 0, call[c].held.password, 0)
  BY DEF CompleteDshTotp, Consumes
<1> QED
  BY <1>1, <1>2, IssueStep

(* A handoff carries the password of the DSH session. *)
LEMMA CreateHandoffKept ==
  ASSUME AccessInv, NEW c \in Calls, CreateHandoff(c)
  PROVE  AccessInv'
<1>1. Busy(c) /\ call[c].a \in given /\ call[c].a \in Account
  BY KnownTypes DEF CreateHandoff, CallAt, Busy
<1>2. PICK s \in sessions :
        /\ s.kind = "dsh" /\ Validate(s, call[c].a)
        /\ token' = IF Accepted(s, call[c].a, sessions) THEN HandoffOf(s, call[c].a) ELSE token
  BY DEF CreateHandoff
<1>3. sessions' \subseteq sessions /\ UNCHANGED <<kept, transition, issued>> /\ Returns(c)
  BY <1>2 DEF CreateHandoff, Validate
<1>4. TokenKnown(token')
  <2>1. CASE token' = token
    BY <2>1 DEF AccessInv
  <2>2. CASE token' = HandoffOf(s, call[c].a) /\ Accepted(s, call[c].a, sessions)
    <3>1. s \in Session /\ Proved(s) /\ s.main = call[c].a.main /\ s.id <= issued
      BY <2>2 DEF Accepted, SameVersions, AccessInv, SessionsKnown
    <3>2. PICK t \in Entrance : token' = t /\ t.main = s.main /\ t.source = s.id /\ t.password = s.password
      BY <1>1, <2>2, <3>1 DEF HandoffOf, Entrance, Session, Account
    <3>3. Proved(t)
      BY <3>1, <3>2 DEF Proved
    <3>4. Linked(t)
      BY <3>1, <3>2 DEF Linked, AccessInv, SessionsKnown
    <3> QED
      BY <3>2, <3>3, <3>4 DEF TokenKnown, Entrance, Proof, Leave, Passage
  <2> QED
    BY <1>2, <2>1, <2>2
<1> QED
  BY <1>3, <1>4, CallStep, NoneKnown DEF Returns, NoCall, AccessInv

(* It is taken under the same version of the password. *)
LEMMA TakeHandoffKept ==
  ASSUME AccessInv, NEW c \in Calls, TakeHandoff(c)
  PROVE  AccessInv'
<1>1. Busy(c) /\ call[c].a \in given
  BY KnownTypes DEF TakeHandoff, CallAt, Busy
<1>2. UNCHANGED <<sessions, issued, kept, transition>> /\ token' = NoToken
  BY DEF TakeHandoff
<1>3. CASE token.kind = "handoff" /\ HandoffFits(call[c].a) /\ Awaits(c, "accept", token)
  <2>1. PICK r : r = [at |-> "accept", a |-> call[c].a, held |-> token]
    OBVIOUS
  <2>2. token \in Entrance /\ Proved(token) /\ Linked(token) /\ token.main = call[c].a.main
    BY <1>3, TokenKinds DEF HandoffFits, SameVersions
  <2>3. CallKnown(r)
    BY <1>1, <2>1, <2>2 DEF CallKnown, Steps, Underway
  <2> QED
    BY <1>1, <1>2, <1>3, <2>1, <2>3, CallStep, NoneKnown DEF Awaits, AccessInv
<1>4. CASE Returns(c)
  BY <1>2, <1>4, CallStep, NoneKnown DEF Returns, NoCall, AccessInv
<1> QED
  BY <1>3, <1>4 DEF TakeHandoff

(* What is held by a call that waits for the second secret, or needs none. *)
LEMMA HeldEntrance ==
  ASSUME AccessInv, NEW c \in Calls, call[c].at \in {"accept", "second"}
  PROVE  /\ Busy(c) /\ call[c].a \in given /\ call[c].a \in Account
         /\ call[c].held \in Entrance /\ Proved(call[c].held) /\ Linked(call[c].held)
         /\ Fits(call[c].a.main, call[c].held.password)
         /\ call[c].held.source \in Nat /\ call[c].held.source <= issued
         /\ \A d \in sessions : d.kind = "dsh" /\ d.id = call[c].held.source => d.password = call[c].held.password
         /\ call[c].at = "second" => call[c].a.extraOn = TRUE
<1>1. Busy(c) /\ call[c].a \in given /\ call[c].a \in Account /\ CallKnown(call[c])
  BY KnownTypes DEF Busy, AccessInv, CallsKnown
<1>2. /\ call[c].held \in Entrance /\ Proved(call[c].held) /\ Linked(call[c].held) /\ call[c].held.main = call[c].a.main
      /\ call[c].at = "second" => call[c].a.extraOn = TRUE
  BY <1>1 DEF CallKnown
<1> QED
  BY <1>1, <1>2 DEF Proved, Linked, Entrance

(* It becomes a Management session, or waits for the second password. *)
LEMMA ManagementResultKept ==
  ASSUME AccessInv, NEW c \in Calls, ManagementResult(c)
  PROVE  AccessInv'
<1>1. call[c].at = "accept" /\ Returns(c) /\ UNCHANGED <<kept, transition>>
  BY DEF ManagementResult, CallAt
<1>2. CASE call[c].a.extraOn
  <2>1. token' = PendingOf(call[c].held) /\ UNCHANGED <<sessions, issued>>
    BY <1>2 DEF ManagementResult
  <2>1a. PICK h \in Entrance : h = call[c].held
    BY <1>1, HeldEntrance
  <2>1b. PICK n \in Entrance : /\ n = [kind |-> "pending", main |-> h.main, access |-> h.access, source |-> h.source,
                                      password |-> h.password]
    BY DEF Entrance
  <2>1c. [h EXCEPT !.kind = "pending"] = n
    BY <2>1b DEF Entrance
  <2>2. PICK t \in Entrance : /\ token' = t /\ t.main = call[c].held.main /\ t.source = call[c].held.source
                              /\ t.password = call[c].held.password
    BY <2>1, <2>1a, <2>1b, <2>1c DEF PendingOf
  <2>3. Proved(t) /\ Linked(t)
    BY <1>1, <2>2, HeldEntrance DEF Proved, Linked
  <2>4. TokenKnown(token')
    BY <2>2, <2>3 DEF TokenKnown, Entrance, Proof, Leave, Passage
  <2> QED
    BY <1>1, <2>1, <2>4, CallStep, NoneKnown DEF Returns, NoCall, AccessInv
<1>3. CASE ~call[c].a.extraOn
  <2>1. IssueManagement(call[c].a, call[c].held.source, call[c].held.password, 0) /\ UNCHANGED token
    BY <1>3 DEF ManagementResult
  <2>2. CASE UNCHANGED <<sessions, issued>>
    BY <1>1, <2>1, <2>2, CallStep, NoneKnown DEF Returns, NoCall, AccessInv
  <2>3. CASE Issue("management", call[c].a, call[c].held.source, call[c].held.password, 0)
    <3>1. call[c].a.extraOn = FALSE
      BY <1>1, <1>3, HeldEntrance DEF Account
    <3> QED
      BY <1>1, <2>1, <2>3, <3>1, HeldEntrance, IssueStep
  <2> QED
    BY <2>1, <2>2, <2>3 DEF IssueManagement
<1> QED
  BY <1>2, <1>3

(* The same of a login that waits. *)
LEMMA CheckPendingKept ==
  ASSUME AccessInv, NEW c \in Calls, CheckPending(c)
  PROVE  AccessInv'
<1>1. Busy(c) /\ call[c].a \in given /\ call[c].a \in Account
  BY KnownTypes DEF CheckPending, CallAt, Busy
<1>2. UNCHANGED <<sessions, issued, kept, transition>> /\ token' \in {token, NoToken}
  BY DEF CheckPending
<1>3. CASE token.kind = "pending" /\ call[c].a.extraOn /\ PendingFits(call[c].a) /\ Awaits(c, "second", token)
  <2>1. PICK r : r = [at |-> "second", a |-> call[c].a, held |-> token]
    OBVIOUS
  <2>2. token \in Entrance /\ Proved(token) /\ Linked(token) /\ token.main = call[c].a.main
    BY <1>3, TokenKinds DEF PendingFits, SameVersions
  <2>1a. call[c].a.extraOn = TRUE
    BY <1>1, <1>3 DEF Account
  <2>3. CallKnown(r)
    BY <1>1, <2>1, <2>2, <2>1a DEF CallKnown, Steps, Underway
  <2> QED
    BY <1>1, <1>2, <1>3, <2>1, <2>3, CallStep, NoneKnown DEF Awaits, AccessInv
<1>4. CASE Returns(c)
  BY <1>2, <1>4, CallStep, NoneKnown DEF Returns, NoCall, AccessInv
<1> QED
  BY <1>3, <1>4 DEF CheckPending

(* The second password of the account that was read was given. *)
LEMMA CompleteManagementLoginKept ==
  ASSUME AccessInv, NEW c \in Calls, CompleteManagementLogin(c)
  PROVE  AccessInv'
<1>1. /\ call[c].at = "second" /\ Returns(c) /\ UNCHANGED <<kept, transition>> /\ token' \in {token, NoToken}
      /\ IssueManagement(call[c].a, call[c].held.source, call[c].held.password, call[c].a.second)
  BY DEF CompleteManagementLogin, CallAt, Consumes
<1>2. CASE UNCHANGED <<sessions, issued>>
  BY <1>1, <1>2, CallStep, NoneKnown DEF Returns, NoCall, AccessInv
<1>3. CASE Issue("management", call[c].a, call[c].held.source, call[c].held.password, call[c].a.second)
  <2>1. call[c].a.second \in Nat
    BY <1>1, HeldEntrance DEF Account
  <2>2. call[c].a.extraOn = TRUE /\ FitsSecond(call[c].a.extra, call[c].a.second)
    BY <1>1, HeldEntrance DEF FitsSecond
  <2> QED
    BY <1>1, <1>3, <2>1, <2>2, HeldEntrance, IssueStep
<1> QED
  BY <1>1, <1>2, <1>3 DEF IssueManagement

(* A capability names a Management session. *)
LEMMA IssueCapabilityKept ==
  ASSUME AccessInv, NEW c \in Calls, IssueCapability(c)
  PROVE  AccessInv'
<1>1. Busy(c) /\ call[c].a \in given /\ call[c].a \in Account
  BY KnownTypes DEF IssueCapability, CallAt, Busy
<1>2. PICK s \in sessions :
        /\ s.kind = "management" /\ Validate(s, call[c].a)
        /\ token' = IF Accepted(s, call[c].a, sessions) THEN CapabilityOf(s, call[c].a) ELSE token
  BY DEF IssueCapability
<1>3. sessions' \subseteq sessions /\ UNCHANGED <<kept, transition, issued>> /\ Returns(c)
  BY <1>2 DEF IssueCapability, Validate
<1>4. TokenKnown(token')
  <2>1. CASE token' = token
    BY <2>1 DEF AccessInv
  <2>2. CASE token' = CapabilityOf(s, call[c].a) /\ Accepted(s, call[c].a, sessions)
    <3>1. /\ s \in Session /\ s.main = call[c].a.main /\ s.id <= issued /\ s.extra = ExtraVersion(call[c].a)
          /\ \A d \in sessions : d.id = s.id => d = s
      BY <1>2, <2>2 DEF Accepted, SameVersions, AccessInv, SessionsKnown
    <3>2. PICK t \in Leave : token' = t /\ t.main = s.main /\ t.session = s.id /\ t.extra = s.extra
      BY <1>1, <2>2, <3>1 DEF CapabilityOf, Leave, Session, Account
    <3> QED
      BY <1>2, <3>1, <3>2 DEF TokenKnown, Entrance, Proof, Leave, Passage
  <2> QED
    BY <1>2, <2>1, <2>2
<1> QED
  BY <1>3, <1>4, CallStep, NoneKnown DEF Returns, NoCall, AccessInv

(* A transition is prepared for the session the capability names, ... *)
LEMMA AuthorizeTransitionKept ==
  ASSUME AccessInv, NEW c \in Calls, AuthorizeTransition(c)
  PROVE  AccessInv'
<1>1. Busy(c) /\ call[c].a \in given /\ call[c].a \in Account
  BY KnownTypes DEF AuthorizeTransition, CallAt, Busy
<1>2. UNCHANGED <<sessions, issued, kept, transition>> /\ token' = NoToken
  BY DEF AuthorizeTransition
<1>3. CASE Authorized(call[c].a) /\ \E s \in sessions : s.id = token.session /\ Awaits(c, "prepare", s)
  <2>1. PICK s \in sessions : s.id = token.session /\ Awaits(c, "prepare", s)
    BY <1>3
  <2>2. PICK r : r = [at |-> "prepare", a |-> call[c].a, held |-> s]
    OBVIOUS
  <2>3. s.kind = "management" /\ s.main = call[c].a.main /\ s.extra = ExtraVersion(call[c].a)
    BY <1>3, <2>1, TokenKinds DEF Authorized, SameVersions
  <2>4. s \in Session /\ Proved(s) /\ SecondKnown(s) /\ Linked(s)
    BY <2>3 DEF AccessInv, SessionsKnown
  <2>5. CallKnown(r)
    BY <1>1, <2>2, <2>3, <2>4 DEF CallKnown, Steps, Underway
  <2> QED
    BY <1>1, <1>2, <2>1, <2>2, <2>5, CallStep, NoneKnown DEF Awaits, AccessInv
<1>4. CASE Returns(c)
  BY <1>2, <1>4, CallStep, NoneKnown DEF Returns, NoCall, AccessInv
<1> QED
  BY <1>3, <1>4 DEF AuthorizeTransition

(* ... and carries both passwords of its versions. *)
LEMMA CreateManagementTransitionKept ==
  ASSUME AccessInv, NEW c \in Calls, CreateManagementTransition(c)
  PROVE  AccessInv'
<1>1. call[c].at = "prepare" /\ Returns(c) /\ UNCHANGED <<kept, sessions, token, issued>>
  BY DEF CreateManagementTransition, CallAt
<1>2. PICK local \in BOOLEAN : transition' = TransitionOf(call[c].held, call[c].a, local)
  BY DEF CreateManagementTransition
<1>3. Busy(c) /\ call[c].a \in given /\ call[c].a \in Account /\ CallKnown(call[c])
  BY <1>1, KnownTypes DEF Busy, AccessInv, CallsKnown
<1>4. PICK a, s : a = call[c].a /\ s = call[c].held
  OBVIOUS
<1>5. /\ a \in given /\ a \in Account /\ s \in Session /\ s.main = a.main /\ s.extra = ExtraVersion(a)
      /\ Proved(s) /\ SecondKnown(s) /\ Linked(s)
  BY <1>1, <1>3, <1>4 DEF CallKnown
<1>6. PICK t \in Move : /\ transition' = t /\ t.revision = a.revision /\ t.source = s.source
                        /\ t.password = s.password /\ t.second = s.second
  BY <1>2, <1>4, <1>5 DEF TransitionOf, Move, Session, Account
<1>7. ProvedAt(t)
  BY <1>5, <1>6 DEF ProvedAt, Proved, AccessInv, AccountsKnown
<1>8. SecondAt(t)
  <2> SUFFICES ASSUME NEW x \in given, x.revision = t.revision, x.extraOn = TRUE
               PROVE  FitsSecond(x.extra, t.second)
    BY DEF SecondAt
  <2>1. x = a
    BY <1>5, <1>6 DEF AccessInv, AccountsKnown
  <2>2. s.extra = a.extra /\ s.extra # 0
    BY <1>5, <2>1 DEF ExtraVersion, Account
  <2> QED
    BY <1>5, <1>6, <2>1, <2>2 DEF SecondKnown
<1>9. MoveKnown(transition')
  BY <1>5, <1>6, <1>7, <1>8 DEF MoveKnown, Linked
<1> QED
  BY <1>1, <1>9, CallStep, NoneKnown DEF Returns, NoCall, AccessInv

(* A continuation becomes a Management session of the revision it was made at. *)
LEMMA ConsumeContinuationKept ==
  ASSUME AccessInv, NEW c \in Calls, ConsumeContinuation(c)
  PROVE  AccessInv'
<1>1. Busy(c) /\ call[c].a \in given /\ call[c].a \in Account
  BY KnownTypes DEF ConsumeContinuation, CallAt, Busy
<1>2. token.kind = "continuation" /\ Returns(c) /\ token' = NoToken /\ UNCHANGED <<kept, transition>>
  BY DEF ConsumeContinuation
<1>3. token \in Passage /\ ProvedAt(token) /\ SecondAt(token) /\ Linked(token)
  BY <1>2, TokenKinds
<1>4. CASE UNCHANGED <<sessions, issued>>
  BY <1>2, <1>4, CallStep, NoneKnown DEF Returns, NoCall, AccessInv
<1>5. CASE ContinuationFits(call[c].a) /\ Issue("management", call[c].a, token.source, token.password, token.second)
  <2>1. /\ Fits(call[c].a.main, token.password)
        /\ call[c].a.extraOn = TRUE => FitsSecond(call[c].a.extra, token.second)
        /\ token.source \in Nat /\ token.second \in Nat /\ token.source <= issued
        /\ \A d \in sessions : d.kind = "dsh" /\ d.id = token.source => d.password = token.password
    BY <1>1, <1>3, <1>5 DEF ContinuationFits, ProvedAt, SecondAt, Linked, Passage
  <2> QED
    BY <1>1, <1>2, <1>5, <2>1, IssueStep
<1> QED
  BY <1>4, <1>5 DEF ConsumeContinuation, IssueManagement

(* A change is decided on the account that was read, ... *)
LEMMA AuthorizeSettingsKept ==
  ASSUME AccessInv, NEW c \in Calls, NEW change \in Changes, AuthorizeSettings(c, change)
  PROVE  AccessInv'
<1>1. Busy(c) /\ call[c].a \in given
  BY KnownTypes DEF AuthorizeSettings, CallAt, Busy
<1>2. UNCHANGED <<sessions, issued, kept, transition>> /\ token' = NoToken
  BY DEF AuthorizeSettings
<1>3. CASE Works(c, change, [kind |-> "settings"])
  <2>1. PICK r : r = [at |-> "work", a |-> call[c].a, held |-> [kind |-> "settings"], change |-> change]
    OBVIOUS
  <2>2. CallKnown(r)
    BY <1>1, <2>1 DEF CallKnown, Steps, Underway, Changes
  <2> QED
    BY <1>1, <1>2, <1>3, <2>1, <2>2, CallStep, NoneKnown DEF Works, AccessInv
<1>4. CASE Returns(c)
  BY <1>2, <1>4, CallStep, NoneKnown DEF Returns, NoCall, AccessInv
<1> QED
  BY <1>3, <1>4 DEF AuthorizeSettings

(* ... in the root console too, ... *)
LEMMA AuthorizeRecoveryKept ==
  ASSUME AccessInv, NEW c \in Calls, NEW change \in Changes, AuthorizeRecovery(c, change)
  PROVE  AccessInv'
<1>1. Busy(c) /\ call[c].a \in given
  BY KnownTypes DEF AuthorizeRecovery, CallAt, Busy
<1>2. UNCHANGED <<sessions, issued, kept, transition, token>>
  BY DEF AuthorizeRecovery, tokens
<1>3. PICK r : r = [at |-> "work", a |-> call[c].a, held |-> [kind |-> "recovery"], change |-> change]
  OBVIOUS
<1>4. CallKnown(r)
  BY <1>1, <1>3 DEF CallKnown, Steps, Underway, Changes
<1> QED
  BY <1>1, <1>2, <1>3, <1>4, CallStep, NoneKnown DEF AuthorizeRecovery, Works, AccessInv

(* ... and with a transition of that revision. *)
LEMMA AuthorizeCommitKept ==
  ASSUME AccessInv, NEW c \in Calls, AuthorizeCommit(c)
  PROVE  AccessInv'
<1>1. Busy(c) /\ call[c].a \in given
  BY KnownTypes DEF AuthorizeCommit, CallAt, Busy
<1>2. UNCHANGED <<sessions, issued, kept>> /\ token' = NoToken /\ transition' \in {transition, NoToken}
  BY DEF AuthorizeCommit
<1>3. CASE TransitionFits(call[c].a, token.session) /\ Works(c, "access", transition)
  <2>1. PICK r : r = [at |-> "work", a |-> call[c].a, held |-> transition, change |-> "access"]
    OBVIOUS
  <2>2. transition \in Move /\ Linked(transition) /\ ProvedAt(transition) /\ SecondAt(transition)
    BY <1>3, TokenKinds DEF TransitionFits
  <2>3. /\ Fits(call[c].a.main, transition.password)
        /\ call[c].a.extraOn = TRUE => FitsSecond(call[c].a.extra, transition.second)
    BY <1>1, <1>3, <2>2 DEF TransitionFits, ProvedAt, SecondAt
  <2>4. CallKnown(r)
    BY <1>1, <2>1, <2>2, <2>3 DEF CallKnown, Steps, Underway
  <2> QED
    BY <1>1, <1>2, <1>3, <2>1, <2>4, CallStep, NoneKnown DEF Works, AccessInv
<1>4. CASE Returns(c)
  BY <1>2, <1>4, CallStep, NoneKnown DEF Returns, NoCall, AccessInv
<1> QED
  BY <1>3, <1>4 DEF AuthorizeCommit

(* What a call that changes the account has read and holds. *)
LEMMA UnderwayCall ==
  ASSUME AccessInv, NEW c \in Calls, call[c].at \in Underway
  PROVE  /\ Busy(c) /\ call[c].a \in given /\ call[c].a \in Account
         /\ call[c].change \in Changes \union {"access"}
         /\ \E at, a, held, change : call[c] = [at |-> at, a |-> a, held |-> held, change |-> change]
         /\ call[c].change = "access" =>
              /\ call[c].held \in Move /\ Linked(call[c].held) /\ Fits(call[c].a.main, call[c].held.password)
              /\ call[c].a.extraOn = TRUE => FitsSecond(call[c].a.extra, call[c].held.second)
<1>1. CallKnown(call[c]) /\ Busy(c)
  BY DEF Busy, Underway, AccessInv, CallsKnown
<1>2. PICK q : q = call[c]
  OBVIOUS
<1>3. q = [at |-> q.at, a |-> q.a, held |-> q.held, change |-> q.change]
  BY <1>1, <1>2 DEF CallKnown
<1>4. \E at, a, held, change : q = [at |-> at, a |-> a, held |-> held, change |-> change]
  BY <1>3, Zenon
<1> QED
  BY <1>1, <1>2, <1>4, KnownTypes DEF CallKnown

(* It is checked whatever other change is. *)
LEMMA CheckRevisionKept ==
  ASSUME AccessInv, NEW c \in Calls, CheckRevision(c)
  PROVE  AccessInv'
<1>1. call[c].at \in Underway
  BY DEF CheckRevision, CallAt, Underway
<1>2. UNCHANGED <<sessions, issued, kept, transition, token>>
  BY DEF CheckRevision, tokens
<1>3. CASE account.revision = call[c].a.revision /\ call' = [call EXCEPT ![c].at = "checked"]
  <2>1. PICK r : r = [at |-> "checked", a |-> call[c].a, held |-> call[c].held, change |-> call[c].change]
    OBVIOUS
  <2>2. call' = [call EXCEPT ![c] = r]
    <3>1. PICK at, a, held, change : call[c] = [at |-> at, a |-> a, held |-> held, change |-> change]
      BY <1>1, UnderwayCall
    <3>2. r = [at |-> "checked", a |-> a, held |-> held, change |-> change]
      BY <2>1, <3>1
    <3>3. [call[c] EXCEPT !.at = "checked"] = r
      BY <3>1, <3>2
    <3> QED
      BY <1>3, <3>3
  <2>3. CallKnown(r)
    BY <1>1, <1>3, <2>1, UnderwayCall DEF CallKnown, Steps, Underway
  <2>4. r.a.revision = account.revision /\ sessions' \subseteq sessions
    BY <1>2, <1>3, <2>1
  <2>5. TokenKnown(token') /\ MoveKnown(transition')
    BY <1>2 DEF AccessInv
  <2> QED
    BY <1>2, <2>2, <2>3, <2>4, <2>5, CallStep
<1>4. CASE Returns(c)
  BY <1>2, <1>4, CallStep, NoneKnown DEF Returns, NoCall, AccessInv
<1> QED
  BY <1>3, <1>4 DEF CheckRevision

(* Whoever changes a credential gives it a new version. *)
LEMMA ChangedAccount ==
  ASSUME NEW a \in Account, NEW n \in Nat, NEW change \in Changes \union {"access"}
  PROVE  \E b \in Account :
           /\ Changed(a, change, n) = b /\ b.revision = n
           /\ a.main <= b.main /\ (b.main = a.main => b.password = a.password)
           /\ a.extra <= b.extra /\ (b.extra = a.extra => b.second = a.second /\ b.extraOn = a.extraOn)
           /\ change = "access" => b.main = a.main /\ b.extra = a.extra
<1> DEFINE Rec(main, extra, reach, on, code, password, second) ==
             [revision |-> n, main |-> main, extra |-> extra, access |-> reach, extraOn |-> on, totp |-> code,
              password |-> password, second |-> second]
<1>1. a = [revision |-> a.revision, main |-> a.main, extra |-> a.extra, access |-> a.access, extraOn |-> a.extraOn,
           totp |-> a.totp, password |-> a.password, second |-> a.second]
  BY DEF Account
<1>2. /\ a.main \in Nat /\ a.extra \in Nat \ {0} /\ a.access \in Nat /\ a.password \in Nat /\ a.second \in Nat
  BY DEF Account
<1>2b. a.extraOn \in BOOLEAN /\ a.totp \in BOOLEAN
  BY DEF Account
<1>2c. (~a.totp) \in BOOLEAN
  <2>1. \A x \in BOOLEAN : (~x) \in BOOLEAN
    OBVIOUS
  <2> QED
    BY <1>2b, <2>1
<1>2a. a.extraOn \in BOOLEAN /\ a.totp \in BOOLEAN /\ (~a.totp) \in BOOLEAN
  BY <1>2b, <1>2c
<1>3. CASE change = "username"
  <2>1. Changed(a, change, n) = Rec(a.main, a.extra, a.access, a.extraOn, a.totp, a.password, a.second)
    BY <1>1, <1>3 DEF Changed
  <2> QED
    BY <1>2, <1>3, <1>2a, <2>1 DEF Account
<1>4. CASE change = "password"
  <2>1. Changed(a, change, n) = Rec(a.main + 1, a.extra, a.access, a.extraOn, a.totp, n, a.second)
    BY <1>1, <1>4 DEF Changed
  <2> QED
    BY <1>2, <1>4, <1>2a, <2>1 DEF Account
<1>5. CASE change = "extra"
  <2>1. Changed(a, change, n) = Rec(a.main, a.extra + 1, a.access, TRUE, a.totp, a.password, n)
    BY <1>1, <1>5 DEF Changed
  <2>2. PICK on \in BOOLEAN : on = (TRUE)
    BY <1>2a
  <2>3. Changed(a, change, n) = Rec(a.main, a.extra + 1, a.access, on, a.totp, a.password, n)
    BY <2>1, <2>2
  <2> QED
    BY <1>2, <1>5, <1>2a, <2>3 DEF Account
<1>6. CASE change = "extraOff"
  <2>1. Changed(a, change, n) = Rec(a.main, a.extra + 1, a.access, FALSE, a.totp, a.password, a.second)
    BY <1>1, <1>6 DEF Changed
  <2>2. PICK on \in BOOLEAN : on = (FALSE)
    BY <1>2a
  <2>3. Changed(a, change, n) = Rec(a.main, a.extra + 1, a.access, on, a.totp, a.password, a.second)
    BY <2>1, <2>2
  <2> QED
    BY <1>2, <1>6, <1>2a, <2>3 DEF Account
<1>7. CASE change = "totp"
  <2>1. Changed(a, change, n) = Rec(a.main, a.extra, a.access, a.extraOn, ~a.totp, a.password, a.second)
    BY <1>1, <1>7 DEF Changed
  <2>2. PICK on \in BOOLEAN : on = (~a.totp)
    BY <1>2a
  <2>3. Changed(a, change, n) = Rec(a.main, a.extra, a.access, a.extraOn, on, a.password, a.second)
    BY <2>1, <2>2
  <2> QED
    BY <1>2, <1>7, <1>2a, <2>3 DEF Account
<1>8. CASE change = "access"
  <2>1. Changed(a, change, n) = Rec(a.main, a.extra, a.access + 1, a.extraOn, a.totp, a.password, a.second)
    BY <1>1, <1>8 DEF Changed
  <2> QED
    BY <1>2, <1>8, <1>2a, <2>1 DEF Account
<1> QED
  BY <1>3, <1>4, <1>5, <1>6, <1>7, <1>8 DEF Changes

(* The account is replaced by a new one. *)
Replaced ==
  /\ account'.revision = account.revision + 1 /\ account' \in Account
  /\ given' = given \union {account'}
  /\ UNCHANGED <<sessions, issued>>

(* What was proved stays proved: no revision comes back. *)
LEMMA ReplacedKeeps ==
  ASSUME AccessInv, Replaced, NEW t
  PROVE  /\ Proved(t) => Proved(t)'
         /\ SecondKnown(t) => SecondKnown(t)'
         /\ t.revision \in Nat /\ ProvedAt(t) => ProvedAt(t)'
         /\ t.revision \in Nat /\ ProvedAt(t) /\ SecondAt(t) => SecondAt(t)'
         /\ Linked(t) => Linked(t)'
<1>1. account.revision \in Nat /\ account'.revision = account.revision + 1
  BY KnownTypes DEF Replaced, Account
<1>2. Proved(t) => Proved(t)'
  BY DEF Proved, Fits, Replaced
<1>3. SecondKnown(t) => SecondKnown(t)'
  BY DEF SecondKnown, FitsSecond, Replaced
<1>4. ASSUME t.revision \in Nat, ProvedAt(t)
      PROVE  ProvedAt(t)' /\ (SecondAt(t) => SecondAt(t)')
  <2>1. t.revision <= account'.revision /\ t.revision # account'.revision
    BY <1>1, <1>4 DEF ProvedAt
  <2> QED
    BY <1>4, <2>1 DEF ProvedAt, SecondAt, Replaced, Fits, FitsSecond
<1>5. Linked(t) => Linked(t)'
  BY DEF Linked, Replaced
<1> QED
  BY <1>2, <1>3, <1>4, <1>5

LEMMA ReplacedAccounts ==
  ASSUME AccessInv, Replaced, Grown'
  PROVE  AccountsKnown'
<1>1. account.revision \in Nat /\ account'.revision = account.revision + 1
  BY KnownTypes DEF Replaced, Account
<1>2. \A x \in given : x.revision \in Nat /\ x.revision <= account.revision
  BY DEF AccessInv, AccountsKnown, Account
<1>3. \A x \in given : x.revision <= account'.revision /\ x.revision # account'.revision
  BY <1>1, <1>2
<1>4. account'.revision <= account'.revision
  BY <1>1
<1> QED
  BY <1>3, <1>4 DEF AccessInv, AccountsKnown, Replaced

LEMMA ReplacedSessions ==
  ASSUME AccessInv, Replaced
  PROVE  SessionsKnown'
<1>1. ASSUME NEW s \in sessions
      PROVE  s.id <= issued' /\ Proved(s)' /\ (s.kind = "management" => SecondKnown(s)' /\ Linked(s)')
  <2>1. s.id <= issued /\ Proved(s)
    BY DEF AccessInv, SessionsKnown
  <2>2. s.kind = "management" => SecondKnown(s) /\ Linked(s)
    BY DEF AccessInv, SessionsKnown
  <2> QED
    BY <2>1, <2>2, ReplacedKeeps DEF Replaced
<1> QED
  BY <1>1 DEF AccessInv, SessionsKnown, Replaced

LEMMA ReplacedToken ==
  ASSUME AccessInv, Replaced, NEW t, TokenKnown(t)
  PROVE  TokenKnown(t)'
<1>1. ASSUME t \in Entrance PROVE Proved(t)' /\ Linked(t)'
  BY <1>1, ReplacedKeeps DEF TokenKnown, Entrance
<1>2. ASSUME t \in Proof PROVE ProvedAt(t)'
  BY <1>2, ReplacedKeeps DEF TokenKnown, Proof
<1>3. ASSUME t \in Passage PROVE ProvedAt(t)' /\ SecondAt(t)' /\ Linked(t)'
  BY <1>3, ReplacedKeeps DEF TokenKnown, Passage
<1> QED
  BY <1>1, <1>2, <1>3 DEF TokenKnown, Replaced

LEMMA ReplacedMove ==
  ASSUME AccessInv, Replaced, NEW t, MoveKnown(t)
  PROVE  MoveKnown(t)'
<1>1. ASSUME t \in Move PROVE ProvedAt(t)' /\ SecondAt(t)' /\ Linked(t)'
  BY <1>1, ReplacedKeeps DEF MoveKnown, Move
<1> QED
  BY <1>1 DEF MoveKnown

LEMMA ReplacedCall ==
  ASSUME AccessInv, Replaced, NEW r, CallKnown(r)
  PROVE  CallKnown(r)'
<1>1. ASSUME r.at \in {"accept", "second"} PROVE Proved(r.held)' /\ Linked(r.held)'
  BY <1>1, ReplacedKeeps DEF CallKnown, Entrance
<1>2. ASSUME r.at = "prepare" PROVE Proved(r.held)' /\ SecondKnown(r.held)' /\ Linked(r.held)'
  BY <1>2, ReplacedKeeps DEF CallKnown, Session
<1>3. ASSUME r.at \in Underway, r.change = "access" PROVE Linked(r.held)'
  BY <1>3, ReplacedKeeps DEF CallKnown
<1>4. /\ r.at # "idle" => r.a \in given'
      /\ r.at = "code" => Fits(r.a.main, r.held.password)'
      /\ r.at \in Underway /\ r.change = "access" =>
           /\ Fits(r.a.main, r.held.password)'
           /\ r.a.extraOn = TRUE => FitsSecond(r.a.extra, r.held.second)'
  BY DEF CallKnown, Replaced, Fits, FitsSecond
<1> QED
  BY <1>1, <1>2, <1>3, <1>4 DEF CallKnown

(* The account is replaced. *)
LEMMA WriteAccountKept ==
  ASSUME AccessInv, NEW c \in Calls, WriteAccount(c)
  PROVE  AccessInv'
<1>1. call[c].at = "checked" /\ call[c].at \in Underway /\ UNCHANGED <<sessions, token, transition, issued>>
  BY DEF WriteAccount, CallAt, Underway, tokens
<1>2. PICK a \in Account, n \in Nat, change \in Changes \union {"access"} :
        a = call[c].a /\ n = account.revision + 1 /\ change = call[c].change
  <2>1. call[c].a \in Account /\ call[c].change \in Changes \union {"access"}
    BY <1>1, UnderwayCall
  <2>2. account.revision + 1 \in Nat
    BY KnownTypes DEF Account
  <2> QED
    BY <2>1, <2>2
<1>3. PICK b \in Account :
        /\ Changed(a, change, n) = b /\ b.revision = n
        /\ a.main <= b.main /\ (b.main = a.main => b.password = a.password)
        /\ a.extra <= b.extra /\ (b.extra = a.extra => b.second = a.second /\ b.extraOn = a.extraOn)
        /\ change = "access" => b.main = a.main /\ b.extra = a.extra
  BY ChangedAccount
<1>4. account' = b /\ given' = given \union {b}
  BY <1>2, <1>3 DEF WriteAccount
<1>5. Replaced
  BY <1>1, <1>2, <1>3, <1>4 DEF Replaced
<1>6. PICK r : r = [at |-> "written", a |-> b, held |-> call[c].held, change |-> call[c].change]
  OBVIOUS
<1>7. DOMAIN call' = Calls /\ call'[c] = r /\ \A d \in Calls : d # c => call'[d] = call[d]
  <2>1. call' = [call EXCEPT ![c] = r]
    BY <1>4, <1>6 DEF WriteAccount
  <2> QED
    BY <2>1 DEF AccessInv, CallsKnown
<1>8. Grown'
  <2> SUFFICES ASSUME undone' = "no"
               PROVE  /\ \A x \in given' : x.main <= account'.main /\ x.extra <= account'.extra
                      /\ \A x, y \in given' : /\ x.main = y.main => x.password = y.password
                                              /\ x.extra = y.extra => x.second = y.second
    BY DEF Grown
  <2>1. undone = "no" /\ c \notin crossed
    BY DEF WriteAccount
  <2>2. a = account
    <3>1. call[c].a.revision = account.revision
      BY <1>1, <2>1 DEF AccessInv, CallsKnown, ChangesKept, CallAt
    <3> QED
      BY <1>1, <1>2, <3>1, UnderwayCall DEF AccessInv, AccountsKnown
  <2>3. \A x \in given : x.main <= a.main /\ x.extra <= a.extra
    BY <2>1, <2>2 DEF AccessInv, AccountsKnown, Grown
  <2>4. ASSUME NEW x \in given
        PROVE  /\ x.main <= b.main /\ x.extra <= b.extra
               /\ x.main = b.main => x.password = b.password
               /\ x.extra = b.extra => x.second = b.second
    <3>1. x \in Account /\ x.main <= a.main /\ x.extra <= a.extra
      BY <2>3 DEF AccessInv, AccountsKnown
    <3>2. /\ x.main \in Nat /\ x.extra \in Nat /\ a.main \in Nat /\ a.extra \in Nat
          /\ b.main \in Nat /\ b.extra \in Nat
      BY <3>1 DEF Account
    <3>3. x.main <= b.main /\ x.extra <= b.extra
      BY <1>3, <3>1, <3>2
    <3>4. /\ x.main = b.main => x.main = a.main /\ b.main = a.main
          /\ x.extra = b.extra => x.extra = a.extra /\ b.extra = a.extra
      BY <1>3, <3>1, <3>2
    <3>5. /\ x.main = a.main => x.password = a.password
          /\ x.extra = a.extra => x.second = a.second
      BY <2>1, <2>2 DEF AccessInv, AccountsKnown, Grown
    <3> QED
      BY <1>3, <3>3, <3>4, <3>5
  <2>5. b.main <= b.main /\ b.extra <= b.extra
    BY DEF Account
  <2>6. \A x, y \in given : /\ x.main = y.main => x.password = y.password
                            /\ x.extra = y.extra => x.second = y.second
    BY <2>1 DEF AccessInv, AccountsKnown, Grown
  <2> QED
    BY <1>4, <2>4, <2>5, <2>6
<1>9. CallKnown(r)'
  <2>1. r.change \in Changes \union {"access"}
    BY <1>1, <1>6, UnderwayCall
  <2>2. ASSUME r.change = "access"
        PROVE  /\ r.held \in Move /\ Linked(r.held)' /\ Fits(r.a.main, r.held.password)'
               /\ r.a.extraOn = TRUE => FitsSecond(r.a.extra, r.held.second)'
    <3>1. /\ r.held \in Move /\ Linked(r.held) /\ Fits(a.main, r.held.password)
          /\ a.extraOn = TRUE => FitsSecond(a.extra, r.held.second)
      BY <1>1, <1>2, <1>6, <2>2, UnderwayCall
    <3>2. r.a.main = a.main /\ r.a.extra = a.extra /\ r.a.extraOn = a.extraOn
      BY <1>2, <1>3, <1>6, <2>2
    <3>3. Linked(r.held)'
      BY <1>5, <3>1, ReplacedKeeps
    <3> QED
      BY <1>4, <3>1, <3>2, <3>3 DEF Fits, FitsSecond
  <2> QED
    BY <1>4, <1>6, <2>1, <2>2 DEF CallKnown, Steps, Underway
<1>10. CallsKnown'
  <2>1. ASSUME NEW d \in Calls PROVE CallKnown(call[d])'
    <3>1. CASE d = c
      BY <1>7, <1>9, <3>1 DEF CallKnown, Proved, Linked, SecondKnown
    <3>2. CASE d # c
      <4>1. PICK q : q = call[d] /\ CallKnown(q)
        BY DEF AccessInv, CallsKnown
      <4>2. CallKnown(q)'
        BY <1>5, <4>1, ReplacedCall
      <4> QED
        BY <1>7, <3>2, <4>1, <4>2 DEF CallKnown, Proved, Linked, SecondKnown
    <3> QED
      BY <3>1, <3>2
  <2>2. ChangesKept'
    <3> SUFFICES ASSUME NEW d \in Calls \ crossed', call'[d].at = "checked" PROVE FALSE
      BY DEF ChangesKept, CallAt
    <3>1. crossed' = (crossed \union {e \in Calls : CallAt(e, "checked")}) \ {c}
      BY DEF WriteAccount
    <3>2. d # c
      BY <1>6, <1>7
    <3> QED
      BY <1>7, <3>1, <3>2 DEF CallAt
  <2> QED
    BY <1>7, <2>1, <2>2 DEF CallsKnown
<1>11. TokenKnown(token)' /\ MoveKnown(transition)'
  <2>1. PICK t, m : t = token /\ m = transition
    OBVIOUS
  <2>2. TokenKnown(t)' /\ MoveKnown(m)'
    BY <1>5, <2>1, ReplacedToken, ReplacedMove DEF AccessInv
  <2> QED
    BY <1>1, <2>1, <2>2 DEF TokenKnown, MoveKnown, Proved, ProvedAt, SecondAt, Linked
<1> QED
  BY <1>5, <1>8, <1>10, <1>11, ReplacedAccounts, ReplacedSessions DEF AccessInv

(* Sessions are revoked. *)
LEMMA RevokeSessionsKept ==
  ASSUME AccessInv, NEW c \in Calls, RevokeSessions(c)
  PROVE  AccessInv'
<1>1. /\ UNCHANGED <<kept, transition, issued>> /\ sessions' \subseteq sessions
      /\ token' \in {token, NoToken} /\ Returns(c)
  BY DEF RevokeSessions
<1> QED
  BY <1>1, CallStep, NoneKnown DEF Returns, NoCall, AccessInv

(* The DSH session moves to the new version of the access, its password being of the version that is kept. *)
LEMMA CommitManagementTransitionKept ==
  ASSUME AccessInv, NEW c \in Calls, CommitManagementTransition(c)
  PROVE  AccessInv'
<1>1. /\ call[c].at = "written" /\ call[c].at \in Underway /\ call[c].change = "access"
      /\ Returns(c) /\ UNCHANGED <<kept, transition, issued>>
  BY DEF CommitManagementTransition, CallAt, Underway
<1>2. PICK a, t : a = call[c].a /\ t = call[c].held
  OBVIOUS
<1>3. /\ sessions' = {IF s.id = t.source THEN Refreshed(s, a) ELSE s : s \in {d \in sessions : d.kind = "dsh"}}
      /\ token' = ContinuationOf(t, a)
  BY <1>2 DEF CommitManagementTransition
<1>4. /\ a \in given /\ a \in Account /\ t \in Move /\ Linked(t) /\ Fits(a.main, t.password)
      /\ a.extraOn = TRUE => FitsSecond(a.extra, t.second)
  BY <1>1, <1>2, UnderwayCall
<1>5. ASSUME NEW s \in sessions, s.kind = "dsh", s.id = t.source
      PROVE  \E n \in Session : /\ Refreshed(s, a) = n /\ n.id = s.id /\ n.kind = "dsh" /\ n.password = s.password
                                /\ n.main = a.main /\ s.password = t.password
  <2>1. PICK q \in Session : q = s
    BY DEF AccessInv, SessionsKnown
  <2>1a. a.main \in Nat /\ a.access \in Nat
    BY <1>4 DEF Account
  <2>1b. Refreshed(q, a) \in Session
    BY <2>1a DEF Refreshed, Session
  <2>1c. Refreshed(q, a).id = q.id /\ Refreshed(q, a).kind = q.kind /\ Refreshed(q, a).password = q.password
    BY DEF Refreshed, Session
  <2>1d. Refreshed(q, a).main = a.main
    BY DEF Refreshed, Session
  <2>2. PICK n \in Session : /\ n = Refreshed(q, a) /\ n.id = q.id /\ n.kind = q.kind
                             /\ n.password = q.password /\ n.main = a.main
    BY <2>1b, <2>1c, <2>1d
  <2>3. s.password = t.password
    BY <1>4, <1>5 DEF Linked
  <2> QED
    BY <1>5, <2>1, <2>2, <2>3
<1>6. ASSUME NEW n \in sessions'
      PROVE  /\ n \in Session /\ n.kind = "dsh"
             /\ \E s \in sessions :
                  /\ s.kind = "dsh" /\ s.id = n.id /\ s.password = n.password
                  /\ n = s \/ (n.main = a.main /\ n.password = t.password)
                  /\ n = IF s.id = t.source THEN Refreshed(s, a) ELSE s
  <2>1. PICK s \in sessions : s.kind = "dsh" /\ n = IF s.id = t.source THEN Refreshed(s, a) ELSE s
    BY <1>3
  <2>2. CASE s.id = t.source
    BY <1>5, <2>1, <2>2
  <2>3. CASE s.id # t.source
    <3>1. n = s /\ n \in Session
      BY <2>1, <2>3 DEF AccessInv, SessionsKnown
    <3>2. s.kind = "dsh" /\ s.id = n.id /\ s.password = n.password
      BY <2>1, <3>1
    <3>3. n = IF s.id = t.source THEN Refreshed(s, a) ELSE s
      BY <2>1
    <3> QED
      BY <2>1, <3>1, <3>2, <3>3
  <2> QED
    BY <2>2, <2>3
<1>7. account' = account /\ given' = given
  BY <1>1 DEF kept
<1>8. Quiet
  BY <1>1, <1>6, <1>7 DEF Quiet, SessionsQuiet, AccessInv, SessionsKnown
<1>9. SessionsKnown'
  <2>1. ASSUME NEW n \in sessions' PROVE n.id <= issued' /\ Proved(n)'
    <3>1. PICK s \in sessions : s.id = n.id /\ (n = s \/ (n.main = a.main /\ n.password = t.password))
      BY <1>6
    <3>2. n.id <= issued'
      BY <1>1, <3>1 DEF AccessInv, SessionsKnown
    <3>3. Proved(n)
      BY <1>4, <3>1 DEF Proved, AccessInv, SessionsKnown, AccountsKnown
    <3> QED
      BY <1>8, <3>2, <3>3, QuietKeeps
  <2>2. \A n, m \in sessions' : n.id = m.id => n = m
    <3> SUFFICES ASSUME NEW n \in sessions', NEW m \in sessions', n.id = m.id PROVE n = m
      OBVIOUS
    <3>1. PICK s \in sessions : s.id = n.id /\ n = IF s.id = t.source THEN Refreshed(s, a) ELSE s
      BY <1>6
    <3>2. PICK d \in sessions : d.id = m.id /\ m = IF d.id = t.source THEN Refreshed(d, a) ELSE d
      BY <1>6
    <3>3. s = d
      BY <3>1, <3>2 DEF AccessInv, SessionsKnown
    <3> QED
      BY <3>1, <3>2, <3>3
  <2>3. \A n \in sessions' : n \in Session /\ n.kind = "dsh"
    BY <1>6
  <2> QED
    BY <1>1, <2>1, <2>2, <2>3 DEF SessionsKnown, AccessInv
<1>10. TokenKnown(token)'
  <2>1. PICK n \in Passage : /\ token' = n /\ n.revision = a.revision /\ n.source = t.source
                             /\ n.password = t.password /\ n.second = t.second
    BY <1>3, <1>4 DEF ContinuationOf, Passage, Move, Account
  <2>2. ProvedAt(n)
    BY <1>4, <2>1 DEF ProvedAt, AccessInv, AccountsKnown
  <2>3. SecondAt(n)
    BY <1>4, <2>1 DEF SecondAt, AccessInv, AccountsKnown
  <2>4. Linked(n)
    BY <1>4, <2>1 DEF Linked
  <2>5. TokenKnown(n)
    BY <2>2, <2>3, <2>4 DEF TokenKnown, Entrance, Proof, Leave, Passage
  <2>6. TokenKnown(n)'
    BY <1>8, <1>9, <2>5, TokenKept DEF AccessInv
  <2> QED
    BY <2>1, <2>6 DEF TokenKnown, Proved, ProvedAt, SecondAt, Linked
<1>11. MoveKnown(transition)'
  <2>1. PICK m : m = transition
    OBVIOUS
  <2>2. MoveKnown(m)'
    BY <1>8, <1>9, <2>1, MoveKept DEF AccessInv
  <2> QED
    BY <1>1, <2>1, <2>2 DEF MoveKnown, ProvedAt, SecondAt, Linked
<1>12. CallKnown(NoCall)'
  BY <1>8, <1>9, NoneKnown, CallKept DEF AccessInv
<1> QED
  BY <1>1, <1>8, <1>9, <1>10, <1>11, <1>12, QuietStep DEF Returns, NoCall

(* A step of no call: sessions go, and the transition is as good as it was. *)
LEMMA IdleStep ==
  ASSUME AccessInv, UNCHANGED <<kept, token, call, issued>>, sessions' \subseteq sessions, MoveKnown(transition')
  PROVE  AccessInv'
<1>1. UNCHANGED <<account, given, issued>>
  BY DEF kept
<1>2. Quiet /\ SessionsKnown' /\ SessionsKnown
  BY <1>1, SessionsGo DEF AccessInv
<1>3. PICK t, m : t = token /\ m = transition'
  OBVIOUS
<1>4. TokenKnown(t)' /\ MoveKnown(m)'
  BY <1>2, <1>3, TokenKept, MoveKept DEF AccessInv
<1>5. TokenKnown(token)' /\ MoveKnown(transition)'
  BY <1>3, <1>4 DEF TokenKnown, MoveKnown, Proved, ProvedAt, SecondAt, Linked
<1>6. AccountsKnown'
  BY DEF AccessInv, AccountsKnown, Grown, kept
<1>7. ASSUME NEW c \in Calls PROVE CallKnown(call[c])'
  <2>1. PICK r : r = call[c] /\ CallKnown(r)
    BY DEF AccessInv, CallsKnown
  <2>2. CallKnown(r)'
    BY <1>2, <2>1, CallKept
  <2> QED
    BY <2>1, <2>2 DEF CallKnown, Proved, SecondKnown, Linked
<1>8. CallsKnown'
  BY <1>7 DEF AccessInv, CallsKnown, ChangesKept, CallAt, kept
<1> QED
  BY <1>2, <1>5, <1>6, <1>8 DEF AccessInv

(* The transition is probed. *)
LEMMA ProbeKept ==
  ASSUME AccessInv, ProbeManagementTransition
  PROVE  AccessInv'
<1>1. transition \in Move /\ ProvedAt(transition) /\ SecondAt(transition) /\ Linked(transition)
  BY TokenKinds DEF ProbeManagementTransition
<1>2. PICK m \in Move : m = transition
  BY <1>1
<1>2b. PICK yes \in BOOLEAN : yes = TRUE
  OBVIOUS
<1>3. PICK n \in Move : n = [kind |-> m.kind, revision |-> m.revision, session |-> m.session, source |-> m.source,
                             password |-> m.password, second |-> m.second, probed |-> yes]
  BY DEF Move
<1>4. [m EXCEPT !.probed = yes] = n
  BY <1>3 DEF Move
<1>5. transition' = n /\ UNCHANGED <<kept, sessions, token, call, issued>>
  BY <1>2, <1>4, <1>2b DEF ProbeManagementTransition
<1>6. n.revision = m.revision /\ n.source = m.source /\ n.password = m.password /\ n.second = m.second
  BY <1>3
<1>7. MoveKnown(n)
  BY <1>1, <1>2, <1>6 DEF MoveKnown, ProvedAt, SecondAt, Linked
<1> QED
  BY <1>5, <1>7, IdleStep

(* The Access Manager restarts. *)
LEMMA RestartKept ==
  ASSUME AccessInv, RestartAccess
  PROVE  AccessInv'
<1>1. /\ sessions' = {} /\ call' = [c \in Calls |-> NoCall] /\ token' = NoToken /\ transition' = NoToken
      /\ account' = account /\ issued' = issued /\ given' = given /\ undone' = undone
  BY DEF RestartAccess
<1>3. Quiet /\ SessionsKnown' /\ SessionsKnown
  BY <1>1, SessionsGo DEF AccessInv
<1>4. AccountsKnown'
  BY <1>1 DEF AccessInv, AccountsKnown, Grown
<1>5. TokenKnown(NoToken)' /\ MoveKnown(NoToken)' /\ CallKnown(NoCall)'
  BY <1>3, NoneKnown, TokenKept, MoveKept, CallKept
<1>6. TokenKnown(token)' /\ MoveKnown(transition)'
  BY <1>1, <1>5 DEF TokenKnown, MoveKnown, Proved, ProvedAt, SecondAt, Linked
<1>7. ASSUME NEW c \in Calls PROVE CallKnown(call[c])' /\ call'[c].at # "checked"
  BY <1>1, <1>5 DEF CallKnown, Proved, SecondKnown, Linked, NoCall
<1> QED
  BY <1>1, <1>3, <1>4, <1>6, <1>7 DEF AccessInv, CallsKnown, ChangesKept, CallAt

(* It is so at first. *)
LEMMA AccessBegins == AccessInit => AccessInv
<1> SUFFICES ASSUME AccessInit PROVE AccessInv
  OBVIOUS
<1>1. PICK on \in BOOLEAN :
        account = [revision |-> 0, main |-> 1, extra |-> 1, access |-> 1, extraOn |-> on,
                   totp |-> on, password |-> 0, second |-> 0]
  BY DEF AccessInit
<1>2. /\ account \in Account /\ account.revision = 0 /\ account.main = 1 /\ account.extra = 1
      /\ account.password = 0 /\ account.second = 0
  BY <1>1 DEF Account
<1>3. given = {account}
  BY DEF AccessInit
<1>4. AccountsKnown
  BY <1>2, <1>3 DEF AccountsKnown, Grown
<1>5. PICK extra \in {0, 1} : extra = ExtraVersion(account)
  BY <1>2 DEF ExtraVersion
<1> DEFINE dsh == [kind |-> "dsh", id |-> 1, main |-> 1, access |-> 1, extra |-> extra, source |-> 0,
                   password |-> 0, second |-> 0]
<1> DEFINE management == [kind |-> "management", id |-> 2, main |-> 1, access |-> 1, extra |-> extra, source |-> 1,
                          password |-> 0, second |-> 0]
<1>5d. extra \in Nat
  BY <1>5
<1>5e. dsh \in Session
  BY <1>5d DEF Session
<1>5m. management \in Session
  BY <1>5d DEF Session
<1>5p. PICK d \in Session, m \in Session : d = dsh /\ m = management
  BY <1>5e, <1>5m
<1>6. /\ d = [kind |-> "dsh", id |-> 1, main |-> 1, access |-> 1, extra |-> extra, source |-> 0,
              password |-> 0, second |-> 0]
      /\ m = [kind |-> "management", id |-> 2, main |-> 1, access |-> 1, extra |-> extra, source |-> 1,
              password |-> 0, second |-> 0]
  BY <1>5p
<1>7. sessions = {d, m} /\ issued = 2
  BY <1>5, <1>6 DEF AccessInit
<1>8. SessionsKnown
  <2>1. Proved(d) /\ Proved(m) /\ SecondKnown(m)
    BY <1>2, <1>3, <1>5, <1>6 DEF Proved, SecondKnown, Fits, FitsSecond
  <2>2. Linked(m)
    BY <1>6, <1>7 DEF Linked
  <2>3. d.id = 1 /\ m.id = 2 /\ d.kind = "dsh"
    BY <1>6
  <2> QED
    BY <1>7, <2>1, <2>2, <2>3 DEF SessionsKnown
<1>9. TokenKnown(token) /\ MoveKnown(transition) /\ CallsKnown
  BY NoneKnown DEF AccessInit, CallsKnown, ChangesKept, CallAt, NoCall
<1> QED
  BY <1>4, <1>8, <1>9 DEF AccessInv

(* Sessions are accepted only with passwords of the versions in force, a version has one     *)
(* password unless a change was undone, and only a change that another crossed between its   *)
(* check and its rename is made to an account it was not decided on: whatever the calls do,  *)
(* and however they overlap.                                                                 *)
THEOREM AccountStaysGuarded == AccessSpec => []AccountGuarded
<1>1. AccessInit => AccessInv
  BY AccessBegins
<1>2. AccessInv /\ [AccessNext]_accessVars => AccessInv'
  <2> SUFFICES ASSUME AccessInv, [AccessNext]_accessVars PROVE AccessInv'
    OBVIOUS
  <2>1. CASE UNCHANGED accessVars
    BY <2>1, IdleStep DEF accessVars, AccessInv
  <2>2. ASSUME NEW c \in Calls, Reads(c) \/ Change(c) PROVE AccessInv'
    BY <2>2, ReadsKept, AuthorizeSettingsKept, AuthorizeRecoveryKept, AuthorizeCommitKept,
         CheckRevisionKept,
       WriteAccountKept, RevokeSessionsKept, CommitManagementTransitionKept DEF Change
  <2>3. ASSUME NEW c \in Calls, Browse(c) PROVE AccessInv'
    BY <2>3, LoginDshKept, CheckChallengeKept, CompleteDshTotpKept, CreateHandoffKept, TakeHandoffKept,
       ManagementResultKept, CheckPendingKept, CompleteManagementLoginKept, IssueCapabilityKept,
       AuthorizeTransitionKept, CreateManagementTransitionKept, ConsumeContinuationKept DEF Browse
  <2>4. CASE ValidateSession
    BY <2>4, IdleStep DEF ValidateSession, Validate, tokens, AccessInv
  <2>5. CASE Revoke \/ Prune \/ ClearSessions
    <3>1. UNCHANGED <<kept, token, transition, call, issued>> /\ sessions' \subseteq sessions
      BY <2>5 DEF Revoke, Prune, ClearSessions, tokens
    <3> QED
      BY <3>1, IdleStep DEF AccessInv
  <2> QED
    BY <2>1, <2>2, <2>3, <2>4, <2>5, ProbeKept, RestartKept DEF AccessNext
<1>3. AccessInv => AccountGuarded
  <2> SUFFICES ASSUME AccessInv PROVE AccountGuarded
    OBVIOUS
  <2>1. account \in Account
    BY KnownTypes
  <2>2. PasswordProved
    BY DEF PasswordProved, SameVersions, AccessInv, SessionsKnown, Proved, Fits
  <2>3. SecondProved
    BY <2>1 DEF SecondProved, Accepted, ExtraVersion, AccessInv, SessionsKnown, SecondKnown, FitsSecond, Account
  <2>4. VersionsOnce /\ ChangesKept
    BY DEF VersionsOnce, AccessInv, AccountsKnown, Grown, CallsKnown
  <2> QED
    BY <2>2, <2>3, <2>4 DEF AccountGuarded
<1> QED
  BY <1>1, <1>2, <1>3, PTL DEF AccessSpec

------------------------------------------------------------------------------
(* How fast passwords can be tried. *)

LoginOf == [source : Sources, counted : BOOLEAN]
VerifiedFor(s) == {l \in Logins : verifying[l].source = s}
LimitTypes ==
  /\ failures \in [Sources -> Seq(Nat)] /\ allFailures \in Seq(Nat)
  /\ verifying \in [Logins -> LoginOf \union {NoLogin}]

(* Every login that is being verified had room for one more failure when it *)
(* was admitted, and no more of them are verified at a time than may be.    *)
RoomKnown ==
  /\ IsFiniteSet(Verifying) /\ Cardinality(Verifying) <= MaxConcurrent
  /\ Len(allFailures) + Cardinality(Verifying) < GlobalLimit + MaxConcurrent
  /\ \A s \in Sources : Len(failures[s]) + Cardinality(VerifiedFor(s)) < SourceLimit + MaxConcurrent
LimitsKnown == LimitTypes /\ RoomKnown

LEMMA YoungerIsShorter ==
  ASSUME NEW ages \in Seq(Nat)
  PROVE  Younger(ages) \in Seq(Nat) /\ Len(Younger(ages)) <= Len(ages)
<1> DEFINE young == Cardinality({i \in DOMAIN ages : ages[i] + 1 < Window})
<1>1. IsFiniteSet(1 .. Len(ages)) /\ Cardinality(1 .. Len(ages)) = Len(ages)
  <2>1. Len(ages) \in Nat /\ 1 \in Int /\ Len(ages) \in Int
    OBVIOUS
  <2>2. /\ IsFiniteSet(1 .. Len(ages))
        /\ Cardinality(1 .. Len(ages)) = IF 1 > Len(ages) THEN 0 ELSE Len(ages) - 1 + 1
    BY <2>1, FS_Interval, Zenon
  <2> QED
    BY <2>1, <2>2
<1>2. young \in Nat /\ young <= Len(ages)
  <2>1. {i \in DOMAIN ages : ages[i] + 1 < Window} \subseteq 1 .. Len(ages)
    OBVIOUS
  <2>2. IsFiniteSet({i \in DOMAIN ages : ages[i] + 1 < Window})
        /\ Cardinality({i \in DOMAIN ages : ages[i] + 1 < Window}) <= Cardinality(1 .. Len(ages))
    BY <1>1, <2>1, FS_Subset
  <2> QED
    BY <1>1, <2>2, FS_CardinalityType
<1>3. Younger(ages) = [i \in 1 .. young |-> ages[Len(ages) - young + i] + 1]
  BY DEF Younger
<1> HIDE DEF young
<1>4. \A i \in 1 .. young : ages[Len(ages) - young + i] + 1 \in Nat
  BY <1>2
<1> QED
  BY <1>2, <1>3, <1>4

LEMMA LimitsStart == ASSUME LimitInit PROVE LimitsKnown
<1> USE LimitAssumption
<1>1. LimitTypes
  BY DEF LimitInit, LimitTypes
<1>2. Verifying = {} /\ \A s \in Sources : VerifiedFor(s) = {}
  BY DEF LimitInit, Verifying, VerifiedFor, NoLogin
<1>3. IsFiniteSet({}) /\ Cardinality({}) = 0
  BY FS_EmptySet
<1>4. Len(allFailures) = 0 /\ \A s \in Sources : Len(failures[s]) = 0
  BY DEF LimitInit
<1>5. Cardinality(Verifying) = 0 /\ \A s \in Sources : Cardinality(VerifiedFor(s)) = 0
  BY <1>2, <1>3
<1> QED
  BY <1>1, <1>2, <1>3, <1>4, <1>5 DEF LimitsKnown, RoomKnown

(* How many are verified for a source is at most how many are verified.     *)
LEMMA VerifiedForFew ==
  ASSUME LimitTypes, IsFiniteSet(Verifying), NEW s \in Sources
  PROVE  /\ VerifiedFor(s) \subseteq Verifying /\ IsFiniteSet(VerifiedFor(s))
         /\ Cardinality(VerifiedFor(s)) \in Nat /\ Cardinality(Verifying) \in Nat
         /\ Cardinality(VerifiedFor(s)) <= Cardinality(Verifying)
<1>1. VerifiedFor(s) \subseteq Verifying
  BY LimitAssumption DEF VerifiedFor, Verifying, NoLogin
<1> QED
  BY <1>1, FS_Subset, FS_CardinalityType

LEMMA EnterKeepsRoom ==
  ASSUME LimitsKnown, NEW s \in Sources, Enter(s)
  PROVE  LimitsKnown'
<1> USE LimitAssumption
<1>1. PICK l \in Logins \ Verifying :
        verifying' = [verifying EXCEPT ![l] = [source |-> s, counted |-> TRUE]]
  BY DEF Enter
<1>2. UNCHANGED <<failures, allFailures>> /\ Admissible(s)
  BY DEF Enter
<1>3. LimitTypes'
  <2>1. [source |-> s, counted |-> TRUE] \in LoginOf
    BY DEF LoginOf
  <2> QED
    BY <1>1, <1>2, <2>1 DEF LimitsKnown, LimitTypes
<1>4. Verifying' = Verifying \union {l}
  BY <1>1 DEF LimitsKnown, LimitTypes, Verifying, NoLogin
<1>5. IsFiniteSet(Verifying') /\ Cardinality(Verifying') = Cardinality(Verifying) + 1
  BY <1>1, <1>4, FS_AddElement DEF LimitsKnown, RoomKnown
<1>6. Cardinality(Verifying) \in Nat
  BY FS_CardinalityType DEF LimitsKnown, RoomKnown
<1>7. Cardinality(Verifying') <= MaxConcurrent
  BY <1>2, <1>5, <1>6 DEF Admissible
<1>8. Len(allFailures') + Cardinality(Verifying') < GlobalLimit + MaxConcurrent
  BY <1>2, <1>5, <1>6, <1>7 DEF Admissible, LimitsKnown, LimitTypes
<1>9. ASSUME NEW t \in Sources
      PROVE  Len(failures'[t]) + Cardinality(VerifiedFor(t)') < SourceLimit + MaxConcurrent
  <2>1. CASE t = s
    <3>1. Cardinality(VerifiedFor(s)') \in Nat /\ Cardinality(VerifiedFor(s)') <= Cardinality(Verifying')
      <4>1. VerifiedFor(s)' \subseteq Verifying'
        BY <1>3 DEF LimitTypes, VerifiedFor, Verifying, NoLogin
      <4> QED
        BY <4>1, <1>5, FS_Subset, FS_CardinalityType
    <3> QED
      BY <2>1, <3>1, <1>2, <1>5, <1>6, <1>7 DEF Admissible, LimitsKnown, LimitTypes
  <2>2. CASE t # s
    <3>1. VerifiedFor(t)' = VerifiedFor(t)
      BY <1>1, <2>2 DEF LimitsKnown, LimitTypes, VerifiedFor, Verifying, NoLogin
    <3> QED
      BY <3>1, <1>2 DEF LimitsKnown, RoomKnown
  <2> QED
    BY <2>1, <2>2
<1> QED
  BY <1>3, <1>5, <1>7, <1>8, <1>9 DEF LimitsKnown, RoomKnown

(* What is dropped changes neither who is verified nor for whom.            *)
LEMMA DroppedKeepsSources ==
  ASSUME LimitTypes, NEW sources \in SUBSET Sources
  PROVE  /\ Dropped(sources) \in [Logins -> LoginOf \union {NoLogin}]
         /\ \A l \in Logins : /\ Dropped(sources)[l].source = verifying[l].source
                              /\ Dropped(sources)[l] = NoLogin <=> verifying[l] = NoLogin
<1> USE LimitAssumption
<1>1. ASSUME NEW l \in Logins
      PROVE  /\ Dropped(sources)[l] \in LoginOf \union {NoLogin}
             /\ Dropped(sources)[l].source = verifying[l].source
             /\ Dropped(sources)[l] = NoLogin <=> verifying[l] = NoLogin
  <2>1. CASE verifying[l] = NoLogin
    BY <2>1 DEF Dropped, NoLogin
  <2>2. CASE verifying[l] # NoLogin
    <3>1. verifying[l] \in LoginOf
      BY <2>2 DEF LimitTypes
    <3>2. [verifying[l] EXCEPT !.counted = FALSE] \in LoginOf
      BY <3>1 DEF LoginOf
    <3>3. [verifying[l] EXCEPT !.counted = FALSE].source = verifying[l].source
      BY <3>1 DEF LoginOf
    <3>4. \A v \in LoginOf : v # NoLogin
      BY DEF LoginOf, NoLogin
    <3> QED
      BY <2>2, <3>1, <3>2, <3>3, <3>4 DEF Dropped
  <2> QED
    BY <2>1, <2>2
<1> QED
  BY <1>1 DEF Dropped

(* A login that is released leaves the others as they are.                  *)
LEMMA ReleasedLeaves ==
  ASSUME LimitsKnown, NEW l \in Verifying, LimitTypes',
         \A k \in Logins : k # l => /\ verifying'[k].source = verifying[k].source
                                    /\ verifying'[k] = NoLogin <=> verifying[k] = NoLogin,
         verifying'[l] = NoLogin
  PROVE  /\ verifying[l] \in LoginOf
         /\ IsFiniteSet(Verifying') /\ Cardinality(Verifying') = Cardinality(Verifying) - 1
         /\ \A t \in Sources :
              Cardinality(VerifiedFor(t)')
                = Cardinality(VerifiedFor(t)) - (IF t = verifying[l].source THEN 1 ELSE 0)
<1> USE LimitAssumption
<1>1. verifying[l] \in LoginOf /\ l \in Logins
  BY DEF LimitsKnown, LimitTypes, Verifying
<1>2. Verifying' = Verifying \ {l}
  BY <1>1 DEF Verifying
<1>3. IsFiniteSet(Verifying') /\ Cardinality(Verifying') = Cardinality(Verifying) - 1
  BY <1>2, FS_RemoveElement DEF LimitsKnown, RoomKnown
<1>4. ASSUME NEW t \in Sources
      PROVE  Cardinality(VerifiedFor(t)')
               = Cardinality(VerifiedFor(t)) - (IF t = verifying[l].source THEN 1 ELSE 0)
  <2>1. VerifiedFor(t)' = VerifiedFor(t) \ {l}
    BY <1>1 DEF VerifiedFor, NoLogin
  <2>2. IsFiniteSet(VerifiedFor(t)) /\ Cardinality(VerifiedFor(t)) \in Nat
    BY VerifiedForFew DEF LimitsKnown, RoomKnown
  <2>3. CASE t = verifying[l].source
    BY <2>1, <2>2, <2>3, <1>1, FS_RemoveElement DEF VerifiedFor
  <2>4. CASE t # verifying[l].source
    <3>1. VerifiedFor(t)' = VerifiedFor(t)
      BY <2>1, <2>4 DEF VerifiedFor
    <3> QED
      BY <2>2, <2>4, <3>1
  <2> QED
    BY <2>3, <2>4
<1> QED
  BY <1>1, <1>3, <1>4

LEMMA ReleaseFailedKeepsRoom ==
  ASSUME LimitsKnown, NEW l \in Verifying, ReleaseFailed(l)
  PROVE  LimitsKnown'
<1> USE LimitAssumption
<1>1. verifying[l] \in LoginOf /\ l \in Logins
  BY DEF LimitsKnown, LimitTypes, Verifying
<1>2. PICK s \in Sources : s = verifying[l].source
  BY <1>1 DEF LoginOf
<1>3. PICK longer \in Seq(Nat) :
        /\ longer = (IF verifying[l].counted THEN Append(failures[s], 0) ELSE failures[s])
        /\ Len(longer) <= Len(failures[s]) + 1
  <2>1. failures[s] \in Seq(Nat)
    BY DEF LimitsKnown, LimitTypes
  <2>2. Append(failures[s], 0) \in Seq(Nat) /\ Len(Append(failures[s], 0)) <= Len(failures[s]) + 1
    BY <2>1
  <2>3. Len(failures[s]) <= Len(failures[s]) + 1
    BY <2>1
  <2> QED
    BY <2>1, <2>2, <2>3
<1>4. failures' = [failures EXCEPT ![s] = longer]
  BY <1>2, <1>3 DEF ReleaseFailed
<1>5. allFailures' = Append(allFailures, 0) /\ verifying' = [verifying EXCEPT ![l] = NoLogin]
  BY DEF ReleaseFailed
<1>6. LimitTypes'
  <2>1. allFailures' \in Seq(Nat)
    BY <1>5 DEF LimitsKnown, LimitTypes
  <2>2. failures' \in [Sources -> Seq(Nat)]
    BY <1>3, <1>4 DEF LimitsKnown, LimitTypes
  <2>3. verifying' \in [Logins -> LoginOf \union {NoLogin}]
    BY <1>1, <1>5 DEF LimitsKnown, LimitTypes
  <2> QED
    BY <2>1, <2>2, <2>3 DEF LimitTypes
<1>7. /\ IsFiniteSet(Verifying') /\ Cardinality(Verifying') = Cardinality(Verifying) - 1
      /\ \A t \in Sources :
           Cardinality(VerifiedFor(t)') = Cardinality(VerifiedFor(t)) - (IF t = s THEN 1 ELSE 0)
  BY <1>1, <1>2, <1>5, <1>6, ReleasedLeaves DEF LimitsKnown, LimitTypes
<1>8. Cardinality(Verifying) \in Nat /\ \A t \in Sources : Cardinality(VerifiedFor(t)) \in Nat
  BY <1>1, VerifiedForFew, FS_CardinalityType DEF LimitsKnown, RoomKnown
<1>9. /\ Cardinality(Verifying') <= MaxConcurrent
      /\ Len(allFailures') + Cardinality(Verifying') < GlobalLimit + MaxConcurrent
  BY <1>5, <1>7, <1>8 DEF LimitsKnown, LimitTypes, RoomKnown
<1>10. ASSUME NEW t \in Sources
       PROVE  Len(failures'[t]) + Cardinality(VerifiedFor(t)') < SourceLimit + MaxConcurrent
  <2>1. Len(failures[t]) \in Nat /\ Len(failures[t]) + Cardinality(VerifiedFor(t)) < SourceLimit + MaxConcurrent
    BY DEF LimitsKnown, LimitTypes, RoomKnown
  <2>2. CASE t = s
    <3>1. failures'[t] = longer
      BY <1>4, <2>2 DEF LimitsKnown, LimitTypes
    <3> QED
      BY <1>3, <1>7, <1>8, <2>1, <2>2, <3>1
  <2>3. CASE t # s
    <3>1. failures'[t] = failures[t]
      BY <1>4, <2>3 DEF LimitsKnown, LimitTypes
    <3> QED
      BY <1>7, <1>8, <2>1, <2>3, <3>1
  <2> QED
    BY <2>2, <2>3
<1> QED
  BY <1>6, <1>7, <1>9, <1>10 DEF LimitsKnown, RoomKnown

LEMMA ReleaseSucceededKeepsRoom ==
  ASSUME LimitsKnown, NEW l \in Verifying, ReleaseSucceeded(l)
  PROVE  LimitsKnown'
<1> USE LimitAssumption
<1>1. verifying[l] \in LoginOf /\ l \in Logins
  BY DEF LimitsKnown, LimitTypes, Verifying
<1>2. PICK s \in Sources : s = verifying[l].source
  BY <1>1 DEF LoginOf
<1>3. failures' = [failures EXCEPT ![s] = << >>] /\ allFailures' = allFailures
  BY <1>2 DEF ReleaseSucceeded
<1>4. PICK left \in [Logins -> LoginOf \union {NoLogin}] :
        /\ left = Dropped({s})
        /\ \A k \in Logins : /\ left[k].source = verifying[k].source
                             /\ left[k] = NoLogin <=> verifying[k] = NoLogin
  BY DroppedKeepsSources DEF LimitsKnown
<1>5. verifying' = [left EXCEPT ![l] = NoLogin]
  BY <1>2, <1>4 DEF ReleaseSucceeded
<1>6. LimitTypes'
  <2>1. allFailures' \in Seq(Nat)
    BY <1>3 DEF LimitsKnown, LimitTypes
  <2>2. failures' \in [Sources -> Seq(Nat)]
    <3>1. << >> \in Seq(Nat)
      OBVIOUS
    <3> QED
      BY <1>3, <3>1 DEF LimitsKnown, LimitTypes
  <2>3. verifying' \in [Logins -> LoginOf \union {NoLogin}]
    BY <1>4, <1>5
  <2> QED
    BY <2>1, <2>2, <2>3 DEF LimitTypes
<1>7. /\ IsFiniteSet(Verifying') /\ Cardinality(Verifying') = Cardinality(Verifying) - 1
      /\ \A t \in Sources :
           Cardinality(VerifiedFor(t)') = Cardinality(VerifiedFor(t)) - (IF t = s THEN 1 ELSE 0)
  BY <1>1, <1>2, <1>4, <1>5, <1>6, ReleasedLeaves
<1>8. Cardinality(Verifying) \in Nat /\ \A t \in Sources :
        Cardinality(VerifiedFor(t)) \in Nat /\ Cardinality(VerifiedFor(t)) <= Cardinality(Verifying)
  BY VerifiedForFew, FS_CardinalityType DEF LimitsKnown, RoomKnown
<1>9. /\ Cardinality(Verifying') <= MaxConcurrent
      /\ Len(allFailures') + Cardinality(Verifying') < GlobalLimit + MaxConcurrent
  BY <1>3, <1>7, <1>8 DEF LimitsKnown, LimitTypes, RoomKnown
<1>10. ASSUME NEW t \in Sources
       PROVE  Len(failures'[t]) + Cardinality(VerifiedFor(t)') < SourceLimit + MaxConcurrent
  <2>1. /\ Len(failures[t]) \in Nat /\ Len(failures[t]) + Cardinality(VerifiedFor(t)) < SourceLimit + MaxConcurrent
        /\ Cardinality(Verifying) <= MaxConcurrent
    BY DEF LimitsKnown, LimitTypes, RoomKnown
  <2>2. CASE t = s
    <3>1. failures'[t] = << >>
      BY <1>3, <2>2 DEF LimitsKnown, LimitTypes
    <3> QED
      BY <1>7, <1>8, <2>1, <2>2, <3>1
  <2>3. CASE t # s
    <3>1. failures'[t] = failures[t]
      BY <1>3, <2>3 DEF LimitsKnown, LimitTypes
    <3> QED
      BY <1>7, <1>8, <2>1, <2>3, <3>1
  <2> QED
    BY <2>2, <2>3
<1> QED
  BY <1>6, <1>7, <1>9, <1>10 DEF LimitsKnown, RoomKnown

(* A step that shortens the lists and drops some leaves room.               *)
LEMMA ShorterKeepsRoom ==
  ASSUME LimitsKnown,
         failures' \in [Sources -> Seq(Nat)], allFailures' \in Seq(Nat),
         Len(allFailures') <= Len(allFailures),
         \A s \in Sources : Len(failures'[s]) <= Len(failures[s]),
         NEW sources \in SUBSET Sources,
         verifying' = verifying \/ verifying' = Dropped(sources)
  PROVE  LimitsKnown'
<1>1. /\ verifying' \in [Logins -> LoginOf \union {NoLogin}]
      /\ \A l \in Logins : /\ verifying'[l].source = verifying[l].source
                           /\ verifying'[l] = NoLogin <=> verifying[l] = NoLogin
  BY DroppedKeepsSources DEF LimitsKnown, LimitTypes
<1>2. Verifying' = Verifying /\ \A s \in Sources : VerifiedFor(s)' = VerifiedFor(s)
  BY <1>1 DEF Verifying, VerifiedFor
<1>3. Cardinality(Verifying) \in Nat /\ \A s \in Sources : Cardinality(VerifiedFor(s)) \in Nat
  BY VerifiedForFew, FS_CardinalityType DEF LimitsKnown, RoomKnown
<1>4. LimitTypes'
  BY <1>1 DEF LimitTypes
<1>5. Len(allFailures') + Cardinality(Verifying) < GlobalLimit + MaxConcurrent
  BY <1>3, LimitAssumption DEF LimitsKnown, LimitTypes, RoomKnown
<1>6. ASSUME NEW s \in Sources
      PROVE  Len(failures'[s]) + Cardinality(VerifiedFor(s)) < SourceLimit + MaxConcurrent
  <2>1. failures[s] \in Seq(Nat) /\ failures'[s] \in Seq(Nat)
    BY DEF LimitsKnown, LimitTypes
  <2>2. Len(failures[s]) + Cardinality(VerifiedFor(s)) < SourceLimit + MaxConcurrent
    BY DEF LimitsKnown, RoomKnown
  <2> QED
    BY <1>3, <2>1, <2>2, LimitAssumption
<1> QED
  BY <1>2, <1>4, <1>5, <1>6 DEF LimitsKnown, RoomKnown

LEMMA TimeKeepsRoom ==
  ASSUME LimitsKnown, Tick \/ ClearRetry \/ ClearGlobal
  PROVE  LimitsKnown'
<1>1. Len(<< >>) = 0 /\ << >> \in Seq(Nat) /\ Len(allFailures) \in Nat
      /\ \A s \in Sources : Len(failures[s]) \in Nat
  BY DEF LimitsKnown, LimitTypes
<1>2. CASE Tick
  <2>1. PICK sources \in SUBSET Sources : verifying' = verifying \/ verifying' = Dropped(sources)
    BY <1>2 DEF Tick
  <2>2. /\ failures' \in [Sources -> Seq(Nat)] /\ \A s \in Sources : Len(failures'[s]) <= Len(failures[s])
    BY <1>2, YoungerIsShorter DEF Tick, LimitsKnown, LimitTypes
  <2>3. allFailures' \in Seq(Nat) /\ Len(allFailures') <= Len(allFailures)
    BY <1>2, YoungerIsShorter DEF Tick, LimitsKnown, LimitTypes
  <2> QED
    BY <2>1, <2>2, <2>3, ShorterKeepsRoom
<1>3. CASE ClearRetry
  <2>1. /\ failures' \in [Sources -> Seq(Nat)] /\ \A s \in Sources : Len(failures'[s]) <= Len(failures[s])
    BY <1>1, <1>3 DEF ClearRetry
  <2>2. allFailures' \in Seq(Nat) /\ Len(allFailures') <= Len(allFailures)
    BY <1>1, <1>3 DEF ClearRetry
  <2>3. verifying' = Dropped(Sources)
    BY <1>3 DEF ClearRetry
  <2> QED
    BY <2>1, <2>2, <2>3, ShorterKeepsRoom
<1>4. CASE ClearGlobal
  <2>1. /\ failures' \in [Sources -> Seq(Nat)] /\ \A s \in Sources : Len(failures'[s]) <= Len(failures[s])
    BY <1>1, <1>4 DEF ClearGlobal, LimitsKnown, LimitTypes
  <2>2. allFailures' \in Seq(Nat) /\ Len(allFailures') <= Len(allFailures) /\ verifying' = verifying
    BY <1>1, <1>4 DEF ClearGlobal
  <2> QED
    BY <2>1, <2>2, ShorterKeepsRoom
<1> QED
  BY <1>2, <1>3, <1>4

(* However many browsers try, no more failures are counted in a window than *)
(* the limit and the logins that may be verified at a time: whoever was     *)
(* admitted had room for one failure more.                                  *)
THEOREM GuessesStayBounded == LimitSpec => []GuessesBounded
<1>1. LimitInit => LimitsKnown
  BY LimitsStart
<1>2. LimitsKnown /\ [LimitNext]_limitVars => LimitsKnown'
  <2> SUFFICES ASSUME LimitsKnown, [LimitNext]_limitVars
               PROVE  LimitsKnown'
    OBVIOUS
  <2>1. ASSUME NEW s \in Sources, Enter(s) PROVE LimitsKnown'
    BY <2>1, EnterKeepsRoom
  <2>2. ASSUME NEW l \in Verifying, Release(l) PROVE LimitsKnown'
    BY <2>2, ReleaseFailedKeepsRoom, ReleaseSucceededKeepsRoom DEF Release
  <2>3. CASE Tick \/ ClearRetry \/ ClearGlobal
    BY <2>3, TimeKeepsRoom
  <2>4. CASE UNCHANGED limitVars
    BY <2>4 DEF limitVars, LimitsKnown, LimitTypes, RoomKnown, Verifying, VerifiedFor
  <2> QED
    BY <2>1, <2>2, <2>3, <2>4 DEF LimitNext
<1>3. LimitsKnown => GuessesBounded
  <2> SUFFICES ASSUME LimitsKnown PROVE GuessesBounded
    OBVIOUS
  <2>1. Cardinality(Verifying) \in Nat /\ \A s \in Sources : Cardinality(VerifiedFor(s)) \in Nat
    BY VerifiedForFew, FS_CardinalityType DEF LimitsKnown, RoomKnown
  <2> QED
    BY <2>1, LimitAssumption DEF GuessesBounded, LimitsKnown, LimitTypes, RoomKnown
<1> QED
  BY <1>1, <1>2, <1>3, PTL DEF LimitSpec

==============================================================================
