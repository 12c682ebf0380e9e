---------------------------- MODULE AccessManager ----------------------------
(***************************************************************************)
(* The Access Manager (services/access-manager): one account record on     *)
(* disk, and in memory the browser sessions and the one-time tokens that   *)
(* lead from a DSH session to a Management session.  Every operation reads *)
(* the account first and works with what it read; sessions and tokens      *)
(* carry the versions of the credentials they were issued under, and are   *)
(* compared with the account when they are used.                           *)
(***************************************************************************)
EXTENDS Naturals, FiniteSets

CONSTANTS
  Calls,        \* requests that may be served at the same time
  Changing,     \* bound: those of them that only change the account
  MaxWrites,    \* bound: how often the account is replaced
  MaxSessions   \* bound: sessions issued

VARIABLES
  account,    \* account.json: revision, versions, and the identity of both passwords
  sessions,   \* BrowserSessionStore
  token,      \* the latest handoff, pending login, challenge, capability or continuation
  transition, \* ManagementTransitionStore
  call,       \* what each request is doing, with the account it has read
  issued,     \* sessions issued so far; their identifiers
  given,      \* history: the accounts that have been in force
  crossed,    \* history: calls between the check and the rename of replaceAccount
              \* while another's rename was made
  undone      \* history: whether one of those has renamed its own over it

kept == <<account, given, crossed, undone>>
accessVars == <<kept, sessions, token, transition, call, issued>>
tokens == <<token, transition>>

NoToken == [kind |-> "none"]
NoCall == [at |-> "idle"]
Changes == {"username", "password", "extra", "extraOff", "totp"}
Steps == {"idle", "read", "code", "accept", "second", "prepare", "work", "checked", "written"}

AccessType ==
  /\ account \in [revision : 0 .. MaxWrites, main : 1 .. MaxWrites + 1, extra : 1 .. MaxWrites + 1,
                  access : 1 .. MaxWrites + 1, extraOn : BOOLEAN, totp : BOOLEAN,
                  password : 0 .. MaxWrites, second : 0 .. MaxWrites]
  /\ \A s \in sessions : s.kind \in {"dsh", "management"} /\ s.id \in 1 .. issued
  /\ issued \in 2 .. MaxSessions
  /\ undone \in {"no", "yes"} /\ crossed \subseteq Calls
  /\ \A c \in Calls : call[c].at \in Steps

(* managementAdditionalCredentialVersion: null while the layer is off. *)
ExtraVersion(a) == IF a.extraOn THEN a.extra ELSE 0

(* It starts with an administrator who is signed in, with both optional    *)
(* layers or none.                                                         *)
AccessInit ==
  /\ \E on \in BOOLEAN :
       account = [revision |-> 0, main |-> 1, extra |-> 1, access |-> 1, extraOn |-> on,
                  totp |-> on, password |-> 0, second |-> 0]
  /\ sessions = {[kind |-> kind, id |-> IF kind = "dsh" THEN 1 ELSE 2, main |-> 1, access |-> 1,
                  extra |-> ExtraVersion(account), source |-> IF kind = "dsh" THEN 0 ELSE 1,
                  password |-> 0, second |-> 0] : kind \in {"dsh", "management"}}
  /\ issued = 2
  /\ token = NoToken /\ transition = NoToken
  /\ call = [c \in Calls |-> NoCall]
  /\ given = {account} /\ crossed = {} /\ undone = "no"

-----------------------------------------------------------------------------
(* Sessions. *)

SameVersions(t, a) == t.main = a.main /\ t.access = a.access

LiveSession(id) == \E s \in sessions : s.kind = "dsh" /\ s.id = id

(* What validate compares. *)
Accepted(s, a, in) ==
  /\ SameVersions(s, a)
  /\ s.kind = "management" =>
       /\ s.extra = ExtraVersion(a)
       /\ \E d \in in : d.kind = "dsh" /\ d.id = s.source /\ SameVersions(d, a)

DerivedFrom(id) == {s \in sessions : s.kind = "management" /\ s.source = id}

(* validate removes what is no longer valid, and prunes a Management       *)
(* session whose DSH session has gone.                                     *)
Validate(s, a) ==
  sessions' = IF Accepted(s, a, sessions) THEN sessions ELSE sessions \ {s}

(* issue.  password and second say what was proved; refresh never moves them. *)
Issue(kind, a, source, password, second) ==
  /\ issued < MaxSessions /\ issued' = issued + 1
  /\ sessions' = sessions \union
       {[kind |-> kind, id |-> issued + 1, main |-> a.main, access |-> a.access,
         extra |-> ExtraVersion(a), source |-> source, password |-> password, second |-> second]}
IssueManagement(a, source, password, second) ==
  IF LiveSession(source) THEN Issue("management", a, source, password, second)
  ELSE UNCHANGED <<sessions, issued>>

-----------------------------------------------------------------------------
(* A call reads the account, and goes on with it later. *)

Reads(c) ==
  /\ call[c] = NoCall /\ (c \in Changing => account.revision < MaxWrites)
  /\ call' = [call EXCEPT ![c] = [at |-> "read", a |-> account]]
  /\ UNCHANGED <<kept, sessions, tokens, issued>>
CallAt(c, at) == call[c].at = at
Returns(c) == call' = [call EXCEPT ![c] = NoCall]
Awaits(c, at, held) == call' = [call EXCEPT ![c] = [at |-> at, a |-> call[c].a, held |-> held]]
Works(c, change, held) ==
  call' = [call EXCEPT ![c] = [at |-> "work", a |-> call[c].a, held |-> held, change |-> change]]

(* consumeLogin and consumePending; what they return is not looked at. *)
Consumes(t) == token' = IF token = t THEN NoToken ELSE token

(* What the tokens carry, and what is compared when they are used (the     *)
(* stores of exchanges.mjs, capabilities.mjs and transitions.mjs).         *)
HandoffOf(s, a) ==
  [kind |-> "handoff", main |-> a.main, access |-> a.access, source |-> s.id, password |-> s.password]
HandoffFits(a) == token.kind = "handoff" /\ SameVersions(token, a)
PendingOf(handoff) == [handoff EXCEPT !.kind = "pending"]
PendingFits(a) == token.kind = "pending" /\ SameVersions(token, a)
CapabilityOf(s, a) ==
  [kind |-> "capability", session |-> s.id, main |-> a.main, access |-> a.access, extra |-> ExtraVersion(a)]
TransitionOf(s, a, local) ==
  [kind |-> "transition", revision |-> a.revision, session |-> s.id, source |-> s.source,
   password |-> s.password, second |-> s.second, probed |-> local]
TransitionFits(a, session) ==
  /\ transition # NoToken /\ transition.revision = a.revision
  /\ transition.session = session /\ transition.probed
ContinuationOf(t, a) ==
  [kind |-> "continuation", revision |-> a.revision, source |-> t.source,
   password |-> t.password, second |-> t.second]
ContinuationFits(a) == token.kind = "continuation" /\ token.revision = a.revision

(* loginDsh.  The password is verified against the account that was read. *)
LoginDsh(c) ==
  /\ CallAt(c, "read") /\ Returns(c)
  /\ LET a == call[c].a IN
     IF a.totp
     THEN /\ token' = [kind |-> "challenge", revision |-> a.revision, password |-> a.password]
          /\ UNCHANGED <<sessions, issued>>
     ELSE Issue("dsh", a, 0, a.password, 0) /\ UNCHANGED token
  /\ UNCHANGED <<kept, transition>>

(* completeDshTotp: the challenge is checked, then the code is verified. *)
CheckChallenge(c) ==
  /\ CallAt(c, "read")
  /\ IF /\ call[c].a.totp /\ token.kind = "challenge"
        /\ token.revision = call[c].a.revision
     THEN Awaits(c, "code", token)
     ELSE Returns(c)
  /\ UNCHANGED <<kept, sessions, tokens, issued>>
CompleteDshTotp(c) ==
  /\ CallAt(c, "code") /\ Returns(c)
  /\ Consumes(call[c].held)
  /\ Issue("dsh", call[c].a, 0, call[c].held.password, 0)
  /\ UNCHANGED <<kept, transition>>

(* createManagementHandoff. *)
CreateHandoff(c) ==
  /\ CallAt(c, "read") /\ Returns(c)
  /\ \E s \in sessions :
       /\ s.kind = "dsh" /\ Validate(s, call[c].a)
       /\ token' = IF Accepted(s, call[c].a, sessions) THEN HandoffOf(s, call[c].a) ELSE token
  /\ UNCHANGED <<kept, transition, issued>>

(* consumeManagementHandoff: consumed before it is checked. *)
TakeHandoff(c) ==
  /\ CallAt(c, "read") /\ token.kind = "handoff"
  /\ token' = NoToken
  /\ IF HandoffFits(call[c].a) /\ LiveSession(token.source)
     THEN Awaits(c, "accept", token)
     ELSE Returns(c)
  /\ UNCHANGED <<kept, sessions, transition, issued>>
ManagementResult(c) ==
  /\ CallAt(c, "accept") /\ Returns(c)
  /\ LET a == call[c].a
         h == call[c].held IN
     IF a.extraOn
     THEN /\ token' = PendingOf(h)
          /\ UNCHANGED <<sessions, issued>>
     ELSE IssueManagement(a, h.source, h.password, 0) /\ UNCHANGED token
  /\ UNCHANGED <<kept, transition>>

(* completeManagementLogin. *)
CheckPending(c) ==
  /\ CallAt(c, "read") /\ token.kind = "pending"
  /\ IF call[c].a.extraOn /\ PendingFits(call[c].a)
     THEN IF LiveSession(token.source)
          THEN Awaits(c, "second", token) /\ UNCHANGED token
          ELSE Returns(c) /\ token' = NoToken
     ELSE Returns(c) /\ UNCHANGED token
  /\ UNCHANGED <<kept, sessions, transition, issued>>
CompleteManagementLogin(c) ==
  /\ CallAt(c, "second") /\ Returns(c)
  /\ Consumes(call[c].held)
  /\ IssueManagement(call[c].a, call[c].held.source, call[c].held.password,
                     call[c].a.second)
  /\ UNCHANGED <<kept, transition>>

(* issueCapability, for the Management operation that follows. *)
IssueCapability(c) ==
  /\ CallAt(c, "read") /\ Returns(c)
  /\ \E s \in sessions :
       /\ s.kind = "management" /\ Validate(s, call[c].a)
       /\ token' = IF Accepted(s, call[c].a, sessions) THEN CapabilityOf(s, call[c].a) ELSE token
  /\ UNCHANGED <<kept, transition, issued>>

-----------------------------------------------------------------------------
(* Changing the account. *)

(* n is the new revision, and stands for a new password where one is set.  *)
Changed(a, change, n) ==
  CASE change = "username" -> [a EXCEPT !.revision = n]
    [] change = "password" -> [a EXCEPT !.revision = n, !.main = @ + 1, !.password = n]
    [] change = "extra"    -> [a EXCEPT !.revision = n, !.extra = @ + 1, !.extraOn = TRUE, !.second = n]
    [] change = "extraOff" -> [a EXCEPT !.revision = n, !.extra = @ + 1, !.extraOn = FALSE]
    [] change = "totp"     -> [a EXCEPT !.revision = n, !.totp = ~@]
    [] OTHER               -> [a EXCEPT !.revision = n, !.access = @ + 1]

(* consumeInternalCapability: deleted before it is compared. *)
Authorized(a) ==
  /\ token.kind = "capability"
  /\ SameVersions(token, a) /\ token.extra = ExtraVersion(a)

(* updateAuthenticationSettings, up to the passwords it verifies. *)
AuthorizeSettings(c, change) ==
  /\ CallAt(c, "read") /\ token.kind = "capability"
  /\ token' = NoToken
  /\ IF Authorized(call[c].a) THEN Works(c, change, [kind |-> "settings"]) ELSE Returns(c)
  /\ UNCHANGED <<kept, sessions, transition, issued>>

(* The recovery commands come from the root console, with a revision. *)
AuthorizeRecovery(c, change) ==
  /\ CallAt(c, "read") /\ (change = "totp" => call[c].a.totp)
  /\ Works(c, change, [kind |-> "recovery"])
  /\ UNCHANGED <<kept, sessions, tokens, issued>>

(* createManagementTransition. *)
AuthorizeTransition(c) ==
  /\ CallAt(c, "read") /\ token.kind = "capability"
  /\ token' = NoToken
  /\ IF Authorized(call[c].a)
     THEN \/ \E s \in sessions : s.id = token.session /\ Awaits(c, "prepare", s)
          \/ (~\E s \in sessions : s.id = token.session) /\ Returns(c)
     ELSE Returns(c)
  /\ UNCHANGED <<kept, sessions, transition, issued>>
CreateManagementTransition(c) ==
  /\ CallAt(c, "prepare") /\ Returns(c)
  /\ \E local \in BOOLEAN :
       transition' = TransitionOf(call[c].held, call[c].a, local)
  /\ UNCHANGED <<kept, sessions, token, issued>>

(* probeManagementTransition: only a change to another origin is probed.   *)
ProbeManagementTransition ==
  /\ transition # NoToken /\ ~transition.probed
  /\ transition' = [transition EXCEPT !.probed = TRUE]
  /\ UNCHANGED <<kept, sessions, token, call, issued>>

(* commitManagementTransition, which alone is serialized. *)
AuthorizeCommit(c) ==
  /\ CallAt(c, "read") /\ token.kind = "capability"
  /\ \A other \in Calls \ {c} :
       call[other].at \in {"work", "checked", "written"} => call[other].change # "access"
  /\ token' = NoToken
  /\ IF Authorized(call[c].a) /\ TransitionFits(call[c].a, token.session)
     THEN /\ transition' = NoToken
          /\ IF LiveSession(transition.source) THEN Works(c, "access", transition) ELSE Returns(c)
     ELSE Returns(c) /\ UNCHANGED transition
  /\ UNCHANGED <<kept, sessions, issued>>

DefectCheckRevision(c) ==
  /\ CallAt(c, "work")
  /\ call' = [call EXCEPT ![c].at = "checked"]
  /\ UNCHANGED <<kept, sessions, tokens, issued>>

(* replaceAccount compares the revisions, and renames later; nothing keeps *)
(* another call from doing both in between.                                *)
CheckRevision(c) ==
  /\ CallAt(c, "work")
  /\ IF account.revision = call[c].a.revision
     THEN call' = [call EXCEPT ![c].at = "checked"]
     ELSE Returns(c)
  /\ UNCHANGED <<kept, sessions, tokens, issued>>
WriteAccount(c) ==
  /\ CallAt(c, "checked") /\ account.revision < MaxWrites
  /\ account' = Changed(call[c].a, call[c].change, account.revision + 1)
  /\ call' = [call EXCEPT ![c] = [at |-> "written", a |-> account', held |-> @.held, change |-> @.change]]
  /\ given' = given \union {account'}
  /\ crossed' = (crossed \union {d \in Calls : CallAt(d, "checked")}) \ {c}
  /\ undone' = IF c \in crossed THEN "yes" ELSE undone
  /\ UNCHANGED <<sessions, tokens, issued>>

(* What follows the write: sessions are revoked by what has changed.       *)
Revoked(change, through) ==
  CASE change = "password" -> sessions
    [] change = "extra" \/ (change = "extraOff" /\ through = "settings") ->
         {s \in sessions : s.kind = "management"}
    [] OTHER -> {}
RevokeSessions(c) ==
  /\ CallAt(c, "written") /\ call[c].change # "access" /\ Returns(c)
  /\ sessions' = sessions \ Revoked(call[c].change, call[c].held.kind)
  /\ token' = IF /\ call[c].change = "password" /\ call[c].held.kind = "settings"
                 /\ token.kind = "challenge"
              THEN NoToken ELSE token
  /\ UNCHANGED <<kept, transition, issued>>

(* refreshDshSession. *)
Refreshed(s, a) == [s EXCEPT !.main = a.main, !.access = a.access]
CommitManagementTransition(c) ==
  /\ CallAt(c, "written") /\ call[c].change = "access" /\ Returns(c)
  /\ LET t == call[c].held
         a == call[c].a IN
     /\ sessions' = {IF s.id = t.source THEN Refreshed(s, a) ELSE s :
                       s \in {d \in sessions : d.kind = "dsh"}}
     /\ token' = ContinuationOf(t, a)
  /\ UNCHANGED <<kept, transition, issued>>

(* consumeManagementContinuation. *)
ConsumeContinuation(c) ==
  /\ CallAt(c, "read") /\ token.kind = "continuation" /\ Returns(c)
  /\ token' = NoToken
  /\ IF ContinuationFits(call[c].a) /\ LiveSession(token.source)
     THEN IssueManagement(call[c].a, token.source, token.password, token.second)
     ELSE UNCHANGED <<sessions, issued>>
  /\ UNCHANGED <<kept, transition>>

-----------------------------------------------------------------------------

(* validateSession: with the account read a moment ago, or just now.       *)
ValidateSession ==
  /\ \E s \in sessions : Validate(s, account)
  /\ UNCHANGED <<kept, tokens, call, issued>>

(* revoke, revokeDshSession, and a session that expires: the Management    *)
(* sessions of a DSH session go with it.                                   *)
Revoke ==
  /\ \E s \in sessions : sessions' = sessions \ ({s} \union DerivedFrom(s.id))
  /\ UNCHANGED <<kept, tokens, call, issued>>

(* prune drops a Management session whose DSH session has gone. *)
Prune ==
  /\ sessions' = {s \in sessions : s.kind = "management" => LiveSession(s.source)}
  /\ UNCHANGED <<kept, tokens, call, issued>>

(* clearRecoverySessions. *)
ClearSessions ==
  /\ \E managementOnly \in BOOLEAN :
       sessions' = IF managementOnly THEN {s \in sessions : s.kind = "dsh"} ELSE {}
  /\ UNCHANGED <<kept, tokens, call, issued>>

(* The Access Manager restarts: only the account is left. *)
RestartAccess ==
  /\ sessions' = {} /\ call' = [c \in Calls |-> NoCall]
  /\ token' = NoToken /\ transition' = NoToken /\ crossed' = {}
  /\ UNCHANGED <<account, given, undone, issued>>

Browse(c) ==
  \/ LoginDsh(c) \/ CheckChallenge(c) \/ CompleteDshTotp(c)
  \/ CreateHandoff(c) \/ TakeHandoff(c) \/ ManagementResult(c)
  \/ CheckPending(c) \/ CompleteManagementLogin(c) \/ IssueCapability(c)
  \/ AuthorizeTransition(c) \/ CreateManagementTransition(c) \/ ConsumeContinuation(c)
Change(c) ==
  \/ \E change \in Changes : AuthorizeSettings(c, change) \/ AuthorizeRecovery(c, change)
  \/ AuthorizeCommit(c) \/ CheckRevision(c) \/ WriteAccount(c) \/ RevokeSessions(c)
  \/ CommitManagementTransition(c)

AccessNext ==
  \/ \E c \in Calls : Reads(c) \/ Change(c)
  \/ \E c \in Calls \ Changing : Browse(c)
  \/ ProbeManagementTransition \/ ValidateSession \/ Revoke \/ Prune \/ ClearSessions
  \/ RestartAccess

AccessSpec == AccessInit /\ [][AccessNext]_accessVars

-----------------------------------------------------------------------------

(* A session whose versions are the account's was opened with a password   *)
(* that was the account's under that version, whatever login, challenge,   *)
(* handoff or transition was under way when the password was changed.      *)
PasswordProved ==
  \A s \in sessions : SameVersions(s, account) =>
    \E x \in given : x.main = account.main /\ x.password = s.password

(* A Management session that is still accepted while the Management password *)
(* is on was opened with a Management password of the version in force.      *)
SecondProved ==
  \A s \in sessions :
    s.kind = "management" /\ account.extraOn /\ Accepted(s, account, sessions)
      => \E x \in given : x.extra = account.extra /\ x.second = s.second

(* No version is given to two passwords, so that the passwords those sessions *)
(* were opened with are the present ones - as long as no change was undone.   *)
VersionsOnce ==
  undone = "no" => \A x, y \in given :
    /\ x.main = y.main => x.password = y.password
    /\ x.extra = y.extra => x.second = y.second

(* A change of the account is made to the account it was decided on, unless   *)
(* another's is made between its own check and its rename: then it undoes     *)
(* that one, and a version may be given twice.                                *)
ChangesKept ==
  \A c \in Calls \ crossed : CallAt(c, "checked") => call[c].a.revision = account.revision

(* Sessions were opened with the credentials that are in force, and the    *)
(* account changes only from the state a change was decided on.            *)
AccountGuarded == PasswordProved /\ SecondProved /\ VersionsOnce /\ ChangesKept
=============================================================================
