---------------------------- MODULE BrowserLogin ----------------------------
(***************************************************************************)
(* The Gateway's browser authentication (gateway/lib/browser-auth.mjs): the *)
(* tabs of one browser share a cookie jar; each request carries the jar as *)
(* it was when it was sent, makes one or more calls to the Access Manager, *)
(* and its answer changes the jar when it arrives.  In between, other tabs *)
(* sign in and out, and the Access Manager may restart, which loses every  *)
(* session.  What one call does there is one step here: its own steps are  *)
(* the subject of AccessManager.                                           *)
(***************************************************************************)
EXTENDS Naturals, FiniteSets

CONSTANTS
  Tabs,
  MaxLogins,     \* bound: DSH sessions
  MaxEntries,    \* bound: Management sessions, and handoffs and pending logins
  MaxOutages     \* bound: restarts of the Access Manager

VARIABLES
  access,  \* the Access Manager: answering, its live sessions and one-time tokens
  jar,     \* the browser's cookies: 0 is no cookie
  tab,     \* what each tab is doing
  ended,   \* DSH sessions that were signed out
  loginsUsed     \* identifiers used so far, and restarts

loginVars == <<access, jar, tab, ended, loginsUsed>>

IdleTab == [at |-> "idle"]
NoCookies == [dsh |-> 0, management |-> 0, pending |-> 0]
Routes == {"page", "login", "logout", "logoutAll", "enter", "handoff", "pending", "console"}

LoginType ==
  /\ jar \in [dsh : 0 .. MaxLogins, management : 0 .. MaxEntries, pending : 0 .. MaxEntries]
  /\ access.dsh \subseteq 1 .. MaxLogins
  /\ \A s \in access.management \union access.handoffs \union access.pendings :
       s.id \in 1 .. MaxEntries /\ s.source \in 1 .. MaxLogins
  /\ \A t \in Tabs : tab[t].at \in {"idle", "answer", "locate", "renew", "consume", "retype"} \union Routes

LoginInit ==
  /\ \E extra \in BOOLEAN :
       access = [up |-> TRUE, extra |-> extra, dsh |-> {}, management |-> {}, handoffs |-> {}, pendings |-> {}]
  /\ jar = NoCookies
  /\ tab = [t \in Tabs |-> IdleTab]
  /\ ended = {}
  /\ loginsUsed = [dsh |-> 0, entries |-> 0, outages |-> 0]

-----------------------------------------------------------------------------
(* A request and its answer. *)

Goes(t, at) == tab' = [tab EXCEPT ![t].at = at]
Answers(t, cookies) == tab' = [tab EXCEPT ![t] = [at |-> "answer", cookies |-> cookies]]
Refuses(t) == Answers(t, {})

(* The cookies a route looks at. *)
Carried(route) ==
  [dsh |-> IF route \in {"page", "logoutAll", "enter", "pending"} THEN jar.dsh ELSE 0,
   management |-> IF route \in {"logout", "logoutAll", "enter", "console"} THEN jar.management ELSE 0,
   pending |-> IF route = "pending" THEN jar.pending ELSE 0]

Send(t, route) ==
  /\ tab[t] = IdleTab
  /\ tab' = [tab EXCEPT ![t] = [at |-> route, jar |-> Carried(route), token |-> 0, tries |-> 0]]
  /\ UNCHANGED <<access, jar, ended, loginsUsed>>

(* Set-Cookie: each cookie of the answer replaces the one in the jar. *)
Receive(t) ==
  /\ tab[t].at = "answer" /\ tab' = [tab EXCEPT ![t] = IdleTab]
  /\ jar' = [c \in DOMAIN jar |->
       IF \E new \in tab[t].cookies : new[1] = c
       THEN (CHOOSE new \in tab[t].cookies : new[1] = c)[2] ELSE jar[c]]
  /\ UNCHANGED <<access, ended, loginsUsed>>

(* accessRequest: after its retries a call fails with 503; nothing is set. *)
Unavailable(t) ==
  /\ ~access.up /\ tab[t].at \notin {"idle", "answer"}
  /\ Refuses(t)
  /\ UNCHANGED <<access, jar, ended, loginsUsed>>

TabAt(t, at) == tab[t].at = at /\ access.up
OfJar(t) == tab[t].jar
SignedIn(t) == OfJar(t).dsh \in access.dsh

clearDsh == {<<"dsh", 0>>}
clearManagement == {<<"management", 0>>, <<"pending", 0>>}
managementCookies(id) == {<<"management", id>>, <<"pending", 0>>}

OpenSession(id) == \E s \in access.management : s.id = id /\ s.source \in access.dsh
Drop(id) == {s \in access.management : s.id # id}
DropDerived(source) == {s \in access.management : s.source # source}

-----------------------------------------------------------------------------
(* The routes. *)

(* The login page clears the cookies of a browser it finds signed out. *)
AuthenticationPage(t) ==
  /\ TabAt(t, "page")
  /\ Answers(t, IF SignedIn(t) THEN {} ELSE clearDsh \union clearManagement)
  /\ UNCHANGED <<access, jar, ended, loginsUsed>>

(* POST session: refused, or a DSH session; on the way to the Management   *)
(* Console also a handoff for it, without which the session is not given.  *)
Login(t) ==
  /\ TabAt(t, "login")
  /\ \/ Refuses(t) /\ UNCHANGED <<access, loginsUsed>>
     \/ /\ loginsUsed.dsh < MaxLogins /\ loginsUsed' = [loginsUsed EXCEPT !.dsh = @ + 1]
        /\ access' = [access EXCEPT !.dsh = @ \union {loginsUsed.dsh + 1}]
        /\ \/ Answers(t, {<<"dsh", loginsUsed.dsh + 1>>})
           \/ tab' = [tab EXCEPT ![t].at = "locate", ![t].token = loginsUsed.dsh + 1]
  /\ UNCHANGED <<jar, ended>>

NewHandoff(source) ==
  /\ loginsUsed.entries < MaxEntries /\ loginsUsed' = [loginsUsed EXCEPT !.entries = @ + 1]
  /\ access' = [access EXCEPT !.handoffs = @ \union {[id |-> loginsUsed.entries + 1, source |-> source]}]

(* managementHandoffLocation. *)
Locate(t) ==
  /\ TabAt(t, "locate")
  /\ IF tab[t].token \in access.dsh
     THEN NewHandoff(tab[t].token) /\ Answers(t, {<<"dsh", tab[t].token>>})
     ELSE Refuses(t) /\ UNCHANGED <<access, loginsUsed>>
  /\ UNCHANGED <<jar, ended>>

(* browser-logout, for Management or for everything, and both logouts. *)
DefectBrowserLogout(t) ==
  /\ TabAt(t, "logoutAll")
  /\ IF SignedIn(t)
     THEN /\ access' = [access EXCEPT !.dsh = @ \ {OfJar(t).dsh},
                                      !.management = Drop(OfJar(t).management)]
          /\ ended' = ended \union {OfJar(t).dsh}
          /\ Answers(t, clearDsh \union clearManagement)
     ELSE Refuses(t) /\ UNCHANGED <<access, ended>>
  /\ UNCHANGED <<jar, loginsUsed>>
BrowserLogout(t) ==
  /\ TabAt(t, "logoutAll")
  /\ IF SignedIn(t)
     THEN /\ access' = [access EXCEPT !.dsh = @ \ {OfJar(t).dsh},
            !.management = DropDerived(OfJar(t).dsh) \intersect Drop(OfJar(t).management)]
          /\ ended' = ended \union {OfJar(t).dsh}
          /\ Answers(t, clearDsh \union clearManagement)
     ELSE Refuses(t) /\ UNCHANGED <<access, ended>>
  /\ UNCHANGED <<jar, loginsUsed>>

ManagementLogout(t) ==
  /\ TabAt(t, "logout")
  /\ \/ /\ OpenSession(OfJar(t).management)
        /\ access' = [access EXCEPT !.management = Drop(OfJar(t).management)]
        /\ Answers(t, clearManagement)
     \/ ~OpenSession(OfJar(t).management) /\ Refuses(t) /\ UNCHANGED access
  /\ UNCHANGED <<jar, ended, loginsUsed>>

(* enterManagement: a live session goes to the console, a DSH session gets *)
(* a handoff, anything else is sent to the login page. *)
EnterManagement(t) ==
  /\ TabAt(t, "enter")
  /\ IF ~OpenSession(OfJar(t).management) /\ SignedIn(t)
     THEN NewHandoff(OfJar(t).dsh)
     ELSE UNCHANGED <<access, loginsUsed>>
  /\ Refuses(t)
  /\ UNCHANGED <<jar, ended>>

(* handoffs/consume gives a Management session, or a login that is pending *)
(* on the additional password. *)
Exchange(h, taken) ==
  IF h.source \notin access.dsh
  THEN access' = taken
  ELSE IF access.extra
       THEN access' = [taken EXCEPT !.pendings = @ \union {h}]
       ELSE access' = [taken EXCEPT !.management = @ \union {h}]

Handoff(t) ==
  /\ TabAt(t, "handoff")
  /\ \/ \E h \in access.handoffs :
          /\ Exchange(h, [access EXCEPT !.handoffs = @ \ {h}])
          /\ Answers(t, IF h.source \notin access.dsh THEN {}
                        ELSE IF access.extra THEN {<<"pending", h.id>>} ELSE managementCookies(h.id))
     \/ Refuses(t) /\ UNCHANGED access
  /\ UNCHANGED <<jar, ended, loginsUsed>>

(* pending/complete: refused as stale before the password is looked at, or *)
(* the password is tried. *)
Tried(t) == [tab[t] EXCEPT !.tries = @ + 1]
CompleteSignIn(t, id, stale) ==
  LET valid == {p \in access.pendings : p.id = id /\ p.source \in access.dsh} IN
  \/ /\ valid = {} /\ stale /\ UNCHANGED access
  \/ /\ valid # {}
     /\ \/ /\ access' = [access EXCEPT !.management = @ \union valid, !.pendings = @ \ valid]
           /\ Answers(t, managementCookies(id))
        \/ /\ tab' = [tab EXCEPT ![t] = [Tried(t) EXCEPT !.at = "retype"]]
           /\ UNCHANGED access

Pending(t) ==
  /\ TabAt(t, "pending")
  /\ CompleteSignIn(t, OfJar(t).pending, Goes(t, "renew")) \/ (Goes(t, "renew") /\ UNCHANGED access)
  /\ UNCHANGED <<jar, ended, loginsUsed>>
(* A wrong password is the answer. *)
WrongPassword(t) == TabAt(t, "retype") /\ Refuses(t) /\ UNCHANGED <<access, jar, ended, loginsUsed>>

(* renewManagementLogin: another handoff for the DSH session of the        *)
(* request, its exchange, and the password again where one is asked for.   *)
Renew(t) ==
  /\ TabAt(t, "renew")
  /\ IF SignedIn(t)
     THEN NewHandoff(OfJar(t).dsh) /\ tab' = [tab EXCEPT ![t].at = "consume", ![t].token = loginsUsed.entries + 1]
     ELSE Refuses(t) /\ UNCHANGED <<access, loginsUsed>>
  /\ UNCHANGED <<jar, ended>>
RenewConsume(t) ==
  /\ TabAt(t, "consume")
  /\ \/ \E h \in {h \in access.handoffs : h.id = tab[t].token} :
          /\ Exchange(h, [access EXCEPT !.handoffs = @ \ {h}])
          /\ \/ h.source \notin access.dsh /\ Refuses(t)
             \/ h.source \in access.dsh /\ ~access.extra /\ Answers(t, managementCookies(h.id))
             \/ h.source \in access.dsh /\ access.extra /\ UNCHANGED tab
     \/ /\ {h \in access.handoffs : h.id = tab[t].token} = {}
        /\ CompleteSignIn(t, tab[t].token, Refuses(t))
  /\ UNCHANGED <<jar, ended, loginsUsed>>

(* authorizeManagement: every answer of the console sets the cookie of its *)
(* request again. *)
Console(t) ==
  /\ TabAt(t, "console")
  /\ Answers(t, IF OpenSession(OfJar(t).management) THEN managementCookies(OfJar(t).management) ELSE {})
  /\ UNCHANGED <<access, jar, ended, loginsUsed>>

-----------------------------------------------------------------------------

AccessStops ==
  /\ access.up /\ loginsUsed.outages < MaxOutages /\ loginsUsed' = [loginsUsed EXCEPT !.outages = @ + 1]
  /\ access' = [access EXCEPT !.up = FALSE, !.dsh = {}, !.management = {}, !.handoffs = {}, !.pendings = {}]
  /\ UNCHANGED <<jar, tab, ended>>
AccessStarts ==
  /\ ~access.up /\ access' = [access EXCEPT !.up = TRUE]
  /\ UNCHANGED <<jar, tab, ended, loginsUsed>>

Serve(t) ==
  \/ AuthenticationPage(t) \/ Login(t) \/ Locate(t) \/ BrowserLogout(t) \/ ManagementLogout(t)
  \/ EnterManagement(t) \/ Handoff(t) \/ Pending(t) \/ WrongPassword(t) \/ Renew(t) \/ RenewConsume(t)
  \/ Console(t) \/ Unavailable(t) \/ Receive(t)
LoginNext ==
  \/ AccessStops \/ AccessStarts
  \/ \E t \in Tabs : Serve(t) \/ \E route \in Routes : Send(t, route)
LoginSpec == LoginInit /\ [][LoginNext]_loginVars

(* A browser that signed out stays signed out: whatever was under way in   *)
(* other tabs, no session remains that came from the one that ended. *)
SignedOutStays ==
  /\ access.dsh \intersect ended = {}
  /\ \A s \in access.management : s.source \notin ended

=============================================================================
