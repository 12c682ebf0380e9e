--------------------------- MODULE TerminalSessions ---------------------------
(***************************************************************************)
(* Container terminals: the sessions the Maintenance Broker keeps          *)
(* (TerminalSessionManager), each with a helper that runs a shell, and the *)
(* console page that creates, shows, loses, finds again and closes one.    *)
(* A session nobody is connected to expires; the page tries to reconnect   *)
(* until a deadline of its own. Output is counted, not kept: both ends     *)
(* bound it, and every attachment starts from what the session holds.      *)
(***************************************************************************)
EXTENDS Naturals, FiniteSets

CONSTANTS
  Sessions,       \* terminal sessions that may be created
  MaxShells,    \* MAX_SESSIONS
  MaxOutput,      \* bound on the output of a shell
  MaxDrops,       \* bound on lost connections and lost answers
  MaxVisits       \* bound on page loads after the first

VARIABLES
  session,    \* what the manager holds of a session, gone once it was closed
  shell,      \* the helper and the shell it runs
  attached,   \* the sockets of a session: the page's, and one it gave up
  expiring,   \* whether the expiry of a session is armed
  page,       \* the terminal tab: session, status, socket, request and deadline
  stored,     \* the session kept in sessionStorage
  screen,     \* output on the page's screen
  line,       \* output under way on the page's socket, and whether an exit follows
  drops, visits

serverVars == <<session, shell, attached, expiring>>
lineVars == <<screen, line>>
tabVars == <<page, stored>>
termVars == <<serverVars, tabVars, lineVars, drops, visits>>

NoSession == "none"
ASSUME SessionsAreNamed == NoSession \notin Sessions

Silent == [out |-> 0, exit |-> FALSE]
Blank == [id |-> NoSession, status |-> "loading", socket |-> "none", asks |-> "restore",
          target |-> NoSession, closing |-> NoSession, late |-> FALSE]
Held(s) == session[s].is \in {"running", "exited"}
HeldSessions == {s \in Sessions : Held(s)}

TerminalInit ==
  /\ session = [s \in Sessions |-> [is |-> "new", out |-> 0]]
  /\ shell = [s \in Sessions |-> "none"]
  /\ attached = [s \in Sessions |-> {}] /\ expiring = {}
  /\ page = Blank /\ stored = NoSession
  /\ screen = 0 /\ line = Silent /\ drops = 0 /\ visits = 0

(* ---- The manager and its sessions. -------------------------------------- *)

(* finish: the exit is told to the sockets; without any, expiry starts.     *)
Finish(s) ==
  /\ session' = [session EXCEPT ![s].is = "exited"]
  /\ line' = IF "page" \in attached[s] THEN [line EXCEPT !.exit = TRUE] ELSE line
  /\ expiring' = IF attached[s] = {} THEN expiring \union {s} ELSE expiring
ShellExits(s) ==
  /\ shell[s] = "live" /\ session[s].is = "running"
  /\ shell' = [shell EXCEPT ![s] = "gone"] /\ Finish(s)
  /\ UNCHANGED <<attached, tabVars, screen, drops, visits>>

(* terminate: the session leaves the manager at once, its sockets are      *)
(* closed and the shell is asked to end; the helper outlives it for a time.*)
Terminate(s) ==
  /\ session' = [session EXCEPT ![s].is = "closed"]
  /\ shell' = [shell EXCEPT ![s] = IF @ = "live" THEN "asked" ELSE @]
  /\ expiring' = expiring \ {s}
  /\ attached' = [attached EXCEPT ![s] = {}]
HelperFails(s) ==
  /\ session[s].is = "running" /\ shell[s] = "live" /\ drops < MaxDrops
  /\ drops' = drops + 1 /\ Terminate(s)
  /\ UNCHANGED <<tabVars, lineVars, visits>>
Expire(s) ==
  /\ s \in expiring /\ attached[s] = {} /\ Terminate(s)
  /\ UNCHANGED <<tabVars, lineVars, drops, visits>>
(* The shell obeys the signal, or the helper is killed with it (SIGTERM    *)
(* after two seconds, SIGKILL after four).                                  *)
ShellEnds(s) ==
  /\ shell[s] = "asked"
  /\ shell' = [shell EXCEPT ![s] = "gone"]
  /\ UNCHANGED <<session, attached, expiring, tabVars, lineVars, drops, visits>>

(* broadcastOutput                                                          *)
Broadcast(s) ==
  /\ shell[s] = "live" /\ session[s].is = "running" /\ session[s].out < MaxOutput
  /\ session' = [session EXCEPT ![s].out = @ + 1]
  /\ line' = IF "page" \in attached[s] THEN [line EXCEPT !.out = @ + 1] ELSE line
  /\ UNCHANGED <<shell, attached, expiring, tabVars, screen, drops, visits>>

(* attach: the socket gets everything kept, and the exit if there was one. *)
Attach(s) ==
  /\ expiring' = expiring \ {s}
  /\ attached' = [attached EXCEPT ![s] = @ \union {"page"}]
  /\ line' = [out |-> session[s].out, exit |-> session[s].is = "exited"]
(* The close of a socket reaches the session.                               *)
SocketClosed(s) ==
  /\ "old" \in attached[s]
  /\ attached' = [attached EXCEPT ![s] = @ \ {"old"}]
  /\ expiring' = IF Held(s) /\ attached[s] = {"old"} THEN expiring \union {s} ELSE expiring
  /\ UNCHANGED <<session, shell, tabVars, lineVars, drops, visits>>

(* ---- The terminal tab of the console. ----------------------------------- *)

(* The page lets go of its socket: the session hears of it later.          *)
GivenUp == [s \in Sessions |->
  IF "page" \in attached[s] THEN (attached[s] \ {"page"}) \union {"old"} ELSE attached[s]]
TabIs(id, status, socket, asks) ==
  page' = [page EXCEPT !.id = id, !.status = status, !.socket = socket, !.asks = asks,
                       !.target = IF asks = "none" THEN NoSession ELSE @]
(* forgetTerminalSession                                                    *)
Forget(status, asks, closing) ==
  /\ page' = [page EXCEPT !.id = NoSession, !.status = status, !.socket = "none", !.late = FALSE,
                          !.asks = asks, !.closing = closing,
                          !.target = IF asks = "none" THEN NoSession ELSE @]
  /\ stored' = NoSession /\ attached' = GivenUp
  /\ screen' = 0 /\ line' = Silent
(* connectTerminal: the screen starts over with every socket.              *)
DefectConnect(id, status, late) ==
  /\ page' = [page EXCEPT !.id = id, !.status = status, !.socket = "opening",
                          !.asks = "none", !.target = NoSession, !.late = late]
  /\ stored' = id /\ UNCHANGED screen /\ line' = Silent
Connect(id, status, late) ==
  /\ page' = [page EXCEPT !.id = id, !.status = status, !.socket = "opening",
                          !.asks = "none", !.target = NoSession, !.late = late]
  /\ stored' = id /\ screen' = 0 /\ line' = Silent

(* restoreTerminalSession: the stored session is looked for once.          *)
RestoreAnswered ==
  /\ page.asks = "restore"
  /\ \/ stored = NoSession /\ page' = [page EXCEPT !.status = "idle", !.asks = "none"]
        /\ UNCHANGED <<stored, attached, lineVars, drops>>
     \/ /\ stored \in HeldSessions /\ Connect(stored, "connecting", FALSE)
        /\ UNCHANGED <<attached, drops>>
     \/ stored \in Sessions /\ ~Held(stored) /\ Forget("idle", "none", page.closing) /\ UNCHANGED drops
     \/ /\ stored \in Sessions /\ drops < MaxDrops /\ drops' = drops + 1
        /\ TabIs(stored, "failed", "none", "none")
        /\ UNCHANGED <<stored, attached, lineVars>>
  /\ UNCHANGED <<session, shell, expiring, visits>>

(* createTerminalSession: the button is off while the page has a session.  *)
NewTerminal ==
  /\ page.asks = "none" /\ page.id = NoSession
  /\ TabIs(NoSession, "starting", "none", "create")
  /\ UNCHANGED <<serverVars, stored, lineVars, drops, visits>>
(* create: below the limit a helper is started and expiry runs until the   *)
(* first socket; the answer may be lost, and the page forgets what it had. *)
Create(s) ==
  /\ session' = [session EXCEPT ![s].is = "running"]
  /\ shell' = [shell EXCEPT ![s] = "live"]
  /\ expiring' = expiring \union {s}
Creates ==
  /\ page.asks = "create" /\ page.target = NoSession
  /\ \E s \in Sessions :
       /\ session[s].is = "new" /\ Cardinality(HeldSessions) < MaxShells
       /\ Create(s) /\ page' = [page EXCEPT !.target = s]
  /\ UNCHANGED <<attached, stored, lineVars, drops, visits>>
Created ==
  /\ page.asks = "create" /\ page.target # NoSession
  /\ Connect(page.target, "connecting", FALSE)
  /\ UNCHANGED <<serverVars, drops, visits>>
CreateFails ==
  /\ page.asks = "create"
  /\ \/ Cardinality(HeldSessions) >= MaxShells /\ page.target = NoSession /\ UNCHANGED drops
     \/ \A s \in Sessions : session[s].is # "new" /\ page.target = NoSession /\ UNCHANGED drops
     \/ drops < MaxDrops /\ drops' = drops + 1
  /\ Forget("failed", "none", page.closing)
  /\ UNCHANGED <<session, shell, expiring, visits>>

(* The upgrade reaches the session, or there is none (404).                *)
Opens ==
  /\ page.socket = "opening" /\ Held(page.id)
  /\ Attach(page.id)
  /\ page' = [page EXCEPT !.status = "connected", !.socket = "open", !.late = FALSE]
  /\ UNCHANGED <<session, shell, stored, screen, drops, visits>>
(* close: a page that showed the exit stays; another tries again until the *)
(* deadline it set when it first lost the connection.                       *)
Lost ==
  IF page.status = "exited" THEN page' = [page EXCEPT !.socket = "none"]
                                 /\ attached' = GivenUp /\ line' = Silent
                                 /\ UNCHANGED <<stored, screen>>
  ELSE IF page.late THEN Forget("failed", page.asks, page.closing)
  ELSE page' = [page EXCEPT !.status = "reconnecting", !.socket = "waiting"]
       /\ attached' = GivenUp /\ line' = Silent /\ UNCHANGED <<stored, screen>>
Refused ==
  /\ page.socket = "opening" /\ ~Held(page.id) /\ Lost
  /\ UNCHANGED <<session, shell, expiring, drops, visits>>
(* The connection breaks, or it was closed by the session and what was     *)
(* still under way has arrived.                                             *)
Drops ==
  /\ page.socket \in {"opening", "open"} /\ drops < MaxDrops
  /\ drops' = drops + 1 /\ Lost
  /\ UNCHANGED <<session, shell, expiring, visits>>
ServerCloses ==
  /\ page.socket = "open" /\ "page" \notin attached[page.id]
  /\ line = Silent /\ Lost
  /\ UNCHANGED <<session, shell, expiring, drops, visits>>
Reconnect ==
  /\ page.socket = "waiting"
  /\ Connect(page.id, "reconnecting", page.late)
  /\ UNCHANGED <<serverVars, drops, visits>>
DeadlinePasses ==
  /\ page.socket \in {"waiting", "opening"} /\ page.status = "reconnecting" /\ ~page.late
  /\ page' = [page EXCEPT !.late = TRUE]
  /\ UNCHANGED <<serverVars, stored, lineVars, drops, visits>>
ReceiveOutput ==
  /\ page.socket = "open"
  /\ \/ /\ line.out > 0 /\ line' = [line EXCEPT !.out = @ - 1] /\ screen' = screen + 1
        /\ UNCHANGED page
     \/ /\ line = [out |-> 0, exit |-> TRUE] /\ line' = Silent
        /\ page' = [page EXCEPT !.status = "exited"] /\ UNCHANGED screen
  /\ UNCHANGED <<serverVars, stored, drops, visits>>

(* closeTerminalSession: while the request is out the tab goes on, and the *)
(* answer forgets whatever session it then has.                             *)
CloseTerminal ==
  /\ page.asks = "none" /\ page.id # NoSession /\ page.closing = NoSession
  /\ page' = [page EXCEPT !.closing = page.id]
  /\ UNCHANGED <<serverVars, stored, lineVars, drops, visits>>
CloseReached ==
  /\ page.closing \in HeldSessions
  /\ Terminate(page.closing)
  /\ UNCHANGED <<tabVars, lineVars, drops, visits>>
CloseAnswered ==
  /\ page.closing # NoSession
  /\ \/ page.closing \notin HeldSessions /\ UNCHANGED drops
     \/ drops < MaxDrops /\ drops' = drops + 1
  /\ Forget("closed", page.asks, NoSession)
  /\ UNCHANGED <<session, shell, expiring, visits>>

(* The page is loaded again, or left for good.                              *)
Leave ==
  /\ visits < MaxVisits /\ visits' = visits + 1
  /\ page' = Blank /\ attached' = GivenUp
  /\ screen' = 0 /\ line' = Silent
  /\ UNCHANGED <<session, shell, expiring, stored, drops>>

PageNext ==
  \/ RestoreAnswered \/ NewTerminal \/ Creates \/ Created \/ CreateFails
  \/ Opens \/ Refused \/ Drops \/ ServerCloses \/ Reconnect \/ DeadlinePasses \/ ReceiveOutput
  \/ CloseTerminal \/ CloseReached \/ CloseAnswered \/ Leave
TerminalNext ==
  \/ PageNext
  \/ \E s \in Sessions :
       ShellExits(s) \/ HelperFails(s) \/ Expire(s) \/ ShellEnds(s) \/ Broadcast(s)
         \/ SocketClosed(s)

(* Timers fire, answers and closed sockets are noticed.                    *)
TerminalSpec == TerminalInit /\ [][TerminalNext]_termVars

(* ---- Properties. --------------------------------------------------------- *)

(* A session with a socket is held and does not run towards its end; a     *)
(* held session without one expires (sessions.mjs: attach, scheduleExpiry  *)
(* and terminate agree on who waits for whom).                              *)
TerminalType ==
  \A s \in Sessions :
    /\ session[s].is \in {"new", "closed"} => attached[s] = {} /\ s \notin expiring
    /\ Held(s) => (attached[s] = {}) = (s \in expiring)
    /\ session[s].is = "running" => shell[s] = "live"

(* Through any number of reconnections the screen shows each output once:  *)
(* what it shows and what is under way to it is what the session kept      *)
(* (sessions.mjs: attach sends all of it, app.js: connectTerminal resets). *)
ScreenWhole ==
  page.socket = "open" /\ "page" \in attached[page.id]
    => screen + line.out = session[page.id].out

=============================================================================
