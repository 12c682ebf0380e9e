----------------------------- MODULE ConsoleStatus -----------------------------
(***************************************************************************)
(* How the console keeps what it shows up to date. The status and the      *)
(* inventory of the tab that is open are loaded one at a time: whoever     *)
(* asks during a load has it run once more. Loads are asked for by the     *)
(* event stream, by a slow poll, and by the flows of the page itself: an   *)
(* action (act), and a Skill or plugin change whose task is waited for.    *)
(* What is loaded is a version number of the server's state.               *)
(***************************************************************************)
EXTENDS Naturals

CONSTANTS MaxFlows, MaxChanges, MaxStreamLosses, MaxLoadErrors
  \* bounds: flows of the page, changes made elsewhere, streams and loads that fail

Kinds == {"status", "inventory"}

VARIABLES
  actual,    \* the server's state: a version per kind
  work,      \* the Management task the page started: its kind and how far it is
  stream,    \* the event stream: open, and whether an event is on its way
  fetch,     \* statusLoad and inventoryLoads: the load under way, and whether the
             \* revision it began with is still the latest asked for
  shows,     \* what the page shows
  flow,      \* the flow under way
  spending

statusVars == <<actual, work, stream, fetch, shows, flow, spending>>

NoFetch == [at |-> "idle"]
NoFlow == [at |-> "rest"]
ConsoleStatusInit ==
  /\ actual = [k \in Kinds |-> 0] /\ work = "none"
  /\ stream = [open |-> TRUE, due |-> TRUE]
  /\ fetch = [k \in Kinds |-> NoFetch]
  /\ shows = [k \in Kinds |-> 0] /\ flow = NoFlow
  /\ spending = [flows |-> 0, changes |-> 0, losses |-> 0, errors |-> 0]
Spending(what, most) == spending[what] < most /\ spending' = [spending EXCEPT ![what] = @ + 1]

(* ---- The server: every change is announced to open streams. ----------------- *)

Announced == [stream EXCEPT !.due = @ \/ stream.open]
ChangesElsewhere(k) ==
  /\ Spending("changes", MaxChanges)
  /\ actual' = [actual EXCEPT ![k] = @ + 1] /\ stream' = Announced
  /\ UNCHANGED <<work, fetch, shows, flow>>
(* The task changes what it is about, and then is shown as over.           *)
WorkEnds ==
  /\ work = "running" /\ work' = "over"
  /\ actual' = [status |-> actual["status"] + 1, inventory |-> actual["inventory"] + 1]
  /\ stream' = Announced
  /\ UNCHANGED <<fetch, shows, flow, spending>>
StreamBreaks ==
  /\ stream.open /\ Spending("losses", MaxStreamLosses)
  /\ stream' = [open |-> FALSE, due |-> FALSE]
  /\ UNCHANGED <<actual, work, fetch, shows, flow>>
(* The browser connects again; the first event comes unasked.              *)
DefectStreamOpens ==
  /\ ~stream.open /\ stream' = [open |-> TRUE, due |-> FALSE]
  /\ UNCHANGED <<actual, work, fetch, shows, flow, spending>>
StreamOpens ==
  /\ ~stream.open /\ stream' = [open |-> TRUE, due |-> TRUE]
  /\ UNCHANGED <<actual, work, fetch, shows, flow, spending>>

(* ---- loadStatus and loadInventory. ------------------------------------------ *)

(* A load under way is left to notice that it was asked for again.         *)
AskFor(ks) ==
  fetch' = [k \in Kinds |->
    IF k \notin ks THEN fetch[k]
    ELSE IF fetch[k] = NoFetch THEN [at |-> "sent", again |-> FALSE]
    ELSE [fetch[k] EXCEPT !.again = TRUE]]
Reads(k) ==
  /\ fetch[k].at = "sent"
  /\ fetch' = [fetch EXCEPT ![k] = [at |-> "read", again |-> @.again, saw |-> actual[k]]]
  /\ UNCHANGED <<actual, work, stream, shows, flow, spending>>
Again(k) ==
  [fetch EXCEPT ![k] = IF fetch[k].again THEN [at |-> "sent", again |-> FALSE] ELSE NoFetch]
Answers(k) ==
  /\ fetch[k].at = "read" /\ fetch' = Again(k)
  /\ \/ shows' = [shows EXCEPT ![k] = fetch[k].saw] /\ UNCHANGED <<flow, spending>>
     \/ /\ Spending("errors", MaxLoadErrors) /\ UNCHANGED shows
        /\ flow' = IF flow = NoFlow THEN flow ELSE [flow EXCEPT !.blind = TRUE]
  /\ UNCHANGED <<actual, work, stream>>
EventArrives ==
  /\ stream.due /\ stream' = [stream EXCEPT !.due = FALSE] /\ AskFor(Kinds)
  /\ UNCHANGED <<actual, work, shows, flow, spending>>
PollsStatus ==
  /\ fetch["status"] = NoFetch /\ Spending("changes", MaxChanges) /\ AskFor({"status"})
  /\ UNCHANGED <<actual, work, stream, shows, flow>>

(* ---- The flows of the page: one while `acting`. ------------------------------ *)

StartFlow(kind) ==
  /\ flow = NoFlow /\ work # "running" /\ Spending("flows", MaxFlows)
  /\ flow' = [at |-> "post", kind |-> kind, blind |-> FALSE,
              due |-> [k \in Kinds |-> 0]]
  /\ UNCHANGED <<actual, work, stream, fetch, shows>>
(* The request is accepted: the task is shown as running from then on.     *)
Accepted ==
  /\ flow.at = "post" /\ work' = "running"
  /\ actual' = [actual EXCEPT !["status"] = @ + 1] /\ stream' = Announced
  /\ flow' = [flow EXCEPT !.at = "posted", !.due = [actual' EXCEPT !["inventory"] = 0]]
  /\ UNCHANGED <<fetch, shows, spending>>
(* act asks for the status; the other flows poll their task first.         *)
Posted ==
  /\ flow.at = "posted"
  /\ IF flow.kind = "act"
     THEN AskFor({"status"}) /\ flow' = [flow EXCEPT !.at = "status"]
     ELSE /\ work = "over" /\ UNCHANGED fetch
          /\ flow' = [flow EXCEPT !.at = "refresh", !.due = actual]
  /\ UNCHANGED <<actual, work, stream, shows, spending>>
(* refreshInventory lets a load under way end before it asks for its own.  *)
Refreshes ==
  /\ flow.at = "refresh" /\ fetch["inventory"] = NoFetch /\ AskFor({"inventory"})
  /\ flow' = [flow EXCEPT !.at = "inventory"]
  /\ UNCHANGED <<actual, work, stream, shows, spending>>
Refreshed ==
  /\ flow.at = "inventory" /\ fetch["inventory"] = NoFetch /\ AskFor({"status"})
  /\ flow' = [flow EXCEPT !.at = "status"]
  /\ UNCHANGED <<actual, work, stream, shows, spending>>
EndsFlow ==
  /\ flow.at = "status" /\ fetch["status"] = NoFetch
  /\ flow' = [flow EXCEPT !.at = "shown"]
  /\ UNCHANGED <<actual, work, stream, fetch, shows, spending>>
Released ==
  /\ flow.at = "shown" /\ flow' = NoFlow
  /\ UNCHANGED <<actual, work, stream, fetch, shows, spending>>

ConsoleStatusNext ==
  \/ \E k \in Kinds : ChangesElsewhere(k) \/ Reads(k) \/ Answers(k)
  \/ WorkEnds \/ StreamBreaks \/ StreamOpens \/ EventArrives \/ PollsStatus
  \/ \E kind \in {"act", "change"} : StartFlow(kind)
  \/ Accepted \/ Posted \/ Refreshes \/ Refreshed \/ EndsFlow \/ Released
(* The poll is not counted on: events alone have to do.                    *)
ConsoleStatusSpec ==
  /\ ConsoleStatusInit /\ [][ConsoleStatusNext]_statusVars
  /\ WF_statusVars(WorkEnds) /\ WF_statusVars(StreamOpens) /\ WF_statusVars(EventArrives)
  /\ WF_statusVars(Accepted) /\ WF_statusVars(Posted) /\ WF_statusVars(Refreshes)
  /\ WF_statusVars(Refreshed) /\ WF_statusVars(EndsFlow) /\ WF_statusVars(Released)
  /\ \A k \in Kinds : WF_statusVars(Reads(k)) /\ WF_statusVars(Answers(k))

(* A flow that gives the buttons back shows what it did: the status with   *)
(* its task in it and, when the task was waited for, the inventory as the  *)
(* task left it - whatever loads it ran into. A load that failed is told.  *)
FlowShown ==
  flow.at = "shown" /\ ~flow.blind => \A k \in Kinds : shows[k] >= flow.due[k]

(* Without a poll, the page comes to show the state the server rests in,   *)
(* though streams break and events arrive in the middle of loads, unless   *)
(* the load itself failed.                                                 *)
ShownCurrent == <>[](spending.errors > 0 \/ \A k \in Kinds : shows[k] = actual[k])

(* The page shows what its own flows did at once, the rest in the end.     *)
StatusShown == []FlowShown /\ ShownCurrent
=============================================================================
