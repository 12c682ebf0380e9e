------------------------------ MODULE UpdateNotices ------------------------------
(***************************************************************************)
(* The reminder that an update is available (platform-management plugin):  *)
(* every DSH page asks for the status on its own, and the pages agree over *)
(* the browser's storage on one that shows the reminder.  The owner renews *)
(* a lease of two periods of its timer; a page that dies leaves its lease  *)
(* behind.  The user puts a version off for an hour or for good.           *)
(***************************************************************************)
EXTENDS Naturals, FiniteSets

CONSTANTS
  DshTabs,      \* pages of one browser
  MaxVersions,  \* bound: versions that are offered
  MaxDone,      \* bound: updates that succeed
  MaxTabMoves,  \* bound: pages hidden, shown, lost and opened
  MaxPutOffs    \* bound: reminders the user puts off

VARIABLES
  offer,   \* the status: the version offered, the updates that succeeded
  older,   \* the status before
  store,   \* localStorage
  tabs,    \* the pages
  due,     \* timers that are yet to fire in this period
  heard,   \* pages a storage event is on its way to
  counts   \* what the bounds count

noticeVars == <<offer, older, store, tabs, due, heard, counts>>

Nobody == "none"
Expired == 2
NewTab == [up |-> TRUE, visible |-> TRUE, version |-> 0, id |-> 0, owns |-> FALSE]

NoticeInit ==
  /\ offer = [version |-> 0, done |-> 0] /\ older = offer
  /\ store = [owner |-> Nobody, age |-> 0, snoozed |-> 0, dismissed |-> 0, cleared |-> 0]
  /\ tabs = [t \in DshTabs |-> NewTab]
  /\ due = {} /\ heard = {} /\ counts = [moves |-> 0, putOffs |-> 0, versions |-> 0]

Alive == {t \in DshTabs : tabs[t].up}
Count(what) == counts' = [counts EXCEPT ![what] = @ + 1]
Tell(t) == heard' = (heard \union Alive) \ {t}

(* eligibleCandidates: the page's version, unless it was dismissed.        *)
Eligible(version, s) == IF s.dismissed = version THEN 0 ELSE version
(* The effect on the identity: whether this page may show the reminder.    *)
DefectAvailable(t, id, s) == s.snoozed # id /\ s.owner \in {t, Nobody}
Available(t, id, s) ==
  /\ s.snoozed # id
  /\ s.owner \in {t, Nobody} \/ s.age >= Expired
(* A rendered page runs the effect, which claims the lease if it may.      *)
Rendered(t, page, s) ==
  LET id == Eligible(page.version, s)
      owns == id # 0 /\ page.visible /\ Available(t, id, s) IN
  /\ tabs' = [tabs EXCEPT ![t] = [page EXCEPT !.id = id, !.owns = owns]]
  /\ store' = IF owns THEN [s EXCEPT !.owner = t, !.age = 0] ELSE s

(* ---- The platform. -------------------------------------------------------- *)

Offered ==
  /\ counts.versions < MaxVersions /\ Count("versions")
  /\ older' = offer /\ offer' = [offer EXCEPT !.version = counts.versions + 1]
  /\ UNCHANGED <<store, tabs, due, heard>>
Updated ==
  /\ offer.version # 0 /\ offer.done < MaxDone
  /\ older' = offer /\ offer' = [version |-> 0, done |-> offer.done + 1]
  /\ UNCHANGED <<store, tabs, due, heard, counts>>

(* ---- The pages. ------------------------------------------------------------ *)

(* clearSatisfiedDismissals: an update that succeeded clears them, once.   *)
ClearSatisfied(status) ==
  IF status.done \in {0, store.cleared} THEN store
  ELSE [store EXCEPT !.dismissed = 0, !.cleared = status.done]
(* An answer that was asked for earlier may arrive after a newer one.      *)
Known == {offer, older}
Refresh(t) ==
  /\ tabs[t].up
  /\ \E status \in Known :
       LET s == ClearSatisfied(status)
           page == [tabs[t] EXCEPT !.version = status.version] IN
       /\ IF Eligible(status.version, s) # tabs[t].id THEN Rendered(t, page, s)
          ELSE store' = s /\ tabs' = [tabs EXCEPT ![t] = page]
  /\ IF store' # store THEN Tell(t) ELSE UNCHANGED heard
  /\ UNCHANGED <<offer, older, due, counts>>

(* The timer of the effect, the renewal by the owner, the storage event.   *)
LeaseTimer(t) ==
  /\ <<t, "lease">> \in due /\ due' = due \ {<<t, "lease">>}
  /\ Rendered(t, tabs[t], store)
  /\ IF store' # store THEN Tell(t) ELSE UNCHANGED heard
  /\ UNCHANGED <<offer, older, counts>>
OwnerTimer(t) ==
  /\ <<t, "own">> \in due /\ due' = due \ {<<t, "own">>}
  /\ store' = IF tabs[t].owns THEN [store EXCEPT !.owner = t, !.age = 0] ELSE store
  /\ IF store' # store THEN Tell(t) ELSE UNCHANGED heard
  /\ UNCHANGED <<offer, older, tabs, counts>>
StorageChanged(t) ==
  /\ t \in heard /\ Rendered(t, tabs[t], store)
  /\ heard' = IF store' # store THEN (heard \union Alive) \ {t} ELSE heard \ {t}
  /\ UNCHANGED <<offer, older, due, counts>>

(* dismiss: later, or never again for this version.                        *)
PutOff(t, forGood) ==
  /\ tabs[t].up /\ tabs[t].visible /\ tabs[t].owns /\ counts.putOffs < MaxPutOffs /\ Count("putOffs")
  /\ LET s == IF forGood THEN [store EXCEPT !.dismissed = tabs[t].id]
              ELSE [store EXCEPT !.snoozed = tabs[t].id] IN
     Rendered(t, tabs[t], [s EXCEPT !.owner = Nobody, !.age = 0])
  /\ Tell(t) /\ UNCHANGED <<offer, older, due>>
SnoozeEnds ==
  /\ store.snoozed # 0 /\ store' = [store EXCEPT !.snoozed = 0]
  /\ UNCHANGED <<offer, older, tabs, due, heard, counts>>

Released(t) == IF store.owner = t THEN [store EXCEPT !.owner = Nobody, !.age = 0] ELSE store
Moving == counts.moves < MaxTabMoves /\ Count("moves")
(* visibilityChanged: a hidden owner gives the lease back, and its timers  *)
(* no longer fire in time.                                                 *)
VisibilityChanges(t) ==
  /\ tabs[t].up /\ Moving
  /\ Rendered(t, [tabs[t] EXCEPT !.visible = ~@], IF tabs[t].visible THEN Released(t) ELSE store)
  /\ IF store' # store THEN Tell(t) ELSE UNCHANGED heard
  /\ due' = {d \in due : d[1] # t} /\ UNCHANGED <<offer, older>>
(* A page that dies leaves the lease; another page is opened in its place. *)
Dies(t) ==
  /\ tabs[t].up /\ Moving /\ tabs' = [tabs EXCEPT ![t] = [NewTab EXCEPT !.up = FALSE]]
  /\ due' = {d \in due : d[1] # t} /\ heard' = heard \ {t}
  /\ UNCHANGED <<offer, older, store>>
Opens(t) ==
  /\ ~tabs[t].up /\ tabs' = [tabs EXCEPT ![t] = NewTab]
  /\ UNCHANGED <<offer, older, store, due, heard, counts>>

(* Half the lease passes: the timers of visible pages fire once in it.      *)
Period ==
  /\ due = {}
  /\ due' = {t \in Alive : tabs[t].visible} \X {"lease", "own"}
  /\ store' = IF store.owner = Nobody THEN store
              ELSE [store EXCEPT !.age = IF @ < Expired THEN @ + 1 ELSE @]
  /\ UNCHANGED <<offer, older, tabs, heard, counts>>

NoticeTimers(t) == Refresh(t) \/ LeaseTimer(t) \/ OwnerTimer(t) \/ StorageChanged(t)
NoticeNext ==
  \/ Offered \/ Updated \/ SnoozeEnds \/ Period
  \/ \E t \in DshTabs :
       \/ NoticeTimers(t)
       \/ \E forGood \in BOOLEAN : PutOff(t, forGood)
       \/ VisibilityChanges(t) \/ Dies(t) \/ Opens(t)
NoticeSpec ==
  /\ NoticeInit /\ [][NoticeNext]_noticeVars
  /\ WF_noticeVars(Period)
  /\ \A t \in DshTabs :
       /\ WF_noticeVars(Refresh(t)) /\ WF_noticeVars(LeaseTimer(t))
       /\ WF_noticeVars(OwnerTimer(t)) /\ WF_noticeVars(StorageChanged(t))

(* ---- Properties. ------------------------------------------------------------ *)

Shows(t) == tabs[t].up /\ tabs[t].visible /\ tabs[t].owns

(* However pages are hidden, shown, lost and opened, at most one visible     *)
(* page shows the reminder.                                                  *)
OneNotice == \A t, u \in DshTabs : Shows(t) /\ Shows(u) => t = u

(* While a version is offered that was not put off and a page is visible,    *)
(* some page comes to show it: an owner that died does not keep it.          *)
NoticeWanted ==
  /\ offer.version \notin {0, store.dismissed, store.snoozed}
  /\ \E t \in DshTabs : tabs[t].up /\ tabs[t].visible
NoticeShown == NoticeWanted ~> (~NoticeWanted \/ \E t \in DshTabs : Shows(t))

(* A version dismissed for good stays dismissed until a page reads of an     *)
(* update that succeeded: no page takes it back for one it already was.      *)
DismissedStays ==
  [][store.dismissed # 0 /\ store'.dismissed = 0 => store'.cleared \notin {0, store.cleared}]_noticeVars

(* The reminder is shown when it is due, once, and not after a dismissal.  *)
NoticeRight == []OneNotice /\ NoticeShown /\ DismissedStays
=============================================================================
