----------------------------- MODULE ProxyRevisions -----------------------------
(***************************************************************************)
(* The configuration of the outbound proxy and what follows it: the        *)
(* revisions on disk, the snapshot the Proxy Manager works from, the       *)
(* routing state other processes fall back to, the connections kept open   *)
(* for a revision and the health it reports.  Requests of the data plane   *)
(* and changes of the configuration overlap.  Revisions are numbered in    *)
(* the order of their createdAt.                                           *)
(***************************************************************************)
EXTENDS Integers, FiniteSets, FiniteSetsExt

CONSTANTS
  Changes,        \* PUT /v1/configuration requests that may be open at once
  Connections,       \* data-plane requests that may be open at once
  MaxRevisions,   \* bound: revisions
  MaxFaults,      \* bound: crashes, failed writes and damaged files
  ChangesOverlap  \* whether a change may be accepted while one is being published

VARIABLES
  published,  \* revision directories that read back correctly
  created,    \* revisions created so far
  pointer,    \* current.json: a revision, 0 when absent, Damaged
  routing,    \* the revision in the routing state file
  stagedRevision,    \* the revision written to its temporary file, one for the whole process
  snapshot,   \* the revision the process works from, 0 while it is down
  change,     \* what each PUT request is doing
  request,    \* what each data-plane request is doing
  pool,       \* ProxyAgentPool: its revision and whether a connection of it is idle
  health,     \* ProxyRouteHealth: its revision and the revision an outcome came from
  acked,      \* the last revision a client was told of
  unpublished, \* whether the last attempt to publish the routing state failed
  faults, damage

revisionVars == <<published, created, pointer>>
routeVars == <<routing, stagedRevision, unpublished>>
planeVars == <<request, pool>>
faultVars == <<faults, damage>>
proxyVars == <<revisionVars, routeVars, planeVars, faultVars, snapshot, change, health, acked>>

Damaged == -1
NoProxyChange == [step |-> "idle", revision |-> 0, base |-> 0]
Calm == [step |-> "idle", revision |-> 0, retired |-> FALSE]
EmptyPool == [revision |-> 0, idle |-> 0]
Unseen == [revision |-> 0, outcome |-> 0]
ProxyInit ==
  /\ published = {} /\ created = 0 /\ pointer = 0 /\ snapshot = 0
  /\ routing = 0 /\ stagedRevision = 0
  /\ change = [c \in Changes |-> NoProxyChange]
  /\ request = [r \in Connections |-> Calm]
  /\ pool = EmptyPool /\ health = Unseen
  /\ acked = 0 /\ unpublished = FALSE /\ faults = 0 /\ damage = FALSE

------------------------------------------------------------------------------
(* The store.                                                              *)
Readable(r) == r \in published
(* load: the current revision, else the newest that reads back, else the   *)
(* default configuration as a new revision.                                *)
PointerReadable == pointer > 0 /\ Readable(pointer)
Load ==
  IF PointerReadable THEN /\ snapshot' = pointer /\ UNCHANGED revisionVars
  ELSE IF published # {}
    THEN /\ snapshot' = Max(published) /\ pointer' = snapshot'
         /\ UNCHANGED <<published, created>>
    ELSE /\ created < MaxRevisions
         /\ created' = created + 1 /\ published' = {created + 1}
         /\ pointer' = created + 1 /\ snapshot' = created + 1
Start ==
  /\ snapshot = 0 /\ Load /\ routing' = snapshot' /\ unpublished' = FALSE
  /\ UNCHANGED <<planeVars, faultVars, stagedRevision, change, health, acked>>

ChangeIs(c, step, revision) ==
  change' = [change EXCEPT ![c].step = step, ![c].revision = revision]
ChangeEnds(c) == change' = [change EXCEPT ![c] = NoProxyChange]
Storing == {"storing", "stored", "pointed"}
StoreFree == \A c \in Changes : change[c].step \notin Storing
Publishing(c) == change[c].step \in {"active", "written"}
Put(c) ==
  /\ snapshot # 0 /\ change[c].step = "idle"
  /\ (\A d \in Changes : ~Publishing(d)) \/ ChangesOverlap
  /\ acked # 0
  /\ change' = [change EXCEPT ![c] = [step |-> "queued", revision |-> 0, base |-> acked]]
  /\ UNCHANGED <<revisionVars, routeVars, planeVars, faultVars, snapshot, health, acked>>
(* commitUnlocked: the base is compared with what the pointer names.       *)
CompareBase(c) ==
  /\ change[c].step = "queued" /\ StoreFree
  /\ IF pointer = change[c].base /\ PointerReadable /\ created < MaxRevisions
     THEN ChangeIs(c, "storing", 0) ELSE ChangeEnds(c)
  /\ UNCHANGED <<revisionVars, routeVars, planeVars, faultVars, snapshot, health, acked>>
PublishRevision(c) ==
  /\ change[c].step = "storing" /\ created < MaxRevisions
  /\ created' = created + 1 /\ published' = published \union {created + 1}
  /\ ChangeIs(c, "stored", created + 1)
  /\ UNCHANGED <<routeVars, planeVars, faultVars, pointer, snapshot, health, acked>>
SwitchPointer(c) ==
  /\ change[c].step = "stored"
  /\ IF Readable(change[c].revision)
     THEN pointer' = change[c].revision /\ ChangeIs(c, "pointed", change[c].revision)
     ELSE UNCHANGED pointer /\ ChangeEnds(c)
  /\ UNCHANGED <<routeVars, planeVars, faultVars, published, created, snapshot, health, acked>>
(* A step fails: the pointer may already name the new revision.            *)
CommitFails(c) ==
  /\ change[c].step \in Storing /\ faults < MaxFaults
  /\ faults' = faults + 1 /\ ChangeEnds(c)
  /\ UNCHANGED <<revisionVars, routeVars, planeVars, snapshot, health, acked, damage>>
(* commitConfiguration: the snapshot, then the routing state.              *)
DefectActivate(c) ==
  /\ change[c].step \in {"stored", "pointed"}
  /\ snapshot' = change[c].revision
  /\ ChangeIs(c, "active", change[c].revision)
  /\ UNCHANGED <<revisionVars, routeVars, planeVars, faultVars, health, acked>>
ActivateRevision(c) ==
  /\ change[c].step = "pointed"
  /\ snapshot' = change[c].revision
  /\ ChangeIs(c, "active", change[c].revision)
  /\ UNCHANGED <<revisionVars, routeVars, planeVars, faultVars, health, acked>>
(* A change that renames the file another one wrote answers all the same;  *)
(* the other one finds nothing to rename and fails.                        *)
WriteRouting(c) ==
  /\ change[c].step = "active"
  /\ stagedRevision' = change[c].revision /\ ChangeIs(c, "written", change[c].revision)
  /\ UNCHANGED <<revisionVars, planeVars, faultVars, routing, snapshot, health, acked, unpublished>>
(* PUT answers, and GET, with routeHealth.status of the revision they show. *)
Answered(revision) ==
  /\ health' = IF health.revision = revision THEN health ELSE [revision |-> revision, outcome |-> 0]
  /\ acked' = IF revision > acked THEN revision ELSE acked
RenameRouting(c) ==
  /\ change[c].step = "written" /\ ChangeEnds(c) /\ stagedRevision' = 0
  /\ IF stagedRevision = 0 THEN UNCHANGED <<routing, health, acked, unpublished>>
     ELSE routing' = stagedRevision /\ unpublished' = FALSE /\ Answered(change[c].revision)
  /\ UNCHANGED <<revisionVars, planeVars, faultVars, snapshot>>
(* The change stays in force although its request fails.                   *)
PublishFails(c) ==
  /\ Publishing(c) /\ faults < MaxFaults /\ faults' = faults + 1
  /\ ChangeEnds(c) /\ unpublished' = TRUE
  /\ UNCHANGED <<revisionVars, planeVars, routing, stagedRevision, snapshot, health, acked, damage>>
GetStatus ==
  /\ snapshot # 0 /\ Answered(snapshot)
  /\ UNCHANGED <<revisionVars, routeVars, planeVars, faultVars, snapshot, change>>

------------------------------------------------------------------------------
(* The data plane.  A request works from the snapshot it began with.       *)
RequestIs(r, step, revision) ==
  request' = [request EXCEPT ![r] = [step |-> step, revision |-> revision, retired |-> FALSE]]
Begin(r) ==
  /\ snapshot # 0 /\ request[r].step = "idle"
  /\ RequestIs(r, "routing", snapshot)
  /\ UNCHANGED <<revisionVars, routeVars, faultVars, snapshot, change, pool, health, acked>>
(* agentFor, once the route is known (after a DNS query): the entries of   *)
(* every other revision are retired, even newer ones.                      *)
AgentFor(r) ==
  LET revision == request[r].revision IN
  /\ request[r].step = "routing"
  /\ pool' = [revision |-> revision, idle |-> 0]
  /\ request' = [q \in Connections |->
       IF q = r THEN [step |-> "connected", revision |-> revision, retired |-> FALSE]
       ELSE IF request[q].step = "connected" /\ request[q].revision # revision
         THEN [request[q] EXCEPT !.retired = TRUE] ELSE request[q]]
  /\ UNCHANGED <<revisionVars, routeVars, faultVars, snapshot, change, health, acked>>
(* observeRouteHealth: only for the revision in force.                     *)
Observed(revision) ==
  IF revision # snapshot THEN health ELSE [revision |-> revision, outcome |-> revision]
(* The connection becomes idle, or is closed because its entry is retired. *)
KeptIdle(r) == ~request[r].retired
RequestEnds(r) ==
  /\ request[r].step = "connected"
  /\ health' = Observed(request[r].revision)
  /\ pool' = IF KeptIdle(r) THEN [pool EXCEPT !.idle = request[r].revision] ELSE pool
  /\ RequestIs(r, "idle", 0)
  /\ UNCHANGED <<revisionVars, routeVars, faultVars, snapshot, change, acked>>
RequestFails(r) ==
  /\ request[r].step # "idle"
  /\ health' = Observed(request[r].revision)
  /\ RequestIs(r, "idle", 0)
  /\ UNCHANGED <<revisionVars, routeVars, faultVars, snapshot, change, pool, acked>>

------------------------------------------------------------------------------
(* Faults.                                                                 *)
Stop ==
  /\ snapshot # 0 /\ faults < MaxFaults /\ faults' = faults + 1
  /\ snapshot' = 0 /\ stagedRevision' = 0 /\ pool' = EmptyPool /\ health' = Unseen
  /\ change' = [c \in Changes |-> NoProxyChange] /\ request' = [r \in Connections |-> Calm]
  /\ UNCHANGED <<revisionVars, routing, acked, unpublished, damage>>
Damage ==
  /\ faults < MaxFaults /\ faults' = faults + 1 /\ damage' = TRUE
  /\ \/ pointer' = Damaged /\ UNCHANGED published
     \/ \E r \in published : published' = published \ {r} /\ UNCHANGED pointer
  /\ UNCHANGED <<routeVars, planeVars, created, snapshot, change, health, acked>>

ProxyNext ==
  \/ Start \/ GetStatus \/ Stop \/ Damage
  \/ \E c \in Changes :
       \/ Put(c) \/ CompareBase(c) \/ PublishRevision(c) \/ SwitchPointer(c)
       \/ CommitFails(c) \/ PublishFails(c) \/ ActivateRevision(c) \/ WriteRouting(c) \/ RenameRouting(c)
  \/ \E r \in Connections : Begin(r) \/ AgentFor(r) \/ RequestEnds(r) \/ RequestFails(r)
ProxySpec == ProxyInit /\ [][ProxyNext]_proxyVars

------------------------------------------------------------------------------
Revisions == 0..MaxRevisions
(* Every variable keeps its type.                                          *)
ProxyType ==
  /\ published \subseteq 1..created /\ created \in Revisions
  /\ pointer \in Revisions \union {Damaged} /\ routing \in Revisions /\ snapshot \in Revisions
  /\ \A c \in Changes : change[c].revision \in Revisions
  /\ \A r \in Connections : request[r].revision \in Revisions
  /\ stagedRevision \in Revisions /\ pool.revision \in Revisions /\ health.revision \in Revisions

(* A configuration a client was told of outlives crashes and failed        *)
(* changes: while no file is damaged, the pointer never names an older one *)
(* and the process never works from an older one.                          *)
AcknowledgedKept ==
  ~damage => /\ acked <= pointer /\ (pointer # 0 => Readable(pointer))
             /\ snapshot # 0 => acked <= snapshot

(* The health the status reports for a revision was observed on a route of *)
(* that revision, however late a request of an older one ends.             *)
HealthHonest == health.outcome \in {0, health.revision}

(* Every idle connection belongs to the revision the pool serves: the      *)
(* credentials of another revision are not kept in use.                    *)
IdleCurrent == pool.idle \in {0, pool.revision}

(* The routing state other processes fall back to is the configuration in  *)
(* force whenever no change is being published, unless publishing it failed. *)
RoutingCurrent ==
  snapshot # 0 /\ (\A c \in Changes : ~Publishing(c)) =>
    routing = snapshot \/ unpublished

(* The process works from the newest configuration anyone was told of, and *)
(* what it shows, keeps open and hands on belongs to that configuration.   *)
RevisionInForce == AcknowledgedKept /\ HealthHonest /\ IdleCurrent /\ RoutingCurrent
==============================================================================
