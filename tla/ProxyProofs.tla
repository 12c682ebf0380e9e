----------------------------- MODULE ProxyProofs -----------------------------
(***************************************************************************)
(* Proofs about the configuration of the outbound proxy, ProxyRevisions:   *)
(* the revision in force, when one change is published at a time; and      *)
(* about the tab that edits it, ConsoleProxy: what a save may change.      *)
(* And about the log, LogStream: what a follower of it sends and shows.    *)
(***************************************************************************)
EXTENDS ProxyRevisions, ConsoleProxy, LogStream, ProxyTests, FiniteSetTheorems, WellFoundedInduction, TLAPS

(* A change is refused while another one is being published.               *)
OneByOne == ChangesOverlap = FALSE

Steps == {"idle", "queued", "storing", "stored", "pointed", "active", "written"}
Busy(c) == change[c].step \in {"storing", "stored", "pointed", "active", "written"}
InForce(c) == change[c].step \in {"pointed", "active", "written"}

Types ==
  /\ created \in Nat /\ published \subseteq 1..created
  /\ pointer \in Nat \union {-1}
  /\ snapshot \in Nat /\ routing \in Nat /\ stagedRevision \in Nat /\ acked \in Nat
  /\ change \in [Changes -> [step : Steps, revision : Nat, base : Nat]]
  /\ request \in [Connections -> [step : {"idle", "routing", "connected"}, revision : Nat, retired : BOOLEAN]]
  /\ pool \in [revision : Nat, idle : Nat] /\ health \in [revision : Nat, outcome : Nat]
  /\ unpublished \in BOOLEAN /\ damage \in BOOLEAN

(* What is on disk: nothing is newer than the last revision created.       *)
StoreKnown ==
  /\ snapshot <= created /\ acked <= created /\ pointer <= created
  /\ damage = FALSE =>
       /\ acked <= pointer
       /\ pointer # 0 => pointer \in published
       /\ pointer = 0 => published = {}
       /\ snapshot # 0 => acked <= snapshot /\ snapshot <= pointer

(* One change at a time is past the comparison with its base: a change that *)
(* waits has a base older than the one that is switched to.                *)
ChangesKnown ==
  /\ snapshot = 0 => \A c \in Changes : change[c].step = "idle"
  /\ \A c, d \in Changes : Busy(c) /\ Busy(d) => c = d
  /\ \A c \in Changes :
       /\ change[c].step = "queued" => change[c].base # 0 /\ change[c].base <= acked
       /\ change[c].step \in {"stored", "pointed"} =>
            /\ snapshot < change[c].revision /\ acked < change[c].revision
            /\ change[c].revision <= created
       /\ change[c].step = "stored" =>
            /\ pointer < change[c].revision
            /\ damage = FALSE => change[c].revision \in published
       /\ InForce(c) => pointer \in {change[c].revision, -1}
       /\ Publishing(c) => change[c].revision = snapshot
       /\ change[c].step = "written" => stagedRevision = change[c].revision
  /\ \A c, d \in Changes :
       InForce(c) /\ change[d].step = "queued" => change[d].base < change[c].revision

RoutingKnown ==
  snapshot # 0 /\ (\A c \in Changes : ~Publishing(c)) => routing = snapshot \/ unpublished = TRUE

(* A connection of another revision than the pool's is retired.            *)
PlaneKnown ==
  /\ \A r \in Connections :
       request[r].step = "connected" /\ request[r].retired = FALSE => request[r].revision = pool.revision
  /\ pool.idle \in {0, pool.revision}
  /\ health.outcome \in {0, health.revision}

ProxyKnown == Types /\ StoreKnown /\ ChangesKnown /\ RoutingKnown /\ PlaneKnown

-----------------------------------------------------------------------------
(* The newest revision there is. *)

LEMMA LeastNatural ==
  ASSUME NEW S \in SUBSET Nat, S # {}
  PROVE  \E m \in S : \A y \in S : ~(y < m)
<1> DEFINE R == {ss \in Nat \X Nat : ss[1] < ss[2]}
<1>1. IsWellFoundedOn(R, Nat)
  BY NatLessThanWellFounded DEF OpToRel
<1> HIDE DEF R
<1>2. \E x \in S : \A y \in S : ~ (<<y, x>> \in R)
  BY <1>1, WFMin
<1> QED
  BY <1>2 DEF R

LEMMA NewestRevision ==
  ASSUME NEW n \in Nat, NEW S \in SUBSET (1..n), S # {}
  PROVE  Max(S) \in S
<1> DEFINE T == {n - x : x \in S}
<1>1. PICK m \in T : \A y \in T : ~(y < m)
  <2>1. \A y \in T : y \in Nat
    OBVIOUS
  <2>2. T # {}
    OBVIOUS
  <2> HIDE DEF T
  <2> QED
    BY <2>1, <2>2, LeastNatural
<1>2. PICK x \in S : m = n - x
  OBVIOUS
<1>3. \A y \in S : x >= y
  <2> TAKE y \in S
  <2>1. ~(n - y < n - x)
    BY <1>1, <1>2
  <2>2. x \in 1..n /\ y \in 1..n
    BY Zenon
  <2>3. x \in Int /\ y \in Int
    BY <2>2
  <2> QED
    BY <2>1, <2>3
<1> QED
  BY <1>3 DEF Max

-----------------------------------------------------------------------------
LEMMA ProxyInitial == ProxyInit => ProxyKnown
<1> SUFFICES ASSUME ProxyInit PROVE ProxyKnown
  OBVIOUS
<1>1. StoreKnown
  BY DEF ProxyInit, StoreKnown
<1>5. Types
  <2>1. change \in [Changes -> [step : Steps, revision : Nat, base : Nat]]
    BY DEF ProxyInit, NoProxyChange, Steps
  <2>2. request \in [Connections -> [step : {"idle", "routing", "connected"}, revision : Nat,
                                  retired : BOOLEAN]]
    BY DEF ProxyInit, Calm
  <2> QED
    BY <2>1, <2>2 DEF ProxyInit, EmptyPool, Unseen, Types
<1>2. \A c \in Changes : change[c].step = "idle"
  BY DEF ProxyInit, NoProxyChange
<1>3. ChangesKnown
  BY <1>2 DEF ChangesKnown, Busy, InForce, Publishing
<1>4. RoutingKnown /\ PlaneKnown
  BY DEF ProxyInit, Calm, EmptyPool, Unseen, RoutingKnown, PlaneKnown
<1> QED
  BY <1>1, <1>3, <1>4, <1>5 DEF ProxyKnown

LEMMA StartKept ==
  ASSUME ProxyKnown, Start
  PROVE  ProxyKnown'
<1> USE DEF ProxyKnown
<1>1. /\ snapshot' \in Nat /\ snapshot' # 0 /\ snapshot' <= created'
      /\ created' \in Nat /\ created <= created' /\ published' \subseteq 1..created'
      /\ pointer' = snapshot' /\ pointer' \in published'
      /\ damage = FALSE => acked <= snapshot'
  <2>1. CASE PointerReadable
    <3>1. snapshot' = pointer /\ UNCHANGED <<published, created, pointer>>
      BY <2>1 DEF Start, Load, revisionVars
    <3>2. pointer \in published
      BY <2>1 DEF PointerReadable, Readable
    <3> QED
      BY <3>1, <3>2 DEF Types, StoreKnown
  <2>2. CASE ~PointerReadable /\ published # {}
    <3>1. Max(published) \in published
      BY <2>2, NewestRevision DEF Types
    <3>2. snapshot' = Max(published)
      BY <2>2 DEF Start, Load
    <3>7. pointer' = snapshot' /\ UNCHANGED <<published, created>>
      BY <2>2 DEF Start, Load
    <3>3. damage # FALSE
      <4> SUFFICES ASSUME damage = FALSE PROVE FALSE
        OBVIOUS
      <4>1. pointer \in published
        BY <2>2 DEF StoreKnown
      <4>2. pointer > 0
        BY <4>1 DEF Types
      <4> QED
        BY <2>2, <4>1, <4>2 DEF PointerReadable, Readable
    <3>4. snapshot' \in published /\ created \in Nat /\ published \subseteq 1..created
      BY <3>1, <3>2 DEF Types
    <3>5. snapshot' \in 1..created
      BY <3>4
    <3>6. snapshot' \in Nat /\ snapshot' # 0 /\ snapshot' <= created
      BY <3>4, <3>5
    <3>8. created' = created /\ published' = published
      BY <3>7
    <3>9. pointer' = snapshot' /\ pointer' \in published'
      BY <3>4, <3>7, <3>8
    <3>10. /\ created' \in Nat /\ created <= created' /\ published' \subseteq 1..created'
           /\ snapshot' <= created'
      BY <3>4, <3>6, <3>8
    <3> QED
      BY <3>3, <3>6, <3>9, <3>10
  <2>3. CASE ~PointerReadable /\ published = {}
    BY <2>3 DEF Start, Load, Types, StoreKnown
  <2> QED
    BY <2>1, <2>2, <2>3
<1>2. routing' = snapshot' /\ UNCHANGED <<request, pool, faults, damage, stagedRevision, change, health, acked>>
      /\ unpublished' = FALSE /\ snapshot = 0
  BY DEF Start, planeVars, faultVars
<1>3. Types'
  BY <1>1, <1>2 DEF Types
<1>4. StoreKnown'
  BY <1>1, <1>2 DEF Types, StoreKnown
<1>5. ChangesKnown'
  BY <1>1, <1>2 DEF ChangesKnown, Busy, InForce, Publishing
<1>6. RoutingKnown' /\ PlaneKnown'
  BY <1>1, <1>2 DEF RoutingKnown, PlaneKnown
<1> QED
  BY <1>3, <1>4, <1>5, <1>6

LEMMA FaultsKept ==
  ASSUME ProxyKnown, Stop \/ Damage
  PROVE  ProxyKnown'
<1>1. CASE Stop
  BY <1>1 DEF Stop, revisionVars, NoProxyChange, Calm, EmptyPool, Unseen, ProxyKnown, Types, StoreKnown, ChangesKnown,
         RoutingKnown, PlaneKnown, Steps, Busy, InForce, Publishing
<1>2. CASE Damage
  <2> USE DEF Damage, Damaged, routeVars, planeVars, ProxyKnown
  <2>1. /\ pointer' \in {pointer, -1} /\ published' \subseteq published /\ damage' = TRUE
        /\ UNCHANGED <<routing, stagedRevision, unpublished, request, pool, created, snapshot, change, health,
                       acked>>
    BY <1>2
  <2>2. Types'
    BY <2>1 DEF Types
  <2>3. StoreKnown'
    BY <2>1 DEF Types, StoreKnown
  <2>4. ChangesKnown'
    BY <2>1 DEF Types, ChangesKnown, Busy, InForce, Publishing
  <2>5. RoutingKnown' /\ PlaneKnown'
    BY <2>1 DEF RoutingKnown, PlaneKnown, Publishing
  <2> QED
    BY <2>2, <2>3, <2>4, <2>5
<1> QED
  BY <1>1, <1>2

(* The data plane touches nothing but its own state. *)
LEMMA PlaneKept ==
  ASSUME ProxyKnown, NEW r \in Connections, Begin(r) \/ AgentFor(r) \/ RequestEnds(r) \/ RequestFails(r)
  PROVE  ProxyKnown'
<1> USE DEF ProxyKnown
<1>1. UNCHANGED <<revisionVars, routeVars, faultVars, snapshot, change, acked>>
  BY DEF Begin, AgentFor, RequestEnds, RequestFails
<1>2. StoreKnown' /\ ChangesKnown' /\ RoutingKnown'
  BY <1>1 DEF revisionVars, routeVars, faultVars, StoreKnown, ChangesKnown, RoutingKnown, Busy, InForce,
              Publishing
<1>3. /\ request' \in [Connections -> [step : {"idle", "routing", "connected"}, revision : Nat,
                                    retired : BOOLEAN]]
      /\ pool' \in [revision : Nat, idle : Nat] /\ health' \in [revision : Nat, outcome : Nat]
      /\ PlaneKnown'
  <2> USE DEF Types, PlaneKnown, RequestIs, Observed
  <2>1. CASE Begin(r)
    BY <2>1 DEF Begin
  <2>2. CASE AgentFor(r)
    <3>1. request' \in [Connections -> [step : {"idle", "routing", "connected"}, revision : Nat,
                                     retired : BOOLEAN]]
      BY <2>2 DEF AgentFor
    <3>2. pool' = [revision |-> request[r].revision, idle |-> 0] /\ health' = health
      BY <2>2 DEF AgentFor
    <3>3. \A q \in Connections :
            request'[q].step = "connected" /\ request'[q].retired = FALSE
            => request'[q].revision = request[r].revision
      BY <2>2 DEF AgentFor
    <3> QED
      BY <3>1, <3>2, <3>3
  <2>3. CASE RequestEnds(r)
    <3>1. /\ request[r].step = "connected" /\ RequestIs(r, "idle", 0)
          /\ health' = Observed(request[r].revision)
          /\ pool' = IF KeptIdle(r) THEN [pool EXCEPT !.idle = request[r].revision] ELSE pool
      BY <2>3 DEF RequestEnds
    <3>2. request' \in [Connections -> [step : {"idle", "routing", "connected"}, revision : Nat,
                                     retired : BOOLEAN]]
      BY <3>1
    <3>3. pool' \in [revision : Nat, idle : Nat] /\ pool'.revision = pool.revision
      BY <3>1
    <3>4. health' \in [revision : Nat, outcome : Nat] /\ health'.outcome \in {0, health'.revision}
      BY <3>1
    <3>5. pool'.idle \in {0, pool'.revision}
      BY <3>1 DEF KeptIdle
    <3>6. \A q \in Connections :
            request'[q].step = "connected" /\ request'[q].retired = FALSE
            => request'[q].revision = pool'.revision
      BY <3>1, <3>3
    <3> QED
      BY <3>2, <3>3, <3>4, <3>5, <3>6
  <2>4. CASE RequestFails(r)
    BY <2>4 DEF RequestFails
  <2> QED
    BY <2>1, <2>2, <2>3, <2>4
<1>4. Types'
  BY <1>1, <1>3 DEF Types, revisionVars, routeVars, faultVars
<1> QED
  BY <1>2, <1>3, <1>4

(* A change goes from one step to the next; the others are left alone.     *)
LEMMA ChangeMoves ==
  ASSUME Types, NEW c \in Changes, NEW step \in Steps, NEW revision \in Nat,
         ChangeIs(c, step, revision) \/ (ChangeEnds(c) /\ step = "idle" /\ revision = 0)
  PROVE  /\ change' \in [Changes -> [step : Steps, revision : Nat, base : Nat]]
         /\ change'[c].step = step /\ change'[c].revision = revision
         /\ step # "idle" => change'[c].base = change[c].base
         /\ \A d \in Changes : d # c => change'[d] = change[d]
<1>1. CASE ChangeIs(c, step, revision)
  BY <1>1 DEF Types, ChangeIs
<1>2. CASE ChangeEnds(c) /\ step = "idle" /\ revision = 0
  BY <1>2 DEF Types, ChangeEnds, NoProxyChange, Steps
<1> QED
  BY <1>1, <1>2

LEMMA CommitKept ==
  ASSUME OneByOne, ProxyKnown, NEW c \in Changes,
         Put(c) \/ CompareBase(c) \/ PublishRevision(c) \/ SwitchPointer(c) \/ CommitFails(c)
  PROVE  ProxyKnown'
<1> USE DEF ProxyKnown, Types, StoreKnown, ChangesKnown, RoutingKnown, PlaneKnown, Steps, Busy, InForce,
            Publishing, revisionVars, routeVars, planeVars, faultVars
<1>1. CASE Put(c)
  BY <1>1 DEF Put, OneByOne
<1>2. CASE CompareBase(c)
  <2>1. /\ change[c].step = "queued" /\ StoreFree
        /\ UNCHANGED <<published, created, pointer, routing, stagedRevision, unpublished, request, pool, faults,
                       damage, snapshot, health, acked>>
    BY <1>2 DEF CompareBase
  <2>2. CASE ChangeEnds(c)
    BY <2>1, <2>2 DEF StoreFree, Storing, ChangeEnds, NoProxyChange
  <2>3. CASE pointer = change[c].base /\ ChangeIs(c, "storing", 0)
    <3>1. /\ change' \in [Changes -> [step : Steps, revision : Nat, base : Nat]]
          /\ change'[c].step = "storing"
          /\ \A d \in Changes : d # c => change'[d] = change[d]
      BY <2>3, ChangeMoves
    <3>2. \A d \in Changes : ~Busy(d)
      <4>1. \A d \in Changes : ~InForce(d)
        BY <2>1, <2>3
      <4>2. \A d \in Changes : change[d].step \notin {"storing", "stored", "pointed"}
        BY <2>1 DEF StoreFree, Storing
      <4> QED
        BY <4>1, <4>2
    <3>3. Types' /\ StoreKnown' /\ PlaneKnown'
      BY <2>1, <3>1
    <3>4. \A d \in Changes : d # c => change'[d].step \in {"idle", "queued"}
      BY <3>1, <3>2
    <3>5. ChangesKnown' /\ RoutingKnown'
      BY <2>1, <3>1, <3>2, <3>4
    <3> QED
      BY <3>3, <3>5
  <2> QED
    BY <1>2, <2>2, <2>3 DEF CompareBase
<1>3. CASE PublishRevision(c)
  <2>1. /\ change[c].step = "storing" /\ created' = created + 1
        /\ published' = published \union {created + 1}
        /\ UNCHANGED <<routing, stagedRevision, unpublished, request, pool, faults, damage, pointer, snapshot,
                       health, acked>>
    BY <1>3 DEF PublishRevision
  <2>2. /\ change' \in [Changes -> [step : Steps, revision : Nat, base : Nat]]
        /\ change'[c].step = "stored" /\ change'[c].revision = created + 1
        /\ \A d \in Changes : d # c => change'[d] = change[d]
    BY <1>3, ChangeMoves DEF PublishRevision
  <2>3. Types' /\ StoreKnown' /\ PlaneKnown'
    BY <2>1, <2>2
  <2>4. ChangesKnown' /\ RoutingKnown'
    BY <2>1, <2>2
  <2> QED
    BY <2>3, <2>4
<1>4. CASE SwitchPointer(c)
  <2>1. CASE Readable(change[c].revision)
    <3>1. /\ change[c].step = "stored" /\ pointer' = change[c].revision
          /\ change[c].revision \in published
          /\ UNCHANGED <<routing, stagedRevision, unpublished, request, pool, faults, damage, published, created,
                         snapshot, health, acked>>
      BY <1>4, <2>1 DEF SwitchPointer, Readable
    <3>2. /\ change' \in [Changes -> [step : Steps, revision : Nat, base : Nat]]
          /\ change'[c].step = "pointed" /\ change'[c].revision = change[c].revision
          /\ \A d \in Changes : d # c => change'[d] = change[d]
      BY <1>4, <2>1, ChangeMoves DEF SwitchPointer
    <3>3. Types'
      BY <3>1, <3>2
    <3>4. StoreKnown'
      BY <3>1, <3>2
    <3>5. \A d \in Changes \ {c} : change[d].step \in {"idle", "queued"}
      BY <3>1
    <3>6. ChangesKnown'
      <4>1. /\ snapshot' # 0 /\ change'[c].step = "pointed" /\ pointer' = change'[c].revision
            /\ snapshot' < change'[c].revision /\ acked' < change'[c].revision
            /\ change'[c].revision <= created'
        BY <3>1, <3>2
      <4>2. \A d \in Changes : d # c =>
              /\ change'[d].step \in {"idle", "queued"}
              /\ change'[d].step = "queued" =>
                   change'[d].base # 0 /\ change'[d].base <= acked' /\ change'[d].base < change'[c].revision
        BY <3>1, <3>2, <3>5
      <4> QED
        BY <4>1, <4>2
    <3>7. RoutingKnown' /\ PlaneKnown'
      BY <3>1, <3>2
    <3> QED
      BY <3>3, <3>4, <3>6, <3>7
  <2>2. CASE ~Readable(change[c].revision)
    BY <1>4, <2>2 DEF SwitchPointer, ChangeEnds, NoProxyChange
  <2> QED
    BY <2>1, <2>2
<1>5. CASE CommitFails(c)
  BY <1>5 DEF CommitFails, Storing, ChangeIs, ChangeEnds, NoProxyChange
<1> QED
  BY <1>1, <1>2, <1>3, <1>4, <1>5

LEMMA PublicationKept ==
  ASSUME ProxyKnown, NEW c \in Changes,
         PublishFails(c) \/ ActivateRevision(c) \/ WriteRouting(c) \/ RenameRouting(c)
  PROVE  ProxyKnown'
<1> USE DEF ProxyKnown, Types, StoreKnown, ChangesKnown, RoutingKnown, PlaneKnown, Steps, Busy, InForce,
            Publishing, revisionVars, routeVars, planeVars, faultVars
<1>1. CASE PublishFails(c)
  <2>1. /\ Publishing(c) /\ unpublished' = TRUE
        /\ change' = [change EXCEPT ![c] = NoProxyChange]
        /\ UNCHANGED <<published, created, pointer, routing, stagedRevision, request, pool, damage, snapshot, health,
                       acked>>
    BY <1>1 DEF PublishFails, ChangeEnds
  <2>2. /\ change' \in [Changes -> [step : Steps, revision : Nat, base : Nat]]
        /\ change'[c].step = "idle"
        /\ \A d \in Changes : d # c => change'[d] = change[d]
    BY <2>1 DEF NoProxyChange
  <2>3. Types' /\ StoreKnown' /\ PlaneKnown' /\ RoutingKnown'
    BY <2>1, <2>2
  <2>4. ChangesKnown'
    <3>1. \A d \in Changes : change'[d].step \in {"idle", "queued"}
      BY <2>1, <2>2
    <3>2. \A d \in Changes : change'[d].step = "queued" => change'[d].base # 0 /\ change'[d].base <= acked'
      BY <2>1, <2>2
    <3>3. snapshot' # 0
      BY <2>1
    <3> HIDE DEF ProxyKnown
    <3> QED
      BY <3>1, <3>2, <3>3
  <2> QED
    BY <2>3, <2>4
<1>2. CASE ActivateRevision(c)
  <2>1. /\ change[c].step = "pointed" /\ snapshot' = change[c].revision
        /\ UNCHANGED <<published, created, pointer, routing, stagedRevision, unpublished, request, pool, faults,
                       damage, health, acked>>
    BY <1>2 DEF ActivateRevision
  <2>2. /\ change' \in [Changes -> [step : Steps, revision : Nat, base : Nat]]
        /\ change'[c].step = "active" /\ change'[c].revision = change[c].revision
        /\ \A d \in Changes : d # c => change'[d] = change[d]
    BY <1>2, ChangeMoves DEF ActivateRevision
  <2>3. Types' /\ StoreKnown' /\ PlaneKnown'
    BY <2>1, <2>2
  <2>4. ChangesKnown'
    <3>1. \A d \in Changes : d # c => change'[d] = change[d] /\ change[d].step \in {"idle", "queued"}
      BY <2>1, <2>2
    <3>2. \A d \in Changes : Busy(d)' => d = c
      BY <3>1
    <3>3. \A d \in Changes :
             change'[d].step = "queued" =>
               /\ change'[d].base # 0 /\ change'[d].base <= acked'
               /\ change'[d].base < change'[c].revision
      <4> SUFFICES ASSUME NEW d \in Changes, change'[d].step = "queued"
                   PROVE  /\ change'[d].base # 0 /\ change'[d].base <= acked'
                          /\ change'[d].base < change'[c].revision
        OBVIOUS
      <4>1. d # c /\ change'[d] = change[d] /\ change[d].step = "queued"
        BY <2>2, <3>1
      <4>2. change[d].base # 0 /\ change[d].base <= acked /\ change[d].base < change[c].revision
        BY <2>1, <4>1
      <4> QED
        BY <2>1, <2>2, <4>1, <4>2
    <3>4. /\ pointer' \in {change'[c].revision, -1} /\ change'[c].revision = snapshot'
      BY <2>1, <2>2
    <3>5. snapshot' # 0
      BY <2>1
    <3>6. \A d \in Changes : change'[d].step \notin {"stored", "pointed"}
      BY <2>2, <3>1
    <3> HIDE DEF ProxyKnown
    <3> QED
      BY <2>2, <3>2, <3>3, <3>4, <3>5, <3>6
  <2>5. RoutingKnown'
    <3> HIDE DEF ProxyKnown
    <3> QED
      BY <2>2
  <2> QED
    BY <2>3, <2>4, <2>5
<1>3. CASE WriteRouting(c)
  <2>1. /\ change[c].step = "active" /\ stagedRevision' = change[c].revision
        /\ UNCHANGED <<published, created, pointer, routing, unpublished, request, pool, faults,
                       damage, snapshot, health, acked>>
    BY <1>3 DEF WriteRouting
  <2>2. /\ change' \in [Changes -> [step : Steps, revision : Nat, base : Nat]]
        /\ change'[c].step = "written" /\ change'[c].revision = change[c].revision
        /\ \A d \in Changes : d # c => change'[d] = change[d]
    BY <1>3, ChangeMoves DEF WriteRouting
  <2>3. Types' /\ StoreKnown' /\ PlaneKnown'
    BY <2>1, <2>2
  <2>4. ChangesKnown'
    <3>1. \A d \in Changes : d # c => change'[d] = change[d] /\ change[d].step \in {"idle", "queued"}
      BY <2>1, <2>2
    <3>2. \A d \in Changes : Busy(d)' => d = c
      BY <3>1
    <3>3. \A d \in Changes :
             change'[d].step = "queued" =>
               /\ change'[d].base # 0 /\ change'[d].base <= acked'
               /\ change'[d].base < change'[c].revision
      <4> SUFFICES ASSUME NEW d \in Changes, change'[d].step = "queued"
                   PROVE  /\ change'[d].base # 0 /\ change'[d].base <= acked'
                          /\ change'[d].base < change'[c].revision
        OBVIOUS
      <4>1. d # c /\ change'[d] = change[d] /\ change[d].step = "queued"
        BY <2>2, <3>1
      <4>2. change[d].base # 0 /\ change[d].base <= acked /\ change[d].base < change[c].revision
        BY <2>1, <4>1
      <4> QED
        BY <2>1, <2>2, <4>1, <4>2
    <3>4. /\ pointer' \in {change'[c].revision, -1} /\ change'[c].revision = snapshot'
          /\ stagedRevision' = change'[c].revision
      BY <2>1, <2>2
    <3>5. snapshot' # 0
      BY <2>1
    <3>6. \A d \in Changes : change'[d].step \notin {"stored", "pointed"}
      BY <2>2, <3>1
    <3> HIDE DEF ProxyKnown
    <3> QED
      BY <2>2, <3>2, <3>3, <3>4, <3>5, <3>6
  <2>5. RoutingKnown'
    <3> HIDE DEF ProxyKnown
    <3> QED
      BY <2>2
  <2> QED
    BY <2>3, <2>4, <2>5
<1>4. CASE RenameRouting(c)
  <2>1. /\ change[c].step = "written" /\ change[c].revision = snapshot /\ stagedRevision = snapshot
        /\ snapshot # 0
    BY <1>4 DEF RenameRouting
  <2>2. /\ routing' = snapshot /\ unpublished' = FALSE /\ stagedRevision' = 0
        /\ health' = IF health.revision = snapshot THEN health ELSE [revision |-> snapshot, outcome |-> 0]
        /\ acked' = IF snapshot > acked THEN snapshot ELSE acked
        /\ UNCHANGED <<published, created, pointer, request, pool, faults, damage, snapshot>>
    BY <1>4, <2>1 DEF RenameRouting, Answered
  <2>3. /\ change' \in [Changes -> [step : Steps, revision : Nat, base : Nat]]
        /\ change'[c].step = "idle"
        /\ \A d \in Changes : d # c => change'[d] = change[d]
    BY <1>4 DEF RenameRouting, ChangeEnds, NoProxyChange
  <2>4. Types'
    BY <2>1, <2>2, <2>3
  <2>5. StoreKnown'
    BY <2>1, <2>2, <2>3
  <2>6. ChangesKnown'
    <3>1. \A d \in Changes : Busy(d) => d = c
      BY <2>1
    <3>2. \A d \in Changes : change'[d].step \in {"idle", "queued"}
      BY <2>3, <3>1
    <3>3. acked' >= acked
      BY <2>2
    <3>4. \A d \in Changes : change'[d].step = "queued" => change'[d].base # 0 /\ change'[d].base <= acked'
      <4> SUFFICES ASSUME NEW d \in Changes, change'[d].step = "queued"
                   PROVE  change'[d].base # 0 /\ change'[d].base <= acked'
        OBVIOUS
      <4>1. change'[d] = change[d]
        BY <2>3
      <4>2. change[d].base # 0 /\ change[d].base <= acked
        BY <4>1
      <4>3. change[d].base \in Nat /\ acked \in Nat /\ acked' \in Nat
        BY <2>4
      <4> HIDE DEF ProxyKnown
      <4> QED
        BY <3>3, <4>1, <4>2, <4>3
    <3> QED
      BY <2>1, <2>2, <3>2, <3>4
  <2>7. RoutingKnown' /\ PlaneKnown'
    BY <2>1, <2>2, <2>3
  <2> QED
    BY <2>4, <2>5, <2>6, <2>7
<1> QED
  BY <1>1, <1>2, <1>3, <1>4

LEMMA StatusKept ==
  ASSUME ProxyKnown, GetStatus
  PROVE  ProxyKnown'
  BY DEF GetStatus, Answered, revisionVars, routeVars, planeVars, faultVars, ProxyKnown, Types, StoreKnown,
         ChangesKnown, RoutingKnown, PlaneKnown, Busy, InForce, Publishing

-----------------------------------------------------------------------------
LEMMA ProxyStep ==
  ASSUME OneByOne, ProxyKnown, [ProxyNext]_proxyVars PROVE ProxyKnown'
<1>1. CASE UNCHANGED proxyVars
  BY <1>1 DEF proxyVars, revisionVars, routeVars, planeVars, faultVars, ProxyKnown, Types, StoreKnown,
                ChangesKnown, RoutingKnown, PlaneKnown, Busy, InForce, Publishing
<1> QED
  BY <1>1, StartKept, FaultsKept, PlaneKept, CommitKept, PublicationKept, StatusKept DEF ProxyNext

(* However changes, requests, restarts and failures overlap, what a client *)
(* was told of stays in force while no file is damaged, and the health, the *)
(* connections and the routing state belong to it - as long as no change   *)
(* is accepted while another is published.                                 *)
THEOREM RevisionsInForce == ASSUME OneByOne PROVE ProxySpec => []RevisionInForce
<1>1. ProxyKnown /\ [ProxyNext]_proxyVars => ProxyKnown'
  BY ProxyStep
<1>2. ProxyKnown => RevisionInForce
  <2> SUFFICES ASSUME ProxyKnown PROVE RevisionInForce
    OBVIOUS
  <2>1. AcknowledgedKept
    BY DEF ProxyKnown, Types, StoreKnown, AcknowledgedKept, Readable
  <2>2. HealthHonest /\ IdleCurrent
    BY DEF ProxyKnown, PlaneKnown, HealthHonest, IdleCurrent
  <2>3. RoutingCurrent
    BY DEF ProxyKnown, RoutingKnown, RoutingCurrent
  <2> QED
    BY <2>1, <2>2, <2>3 DEF RevisionInForce
<1> QED
  BY <1>1, <1>2, ProxyInitial, PTL DEF ProxySpec

LEMMA RevisionTypesKept ==
  ASSUME MaxRevisions \in Nat, Types, Types', ProxyType, [ProxyNext]_proxyVars
  PROVE  ProxyType'
<1>1. CASE UNCHANGED proxyVars
  BY <1>1 DEF proxyVars, revisionVars, routeVars, planeVars, faultVars, ProxyType
<1>2. CASE Start
  <2>1. published' \subseteq 1..created' /\ created' \in Revisions /\ snapshot' \in Revisions
        /\ pointer' \in Revisions \union {Damaged}
    <3>1. CASE PointerReadable
      <4>1. pointer \in 1..created /\ created \in 0..MaxRevisions /\ created \in Nat
        BY <3>1 DEF PointerReadable, Readable, Types, ProxyType, Revisions
      <4>2. snapshot' = pointer /\ pointer' = pointer /\ created' = created /\ published' = published
        BY <1>2, <3>1 DEF Start, Load, revisionVars
      <4> QED
        BY <4>1, <4>2 DEF Types, Revisions
    <3>2. CASE ~PointerReadable /\ published # {}
      <4>1. Max(published) \in 1..created /\ created \in 0..MaxRevisions /\ created \in Nat
        BY <3>2, NewestRevision DEF Types, ProxyType, Revisions
      <4>2. /\ snapshot' = Max(published) /\ pointer' = snapshot'
            /\ created' = created /\ published' = published
        BY <1>2, <3>2 DEF Start, Load
      <4> QED
        BY <4>1, <4>2 DEF Types, Revisions
    <3>3. CASE ~PointerReadable /\ published = {}
      <4>1. /\ created < MaxRevisions /\ created' = created + 1 /\ published' = {created + 1}
            /\ pointer' = created + 1 /\ snapshot' = created + 1
        BY <1>2, <3>3 DEF Start, Load
      <4> QED
        BY <4>1 DEF Types, Revisions
    <3> QED
      BY <3>1, <3>2, <3>3
  <2>2. /\ routing' = snapshot' /\ stagedRevision' = stagedRevision /\ change' = change
        /\ health' = health /\ request' = request /\ pool' = pool
    BY <1>2 DEF Start, planeVars
  <2> QED
    BY <2>1, <2>2 DEF ProxyType
<1>3. CASE GetStatus
  BY <1>3 DEF GetStatus, Answered, revisionVars, routeVars, planeVars, faultVars, ProxyType, Types, Revisions
<1>4. CASE Stop
  BY <1>4 DEF Stop, NoProxyChange, Calm, EmptyPool, Unseen, revisionVars, routeVars, planeVars, faultVars, ProxyType, Types, Revisions
<1>5. CASE Damage
  BY <1>5 DEF Damage, Damaged, revisionVars, routeVars, planeVars, faultVars, ProxyType, Types, Revisions
<1>6. ASSUME NEW c \in Changes, Put(c) PROVE ProxyType'
  BY <1>6 DEF Put, revisionVars, routeVars, planeVars, faultVars, ProxyType, Types, Revisions
<1>7. ASSUME NEW c \in Changes, CompareBase(c) PROVE ProxyType'
  BY <1>7 DEF CompareBase, ChangeIs, ChangeEnds, NoProxyChange, revisionVars, routeVars, planeVars, faultVars, ProxyType, Types, Revisions
<1>8. ASSUME NEW c \in Changes, PublishRevision(c) PROVE ProxyType'
  BY <1>8 DEF PublishRevision, ChangeIs, ChangeEnds, NoProxyChange, revisionVars, routeVars, planeVars, faultVars, ProxyType, Types, Revisions
<1>9. ASSUME NEW c \in Changes, SwitchPointer(c) PROVE ProxyType'
  BY <1>9 DEF SwitchPointer, ChangeIs, ChangeEnds, NoProxyChange, revisionVars, routeVars, planeVars, faultVars, ProxyType, Types, Revisions
<1>10. ASSUME NEW c \in Changes, CommitFails(c) PROVE ProxyType'
  BY <1>10 DEF CommitFails, ChangeIs, ChangeEnds, NoProxyChange, revisionVars, routeVars, planeVars, faultVars, ProxyType, Types, Revisions
<1>11. ASSUME NEW c \in Changes, PublishFails(c) PROVE ProxyType'
  BY <1>11 DEF PublishFails, ChangeIs, ChangeEnds, NoProxyChange, revisionVars, routeVars, planeVars, faultVars, ProxyType, Types, Revisions
<1>12. ASSUME NEW c \in Changes, ActivateRevision(c) PROVE ProxyType'
  BY <1>12 DEF ActivateRevision, ChangeIs, ChangeEnds, NoProxyChange, revisionVars, routeVars, planeVars, faultVars, ProxyType, Types, Revisions
<1>13. ASSUME NEW c \in Changes, WriteRouting(c) PROVE ProxyType'
  BY <1>13 DEF WriteRouting, ChangeIs, ChangeEnds, NoProxyChange, revisionVars, routeVars, planeVars, faultVars, ProxyType, Types, Revisions
<1>14. ASSUME NEW c \in Changes, RenameRouting(c) PROVE ProxyType'
  BY <1>14 DEF RenameRouting, Answered, ChangeEnds, NoProxyChange, revisionVars, routeVars, planeVars, faultVars, ProxyType, Types, Revisions
<1>15. ASSUME NEW r \in Connections, Begin(r) PROVE ProxyType'
  BY <1>15 DEF Begin, RequestIs, revisionVars, routeVars, planeVars, faultVars, ProxyType, Types, Revisions
<1>16. ASSUME NEW r \in Connections, AgentFor(r) PROVE ProxyType'
  BY <1>16 DEF AgentFor, revisionVars, routeVars, planeVars, faultVars, ProxyType, Types, Revisions
<1>17. ASSUME NEW r \in Connections, RequestEnds(r) PROVE ProxyType'
  BY <1>17 DEF RequestEnds, RequestIs, Observed, KeptIdle, revisionVars, routeVars, planeVars, faultVars, ProxyType, Types, Revisions
<1>18. ASSUME NEW r \in Connections, RequestFails(r) PROVE ProxyType'
  BY <1>18 DEF RequestFails, RequestIs, Observed, KeptIdle, revisionVars, routeVars, planeVars, faultVars, ProxyType, Types, Revisions
<1> QED
  BY <1>1, <1>2, <1>3, <1>4, <1>5, <1>6, <1>7, <1>8, <1>9, <1>10, <1>11, <1>12, <1>13, <1>14, <1>15, <1>16, <1>17, <1>18 DEF ProxyNext

(* Revisions, pointer, snapshot, routing state, requests and pools stay      *)
(* within the revisions created, through changes, faults and restarts        *)
(* (store.mjs, index.mjs, data-plane.mjs).                                   *)
THEOREM RevisionsTyped ==
  ASSUME OneByOne, MaxRevisions \in Nat PROVE ProxySpec => []ProxyType
<1> DEFINE IInv == ProxyKnown /\ ProxyType
<1>1. ProxyInit => ProxyType
  BY DEF ProxyInit, ProxyType, Revisions, NoProxyChange, Calm, EmptyPool, Unseen
<1>2. IInv /\ [ProxyNext]_proxyVars => IInv'
  BY ProxyStep, RevisionTypesKept DEF ProxyKnown
<1>3. IInv => ProxyType
  OBVIOUS
<1> QED
  BY <1>1, <1>2, <1>3, ProxyInitial, PTL DEF ProxySpec

-----------------------------------------------------------------------------
(* What the page of the proxy tab works with. *)
Save ==
  [at : {"sent", "answered", "failed", "waiting"}, base : Nat, conn : Nat,
   on : SUBSET Switches, draft : [conn : Nat, secret : BOOLEAN], took : BOOLEAN]
TabTypes ==
  /\ config \in [rev : Nat, conn : Nat, on : SUBSET Switches]
  /\ seen \in [rev : Nat, conn : Nat, on : SUBSET Switches]
  /\ form \in [conn : Nat, secret : BOOLEAN]
  /\ queue \in Seq(Switches)
  /\ immediate \in Save \union {NoSave} /\ saving \in Save \union {NoSave}
  /\ edits \in Nat /\ elsewhere \in Nat

(* A copy that bears the stored revision is the stored configuration.      *)
CopyTrue(copy) == copy.rev <= config.rev /\ (copy.rev = config.rev => copy = config)
(* And what was made from a copy of that revision differs from it only in  *)
(* one switch, or in the connection.                                       *)
OneSwitch(on) ==
  \E s \in Switches : on \subseteq config.on \union {s} /\ config.on \subseteq on \union {s}
Answer(ask) == [rev |-> ask.base + 1, conn |-> ask.conn, on |-> ask.on]
AnswerTrue(ask) == ask.at = "answered" /\ ask.took = TRUE => CopyTrue(Answer(ask))
CopiesTrue ==
  /\ CopyTrue(seen)
  /\ immediate # NoSave =>
       /\ immediate.base <= config.rev
       /\ immediate.at = "sent" /\ immediate.base = config.rev
            => immediate.conn = config.conn /\ OneSwitch(immediate.on)
       /\ AnswerTrue(immediate)
  /\ saving # NoSave =>
       /\ saving.base <= config.rev
       /\ saving.at = "sent" /\ saving.base = config.rev => saving.on = config.on
       /\ AnswerTrue(saving)
TabKnown == TabTypes /\ CopiesTrue

LEMMA TabInitial == ProxyTabInit => TabKnown
  BY DEF ProxyTabInit, TabKnown, TabTypes, CopiesTrue, CopyTrue, Save, NoSave

(* What the user and the test do leaves the copies alone. *)
TabQuiet ==
  \/ Type \/ (\E s \in Switches : Switch(s)) \/ LeaveTab
  \/ StartTest \/ TestStarted \/ TestEnds \/ PollTest \/ CloseTest

LEMMA QuietKept ==
  ASSUME TabKnown, TabQuiet PROVE TabKnown'
<1> USE DEF TabKnown, TabTypes
<1>1. UNCHANGED <<config, seen, immediate, saving>> /\ elsewhere' = elsewhere
  BY DEF TabQuiet, Type, Switch, LeaveTab, StartTest, TestStarted, TestEnds, PollTest, CloseTest,
         tabState, envVars
<1>2. edits' \in Nat
  BY DEF TabQuiet, Type, Switch, LeaveTab, StartTest, TestStarted, TestEnds, PollTest, CloseTest,
         userVars
<1>3. queue' \in Seq(Switches)
  <2>1. CASE \E s \in Switches : Switch(s)
    <3>1. PICK s \in Switches : queue' = Append(queue, s)
      BY <2>1 DEF Switch
    <3> QED
      BY <3>1
  <2>2. CASE UNCHANGED queue
    BY <2>2
  <2> QED
    BY <2>1, <2>2 DEF TabQuiet, Type, LeaveTab, StartTest, TestStarted, TestEnds, PollTest, CloseTest
<1>4. form' \in [conn : Nat, secret : BOOLEAN]
  <2>1. ClearSecrets \in [conn : Nat, secret : BOOLEAN]
    BY DEF ClearSecrets
  <2>2. CASE Type
    <3>1. form' = [conn |-> edits + 1, secret |-> form.secret]
          \/ form' = [conn |-> form.conn, secret |-> TRUE]
      BY <2>2 DEF Type
    <3>2. PICK conn \in Nat, secret \in BOOLEAN : conn = form.conn /\ secret = form.secret
      OBVIOUS
    <3>3. form' = [conn |-> edits + 1, secret |-> secret] \/ form' = [conn |-> conn, secret |-> TRUE]
      BY <3>1, <3>2
    <3>4. [conn |-> edits + 1, secret |-> secret] \in [conn : Nat, secret : BOOLEAN]
      OBVIOUS
    <3>5. [conn |-> conn, secret |-> TRUE] \in [conn : Nat, secret : BOOLEAN]
      OBVIOUS
    <3> QED
      BY ONLY <3>3, <3>4, <3>5
  <2> QED
    BY <2>1, <2>2 DEF TabQuiet, Switch, LeaveTab, StartTest, TestStarted, TestEnds, PollTest, CloseTest,
         tabState
<1>5. CopiesTrue'
  BY <1>1 DEF CopiesTrue, CopyTrue, OneSwitch, AnswerTrue, Answer, NoSave
<1> QED
  BY <1>1, <1>2, <1>3, <1>4, <1>5

(* A change from elsewhere makes every copy an old one. *)
LEMMA ElsewhereKept ==
  ASSUME TabKnown, ElsewhereSaves PROVE TabKnown'
<1> USE DEF TabKnown, TabTypes
<1>1. UNCHANGED <<seen, form, queue, immediate, saving, edits>>
  BY DEF ElsewhereSaves, tabState, userVars
<1>2. config' \in [rev : Nat, conn : Nat, on : SUBSET Switches] /\ config'.rev = config.rev + 1
  <2>1. \/ config' = [rev |-> config.rev + 1, conn |-> 100 + elsewhere, on |-> config.on]
        \/ \E s \in Switches :
             config' = [rev |-> config.rev + 1, conn |-> config.conn, on |-> Switched(config.on, s)]
    BY DEF ElsewhereSaves
  <2>2. \A s \in Switches : Switched(config.on, s) \in SUBSET Switches
    BY DEF Switched
  <2> QED
    BY <2>1, <2>2
<1>3. elsewhere' \in Nat
  <2>1. elsewhere' = elsewhere + 1
    BY DEF ElsewhereSaves
  <2> QED
    BY <2>1
<1>4. TabTypes'
  BY <1>1, <1>2, <1>3
<1>5. CopyTrue(seen)'
  BY <1>1, <1>2 DEF CopiesTrue, CopyTrue
<1>6. ASSUME NEW ask \in Save, ask.base <= config.rev, AnswerTrue(ask)
      PROVE  ask.base <= config'.rev /\ ask.base # config'.rev /\ AnswerTrue(ask)'
  BY <1>2, <1>6 DEF Save, AnswerTrue, Answer, CopyTrue
<1>7. CopiesTrue'
  <2>1. immediate # NoSave =>
          /\ immediate'.base <= config'.rev /\ immediate'.base # config'.rev
          /\ AnswerTrue(immediate)'
    BY <1>1, <1>6 DEF CopiesTrue, AnswerTrue, CopyTrue, Answer
  <2>2. saving # NoSave =>
          /\ saving'.base <= config'.rev /\ saving'.base # config'.rev
          /\ AnswerTrue(saving)'
    BY <1>1, <1>6 DEF CopiesTrue, AnswerTrue, CopyTrue, Answer
  <2> QED BY <1>1, <1>5, <2>1, <2>2 DEF CopiesTrue
<1> QED
  BY <1>4, <1>7

(* A save names the revision of the copy it was made from. *)
LEMMA AskedTrue ==
  ASSUME TabKnown, NEW conn \in Nat, NEW on \in SUBSET Switches
  PROVE  /\ Asked(conn, on) \in Save /\ Asked(conn, on) # NoSave
         /\ Asked(conn, on).base = seen.rev /\ Asked(conn, on).at = "sent"
         /\ Asked(conn, on).conn = conn /\ Asked(conn, on).on = on
         /\ seen.rev <= config.rev /\ (seen.rev = config.rev => seen = config)
  BY DEF Asked, Save, NoSave, TabKnown, TabTypes, CopiesTrue, CopyTrue

LEMMA StartImmediateKept ==
  ASSUME TabKnown, StartImmediate PROVE TabKnown'
<1> USE DEF TabKnown, TabTypes
<1>1. UNCHANGED <<config, seen, form, saving, edits, elsewhere>>
  BY DEF StartImmediate, tabState, userVars, envVars
<1>2. PICK s : s = Head(queue)
  OBVIOUS
<1>3. s \in Switches /\ queue' \in Seq(Switches)
  BY <1>2 DEF StartImmediate
<1>4. PICK on : on = IF s \in boxes THEN seen.on \union {s} ELSE seen.on \ {s}
  OBVIOUS
<1>5. on \in SUBSET Switches /\ on \subseteq seen.on \union {s} /\ seen.on \subseteq on \union {s}
  BY <1>3, <1>4
<1>6. immediate' = Asked(seen.conn, on)
  BY <1>2, <1>4 DEF StartImmediate
<1>7. PICK ask : ask = Asked(seen.conn, on)
  OBVIOUS
<1>8. /\ ask \in Save /\ ask # NoSave /\ ask.base = seen.rev /\ ask.at = "sent"
      /\ ask.conn = seen.conn /\ ask.on = on
      /\ seen.rev <= config.rev /\ (seen.rev = config.rev => seen = config)
  BY <1>5, <1>7, AskedTrue
<1>9. TabTypes'
  BY <1>1, <1>3, <1>6, <1>7, <1>8
<1>10. ask.base = config.rev => ask.conn = config.conn /\ OneSwitch(ask.on)
  BY <1>3, <1>5, <1>8 DEF OneSwitch
<1>11. CopiesTrue'
  BY <1>1, <1>6, <1>7, <1>8, <1>10 DEF CopiesTrue, CopyTrue, OneSwitch, AnswerTrue, Answer
<1> QED
  BY <1>9, <1>11

LEMMA StartSaveKept ==
  ASSUME TabKnown, StartSave PROVE TabKnown'
<1> USE DEF TabKnown, TabTypes
<1>1. UNCHANGED <<config, seen, form, queue, immediate, edits, elsewhere>>
  BY DEF StartSave, tabState, userVars, envVars
<1>2. PICK ask : ask = Asked(form.conn, seen.on)
  OBVIOUS
<1>3. /\ ask \in Save /\ ask # NoSave /\ ask.base = seen.rev /\ ask.at = "sent"
      /\ ask.on = seen.on
      /\ seen.rev <= config.rev /\ (seen.rev = config.rev => seen = config)
  BY <1>2, AskedTrue
<1>4. saving' = ask
  BY <1>2 DEF StartSave
<1>5. TabTypes'
  BY <1>1, <1>3, <1>4
<1>6. CopiesTrue'
  BY <1>1, <1>3, <1>4 DEF CopiesTrue, CopyTrue, OneSwitch, AnswerTrue, Answer
<1> QED
  BY <1>5, <1>6

(* The answer to a save that was sent. *)
LEMMA CheckedTrue ==
  ASSUME NEW ask \in Save, config \in [rev : Nat, conn : Nat, on : SUBSET Switches]
  PROVE  /\ Checked(ask) \in Save /\ Checked(ask) # NoSave /\ Checked(ask).at = "answered"
         /\ (Checked(ask).took = TRUE <=> ask.base = config.rev)
         /\ Checked(ask).base = ask.base /\ Checked(ask).conn = ask.conn
         /\ Checked(ask).on = ask.on
<1>1. PICK took \in BOOLEAN : took = (ask.base = config.rev)
  OBVIOUS
<1>2. Checked(ask) = [ask EXCEPT !.at = "answered", !.took = took]
  BY <1>1 DEF Checked
<1>3. PICK new : new = [at |-> "answered", base |-> ask.base, conn |-> ask.conn, on |-> ask.on,
                        draft |-> ask.draft, took |-> took]
  OBVIOUS
<1>4. new = Checked(ask)
  BY <1>2, <1>3 DEF Save
<1>5. new \in Save /\ new # NoSave
  BY <1>1, <1>3 DEF Save, NoSave
<1>6. new.took = TRUE <=> ask.base = config.rev
  BY <1>1, <1>3
<1> QED
  BY <1>3, <1>4, <1>5, <1>6

LEMMA RefusedTrue ==
  ASSUME NEW ask \in Save
  PROVE  /\ SaveRefused(ask) \in Save /\ SaveRefused(ask) # NoSave
         /\ SaveRefused(ask).at = "failed" /\ SaveRefused(ask).base = ask.base
  BY DEF SaveRefused, Save, NoSave

(* Whoever reaches the store: the store changes, or it does not. *)
Reached(ask, new) ==
  \/ new = SaveRefused(ask) /\ config' = config
  \/ new = Checked(ask) /\ ask.base # config.rev /\ config' = config
  \/ new = Checked(ask) /\ ask.base = config.rev /\ config' = Becomes(ask)

LEMMA ReachedTrue ==
  ASSUME TabKnown, NEW ask \in Save, NEW new, Reached(ask, new), ask.base <= config.rev
  PROVE  /\ new \in Save /\ new # NoSave /\ new.at # "sent" /\ new.base <= config'.rev
         /\ (new.at = "answered" /\ new.took = TRUE => CopyTrue(Answer(new))')
         /\ config' \in [rev : Nat, conn : Nat, on : SUBSET Switches]
         /\ (config' = config \/ config'.rev = config.rev + 1)
<1> USE DEF TabKnown, TabTypes
<1>1. CASE new = SaveRefused(ask) /\ config' = config
  BY <1>1, RefusedTrue
<1>2. CASE new = Checked(ask) /\ ask.base # config.rev /\ config' = config
  BY <1>2, CheckedTrue
<1>3. CASE new = Checked(ask) /\ ask.base = config.rev /\ config' = Becomes(ask)
  <2>1. /\ new \in Save /\ new # NoSave /\ new.at = "answered" /\ new.base = config.rev
        /\ new.conn = ask.conn /\ new.on = ask.on
    BY <1>3, CheckedTrue
  <2>2. config' = [rev |-> config.rev + 1, conn |-> ask.conn, on |-> ask.on]
    BY <1>3 DEF Becomes
  <2>3. Answer(new) = config'
    BY <2>1, <2>2 DEF Answer
  <2>4. config' \in [rev : Nat, conn : Nat, on : SUBSET Switches] /\ config'.rev = config.rev + 1
    BY <2>2 DEF Save
  <2>5. CopyTrue(Answer(new))'
    <3>1. Answer(new)' = Answer(new)
      BY DEF Answer
    <3> QED
      BY <2>3, <2>4, <3>1 DEF CopyTrue, Answer
  <2> QED
    BY <2>1, <2>4, <2>5
<1> QED
  BY <1>1, <1>2, <1>3 DEF Reached

(* The other save, the page's copy: unchanged, or of an older revision.    *)
LEMMA OthersStand ==
  ASSUME TabKnown, config' = config \/ config'.rev = config.rev + 1,
         config' \in [rev : Nat, conn : Nat, on : SUBSET Switches], UNCHANGED seen
  PROVE  /\ CopyTrue(seen)'
         /\ \A ask \in Save : ask.base <= config.rev /\ AnswerTrue(ask) =>
              /\ ask.base <= config'.rev
              /\ (ask.base = config'.rev => config' = config)
              /\ (ask.at = "answered" /\ ask.took = TRUE => CopyTrue(Answer(ask))')
<1> USE DEF TabKnown, TabTypes
<1>1. CopyTrue(seen)'
  BY DEF CopiesTrue, CopyTrue
<1>2. ASSUME NEW ask \in Save, ask.base <= config.rev, AnswerTrue(ask)
      PROVE  /\ ask.base <= config'.rev
             /\ (ask.base = config'.rev => config' = config)
             /\ (ask.at = "answered" /\ ask.took = TRUE => CopyTrue(Answer(ask))')
  BY <1>2 DEF Save, AnswerTrue, Answer, CopyTrue
<1> QED
  BY <1>1, <1>2

LEMMA ImmediateReachedKept ==
  ASSUME TabKnown, ImmediateReached PROVE TabKnown'
<1> USE DEF TabKnown, TabTypes
<1>1. UNCHANGED <<seen, form, queue, saving, edits, elsewhere>>
  BY DEF ImmediateReached, tabState, userVars
<1>2. PICK ask : ask = immediate
  OBVIOUS
<1>3. ask \in Save /\ ask # NoSave /\ ask.base <= config.rev
  BY <1>2 DEF ImmediateReached, NoSave, CopiesTrue
<1>4. PICK new : new = immediate'
  OBVIOUS
<1>5. Reached(ask, new)
  <2>1. CASE immediate' = SaveRefused(immediate) /\ UNCHANGED config
    BY <1>2, <1>4, <2>1 DEF Reached
  <2>2. CASE immediate' = Checked(immediate)
             /\ config' = IF immediate'.took THEN Becomes(immediate) ELSE config
    <3>1. CASE ask.base = config.rev
      BY <1>2, <1>3, <1>4, <2>2, <3>1, CheckedTrue DEF Reached
    <3>2. CASE ask.base # config.rev
      <4>1. new \in Save /\ ~ (new.took = TRUE) /\ new.took \in BOOLEAN
        BY <1>2, <1>3, <1>4, <2>2, <3>2, CheckedTrue DEF Save
      <4> QED
        BY <1>2, <1>4, <2>2, <3>2, <4>1 DEF Reached
    <3> QED
      BY <3>1, <3>2
  <2> QED
    BY <2>1, <2>2 DEF ImmediateReached
<1>6. /\ new \in Save /\ new # NoSave /\ new.at # "sent" /\ new.base <= config'.rev
      /\ (new.at = "answered" /\ new.took = TRUE => CopyTrue(Answer(new))')
      /\ config' \in [rev : Nat, conn : Nat, on : SUBSET Switches]
      /\ (config' = config \/ config'.rev = config.rev + 1)
  BY <1>3, <1>5, ReachedTrue
<1>7. TabTypes'
  BY <1>1, <1>4, <1>6
<1>8. /\ CopyTrue(seen)'
      /\ \A other \in Save : other.base <= config.rev /\ AnswerTrue(other) =>
           /\ other.base <= config'.rev
           /\ (other.base = config'.rev => config' = config)
           /\ (other.at = "answered" /\ other.took = TRUE => CopyTrue(Answer(other))')
  BY <1>1, <1>6, OthersStand
<1>9. CopiesTrue'
  <2>1. /\ immediate'.base <= config'.rev /\ immediate'.at # "sent" /\ AnswerTrue(immediate)'
    BY <1>4, <1>6 DEF AnswerTrue, Answer, CopyTrue
  <2>2. saving' # NoSave =>
          /\ saving'.base <= config'.rev
          /\ saving'.at = "sent" /\ saving'.base = config'.rev => saving'.on = config'.on
          /\ AnswerTrue(saving)'
    <3> SUFFICES ASSUME saving # NoSave
        PROVE  /\ saving.base <= config'.rev
               /\ saving.at = "sent" /\ saving.base = config'.rev => saving.on = config'.on
               /\ AnswerTrue(saving)'
      BY <1>1
    <3>1. saving \in Save /\ saving.base <= config.rev /\ AnswerTrue(saving)
          /\ (saving.at = "sent" /\ saving.base = config.rev => saving.on = config.on)
      BY DEF CopiesTrue
    <3> QED
      BY <1>1, <1>8, <3>1 DEF AnswerTrue, Answer, CopyTrue
  <2> QED
    BY <1>8, <2>1, <2>2 DEF CopiesTrue
<1> QED
  BY <1>7, <1>9

LEMMA SaveReachedKept ==
  ASSUME TabKnown, SaveReached PROVE TabKnown'
<1> USE DEF TabKnown, TabTypes
<1>1. UNCHANGED <<seen, form, queue, immediate, edits, elsewhere>>
  BY DEF SaveReached, tabState, userVars
<1>2. PICK ask : ask = saving
  OBVIOUS
<1>3. ask \in Save /\ ask # NoSave /\ ask.base <= config.rev
  BY <1>2 DEF SaveReached, NoSave, CopiesTrue
<1>4. PICK new : new = saving'
  OBVIOUS
<1>5. Reached(ask, new)
  <2>1. CASE saving' = SaveRefused(saving) /\ UNCHANGED config
    BY <1>2, <1>4, <2>1 DEF Reached
  <2>2. CASE saving' = Checked(saving)
             /\ config' = IF saving'.took THEN Becomes(saving) ELSE config
    <3>1. CASE ask.base = config.rev
      BY <1>2, <1>3, <1>4, <2>2, <3>1, CheckedTrue DEF Reached
    <3>2. CASE ask.base # config.rev
      <4>1. new \in Save /\ ~ (new.took = TRUE) /\ new.took \in BOOLEAN
        BY <1>2, <1>3, <1>4, <2>2, <3>2, CheckedTrue DEF Save
      <4> QED
        BY <1>2, <1>4, <2>2, <3>2, <4>1 DEF Reached
    <3> QED
      BY <3>1, <3>2
  <2> QED
    BY <2>1, <2>2 DEF SaveReached
<1>6. /\ new \in Save /\ new # NoSave /\ new.at # "sent" /\ new.base <= config'.rev
      /\ (new.at = "answered" /\ new.took = TRUE => CopyTrue(Answer(new))')
      /\ config' \in [rev : Nat, conn : Nat, on : SUBSET Switches]
      /\ (config' = config \/ config'.rev = config.rev + 1)
  BY <1>3, <1>5, ReachedTrue
<1>7. TabTypes'
  BY <1>1, <1>4, <1>6
<1>8. /\ CopyTrue(seen)'
      /\ \A other \in Save : other.base <= config.rev /\ AnswerTrue(other) =>
           /\ other.base <= config'.rev
           /\ (other.base = config'.rev => config' = config)
           /\ (other.at = "answered" /\ other.took = TRUE => CopyTrue(Answer(other))')
  BY <1>1, <1>6, OthersStand
<1>9. CopiesTrue'
  <2>1. /\ saving'.base <= config'.rev /\ saving'.at # "sent" /\ AnswerTrue(saving)'
    BY <1>4, <1>6 DEF AnswerTrue, Answer, CopyTrue
  <2>2. immediate' # NoSave =>
          /\ immediate'.base <= config'.rev
          /\ immediate'.at = "sent" /\ immediate'.base = config'.rev
               => immediate'.conn = config'.conn /\ OneSwitch(immediate.on)'
          /\ AnswerTrue(immediate)'
    <3> SUFFICES ASSUME immediate # NoSave
        PROVE  /\ immediate.base <= config'.rev
               /\ immediate.at = "sent" /\ immediate.base = config'.rev
                    => immediate.conn = config'.conn /\ OneSwitch(immediate.on)'
               /\ AnswerTrue(immediate)'
      BY <1>1
    <3>1. immediate \in Save /\ immediate.base <= config.rev /\ AnswerTrue(immediate)
          /\ (immediate.at = "sent" /\ immediate.base = config.rev
                => immediate.conn = config.conn /\ OneSwitch(immediate.on))
      BY DEF CopiesTrue
    <3> QED
      BY <1>1, <1>8, <3>1 DEF AnswerTrue, Answer, CopyTrue, OneSwitch
  <2> QED
    BY <1>8, <2>1, <2>2 DEF CopiesTrue
<1> QED
  BY <1>7, <1>9

(* The copy that an answer brings. *)
LEMMA ImmediateAnsweredKept ==
  ASSUME TabKnown, ImmediateAnswered PROVE TabKnown'
<1> USE DEF TabKnown, TabTypes
<1>1. UNCHANGED <<config, queue, saving, edits, elsewhere>>
  BY DEF ImmediateAnswered, userVars, envVars
<1>2. PICK ask : ask = immediate
  OBVIOUS
<1>3. ask \in Save /\ ask # NoSave /\ ask.base <= config.rev /\ AnswerTrue(ask)
  BY <1>2 DEF ImmediateAnswered, NoSave, CopiesTrue
<1>4. CASE ask.at = "failed"
  <2>1. immediate' = NoSave /\ seen' = seen /\ form' = [form EXCEPT !.conn = seen.conn]
    BY <1>2, <1>4 DEF ImmediateAnswered, Render
  <2>2. form' \in [conn : Nat, secret : BOOLEAN]
    BY <2>1
  <2>3. TabTypes'
    BY <1>1, <2>1, <2>2
  <2>4. CopiesTrue'
    BY <1>1, <2>1 DEF CopiesTrue, CopyTrue, OneSwitch, AnswerTrue, Answer, NoSave
  <2> QED
    BY <2>3, <2>4
<1>5. CASE ask.at = "answered" /\ ask.took = TRUE
  <2>1. immediate' = NoSave /\ seen' = Answer(ask) /\ form' = ask.draft
    BY <1>2, <1>5 DEF ImmediateAnswered, Answer
  <2>2. TabTypes'
    BY <1>1, <1>3, <2>1 DEF Answer, Save
  <2>3. CopyTrue(Answer(ask))
    BY <1>3, <1>5 DEF AnswerTrue
  <2>4. CopiesTrue'
    BY <1>1, <2>1, <2>3 DEF CopiesTrue, CopyTrue, OneSwitch, AnswerTrue, Answer, NoSave
  <2> QED
    BY <2>2, <2>4
<1>6. CASE ask.at = "answered" /\ ask.took = FALSE
  <2>1. immediate' = [ask EXCEPT !.at = "waiting"] /\ UNCHANGED <<seen, form>>
    BY <1>2, <1>6 DEF ImmediateAnswered, tabState
  <2>2. immediate' \in Save /\ immediate'.base = ask.base /\ immediate'.at = "waiting"
    BY <1>3, <2>1 DEF Save
  <2>3. TabTypes'
    BY <1>1, <2>1, <2>2
  <2>4. CopiesTrue'
    BY <1>1, <1>3, <2>1, <2>2 DEF CopiesTrue, CopyTrue, OneSwitch, AnswerTrue, Answer
  <2> QED
    BY <2>3, <2>4
<1>7. ask.took = TRUE \/ ask.took = FALSE
  BY <1>3 DEF Save
<1> QED
  BY <1>2, <1>4, <1>5, <1>6, <1>7 DEF ImmediateAnswered

LEMMA SaveAnsweredKept ==
  ASSUME TabKnown, SaveAnswered PROVE TabKnown'
<1> USE DEF TabKnown, TabTypes
<1>1. UNCHANGED <<config, queue, immediate, edits, elsewhere>> /\ saving' = NoSave
  BY DEF SaveAnswered, userVars, envVars
<1>2. PICK ask : ask = saving
  OBVIOUS
<1>3. ask \in Save /\ ask # NoSave /\ ask.base <= config.rev /\ AnswerTrue(ask)
  BY <1>2 DEF SaveAnswered, NoSave, CopiesTrue
<1>4. CASE ask.at = "answered" /\ ask.took = TRUE
  <2>1. seen' = Answer(ask) /\ form' = [conn |-> ask.conn, secret |-> FALSE]
    BY <1>2, <1>4 DEF SaveAnswered, Answer
  <2>2. TabTypes'
    BY <1>1, <1>3, <2>1 DEF Answer, Save
  <2>3. CopyTrue(Answer(ask))
    BY <1>3, <1>4 DEF AnswerTrue
  <2>4. CopiesTrue'
    BY <1>1, <2>1, <2>3 DEF CopiesTrue, CopyTrue, OneSwitch, AnswerTrue, Answer, NoSave
  <2> QED
    BY <2>2, <2>4
<1>5. CASE UNCHANGED <<seen, form>>
  <2>1. TabTypes'
    BY <1>1, <1>5
  <2>2. CopiesTrue'
    BY <1>1, <1>5 DEF CopiesTrue, CopyTrue, OneSwitch, AnswerTrue, Answer, NoSave
  <2> QED
    BY <2>1, <2>2
<1>6. ask.took = TRUE \/ ask.took = FALSE
  BY <1>3 DEF Save
<1>7. (ask.at = "answered" /\ ask.took = TRUE) \/ UNCHANGED <<seen, form>>
  BY <1>2, <1>6 DEF SaveAnswered, tabState
<1> QED
  BY <1>4, <1>5, <1>7

LEMMA LoadedKept ==
  ASSUME TabKnown, Loaded PROVE TabKnown'
<1> USE DEF TabKnown, TabTypes
<1>1. UNCHANGED <<config, queue, saving, edits, elsewhere>> /\ immediate' \in {immediate, NoSave}
  BY DEF Loaded, userVars
<1>2. \/ seen' = config /\ form' = [conn |-> config.conn, secret |-> FALSE]
      \/ UNCHANGED <<seen, form>>
  BY DEF Loaded, tabState
<1>3. TabTypes'
  <2>1. [conn |-> config.conn, secret |-> FALSE] \in [conn : Nat, secret : BOOLEAN]
    OBVIOUS
  <2>2. form' \in [conn : Nat, secret : BOOLEAN]
    BY <1>2, <2>1
  <2> QED
    BY <1>1, <1>2, <2>2
<1>4. CopyTrue(seen)'
  BY <1>1, <1>2 DEF CopiesTrue, CopyTrue
<1>5. CopiesTrue'
  BY <1>1, <1>4 DEF CopiesTrue, CopyTrue, OneSwitch, AnswerTrue, Answer, NoSave
<1> QED
  BY <1>3, <1>5

LEMMA TabStands ==
  ASSUME TabKnown, UNCHANGED proxyTabVars PROVE TabKnown'
  BY DEF TabKnown, TabTypes, proxyTabVars, tabState, userVars, envVars, CopiesTrue, CopyTrue,
         OneSwitch, AnswerTrue, Answer, NoSave

LEMMA TabKept ==
  ASSUME TabKnown, [ProxyTabNext]_proxyTabVars PROVE TabKnown'
  BY QuietKept, ElsewhereKept, StartImmediateKept, StartSaveKept, ImmediateReachedKept,
     SaveReachedKept, ImmediateAnsweredKept, SaveAnsweredKept, LoadedKept, TabStands
  DEF ProxyTabNext, TabQuiet

(* One step: the store is changed from elsewhere, or by a save that was    *)
(* made from the configuration it replaces.                                *)
OwnStep ==
  config' # config =>
       \/ elsewhere' # elsewhere
       \/ /\ immediate'.at = "answered" /\ immediate.at = "sent"
          /\ config'.conn = config.conn
          /\ \E s \in Switches : config'.on \subseteq config.on \union {s}
                                 /\ config.on \subseteq config'.on \union {s}
       \/ saving'.at = "answered" /\ config'.on = config.on

LEMMA OwnStepTaken ==
  ASSUME TabKnown, [ProxyTabNext]_proxyTabVars PROVE OwnStep
<1> USE DEF TabKnown, TabTypes
<1>1. CASE ElsewhereSaves
  <2>1. elsewhere' = elsewhere + 1
    BY <1>1 DEF ElsewhereSaves
  <2> QED
    BY <2>1 DEF OwnStep
<1>2. CASE ImmediateReached
  <2> SUFFICES ASSUME config' # config PROVE OwnStep
    BY DEF OwnStep
  <2>1. PICK ask : ask = immediate
    OBVIOUS
  <2>2. ask \in Save /\ ask # NoSave /\ ask.at = "sent" /\ immediate' = Checked(ask)
        /\ (immediate'.took => config' = Becomes(ask)) /\ (~immediate'.took => config' = config)
    BY <1>2, <2>1 DEF ImmediateReached, NoSave
  <2>3. immediate'.at = "answered" /\ immediate'.took \in BOOLEAN
        /\ (immediate'.took = TRUE <=> ask.base = config.rev)
    BY <2>2, CheckedTrue DEF Save
  <2>4. immediate'.took = TRUE
    BY <2>2, <2>3
  <2>5. config' = Becomes(ask) /\ ask.base = config.rev
    BY <2>2, <2>3, <2>4
  <2>6. ask.conn = config.conn /\ OneSwitch(ask.on)
    BY <2>1, <2>2, <2>5 DEF CopiesTrue
  <2>7. config'.conn = ask.conn /\ config'.on = ask.on
    BY <2>5 DEF Becomes
  <2>8. PICK s \in Switches : ask.on \subseteq config.on \union {s} /\ config.on \subseteq ask.on \union {s}
    BY <2>6 DEF OneSwitch
  <2> QED
    BY <2>1, <2>2, <2>3, <2>6, <2>7, <2>8 DEF OwnStep
<1>3. CASE SaveReached
  <2> SUFFICES ASSUME config' # config PROVE OwnStep
    BY DEF OwnStep
  <2>1. PICK ask : ask = saving
    OBVIOUS
  <2>2. ask \in Save /\ ask # NoSave /\ ask.at = "sent" /\ saving' = Checked(ask)
        /\ (saving'.took => config' = Becomes(ask)) /\ (~saving'.took => config' = config)
    BY <1>3, <2>1 DEF SaveReached, NoSave
  <2>3. saving'.at = "answered" /\ saving'.took \in BOOLEAN
        /\ (saving'.took = TRUE <=> ask.base = config.rev)
    BY <2>2, CheckedTrue DEF Save
  <2>4. saving'.took = TRUE
    BY <2>2, <2>3
  <2>5. config' = Becomes(ask) /\ ask.base = config.rev
    BY <2>2, <2>3, <2>4
  <2>6. ask.on = config.on
    BY <2>1, <2>2, <2>5 DEF CopiesTrue
  <2>7. config'.on = ask.on
    BY <2>5 DEF Becomes
  <2> QED
    BY <2>3, <2>6, <2>7 DEF OwnStep
<1>4. CASE UNCHANGED config
  BY <1>4 DEF OwnStep
<1> QED
  BY <1>1, <1>2, <1>3, <1>4 DEF ProxyTabNext, proxyTabVars, Type, Switch, LeaveTab, StartImmediate,
     ImmediateAnswered, StartSave, SaveAnswered, Loaded, StartTest, TestStarted, TestEnds, PollTest,
     CloseTest

(* A save of the proxy tab changes only what its user changed, whatever is  *)
(* saved meanwhile from the same page or elsewhere.                         *)
THEOREM TabSavesOwnOnly == ProxyTabSpec => SavesOwnOnly
<1>1. TabKnown /\ [ProxyTabNext]_proxyTabVars => TabKnown'
  BY TabKept
<1>2. TabKnown /\ [ProxyTabNext]_proxyTabVars =>
        [config' # config =>
       \/ elsewhere' # elsewhere
       \/ /\ immediate'.at = "answered" /\ immediate.at = "sent"
          /\ config'.conn = config.conn
          /\ \E s \in Switches : config'.on \subseteq config.on \union {s}
                                 /\ config.on \subseteq config'.on \union {s}
       \/ saving'.at = "answered" /\ config'.on = config.on]_proxyTabVars
  BY OwnStepTaken DEF OwnStep
<1> QED
  BY TabInitial, <1>1, <1>2, PTL DEF ProxyTabSpec, SavesOwnOnly

------------------------------------------------------------------------------
(* The log that is followed. *)

(* Sizes and what the budget leaves are numbers, and no file is rotated     *)
(* between being listed and being read.                                     *)
BetweenScans == MidScan = FALSE

LogFile == [name : {"current", "rotated", "gone"}, entries : Seq(Nat)]
DiskKnown ==
  /\ written \in Nat /\ files \in Seq(LogFile)
  /\ \A f \in DOMAIN files :
       /\ Len(files[f].entries) > 0
       /\ \A i \in 1 .. Len(files[f].entries) : files[f].entries[i] <= written
  /\ PruningOldest

(* What is listed is how it was found, unless it was removed; what a        *)
(* follower knows of a file is there.  A query after the files were listed  *)
(* for the follower reads each that is left.                                *)
ListingKnown ==
  \A f \in DOMAIN stream.listing :
    /\ f \in DOMAIN files
    /\ stream.listing[f].size \in Nat /\ stream.listing[f].size <= Len(files[f].entries)
    /\ f \in Kept => stream.listing[f].name = files[f].name
OffsetsKnown ==
  \A f \in DOMAIN offsets :
    /\ f \in DOMAIN files
    /\ offsets[f] \in Nat /\ offsets[f] <= Len(files[f].entries)
AgainKnown ==
  stream.at = "again" /\ stream.listing # Unlisted
    => DOMAIN offsets \intersect Kept \subseteq DOMAIN stream.listing
StreamKnown == ListingKnown /\ OffsetsKnown /\ AgainKnown /\ FollowedIsSent

PageKnown == shown \subseteq Nat /\ cutoff \in Nat /\ wire \subseteq Nat /\ ClearedStays
LogsKnown == DiskKnown /\ StreamKnown /\ PageKnown

LEMMA NothingListed == DOMAIN Unlisted = {}
BY DEF Unlisted

LEMMA LogsInitial == LogInit => LogsKnown
<1> SUFFICES ASSUME LogInit PROVE LogsKnown
  OBVIOUS
<1>1. files = <<>> /\ written = 0 /\ DOMAIN files = {}
  BY DEF LogInit
<1>2. DiskKnown
  BY <1>1 DEF DiskKnown, PruningOldest
<1>3. DOMAIN offsets = {} /\ stream.at = "off" /\ stream.listing = Unlisted
  BY DEF LogInit, NoStream
<1>4. StreamKnown
  BY <1>3, NothingListed DEF StreamKnown, ListingKnown, OffsetsKnown, AgainKnown, FollowedIsSent
<1>5. PageKnown
  BY DEF LogInit, PageKnown, ClearedStays
<1> QED
  BY <1>2, <1>4, <1>5 DEF LogsKnown

(* Every file of a disk that is known, one by one.                          *)
LEMMA FileFacts ==
  ASSUME DiskKnown, NEW f \in DOMAIN files
  PROVE  /\ files[f] \in LogFile /\ files[f].entries \in Seq(Nat) /\ Len(files[f].entries) \in Nat \ {0}
         /\ files[f].name \in {"current", "rotated", "gone"}
         /\ Newest(f) \in Nat /\ Newest(f) <= written
         /\ \A n \in Nat : n <= Len(files[f].entries) => Prefix(f, n) \subseteq EntriesOf(f)
         /\ EntriesOf(f) \subseteq Nat
<1>1. files[f] \in LogFile
  BY DEF DiskKnown
<1>2. files[f].entries \in Seq(Nat) /\ files[f].name \in {"current", "rotated", "gone"}
  BY <1>1 DEF LogFile
<1>3. Len(files[f].entries) \in Nat \ {0}
  BY <1>2 DEF DiskKnown
<1>4. Newest(f) \in Nat /\ Newest(f) <= written
  BY <1>2, <1>3 DEF DiskKnown, Newest
<1> QED
  BY <1>1, <1>2, <1>3, <1>4 DEF Prefix, EntriesOf

(* Files only grow, are renamed between listings and are removed: what was  *)
(* listed, read and sent stays as it was.                                   *)
Grown(f) ==
  /\ f \in DOMAIN files' /\ Len(files'[f].entries) \in Nat
  /\ Len(files[f].entries) <= Len(files'[f].entries)
  /\ \A i \in 1 .. Len(files[f].entries) : files'[f].entries[i] = files[f].entries[i]
  /\ files'[f].name # "gone" =>
       /\ files[f].name # "gone"
       /\ stream.listing # Unlisted => files'[f].name = files[f].name

LEMMA GrowingKeepsStream ==
  ASSUME LogsKnown, DiskKnown', \A f \in DOMAIN files : Grown(f),
         UNCHANGED <<stream, offsets, sent, wire, pageVars>>
  PROVE  LogsKnown'
<1>1. \A f \in DOMAIN files : f \in Kept' => f \in Kept
  BY DEF Grown, Kept
<1>2. \A f \in DOMAIN files : Len(files[f].entries) \in Nat
  BY FileFacts DEF LogsKnown
<1>3. ListingKnown'
  <2> SUFFICES ASSUME NEW f \in DOMAIN stream.listing
               PROVE  /\ f \in DOMAIN files'
                      /\ stream.listing[f].size \in Nat /\ stream.listing[f].size <= Len(files'[f].entries)
                      /\ f \in Kept' => stream.listing[f].name = files'[f].name
    BY DEF ListingKnown
  <2>1. f \in DOMAIN files /\ stream.listing[f].size \in Nat /\ stream.listing[f].size <= Len(files[f].entries)
    BY DEF LogsKnown, StreamKnown, ListingKnown
  <2>2. f \in Kept => stream.listing[f].name = files[f].name
    BY DEF LogsKnown, StreamKnown, ListingKnown
  <2>3. stream.listing # Unlisted
    BY NothingListed
  <2>4. Grown(f)
    BY <2>1
  <2>5. f \in Kept' => f \in Kept /\ files'[f].name = files[f].name
    BY <1>1, <2>1, <2>3, <2>4 DEF Grown, Kept
  <2> QED
    BY <1>2, <2>1, <2>2, <2>4, <2>5 DEF Grown
<1>4. OffsetsKnown'
  <2> SUFFICES ASSUME NEW f \in DOMAIN offsets
               PROVE  /\ f \in DOMAIN files'
                      /\ offsets[f] \in Nat /\ offsets[f] <= Len(files'[f].entries)
    BY DEF OffsetsKnown
  <2>1. f \in DOMAIN files /\ offsets[f] \in Nat /\ offsets[f] <= Len(files[f].entries)
    BY DEF LogsKnown, StreamKnown, OffsetsKnown
  <2>2. Grown(f)
    BY <2>1
  <2> QED
    BY <1>2, <2>1, <2>2 DEF Grown
<1>5. \A f \in DOMAIN offsets : f \in DOMAIN files /\ (f \in Kept' => f \in Kept)
  BY <1>1 DEF LogsKnown, StreamKnown, OffsetsKnown
<1>6. AgainKnown'
  BY <1>5 DEF LogsKnown, StreamKnown, AgainKnown
<1>7. FollowedIsSent'
  <2> SUFFICES ASSUME stream.at = "live", NEW f \in DOMAIN offsets, f \in Kept'
               PROVE  Prefix(f, offsets[f])' \subseteq sent
    BY DEF FollowedIsSent
  <2>1. f \in DOMAIN files /\ offsets[f] \in Nat /\ offsets[f] <= Len(files[f].entries)
    BY DEF LogsKnown, StreamKnown, OffsetsKnown
  <2>2. Prefix(f, offsets[f]) \subseteq sent
    BY <1>5 DEF LogsKnown, StreamKnown, FollowedIsSent
  <2>3. Grown(f)
    BY <2>1
  <2>4. \A i \in 1 .. offsets[f] : files'[f].entries[i] = files[f].entries[i]
    BY <1>2, <2>1, <2>3 DEF Grown
  <2> QED
    BY <2>2, <2>4 DEF Prefix
<1>8. PageKnown'
  BY DEF LogsKnown, PageKnown, ClearedStays, pageVars
<1> QED
  BY <1>3, <1>4, <1>6, <1>7, <1>8 DEF LogsKnown, StreamKnown

LEMMA SequenceOf ==
  ASSUME NEW S, NEW n \in Nat, NEW s \in [1 .. n -> S]
  PROVE  s \in Seq(S)
OBVIOUS

(* Renaming some files, the others left alone.                              *)
LEMMA RenamingKeeps ==
  ASSUME LogsKnown, NEW some \in SUBSET Kept, NEW name \in {"rotated", "gone"},
         files' = [f \in DOMAIN files |-> IF f \in some THEN [files[f] EXCEPT !.name = name] ELSE files[f]],
         written' = written,
         name = "rotated" => stream.listing = Unlisted,
         name = "gone" => \A f \in some : \A g \in Kept \ some : Newest(f) < Newest(g),
         UNCHANGED <<stream, offsets, sent, wire, pageVars>>
  PROVE  LogsKnown'
<1>1. DiskKnown /\ files \in Seq(LogFile)
  BY DEF LogsKnown, DiskKnown
<1>2. ASSUME NEW f \in DOMAIN files
      PROVE  /\ files'[f] \in LogFile /\ files'[f].entries = files[f].entries
             /\ f \in some => files'[f].name = name
             /\ f \notin some => files'[f].name = files[f].name
  BY <1>1, FileFacts DEF LogFile
<1>3. files' \in Seq(LogFile) /\ DOMAIN files' = DOMAIN files
  <2>1. PICK n \in Nat : DOMAIN files = 1 .. n
    BY <1>1
  <2>2. files' \in [1 .. n -> LogFile]
    BY <1>2, <2>1
  <2>3. files' \in Seq(LogFile)
    BY <2>2, SequenceOf, Zenon
  <2> QED
    BY <2>3
<1>4. \A f \in DOMAIN files : Newest(f)' = Newest(f)
  BY <1>2 DEF Newest
<1>5. Kept' = IF name = "gone" THEN Kept \ some ELSE Kept
  BY <1>2, <1>3 DEF Kept
<1>6. PruningOldest'
  <2> SUFFICES ASSUME NEW f \in DOMAIN files, files'[f].name = "gone", NEW g \in Kept'
               PROVE  Newest(f) < Newest(g)
    BY <1>3, <1>4, <1>5 DEF PruningOldest, Kept
  <2>1. g \in Kept
    BY <1>5
  <2>2. CASE f \in some
    BY <1>2, <1>5, <2>1, <2>2
  <2>3. CASE f \notin some
    BY <1>1, <1>2, <2>1, <2>3 DEF DiskKnown, PruningOldest
  <2> QED
    BY <2>2, <2>3
<1>7. DiskKnown'
  BY <1>1, <1>2, <1>3, <1>6 DEF DiskKnown
<1>8. \A f \in DOMAIN files : Grown(f)
  <2> SUFFICES ASSUME NEW f \in DOMAIN files PROVE Grown(f)
    OBVIOUS
  <2>1. Len(files[f].entries) \in Nat
    BY <1>1, FileFacts
  <2>2. f \in some => files[f].name # "gone"
    BY DEF Kept
  <2> QED
    BY <1>2, <1>3, <2>1, <2>2 DEF Grown
<1> QED
  BY <1>7, <1>8, GrowingKeepsStream

LEMMA IdlingKeeps ==
  ASSUME LogsKnown, UNCHANGED <<files, written, stream, offsets, sent, wire, pageVars>>
  PROVE  LogsKnown'
BY DEF LogsKnown, DiskKnown, PruningOldest, Kept, Newest, StreamKnown, ListingKnown, OffsetsKnown, AgainKnown,
       FollowedIsSent, Prefix, PageKnown, ClearedStays, pageVars

LEMMA RotationKeeps ==
  ASSUME BetweenScans, LogsKnown, NEW w \in LogWriters, RotateLog(w)
  PROVE  LogsKnown'
<1>1. UNCHANGED <<written, stream, offsets, sent, wire, pageVars>> /\ stream.listing = Unlisted
  BY DEF RotateLog, Unread, BetweenScans
<1>2. CASE CurrentFile = {}
  BY <1>1, <1>2, IdlingKeeps DEF RotateLog
<1>3. CASE CurrentFile # {}
  <2>1. CurrentFile \in SUBSET Kept
    BY DEF CurrentFile
  <2>2. files' = [f \in DOMAIN files |->
          IF f \in CurrentFile THEN [files[f] EXCEPT !.name = "rotated"] ELSE files[f]]
    BY <1>3 DEF RotateLog
  <2> QED
    BY <1>1, <2>1, <2>2, RenamingKeeps
<1> QED
  BY <1>2, <1>3

LEMMA PruningKeeps ==
  ASSUME LogsKnown, NEW w \in LogWriters, PruneLogs(w)
  PROVE  LogsKnown'
<1>1. UNCHANGED <<written, stream, offsets, sent, wire, pageVars>>
  BY DEF PruneLogs
<1>2. DiskKnown /\ IsFiniteSet(Kept)
  <2>1. PICK n \in Nat : DOMAIN files = 1 .. n
    BY DEF LogsKnown, DiskKnown
  <2>2. IsFiniteSet(1 .. n)
    BY FS_Interval
  <2> QED
    BY <2>1, <2>2, FS_Subset DEF LogsKnown, Kept
<1>3. ASSUME NEW f \in Pruned, NEW g \in Kept \ Pruned
      PROVE  Newest(f) < Newest(g)
  <2> DEFINE Newer(h) == {k \in Kept : Newest(k) > Newest(h)}
  <2>1. f \in Kept /\ Cardinality(Newer(f)) >= KeepFiles /\ ~(Cardinality(Newer(g)) >= KeepFiles)
    BY DEF Pruned
  <2>2. Newest(f) \in Nat /\ Newest(g) \in Nat /\ \A k \in Kept : Newest(k) \in Nat
    BY <1>2, <2>1, FileFacts DEF Kept
  <2>3. SUFFICES ASSUME ~(Newest(f) < Newest(g)) PROVE FALSE
    OBVIOUS
  <2>4. Newer(f) \subseteq Newer(g)
    BY <2>2, <2>3
  <2>5. IsFiniteSet(Newer(f)) /\ IsFiniteSet(Newer(g))
    BY <1>2, FS_Subset
  <2>6. Cardinality(Newer(f)) <= Cardinality(Newer(g))
        /\ Cardinality(Newer(f)) \in Nat /\ Cardinality(Newer(g)) \in Nat
    BY <2>4, <2>5, FS_Subset, FS_CardinalityType
  <2> HIDE DEF Newer
  <2> QED
    BY <2>1, <2>6, BudgetIsNumber
<1>4. Pruned \in SUBSET Kept
  BY DEF Pruned
<1>5. files' = [f \in DOMAIN files |-> IF f \in Pruned THEN [files[f] EXCEPT !.name = "gone"] ELSE files[f]]
  BY DEF PruneLogs
<1> QED
  BY <1>1, <1>3, <1>4, <1>5, RenamingKeeps

LEMMA AppendingKeeps ==
  ASSUME LogsKnown, NEW w \in LogWriters, AppendLog(w)
  PROVE  LogsKnown'
<1>1. DiskKnown /\ files \in Seq(LogFile) /\ written \in Nat /\ written' = written + 1
      /\ UNCHANGED <<stream, offsets, sent, wire, pageVars>>
  BY DEF LogsKnown, DiskKnown, AppendLog
<1>2. CASE CurrentFile = {}
  <2>1. PICK e \in Seq(Nat) : e = <<written + 1>> /\ Len(e) = 1 /\ e[1] = written + 1
    <3>1. written + 1 \in Nat
      BY <1>1
    <3>2. <<written + 1>> \in Seq(Nat)
      BY <3>1
    <3> QED
      BY <3>1, <3>2
  <2>2. PICK new \in LogFile : new = [name |-> "current", entries |-> e]
    BY <2>1 DEF LogFile
  <2>3. files' = Append(files, new) /\ new.name = "current" /\ new.entries = e
    BY <1>2, <2>1, <2>2 DEF AppendLog
  <2>4. /\ files' \in Seq(LogFile) /\ DOMAIN files' = DOMAIN files \union {Len(files) + 1}
        /\ files'[Len(files) + 1] = new /\ Len(files) + 1 \notin DOMAIN files
        /\ \A f \in DOMAIN files : files'[f] = files[f]
    BY <1>1, <2>3
  <2>5. PruningOldest'
    <3> SUFFICES ASSUME NEW f \in DOMAIN files', files'[f].name = "gone", NEW g \in Kept'
                 PROVE  Newest(f)' < Newest(g)'
      BY DEF PruningOldest
    <3>1. f \in DOMAIN files /\ files[f].name = "gone" /\ Newest(f)' = Newest(f)
      BY <2>3, <2>4 DEF Newest
    <3>2. Newest(f) \in Nat /\ Newest(f) <= written
      BY <1>1, <3>1, FileFacts
    <3>3. CASE g = Len(files) + 1
      <4>1. Newest(g)' = written + 1
        BY <2>1, <2>3, <2>4, <3>3 DEF Newest
      <4> QED
        BY <1>1, <3>1, <3>2, <4>1
    <3>4. CASE g # Len(files) + 1
      <4>1. g \in Kept /\ Newest(g)' = Newest(g)
        BY <2>4, <3>4 DEF Kept, Newest
      <4> QED
        BY <1>1, <3>1, <4>1 DEF DiskKnown, PruningOldest
    <3> QED
      BY <3>3, <3>4
  <2>6. ASSUME NEW f \in DOMAIN files'
        PROVE  /\ Len(files'[f].entries) > 0
               /\ \A i \in 1 .. Len(files'[f].entries) : files'[f].entries[i] <= written'
    <3>1. CASE f = Len(files) + 1
      <4>1. files'[f].entries = e
        BY <2>3, <2>4, <3>1
      <4> QED
        BY <1>1, <2>1, <4>1
    <3>2. CASE f # Len(files) + 1
      <4>1. f \in DOMAIN files /\ files'[f] = files[f] /\ files[f].entries \in Seq(Nat)
        BY <1>1, <2>4, <3>2, FileFacts
      <4>2. Len(files[f].entries) > 0 /\ \A i \in 1 .. Len(files[f].entries) :
                                           files[f].entries[i] <= written /\ files[f].entries[i] \in Nat
        BY <1>1, <4>1 DEF DiskKnown
      <4>3. \A m \in Nat : m <= written => m <= written'
        BY <1>1
      <4>4. \A i \in 1 .. Len(files[f].entries) : files[f].entries[i] <= written'
        BY <4>2, <4>3
      <4> QED
        BY <4>1, <4>2, <4>4
    <3> QED
      BY <3>1, <3>2
  <2>7. DiskKnown'
    BY <1>1, <2>4, <2>5, <2>6 DEF DiskKnown
  <2>8. \A f \in DOMAIN files : Grown(f)
    BY <1>1, <2>4, FileFacts DEF Grown
  <2> QED
    BY <1>1, <2>7, <2>8, GrowingKeepsStream
<1>3. CASE CurrentFile # {}
  <2>1. files' = [f \in DOMAIN files |->
          IF f \in CurrentFile THEN [files[f] EXCEPT !.entries = Append(@, written + 1)] ELSE files[f]]
    BY <1>3 DEF AppendLog
  <2>2. ASSUME NEW f \in CurrentFile
        PROVE  \E e \in Seq(Nat) :
                 /\ e = Append(files[f].entries, written + 1) /\ Len(e) = Len(files[f].entries) + 1
                 /\ e[Len(e)] = written + 1 /\ \A i \in 1 .. Len(files[f].entries) : e[i] = files[f].entries[i]
                 /\ files'[f] \in LogFile /\ files'[f].entries = e /\ files'[f].name = files[f].name
    <3>1. f \in DOMAIN files /\ files[f] \in LogFile /\ files[f].entries \in Seq(Nat)
      BY <1>1, FileFacts DEF CurrentFile, Kept
    <3>2. PICK e \in Seq(Nat) :
            /\ e = Append(files[f].entries, written + 1) /\ Len(e) = Len(files[f].entries) + 1
            /\ e[Len(e)] = written + 1 /\ \A i \in 1 .. Len(files[f].entries) : e[i] = files[f].entries[i]
      <4>1. written + 1 \in Nat
        BY <1>1
      <4>2. Append(files[f].entries, written + 1) \in Seq(Nat)
        BY <3>1, <4>1
      <4>3. PICK old \in Seq(Nat), n \in Nat : old = files[f].entries /\ n = written + 1
        BY <3>1, <4>1
      <4>4. /\ Append(old, n) \in Seq(Nat) /\ Len(Append(old, n)) = Len(old) + 1
            /\ Append(old, n)[Len(old) + 1] = n /\ \A i \in 1 .. Len(old) : Append(old, n)[i] = old[i]
        OBVIOUS
      <4> QED
        BY <4>3, <4>4
    <3>3. files'[f] = [files[f] EXCEPT !.entries = e]
      BY <2>1, <3>1, <3>2
    <3>4. files'[f] \in LogFile /\ files'[f].entries = e /\ files'[f].name = files[f].name
      BY <3>1, <3>2, <3>3 DEF LogFile
    <3> QED
      BY <3>2, <3>4
  <2>3. DOMAIN files' = DOMAIN files /\ \A f \in DOMAIN files : f \notin CurrentFile => files'[f] = files[f]
    BY <2>1
  <2>4. \A f \in DOMAIN files : files'[f] \in LogFile /\ files'[f].name = files[f].name
    BY <1>1, <2>2, <2>3, FileFacts
  <2>5. files' \in Seq(LogFile)
    <3>1. PICK n \in Nat : DOMAIN files = 1 .. n
      BY <1>1
    <3>2. files' = [f \in 1 .. n |-> files'[f]]
      BY <2>1, <3>1
    <3>3. \A f \in 1 .. n : files'[f] \in LogFile
      BY <2>4, <3>1
    <3> QED
      BY <3>2, <3>3
  <2>6. ASSUME NEW f \in DOMAIN files
        PROVE  /\ Len(files'[f].entries) > 0
               /\ \A i \in 1 .. Len(files'[f].entries) : files'[f].entries[i] <= written'
               /\ Grown(f)
    <3>1. /\ files[f].entries \in Seq(Nat) /\ Len(files[f].entries) > 0
          /\ \A i \in 1 .. Len(files[f].entries) : files[f].entries[i] \in Nat /\ files[f].entries[i] <= written
      BY <1>1, FileFacts DEF DiskKnown
    <3>2. CASE f \in CurrentFile
      <4>1. PICK e \in Seq(Nat) :
              /\ Len(e) = Len(files[f].entries) + 1 /\ e[Len(e)] = written + 1
              /\ \A i \in 1 .. Len(files[f].entries) : e[i] = files[f].entries[i]
              /\ files'[f].entries = e /\ files'[f].name = files[f].name
        BY <2>2, <3>2
      <4>2. Len(e) > 0 /\ Len(files[f].entries) \in Nat /\ Len(e) \in Nat
        BY <3>1, <4>1
      <4>3. \A i \in 1 .. Len(e) : i = Len(e) \/ i \in 1 .. Len(files[f].entries)
        BY <4>1, <4>2
      <4>4. ASSUME NEW i \in 1 .. Len(e) PROVE e[i] <= written'
        <5>1. CASE i = Len(e)
          BY <1>1, <4>1, <5>1
        <5>2. CASE i # Len(e)
          <6>1. i \in 1 .. Len(files[f].entries)
            BY <4>3, <5>2
          <6>2. e[i] = files[f].entries[i] /\ files[f].entries[i] \in Nat /\ files[f].entries[i] <= written
            BY <3>1, <4>1, <6>1
          <6> QED
            BY <1>1, <6>2
        <5> QED
          BY <5>1, <5>2
      <4>5. Grown(f)
        BY <2>3, <4>1, <4>2 DEF Grown
      <4> QED
        BY <4>1, <4>2, <4>4, <4>5
    <3>3. CASE f \notin CurrentFile
      BY <1>1, <2>3, <3>1, <3>3 DEF Grown
    <3> QED
      BY <3>2, <3>3
  <2>7. Kept' = Kept
    BY <2>3, <2>4 DEF Kept
  <2>8. PruningOldest'
    <3> SUFFICES ASSUME NEW f \in DOMAIN files, files[f].name = "gone", NEW g \in Kept
                 PROVE  Newest(f)' < Newest(g)'
      BY <2>3, <2>4, <2>7 DEF PruningOldest
    <3>1. f \notin CurrentFile /\ Newest(f)' = Newest(f)
      BY <2>3 DEF CurrentFile, Newest
    <3>2. Newest(f) < Newest(g) /\ Newest(f) \in Nat /\ Newest(f) <= written /\ g \in DOMAIN files
      BY <1>1, FileFacts DEF DiskKnown, PruningOldest, Kept
    <3>3. CASE g \in CurrentFile
      <4>1. Newest(g)' = written + 1
        BY <2>2, <3>3 DEF Newest
      <4> QED
        BY <1>1, <3>1, <3>2, <4>1
    <3>4. CASE g \notin CurrentFile
      BY <2>3, <3>1, <3>2, <3>4 DEF Newest
    <3> QED
      BY <3>3, <3>4
  <2>9. DiskKnown'
    BY <1>1, <2>3, <2>5, <2>6, <2>8 DEF DiskKnown
  <2> QED
    BY <1>1, <2>6, <2>9, GrowingKeepsStream
<1> QED
  BY <1>2, <1>3

(* ---- The stream. ----------------------------------------------------------- *)

(* What is listed and left is opened.                                       *)
LEMMA ListedIsOpened ==
  ASSUME LogsKnown, NEW f \in DOMAIN stream.listing, f \in Kept
  PROVE  f \in StreamOpened(f) /\ f \in DOMAIN files
BY DEF LogsKnown, StreamKnown, ListingKnown, StreamOpened, CurrentFile, Kept

LEMMA OpenedIsKept ==
  ASSUME NEW f PROVE StreamOpened(f) \subseteq Kept
BY DEF StreamOpened, CurrentFile

(* Steps that leave the disk and the page alone but for what is under way.  *)
LEMMA StreamStepKeeps ==
  ASSUME LogsKnown, UNCHANGED <<files, written, pageVars>>,
         ListingKnown', OffsetsKnown', AgainKnown', FollowedIsSent', wire' \subseteq Nat
  PROVE  LogsKnown'
BY DEF LogsKnown, DiskKnown, PruningOldest, Kept, Newest, StreamKnown, PageKnown, ClearedStays, pageVars

LEMMA ListsKeep ==
  ASSUME LogsKnown, ListFiles
  PROVE  LogsKnown'
<1>1. UNCHANGED <<files, written, offsets, sent, wire, pageVars>> /\ stream.listing = Unlisted
  BY DEF ListFiles, diskVars
<1>2. stream'.at = stream.at /\ stream'.listing = Listing
  BY DEF ListFiles, StreamIs
<1>3. DOMAIN Listing = Kept /\ \A f \in Kept : /\ Listing[f].name = files[f].name
                                               /\ Listing[f].size = Len(files[f].entries)
  BY DEF Listing
<1>4. Kept' = Kept
  BY <1>1 DEF Kept
<1>5. ListingKnown'
  BY <1>1, <1>2, <1>3, <1>4, FileFacts DEF LogsKnown, ListingKnown, Kept
<1>6. OffsetsKnown' /\ AgainKnown'
  BY <1>1, <1>2, <1>3, <1>4 DEF LogsKnown, StreamKnown, OffsetsKnown, AgainKnown
<1>7. FollowedIsSent'
  BY <1>1, <1>2, <1>4 DEF LogsKnown, StreamKnown, FollowedIsSent, Prefix
<1>8. wire' \subseteq Nat
  BY <1>1 DEF LogsKnown, PageKnown
<1> QED
  BY <1>1, <1>5, <1>6, <1>7, <1>8, StreamStepKeeps

LEMMA QueriesKeep ==
  ASSUME LogsKnown, QueryFiles
  PROVE  LogsKnown'
<1>1. UNCHANGED <<files, written, offsets, pageVars>> /\ stream'.listing = Unlisted
      /\ stream.at \in {"query", "again"}
  BY DEF QueryFiles, diskVars, StreamIs
<1>2. stream'.at = "live" => stream.at = "again"
  BY DEF QueryFiles, StreamIs, NextPhase
<1>3. ListingKnown'
  BY <1>1, NothingListed DEF ListingKnown
<1>4. OffsetsKnown'
  BY <1>1 DEF LogsKnown, StreamKnown, OffsetsKnown
<1>5. AgainKnown'
  BY <1>1 DEF AgainKnown
<1> DEFINE all == UNION {EntriesOf(g) : g \in UNION {StreamOpened(f) : f \in DOMAIN stream.listing}}
<1>6. all \subseteq Nat
  BY OpenedIsKept, FileFacts DEF LogsKnown, Kept
<1>7. wire' \subseteq Nat
  <2>1. wire' = wire \/ wire' = wire \union (all \ sent)
    BY DEF QueryFiles, SendEntries
  <2> QED
    BY <1>6, <2>1 DEF LogsKnown, PageKnown
<1>8. FollowedIsSent'
  <2> SUFFICES ASSUME stream'.at = "live", NEW f \in DOMAIN offsets, f \in Kept
               PROVE  Prefix(f, offsets[f]) \subseteq sent'
    <3>1. Kept' = Kept /\ \A f \in DOMAIN offsets : Prefix(f, offsets[f])' = Prefix(f, offsets[f])
      BY <1>1 DEF Kept, Prefix
    <3> QED
      BY <1>1, <3>1 DEF FollowedIsSent
  <2>1. stream.listing # Unlisted /\ sent' = sent \union all
    BY DEF QueryFiles, StreamIs, SendEntries
  <2>2. f \in DOMAIN stream.listing
    BY <1>2, <2>1 DEF LogsKnown, StreamKnown, AgainKnown
  <2>3. EntriesOf(f) \subseteq all
    BY <2>2, ListedIsOpened
  <2>4. f \in DOMAIN files /\ offsets[f] \in Nat /\ offsets[f] <= Len(files[f].entries)
    BY DEF LogsKnown, StreamKnown, OffsetsKnown
  <2>5. Prefix(f, offsets[f]) \subseteq EntriesOf(f)
    BY <2>4, FileFacts DEF LogsKnown
  <2> QED
    BY <2>1, <2>3, <2>5
<1> QED
  BY <1>1, <1>3, <1>4, <1>5, <1>7, <1>8, StreamStepKeeps

LEMMA FollowsKeep ==
  ASSUME LogsKnown, FollowFiles
  PROVE  LogsKnown'
<1>1. UNCHANGED <<files, written, sent, wire, pageVars>>
      /\ stream'.at = "again" /\ stream'.listing = Unlisted
  BY DEF FollowFiles, diskVars, StreamIs, NextPhase
<1>2. /\ DOMAIN offsets' = DOMAIN stream.listing
      /\ \A f \in DOMAIN stream.listing : offsets'[f] = stream.listing[f].size
  BY DEF FollowFiles
<1>3. OffsetsKnown'
  BY <1>1, <1>2 DEF LogsKnown, StreamKnown, OffsetsKnown, ListingKnown
<1>4. ListingKnown' /\ AgainKnown' /\ FollowedIsSent'
  BY <1>1, NothingListed DEF ListingKnown, AgainKnown, FollowedIsSent
<1>5. wire' \subseteq Nat
  BY <1>1 DEF LogsKnown, PageKnown
<1> QED
  BY <1>1, <1>3, <1>4, <1>5, StreamStepKeeps

LEMMA ScansKeep ==
  ASSUME LogsKnown, ScanFiles
  PROVE  LogsKnown'
<1>1. UNCHANGED <<files, written, pageVars>> /\ stream.at = "live"
      /\ stream'.at = "live" /\ stream'.listing = Unlisted
  BY DEF ScanFiles, diskVars, StreamIs
<1>2. ListingKnown' /\ AgainKnown'
  BY <1>1, NothingListed DEF ListingKnown, AgainKnown
<1>3. Kept' = Kept /\ \A f, n : Prefix(f, n)' = Prefix(f, n)
  BY <1>1 DEF Kept, Prefix
<1>4. CASE ReadFails
  <2>1. UNCHANGED <<offsets, sent, wire>>
    BY <1>4 DEF ScanFiles
  <2>2. OffsetsKnown' /\ FollowedIsSent' /\ wire' \subseteq Nat
    BY <1>1, <1>3, <2>1 DEF LogsKnown, StreamKnown, OffsetsKnown, FollowedIsSent, PageKnown, Prefix
  <2> QED
    BY <1>1, <1>2, <2>2, StreamStepKeeps
<1>5. CASE ~ReadFails
  <2> DEFINE new(f, g) == Prefix(g, IF stream.listing[f].size < Len(files[g].entries)
                                    THEN stream.listing[f].size ELSE Len(files[g].entries))
                          \ Prefix(g, IF From(f) < Len(files[g].entries)
                                      THEN From(f) ELSE Len(files[g].entries))
  <2> DEFINE all == UNION {UNION {new(f, g) : g \in StreamOpened(f)} : f \in DOMAIN stream.listing}
  <2>1. /\ offsets' = [f \in DOMAIN stream.listing |-> stream.listing[f].size]
        /\ sent' = sent \union all /\ wire' = wire \union (all \ sent)
    BY <1>5 DEF ScanFiles, SendEntries
  <2>2. OffsetsKnown'
    BY <1>1, <2>1 DEF LogsKnown, StreamKnown, OffsetsKnown, ListingKnown
  <2>3. all \subseteq Nat
    <3> SUFFICES ASSUME NEW f \in DOMAIN stream.listing, NEW g \in StreamOpened(f), NEW e \in new(f, g)
                 PROVE  e \in Nat
      OBVIOUS
    <3>1. g \in DOMAIN files
      BY OpenedIsKept DEF Kept
    <3>2. files[g].entries \in Seq(Nat) /\ Len(files[g].entries) \in Nat
      BY <3>1, FileFacts DEF LogsKnown
    <3>3. stream.listing[f].size \in Nat
      BY DEF LogsKnown, StreamKnown, ListingKnown
    <3>4. PICK n \in Nat : n <= Len(files[g].entries) /\ e \in Prefix(g, n)
      BY <3>2, <3>3
    <3> QED
      BY <3>2, <3>4 DEF Prefix
  <2>4. FollowedIsSent'
    <3> SUFFICES ASSUME NEW f \in DOMAIN stream.listing, f \in Kept
                 PROVE  Prefix(f, stream.listing[f].size) \subseteq sent \union all
      <4> SUFFICES ASSUME NEW f \in DOMAIN offsets', f \in Kept'
                   PROVE  Prefix(f, offsets[f])' \subseteq sent'
        BY DEF FollowedIsSent
      <4>1. Prefix(f, offsets[f])' = Prefix(f, offsets'[f])
        BY <1>1 DEF Prefix
      <4>2. f \in DOMAIN stream.listing /\ f \in Kept /\ offsets'[f] = stream.listing[f].size
        BY <1>3, <2>1
      <4> QED
        BY <2>1, <4>1, <4>2
    <3>1. f \in StreamOpened(f) /\ f \in DOMAIN files
      BY ListedIsOpened
    <3>2. stream.listing[f].size \in Nat /\ stream.listing[f].size <= Len(files[f].entries)
          /\ Len(files[f].entries) \in Nat
      BY <3>1, FileFacts DEF LogsKnown, StreamKnown, ListingKnown
    <3>3. From(f) \in Nat /\ From(f) <= Len(files[f].entries) /\ Prefix(f, From(f)) \subseteq sent
      <4>1. CASE f \in DOMAIN offsets
        BY <1>1, <4>1 DEF LogsKnown, StreamKnown, OffsetsKnown, FollowedIsSent, From
      <4>2. CASE f \notin DOMAIN offsets
        BY <3>2, <4>2 DEF From, Prefix
      <4> QED
        BY <4>1, <4>2
    <3>4. new(f, f) = Prefix(f, stream.listing[f].size) \ Prefix(f, From(f))
      <4>1. (IF stream.listing[f].size < Len(files[f].entries)
             THEN stream.listing[f].size ELSE Len(files[f].entries)) = stream.listing[f].size
        BY <3>2
      <4>2. (IF From(f) < Len(files[f].entries) THEN From(f) ELSE Len(files[f].entries)) = From(f)
        BY <3>2, <3>3
      <4> QED
        BY <4>1, <4>2
    <3>5. new(f, f) \subseteq all
      BY <3>1
    <3> QED
      BY <3>3, <3>4, <3>5
  <2>5. wire' \subseteq Nat
    BY <2>1, <2>3 DEF LogsKnown, PageKnown
  <2> QED
    BY <1>1, <1>2, <2>2, <2>4, <2>5, StreamStepKeeps
<1> QED
  BY <1>4, <1>5

(* A stream that is opened or broken starts with nothing.                   *)
LEMMA OpeningKeeps ==
  ASSUME LogsKnown, UNCHANGED <<files, written>>,
         stream'.at \in {"query", "off"}, stream'.listing = Unlisted, offsets' = <<>>, sent' = {}, wire' = {},
         shown' \subseteq Nat, cutoff' \in Nat, ClearedStays'
  PROVE  LogsKnown'
<1>1. StreamKnown'
  BY NothingListed DEF StreamKnown, ListingKnown, OffsetsKnown, AgainKnown, FollowedIsSent
<1>2. PageKnown'
  BY DEF PageKnown
<1>3. DiskKnown'
  BY DEF LogsKnown, DiskKnown, PruningOldest, Kept, Newest
<1> QED
  BY <1>1, <1>2, <1>3 DEF LogsKnown

LEMMA PageKeeps ==
  ASSUME LogsKnown,
         ConnectLogs \/ BreakStream \/ (\E e \in wire : ShowLog(e)) \/ RefreshLogs \/ ClearView
  PROVE  LogsKnown'
<1> USE DEF diskVars, pageVars
<1>1. DiskKnown /\ StreamKnown /\ shown \subseteq Nat /\ cutoff \in Nat /\ wire \subseteq Nat /\ ClearedStays
  BY DEF LogsKnown, PageKnown
<1>2. CASE ConnectLogs
  BY <1>1, <1>2, OpeningKeeps DEF ConnectLogs, OpenStream, StreamIs, ClearedStays
<1>3. CASE BreakStream
  BY <1>1, <1>3, OpeningKeeps DEF BreakStream, NoStream, ClearedStays
<1>4. CASE RefreshLogs
  <2>1. Stored \subseteq Nat
    BY <1>1, FileFacts DEF Stored, Kept
  <2>2. shown' \subseteq Nat /\ cutoff' \in Nat /\ ClearedStays'
    BY <1>1, <1>4, <2>1 DEF RefreshLogs, ClearedStays
  <2> QED
    BY <1>4, <2>2, OpeningKeeps DEF RefreshLogs, OpenStream, StreamIs
<1>5. ASSUME UNCHANGED <<files, written, stream, offsets, sent>> PROVE DiskKnown' /\ StreamKnown'
  BY <1>1, <1>5 DEF DiskKnown, PruningOldest, Kept, Newest, StreamKnown, ListingKnown, OffsetsKnown, AgainKnown,
                    FollowedIsSent, Prefix
<1>6. CASE ClearView
  BY <1>1, <1>5, <1>6 DEF ClearView, LogsKnown, DiskKnown, PageKnown, ClearedStays
<1>7. CASE \E e \in wire : ShowLog(e)
  <2>1. PICK e \in wire : ShowLog(e)
    BY <1>7
  <2>2. PageKnown'
    BY <1>1, <2>1 DEF ShowLog, PageKnown, ClearedStays
  <2> QED
    BY <1>5, <2>1, <2>2 DEF ShowLog, LogsKnown
<1> QED
  BY <1>2, <1>3, <1>4, <1>6, <1>7

(* LogsFaithful: what follows a log sends each entry of a file it counts as *)
(* read, pruning removes the oldest, and what was cleared stays away, for   *)
(* any number of writers, rotations and streams (log-manager: follow,       *)
(* pruneUnlocked; app.js: appendLog), if no file is rotated mid-scan.       *)
THEOREM LogsStayFaithful == ASSUME BetweenScans PROVE LogSpec => []LogsFaithful
<1>1. LogInit => LogsKnown
  BY LogsInitial
<1>2. LogsKnown /\ [LogNext]_logVars => LogsKnown'
  <2> SUFFICES ASSUME LogsKnown, [LogNext]_logVars
               PROVE  LogsKnown'
    OBVIOUS
  <2>1. ASSUME NEW w \in LogWriters, StatLog(w) \/ RotateLog(w) \/ AppendLog(w) \/ PruneLogs(w)
        PROVE  LogsKnown'
    <3>1. CASE StatLog(w)
      BY <3>1, IdlingKeeps DEF StatLog
    <3> QED
      BY <2>1, <3>1, RotationKeeps, AppendingKeeps, PruningKeeps
  <2>2. CASE ListFiles \/ QueryFiles \/ FollowFiles \/ ScanFiles
    BY <2>2, ListsKeep, QueriesKeep, FollowsKeep, ScansKeep
  <2>3. CASE ConnectLogs \/ BreakStream \/ (\E e \in wire : ShowLog(e)) \/ RefreshLogs \/ ClearView
    BY <2>3, PageKeeps
  <2>4. CASE UNCHANGED logVars
    BY <2>4, IdlingKeeps DEF logVars, diskVars
  <2> QED
    BY <2>1, <2>2, <2>3, <2>4 DEF LogNext
<1>3. LogsKnown => LogsFaithful
  BY DEF LogsKnown, DiskKnown, StreamKnown, PageKnown, LogsFaithful
<1> QED
  BY <1>1, <1>2, <1>3, PTL DEF LogSpec

-----------------------------------------------------------------------------
(* Connection tests.                                                       *)

Underway == {"starting", "entering", "working", "done"}
TestTypes == test = [t \in Tests |-> test[t]] /\ run = [t \in Tests |-> run[t]]
ManagerHeld == \A t \in Tests : run[t].at # "none" => active = t
RunningShown == \A t \in Tests : run[t].at \in Underway => test[t] = "running"
StoppedIsIdle == ~alive => \A t \in Tests : run[t].at = "none"
TestsInv == TestTypes /\ ManagerHeld /\ RunningShown /\ StoppedIsIdle

(* No test has the name of the free manager.                               *)
TestsNamed == Nobody \notin Tests

(* A step of one test leaves the others alone.                             *)
LEMMA RunSet ==
  ASSUME TestTypes, NEW t \in Tests, NEW at, NEW stage, RunIs(t, at, stage)
  PROVE  /\ run' = [u \in Tests |-> run'[u]]
         /\ run'[t].at = at /\ \A u \in Tests \ {t} : run'[u] = run[u]
BY DEF RunIs, TestTypes

LEMMA StatusSet ==
  ASSUME TestTypes, NEW t \in Tests, NEW status, StatusIs(t, status)
  PROVE  /\ test' = [u \in Tests |-> test'[u]]
         /\ test'[t] = status /\ \A u \in Tests \ {t} : test'[u] = test[u]
BY DEF StatusIs, TestTypes

LEMMA TestsBegin == ASSUME TestInit PROVE TestsInv
BY DEF TestInit, TestsInv, TestTypes, ManagerHeld, RunningShown, StoppedIsIdle, Underway

LEMMA BeginHeld == ASSUME TestsNamed, TestsInv, NEW t \in Tests, BeginTest(t) PROVE TestsInv'
<1>1. run' = [u \in Tests |-> run'[u]] /\ run'[t].at = "starting" /\ \A u \in Tests \ {t} : run'[u] = run[u]
  BY RunSet DEF TestsInv, BeginTest
<1>2. test' = [u \in Tests |-> test'[u]] /\ test'[t] = "running" /\ \A u \in Tests \ {t} : test'[u] = test[u]
  BY StatusSet DEF TestsInv, BeginTest
<1>3. \A u \in Tests : run[u].at = "none"
  BY DEF BeginTest, TestsInv, ManagerHeld, TestsNamed
<1>4. active' = t /\ alive' /\ alive
  BY DEF BeginTest
<1> QED BY <1>1, <1>2, <1>3, <1>4 DEF TestsInv, TestTypes, ManagerHeld, RunningShown, StoppedIsIdle, Underway

(* A run goes on, ends or fails; its record is only written to disk.       *)
LEMMA GoesOnHeld ==
  ASSUME TestsInv, NEW t \in Tests,
         \/ TestSaved(t) \/ TestUnsaved(t) \/ EnterStage(t) \/ StageSucceeds(t) \/ StageFails(t)
         \/ StageTimesOut(t) \/ StageAborted(t) \/ WriteFails(t)
  PROVE  TestsInv'
<1>1. /\ UNCHANGED <<test, active, alive>> /\ run[t].at \in Underway
      /\ \E at \in {"entering", "none", "working", "done", "raised"}, stage \in {0, 1, run[t].stage, Stages, run[t].stage + 1} :
           RunIs(t, at, stage)
  BY DEF TestSaved, TestUnsaved, EnterStage, StageSucceeds, StageFails, StageTimesOut, StageAborted, WriteFails,
         Raised, Underway
<1>2. run' = [u \in Tests |-> run'[u]] /\ \A u \in Tests \ {t} : run'[u] = run[u]
  BY <1>1, RunSet DEF TestsInv
<1>3. active = t /\ test[t] = "running" /\ alive
  BY <1>1 DEF TestsInv, ManagerHeld, RunningShown, StoppedIsIdle, Underway
<1> QED BY <1>1, <1>2, <1>3 DEF TestsInv, TestTypes, ManagerHeld, RunningShown, StoppedIsIdle

LEMMA ComesToEndHeld ==
  ASSUME TestsInv, NEW t \in Tests, Succeed(t) \/ SuccessUnsaved(t) \/ Fail(t) PROVE TestsInv'
<1>1. /\ UNCHANGED <<active, alive>> /\ run[t].at \in {"done", "raised"}
      /\ \E at \in {"ending", "raised"} : RunIs(t, at, 0)
      /\ \E status \in {"success", "cancelled", "failed"} : StatusIs(t, status)
  BY DEF Succeed, SuccessUnsaved, Fail
<1>2. /\ run' = [u \in Tests |-> run'[u]] /\ \A u \in Tests \ {t} : run'[u] = run[u]
      /\ run'[t].at \in {"ending", "raised"}
  BY <1>1, RunSet DEF TestsInv
<1>3. test' = [u \in Tests |-> test'[u]] /\ \A u \in Tests \ {t} : test'[u] = test[u]
  BY <1>1, StatusSet DEF TestsInv
<1>4. active = t /\ alive
  BY <1>1 DEF TestsInv, ManagerHeld, StoppedIsIdle
<1> QED BY <1>1, <1>2, <1>3, <1>4 DEF TestsInv, TestTypes, ManagerHeld, RunningShown, StoppedIsIdle, Underway

(* What ends gives the manager back.                                       *)
LEMMA EndHeld == ASSUME TestsInv, NEW t \in Tests, End(t) PROVE TestsInv'
<1>1. /\ run' = [u \in Tests |-> run'[u]] /\ run'[t].at = "none" /\ \A u \in Tests \ {t} : run'[u] = run[u]
  BY RunSet DEF TestsInv, End
<1>2. UNCHANGED <<test, alive>> /\ active = t
  BY DEF End, TestsInv, ManagerHeld
<1>3. \A u \in Tests \ {t} : run[u].at = "none"
  BY <1>2 DEF TestsInv, ManagerHeld
<1> QED BY <1>1, <1>2, <1>3 DEF TestsInv, TestTypes, ManagerHeld, RunningShown, StoppedIsIdle, Underway

LEMMA AbortHeld == ASSUME TestsInv, NEW t \in Tests, Cancel(t) \/ TotalTimer(t) PROVE TestsInv'
BY DEF Cancel, TotalTimer, TestsInv, TestTypes, ManagerHeld, RunningShown, StoppedIsIdle

LEMMA RestartHeld == ASSUME TestsInv, TestsStop \/ TestsStart PROVE TestsInv'
<1>1. CASE TestsStop
  BY <1>1 DEF TestsStop, TestsInv, TestTypes, ManagerHeld, RunningShown, StoppedIsIdle, Underway
<1>2. CASE TestsStart
  BY <1>2 DEF TestsStart, TestsInv, TestTypes, ManagerHeld, RunningShown, StoppedIsIdle, Underway
<1> QED BY <1>1, <1>2

LEMMA TestStep == ASSUME TestsNamed, TestsInv, [TestNext]_testVars PROVE TestsInv'
<1>1. CASE UNCHANGED testVars
  BY <1>1 DEF testVars, TestsInv, TestTypes, ManagerHeld, RunningShown, StoppedIsIdle
<1>2. ASSUME NEW t \in Tests, Works(t) PROVE TestsInv'
  BY <1>2, GoesOnHeld, ComesToEndHeld, EndHeld DEF Works
<1> QED BY <1>1, <1>2, BeginHeld, GoesOnHeld, AbortHeld, RestartHeld DEF TestNext

(* However stages, deadlines, cancels, failing writes and restarts fall:    *)
(* only the test that holds the manager is under way, and what is under way *)
(* is shown as running (ProxyTestManager in test-manager.mjs).               *)
THEOREM OneTestAtATime == ASSUME TestsNamed PROVE TestSpec => []OneTestRuns
<1>1. TestSpec => []TestsInv
  BY TestsBegin, TestStep, PTL DEF TestSpec
<1>2. TestsInv => OneTestRuns
  BY DEF TestsInv, ManagerHeld, RunningShown, OneTestRuns, Underway
<1> QED BY <1>1, <1>2, PTL
==============================================================================
