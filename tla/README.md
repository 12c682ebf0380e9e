# A TLA+ model of the DSH Docker platform

The repository packages a third-party program, DSH, in a container and keeps
it up to date without rebuilding the container. This directory models the parts
of that platform whose correctness depends on the order of durable writes,
on crashes and on several processes acting at once. Source paths below are
relative to `src/container/`.

## 1. The system

The container runs three layers. **Stage-0** (`platform/stage0`) is the
immutable root process: it owns trust (keyring, release target, receipts of
verified artifacts) and starts **Bootstrap** (`platform/bootstrap`), an updatable
process kept in two slots. Bootstrap selects a *Deployment* (Runtime,
Environment, system plugins), starts the control-plane services and DSH
itself. The **Updater** (`control-plane/modules/updater`) and the other modules are
driven by the user through the management service, the CLI and the gateway.
The parts talk over Unix sockets; everything that survives a restart is a file
under the data root, each replaced atomically (`platform/lib/atomic.mjs`), none
of them together.

| Component | State | Operations | Talks to | What is hard | What makes it correct |
|---|---|---|---|---|---|
| Receipt store (`stage0/lib/artifacts.mjs`) | one status file per receipt | import, accept manifest, activate, revoke, collect | ledger; called by Bootstrap and the Updater | an activation rewrites many files one by one | receipts of what runs stay usable; never two mixed Deployments for good |
| Deployment slots (`bootstrap/lib/deployments.mjs`) | `slots.json`, activation journal, Records, runtime view | plan at start, accept/reject, fallback, activate, rollback, stage/commit/cancel, reset, image baseline | receipt store, runtime | crash between any two writes; operations outside the queue; the start-up and the Updater at once | a switch is atomic; a failed one leaves nothing; DSH runs what the slots select |
| Start-up and control API (`bootstrap/index.mjs`, `lib/control.mjs`) | plan of this start, recovery mode | start sequence, routes | everything below | fallback once, generation check | a start that can resolve a Deployment comes to its end, with the current one or in recovery mode |
| Environment runner (`bootstrap/lib/lifecycle.mjs`, `runtime.mjs`, `dsh-lifecycle.mjs`) | component processes, recovery timer, lifecycle status | start, stop, suspend, pause, resume, restart, reload, automatic recovery | DSH, gateway | timers against transactions, exits during a stop | no DSH started under a transaction that suspended it; status follows the process |
| Bootstrap slots and supervisor (`stage0/lib/slots.mjs`, `supervisor.mjs`, `index.mjs`) | A/B slots, child process | launch with deadline, promote, roll back, reconcile image, collect | Bootstrap (IPC) | late ready or exit, crash between promote and launch | a working Bootstrap is always reachable |
| Trust ledger (`stage0/lib/ledger.mjs`) | keyring, target, official DSH version, anti-rollback marks | accept | receipt store | two-file writes | sequences never go back |
| Snapshots (`updater/lib/snapshots.mjs`, `stage0/lib/snapshot-server.mjs`) | copies of the DSH data | create, restore, remove | Updater, plugin manager | multi-step restore | old or restored data, never a mixture |
| Updater coordinator (`updater/lib/coordinator.mjs`, `channel-state.mjs`, `managed-store.mjs`) | task, channel, desired state | check, update, rollback, set channel, retry hold | Stage-0, Bootstrap | check-then-await, late results | one task; state tells what happened |
| Updater journal (`updater/lib/journal.mjs`, `activator.mjs`, `recovery.mjs`, `rollback.mjs`) | journal phase, snapshot | Experimental update, complete rollback, recovery before DSH starts | Bootstrap, snapshots | two journals, data and program switched separately | data and Deployment match when DSH starts |
| Plugin manager (`plugin-manager/user-transaction.mjs`, `system.mjs`) | profile, journal, snapshot, selection | install, remove, recover | Bootstrap, DSH | crash in a transaction | the change is complete or undone |
| Managed store and its collector (`modules/updater/lib/managed-store.mjs`, `preparer.mjs`, `bootstrap/lib/gc.mjs`) | asset directories, Records, holds | build or reuse, collect | slots, snapshots, Updater | roots are read before anything is deleted | nothing that may be started is deleted |
| System plugins and Skills (`plugin-manager/system.mjs`, `skill-manager/index.mjs`, console `app.js`) | stored selection, active view | change, apply, discard, adopt a catalog at a start | Bootstrap's queue, DSH | selection, view and running DSH move at different times | what is chosen is what DSH gets |
| File manager (`file-manager/tasks.mjs`) | task files, staging | queue, run, cancel, recover | management, Stage-0's lease | crash between the file system and the task's phase | nobody's data are lost |
| Management service (`services/management/server.mjs`, `terminal/sessions.mjs`) | task slots, terminal sessions | one operation per route; attach, expire, close | everything above | checks before an await; lost connections | operations that exclude each other never overlap; the screen is the shell's output |
| Recoverable managers (`lifecycle.mjs`, `stage0/lib/*-launch-server.mjs`) | supervisor, manager process | launch, recover, isolate, stop | Environment runner, Stage-0 | three processes that may each die | one manager, and somebody watching it |
| Access manager (`services/access-manager`) | account files, sessions, tokens, limits | create, change, log in, TOTP, move the console | gateway, console | requests work with what they read before | credentials in force decide; the account is created once |
| Gateway (`services/gateway`) | availability, page recoveries, cookies of a browser | serve, hold, recover a page, sign in and out | DSH lifecycle, Access manager | late answers, three reads of one state | a sign-out ends everything; a page comes to rest |
| Outbound proxy (`services/outbound-proxy`) | revisions, routing state, pools, tests | change, publish, test | DSH, console | files written one after the other under traffic | what a client was told is in force |
| Log manager (`log-manager/index.mjs`) | JSONL files | append, rotate, prune, follow | console | files change under a reader | what is followed is sent once |
| Web UI (`management/public/app.js`, plugin `client.js`) | what a page shows, forms, dialogs, timers | load, save, apply, transfer, remind | all routes | answers out of order, two tabs, reloads | a save changes what its user changed; the page ends up true |
| Environment resources, platform library, build tools | files | single-step operations | - | - | not modelled |

`PROJECT.json` lists every component with its status and every hazard with the
line where it bites.

## 2. What is modelled now

`ReceiptStore` is Stage-0's receipt files. `receipts` is the status in each
file; `goal` is the status each file will have when the running activation has
written them all. `BeginActivation` is the decision under the store's queue,
`WriteReceipt` one file, `AbandonActivation` the death of Stage-0 in between.
A set of tokens stands for the set closed under `parentReceipt`. A receipt can
be revoked whenever the queue is free: this covers every keyring, target and
Registry change, and the authority test `activate` repeats for staged receipts.

`DeploymentManager` extends it with Bootstrap. Its state is the files
(`slots`, `activation`), the view under `/run`, the DSH process (`running`, the
Record it was started from), where the start-up sequence is (`boot`), what it
planned (`plan`, `fresh` standing for the slot generation), and the one control
operation in progress (`op`, with the step it is at). One action is one await
of the code between two durable effects, so a crash may come between any two:

- start-up: `StartBootstrap`, `Recover*` (recoverActivation), `Plan*`
  (prepareImage, and preparePreviousRecovery when a Record cannot be resolved; when that
  throws too, or nothing has been selected, the Skills' root cannot be found either and Bootstrap
  ends: `NothingSelected`, `PlanUnresolved`, `UnresolvedEnds`), `BootStarts`, `BootRejectsImage`, `BootTriesPrevious`, `BootGivesUp`,
  `FallbackStarts` (runtime.start with its one fallback), `AcceptImage*`,
  `AcceptPrevious*`;
- operations: `Request*`, then `Prepare` (materializeCurrent), `JournalPrepared`,
  `SwitchHealthy` (select and health check), `JournalHealthy` or
  `JournalProbation`, `ActivateReceipts`, `JournalReceiptsActive`, `Commit`,
  `Clear`, `Publish`, and the catch block `UndoReceipts`, `Undo`, `UndoClear`;
- DSH: `SuspendDsh`, `ResumeDsh`, `CancelCandidate`;
- the environment: `ImportCandidate`, `RevokeStaged`, `Stage0Writes`,
  `WriteFails`, `BootstrapRestarts` (Stage-0 survives and goes on writing),
  `ContainerDies` (nothing survives but the files; the image may change).

A Record is a model value; what the code decides by (receipts, target sequence,
DSH version, authority, content) are functions of it. Health checks and starts succeed or
fail freely. `Prepare` is one action because it runs inside the queue and
its view is rebuilt at the next start.

`AtomicDeployment` is the abstract specification: the installed Deployment
changes in one step. `DeploymentManager!Atomic` instantiates it with a
refinement mapping: a journaled switch has happened as soon as recoverActivation
would finish it (`Decided`), and not before; `AtomicSwitch` checks the mapping.

`MCDeploymentManager` gives the constants their values; `DeploymentManagerProofs`
holds the theorems.

`ExperimentalUpdate` is one level up: the Updater's Experimental transaction,
its complete rollback, the recovery of both before DSH starts, and the Stable
updates and plain rollbacks that can come between. Its state is the Updater's
`journal` (`transaction.json`), the archived data by transaction (`snapshots`),
the live `data`, the slots, the target of Bootstrap's activation journal (`staged`),
the DSH process (`dsh`: its Deployment and the data it read when it started),
whether Bootstrap's automatic recovery is pending (`reviving`), the start-up
(`boot`) and the one task of the Updater (`task`, with the step it is at).

- The data are the set of Deployments whose DSH wrote them: enough to say
  that they are newer than a DSH, that a snapshot is complete, that a
  restoration took something away; the empty set is an interrupted restore.
- the transaction: `BeginUpdate`, `RecordPhase` (the journal's transitions),
  `SuspendDsh`, `CreateSnapshot`, `BindSnapshot`, `StageCandidate`, `Observe`
  (probation), `CommitCandidate`, `Cleanup`;
- its failure, from any of these: `Undo`, then `Abandon` and `Fail` before the
  snapshot, or the restoration `StopDsh`, `RestoreDeployment` (with `AcceptDeployment`
  when it goes back over the slots), `EraseData`, `ExtractData`, `ResumeDsh`,
  `VerifyHealth`, `FinishRestore`, which `BeginRollback` and
  `RecoverInterruptedUpdate` enter at their own points;
- `BeginStable`, `SwitchDeployment`, `AcceptDeployment`: a switch without a snapshot;
- the environment: `DshWrites`, `DshExits` and `Revive`, `UserStops`, `UserStarts`,
  `Crash`, `BootstrapStarts`, `StartDeployment`.

A Deployment switch is two steps here, DSH started from the target and the slots
committed; that this is what Bootstrap's write-by-write protocol amounts to is what
`AtomicDeployment` states and `AtomicSwitch` checks. `CompleteState` is the abstract
specification: Deployment and data are one state, which a transaction changes
at its commit or not at all. While a transaction has to be undone, the refinement
mapping reads the state that will be restored.

Simplifications of `ExperimentalUpdate`: the loss of one process (Management,
Bootstrap) is the loss of the container; a Record in the slots can always be
used; a DSH left over by a failed start-up keeps running; automatic recovery
gives up only by leaving DSH to a transaction. What fails only if the instance says so
(`Events`) are the parts of a restoration, the start of the current Deployment and the write of
the slots at a commit. `used.amiss` remembers that the program and the data may have been taken apart in
a way the code does not repair, the crash between `commitCandidate` and the journal's `committed` first
of all (section 3).

`MCExperimentalUpdate` gives its constants their values; `ExperimentalUpdateProofs`
holds its theorems.

The other modules, with the part of the code whose state and steps they have. An
action is again what one actor does between two points where another may come in.

| Module | State | Actions | Refers to |
|---|---|---|---|
| `TrustLedger` | generations, current keyring, target, official DSH version | `RecordGeneration` and `ReplaceKeyring` (the two files of one acceptance), `AcceptTarget`, `AcceptOfficialDsh`, `LedgerLost` | `stage0/lib/ledger.mjs`, `keyring.mjs`, `target.mjs` |
| `BootstrapSlots` (extends it) | slots, Store, image, start phase, child, transition queue | `StartStage0`, `ReconcileImage`, `AcceptSeed`; `BeginTransition`, `LaunchCurrent`, `BecomesReady`, `LaunchFails`, `RollBack`, `LaunchPrevious`, `ChildExits`; `InstallArchive`, `StageArchive`, `RestartForStaged`, `Collect*`; `BeginShutdown`, `Crash` | `stage0/index.mjs`, `slots.mjs`, `supervisor.mjs` |
| `UpdateCoordinator` | target and upstream, slots, channel state, published status, notices, check and task | a check's and a task's awaits one by one, `Choosing` (channel, hold, retry), `Restart` | `updater/lib/coordinator.mjs`, `channel-state.mjs`, `automatic-check.mjs`, `recovery.mjs` |
| `ManagedStore` | assets (whole or torn), Records, slots, journal, holds, build and collection under way | the builder's steps, `ReadRecords`, `ReadRoots`, `Remove*`, deaths of Management and Bootstrap, `RecoverUpdate` | `managed-store.mjs`, `preparer.mjs`, `gc.mjs` |
| `RuntimeReset` | the Runtime in place and the one moved aside, slots, DSH, the reset | `BeginReset`, `PauseDsh`, `MoveAside`, `MoveIntoPlace`, `StartRepaired`, `CommitRepaired`, `RemoveAside`, `ResetDone` and the catch block; damage, `ContainerLost`, `StartUp`, `Collect` | `deployments.mjs` (`resetCurrentRuntime`), `gc.mjs` |
| `ManagementTasks` | task slots, lease, managed file jobs | `Start*`, `AskRollback`, `Probe`, `AcquireLease`, `RunJob`, `ManagementRestarts` | `management/server.mjs`, `maintenance-server.mjs` |
| `DshRuntime` | DSH, launch session, publication, lifecycle, queue of the runner, client and recovery | one step per await of start, stop, suspend, pause, resume, restart, switch; `HandleFatal`, `Attempts`, isolation | `lifecycle.mjs`, `runtime.mjs`, `dsh-lifecycle.mjs`, `control.mjs` |
| `ManagerLaunch` | runner's queue, supervisor, broker, manager | `Launch`, `Healthy`, `Recover`, `StopComponents`, the broker's start, poll and stop, `Crash` | `lifecycle.mjs`, `access-launch-server.mjs`, `proxy-launch-server.mjs` |
| `FileTasks` | disk, task files, queue | start, `FileQueueing`, `FileSteps` (validate, stage, commit, remove the source), cancel, `FileCrash`, `FileRecovers` | `file-manager/tasks.mjs` |
| `UserPluginTransaction` | Web Profile, selection, snapshot, journal, DSH | the transaction's steps, the two recoveries, `PluginCrash` | `user-transaction.mjs`, `user-journal.mjs` |
| `SystemPlugins` | stored selection, view, loaded plugins, DSH, the page's draft and batch | a change's write and end, restarts, and the console's Apply with its taking back | `system.mjs`, `app.js` |
| `SystemSkills` | selection, links, catalogs | `Configure` ... `UndoChange`; `UseSourceRoot` ... at a start; crashes | `skill-manager/index.mjs`, `bootstrap/index.mjs` |
| `AccountState`, `AccessManager`, `LoginLimits`, `TwoFactor` | account files; account, sessions, tokens, calls; counted failures; secrets and flows | creation and classification; each call as a read and then its decision; admission and release; enrolment, code, settings | `access-manager/lib` |
| `BrowserLogin`, `GatewayPages` | cookies, requests under way; platform status, pages, counters | one action per route; holding, judging and recovering a bundle | `browser-auth.mjs`; `proxy.mjs`, `lifecycle.mjs`, `polyfill.mjs` |
| `ProxyRevisions`, `ProxyTests` | revision files, snapshot, routing state, pools, health; test records and timers | a change step by step, requests, restarts, damage; stages, deadlines, cancellation | `outbound-proxy` |
| `TerminalSessions`, `LogStream` | sessions, helpers, the page's screen; files, offsets, what was sent and shown | attach, drop, expire, close; append, rotate, prune, query, follow, scan | `terminal/sessions.mjs`, `log-manager/index.mjs`, `app.js` |
| `ConsoleFiles`, `ConsoleProxy`, `ConsoleStatus`, `ConsoleAuth` | what the page holds, and the server's copy | send, reach, answer for each request; the user's edits | `app.js` |
| `UpdateNotices`, `DshPage` | browser storage, leases, timers; connection, guard, availability | timers and events of each tab | `client.js`, `availability.mjs` |

A crash, a failure and an overlap the code allows are steps of the models, also where the code has
no answer to them, but for the eight constants named below. A property that such a step breaks does not leave the step out: the model remembers in a variable of
its own that it happened and to what, and the property says what holds otherwise and when it holds again.

| Variable | What it remembers | What is let through |
|---|---|---|
| `origin`, `overtaken` (`ManagementTasks`) | a rollback or a resumed update, which do not look at the slots when they begin; what began between Stage-0's look and its lease | overlaps with these |
| `cut` (`RuntimeReset`) | the container was lost between the two renames or in the undo, or a step failed after the commit or in the undo | the slots' Runtime is missing until a reset succeeds |
| `tangled` (`SystemSkills`) | the recovery of DSH adopts a catalog during a change; a change whose undo failed, a crash | links and selection apart until the next start or change that runs alone |
| `crossed`, `early` (`FileTasks`) | a task queued again by a start works while the start still recovers a later one at the same place | what the recovery of the later one makes of it |
| `beside`, `halved` (`ManagedStore`) | built while a collection runs that outlived its Updater, or over a removal a crash interrupted | assets of these until they are built again |
| `batch.lost` (`SystemPlugins`) | the request to take an Apply back failed, or the page was left before an answer | this Apply, until the next one |
| `crossed`, `undone` (`AccessManager`) | a replacement by another call between the comparison and the rename | the change that is undone, and the versions given twice by it |
| `astray`, `mixed` (`ConsoleFiles`) | a listing arrived while a paste asked; a save was answered when another text was open | that item; that file |
| `used.amiss` (`ExperimentalUpdate`) | a crash or failure between commit and journal entry, DSH revived under a transaction, a restoration that fails | program and data, from then on |
| `torn` (`DeploymentManager`) | an automatic fallback that died between receipts and journal | `ReceiptsSound` and the refinement |

Eight constants name an overlap that the models have and the runs leave out, because the property does
not survive it and what remains of it could not be named: `EarlyRequests` (on in `Live`, for liveness),
`SlowStage0` (on in a part of `Deployments`), `Overlapping` (a collection of Bootstraps during a staging), `EarlyKills` (a supervisor killed
before its component is ready), `ChangesOverlap` (two changes of the proxy published at once), `EarlyWriteFails`
(the first record of a proxy test), `MidScan` (a log rotated between its listing and its reading) and, in
`Tabs`, `Hasty` (a user who does not wait for an answer). What the runs say of these parts they say without that
overlap; `PROJECT.json` tells under hazards what goes wrong with it.

`MCPlatform`, `MCConsole`, `MCLive` and `MCTabs` put modules that share no state side by
side (and `MCDeploymentManager` instances of one module): they extend them, or take an instance of those whose names clash. A variable `focus`, chosen at the start and never changed, names the part that moves;
in the others nothing happens. A behaviour of such a composition is a behaviour of one
part, and each behaviour of each part is there, from every one of its initial states
(a part out of focus is held at one initial state), so a run says of each part what a run of its own would,
invariants, action properties and liveness alike; the fairness conditions are those of the part's own specification, restricted to its focus. Parts that do interact are
composed inside a module: receipts with slots, the ledger with Stage-0, the Updater with Bootstrap and
DSH, Management with Stage-0's file manager, builder with collector,
page with server.

Operators named `Defect...` are mutated copies of the definition that follows
them. They are used by no specification: putting one in the place of its
definition must break the property `PROJECT.json` names, which shows that
the property depends on that piece of code.

## 3. Runs

Records: `i1`, `i3` are images of release 1 and 3, `d` a development image,
`m1`, `m3`, `md` their materialized copies, `a` and `b` releases 2 and 3, `x` an
Experimental build on `b`.

| Run | Instance | Checks |
|---|---|---|
| `Deployments` | three parts; the first: three images, their copies, a release and an Experimental build on it, which share a receipt, 2 crashes (2,908,012 states) | `ReceiptsSound`: types, journal, receipts and slots fit together; `SwitchesWhole`: slots follow receipts, a failure changes nothing; `CurrentSound`: what is selected can be run and nothing else is; the refinement `AtomicSwitch`; of the other two parts `DeploymentsStand` |
| `Platform` | ten parts (1,264,000) | see below |
| `Console` | thirteen parts (2,693,386) | see below |
| `Live` | six parts, fairness (240,519) | see below |
| `Tabs` | five parts, fairness (211,479) | see below |
| `PreviousRetired`, `RestartedEarly`, `PreviousKept`, `RetainedKept`, `SwitchesKept`, `RecoveryMode`, `LifecycleExcluded` | small instances | seven statements of the guide the code does not keep |

`Platform`: types of every part that has a type invariant, and

- focus `stage0`, three images (one development, one with a rotated keyring), two staged
  Bootstraps of which one does not start, two starts, one exit, crashes anywhere: `SlotsSound` (the selected
  Bootstrap is installed, a known good one stays in the slots, what runs is what is selected,
  Stage-0 never rests without one) and `TrustStands` (generations are not forked, the target
  stays verifiable, nothing goes back);
- `files`, two tasks over two devices with conflicts and a crash: `FilesSafe`;
- `tasks`, four operations, two managed jobs, a restart: `OperationsApart` (of what Management and Stage-0 start, only a
  rollback, a resumed update and what began between Stage-0's look and its lease meet something else);
- `userPlugins`, two changes and three crashes: `ChangeRecoverable`;
- `proxy`, two changes, a request, three revisions, one fault: `RevisionInForce`;
- `manager`, three attempts, three crashes: `ManagerSupervised`;
- `apply`, two plugins, two Applies, trouble and starts from outside: `ApplyWhole`;
- `store`, two DSH versions, two Environments, three builds, two faults: `StoreKept`;
- `resets`, an image's Deployment or one of an update, with a previous one or none, three resets, two failures
  or damages, three losses of the container, each at any step: `ResetSafe`, that the Runtime the slots name is there,
  that a failed reset leaves what there was and that a start leaves the version only for a damaged Runtime, unless
  a reset was cut where nothing undoes it, and that one that succeeds makes up for that;
- `skills`, two Environments that share a Skill, two changes, two faults, three starts of which the recovery's may overlap
  a change: `SkillsAsChosen`.

`Deployments`, besides its first part: `releases`, an image and two releases with receipts of their own, two crashes, and `overtaken`,
the same with a relaunched Bootstrap that does not wait for the writes its predecessor asked Stage-0 for, one crash. `DeploymentsStand`
is `ReceiptsSound` and `CurrentSound` of the former and `JournalRecoverable` of the latter.

`Console`:

- `restorations`, two transactions and two rollbacks, two crashes, an exit of DSH and every event:
  `RestorationsHold` (a restoration under way or to come finds its snapshot and its Deployment), `RestoredCompletely`;
  `stable`, with two Stable updates and nothing that fails but the container: `RestorationsHold`
  (no restoration takes the work of a later Deployment); both: `DataGuarded` and the refinement `CompleteUpdate`;
- `transfers` and `editor`: `OthersKept`;
- `access`, two calls that overlap anywhere, one of which changes the account, and `replaced`, two calls that both
  change it, three times in all: `AccountGuarded`; `account`, three accounts
  and one lost or damaged file: `OpenOnce`; `limits`, two sources: `GuessesBounded`; `factor`, two sessions and
  two secrets: `SecretStands`; `login`, two tabs of a browser: `SignedOutStays`;
- `terminal`, two sessions, two drops, a reload: `ScreenWhole`; `logs`, two writers that rotate after
  each entry: `LogsFaithful`; `switches`, two switches and the form: `SavesOwnOnly`.

`Live`: `updates` (two targets, two upstream versions, tasks, choices and restarts): `UpdaterOrderly` (no check runs
beside the body of a task, none updates, only a rollback or a recovery goes back) and `FailedNotRepeated`; `runtime` (two
exits and two requests): `RuntimeTrue`; `trials` (three tests of two stages): `TestsTakeTurns`;
`starts` (an image and a release, a request during the start-up, a failing write, a crash): `EverythingEnds`. `ServerSettles` is that tasks and announcements (`updates`), transactions (`transactions`: two, two crashes) and pages that
recover a bundle (`pages`: a tab, two Records, a restart) come to an end.

`Tabs`: `page`: `PageTrue`; `statusTab`: `StatusShown`; `settings` and `moving`: `SettingsServe`; `notices`
(two tabs): `NoticeRight`.

The bounds are the smallest with which everything a property is about can happen, each action of each part
is taken, and a mutated copy of the code is caught: two actors wherever two may meet, a second fault during
the recovery from the first, a third step where the second's end matters. The four compositions set
`CHECK_DEADLOCK FALSE`, because a part stops when its bounds are used up; the runs of `MCDeploymentManager`
and `RestartedEarly` check deadlock.

Two crashes are needed for the interesting case, a recovery that is itself
interrupted, and each pair of Records (source and target of a switch) with a
third to switch to afterwards covers a receipt that goes from active over
previous to retired. `torn` records that an automatic fallback died between its
receipts and its journal; `ReceiptsSound` excludes what follows, because a later
interrupted switch can then leave a journal that no start recovers from. In
`ExperimentalUpdate` two transactions are needed for the second to meet what the first
left (its snapshot, its journal, its Deployment in the other slot).

`DataGuarded` and `CompleteUpdate` are checked, and proved, for every behaviour of `ExperimentalUpdate` until it is no longer
`Undisturbed`: a Stable update and a complete rollback do not look at the data or switch the Deployment before they restore them; after
a crash or a failed write between the commit and its journal entry the transaction is undone over the slots (see `RestartedEarly`); automatic
recovery knows Bootstrap's journal only and restarts DSH while its data are archived; a start may fall back, and
a restoration may fail. Crashes anywhere else and exits of DSH outside a transaction are in. In `RestorationsHold`, that a
restoration can be resumed is checked with every event but without Stable
updates: one that comes after a failed complete rollback replaces the Deployment its journal returns to. That a
restoration takes only its own transaction's work is checked with
Stable updates and restorations that nothing but crashes interrupts (`Unfailing`): a failed one leaves DSH usable
under an unfinished journal, and the next start erases that work. A complete rollback after a
later, failed transaction switches the Deployment and leaves the data; the guide
does not say which it should be, and no property forbids it. With `EarlyRequests`,
`SlowStage0` and two restarts, or a failing write, not every safety property of
`DeploymentManager` holds. With the second: Bootstrap dies while the receipts of a candidate are being written;
the next one finds the switch undecided and has the receipts of the old Deployment activated again; it dies
while they are being written, and the one after it still reads the candidate's as active and commits the candidate, whose receipts the
remaining writes turn into previous ones. A later rollback retires them under its own journal, which then cannot be
recovered. Without the second death during the reverting (`Awaited`, section 4) the properties are theorems.
The focus `starts` of `Live` has requests and a failing write for liveness only.

### Fairness

Whatever the user, the network, DSH's own failures, crashes and failing writes
do has no fairness anywhere. What has it is code that goes on by itself.

- `DeploymentManager`: weak for the operation in progress and for each receipt write, because
  Bootstrap and Stage-0 go on with what they began; strong for the start-up,
  whose steps wait for a first-come-first-served queue that operations
  take and release. That every start ends (a part of `EverythingEnds`) speaks of behaviours in which the
  Updater stops asking, because each committed switch during a start ends that
  start by design, and names the two ends that no start gets past: a `Stranded` journal (receipts refused, or assets of an
  image that is gone) and a selection that cannot be resolved, which ends Bootstrap at every launch (run `RecoveryMode`).
- `ExperimentalUpdate`: weak for the Updater and for Bootstrap.
- `UpdateCoordinator`: weak for the steps of a check, of a write and of a task and for the
  restart a handoff asks for; strong for the automatic check, whose interval
  keeps coming back while tasks block it.
- `DshRuntime`: weak for the client's pending answer and for the recovery loop. A property about what is
  shown to the user waits for DSH to stop crashing, as the attempts are limited.
- `ProxyTests`: weak for each step of a test and for its timers, none for the answer of a
  connection, which may never come.
- `GatewayPages`: weak for DSH's recovery and the Gateway; strong for the two deadlines, which a
  page's events put off and set again.
- `DshPage`, `ConsoleStatus`, `ConsoleAuth`, `UpdateNotices`: weak for timers, for answers and for the
  server; strong for `CloseDialog`, a browser event that other answers
  disable and enable again.

### What the documentation says and the code does not do

- `PreviousRestorable` (guide, line 540): recovering an interrupted switch retires the receipts of
  the retained Deployment, so it cannot be rolled back to.
- `QuietSnapshot` (run `RestartedEarly`; line 528): a container lost after the commit of a candidate and
  before the journal's entry is recovered by a switch whose health check starts
  DSH before the snapshot is restored.
- `RollbackSlotKept` (run `PreviousKept`; line 434): a reset gives the Deployment of an image a record of its
  own. The next start prefers the image to that record and retains the record as the previous Deployment,
  with the same content; the Deployment one could roll back to is gone from the slots, and the collector
  removes its assets. This is a bug in `deployments.mjs`.
- `RecoveryModeReached` (run `RecoveryMode`; line 544): when neither Deployment can be resolved Bootstrap publishes recovery
  mode and then looks for the Skills of the selected Deployment, which throws at top level: it ends before its control plane
  is there, and again at every relaunch.
- `LifecycleExclusive` (run `LifecycleExcluded`; line 418): a rollback is checked before the body of its request is read and
  not again; a lifecycle operation asked for in between runs beside it.
- `SwitchesKept` (line 373): the proxy's switches are read when their queued save begins, after the
  answer to the save before has redrawn them. A second switch used meanwhile is
  set back without a message. This is a bug in `app.js`.
- `RetainedKept` (line 446): an Apply that fails discards the whole stored selection, and with it what an
  earlier Apply had stored for the next successful start. This is a bug in `app.js`.

Each of these runs checks one property and ends in its counterexample.

## 4. Theorems

Every theorem is proved for all values of the constants, within the assumption
named. An invariant is proved from an inductive one; what that adds is what
the code relies on without saying so.

| Module | Theorem | Assumes | Inductive invariant |
|---|---|---|---|
| `DeploymentManagerProofs` | `TypeCorrect` | - | `TypeInv` |
| | `JournalCorrect`, `RecoveryPossible`, `CurrentReceipts`, `SwitchCorrect`, `FailureCorrect`: of `Spec /\ Awaited` | `Composed` | `SafeInv` |
| | `AwaitedIsAtomic`: `Spec /\ Awaited /\ []~torn => AtomicSwitch` | `Composed` | `SafeInv`, `SwitchInv` |
| | `AwaitedIsCurrent`: of `Spec /\ Awaited` | `Composed`, `ImagesNumbered` | `SafeInv`, `ViewInv` |
| | `RevertsAwaited`: `Spec => Awaited` | `Orderly` | `SafeInv`, `Bequeathed` |
| | `ReceiptsCorrect`, `SwitchesCorrect`, `SwitchIsAtomic`, `CurrentCorrect`: the same of `Spec` | `Orderly` (and `ImagesNumbered`) | |
| | `FlowsShown` (of `ConsoleStatus`) | - | `ConsoleInv` |
| `ExperimentalUpdateProofs` | `TransactionTypes`, `RollbackRestores` | - | `Inv` |
| | `DataStaysGuarded`, `UpdatesAreComplete` | `Upgrades` | `AloneInv` |
| | `RestorationsStand` | - | `UndoableInv` |
| | `RestorationsExact` | `Unfailing` | `UndoableInv` |
| | `UpdaterIsOrderly` (of `UpdateCoordinator`) | - | `OrderlyInv` |
| | `FailuresNotRepeated` (of `UpdateCoordinator`) | `EnvironmentsAdvance` | `AttemptInv` |
| | `BlipsTolerated` (of `DshPage`) | `ProbesAnswered` | `DshPageInv` |
| `BootstrapProofs` | `TrustStandsAlways` | `RevokedForGood` | `LedgerKnown` |
| | `SlotsAlwaysSound`, `SlotsTyped` | `OneTask` | `SlotsKnown` |
| | `ScreenStaysWhole` | - | `TerminalKnown` |
| | `RuntimeStaysHonest` | - | `RuntimeKnown` |
| | `SettingsMean` (of `ConsoleAuth`) | `Hasty = FALSE` | `AuthInv` |
| `AccountProofs` | `AccountOpenOnce` | one file lost at most | `AccountKnown` |
| | `SecretStandsAlways` | - | `FactorKnown` |
| | `SignedOutAlways` | - | `LoginKnown` |
| | `AccountStaysGuarded` | - | `AccessInv` |
| | `GuessesStayBounded` | - | `LimitsKnown` |
| `PluginProofs` | `PluginsRecoverable`, `JournalTransitions`, `PluginTyped` | - | `PluginKnown` |
| | `AppliesWhole` | `DownApart` | `ApplyInv` |
| | `SkillsStand` | - | `SkillInv` |
| | `StoreStands` | `Numbered` | `StoreInv` |
| `ManagementProofs` | `OperationsKeptApart`, `OperationsTyped` | - | `Kept` |
| | `ManagersSupervised` | `Careful` | `LaunchKnown` |
| | `FilesStaySafe`, `FilesTyped` | - | `FilesKnown` |
| | `TabKeepsOthers` | - | `TabFilesKnown` |
| | `OneNoticeShown`, `DismissalsStay` | `PagesNamed` | `NoticeInv` |
| `ProxyProofs` | `RevisionsInForce`, `RevisionsTyped` | `OneByOne` | `ProxyKnown` |
| | `OneTestAtATime` | `TestsNamed` | `TestsInv` |
| | `TabSavesOwnOnly` | - | `TabKnown` |
| | `LogsStayFaithful` | `BetweenScans` | `LogsKnown` |
| `RuntimeReset` | `ResetsSafe` | `PreviousAtFirst` | `ResetKnown` |

- `TypeInv`: `TypeOK` is not inductive; it needs that a journal being
  reverted exists, that a plan being carried out has a target, that an operation past its
  journal has a Deployment to go back to, and that slots are filled from the front.
- `SafeInv`, under `Composed` (no requests before the start is complete, no failing writes): who may be waiting for
  Stage-0 (`WhoWrites`), that what is being written activates the right receipts (`WhatIsWritten`) and that what outlives
  its Bootstrap goes the way of the journal it leaves (`OneWay`); what the
  journal says at each step (`StartupJournal`, `OperationJournal`); that slots leave a
  journal's source only when the target's receipts are active and stay so (`SlotsInJournal`); that the generation check keeps a plan true (`PlanFresh`);
  and that current and source receipts are active outside a short window
  and otherwise at most previous (`CurrentHeld`, `SourceHeld`), without which
  a recovery's activation would be refused. The constants' assumptions used: an image's Record and
  its copy have no receipts, `Materialized` leaves the images.
  `Awaited` says that no Bootstrap dies while the receipts it goes back to are being written, unless the next one
  waits until they are: `OneWay` does not hold without it. `Orderly` adds to `Composed` that a platform whose Bootstraps
  overtake Stage-0 (`SlowStage0`) sees one death, as `Deployments` has it: a journal a start-up finds was left by a death
  (`Bequeathed`), so that nothing is reverted before the first. Where none overtakes Stage-0, any number may happen.
- `SwitchInv`, for the refinement of `AtomicDeployment`: a journal ends in other slots than it began with
  (`JournalMoves`), no Deployment is in both slots (`SlotsDiffer`), a plan is still about the slots it was made
  from (`PlanHeld`), a switch that an operation undoes had not been decided and one that a start-up undoes is not decided once it
  is undone (`UndoneIsLost`), and what Stage-0 writes leads to one of the journal's two ends (`OneDirection`). A Stage-0 that was
  overtaken may decide a switch after the start-up has begun to undo it; a death at that moment commits it. The theorem speaks of behaviours without a torn fallback: after
  one, the receipts of a candidate may be among those the fallback left active, so that a revert
  is taken for a decided switch at the next start (TLC finds it).
- `ViewInv`: which Deployment each step of a start-up or an operation has selected, and which DSH was started from.
  `ImagesNumbered` says that images of one target sequence have one content and that no image is
  Experimental: prepareImage compares images by these.
- `Inv`: `TaskInv`, that the task and the journal agree (a step of a
  restoration is only reached under `restoring-data`, a step that uses the target
  has one, a start-up past its recovery has no task), and `RestoreInv`, what
  a restoration has established by each step; the parts of `RestoredCompletely` are
  established in three steps with other actors in between. It covers a
  restoration taken up again at a start because nothing about the task
  survives a crash and `restoring-data` does.
- `AloneInv` adds what Experimental updates, rollbacks at a start, exits of DSH and crashes establish as long as the behaviour is
  `Undisturbed` (`Alone`; `Upgrades`: each candidate is of a newer DSH): what
  each phase and step says of slots (`SlotsKnown`), data (`DataKnown`), DSH (`DshKnown`), the archive (`ArchiveKnown`)
  and the work that has been done (`WorkKnown`). From it the data fit whatever DSH is started, and each
  step is one of `CompleteState` or is not seen: a commit is its only step that changes the Deployment. After what ends
  `Undisturbed`, `NoDowngrade` and the refinement do not hold: TLC finds the counterexamples.
- `UndoableInv` adds to `Inv` what a restoration needs at each point from which one may begin (`Undoable`): a
  journal past its snapshot has the snapshot in the store and its Deployment in the slots, through complete rollbacks
  and exits of DSH, as long as no Stable update has pushed the Deployment out; the data grew from the snapshot by what the
  transaction's own DSH has written. A Stable update does not look at the journal, and one that comes between a failed
  restoration and the next start is what `Unfailing` (no complete rollback, no exit of DSH, no event) excludes.
- `OrderlyInv`: a check in progress and the body of a task exclude each other (`ChecksApart`) although the check is queued
  before the task's slot is looked at; what a task is about to switch to is not older than what is deployed (`Forward`),
  because it was planned from the slots that nobody else can change meanwhile (`Found`), also over a handoff to another
  Bootstrap; and only a task shows that it works (`WorkShown`).
- `AttemptInv`: every failure is in the channel state, or belongs to a version or combination that no plan can reach any
  more (`FailuresHeld`, `FailuresKnown`), and what is being prepared has not failed (`Untried`). The channel state has one
  place for a blocked combination (`experimentalBlocked`), which the next one replaces. That the first is not tried again then
  rests on `EnvironmentsAdvance`: signed targets do not return to an Environment an earlier target replaced. Without it TLC finds the
  repetition, and nothing in the code keeps the publisher from it.
- `DshPageInv`: the Gateway gives up a DSH it has reached only after `Failures` probes without an answer in a row, and the
  page leaves only on what the Gateway says or after asking it (`ServedSince`, `LeavesForCause`). `ProbesAnswered` is that
  fewer probes in a row than that are slow while DSH is up: otherwise a DSH that is up counts as an outage and the
  page is exchanged.
- `RuntimeKnown`: the launch session is that of the process (`LaunchKnown`), the runner works for one of the client and the
  recovery (`HolderKnown`), an exit is still to be handled or was left to who owns DSH (`ExitKnown`), whoever
  is to correct what is shown is still there (`ShownKnown`), and a stop that nothing disturbed has its end (`QuietKnown`).
- `AuthInv`: one call at a time is out for a dialog (`OneCall`), a dialog at rest has none (`DialogQuiet`); the change a dialog or
  a cancellation works for exists and is of that dialog's switch (`ChangeKnown`, `DialogKnown`, `CancelKnown`), and a switch that differs
  from the account has a change that was verified (`SwitchKnown`), whatever reloads, expiries and answers
  come in between. With `Hasty` users, who act before an answer is there, a switch can outlive its change.
- `ConsoleInv`: what is shown is not newer than what was read last, nor that than what there is (`LoadsOrdered`), and what a flow
  is to show is shown, or a load is under way that will show it, unless one has failed (`FlowKnown`).
- `TestsInv`: the test that has a run is the active one (`ManagerHeld`), a run that is under way shows as running (`RunningShown`) and
  a stopped service has none (`StoppedIsIdle`).
- `NoticeInv`: the page that shows the reminder holds a lease it renewed, or renews before the next timers fire (`LeaseHeld`), is
  there, visible, and has one to show (`OwnerSeen`), and a page that is gone has no timer (`TimersOfPages`). A dismissal for good is not simply kept: a page
  clears it when it hears of a success other than the one that was cleared last, in whatever order the answers
  arrive (`clearSatisfiedDismissals` compares the tasks' names). An answer that was late and names an older success
  takes a newer dismissal back; `DismissedStays` says what remains, that the success cleared last does not.
- `LedgerKnown`: a generation being accepted is kept and follows the keyring in
  force. `RevokedForGood` says that an older keyring never names a key that a newer
  one revokes: Stage-0 tests a key against the revocations of the keyring in force only, and what
  was written of an interrupted acceptance is not.
- `SlotsKnown`: what the queue may hold (`QueueKnown`), what each step of a start has read and launched
  (`StartKnown`), that the Store holds what is selected, and a staging or a collection under way knows it (`StoreKnown`),
  and that a Bootstrap that has worked is in a slot: the previous one while the staged one is tried, the
  current one otherwise (`GoodKnown`). `OneTask`: the Updater runs one task at a time, and no collection overlaps a staging.
- `AccountKnown`: of the two files at least one still says that there was an
  account; with two lost, neither does, and an account can be created.
- `FactorKnown`: a confirmed flow had a code of its secret, and settings at
  the account's revision turn the factor the other way.
- `LoginKnown`: identifiers are not used twice, with the property itself.
- `AccessInv`: every version of a password, among the account as it is and as the calls have read it, belongs
  to one password (`AccountsKnown`); what sessions (`SessionsKnown`), tokens (`TokenKnown`), the transition (`MoveKnown`) and
  waiting calls (`CallsKnown`) carry was proved under the version they name; and a session number stands for one
  session with one password, also after its versions were refreshed (`Linked`), on which the move of the console to
  another origin relies. That a call holding an old account cannot open a session under the new password
  follows, whatever it waits for. Two replacements may overlap: the comparison a call has made is still true at its rename
  unless another renamed in between (`crossed`), and versions are unique until a change was undone in that way (`undone`).
- `LimitsKnown`: failures counted and logins being verified together stay below the limit, for the instance and for
  each source (`RoomKnown`): a login is admitted when there is room for its failure and there are at most `MaxConcurrent`
  of them. A success, a clearing or a pruning that drops a source's list only makes room, also for the logins
  that will be counted in the list that was dropped.
- `PluginKnown`: what the step (`StepTells`), the phase (`PhaseTells`) and a failed end (`FailureEnds`)
  say of profile, snapshot and what DSH loaded.
- `ApplyInv`: DSH has loaded the current view or is down (`LoadedKnown`), what is stored agrees with where the page is
  in its Apply (`PageKnown`: which changes were answered, which one is on its way, unless the page lost track), and with all or nothing of it once
  the page rests (`RestKnown`). `DownApart`: the value for a DSH that is down is no plugin.
- `SkillInv`: at rest links and catalog follow the selection (`RestsRight`), and a change (`ChangeRight`) or the adoption
  of a catalog (`AdoptRight`) keeps what undoes it, or puts right what was left. While a recovery's start and a change
  overlap, or after a failed undo, only the types are known; the first start or change that runs alone from
  beginning to end re-establishes the rest.
- `StoreInv`: what the slots name and what is being switched to is found, but for the combinations in `beside` and `halved` (`NamedFound`, `SwitchKnown`), a collection
  that has read its roots still holds what the slots name when it removes, unless it was built since (`CleaningKnown`), and the snapshot of
  a transaction that can be undone is there (`SnapshotKnown`). `Numbered`: no asset has a number that stands for the image's own or
  for no Deployment.
- `Kept`: one operation holds a slot, one managed change the lease, an operation beside an update is beside a rollback or a resumed
  one, and one Stage-0 can see that runs beside a probed or running change began after the probe (`OnlyOne`).
- `LaunchKnown`: one process (`Processes`), what the runner shows (`RunnerKnows`), and a
  ready component has a supervisor or a recovery coming (`Watched`). `Careful` is `EarlyKills = FALSE`.
- `ProxyKnown`: the files (`StoreKnown`), the change under way (`ChangesKnown`), routing state and
  pools (`RoutingKnown`, `PlaneKnown`). A restart takes the newest revision that can be read, which
  exists by the well-foundedness of the naturals (`LeastNatural`). `OneByOne` is `ChangesOverlap = FALSE`.
- `TabKnown`: a copy that bears the stored revision is the stored configuration (`CopiesTrue`), and what a save asks
  differs from the copy it was made of in one switch or in the connection.
- `LogsKnown`: what was listed is how it was found unless it was removed (`ListingKnown`), what the follower has read of a
  file is there (`OffsetsKnown`) and was sent, the second query reads each file the follower was given that is left (`AgainKnown`),
  and a removed file is older than those that are kept. `BetweenScans` is `MidScan = FALSE`.
- `TerminalKnown`: only the socket the page has open is attached, to the session it shows; a page
  that asks for a session has no socket, and one that opens has an empty screen (`SocketKnown`), so that what attaching
  replays is not added to what was shown before.
- `FilesKnown`: a task that waits has done nothing (`WaitKnown`), only the one that works, or worked before the crash, has
  begun on disk (`RunsKnown`), its step tells what is at its source, its destination, its staging file and in its task
  file (`WorkKnown`), and a start removes a source only when it is at its destination (`RecoveryKnown`). The start queues a task as soon as it has recovered
  it, so that it may work while later ones are recovered (`early`); a later task whose place it has changed by then is in `crossed`.
- `TabFilesKnown`: a transfer that may overwrite was agreed to (`TransfersAsked`), and what is being saved is what the
  editor had open (`SavesOwn`), whose text is that of its path (`EditsOwnFile`), but for the items in `astray` and the files in `mixed`.
- `ResetKnown`: what each step finds in place and moved aside (`Untouched`, `MovedAside`), that the slots are
  those the reset began with until it commits (`SlotsStand`), and that a Runtime which is not whole was damaged, or a reset was cut
  (`Harm`). `PreviousAtFirst`: a behaviour begins with another Deployment in the previous slot, or none. Between the two renames the slots name a
  Runtime that is not there, and a failure after the commit makes the catch block remove it: the code has nothing that
  would bring it back before the next reset, and the theorem says that nothing else costs one.

`DeploymentManagerProofs`, `ExperimentalUpdateProofs`, `BootstrapProofs`, `ManagementProofs` and `ProxyProofs` also hold the
theorems of console modules that share no state with the others, as the table says. `PagesNamed` and `TestsNamed` only say that the
value that stands for nobody is no page and no test.

Every type invariant in `PlatformTypes` is a theorem of its module (`SlotsTyped`, `FilesTyped`, `OperationsTyped`,
`PluginTyped`, `RevisionsTyped`, `TypeCorrect`). The safety parts of `RuntimeTrue`, `TestsTakeTurns`, `StatusShown`,
`SettingsServe`, `NoticeRight` and `PageTrue` are `RuntimeStaysHonest`, `OneTestAtATime`, `FlowsShown`, `SettingsMean`,
`OneNoticeShown` with `DismissalsStay`, and `BlipsTolerated`.

`DeploymentsStand` is `RecoveryPossible` with `RevertsAwaited` for the part `overtaken`, and `ReceiptsCorrect` with `CurrentCorrect` for the part `releases`.

Only model-checked is all liveness (`EverythingEnds`, `ServerSettles`, `ExitAnswered`, `ManagerFreed`, `ShownCurrent`, `DialogCloses`, `PageFollows`,
`NoticeShown`, `TabFollows`), because reasoning about fairness is outside what the prover does.

## 5. Not modelled

- Bootstrap: `recoverImageBaseline`, which is
  neither journaled nor queued; Records that mix image and Store assets; the
  order in which components without state start, and hooks. The removal of the activation journal is not
  synchronised to disk; the models let no file come back after a power loss.
- Receipts: verification of the bytes, and the collection of unreferenced objects.
- File manager: archives, extraction, attributes, `mkdir`, `touch`, uploads and
  downloads. Each acts on one file and has no phase a start recovers.
- Updater: downloads, progress figures, the path without channel state; the discard
  route runs without a task slot; the flag the console derives from running tasks does not
  count Skill operations.
- Console and DSH pages: rendering, translation, navigation and forms that send one request.
- Gateway and proxy: transport of bytes, DNS, matching of rules. Access manager: password
  hashing and audit records.
- Platform library, environment resources, build and release tools: single
  steps, data, or programs that run outside the container one after the other.

An earlier image started after a rotation of the keyring is refused at its start, because the keyring it
carries is older than the accepted one (`AcceptSeed` of `BootstrapSlots`); no run states it.

Smaller steps than the models take: the pruning of logs is one step, although it lists and then removes by name;
two adoptions of Skills at once; a second collection asked for while one runs waits; an asset found
torn leaves the names of what was built from it as they are; when the write of the slots fails after the journal's last entry and the
container is lost before the cancel, what recovery does is left to `DeploymentManager`; a stop asked for while DSH is
being recovered.

What the properties let through is in the table of section 2.
