# Komari Lite: TLA+ models and proofs

This directory is a verification project for the panel (`src/backend`), its
administrator pages (`src/frontend`), the Agent (`src/agent`) and the upgrade
controller (`src/deploy`). It models the parts in which the order of steps
decides whether the program is correct: goroutines and answers that overtake
each other, two stores that change in two transactions, requests whose answer
is lost, a controller that is killed, a session that ends while its requests are
under way. TLC checks each model on a small instance; TLAPS proves the safety
properties of all of them, with one exception, for every instance.

    tlc -workers 2 -config UpgradeSafe.cfg SafeUpgrade.tla
    tlapm SafeUpgradeProofs.tla

`PROJECT.json` lists the runs, the source lines behind every definition (`map`),
the hazards with the properties that watch them, the mutants each property
detects, and the theorems.

## 1. The system

### 1.1 Panel, Agent and controller

| Part | State it keeps | Operations | Talks to |
|---|---|---|---|
| Connection registry (`backend/web/agent`) | connection, version and presence entry per node | connect, replace, unregister, keep alive | report handlers, notifier |
| HTTP presence (`web/api/client/report.go`) | POST session, its timer and generation | open, extend, expire | registry, notifier |
| Offline notifier (`utils/notifier/offline.go`) | current connection, pending offline event | online, offline, end of grace, forget | handlers, senders |
| Deployment profiles (`database/clients`) | revision, settings, delivery status | save, mark sent, adopt, complete | event queue, upload |
| Event queue (`web/agent/v2_events.go`) | queued events per node | dispatch, push, pull, acknowledge | WebSocket, long-poll |
| Agent configuration (`agent/server`) | active configuration, revisions, pending result | receive, apply, report | the two links |
| Ping tasks, cleanup queue, guards (`database/tasks`, `database/metricstore`) | tasks and their nodes, schedule, jobs, guards | edit, delete, clean, restart | metric store |
| Safe upgrade (`deploy/safe_upgrade.py`) | journal, snapshot, links, data | upgrade, recover, rollback, gate | systemd, migrations |
| Chunk store (`web/upload`) | upload sessions, chunks | init, chunk, merge, cancel, expire | restore, themes |

### 1.2 Administrator pages

| Part | State it keeps | Operations | Talks to |
|---|---|---|---|
| Session (`AccountContext`, `adminRevocation`, dashboard caches) | account, generation, caches, sessionStorage | read the account, sign in and out, revoke, poll | every page |
| Settings (`lib/api.ts`, `SettingCard`) | the provider's copy, the mounted cards | read, save by one of four ways | panel |
| Node page (`pages/admin/index.tsx`) | node list, its sorted copy, dialogs | drag, filter, page, edit, deploy, calibrate | panel, Agent's delivery state |
| Rule pages (`pages/admin/notification`, `pingTask*`) | list, selection, dialogs | add, edit, delete, batch, reorder | panel's transactions |
| RPC client (`lib/rpc2.ts`, `RPC2Context`) | socket, state, retry and heartbeat timers, calls | connect, reconnect, call, fall back to HTTP | panel |
| Archive upload (`archiveUpload.ts`, restore dialogs) | progress, abort controller | send chunks, retry, merge, cancel | chunk store |

### 1.3 The rest

Report batcher, metric store and its migrations, staged restore, flat-layout
updater, load alerts and the other notifiers, traffic ledger, scheduler,
dashboard cache, AI usage, relocation, accounts, configuration store, HTTP
server, installers, and the pages that only present. `components` in
`PROJECT.json` gives the reason for each; section 6 summarises.

### 1.4 What is hard, and what makes each part correct

- **Goroutines and promises in any order.** A connection announces itself in a
  goroutine of its own; a stopped timer may already have fired; the answer to an
  earlier request arrives after that to a later one.
- **State read before a pause** and used after it: a registry entry, a schedule,
  a form, the provider's copy, the account a request was made for.
- **Two stores and no common transaction**: database, metric store and memory on
  the panel; files and symbolic links in an upgrade; page and panel everywhere.
- **Crashes and retries**, and what must eventually happen.

| Part | Correct when |
|---|---|
| presence | a node is reported offline once, only when it is gone, and its deletion is final |
| configuration | what the panel shows as applied is what the Agent runs; in the end the last save is in use or shown as failed |
| ping history | a cleanup erases what was removed and nothing measured since |
| upgrade | the panel never runs on data that is missing, half written or newer than itself; an interrupted upgrade is resolved without a person |
| session | nothing of an ended session is held, stored or shown; signing out is final |
| settings | the copy follows what was saved; nothing typed is lost; no card stays disabled |
| node page | an order or a value that was not chosen is never saved; late answers do not win |
| rule pages | a page at rest shows what is stored; deleted rules stay deleted; batches are stored whole |
| RPC client | connected means connected, there is one connection, and the client finds back |
| archive upload | what was cancelled is not staged, what is shown as completed is |

## 2. Modules

| Module | Models | Checked with | Proofs |
|---|---|---|---|
| `AgentPresence` | registry, HTTP presence, notifier, deletion, one node | itself, `MCPresence` | `AgentPresenceProofs` |
| `NotifierPromise` | the notifier's promise, implemented by `AgentPresence` | | |
| `SafeUpgrade` | controller, gate, unit, journal, snapshot, links, data | itself | `SafeUpgradeProofs` |
| `UpgradePromise` | commit or abort as a whole, implemented by `SafeUpgrade` | | |
| `ConfigDelivery` | profile, event queue, links and Agent, one node | `MCConfigDelivery` | `ConfigDeliveryProofs` |
| `PingHistory` | a ping task, its nodes, jobs, guards, history | itself | `PingHistoryProofs` |
| `AdminSession` | one tab's account, caches, dashboard, sign-in form | `MCAdminArea` | `AdminAreaProofs` |
| `SessionPromise` | data of the current session only, implemented by `AdminSession` | | |
| `PanelSettings` | the settings provider, cards, pages, the panel's keys | `MCAdminArea`, itself | `AdminAreaProofs` |
| `NodeTable`, `NodeDialogs` | the table; its deployment, edit, calibration and rate dialogs | `MCNodePage` | `NodePageProofs` |
| `RulePages` | eight pages of rules, tasks and display settings | itself | `RulePagesProofs` |
| `Rpc2Client` | sockets, state, timers, calls, provider | `MCTransport` | `TransportProofs` |
| `ArchiveUpload` | restore dialogs, uploads in chunks, chunk store | `MCTransport` | `TransportProofs` |

Actions carry the names of the functions they model. Definitions called mutants,
placed before the one they change, are plausible bugs; each property detects at
least one of them. They take no part in the specification. A run's property is
often a conjunction of named parts, the type invariant among them.

### 2.1 AgentPresence

A step is what happens under one lock, or between two points at which another
goroutine can see the difference. `pc[c]` is the place of each WebSocket handler;
`closing` are the `go oldConn.Close()` goroutines, `online` and `grace` those of
the notifier; `timers` the callbacks of `time.AfterFunc`: stopping one removes it
only while it is `armed`, once it `fired` it goes through the generation check.
Two functions ask `EntityWritesBlocked` before they take the registry's lock and
are two steps: `SetConnectedClients` (`Admit`, `Store`) and `KeepAlivePresence`,
which runs under `postPresenceMu` (`Checked` in a refresh, then `WsKeepAlive` or
`HttpKeepAlive`; nobody else refreshes or expires a session between, `PostFree`).
A deletion may stop half way when the schedule cannot be reloaded after its commit
(`client.go:45`, `admin.client.go:242`); the writes then stay blocked. Time is left
out: timers and grace periods may end at any step. So is the protocol version of a
node, which nothing modelled here reads.

Four history variables name what the code does not prevent, so that the
properties can say that nothing else goes wrong: `crossed` (connections stored
while another one was past its lookup of the old one), `unheard` (ends that came
before their own announcement, with notifications off, or for a deleted node),
`beside` (links announced beside another one, or after they were gone) and `early`
(what was past the blocked check when writes were blocked).

### 2.2 SafeUpgrade

`pc` is the statement executed next, so that a fault at `pc = s` hits before `s`
took effect. `Kill` ends the controller, `HostCrash` also the panel, `Fail`
raises an exception that goes through the handlers as written. `Gate` is the
script in `ExecStartPre`. A release is a number, which is also the schema and the
theme it brings. One controller runs (`flock`); `save` is atomic; a complete
snapshot does not decay.

### 2.3 ConfigDelivery

A configuration is a body, compared for equality, and the reset day. `step`,
`stage` and `push` are the places of the admin requests, the uploads and the push
of queued events, each with its local variables. The queue holds the
configuration event only, since a newer one replaces an older, and `Enqueue` may
find a node that is not known to speak v2 (`v2_events.go:55`). An application that
fails leaves `runtimeconfig`, which it stores last, but may have written the Hermes
helper's `control.json` by then (`runtime_config.go:133`): that file is `relay`,
and `Relays` says what it may hold afterwards. The network statistics are set up
between the two and are not put back either (147-153); they are left out, like
their collector, since nothing modelled reads them.

`issued` is the history of what was saved under each revision. `torn` has the
revisions put into an answer with an earlier body (a save came between the two
reads of `getClientRuntimeConfig`), `overtaken` those shown as applied on a report
that no longer said what the Agent ran. The properties name both as exceptions;
no schedule is excluded from the module.

### 2.4 PingHistory

A request is a list of steps (`todo`), each a transaction, a critical section or
an operation of the metric store; `cleaner` is the holder of `metricCleanupMu`. A
point is the term in which it was measured, so that `HistoryKept` tells what a
retry may erase. Requests overlap: `AddDefaultOnClientUUID` reads a task's nodes
(`Join`) and writes them back (`WriteMembers`), `ReloadPingSchedule` reads the
tasks and replaces the schedule (`ReadTasks`, `Reload`) and may fail; a request may
name what another one has deleted; the alert defaults of an edit may fail after
its commit, which skips the rest. At the panel's start a failure to list the jobs
or to load the schedule is left out.

History variables name what then goes wrong: `crossed` (assignments whose guard was
set after their cleanup, lifted before it, never set, or set too late), `bared`
(deleted nodes, or the deleted task, that another request opened again) and `late`
(an older list was applied to the schedule, or a reload was given up).

### 2.5 AdminSession

A request is answered in two parts, headers and body, and either may arrive after
its session has ended. `gen` is the generation of `adminRevocation.ts`, `seq` the
sequence of `AccountContext`. `Revoked` empties caches and aborts the dashboard's
requests; `Draw` is the dashboard's mounting and unmounting that React does in the
same commit, with the write to sessionStorage of the effect that goes. `cookie`
is shared: `CookieChanges` is another tab, or the panel, ending or replacing the
session. `left` is a history variable. A kind of request stands for all that are
cached and dropped alike.

### 2.6 PanelSettings

Nine settings stand for the pairs of a kind of card (short text, long text, switch,
select, button) and a way of saving: its own key; its own key and then everything
read again; the whole copy, which is then replaced by the body or only in its key.
Most switches save by their own key (`private_site`), one reads everything again
(`reduce_motion`). The run takes seven; the two it leaves out, a long text with its
own key and a short text that reads again, share their kind with one of the seven
and their way of saving with others. `Synced` is how a card follows a new copy,
`Released` the end of a save. `doubtful` marks behaviours in which two requests
overlapped or one failed after it was applied: what the copy says is not claimed
there. `behind` remembers, per setting, the mount in which its own-key save left
the copy as it was: from then on the copy has the old value, and a card mounted
later shows it.

### 2.7 NodeTable and NodeDialogs

The table is a copy of the context's list which the interval, every change and
every drag replace; list requests carry a sequence (`Ignored`), orders do not.
Each dialog is modal, so a behaviour of `NodeDialogs` follows one of them;
`panel` is what it changes, and other administrators change it too: the profile
(`SomebodySaves`), the node, its calibration. `mine` is the profile this dialog's
last save stored, and whether anybody stored one after it. Of a delivery the
status is followed and not the revision.

### 2.8 RulePages

The eight pages have the same life: read a list, tick rows, open a dialog, send,
react, read again. One operator per page and step says how they differ:
`LoadRefresh`, `LossBatch`, `OfflineDone`. The panel's transactions are
`EditById`, `UpsertNode`, `UpsertLoss`, `DeleteById`, `Create`, `Reorder`. A row
is a number, a rule one value and a default. A reload of the load alerts or of the
ping schedule that fails after the commit (`load.go:54`, `ping.go:123`) answers
with an error though the rows are stored; here an answer that is lost after the
store stands for it.

### 2.9 Rpc2Client and ArchiveUpload

`sock` has every socket there is, also those the client no longer refers to:
`OnClose` is the handler of whichever closes. A call is on the socket or on HTTP;
one that fails on the socket goes to HTTP once. `Mount` and `Unmount` are the
provider, which the guide routes take down.

An upload outlives its dialog. `strays` are requests that were given up and may
still arrive. `Finalize` is the time in which the store has given up its lock;
the restore lock lasts until the panel restarts. `DropController` is
`restoreController.current = null` at the end of an upload, whichever upload the
controller then belongs to (`site.tsx:152`): `asked` has the uploads that the
administrator cancelled before their merge, `orphaned` those whose controller an
earlier one's end had dropped.

## 3. Runs

| Run | Instance | What it shows |
|---|---|---|
| `presence_overlap` | 3 v1 connections that overlap in any way | `EndsAccounted`: a replaced connection is closed and a node that left is reported, but for what crossed; `Superseded` under fairness |
| `presence_mixed` | 2 connections that overlap, or 1 v2 connection with 2 HTTP sessions of 1 refresh; deletion, notifications switched | `RegistrySound`, `GraceSound`, `ExpiryIsCurrent`, `OfflineExplained`, the refinement `KeepsPromise` |
| `upgrade_safe` | 2 upgrades, 3 crashes, 2 exceptions at every statement | `RunsOnWholeData`, `JournalSound`, `NothingMovesUnderPanel`, the refinement `KeepsPromise`, `HostReturns` under fairness |
| `upgrade_rollback` | 2 upgrades with manual rollbacks | `RollbackRestores` |
| `delivery` | 1 save with every fault on both links, or 2 overlapping saves, or 2 overlapping uploads, on a WebSocket; applications that fail half way | `AgentHonest`, `ResultNotLost`, `NoStepBack`, `EventuallyDelivered` under fairness |
| `history` | 2 nodes, 2 requests that overlap, 2 faults, 1 writer | `GuardsSound`, `DeletedStaysEmpty`, `HistoryKept`, `EventuallySettled` under fairness |
| `node_page` | 3 nodes on pages of 1 or 2, 2 lists in flight; each dialog with 3 operations, 1 fault, 1 foreign change | `DialogsHonest`, `TableSteps`, `TableFollowsPanel`, `OnlyEnteredIsSaved`, `DialogsSettle` |
| `rule_pages` | 8 pages of 2 rows, 2 lists in flight, 2 changes, 1 foreign change | `QuietIsCurrent`, `OnlyWhatIsThere`, `AllOrNothing`, `PageReturns` |
| `admin_area` | 2 accounts, 3 reads of the account, 2 kinds of request, 1 change of the cookie, 1 failure; 7 settings, 2 visits, 2 saves, 1 fault | `SessionSound`, the refinement `KeepsSessionPromise`, `ExpiryIsNoticed`; `SettingsSound`, `TypedStays`, `CardsSettle` |
| `transport` | 3 sockets, 2 calls, 3 drops, 2 lives of the provider; 2 uploads of 2 chunks, 2 losses, 1 restart | `ConnectionSound`, `Recovers`; `DialogTellsTruth`, `DialogReleases` |
| `presence_v2_offline` | 1 v2 WebSocket | violated: `NoFalseOffline` |
| `settings_single` | 2 settings, 2 saves | violated: `UpdatesSingleSetting` |

**Slices.** `MCPresence` and `MCConfigDelivery` bound the product of concerns and
not their number: the constraint `OneLink` keeps the behaviours with one
WebSocket connection and HTTP sessions, and those with several connections and no
session; `SlicedSpec` those with one request and all faults, where an application
fails half way only if nothing else goes wrong and fails at all only while no
long-poll waits; those with two saves beside each other, or a save beside an
adoption, on a WebSocket without faults; and those in which a report of what the
Agent started with is overtaken by a later one. The theorems about these modules are about
`Spec` and know no slice. `MCNodePage`, `MCAdminArea` and `MCTransport` hold two
modules that share no state; a behaviour is one of either, and the other's part
stands still in a state in which none of its fairness conditions asks for anything.

**Why the bounds are enough.** The races of presence need two connections, or a
connection and a session; the third connection replaces one that replaced
another. One refresh puts a timer of an old generation beside the current one.
Two upgrades give a rollback to a release that is itself an upgrade; three
crashes hit an upgrade, its recovery and the recovery of that. Two saves put an
old and a new revision on the way together. Two ping requests that overlap remove
an assignment and add it again or delete something during its cleanup, and two
faults fail the cleanup and its retry, or an edit after its commit and the cleanup. Two visits
bring a card back to a page it had left. Two lists in flight are enough to cross; two rows tell
"the ticked row" from "a row"; three nodes on pages of two give a drag across a
page. Three reads of the account are a first one, one from before and one from
after a session's end; one foreign change of the cookie is a session replaced or
run out. Two uploads put the tail of a cancelled one beside the next; two losses
exhaust the attempts for a chunk. Three sockets are one left behind, one opening
and one more. The bounds occur in guards only, and the theorems do not depend on
them.

`CHECK_DEADLOCK FALSE` is set where the system may stop: no Agent must come back,
no upgrade be tried, no administrator act. `Delivery.cfg` does check it.

**Fairness.** Weak fairness of handlers, goroutines and timers that can run: the
Go runtime and the browser's event loop schedule them, every timer fires, every
request of a browser ends in an answer or an error. `SafeUpgrade`: the controller
goes on until it ends, the timer unit runs every minute, systemd restarts the
panel. `PingHistory` takes strong fairness where steps wait for the cleanup mutex
or the store's semaphore, which serve in order of arrival. `AdminSession`: the
dashboard polls while it is mounted (the tab is visible), and polls are answered.
`Rpc2Client`: handshakes and HTTP requests end, and the node page polls as long
as the provider is up; `Recovers` is about a provider that stays. `NodeTable`: the
list is read every 15 seconds. Nothing makes an Agent report, an administrator
act or a fault occur. `HostReturns` names its one exception: a recovery that died
between `recovered.mkdir` and the end of the copy (`HalfRelease`) cannot be
repeated.

## 4. Theorems

A proof module EXTENDS the component it is about, or the two components of one
run. A theorem assumes the named assumption on the component's constants (bounds
are natural numbers, subsets are subsets, and the values that stand for "nobody",
"no socket" or "no card" are none of the others), and besides that only what it
states as its hypothesis; only those about upgrades without manual rollback have
one. The sets may be of any size, every bound any number, every schedule is allowed.
Where the code does not prevent something the property names it as an exception,
by a history variable of the module, and section 5.2 says what it is.

| Theorem | States of every behaviour | Hypotheses |
|---|---|---|
| `AgentPresenceProofs`: `TypeCorrect`, `GraceIsSound`, `PromiseKept`, `RegistryIsSound`, `ExpiryStaysCurrent`, `EndsAreAccounted`, `OfflineIsExplained` | `TypeOK`, `GraceSound`, `KeepsPromise`, `RegistrySound`, `ExpiryIsCurrent`, `EndsAccounted`, `OfflineExplained` | none |
| `SafeUpgradeProofs`: `TypeCorrect`, `PanelDataWhole`, `JournalTrue`, `RecoveryPossible`, `JournalIsSound`, `PanelUndisturbed`, `PromiseKept` | `TypeOK`, `RunsOnWholeData`, the parts of `JournalSound` and itself, `NothingMovesUnderPanel`, `KeepsPromise` | no manual rollback |
| `RollbackIsTrue` | `RollbackRestores` | none |
| `ConfigDeliveryProofs`: `TypeCorrect`, `NoStepIsBack`, `NoResultIsLost`, `AgentIsHonest` | `TypeOK`, `NoStepBack`, `ResultNotLost`, `AgentHonest` | none |
| `PingHistoryProofs`: `DeletedIsEmpty`, `GuardsAreSound`, `HistoryIsKept` | `DeletedStaysEmpty`, `GuardsSound`, `HistoryKept` | none |
| `AdminAreaProofs`: `SessionIsSound`, `SessionPromiseIsKept`, `SettingsAreSound`, `TypedTextStays` | `SessionSound`, `KeepsSessionPromise`, `SettingsSound`, `TypedStays` | none |
| `NodePageProofs`: `DialogsAreHonest`, `EnteredIsSaved`, `ListStaysCurrent` | `DialogsHonest`, `OnlyEnteredIsSaved`, `ListNeverGoesBack` | none |
| `RulePagesProofs`: `QuietPagesAreCurrent`, `PagesActOnWhatIsThere`, `BatchesAreWhole` | `QuietIsCurrent`, `OnlyWhatIsThere`, `AllOrNothing` | none |
| `TransportProofs`: `OneLiveConnection`, `UploadTellsTruth` | `ConnectionSound`, `DialogTellsTruth` | none |

Hardly any property is inductive as it stands. TLC checked every strengthening
below on an instance like the run's before it was proved; the proofs have one step
per action, and lemmas for what several of them need.

**`AgentPresenceProofs`.** `IInv`: that a node reported offline is not reported
again rests on the fact that a connection ends once. `DownIsEnded` says that the
notifier's current connection has ended, `Ended(id)` what that means for a
WebSocket and a session, `SessionsNumbered` and `ExpiresOnce` that no later timer
can end a session again, `OneKeeper` and `OpeningIsNew` that whoever is between the
check and the write of a keep-alive holds the mutex, alone.

- `RInv` adds what ties the registry to the goroutines: `RegistryLive`,
  `SessionPresence`, `SessionTimed`, `OneTimer`, `GenerationsPast` (a timer belongs
  to a generation that was or is), and for a deletion `BlockedInRemoval`,
  `KnownUntilDeleted`, `AdmittedEarly` and `KeeperEarly`: once writes are blocked,
  only who had passed the check before can still be registered.
- `EInv` adds that a predecessor is being closed or was crossed (`ReplacedCloses`,
  `NoOrphan`), and the way of every announcement: who is announced, or recorded as
  up, has an end still to come or one that was not heard (`AnnouncedToEnd`,
  `RecordedToEnd`).
- `FInv` adds that what the notifier holds of a connected node is that connection,
  up, or a link that was announced beside another (`ConnectedRecorded`,
  `PresentRecorded`). Without `beside` this is false of the code, as
  `presence_v2_offline` shows.

**`SafeUpgradeProofs`.** The inductive invariant `IInv` says for every statement
what the journal says there (`PhaseInv`), what data and links are (`AtStep`) and
that the panel is stopped (`StoppedInv`); for a controller that is gone, what an
unfinished journal says of the snapshot (`PendingInv`); and that a panel about to
start with the gate open fits its data. That there is no manual rollback is needed:
it is not journaled (5.2). `RollbackIsTrue` does without it, with manual rollbacks
and faults at any statement: `RbInv` follows the snapshot that was taken
(`SnapshotTaken`), the theme (`ThemeReturns`) and the order of the steps that put
data and links back (`RestoreInOrder`, `OldComesBack`).

**`ConfigDeliveryProofs`.** `TInv` adds to the types that every message that was
sent carries a day and that no revision is ahead of the saves.

- `OInv` orders revisions: `RowKept` and `Served` for the panel's side,
  `MessagesSound` for what is under way, `AgentOrdered` and `UploadsOrdered` for the
  Agent. `DInv` adds `Numbered`, that a request's event is its own and queued at
  most once. A result stays because only the answer to the upload that carried it,
  or a newer revision, clears it.
- `BInv` adds that what is on its way under a revision is what was saved under it
  (`MessagesFaithful`, `RowIssued`), an answer at least a body that was saved, and
  the right one unless it was torn (`AnswersFaithful`).
- `HInv` adds `ResultsTrue`, `FailureNoted` and `FailureKept`: a failure is pending
  with the Agent, or the panel has had it and shows it, until what the Agent reports
  is what was saved, or until an overtaken report hid it.

**`PingHistoryProofs`.** `Base` has the types, where in its list of steps a request
can be (`PlansFollowed`) and what the holder of the cleanup lock still has
(`CleanerOwned`, `CleanerListed`).

- `DInv` follows what was deleted: `GoneLeft` (a node that is gone has left the
  task), `JobsTrue` (a deletion's job is queued by the deletion), `GuardedFirst` (a
  deletion has blocked what it deletes), `Shut` (what is gone is guarded, or neither
  scheduled nor about to be), `Emptied` (once its cleanup got past the erasing,
  nothing is left); each but for what was opened again (`bared`).
- `GInv` is about assignments: the job of a removed one has its guard, or the edit or
  the start is about to set it, and the guard has its job (`PairsGuarded`,
  `JobGuarded`, `EditGuarded`), but for those that crossed; after every commit a
  reload is due (`ReloadDue`), unless the schedule is late.
- `KInv` adds that nothing is measured ahead of its term, and that while an old
  cleanup is pending nothing is stored for a new assignment (`TermsPast`,
  `NotMeasuredYet`).

**`AdminAreaProofs`.** `SessionInv` adds to `SessionSound`: `IdentityKnown`, that
the identity compared with the next account is that of the account shown;
`DashShown`, that the dashboard is there for an account only; `AsksBound`, that no
read of the account is from a later generation or sequence, so that starting one
supersedes all others; and `AwayForGood`, why signing out is final: until the panel
has confirmed, every read in flight is superseded and none is begun
(`logoutPending`), and afterwards the panel knows no account for the cookie. The
steps that draw the screen share `Drawn`, `DataRedrawn` and `DataRenewed`; those
that end a session `EndKeeps`. `SInv` says of the settings that, unless behaviour
became doubtful, one save is under way at most (`OneAtATime`), and what the copy,
the panel and the posted body have to say of each other before and after it is
served (`InFlight`); that what was left behind was left by a mount that was or is
(`BehindBefore`); `CopyIsCurrent` is what is left when the save has ended.

**`NodePageProofs`.** `CommandInv`: one save of a profile is under way at most;
until it is answered nothing is said to be copied, once it was served it is this
dialog's last save, and the panel stores that one until another administrator
saves. `EditInv`: the form differs from the node it last
followed only where the administrator entered something. `ResaleInv`: the newest
question for a rate is about the form's currency. `TableInv`: one list request is the newest, and none is older
than the list it will replace.

**`RulePagesProofs`.** `PInv`, for the eight pages at once: when no stored change
is unanswered, the list is what is stored, or the newest read of it has not been
served before that was (`ListFollows`, `Recent`); the tasks are drawn in the list's
order unless a new one is on its way (`DrawnFollows`); a preset that is not being
saved is what the panel holds (`PresetSaves`, `PresetFollows`).
`DeletedStaysDeleted` and `TicksAreListed` give the second theorem.

**`TransportProofs`.** `ClientInv` says which sockets may be alive in each
connection state while the client reconnects by itself, and that the heartbeat
belongs to the socket in use. `UploadInv` says of an upload that has not come to
its merge, or was given up, that it is not staged, not being put together and not
asked for by a request still on its way; and of an answered merge that its archive
is staged. `HeardInv` adds where the controller of the newest upload is before its
merge (its own, or dropped by another's end), so that a cancel is heard or the
upload is one of the orphaned.

**Only model-checked.** Liveness, which is out of the prover's reach: `Superseded`,
`HostReturns`, `EventuallyDelivered`, `EventuallySettled`, `TableFollowsPanel`,
`DialogsSettle`, `PageReturns`, `ExpiryIsNoticed`, `CardsSettle`, `Recovers`,
`DialogReleases`. Of safety, two parts of `TableSteps`: `TableTypeOK` and
`DropMovesOneRow`, which rest on what `SelectSeq` and a sort return for every
list, and that takes an induction over data. No module declares a RECURSIVE
operator.

## 5. Differences between the code and its words, and facts a reader should know

### 5.1 Findings (runs that end in a counterexample)

1. `presence_v2_offline`: reports of a v2 WebSocket also open a POST session,
   which `ingest.go` says they do not. When no report comes for its 35 s, nor for the
   grace period after them, an offline message follows although the WebSocket is up.
2. `settings_single`: a card that saves by its own key leaves the provider's copy
   behind; `updateSetting` and `updateMultipleSettings` then post that whole copy
   and put the old value back. They also post the metric keys, so that each such
   save tests and reloads the metrics database.

### 5.2 Exceptions the properties make

The code does not prevent the following. Each property that meets one names it and
says that nothing else goes wrong; without the exception the run finds it.

| What happens | Exception |
|---|---|
| Two connects overlap: each looks up the old connection before the other is stored, and one is never closed | `crossed` in `EndsAccounted` |
| A connection ends before its own announcement ran, or with notifications off; its end is never reported | `unheard` in `EndsAccounted` |
| The late goroutine of the older of two connects, or that of a connection refused because its node is being deleted (`connections.go:40`), or of a POST session beside a WebSocket, makes its link current; its end is reported while the other is up | `beside` in `OfflineExplained`; `NoFalseOffline` has none and is finding 1 of 5.1 |
| A connection or a keep-alive that had asked `EntityWritesBlocked` before a deletion blocked the writes is stored after it dropped the node's connections | `early` in `RegistrySound` |
| A save between the two reads of an answer sends the old configuration under the new revision | `torn` in `AgentHonest`, `EventuallyDelivered` |
| A report overtaken by a later upload closes a failed delivery as applied | `overtaken` in `AgentHonest`, `EventuallyDelivered` |
| A failed application has written `control.json` and leaves it: the Hermes helper runs what the Agent says it does not | `RelayAgrees` in `AgentHonest` speaks of revisions that were applied only |
| The worker completes a cleanup between the commit of a removal and its guard, which then stays for good; `editPingTasks` returns between the two (`ping.go:196`, against the comment at 204) and a retry erases what was measured since; two edits lift each other's guard | `crossed` in `GuardsSound`, `HistoryKept` |
| Two reloads replace the schedule in the other order, or a reload fails | `late` in `GuardsSound`, `EventuallySettled` |
| A second deletion of a deleted node lifts the guard of the first; an edit or `AddDefaultOnClientUUID` assigns a node that is gone | `bared` in `DeletedStaysEmpty` |
| A card that saves by its own key leaves the copy behind; mounted again it shows the old value | `behind` in `SettingsSound` |
| Another administrator saves a profile while the command of this one is copied | `mine` in `DialogsHonest` |
| The end of an upload drops the controller of the next, whose cancel then only closes the dialog: it is merged and staged | `orphaned` in `DialogTellsTruth` |
| A recovery dies while it fills `recovered-<id>`; every later one refuses the directory | `HalfRelease` in `HostReturns` |

Two more need another configuration. A crash during a manual rollback finds the
gate open and the data missing: `UpgradeRollback.cfg` with the `FaultSteps` of
`UpgradeSafe.cfg` violates `RunsOnWholeData`. One that is killed after it stopped
the panel leaves it stopped: the same with `LiveSpec` violates `HostReturns`.

### 5.3 Visible in the models, forbidden by no property

*Panel and Agent.* The reset day of the billing editor is sent once, without a
revision (`admin.client.go:155`, against `deployment_profile.go:120`): an Agent
that is not connected never gets it. Two saves may enqueue in the other
order until the next upload's answer. In `safe_upgrade.py` every retry of a
failing recovery displaces one more copy of the data, and a rolled-back upgrade
leaves `releases/<version>` behind.

*Session.* A refresh of the load alerts that fails writes the list it had back
into the cache, also after a revocation (`LoadAlertContext.tsx:86`, against
`tests/spaRevocation.test.mjs:95`): the one slot the properties except. After a
failed sign-out `logoutPending` stays set, so that a later sign-in in that tab
does not read the account until a reload. Another account's cookie is noticed
with the next read of the account only.

*Settings.* A refused whole save sets the context's error, and every settings page
shows it instead of its cards until a reload. Long texts and switches are
overwritten by a re-read, selects never follow one. A switch whose save succeeded
and whose re-read failed turns back. Re-reads carry no sequence.

*Node page.* `index.tsx:768` says "Do not refresh: it would overwrite the local
ordering", and the live poll refreshes all the same. A late poll of an older
revision may show "Applied" over a newer one.

*Rule pages.* Forms of load and ping rows keep cancelled edits and are not
refreshed; the quick node selector posts the whole stale form. The offline page's
error is never cleared, its row stays disabled after a failed request, and a
refusal also says "saved". A drag of a ping task is not followed by a re-read.
Lists carry no sequence, and a preset's answer may overwrite a saved default.

*RPC client.* A connect that times out leaves its socket opening. `onclose` does
not look at which socket closed (`rpc2.ts:353`, against `RPC2Context.tsx:26`): two
sockets may be open after the provider was taken down and put up again, which is
why `ConnectionSound` speaks of one socket only while `autoReconnect` is on; it
stays off after the first unmount. Calls on a closed socket wait for their 30 s.

*Upload.* A lost answer to `init` leaves a session the client does not know: two of
them refuse the owner's further uploads (409) until a day has passed or the panel
restarts. A lost answer to `merge` shows "failed" although the archive is staged. A
cancel that arrives while the merge is under way does not stop it
(`CancelledIsNotApplied` speaks of cancels before it).

## 6. Not modelled

- Parts correct by their data, not by the order of steps, and covered by their own
  tests: the metric store's encodings, rollups and queries, traffic sums, usage
  pricing, dashboard aggregation.
- I/O and one-time setup: senders, DNS, probes, certificates, installers, the
  update check, startup and migrations (an upgrade's migration is the change of
  the schema in `SafeUpgrade`).
- Single statements on single rows: accounts, two-factor enrolment, the
  configuration store.
- Left out so far, though they have an order of steps: the report batcher, the
  staged restore at start, the flat-layout updater, load alerts' execution guard,
  the scheduler, calibration's cache, relocation, the usage relay, the shared load
  of the dashboard cache.
- In the modelled parts: the other events of the queue, a task's interval and
  display settings, OAuth, the database maintenance and migration pages, the
  dashboard's panels, the theme upload, and everything that is layout or wording.

## 7. Plan

1. Done: the eleven component modules, three abstract specifications, and proofs
   about all of the components in eight proof modules.
2. `StagedRestore` (`dbcore.go`, `restore.go`): journal, renames, markers and a
   crash at every step; a start finds the old or the new data, whole.
3. `ReportBatcher` (`report.go`): bounded queue, failing batch, stop; each accepted
   report is written once.
4. `FlatUpdate` (`update-komari.sh`), `LoadAlerts` (`load.go`), `Scheduler`
   (`corn.go`), `CalibrationCache`, `Relocation`, `UsageRelay`.
5. Proofs: an abstract specification of the configuration's delivery, with its
   refinement.
