----------------------------- MODULE SafeUpgrade -----------------------------
(***************************************************************************)
(* The journaled upgrade of a native installation, deploy/safe_upgrade.py: *)
(* the controller that upgrades, recovers or rolls back, the systemd unit  *)
(* of the panel with the gate in its ExecStartPre, the recovery timer, and *)
(* the files they share: journal, snapshot, release links and data.        *)
(*                                                                         *)
(* At most one controller runs (flock); `pc` is the statement it executes  *)
(* next, so a crash or an exception at pc = s hits before s took effect.   *)
(* A release is a number, and it is also the schema and the theme it       *)
(* brings: the panel of release v migrates the data to schema v.           *)
(***************************************************************************)
EXTENDS Integers, FiniteSets

CONSTANTS
  MaxVersion,     \* bound: releases 0..MaxVersion, 0 is installed
  MaxCrashes,     \* bound: controller kills, host crashes, panel crashes
  MaxFailures,    \* bound: exceptions in the controller
  FaultSteps,     \* the steps a crash or an exception may hit
  ManualRollback  \* TRUE: the operator may run `rollback`

UpgradeSteps == {"stop", "save_stopped", "copy", "complete", "save_backed_up", "theme",
                 "theme_in", "current", "komari", "save_starting", "start", "health", "commit"}
UndoSteps    == {"undo", "undo_stop", "undo_save"}
RestoreSteps == {"r_stop", "r_displace"}
RestoreTry   == {"r_copy", "r_release", "r_fill", "r_current", "r_komari", "r_save"}
OldSteps     == {"old_start", "old_health", "old_done"}
Steps        == {"prepare", "save_failed"} \cup UpgradeSteps \cup UndoSteps
                  \cup RestoreSteps \cup RestoreTry \cup OldSteps

ASSUME UpgradeAssumption ==
  /\ MaxVersion \in Nat /\ MaxCrashes \in Nat /\ MaxFailures \in Nat
  /\ FaultSteps \subseteq Steps \cup {"idle"}
  /\ ManualRollback \in BOOLEAN

Versions == 0..MaxVersion
None     == -1

VARIABLES
  journal,    \* journal.json: phase, coordinator, target and old version
  pc,         \* the controller's next statement, or idle
  candidate,  \* the release being staged before it is journaled
  service,    \* the panel's unit: stopped, wanted (systemd will start it), running
  run,        \* the release of the running panel
  data,       \* root/data: database schema and Glass theme; None = not there
  snapshot,   \* state/backups/<id> of the journaled transaction
  recovered,  \* releases/recovered-<id>: absent, partial or whole
  current,    \* the release root/current points to
  linked,     \* root/komari is the link to current/komari
  staged,     \* releases/<version> directories
  crashes,    \* crashes so far
  failures    \* exceptions so far

panelVars == <<service, run>>
linkVars  == <<current, linked>>
vars == <<journal, pc, candidate, panelVars, data, snapshot, recovered, linkVars,
          staged, crashes, failures>>

Final  == {"committed", "rolled_back"}
Phases == {"none", "prepared", "stopped", "backed_up", "starting",
           "rollback_starting", "rollback_failed"} \cup Final

Data    == [schema : Versions \cup {None}, theme : Versions \cup {None}]
Missing == [schema |-> None, theme |-> None]
Empty   == [data |-> Missing, bin |-> None, complete |-> FALSE]

Snapshots == [data : Data, bin : Versions \cup {None}, complete : BOOLEAN]
Journals  == [phase : Phases, coordinator : {"none", "self", "dead"},
              target : Versions \cup {None}, old : Versions \cup {None}]

TypeOK ==
  /\ journal \in Journals
  /\ pc \in Steps \cup {"idle"}
  /\ candidate \in Versions \cup {None}
  /\ service \in {"stopped", "wanted", "running"}
  /\ run \in Versions \cup {None}
  /\ data \in Data
  /\ snapshot \in Snapshots
  /\ recovered \in {"absent", "partial", "whole"}
  /\ current \in Versions \cup {None}
  /\ linked \in BOOLEAN
  /\ staged \subseteq Versions
  /\ crashes \in 0..MaxCrashes /\ failures \in 0..MaxFailures

Init ==
  /\ journal = [phase |-> "none", coordinator |-> "none", target |-> None, old |-> None]
  /\ pc = "idle" /\ candidate = None
  /\ service = "running" /\ run = 0
  /\ data = [schema |-> 0, theme |-> 0]
  /\ snapshot = Empty /\ recovered = "absent"
  /\ current = None /\ linked = FALSE /\ staged = {}
  /\ crashes = 0 /\ failures = 0

------------------------------------------------------------------------------
(* The journal and the gate. *)

\* The release root/komari is: before the first upgrade it is a plain file.
Effective == IF linked THEN current ELSE 0

Pending == journal.phase \notin Final \cup {"none"}

\* coordinator_alive(j.coordinator): PID and start time match a live process.
CoordinatorAlive == journal.coordinator = "self"

\* Mutant: the gate trusts the phase and not the coordinator.
GatePhaseOnly == ~Pending \/ journal.phase \in {"starting", "rollback_starting"}

\* gate(a), the ExecStartPre of the panel's unit.
Gate ==
  \/ ~Pending
  \/ journal.phase \in {"starting", "rollback_starting"} /\ CoordinatorAlive

\* save(state, record, phase) by the process that wrote the coordinator field.
Save(phase) == journal' = [journal EXCEPT !.phase = phase]

\* save after j['coordinator'] = process_identity().
SaveAsCoordinator(phase) ==
  journal' = [journal EXCEPT !.phase = phase, !.coordinator = "self"]

\* What the controller's death does to the identity in the journal.
Orphaned == [journal EXCEPT !.coordinator = IF @ = "self" THEN "dead" ELSE @]

Advance(from, to) == pc = from /\ pc' = to

\* Mutant: stop() returns while the panel is still running.
StopPanelAsync == UNCHANGED panelVars

\* stop(a): returns when systemd reports the unit stopped.
StopPanel == service' = "stopped" /\ run' = None

\* start(a).
StartPanel ==
  /\ service' = IF service = "running" THEN "running" ELSE "wanted"
  /\ UNCHANGED run

------------------------------------------------------------------------------
(* upgrade(a). *)

\* Mutant: preflight does not look at the journal.
PreflightUnfinished(v) ==
  /\ v # Effective /\ v >= data.schema /\ v \notin staged /\ data.schema # None
  /\ Advance("idle", "prepare")
  /\ candidate' = v
  /\ staged' = staged \cup {v}
  /\ UNCHANGED <<journal, panelVars, data, snapshot, recovered, linkVars, crashes, failures>>

\* preflight(a) and the staging of releases/<version>.
Preflight(v) ==
  /\ ~Pending
  /\ v # Effective                      \* identical version refused
  /\ v >= data.schema                   \* schema downgrade refused
  /\ v \notin staged                    \* release already staged
  /\ data.schema # None                 \* config_check
  /\ Advance("idle", "prepare")
  /\ candidate' = v
  /\ staged' = staged \cup {v}
  /\ UNCHANGED <<journal, panelVars, data, snapshot, recovered, linkVars, crashes, failures>>

\* The intent: a new journal, with a new id and so a new, empty backup directory.
SavePrepared ==
  /\ Advance("prepare", "stop")
  /\ journal' = [phase |-> "prepared", coordinator |-> "self", target |-> candidate,
                 old |-> Effective]
  /\ snapshot' = Empty /\ recovered' = "absent" /\ candidate' = None
  /\ UNCHANGED <<panelVars, data, linkVars, staged, crashes, failures>>

StopForUpgrade ==
  /\ Advance("stop", "save_stopped")
  /\ StopPanel
  /\ UNCHANGED <<journal, candidate, data, snapshot, recovered, linkVars, staged,
                 crashes, failures>>

SaveStopped ==
  /\ Advance("save_stopped", "copy")
  /\ Save("stopped")
  /\ UNCHANGED <<candidate, panelVars, data, snapshot, recovered, linkVars, staged,
                 crashes, failures>>

\* Mutant: the completion marker is written before the copy is verified.
CopySnapshotMarked ==
  /\ Advance("copy", "complete")
  /\ snapshot' = [data |-> Missing, bin |-> Effective, complete |-> TRUE]
  /\ UNCHANGED <<journal, candidate, panelVars, data, recovered, linkVars, staged,
                 crashes, failures>>

\* copy_tree of data and copy of the executable; a copy taken while a panel
\* writes its database is not a usable one.
CopySnapshot ==
  /\ Advance("copy", "complete")
  /\ snapshot' = [data |-> IF service = "running" THEN Missing ELSE data,
                  bin |-> Effective, complete |-> FALSE]
  /\ UNCHANGED <<journal, candidate, panelVars, data, recovered, linkVars, staged,
                 crashes, failures>>

\* config_check(snapshot), manifest.json, then metadata.json, the completion marker.
CompleteSnapshot ==
  /\ Advance("complete", "save_backed_up")
  /\ snapshot.data.schema # None
  /\ snapshot' = [snapshot EXCEPT !.complete = TRUE]
  /\ UNCHANGED <<journal, candidate, panelVars, data, recovered, linkVars, staged,
                 crashes, failures>>

SaveBackedUp ==
  /\ Advance("save_backed_up", "theme")
  /\ Save("backed_up")
  /\ UNCHANGED <<candidate, panelVars, data, snapshot, recovered, linkVars, staged,
                 crashes, failures>>

\* apply_theme without a bundle.
NoThemeBundle ==
  /\ Advance("theme", "current")
  /\ UNCHANGED <<journal, candidate, panelVars, data, snapshot, recovered, linkVars,
                 staged, crashes, failures>>

\* apply_theme: os.replace(theme, old).
ThemeOut ==
  /\ Advance("theme", "theme_in")
  /\ data' = [data EXCEPT !.theme = None]
  /\ UNCHANGED <<journal, candidate, panelVars, snapshot, recovered, linkVars, staged,
                 crashes, failures>>

\* apply_theme: os.replace(staged, theme).
ThemeIn ==
  /\ Advance("theme_in", "current")
  /\ data' = [data EXCEPT !.theme = journal.target]
  /\ UNCHANGED <<journal, candidate, panelVars, snapshot, recovered, linkVars, staged,
                 crashes, failures>>

SwapCurrent ==
  /\ Advance("current", "komari")
  /\ current' = journal.target
  /\ UNCHANGED <<journal, candidate, panelVars, data, snapshot, recovered, linked,
                 staged, crashes, failures>>

SwapKomari ==
  /\ Advance("komari", "save_starting")
  /\ linked' = TRUE
  /\ UNCHANGED <<journal, candidate, panelVars, data, snapshot, recovered, current,
                 staged, crashes, failures>>

SaveStarting ==
  /\ Advance("save_starting", "start")
  /\ Save("starting")
  /\ UNCHANGED <<candidate, panelVars, data, snapshot, recovered, linkVars, staged,
                 crashes, failures>>

StartNew ==
  /\ Advance("start", "health")
  /\ StartPanel
  /\ UNCHANGED <<journal, candidate, data, snapshot, recovered, linkVars, staged,
                 crashes, failures>>

\* health(a, version, ...): the unit is active, HTTP answers with the version,
\* which it does once the startup migrations have finished.
Healthy(v) == service = "running" /\ run = v /\ data.schema = run

HealthNew ==
  /\ Advance("health", "commit")
  /\ Healthy(journal.target)
  /\ UNCHANGED <<journal, candidate, panelVars, data, snapshot, recovered, linkVars,
                 staged, crashes, failures>>

\* save 'committed'; the controller returns and its process ends.
SaveCommitted ==
  /\ Advance("commit", "idle")
  /\ journal' = [journal EXCEPT !.phase = "committed", !.coordinator = "dead"]
  /\ UNCHANGED <<candidate, panelVars, data, snapshot, recovered, linkVars, staged,
                 crashes, failures>>

UpgradeStep ==
  \/ SavePrepared \/ StopForUpgrade \/ SaveStopped \/ CopySnapshot \/ CompleteSnapshot
  \/ SaveBackedUp \/ NoThemeBundle \/ ThemeOut \/ ThemeIn \/ SwapCurrent \/ SwapKomari
  \/ SaveStarting \/ StartNew \/ HealthNew \/ SaveCommitted

------------------------------------------------------------------------------
(* Without a complete snapshot nothing was switched: keep the old release. *)

\* The handler of upgrade(a): point current back if it was moved.
Undo ==
  /\ Advance("undo", "undo_save")
  /\ current' = IF linked /\ current = journal.target THEN journal.old ELSE current
  /\ UNCHANGED <<journal, candidate, panelVars, data, snapshot, recovered, linked,
                 staged, crashes, failures>>

\* recover_pending(a, state, j) stops the panel first.
UndoStop ==
  /\ Advance("undo_stop", "undo_save")
  /\ StopPanel
  /\ UNCHANGED <<journal, candidate, data, snapshot, recovered, linkVars, staged,
                 crashes, failures>>

\* save 'rollback_starting' with this process as the coordinator.
UndoSave ==
  /\ Advance("undo_save", "old_start")
  /\ SaveAsCoordinator("rollback_starting")
  /\ UNCHANGED <<candidate, panelVars, data, snapshot, recovered, linkVars, staged,
                 crashes, failures>>

------------------------------------------------------------------------------
(* restore(a, j), entered by a failed upgrade, by recover and by rollback. *)

RestoreStop ==
  /\ Advance("r_stop", "r_displace")
  /\ StopPanel
  /\ UNCHANGED <<journal, candidate, data, snapshot, recovered, linkVars, staged,
                 crashes, failures>>

\* os.replace(data, displaced): data.failed.<id>-<uuid>.
Displace ==
  /\ Advance("r_displace", "r_copy")
  /\ data' = Missing
  /\ UNCHANGED <<journal, candidate, panelVars, snapshot, recovered, linkVars, staged,
                 crashes, failures>>

\* Mutant: the theme put back is the one first installed, not the snapshot's.
CopyBackFirstTheme ==
  /\ Advance("r_copy", "r_release")
  /\ snapshot.data.schema # None
  /\ data' = [snapshot.data EXCEPT !.theme = 0]
  /\ UNCHANGED <<journal, candidate, panelVars, snapshot, recovered, linkVars, staged,
                 crashes, failures>>

\* copy_tree(backup/data, data) and config_check(root).
CopyBack ==
  /\ Advance("r_copy", "r_release")
  /\ snapshot.data.schema # None
  /\ data' = snapshot.data
  /\ UNCHANGED <<journal, candidate, panelVars, snapshot, recovered, linkVars, staged,
                 crashes, failures>>

\* recovered.mkdir.
MakeRelease ==
  /\ Advance("r_release", "r_fill")
  /\ recovered = "absent" /\ recovered' = "partial"
  /\ UNCHANGED <<journal, candidate, panelVars, data, snapshot, linkVars, staged,
                 crashes, failures>>

\* shutil.copy2 into the recovery release.
FillRelease ==
  /\ Advance("r_fill", "r_current")
  /\ recovered' = "whole"
  /\ UNCHANGED <<journal, candidate, panelVars, data, snapshot, linkVars, staged,
                 crashes, failures>>

\* recovered.exists() and its digest is that of the snapshot.
ReuseRelease ==
  /\ Advance("r_release", "r_current")
  /\ recovered = "whole"
  /\ UNCHANGED <<journal, candidate, panelVars, data, snapshot, recovered, linkVars,
                 staged, crashes, failures>>

\* recovered.exists() and the digest differs, or there is no file to digest.
ReleaseDiffers ==
  /\ Advance("r_release", "save_failed")
  /\ recovered = "partial"
  /\ UNCHANGED <<journal, candidate, panelVars, data, snapshot, recovered, linkVars,
                 staged, crashes, failures>>

RestoreCurrent ==
  /\ Advance("r_current", "r_komari")
  /\ current' = snapshot.bin
  /\ UNCHANGED <<journal, candidate, panelVars, data, snapshot, recovered, linked,
                 staged, crashes, failures>>

RestoreKomari ==
  /\ Advance("r_komari", "r_save")
  /\ linked' = TRUE
  /\ UNCHANGED <<journal, candidate, panelVars, data, snapshot, recovered, current,
                 staged, crashes, failures>>

RestoreSave ==
  /\ Advance("r_save", "old_start")
  /\ SaveAsCoordinator("rollback_starting")
  /\ UNCHANGED <<candidate, panelVars, data, snapshot, recovered, linkVars, staged,
                 crashes, failures>>

RestoreStep ==
  \/ RestoreStop \/ Displace \/ CopyBack \/ MakeRelease \/ FillRelease \/ ReuseRelease
  \/ ReleaseDiffers \/ RestoreCurrent \/ RestoreKomari \/ RestoreSave

------------------------------------------------------------------------------
(* Both ways back end with the start and the health check of the old release. *)

StartOld ==
  /\ Advance("old_start", "old_health")
  /\ StartPanel
  /\ UNCHANGED <<journal, candidate, data, snapshot, recovered, linkVars, staged,
                 crashes, failures>>

HealthOld ==
  /\ Advance("old_health", "old_done")
  /\ Healthy(journal.old)
  /\ UNCHANGED <<journal, candidate, panelVars, data, snapshot, recovered, linkVars,
                 staged, crashes, failures>>

SaveRolledBack ==
  /\ Advance("old_done", "idle")
  /\ journal' = [journal EXCEPT !.phase = "rolled_back", !.coordinator = "dead"]
  /\ UNCHANGED <<candidate, panelVars, data, snapshot, recovered, linkVars, staged,
                 crashes, failures>>

\* save 'rollback_failed', then the exception ends the process.
SaveRollbackFailed ==
  /\ Advance("save_failed", "idle")
  /\ journal' = [Orphaned EXCEPT !.phase = "rollback_failed"]
  /\ UNCHANGED <<candidate, panelVars, data, snapshot, recovered, linkVars, staged,
                 crashes, failures>>

BackStep ==
  \/ Undo \/ UndoStop \/ UndoSave \/ StartOld \/ HealthOld \/ SaveRolledBack
  \/ SaveRollbackFailed

------------------------------------------------------------------------------
(* recover, auto-recover and rollback. *)

\* main() and recover_pending(a, state, j): a pending journal of a dead controller.
Recoverable == pc = "idle" /\ Pending /\ ~CoordinatorAlive

\* Mutant: recovery does not expect a failed restart of the old release.
KeepsOldUnfailed ==
  journal.phase \in {"prepared", "stopped", "rollback_starting"} /\ Effective = journal.old

\* recover_pending without metadata.json.
KeepsOld ==
  /\ journal.phase \in {"prepared", "stopped", "rollback_starting", "rollback_failed"}
  /\ Effective = journal.old

Recover ==
  /\ Recoverable
  /\ \/ snapshot.complete /\ pc' = "r_stop"
     \/ ~snapshot.complete /\ KeepsOld /\ pc' = "undo_stop"
  /\ UNCHANGED <<journal, candidate, panelVars, data, snapshot, recovered, linkVars,
                 staged, crashes, failures>>

\* main(), action rollback: any journal whose snapshot verifies.
Rollback ==
  /\ ManualRollback
  /\ journal.phase # "none" /\ snapshot.complete
  /\ Advance("idle", "r_stop")
  /\ UNCHANGED <<journal, candidate, panelVars, data, snapshot, recovered, linkVars,
                 staged, crashes, failures>>

------------------------------------------------------------------------------
(* Exceptions, crashes and systemd. *)

\* What a command that timed out or failed may have done to the unit.
UnitAfterFailure ==
  IF pc \in {"stop", "r_stop", "undo_stop"} THEN {service, "stopped"}
  ELSE IF pc \in {"start", "old_start"} /\ service = "stopped" THEN {service, "wanted"}
  ELSE {service}

Fail ==
  /\ pc \in FaultSteps \ {"idle"} /\ failures < MaxFailures
  /\ failures' = failures + 1
  /\ service' \in UnitAfterFailure
  /\ run' = IF service' = "running" THEN run ELSE None
  /\ \/ /\ pc \in UpgradeSteps                                 \* except BaseException
        /\ pc' = IF snapshot.complete THEN "r_stop" ELSE "undo"
        /\ UNCHANGED journal
     \/ /\ pc \in RestoreTry \cup OldSteps                     \* except in restore
        /\ pc' = "save_failed"
        /\ UNCHANGED journal
     \/ /\ pc \in {"prepare", "save_failed"} \cup UndoSteps \cup RestoreSteps
        /\ pc' = "idle" /\ journal' = Orphaned                 \* not caught: exit
  /\ candidate' = IF pc = "prepare" THEN None ELSE candidate
  /\ UNCHANGED <<data, snapshot, recovered, linkVars, staged, crashes>>

\* The controller is killed.
Kill ==
  /\ pc \in FaultSteps \ {"idle"} /\ crashes < MaxCrashes
  /\ crashes' = crashes + 1
  /\ pc' = "idle" /\ candidate' = None /\ journal' = Orphaned
  /\ service' \in UnitAfterFailure
  /\ run' = IF service' = "running" THEN run ELSE None
  /\ UNCHANGED <<data, snapshot, recovered, linkVars, staged, failures>>

\* Power loss: the enabled unit is started at boot.
HostCrash ==
  /\ pc \in FaultSteps /\ crashes < MaxCrashes
  /\ crashes' = crashes + 1
  /\ pc' = "idle" /\ candidate' = None /\ journal' = Orphaned
  /\ service' = "wanted" /\ run' = None
  /\ UNCHANGED <<data, snapshot, recovered, linkVars, staged, failures>>

\* The panel dies; Restart=always.
PanelCrash ==
  /\ service = "running" /\ crashes < MaxCrashes
  /\ crashes' = crashes + 1
  /\ service' = "wanted" /\ run' = None
  /\ UNCHANGED <<journal, pc, candidate, data, snapshot, recovered, linkVars, staged,
                 failures>>

\* systemd starts the unit: the gate lets it through, root/komari is executed.
PanelStarts ==
  /\ service = "wanted" /\ Gate
  /\ service' = "running" /\ run' = Effective
  /\ UNCHANGED <<journal, pc, candidate, data, snapshot, recovered, linkVars, staged,
                 crashes, failures>>

\* The gate fails until the start limit is hit.
GateRefuses ==
  /\ service = "wanted" /\ ~Gate
  /\ service' = "stopped"
  /\ UNCHANGED <<journal, pc, candidate, run, data, snapshot, recovered, linkVars,
                 staged, crashes, failures>>

\* The startup of a panel migrates the database and seeds a missing theme.
PanelMigrates ==
  /\ service = "running" /\ data.schema < run
  /\ data' = [schema |-> run, theme |-> IF data.theme = None THEN run ELSE data.theme]
  /\ UNCHANGED <<journal, pc, candidate, panelVars, snapshot, recovered, linkVars,
                 staged, crashes, failures>>

Controller == UpgradeStep \/ RestoreStep \/ BackStep

Next ==
  \/ \E v \in Versions : Preflight(v)
  \/ Controller \/ Recover \/ Rollback
  \/ Fail \/ Kill \/ HostCrash \/ PanelCrash
  \/ PanelStarts \/ GateRefuses \/ PanelMigrates

Spec == Init /\ [][Next]_vars

\* The controller runs until it ends, the timer fires every minute, systemd
\* restarts the panel and a started panel finishes its migrations.
Fairness ==
  /\ WF_vars(Controller) /\ WF_vars(Recover)
  /\ WF_vars(PanelStarts) /\ WF_vars(PanelMigrates)

LiveSpec == Spec /\ Fairness

------------------------------------------------------------------------------
(* Properties. *)

Whole(d) == d.schema # None /\ d.theme # None

\* A panel only ever runs on a complete data directory that no newer release
\* has migrated or themed, and it is the release root/komari points to: the
\* gate and the order of the controller's steps, whatever dies in between.
RunsOnWholeData ==
  service = "running" =>
    Whole(data) /\ data.schema <= run /\ data.theme <= run /\ run = Effective

\* A finished journal tells the truth: committed means the target is in place,
\* rolled_back the old release with data no newer than it.
JournalHonest ==
  pc = "idle" =>
    /\ journal.phase = "committed" => Effective = journal.target
    /\ journal.phase = "rolled_back" => Effective = journal.old
    /\ ~Pending => Whole(data) /\ data.schema <= Effective /\ data.theme <= Effective

\* Whenever no controller runs and the journal is unfinished, recover_pending
\* finds what it requires: a complete snapshot of the old release, or the old
\* release untouched ("snapshot missing after switch" is never reached).
AlwaysRecoverable ==
  (pc = "idle" /\ Pending) =>
    /\ ~CoordinatorAlive
    /\ IF snapshot.complete
       THEN /\ Whole(snapshot.data) /\ snapshot.bin = journal.old
            /\ snapshot.data.schema <= journal.old /\ snapshot.data.theme <= journal.old
       ELSE /\ KeepsOld
            /\ Whole(data) /\ data.schema <= journal.old /\ data.theme <= journal.old

\* The journal and what it stands for agree, whether it is finished or not.
JournalSound == TypeOK /\ JournalHonest /\ AlwaysRecoverable

\* A rollback that reports success has brought back the snapshot: its release,
\* its theme, and its database, which that release alone may have migrated since.
RollbackRestores ==
  [][(journal'.phase = "rolled_back" /\ pc = "old_done" /\ snapshot.complete) =>
       /\ Effective = snapshot.bin /\ data.theme = snapshot.data.theme
       /\ data.schema \in {snapshot.data.schema, snapshot.bin}]_vars

\* The controller changes data, links and snapshot only under a stopped panel.
NothingMovesUnderPanel ==
  [][service = "running" => /\ UNCHANGED linkVars
                            /\ data' = data \/ PanelMigrates
                            /\ snapshot' = snapshot \/ snapshot' = Empty]_vars

\* A recovery died between recovered.mkdir and the end of the copy into it: no later
\* recovery gets past the partial release (safe_upgrade.py:524-530).
HalfRelease == pc = "idle" /\ recovered = "partial"

\* An unfinished upgrade whose controller died is committed or rolled back, unless
\* the recovery itself died in the one place it cannot be repeated from.
Resolves == (Pending /\ pc = "idle") ~> (~Pending \/ HalfRelease)

\* Likewise the panel is never down for good.
PanelReturns == []<>(service = "running" \/ HalfRelease)

\* Whatever died, the timer brings the upgrade to an end and the panel back.
HostReturns == Resolves /\ PanelReturns

\* The host is settled on one release; an attempt commits or aborts as a whole.
Promise == INSTANCE UpgradePromise WITH
  Releases  <- Versions,
  installed <- IF Pending THEN journal.old ELSE Effective,
  attempt   <- IF Pending THEN journal.target ELSE None,
  serving   <- run
KeepsPromise == Promise!PSpec
==============================================================================
