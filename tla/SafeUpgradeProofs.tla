-------------------------- MODULE SafeUpgradeProofs --------------------------
(***************************************************************************)
(* Without a manual rollback, and for any number of releases, crashes and  *)
(* exceptions at any step: the panel only runs on whole data, a finished   *)
(* journal is true, an unfinished one is always recoverable, and the       *)
(* upgrade implements UpgradePromise.                                      *)
(*                                                                         *)
(* None of these is inductive: each rests on what is in place at every     *)
(* statement of the controller (AtStep), on what an unfinished journal     *)
(* says of the snapshot (PendingInv), and on the panel being stopped       *)
(* wherever the gate is open and the data is not whole (StoppedInv).       *)
(*                                                                         *)
(* With or without manual rollbacks, a rollback that reports success has   *)
(* brought back the snapshot (RbInv, at the end).                          *)
(***************************************************************************)
EXTENDS SafeUpgrade, TLAPS

\* Data that the panel of release v may run on.
Fits(d, v)  == d.schema \in 0..v /\ d.theme \in 0..v
\* Data that the panel of release v has migrated.
Of(d, v)    == d.schema = v /\ d.theme \in 0..v

OldInPlace == Effective = journal.old /\ Of(data, journal.old)

\* Where the controller is, against what the journal says.
PhaseInv ==
  /\ pc \in {"idle", "prepare"} => journal.coordinator # "self"
  /\ pc = "prepare" => ~Pending /\ candidate > Effective
  /\ pc \notin {"idle", "prepare"} => Pending
  /\ pc \in UpgradeSteps \cup OldSteps => journal.coordinator = "self"
  /\ pc \in {"stop", "save_stopped"} => journal.phase = "prepared"
  /\ pc \in {"copy", "complete", "save_backed_up"} => journal.phase = "stopped"
  /\ pc \in {"theme", "theme_in", "current", "komari", "save_starting"} => journal.phase = "backed_up"
  /\ pc \in {"start", "health", "commit"} => journal.phase = "starting"
  /\ pc \in OldSteps => journal.phase = "rollback_starting"
  /\ pc \in {"stop", "save_stopped", "copy", "complete"} \cup UndoSteps => ~snapshot.complete
  /\ pc \in {"save_backed_up", "theme", "theme_in", "current", "komari", "save_starting",
             "start", "health", "commit"} \cup RestoreSteps \cup RestoreTry => snapshot.complete

\* What a finished and an unfinished journal say.
PendingInv ==
  /\ ~Pending => Of(data, Effective)
  /\ journal.phase = "committed" => Effective = journal.target
  /\ journal.phase = "rolled_back" => Effective = journal.old
  /\ Pending => journal.old \in Versions /\ journal.target \in Versions /\ journal.old < journal.target
  /\ Pending /\ snapshot.complete => snapshot.bin = journal.old /\ Of(snapshot.data, journal.old)
  /\ Pending /\ ~snapshot.complete =>
       /\ OldInPlace
       /\ journal.phase \in {"prepared", "stopped", "rollback_starting", "rollback_failed"}

\* What is in place when the controller executes each statement.
AtStep ==
  /\ pc = "complete" => snapshot.bin = journal.old /\ Of(snapshot.data, journal.old)
  /\ pc \in {"save_backed_up", "theme"} => OldInPlace
  /\ pc \in {"theme_in", "current", "komari", "save_starting", "start"} => data.schema = journal.old
  /\ pc \in {"current", "komari", "save_starting", "start"} => data.theme \in 0..journal.target
  /\ pc = "komari" => current = journal.target
  /\ pc \in {"save_starting", "start", "health", "commit"} => Effective = journal.target
  /\ pc = "health" => Fits(data, journal.target)
  /\ pc = "commit" => Of(data, journal.target)
  /\ pc \in {"r_release", "r_fill", "r_current", "r_komari", "r_save"} => Of(data, journal.old)
  /\ pc = "r_komari" => current = journal.old
  /\ pc = "r_save" => Effective = journal.old
  /\ pc \in OldSteps => OldInPlace

\* Where the panel is known to be stopped.
StoppedInv ==
  /\ service # "running" => run = None
  /\ pc \in {"save_stopped", "copy", "complete", "save_backed_up", "theme", "theme_in",
             "current", "komari", "save_starting", "start", "r_displace"} \cup RestoreTry
       => service = "stopped"
  /\ service # "stopped" /\ Gate =>
       Fits(data, Effective) /\ (Pending => Effective \in {journal.old, journal.target})

\* A running panel fits its data.
RunInv == service = "running" => run = Effective /\ Fits(data, run)

IInv == TypeOK /\ PhaseInv /\ PendingInv /\ AtStep /\ StoppedInv /\ RunInv


------------------------------------------------------------------------------
(* The invariant is inductive: one step per action. *)

\* The initial states: release 0 runs on its own data.
LEMMA InitInv == Init => IInv
<1> SUFFICES ASSUME Init PROVE IInv
  OBVIOUS
<1> USE UpgradeAssumption DEF Init, Versions, None
<1>1. TypeOK
  <2>1. data \in Data /\ snapshot \in Snapshots /\ journal \in Journals
    BY DEF Data, Missing, Empty, Snapshots, Journals, Phases, Final
  <2>2. current \in Versions \cup {None} /\ candidate \in Versions \cup {None} /\ run \in Versions \cup {None}
    OBVIOUS
  <2>3. pc \in Steps \cup {"idle"} /\ crashes \in 0..MaxCrashes /\ failures \in 0..MaxFailures
    OBVIOUS
  <2>4. service \in {"stopped", "wanted", "running"} /\ recovered \in {"absent", "partial", "whole"}
        /\ linked \in BOOLEAN /\ staged \subseteq Versions
    OBVIOUS
  <2>5. QED
    BY <2>1, <2>2, <2>3, <2>4 DEF TypeOK
<1>2. PhaseInv /\ PendingInv /\ AtStep /\ StoppedInv /\ RunInv
  BY DEF PhaseInv, PendingInv, AtStep, StoppedInv, RunInv, Final, Empty, Effective, Pending,
         Fits, Of, Steps, UpgradeSteps, UndoSteps, RestoreSteps, RestoreTry, OldSteps
<1>3. QED
  BY <1>1, <1>2 DEF IInv

\* The candidate is newer than the installed release, whose data is up to date.
LEMMA PreflightInv == ASSUME IInv, NEW v \in Versions, Preflight(v) PROVE IInv'
  BY UpgradeAssumption
     DEF Preflight, IInv, TypeOK, PhaseInv, PendingInv, AtStep, StoppedInv, RunInv,
         Versions, None, Phases, Final, Data, Missing, Empty, Effective, Pending, Gate,
         CoordinatorAlive, Fits, Of, OldInPlace, Steps, UpgradeSteps, UndoSteps,
         RestoreSteps, RestoreTry, OldSteps, Advance, linkVars, panelVars,
         Journals, Snapshots

\* The upgrade: each statement finds what the one before it put in place.
LEMMA UpgradeInv == ASSUME IInv, UpgradeStep PROVE IInv'
<1> USE UpgradeAssumption DEF IInv, TypeOK, PhaseInv, PendingInv, AtStep, StoppedInv, RunInv,
              Versions, None, Phases, Final, Data, Missing, Empty, Effective, Pending, Gate,
              CoordinatorAlive, Fits, Of, OldInPlace, Steps, UpgradeSteps, UndoSteps,
              RestoreSteps, RestoreTry, OldSteps, Advance, linkVars, panelVars,
              Journals, Snapshots
<1>1. CASE SavePrepared
  BY <1>1 DEF SavePrepared
<1>2. CASE StopForUpgrade
  BY <1>2 DEF StopForUpgrade, StopPanel
<1>3. CASE SaveStopped
  BY <1>3 DEF SaveStopped, Save
<1>4. CASE CopySnapshot
  BY <1>4 DEF CopySnapshot
<1>5. CASE CompleteSnapshot
  <2>1. TypeOK'
    <3>1. snapshot' \in Snapshots
      BY <1>5 DEF CompleteSnapshot
    <3>2. QED
      BY <1>5, <3>1 DEF CompleteSnapshot
  <2>2. PhaseInv'
    BY <1>5 DEF CompleteSnapshot
  <2>3. PendingInv'
    BY <1>5 DEF CompleteSnapshot
  <2>4. AtStep'
    BY <1>5 DEF CompleteSnapshot
  <2>5. StoppedInv'
    BY <1>5 DEF CompleteSnapshot
  <2>6. RunInv'
    BY <1>5 DEF CompleteSnapshot
  <2>7. QED
    BY <2>1, <2>2, <2>3, <2>4, <2>5, <2>6
<1>6. CASE SaveBackedUp
  BY <1>6 DEF SaveBackedUp, Save
<1>7. CASE NoThemeBundle
  BY <1>7 DEF NoThemeBundle
<1>8. CASE ThemeOut
  BY <1>8 DEF ThemeOut
<1>9. CASE ThemeIn
  BY <1>9 DEF ThemeIn
<1>10. CASE SwapCurrent
  BY <1>10 DEF SwapCurrent
<1>11. CASE SwapKomari
  BY <1>11 DEF SwapKomari
<1>12. CASE SaveStarting
  BY <1>12 DEF SaveStarting, Save
<1>13. CASE StartNew
  BY <1>13 DEF StartNew, StartPanel
<1>14. CASE HealthNew
  BY <1>14 DEF HealthNew, Healthy
<1>15. CASE SaveCommitted
  <2>1. TypeOK'
    <3>1. journal' \in Journals
      BY <1>15 DEF SaveCommitted
    <3>2. QED
      BY <1>15, <3>1 DEF SaveCommitted
  <2>2. PhaseInv'
    BY <1>15 DEF SaveCommitted
  <2>3. PendingInv'
    BY <1>15 DEF SaveCommitted
  <2>4. AtStep'
    BY <1>15 DEF SaveCommitted
  <2>5. StoppedInv'
    BY <1>15 DEF SaveCommitted
  <2>6. RunInv'
    BY <1>15 DEF SaveCommitted
  <2>7. QED
    BY <2>1, <2>2, <2>3, <2>4, <2>5, <2>6
<1>16. QED
  BY <1>1, <1>2, <1>3, <1>4, <1>5, <1>6, <1>7, <1>8, <1>9, <1>10, <1>11, <1>12, <1>13, <1>14, <1>15 DEF UpgradeStep

\* restore: from any unfinished journal with a complete snapshot.
LEMMA RestoreInv == ASSUME IInv, RestoreStep PROVE IInv'
<1> USE UpgradeAssumption DEF IInv, TypeOK, PhaseInv, PendingInv, AtStep, StoppedInv, RunInv,
              Versions, None, Phases, Final, Data, Missing, Empty, Effective, Pending, Gate,
              CoordinatorAlive, Fits, Of, OldInPlace, Steps, UpgradeSteps, UndoSteps,
              RestoreSteps, RestoreTry, OldSteps, Advance, linkVars, panelVars,
              Journals, Snapshots
<1>1. CASE RestoreStop
  BY <1>1 DEF RestoreStop, StopPanel
<1>2. CASE Displace
  BY <1>2 DEF Displace
<1>3. CASE CopyBack
  BY <1>3 DEF CopyBack
<1>4. CASE MakeRelease
  BY <1>4 DEF MakeRelease
<1>5. CASE FillRelease
  BY <1>5 DEF FillRelease
<1>6. CASE ReuseRelease
  BY <1>6 DEF ReuseRelease
<1>7. CASE ReleaseDiffers
  BY <1>7 DEF ReleaseDiffers
<1>8. CASE RestoreCurrent
  BY <1>8 DEF RestoreCurrent
<1>9. CASE RestoreKomari
  BY <1>9 DEF RestoreKomari
<1>10. CASE RestoreSave
  <2>1. TypeOK'
    <3>1. journal' \in Journals
      BY <1>10 DEF RestoreSave, SaveAsCoordinator
    <3>2. QED
      BY <1>10, <3>1 DEF RestoreSave, SaveAsCoordinator
  <2>2. PhaseInv'
    BY <1>10 DEF RestoreSave, SaveAsCoordinator
  <2>3. PendingInv'
    BY <1>10 DEF RestoreSave, SaveAsCoordinator
  <2>4. AtStep'
    BY <1>10 DEF RestoreSave, SaveAsCoordinator
  <2>5. StoppedInv'
    BY <1>10 DEF RestoreSave, SaveAsCoordinator
  <2>6. RunInv'
    BY <1>10 DEF RestoreSave, SaveAsCoordinator
  <2>7. QED
    BY <2>1, <2>2, <2>3, <2>4, <2>5, <2>6
<1>11. QED
  BY <1>1, <1>2, <1>3, <1>4, <1>5, <1>6, <1>7, <1>8, <1>9, <1>10 DEF RestoreStep

\* The old release is started, and the journal is closed or marked failed.
LEMMA BackInv == ASSUME IInv, BackStep PROVE IInv'
<1> USE UpgradeAssumption DEF IInv, TypeOK, PhaseInv, PendingInv, AtStep, StoppedInv, RunInv,
              Versions, None, Phases, Final, Data, Missing, Empty, Effective, Pending, Gate,
              CoordinatorAlive, Fits, Of, OldInPlace, Steps, UpgradeSteps, UndoSteps,
              RestoreSteps, RestoreTry, OldSteps, Advance, linkVars, panelVars,
              Journals, Snapshots
<1>1. CASE Undo
  BY <1>1 DEF Undo
<1>2. CASE UndoStop
  BY <1>2 DEF UndoStop, StopPanel
<1>3. CASE UndoSave
  <2>1. TypeOK'
    <3>1. journal' \in Journals
      BY <1>3 DEF UndoSave, SaveAsCoordinator
    <3>2. QED
      BY <1>3, <3>1 DEF UndoSave, SaveAsCoordinator
  <2>2. PhaseInv'
    BY <1>3 DEF UndoSave, SaveAsCoordinator
  <2>3. PendingInv'
    BY <1>3 DEF UndoSave, SaveAsCoordinator
  <2>4. AtStep'
    BY <1>3 DEF UndoSave, SaveAsCoordinator
  <2>5. StoppedInv'
    BY <1>3 DEF UndoSave, SaveAsCoordinator
  <2>6. RunInv'
    BY <1>3 DEF UndoSave, SaveAsCoordinator
  <2>7. QED
    BY <2>1, <2>2, <2>3, <2>4, <2>5, <2>6
<1>4. CASE StartOld
  BY <1>4 DEF StartOld, StartPanel
<1>5. CASE HealthOld
  BY <1>5 DEF HealthOld, Healthy
<1>6. CASE SaveRolledBack
  <2>1. TypeOK'
    <3>1. journal' \in Journals
      BY <1>6 DEF SaveRolledBack
    <3>2. QED
      BY <1>6, <3>1 DEF SaveRolledBack
  <2>2. PhaseInv'
    BY <1>6 DEF SaveRolledBack
  <2>3. PendingInv'
    BY <1>6 DEF SaveRolledBack
  <2>4. AtStep'
    BY <1>6 DEF SaveRolledBack
  <2>5. StoppedInv'
    BY <1>6 DEF SaveRolledBack
  <2>6. RunInv'
    BY <1>6 DEF SaveRolledBack
  <2>7. QED
    BY <2>1, <2>2, <2>3, <2>4, <2>5, <2>6
<1>7. CASE SaveRollbackFailed
  <2>1. TypeOK'
    <3>1. journal' \in Journals
      BY <1>7 DEF SaveRollbackFailed, Orphaned
    <3>2. QED
      BY <1>7, <3>1 DEF SaveRollbackFailed, Orphaned
  <2>2. PhaseInv'
    BY <1>7 DEF SaveRollbackFailed, Orphaned
  <2>3. PendingInv'
    BY <1>7 DEF SaveRollbackFailed, Orphaned
  <2>4. AtStep'
    BY <1>7 DEF SaveRollbackFailed, Orphaned
  <2>5. StoppedInv'
    BY <1>7 DEF SaveRollbackFailed, Orphaned
  <2>6. RunInv'
    BY <1>7 DEF SaveRollbackFailed, Orphaned
  <2>7. QED
    BY <2>1, <2>2, <2>3, <2>4, <2>5, <2>6
<1>8. QED
  BY <1>1, <1>2, <1>3, <1>4, <1>5, <1>6, <1>7 DEF BackStep

\* Recovery, faults at any step, and systemd.
FaultStep == Recover \/ Fail \/ Kill \/ HostCrash
SystemdStep == PanelCrash \/ PanelStarts \/ GateRefuses \/ PanelMigrates

\* A dead controller leaves a closed gate or whole data behind.
LEMMA FaultInv == ASSUME IInv, FaultStep PROVE IInv'
<1> USE UpgradeAssumption DEF IInv, TypeOK, PhaseInv, PendingInv, AtStep, StoppedInv, RunInv,
              Versions, None, Phases, Final, Data, Missing, Empty, Effective, Pending, Gate,
              CoordinatorAlive, Fits, Of, OldInPlace, Steps, UpgradeSteps, UndoSteps,
              RestoreSteps, RestoreTry, OldSteps, Advance, linkVars, panelVars,
              Journals, Snapshots
<1>1. CASE Recover
  BY <1>1 DEF Recover, Recoverable, KeepsOld
<1>2. CASE Fail
  BY <1>2 DEF Fail, UnitAfterFailure, Orphaned
<1>3. CASE Kill
  BY <1>3 DEF Kill, UnitAfterFailure, Orphaned
<1>4. CASE HostCrash
  BY <1>4 DEF HostCrash, Orphaned
<1>5. QED
  BY <1>1, <1>2, <1>3, <1>4 DEF FaultStep

\* The gate lets a panel through only onto data that fits it.
LEMMA SystemdInv == ASSUME IInv, SystemdStep PROVE IInv'
<1> USE UpgradeAssumption DEF IInv, TypeOK, PhaseInv, PendingInv, AtStep, StoppedInv, RunInv,
              Versions, None, Phases, Final, Data, Missing, Empty, Effective, Pending, Gate,
              CoordinatorAlive, Fits, Of, OldInPlace, Steps, UpgradeSteps, UndoSteps,
              RestoreSteps, RestoreTry, OldSteps, Advance, linkVars, panelVars,
              Journals, Snapshots
<1>1. CASE PanelCrash
  BY <1>1 DEF PanelCrash
<1>2. CASE PanelStarts
  BY <1>2 DEF PanelStarts
<1>3. CASE GateRefuses
  BY <1>3 DEF GateRefuses
<1>4. CASE PanelMigrates
  BY <1>4 DEF PanelMigrates
<1>5. QED
  BY <1>1, <1>2, <1>3, <1>4 DEF SystemdStep

\* Every step but a manual rollback keeps the invariant.
LEMMA NextInv == ASSUME ~ManualRollback, IInv, [Next]_vars PROVE IInv'
<1>1. CASE UNCHANGED vars
  BY <1>1 DEF vars, panelVars, linkVars, IInv, TypeOK, PhaseInv, PendingInv, AtStep, StoppedInv,
              RunInv, Effective, Pending, Gate, CoordinatorAlive, Fits, Of, OldInPlace
<1>2. QED
  BY <1>1, PreflightInv, UpgradeInv, RestoreInv, BackInv, FaultInv, SystemdInv
     DEF Next, Controller, FaultStep, SystemdStep, Rollback

\* The invariant holds in every reachable state.
LEMMA Inductive == ASSUME ~ManualRollback PROVE Spec => []IInv
  BY InitInv, NextInv, PTL DEF Spec

------------------------------------------------------------------------------
(* The theorems. *)

\* Every variable keeps its type, whatever dies at whatever step.
THEOREM TypeCorrect == ASSUME ~ManualRollback PROVE Spec => []TypeOK
  BY Inductive, PTL DEF IInv

\* A panel never runs on a missing, half-copied or newer data directory.
THEOREM PanelDataWhole == ASSUME ~ManualRollback PROVE Spec => []RunsOnWholeData
<1>1. IInv => RunsOnWholeData
  BY DEF IInv, TypeOK, RunInv, Fits, RunsOnWholeData, Whole, None, Versions
<1>2. QED
  BY <1>1, Inductive, PTL

\* A finished journal names the release and the data that are in place.
THEOREM JournalTrue == ASSUME ~ManualRollback PROVE Spec => []JournalHonest
<1>1. IInv => JournalHonest
  BY UpgradeAssumption
     DEF IInv, TypeOK, PendingInv, Of, JournalHonest, Whole, None, Versions, Effective, Pending
<1>2. QED
  BY <1>1, Inductive, PTL

\* Recovery never finds an unfinished journal it has to refuse.
THEOREM RecoveryPossible == ASSUME ~ManualRollback PROVE Spec => []AlwaysRecoverable
<1>1. IInv => AlwaysRecoverable
  BY DEF IInv, TypeOK, PhaseInv, PendingInv, Of, OldInPlace, AlwaysRecoverable, Whole, None,
         Versions, KeepsOld, CoordinatorAlive
<1>2. QED
  BY <1>1, Inductive, PTL

\* The journal tells the truth, and what it stands for can be restored.
THEOREM JournalIsSound == ASSUME ~ManualRollback PROVE Spec => []JournalSound
<1>1. TypeOK /\ JournalHonest /\ AlwaysRecoverable => JournalSound
  BY DEF JournalSound
<1>2. QED
  BY <1>1, TypeCorrect, JournalTrue, RecoveryPossible, PTL

\* A step that leaves the journal's transaction and the settled release as they are.
Quiet ==
  /\ journal'.old = journal.old /\ journal'.target = journal.target
  /\ Pending' <=> Pending
  /\ Pending \/ Effective' = Effective
  /\ run' \in {run, None}

\* Only the intent, the two ends of a transaction and the start of a panel are not quiet.
LEMMA QuietSteps ==
  ASSUME IInv, [Next]_vars, ~ManualRollback
  PROVE  Quiet \/ SavePrepared \/ SaveCommitted \/ SaveRolledBack \/ PanelStarts
<1> USE DEF Quiet, Effective, Pending, Final, linkVars, panelVars
<1>1. ASSUME NEW v \in Versions, Preflight(v) PROVE Quiet
  BY <1>1 DEF Preflight
<1>2. CASE UNCHANGED vars
  BY <1>2 DEF vars
<1>3. CASE UpgradeStep
  <2>1. journal \in Journals /\ PhaseInv
    BY DEF IInv, TypeOK
  <2>2. CASE SaveStopped \/ SaveBackedUp \/ SaveStarting
    BY <2>1, <2>2 DEF SaveStopped, SaveBackedUp, SaveStarting, Save, Advance, PhaseInv, Journals
  <2>3. CASE StopForUpgrade \/ CopySnapshot \/ CompleteSnapshot \/ NoThemeBundle \/ ThemeOut \/ ThemeIn
    BY <2>3 DEF StopForUpgrade, CopySnapshot, CompleteSnapshot, NoThemeBundle, ThemeOut, ThemeIn,
                StopPanel
  <2>4. CASE SwapCurrent \/ SwapKomari \/ StartNew \/ HealthNew
    BY <2>1, <2>4 DEF SwapCurrent, SwapKomari, StartNew, HealthNew, StartPanel, Advance, PhaseInv
  <2>5. QED
    BY <1>3, <2>2, <2>3, <2>4 DEF UpgradeStep
<1>4. CASE RestoreStep
  <2>1. journal \in Journals /\ PhaseInv
    BY DEF IInv, TypeOK
  <2>2. CASE RestoreSave
    BY <2>1, <2>2 DEF RestoreSave, SaveAsCoordinator, Advance, PhaseInv, Journals
  <2>3. CASE RestoreCurrent \/ RestoreKomari
    BY <2>1, <2>3 DEF RestoreCurrent, RestoreKomari, Advance, PhaseInv
  <2>4. CASE RestoreStop \/ Displace \/ CopyBack \/ MakeRelease \/ FillRelease \/ ReuseRelease \/ ReleaseDiffers
    BY <2>4 DEF RestoreStop, Displace, CopyBack, MakeRelease, FillRelease, ReuseRelease,
                ReleaseDiffers, StopPanel
  <2>5. QED
    BY <1>4, <2>2, <2>3, <2>4 DEF RestoreStep
<1>5. CASE BackStep
  <2>1. journal \in Journals /\ PhaseInv
    BY DEF IInv, TypeOK
  <2>2. CASE UndoSave \/ SaveRollbackFailed
    BY <2>1, <2>2 DEF UndoSave, SaveRollbackFailed, SaveAsCoordinator, Orphaned, Advance, PhaseInv,
                      Journals
  <2>3. CASE Undo \/ UndoStop \/ StartOld \/ HealthOld
    BY <2>1, <2>3 DEF Undo, UndoStop, StartOld, HealthOld, StopPanel, StartPanel, Advance, PhaseInv
  <2>4. QED
    BY <1>5, <2>2, <2>3 DEF BackStep
<1>6. CASE Fail \/ Kill \/ HostCrash
  <2>1. journal \in Journals
    BY DEF IInv, TypeOK
  <2>2. journal' \in {journal, Orphaned} /\ UNCHANGED linkVars /\ run' \in {run, None}
    BY <1>6 DEF Fail, Kill, HostCrash
  <2>3. QED
    BY <2>1, <2>2 DEF Orphaned, Journals
<1>7. CASE Recover \/ PanelCrash \/ GateRefuses \/ PanelMigrates
  BY <1>7 DEF Recover, PanelCrash, GateRefuses, PanelMigrates
<1>8. QED
  BY <1>1, <1>2, <1>3, <1>4, <1>5, <1>6, <1>7 DEF Next, Controller, Rollback

\* The upgrade implements UpgradePromise: an attempt commits or aborts as a whole,
\* and the panel serves the settled release or the attempted one, never another.
THEOREM PromiseKept == ASSUME ~ManualRollback PROVE Spec => KeepsPromise
<1>1. Init => Promise!PInit
  BY DEF Init, Promise!PInit, Promise!NoRelease, Pending, Final, Effective, None
<1>2. ASSUME IInv, [Next]_vars, ~ManualRollback PROVE [Promise!PNext]_(Promise!promiseVars)
  <2> USE <1>2 DEF Promise!PNext, Promise!promiseVars, Promise!NoRelease, None
  <2>1. CASE Quiet
    BY <2>1 DEF Quiet, Promise!Halt
  <2>2. CASE SavePrepared
    <3>1. ~Pending /\ candidate \in Versions /\ candidate # Effective
      <4>1. ~Pending /\ candidate > Effective /\ data.theme \in 0..Effective
        BY <2>2 DEF SavePrepared, Advance, IInv, PhaseInv, PendingInv, Of
      <4>2. candidate \in Versions \cup {None} /\ Effective \in Versions \cup {None}
        BY UpgradeAssumption DEF IInv, TypeOK, Effective, Versions
      <4>3. QED
        BY <4>1, <4>2, UpgradeAssumption DEF Versions
    <3>2. Pending' /\ journal'.old = Effective /\ journal'.target = candidate /\ run' = run
      BY <2>2 DEF SavePrepared, Pending, Final, panelVars
    <3>3. QED
      BY <3>1, <3>2 DEF Promise!Attempt
  <2>3. CASE SaveCommitted
    <3>1. Pending /\ Effective = journal.target /\ journal.target \in Versions /\ run \in {None, Effective}
      BY <2>3 DEF SaveCommitted, Advance, IInv, TypeOK, PhaseInv, PendingInv, AtStep, StoppedInv,
                  RunInv
    <3>2. ~Pending' /\ Effective' = Effective /\ run' = run
      BY <2>3 DEF SaveCommitted, Pending, Final, Effective, linkVars, panelVars, IInv, TypeOK, Journals
    <3>3. QED
      BY <3>1, <3>2 DEF Promise!Commit, Versions
  <2>4. CASE SaveRolledBack
    <3>1. Pending /\ Effective = journal.old /\ journal.target \in Versions /\ run \in {None, Effective}
      BY <2>4 DEF SaveRolledBack, Advance, IInv, TypeOK, PhaseInv, PendingInv, AtStep, OldInPlace,
                  StoppedInv, RunInv, OldSteps
    <3>2. ~Pending' /\ Effective' = Effective /\ run' = run
      BY <2>4 DEF SaveRolledBack, Pending, Final, Effective, linkVars, panelVars, IInv, TypeOK, Journals
    <3>3. QED
      BY <3>1, <3>2 DEF Promise!Abort, Versions
  <2>5. CASE PanelStarts
    <3>1. run = None /\ run' = Effective /\ Effective \in Versions
      <4>1. Effective \in Versions \cup {None} /\ Effective >= 0
        BY <2>5, UpgradeAssumption DEF PanelStarts, IInv, TypeOK, StoppedInv, Effective, Versions, Fits
      <4>2. QED
        BY <2>5, <4>1 DEF PanelStarts, IInv, StoppedInv
    <3>2. Pending => Effective \in {journal.old, journal.target}
      BY <2>5 DEF PanelStarts, IInv, StoppedInv
    <3>3. (Pending' <=> Pending) /\ Effective' = Effective /\ journal' = journal
      BY <2>5 DEF PanelStarts, Pending, Effective, linkVars
    <3>4. QED
      BY <3>1, <3>2, <3>3 DEF Promise!Serve, Versions
  <2>6. QED
    BY <2>1, <2>2, <2>3, <2>4, <2>5, QuietSteps
<1>3. QED
  BY <1>1, <1>2, Inductive, PTL DEF Spec, KeepsPromise, Promise!PSpec


\* Data, links and snapshot are only written while the panel is stopped; the panel
\* itself may migrate, and a new transaction begins with an empty snapshot.
THEOREM PanelUndisturbed == ASSUME ~ManualRollback PROVE Spec => NothingMovesUnderPanel
<1> DEFINE Still == /\ UNCHANGED linkVars
                    /\ data' = data \/ PanelMigrates
                    /\ snapshot' = snapshot \/ snapshot' = Empty
<1>1. ASSUME IInv, [Next]_vars, ~ManualRollback, service = "running" PROVE Still
  <2>1. pc \notin {"copy", "complete", "theme", "theme_in", "current", "komari", "r_displace"} \cup RestoreTry
    BY <1>1 DEF IInv, StoppedInv
  <2>2. ASSUME NEW v \in Versions, Preflight(v) PROVE Still
    BY <2>2 DEF Preflight
  <2>3. CASE UpgradeStep
    BY <2>1, <2>3 DEF UpgradeStep, SavePrepared, StopForUpgrade, SaveStopped, CopySnapshot,
       CompleteSnapshot, SaveBackedUp, NoThemeBundle, ThemeOut, ThemeIn, SwapCurrent, SwapKomari,
       SaveStarting, StartNew, HealthNew, SaveCommitted, Advance, linkVars
  <2>4. CASE RestoreStep
    BY <2>1, <2>4 DEF RestoreStep, RestoreStop, Displace, CopyBack, MakeRelease, FillRelease,
       ReuseRelease, ReleaseDiffers, RestoreCurrent, RestoreKomari, RestoreSave, Advance, RestoreTry
  <2>5. CASE BackStep
    <3>1. CASE Undo
      <4>1. Effective = journal.old /\ journal.old < journal.target
            /\ journal.old \in Versions /\ journal.target \in Versions
        BY <1>1, <3>1 DEF Undo, Advance, IInv, PhaseInv, PendingInv, OldInPlace, UndoSteps
      <4>2. linked => current # journal.target
        BY <4>1, UpgradeAssumption DEF Effective, Versions
      <4>3. QED
        BY <3>1, <4>2 DEF Undo, linkVars
    <3>2. QED
      BY <2>5, <3>1 DEF BackStep, UndoStop, UndoSave, StartOld, HealthOld, SaveRolledBack,
         SaveRollbackFailed
  <2>6. CASE Recover \/ Fail \/ Kill \/ HostCrash
    BY <2>6 DEF Recover, Fail, Kill, HostCrash
  <2>7. CASE PanelCrash \/ PanelStarts \/ GateRefuses \/ PanelMigrates
    BY <2>7 DEF PanelCrash, PanelStarts, GateRefuses, PanelMigrates
  <2>8. CASE UNCHANGED vars
    BY <2>8 DEF vars
  <2>9. QED
    BY <1>1, <2>2, <2>3, <2>4, <2>5, <2>6, <2>7, <2>8 DEF Next, Controller, Rollback
<1>2. ASSUME IInv, [Next]_vars, ~ManualRollback
      PROVE  [service = "running" => /\ UNCHANGED linkVars
                                     /\ data' = data \/ PanelMigrates
                                     /\ snapshot' = snapshot \/ snapshot' = Empty]_vars
  <2> HIDE DEF Still
  <2>1. service = "running" => Still
    BY <1>1, <1>2
  <2>2. QED
    BY <2>1 DEF Still
<1> HIDE DEF Still
<1>3. QED
  BY <1>2, Inductive, PTL DEF Spec, NothingMovesUnderPanel

------------------------------------------------------------------------------
(* A rollback that succeeds. The theorems above exclude a manual rollback, which *)
(* is not journaled: the gate may be open while the data is not there. What a    *)
(* successful rollback brings back does not depend on the gate, and needs an     *)
(* invariant of its own, which also holds with manual rollbacks.                 *)

\* The theme has been moved out of the data and its successor not yet in.
ThemeIsOut == data.theme = None /\ data.schema # None

\* What is in place when a rollback has succeeded.
Restored ==
  /\ Effective = snapshot.bin /\ data.theme = snapshot.data.theme
  /\ data.schema \in {snapshot.data.schema, snapshot.bin}

\* A complete snapshot has its theme, and is there wherever it is relied upon.
SnapshotTaken ==
  /\ snapshot.complete => Whole(snapshot.data)
  /\ pc = "complete" /\ snapshot.data.schema # None => snapshot.data.theme # None
  /\ pc \in UndoSteps \cup {"stop", "save_stopped", "copy", "complete"} => ~snapshot.complete
  /\ pc \in RestoreSteps \cup RestoreTry \cup {"save_backed_up", "theme", "theme_in", "current", "komari",
            "save_starting", "start", "health", "commit"} => snapshot.complete

\* Where the theme is out the journal is open, so that no new upgrade copies the data.
ThemeReturns ==
  /\ pc = "prepare" => ~Pending /\ candidate # None
  /\ pc \in UpgradeSteps => journal.target # None
  /\ pc \in {"theme", "theme_in"} => journal.phase = "backed_up"
  /\ ThemeIsOut => /\ snapshot.complete /\ journal.phase = "backed_up"
                   /\ pc \in {"theme_in", "idle"} \cup RestoreSteps

\* restore() works under a stopped panel, from the snapshot's data to its release.
RestoreInOrder ==
  /\ pc \in RestoreTry \cup {"r_displace"} => service = "stopped"
  /\ pc \in RestoreTry \ {"r_copy"} => data = snapshot.data
  /\ pc = "r_komari" => current = snapshot.bin
  /\ pc = "r_save" => Effective = snapshot.bin

\* From then on only a panel of the snapshot's release runs.
OldComesBack ==
  snapshot.complete /\ pc \in OldSteps =>
    /\ Restored
    /\ pc = "old_start" => service = "stopped"
    /\ service = "running" => run = snapshot.bin

RbInv == TypeOK /\ SnapshotTaken /\ ThemeReturns /\ RestoreInOrder /\ OldComesBack

\* The initial states: there is no snapshot and nothing to restore.
LEMMA RbInit == Init => RbInv
<1> SUFFICES ASSUME Init PROVE RbInv
  OBVIOUS
<1>1. TypeOK
  BY InitInv DEF IInv
<1>2. SnapshotTaken /\ ThemeReturns /\ RestoreInOrder /\ OldComesBack
  BY DEF Init, SnapshotTaken, ThemeReturns, ThemeIsOut, RestoreInOrder, OldComesBack, Empty, None,
         UpgradeSteps, UndoSteps, RestoreSteps, RestoreTry, OldSteps
<1>3. QED
  BY <1>1, <1>2 DEF RbInv

\* The steps of an upgrade take a whole snapshot before they touch anything.
LEMMA RbUpgrade == ASSUME RbInv, UpgradeStep PROVE RbInv'
<1> USE UpgradeAssumption DEF RbInv, SnapshotTaken, ThemeReturns, ThemeIsOut, RestoreInOrder, OldComesBack, Restored,
              TypeOK, Versions, None, Phases, Final, Data, Missing, Empty, Effective, Pending, Whole, Steps,
              UpgradeSteps, UndoSteps, RestoreSteps, RestoreTry, OldSteps, Advance, linkVars,
              panelVars, Journals, Snapshots
<1>1. CASE SavePrepared
  BY <1>1 DEF SavePrepared
<1>2. CASE StopForUpgrade
  BY <1>2 DEF StopForUpgrade, StopPanel
<1>3. CASE SaveStopped
  BY <1>3 DEF SaveStopped, Save
<1>4. CASE CopySnapshot
  BY <1>4 DEF CopySnapshot
<1>5. CASE CompleteSnapshot
  <2>1. TypeOK'
    <3>1. snapshot' \in Snapshots
      BY <1>5 DEF CompleteSnapshot
    <3>2. QED
      BY <1>5, <3>1 DEF CompleteSnapshot
  <2>2. SnapshotTaken'
    BY <1>5 DEF CompleteSnapshot
  <2>3. ThemeReturns'
    BY <1>5 DEF CompleteSnapshot
  <2>4. RestoreInOrder'
    BY <1>5 DEF CompleteSnapshot
  <2>5. OldComesBack'
    BY <1>5 DEF CompleteSnapshot
  <2>6. QED
    BY <2>1, <2>2, <2>3, <2>4, <2>5
<1>6. CASE SaveBackedUp
  BY <1>6 DEF SaveBackedUp, Save
<1>7. CASE NoThemeBundle
  BY <1>7 DEF NoThemeBundle
<1>8. CASE ThemeOut
  BY <1>8 DEF ThemeOut
<1>9. CASE ThemeIn
  BY <1>9 DEF ThemeIn
<1>10. CASE SwapCurrent
  BY <1>10 DEF SwapCurrent
<1>11. CASE SwapKomari
  BY <1>11 DEF SwapKomari
<1>12. CASE SaveStarting
  BY <1>12 DEF SaveStarting, Save
<1>13. CASE StartNew
  BY <1>13 DEF StartNew, StartPanel
<1>14. CASE HealthNew
  BY <1>14 DEF HealthNew, Healthy
<1>15. CASE SaveCommitted
  <2>1. TypeOK'
    <3>1. journal' \in Journals
      BY <1>15 DEF SaveCommitted
    <3>2. QED
      BY <1>15, <3>1 DEF SaveCommitted
  <2>2. SnapshotTaken'
    BY <1>15 DEF SaveCommitted
  <2>3. ThemeReturns'
    BY <1>15 DEF SaveCommitted
  <2>4. RestoreInOrder'
    BY <1>15 DEF SaveCommitted
  <2>5. OldComesBack'
    BY <1>15 DEF SaveCommitted
  <2>6. QED
    BY <2>1, <2>2, <2>3, <2>4, <2>5
<1>16. QED
  BY <1>1, <1>2, <1>3, <1>4, <1>5, <1>6, <1>7, <1>8, <1>9, <1>10, <1>11, <1>12, <1>13, <1>14, <1>15 DEF UpgradeStep

\* The steps of restore() bring back data and release under a stopped panel.
LEMMA RbRestore == ASSUME RbInv, RestoreStep PROVE RbInv'
<1> USE UpgradeAssumption DEF RbInv, SnapshotTaken, ThemeReturns, ThemeIsOut, RestoreInOrder, OldComesBack, Restored,
              TypeOK, Versions, None, Phases, Final, Data, Missing, Empty, Effective, Pending, Whole, Steps,
              UpgradeSteps, UndoSteps, RestoreSteps, RestoreTry, OldSteps, Advance, linkVars,
              panelVars, Journals, Snapshots
<1>1. CASE RestoreStop
  BY <1>1 DEF RestoreStop, StopPanel
<1>2. CASE Displace
  BY <1>2 DEF Displace
<1>3. CASE CopyBack
  BY <1>3 DEF CopyBack
<1>4. CASE MakeRelease
  BY <1>4 DEF MakeRelease
<1>5. CASE FillRelease
  BY <1>5 DEF FillRelease
<1>6. CASE ReuseRelease
  BY <1>6 DEF ReuseRelease
<1>7. CASE ReleaseDiffers
  BY <1>7 DEF ReleaseDiffers
<1>8. CASE RestoreCurrent
  BY <1>8 DEF RestoreCurrent
<1>9. CASE RestoreKomari
  BY <1>9 DEF RestoreKomari
<1>10. CASE RestoreSave
  <2>1. TypeOK'
    <3>1. journal' \in Journals
      BY <1>10 DEF RestoreSave, SaveAsCoordinator
    <3>2. QED
      BY <1>10, <3>1 DEF RestoreSave, SaveAsCoordinator
  <2>2. SnapshotTaken'
    BY <1>10 DEF RestoreSave, SaveAsCoordinator
  <2>3. ThemeReturns'
    BY <1>10 DEF RestoreSave, SaveAsCoordinator
  <2>4. RestoreInOrder'
    BY <1>10 DEF RestoreSave, SaveAsCoordinator
  <2>5. OldComesBack'
    BY <1>10 DEF RestoreSave, SaveAsCoordinator
  <2>6. QED
    BY <2>1, <2>2, <2>3, <2>4, <2>5
<1>11. QED
  BY <1>1, <1>2, <1>3, <1>4, <1>5, <1>6, <1>7, <1>8, <1>9, <1>10 DEF RestoreStep

\* The ways back end with a panel of the old release.
LEMMA RbBack == ASSUME RbInv, BackStep PROVE RbInv'
<1> USE UpgradeAssumption DEF RbInv, SnapshotTaken, ThemeReturns, ThemeIsOut, RestoreInOrder, OldComesBack, Restored,
              TypeOK, Versions, None, Phases, Final, Data, Missing, Empty, Effective, Pending, Whole, Steps,
              UpgradeSteps, UndoSteps, RestoreSteps, RestoreTry, OldSteps, Advance, linkVars,
              panelVars, Journals, Snapshots
<1>1. CASE Undo
  BY <1>1 DEF Undo
<1>2. CASE UndoStop
  BY <1>2 DEF UndoStop, StopPanel
<1>3. CASE UndoSave
  <2>1. TypeOK'
    <3>1. journal' \in Journals
      BY <1>3 DEF UndoSave, SaveAsCoordinator
    <3>2. QED
      BY <1>3, <3>1 DEF UndoSave, SaveAsCoordinator
  <2>2. SnapshotTaken'
    BY <1>3 DEF UndoSave, SaveAsCoordinator
  <2>3. ThemeReturns'
    BY <1>3 DEF UndoSave, SaveAsCoordinator
  <2>4. RestoreInOrder'
    BY <1>3 DEF UndoSave, SaveAsCoordinator
  <2>5. OldComesBack'
    BY <1>3 DEF UndoSave, SaveAsCoordinator
  <2>6. QED
    BY <2>1, <2>2, <2>3, <2>4, <2>5
<1>4. CASE StartOld
  BY <1>4 DEF StartOld, StartPanel
<1>5. CASE HealthOld
  BY <1>5 DEF HealthOld, Healthy
<1>6. CASE SaveRolledBack
  <2>1. TypeOK'
    <3>1. journal' \in Journals
      BY <1>6 DEF SaveRolledBack
    <3>2. QED
      BY <1>6, <3>1 DEF SaveRolledBack
  <2>2. SnapshotTaken'
    BY <1>6 DEF SaveRolledBack
  <2>3. ThemeReturns'
    BY <1>6 DEF SaveRolledBack
  <2>4. RestoreInOrder'
    BY <1>6 DEF SaveRolledBack
  <2>5. OldComesBack'
    BY <1>6 DEF SaveRolledBack
  <2>6. QED
    BY <2>1, <2>2, <2>3, <2>4, <2>5
<1>7. CASE SaveRollbackFailed
  <2>1. TypeOK'
    <3>1. journal' \in Journals
      BY <1>7 DEF SaveRollbackFailed, Orphaned
    <3>2. QED
      BY <1>7, <3>1 DEF SaveRollbackFailed, Orphaned
  <2>2. SnapshotTaken'
    BY <1>7 DEF SaveRollbackFailed, Orphaned
  <2>3. ThemeReturns'
    BY <1>7 DEF SaveRollbackFailed, Orphaned
  <2>4. RestoreInOrder'
    BY <1>7 DEF SaveRollbackFailed, Orphaned
  <2>5. OldComesBack'
    BY <1>7 DEF SaveRollbackFailed, Orphaned
  <2>6. QED
    BY <2>1, <2>2, <2>3, <2>4, <2>5
<1>8. QED
  BY <1>1, <1>2, <1>3, <1>4, <1>5, <1>6, <1>7 DEF BackStep

\* Recovery and faults: what was restored is restored again.
LEMMA RbFault == ASSUME RbInv, FaultStep PROVE RbInv'
<1> USE UpgradeAssumption DEF RbInv, SnapshotTaken, ThemeReturns, ThemeIsOut, RestoreInOrder, OldComesBack, Restored,
              TypeOK, Versions, None, Phases, Final, Data, Missing, Empty, Effective, Pending, Whole, Steps,
              UpgradeSteps, UndoSteps, RestoreSteps, RestoreTry, OldSteps, Advance, linkVars,
              panelVars, Journals, Snapshots
<1>1. CASE Recover
  BY <1>1 DEF Recover, Recoverable, KeepsOld
<1>2. CASE Fail
  BY <1>2 DEF Fail, UnitAfterFailure, Orphaned
<1>3. CASE Kill
  BY <1>3 DEF Kill, UnitAfterFailure, Orphaned
<1>4. CASE HostCrash
  BY <1>4 DEF HostCrash, Orphaned
<1>5. QED
  BY <1>1, <1>2, <1>3, <1>4 DEF FaultStep

\* systemd starts what root/komari is, and a panel migrates to its own schema.
LEMMA RbSystemd == ASSUME RbInv, SystemdStep PROVE RbInv'
<1> USE UpgradeAssumption DEF RbInv, SnapshotTaken, ThemeReturns, ThemeIsOut, RestoreInOrder, OldComesBack, Restored,
              TypeOK, Versions, None, Phases, Final, Data, Missing, Empty, Effective, Pending, Whole, Steps,
              UpgradeSteps, UndoSteps, RestoreSteps, RestoreTry, OldSteps, Advance, linkVars,
              panelVars, Journals, Snapshots
<1>1. CASE PanelCrash
  BY <1>1 DEF PanelCrash
<1>2. CASE PanelStarts
  <2>1. TypeOK'
    <3>1. run' \in Versions \cup {None}
      BY <1>2 DEF PanelStarts
    <3>2. QED
      BY <1>2, <3>1 DEF PanelStarts
  <2>2. SnapshotTaken'
    BY <1>2 DEF PanelStarts
  <2>3. ThemeReturns'
    BY <1>2 DEF PanelStarts
  <2>4. RestoreInOrder'
    BY <1>2 DEF PanelStarts
  <2>5. OldComesBack'
    BY <1>2 DEF PanelStarts
  <2>6. QED
    BY <2>1, <2>2, <2>3, <2>4, <2>5
<1>3. CASE GateRefuses
  BY <1>3 DEF GateRefuses
<1>4. CASE PanelMigrates
  BY <1>4 DEF PanelMigrates
<1>5. QED
  BY <1>1, <1>2, <1>3, <1>4 DEF SystemdStep

\* The operator's rollback begins like a recovery, an upgrade leaves everything alone.
LEMMA RbOther ==
  ASSUME RbInv, Rollback \/ \E v \in Versions : Preflight(v)
  PROVE  RbInv'
<1> USE UpgradeAssumption DEF RbInv, SnapshotTaken, ThemeReturns, ThemeIsOut, RestoreInOrder, OldComesBack, Restored,
              TypeOK, Versions, None, Phases, Final, Data, Missing, Empty, Effective, Pending, Whole, Steps,
              UpgradeSteps, UndoSteps, RestoreSteps, RestoreTry, OldSteps, Advance, linkVars,
              panelVars, Journals, Snapshots
<1>1. CASE Rollback
  BY <1>1 DEF Rollback
<1>2. ASSUME NEW v \in Versions, Preflight(v) PROVE RbInv'
  BY <1>2 DEF Preflight
<1>3. QED
  BY <1>1, <1>2

\* Every step keeps the invariant, a manual rollback too.
LEMMA RbNext == ASSUME RbInv, [Next]_vars PROVE RbInv'
<1>1. CASE UNCHANGED vars
  BY <1>1 DEF vars, panelVars, linkVars, RbInv, SnapshotTaken, ThemeReturns, ThemeIsOut, RestoreInOrder, OldComesBack, Restored,
              TypeOK, Effective, Pending
<1>2. QED
  BY <1>1, RbUpgrade, RbRestore, RbBack, RbFault, RbSystemd, RbOther
     DEF Next, Controller, FaultStep, SystemdStep

\* A rollback that reports success has brought back the snapshot: its release, its
\* theme and its database, which that release alone may have migrated since. With any
\* number of releases, upgrades, crashes and exceptions, by recovery or by hand.
THEOREM RollbackIsTrue == Spec => RollbackRestores
<1>1. ASSUME RbInv, [Next]_vars
      PROVE  [(journal'.phase = "rolled_back" /\ pc = "old_done" /\ snapshot.complete) =>
                /\ Effective = snapshot.bin /\ data.theme = snapshot.data.theme
                /\ data.schema \in {snapshot.data.schema, snapshot.bin}]_vars
  BY <1>1 DEF RbInv, OldComesBack, Restored, OldSteps
<1>2. QED
  BY <1>1, RbInit, RbNext, PTL DEF Spec, RollbackRestores

=============================================================================
