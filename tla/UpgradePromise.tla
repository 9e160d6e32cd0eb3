---------------------------- MODULE UpgradePromise ----------------------------
(***************************************************************************)
(* What an upgrade of a native installation promises, with no journal,     *)
(* snapshot or controller in it: one release is installed, an attempt to   *)
(* install another ends in a commit or in an abort that leaves the         *)
(* installed release in place, and the panel only ever serves the          *)
(* installed release or the one being attempted.                           *)
(* SafeUpgrade is shown to implement it.                                   *)
(***************************************************************************)
EXTENDS Integers

CONSTANT Releases   \* the releases that exist

VARIABLES
  installed,   \* the release the host is settled on
  attempt,     \* the release an unfinished upgrade is trying, or none
  serving      \* the release the running panel is, or none

promiseVars == <<installed, attempt, serving>>

NoRelease == -1

PInit == installed = 0 /\ attempt = NoRelease /\ serving = 0

Attempt(v) ==
  /\ attempt = NoRelease /\ v # installed
  /\ attempt' = v
  /\ UNCHANGED <<installed, serving>>

\* The new release is kept; no panel of another release is serving.
Commit ==
  /\ attempt # NoRelease /\ serving \in {NoRelease, attempt}
  /\ installed' = attempt /\ attempt' = NoRelease
  /\ UNCHANGED serving

\* The old release is kept; the attempted release is not serving.
Abort ==
  /\ attempt # NoRelease /\ serving \in {NoRelease, installed}
  /\ attempt' = NoRelease
  /\ UNCHANGED <<installed, serving>>

Serve(v) ==
  /\ serving = NoRelease /\ v \in {installed, attempt} \ {NoRelease}
  /\ serving' = v
  /\ UNCHANGED <<installed, attempt>>

Halt == serving # NoRelease /\ serving' = NoRelease /\ UNCHANGED <<installed, attempt>>

PNext == Commit \/ Abort \/ Halt \/ \E v \in Releases : Attempt(v) \/ Serve(v)

PSpec == PInit /\ [][PNext]_promiseVars
==============================================================================
