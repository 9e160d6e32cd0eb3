---------------------------- MODULE SessionPromise ----------------------------
(***************************************************************************)
(* What a tab of the administrator's pages promises about private data:    *)
(* it holds data of the session it is in and of no earlier one, and when a *)
(* session ends everything it holds of it is gone in the same step.        *)
(* AdminSession is shown to implement it.                                  *)
(***************************************************************************)
EXTENDS Integers

VARIABLES
  session,   \* the session the tab is in, numbered
  held       \* the sessions that what the tab holds belongs to

sessionVars == <<session, held>>

SInit == session = 0 /\ held = {}

Hold == held' = held \cup {session} /\ UNCHANGED session

Drop == held' \in SUBSET held /\ UNCHANGED session

End == session' = session + 1 /\ held' = {}

SNext == Hold \/ Drop \/ End

SSpec == SInit /\ [][SNext]_sessionVars
=============================================================================
