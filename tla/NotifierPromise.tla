--------------------------- MODULE NotifierPromise ---------------------------
(***************************************************************************)
(* What the offline notifier promises an operator about one node, with no  *)
(* connection, goroutine or timer in it: the node is unknown, up or down,  *)
(* an offline message takes it down once, an online message brings it back *)
(* once, and neither is repeated until the other has happened.             *)
(* AgentPresence is shown to implement it.                                 *)
(***************************************************************************)

VARIABLES
  status,   \* what the notifier holds the node to be
  told      \* the last message handed to the senders

promiseVars == <<status, told>>

PInit == status = "unknown" /\ told = "nothing"

\* The first connection after the panel starts (or after the node was deleted) is silent.
Learn == status = "unknown" /\ status' = "up" /\ UNCHANGED told

GoOffline == status = "up" /\ status' = "down" /\ told' = "offline"

\* The return is recorded even while notifications are switched off.
GoOnline == status = "down" /\ status' = "up" /\ told' \in {told, "online"}

\* Deleting the node drops what was known of it.
Forget == status' = "unknown" /\ UNCHANGED told

PNext == Learn \/ GoOffline \/ GoOnline \/ Forget

PSpec == PInit /\ [][PNext]_promiseVars
==============================================================================
