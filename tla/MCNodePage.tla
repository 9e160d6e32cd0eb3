---------------------------- MODULE MCNodePage ----------------------------
(***************************************************************************)
(* The node page for model checking: a behaviour is one of the table, or   *)
(* one of a dialog of its rows, which is modal.                            *)
(***************************************************************************)
EXTENDS NodeTable, NodeDialogs

VARIABLE part

vars == <<part, tvars, dvars>>

Init == part \in {"table", "dialogs"} /\ TableInit /\ DialogInit

Next ==
  \/ part = "table" /\ TableNext /\ UNCHANGED <<part, dvars>>
  \/ part = "dialogs" /\ DialogNext /\ UNCHANGED <<part, tvars>>

(* In a behaviour of the table no dialog ever opens, so that the fairness  *)
(* of the dialogs asks for nothing; the interval is the table's alone.     *)
Spec ==
  /\ Init /\ [][Next]_vars
  /\ WF_vars(part = "table" /\ Refresh /\ UNCHANGED <<part, dvars>>)
  /\ Answering /\ DialogFairness
=============================================================================
