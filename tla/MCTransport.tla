---------------------------- MODULE MCTransport ----------------------------
(***************************************************************************)
(* The two ways a page reaches the panel besides single requests, for      *)
(* model checking: a behaviour is one of the RPC client, or one of an      *)
(* archive's upload.  They share no state.                                 *)
(***************************************************************************)
EXTENDS ArchiveUpload, Rpc2Client

VARIABLE way

vars == <<way, uvars, cvars>>

Init == way \in {"rpc", "upload"} /\ UploadInit /\ ClientInit

Next ==
  \/ way = "rpc" /\ ClientNext /\ UNCHANGED <<way, uvars>>
  \/ way = "upload" /\ UploadNext /\ UNCHANGED <<way, cvars>>

(* No upload was begun and no client mounted: what does not run owes       *)
(* nothing.                                                                *)
Spec == Init /\ [][Next]_vars /\ UploadFairness /\ ClientFairness
=============================================================================
