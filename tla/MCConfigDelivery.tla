-------------------------- MODULE MCConfigDelivery --------------------------
(***************************************************************************)
(* ConfigDelivery for model checking.  A behaviour stays in one of three   *)
(* slices:                                                                 *)
(*                                                                         *)
(*   - one request with everything that may go wrong over both links; an   *)
(*     application fails half way only where nothing else goes wrong, and  *)
(*     fails at all only while no long-poll waits;                         *)
(*   - a configuration saved beside what the Agent reports, or beside a    *)
(*     save of what it started with, over a WebSocket;                     *)
(*   - a save of what the Agent started with, while a second upload that   *)
(*     reports it is on its way and is overtaken by the first.             *)
(*                                                                         *)
(* The second upload is there in the third slice only, where it may hang,  *)
(* so that nothing is asked of it.                                         *)
(***************************************************************************)
EXTENDS ConfigDelivery

First == CHOOSE h \in Admins : TRUE
Main  == CHOOSE u \in Uploads : TRUE
Alone == \A u \in Uploads \ {Main} : stage[u] = "idle"
OneRequest == ops <= 1 /\ \A h \in Admins \ {First} : step[h] = "idle"

SingleRequest ==
  /\ OneRequest /\ Alone
  /\ faults > 0 => relay = (cfg.body \in Hermes)
  /\ link = "post" => pending = NoResult \/ pending.status = "applied"

TwoSaves ==
  /\ Alone
  /\ issued[1] = StartBody /\ issued[2] \notin {StartBody, NoBody} /\ issued[3] = NoBody
  /\ link = "ws" /\ faults = 0
  /\ row.status # "failed" /\ (pending = NoResult \/ pending.status = "applied")

TwoUploads ==
  /\ OneRequest
  /\ issued[1] \notin {StartBody, NoBody} /\ issued[2] = StartBody
  /\ link = "ws" /\ push = "idle" /\ faults = 0
  /\ \A u \in Uploads \ {Main} :
       state[u] = Startup /\ stage[u] \in {"idle", "build", "adopt", "complete"}

SlicedSpec ==
  /\ Init /\ [][Next /\ (SingleRequest \/ TwoSaves \/ TwoUploads)']_vars
  /\ ServingFairness /\ UploadFairness(Main)
=============================================================================
