--------------------------- MODULE ConfigDelivery ---------------------------
(***************************************************************************)
(* Delivery of the runtime configuration to the Agent of ONE node:         *)
(*                                                                         *)
(*   - the panel's database: the deployment profile with its revision and  *)
(*     delivery status, and the node's traffic reset day, which a second   *)
(*     form (the billing editor) changes without a revision;               *)
(*   - the administrator's requests, each a handler of several steps;      *)
(*   - the event queue, the WebSocket and the long-poll that carry events; *)
(*   - the Agent, which applies a revision once, remembers the result and  *)
(*     uploads it with the configuration it runs;                          *)
(*   - the upload's handler in the panel, whose answer carries the         *)
(*     configuration again.                                                *)
(*                                                                         *)
(* A step is one database statement or transaction, one critical section   *)
(* or one message.  A configuration is a body (every versioned setting but *)
(* the reset day, compared only for equality) and a day.  The queue's      *)
(* other methods, revision 2^64 and clearing the day are left out, and so  *)
(* are the network statistics that an application sets up: like the Hermes *)
(* relay they may be left half way by a failure, and nothing here reads    *)
(* them.                                                                   *)
(***************************************************************************)
EXTENDS Integers, FiniteSets, Sequences

CONSTANTS
  Admins,    \* admin requests served at the same time
  Uploads,   \* basic-info uploads in flight at the same time
  Bodies,    \* the bodies an administrator may save
  Hermes,    \* those that enable AI monitoring
  NoBody,    \* no profile row, or a message that carries only the day
  Days,      \* traffic reset days, 0 for none
  StartBody, \* what the Agent's command line and file configure ...
  StartDay,  \* ... and the day among it
  Links,     \* ways to reach the panel that the node's network lets through
  MaxOps,    \* bound: admin requests
  MaxFaults, \* bound: lost connections and messages, restarts
  MayFail,   \* TRUE: the Agent may fail to apply a configuration
  MayEdit    \* TRUE: the billing editor is used

ASSUME DeliveryAssumption ==
  /\ NoBody \notin Bodies /\ Hermes \subseteq Bodies
  /\ Days \subseteq Nat
  /\ StartBody \in Bodies /\ StartDay \in Days
  /\ Links \subseteq {"ws", "post"}
  /\ MaxOps \in Nat /\ MaxFaults \in Nat
  /\ MayFail \in BOOLEAN /\ MayEdit \in BOOLEAN

NoDay   == -1
Startup == [body |-> StartBody, day |-> StartDay]

VARIABLES
  day,       \* clients.traffic_reset_day
  row,       \* the profile: revision, body, delivery status
  queue,     \* the node's config event in v2EventQueues, if any
  link,      \* how the Agent reaches the panel: not, WebSocket, long-poll
  wire,      \* events on their way to the Agent, in order
  step,      \* where each admin request is
  order,     \* the configuration it dispatches
  push,      \* where pushQueuedV2Events of the newest connection is
  pushed,    \* the event it has taken
  cfg,       \* Agent: runtimeconfig, the configuration in use
  relay,     \* Agent: the Hermes helper's control.json says enabled
  processed, \* Agent: processedConfigRevision
  applied,   \* Agent: appliedConfigRevision
  pending,   \* Agent: pendingConfigResult
  seen,      \* Agent: v2SeenEvents
  acks,      \* Agent: v2AckEventIDs
  stage,     \* where each upload is
  awaited,   \* the Agent still waits for its response
  result,    \* the result it carries
  state,     \* the configuration it reports
  answer,    \* the configuration its response carries
  ops,       \* admin requests so far; the number of one identifies its event
  faults,    \* faults so far
  issued,    \* history: the body saved under each revision
  torn,      \* history: revisions put into an answer with an earlier body
  overtaken  \* history: revisions shown as applied on an overtaken report

panelVars  == <<day, row>>
wireVars   == <<queue, link, wire>>
adminVars  == <<step, order>>
pushVars   == <<push, pushed>>
agentVars  == <<cfg, relay, processed, applied, pending>>
eventVars  == <<seen, acks>>
uploadVars == <<stage, awaited, result, state, answer>>
boundVars  == <<ops, faults, issued, torn, overtaken>>
histVars   == <<torn, overtaken>>
vars == <<panelVars, wireVars, adminVars, pushVars, agentVars, eventVars,
          uploadVars, boundVars>>

MaxRev   == MaxOps + 1
Revs     == 0..MaxRev
IDs      == 0..MaxOps
Statuses == {"none", "saved", "sent", "applied", "failed"}
Finished == {"applied", "failed"}
Configs  == [body : Bodies, day : Days]
Rows     == [rev : Revs, body : Bodies \cup {NoBody}, status : Statuses]
Messages == [id : IDs, rev : Revs, body : Bodies \cup {NoBody},
             day : Days \cup {NoDay}]
Results  == [rev : Revs, id : IDs, status : Finished, hermes : BOOLEAN]

NoRow     == [rev |-> 0, body |-> NoBody, status |-> "none"]
NoMessage == [id |-> 0, rev |-> 0, body |-> NoBody, day |-> NoDay]
NoResult  == [rev |-> 0, id |-> 0, status |-> "failed", hermes |-> FALSE]

\* A node without a profile, or with one older than delivery tracking.
Init ==
  /\ \/ row = NoRow /\ day \in Days \cup {NoDay}
     \/ row \in [rev : {0}, body : Bodies, status : {"none"}] /\ day \in Days
  /\ queue = {} /\ link = "none" /\ wire = <<>>
  /\ step = [h \in Admins |-> "idle"]
  /\ order = [h \in Admins |-> NoMessage]
  /\ push = "idle" /\ pushed = NoMessage
  /\ cfg = Startup /\ relay = (StartBody \in Hermes)
  /\ processed = 0 /\ applied = 0 /\ pending = NoResult
  /\ seen = {} /\ acks = {}
  /\ stage = [u \in Uploads |-> "idle"]
  /\ awaited = [u \in Uploads |-> FALSE]
  /\ result = [u \in Uploads |-> NoResult]
  /\ state = [u \in Uploads |-> Startup]
  /\ answer = [u \in Uploads |-> NoMessage]
  /\ ops = 0 /\ faults = 0
  /\ issued = [r \in 1..MaxRev |-> NoBody]
  /\ torn = {} /\ overtaken = {}

Fault == faults < MaxFaults /\ faults' = faults + 1

Without(events, ids) == {e \in events : e.id \notin ids}

-----------------------------------------------------------------------------
(* The administrator *)

NewOp(h) ==
  /\ step[h] = "idle" /\ ops < MaxOps
  /\ ops' = ops + 1
  /\ UNCHANGED <<faults, wireVars, pushVars, agentVars, eventVars, uploadVars,
                 histVars>>

\* The handler returns; its local variable is forgotten.
Return(h) ==
  /\ step' = [step EXCEPT ![h] = "idle"]
  /\ order' = [order EXCEPT ![h] = NoMessage]

\* A save needs a new revision unless the Agent already has, or is already
\* being sent, the same configuration.
RuntimeChanged(b, d) ==
  \/ row.body = NoBody
  \/ row.body # b \/ day # d
  \/ row.status = "failed"

\* Mutant: a new configuration keeps the revision of the old one.
SameRevision == IF row.rev = 0 THEN 1 ELSE row.rev

NewRevision == row.rev + 1

\* SaveDeploymentProfileForDispatch: one transaction.
SaveProfile(h, b, d) ==
  /\ NewOp(h)
  /\ day' = d
  /\ \/ /\ RuntimeChanged(b, d)
        /\ row' = [rev |-> NewRevision, body |-> b, status |-> "saved"]
        /\ issued' = [issued EXCEPT ![NewRevision] = b]
        /\ step' = [step EXCEPT ![h] = "dispatch"]
        /\ order' = [order EXCEPT ![h] =
              [id |-> ops + 1, rev |-> NewRevision, body |-> b, day |-> d]]
     \/ /\ ~RuntimeChanged(b, d)
        /\ UNCHANGED <<row, issued, step, order>>

\* DispatchV2Config up to the queue: the only config event left is the newest
\* to arrive.  A node is known to speak v2 only shortly after its connection is.
Enqueue(h) ==
  /\ step[h] = "dispatch"
  /\ \/ /\ link = "none" \/ push = "take"
        /\ Return(h) /\ UNCHANGED queue
     \/ /\ link # "none"
        /\ step' = [step EXCEPT ![h] = "write"]
        /\ queue' = {order[h]}
        /\ UNCHANGED order
  /\ UNCHANGED <<panelVars, link, wire, pushVars, agentVars, eventVars,
                 uploadVars, boundVars>>

\* DispatchV2Config: the event is also written to the connection.
WriteConfig(h) ==
  /\ step[h] = "write"
  /\ IF link = "ws"
     THEN /\ wire' = Append(wire, order[h])
          /\ step' = [step EXCEPT ![h] = "mark"]
          /\ UNCHANGED order
     ELSE Return(h) /\ UNCHANGED wire
  /\ UNCHANGED <<panelVars, queue, link, pushVars, agentVars, eventVars,
                 uploadVars, boundVars>>

\* MarkDeploymentConfigSent, the row after it.
Sent(rev) ==
  IF rev # 0 /\ row.rev = rev /\ row.status \in {"saved", "sent"}
  THEN [row EXCEPT !.status = "sent"] ELSE row

MarkSent(h) ==
  /\ step[h] = "mark"
  /\ row' = Sent(order[h].rev)
  /\ Return(h)
  /\ UNCHANGED <<day, wireVars, pushVars, agentVars, eventVars,
                 uploadVars, boundVars>>

\* adminEditClient: SaveClient, then the day is read again and dispatched
\* without a revision.
EditDay(h, d) ==
  /\ MayEdit
  /\ NewOp(h)
  /\ day' = d
  /\ step' = [step EXCEPT ![h] = "reread"]
  /\ order' = [order EXCEPT ![h] =
                 [id |-> ops + 1, rev |-> 0, body |-> NoBody, day |-> NoDay]]
  /\ UNCHANGED <<row, issued>>

RereadDay(h) ==
  /\ step[h] = "reread"
  /\ order' = [order EXCEPT ![h].day = day]
  /\ step' = [step EXCEPT ![h] = "sendDay"]
  /\ UNCHANGED <<panelVars, wireVars, pushVars, agentVars, eventVars,
                 uploadVars, boundVars>>

\* DispatchV2Event: directly on the connection, else into the queue (where it
\* replaces a configuration), else nowhere.
SendDay(h) ==
  /\ step[h] = "sendDay"
  /\ Return(h)
  /\ \/ /\ link = "ws"
        /\ wire' = Append(wire, [order[h] EXCEPT !.id = 0]) /\ UNCHANGED queue
     \/ link = "post" /\ queue' = {order[h]} /\ UNCHANGED wire
     \/ link = "none" /\ UNCHANGED <<queue, wire>>
  /\ UNCHANGED <<panelVars, link, pushVars, agentVars, eventVars,
                 uploadVars, boundVars>>

-----------------------------------------------------------------------------
(* The Agent *)

Outcomes == IF MayFail THEN BOOLEAN ELSE {TRUE}

\* Mutant: the settings are stored before the step that fails.
StoredFirst(m, ok) ==
  [body |-> IF m.body = NoBody THEN cfg.body ELSE m.body, day |-> m.day]

\* runtimeconfig after applyRuntimeConfig(m), which stores it last.
Merged(m, ok) ==
  CASE ~ok                   -> cfg
    [] ok /\ m.body = NoBody -> [cfg EXCEPT !.day = m.day]
    [] OTHER                 -> [body |-> m.body, day |-> m.day]

\* control.json after it: written before the steps that set up the network
\* statistics, and not taken back when one of them fails.
Relays(m, ok) ==
  CASE m.body = NoBody -> {relay}
    [] ok /\ m.body # NoBody -> {m.body \in Hermes}
    [] OTHER -> {relay, m.body \in Hermes}

\* processRuntimeConfig: a revision that was processed is not processed again.
Stale(m) == m.rev # 0 /\ m.rev <= processed

\* pendingConfigResult after it: the newest revision's, which is this one.
PendingAfter(m, id, ok) ==
  IF m.rev = 0 \/ Stale(m) THEN pending
  ELSE [rev |-> m.rev, id |-> id, status |-> IF ok THEN "applied" ELSE "failed",
        hermes |-> ok /\ m.body \in Hermes]

\* processRuntimeConfig, one critical section; the caller sets pending.
ProcessConfig(m, ok) ==
  IF Stale(m)
  THEN UNCHANGED <<cfg, relay, processed, applied>>
  ELSE /\ cfg' = Merged(m, ok)
       /\ relay' \in Relays(m, ok)
       /\ processed' = IF m.rev = 0 THEN processed ELSE m.rev
       /\ applied' = IF m.rev = 0 \/ ~ok THEN applied ELSE m.rev

\* processV2Event on the next event: one seen before is only acknowledged, and
\* so is not one that could not be applied.
Receive ==
  /\ wire # <<>>
  /\ wire' = Tail(wire)
  /\ LET m == Head(wire) IN
     \/ /\ m.id # 0 /\ m.id \in seen
        /\ acks' = acks \cup {m.id}
        /\ UNCHANGED <<agentVars, seen>>
     \/ /\ m.id \notin seen
        /\ seen' = seen \cup ({m.id} \ {0})
        /\ \E ok \in Outcomes :
             /\ ProcessConfig(m, ok)
             /\ pending' = PendingAfter(m, m.id, ok)
             /\ acks' = IF ok \/ m.rev # 0 THEN acks \cup ({m.id} \ {0}) ELSE acks
  /\ UNCHANGED <<panelVars, queue, link, adminVars, pushVars, uploadVars,
                 boundVars>>

-----------------------------------------------------------------------------
(* The connection *)

\* WebSocketV2RPC: the connection is registered, then the queue is pushed.  One
\* such handler at a time; a long-poll that waits is given up.
Connect ==
  /\ "ws" \in Links
  /\ link \in {"none", "post"} /\ push = "idle"
  /\ link' = "ws" /\ wire' = <<>>
  /\ push' = "take"
  /\ UNCHANGED <<panelVars, queue, adminVars, pushed, agentVars, eventVars,
                 uploadVars, boundVars>>

\* runPostFallback, once the panel has registered the first pull.
FallBack ==
  /\ "post" \in Links
  /\ link = "none"
  /\ link' = "post"
  /\ UNCHANGED <<panelVars, queue, wire, adminVars, pushVars, agentVars,
                 eventVars, uploadVars, boundVars>>

\* What is on the wire is lost with it; a handler that has written carries on.
Cut ==
  /\ link' = "none" /\ wire' = <<>>
  /\ IF push = "mark" THEN UNCHANGED pushVars ELSE push' = "idle" /\ pushed' = NoMessage

Drop ==
  /\ link # "none" /\ Cut /\ Fault
  /\ UNCHANGED <<panelVars, queue, adminVars, agentVars, eventVars, uploadVars,
                 ops, issued, histVars>>

\* pushQueuedV2Events: the events are copied, not removed.
PushTake ==
  /\ push = "take"
  /\ \/ queue = {} /\ push' = "advertise" /\ UNCHANGED pushed
     \/ \E e \in queue : pushed' = e /\ push' = "write"
  /\ UNCHANGED <<panelVars, wireVars, adminVars, agentVars, eventVars,
                 uploadVars, boundVars>>

PushWrite ==
  /\ push = "write"
  /\ wire' = Append(wire, pushed)
  /\ push' = "mark"
  /\ UNCHANGED <<panelVars, queue, link, adminVars, pushed, agentVars,
                 eventVars, uploadVars, boundVars>>

PushMark ==
  /\ push = "mark"
  /\ row' = Sent(pushed.rev)
  /\ push' = IF link = "ws" THEN "advertise" ELSE "idle"
  /\ pushed' = NoMessage
  /\ UNCHANGED <<day, wireVars, adminVars, agentVars, eventVars,
                 uploadVars, boundVars>>

\* advertiseV2PullCapabilities: a pull whose response the Agent does not read.
Advertise ==
  /\ push = "advertise"
  /\ queue' = Without(queue, acks)
  /\ push' = "idle"
  /\ UNCHANGED <<panelVars, link, wire, adminVars, pushed, agentVars,
                 eventVars, uploadVars, boundVars>>

\* Mutant: what a pull returns is taken out of the queue.
PullTakes ==
  /\ link = "post" /\ wire = <<>>
  /\ queue' = {}
  /\ \E e \in queue : wire' = <<e>>
  /\ UNCHANGED <<panelVars, link, adminVars, pushVars, agentVars, eventVars,
                 uploadVars, boundVars>>

\* runV2PullLoop and a POST report: the acknowledged events go, the others are
\* sent again.  (Acknowledging twice changes nothing, so acks may stay.)
Pull ==
  /\ link = "post" /\ wire = <<>>
  /\ queue' = Without(queue, acks)
  /\ \/ queue' = {} /\ UNCHANGED wire
     \/ \E e \in queue' : wire' = <<e>>
  /\ UNCHANGED <<panelVars, link, adminVars, pushVars, agentVars, eventVars,
                 uploadVars, boundVars>>

\* The five minutes of an event are over, or 128 others have displaced it.
Expire ==
  /\ queue # {}
  /\ queue' = {}
  /\ Fault
  /\ UNCHANGED <<panelVars, link, wire, adminVars, pushVars, agentVars,
                 eventVars, uploadVars, ops, issued, histVars>>

-----------------------------------------------------------------------------
(* Basic-info uploads: the Agent's side, then the handler's *)

\* uploadBasicInfo: at start, at every tick, on request and five seconds after
\* a failure, in goroutines of their own.
StartUpload(u) ==
  /\ stage[u] = "idle"
  /\ stage' = [stage EXCEPT ![u] = "build"]
  /\ awaited' = [awaited EXCEPT ![u] = TRUE]
  /\ result' = [result EXCEPT ![u] = pending]
  /\ UNCHANGED <<panelVars, wireVars, adminVars, pushVars, agentVars,
                 eventVars, state, answer, boundVars>>

\* tryUploadDataV2: the configuration is read after the pending result.
SendUpload(u) ==
  /\ stage[u] = "build"
  /\ stage' = [stage EXCEPT ![u] = "adopt"]
  /\ state' = [state EXCEPT ![u] = cfg]
  /\ UNCHANGED <<panelVars, wireVars, adminVars, pushVars, agentVars,
                 eventVars, awaited, result, answer, boundVars>>

Forget(u) ==
  /\ stage' = [stage EXCEPT ![u] = "idle"]
  /\ awaited' = [awaited EXCEPT ![u] = FALSE]
  /\ result' = [result EXCEPT ![u] = NoResult]
  /\ state' = [state EXCEPT ![u] = Startup]
  /\ answer' = [answer EXCEPT ![u] = NoMessage]

HandlerStep(u, from, to) ==
  /\ stage[u] = from
  /\ stage' = [stage EXCEPT ![u] = to]
  /\ UNCHANGED <<link, wire, adminVars, pushVars, agentVars, eventVars,
                 awaited, result, state, ops, faults>>

\* The profile after the adoption: a node without one gets what it reports; one
\* that matches is applied (the days always match: the client's is put into
\* both); an untracked one gets its first revision.
Adopted(u) ==
  CASE row.body \in {NoBody, state[u].body} ->
         [rev |-> IF row.rev = 0 THEN 1 ELSE row.rev,
          body |-> state[u].body, status |-> "applied"]
    [] row.body \notin {NoBody, state[u].body} /\ row.rev = 0 ->
         [rev |-> 1, body |-> row.body, status |-> "saved"]
    [] OTHER -> row

AdoptedDay(u) == IF day = NoDay THEN state[u].day ELSE day

\* History: the profile is shown as applied for a report that no longer says
\* what the Agent runs, or for a result of an Agent that has restarted since.
ShowApplied(shown, current) ==
  overtaken' = IF shown /\ ~current THEN overtaken \cup {row'.rev} ELSE overtaken

\* AdoptDeploymentRuntimeConfig, one transaction.
Adopt(u) ==
  /\ HandlerStep(u, "adopt", "complete")
  /\ row' = Adopted(u)
  /\ day' = AdoptedDay(u)
  /\ issued' = IF row.rev = 0 THEN [issued EXCEPT ![1] = Adopted(u).body] ELSE issued
  /\ ShowApplied(Adopted(u) # row /\ Adopted(u).status = "applied",
                 state[u].body = cfg.body)
  /\ UNCHANGED <<queue, answer, torn>>

\* CompleteDeploymentConfig, its checks.
Accepted(r) ==
  /\ r # NoResult /\ r.rev = row.rev
  /\ r.status = "applied" /\ row.body \in Hermes => r.hermes

\* ... and the acknowledgement of the event that brought the revision.
Complete(u) ==
  /\ HandlerStep(u, "complete", "readDay")
  /\ row' = IF Accepted(result[u])
            THEN [row EXCEPT !.status = result[u].status] ELSE row
  /\ ShowApplied(Accepted(result[u]) /\ result[u].status = "applied",
                 applied = row.rev)
  /\ queue' = Without(queue, {result[u].id} \ {0})
  /\ UNCHANGED <<day, answer, issued, torn>>

\* getClientRuntimeConfig: the client, the profile and, in a statement of its
\* own, the profile's row again for the revision.  Adopt has made sure of a row.
ReadDay(u) ==
  /\ HandlerStep(u, "readDay", "readBody")
  /\ answer' = [answer EXCEPT ![u] = [NoMessage EXCEPT !.day = day]]
  /\ UNCHANGED <<panelVars, queue, issued, histVars>>

ReadBody(u) ==
  /\ HandlerStep(u, "readBody", "readRev")
  /\ answer' = [answer EXCEPT ![u].body = row.body]
  /\ UNCHANGED <<panelVars, queue, issued, histVars>>

ReadRev(u) ==
  /\ HandlerStep(u, "readRev", "answer")
  /\ answer' = [answer EXCEPT ![u].rev = row.rev]
  /\ torn' = IF answer[u].body = row.body THEN torn ELSE torn \cup {row.rev}
  /\ UNCHANGED <<panelVars, queue, issued, overtaken>>

\* Mutant: whatever result is pending is dropped, also one that is newer.
ClearAny(p, u) == NoResult

\* clearPendingConfigResult
Cleared(p, u) == IF p = result[u] THEN NoResult ELSE p

\* processBasicInfoResponse; then the result that was sent is forgotten.  (What
\* happens between the two does not matter: only the same result is cleared.)
Answer(u) ==
  /\ stage[u] = "answer" /\ awaited[u]
  /\ Forget(u)
  /\ \E ok \in Outcomes :
       /\ ProcessConfig(answer[u], ok)
       /\ pending' = Cleared(PendingAfter(answer[u], 0, ok), u)
  /\ UNCHANGED <<panelVars, wireVars, adminVars, pushVars, eventVars, boundVars>>

\* The response of an upload the Agent has forgotten.
Discard(u) ==
  /\ stage[u] = "answer" /\ ~awaited[u]
  /\ Forget(u)
  /\ UNCHANGED <<panelVars, wireVars, adminVars, pushVars, agentVars,
                 eventVars, boundVars>>

\* The request is lost; or the Agent times out, its connection broken, while
\* the handler goes on.
LoseUpload(u) ==
  /\ \/ /\ stage[u] = "adopt"
        /\ Forget(u)
     \/ /\ stage[u] \notin {"idle", "build"} /\ awaited[u]
        /\ awaited' = [awaited EXCEPT ![u] = FALSE]
        /\ UNCHANGED <<stage, result, state, answer>>
  /\ Fault
  /\ UNCHANGED <<panelVars, wireVars, adminVars, pushVars, agentVars,
                 eventVars, ops, issued, histVars>>

-----------------------------------------------------------------------------
(* Restarts *)

Handled == {"adopt", "complete", "readDay", "readBody", "readRev", "answer"}

\* The uploads that are in one of the stages of gone end; awaited is left to
\* the caller.
ForgetAll(gone) ==
  LET Kept(f, none) == [u \in Uploads |-> IF stage[u] \in gone THEN none ELSE f[u]]
  IN  /\ stage' = Kept(stage, "idle")
      /\ result' = Kept(result, NoResult)
      /\ state' = Kept(state, Startup)
      /\ answer' = Kept(answer, NoMessage)

\* The Agent keeps nothing; a handler in the panel goes on.
RestartAgent ==
  /\ cfg' = Startup /\ relay' = (StartBody \in Hermes)
  /\ processed' = 0 /\ applied' = 0 /\ pending' = NoResult
  /\ seen' = {} /\ acks' = {}
  /\ ForgetAll({"build"})
  /\ awaited' = [u \in Uploads |-> FALSE]
  /\ Cut /\ Fault
  /\ UNCHANGED <<panelVars, queue, adminVars, ops, issued, histVars>>

\* The panel keeps its database; what its handlers had not done is not done.
RestartPanel ==
  /\ queue' = {}
  /\ step' = [h \in Admins |-> "idle"] /\ order' = [h \in Admins |-> NoMessage]
  /\ link' = "none" /\ wire' = <<>>
  /\ push' = "idle" /\ pushed' = NoMessage
  /\ ForgetAll(Handled)
  /\ awaited' = [u \in Uploads |-> awaited[u] /\ stage[u] \notin Handled]
  /\ Fault
  /\ UNCHANGED <<panelVars, agentVars, eventVars, ops, issued, histVars>>

-----------------------------------------------------------------------------
AdminNext ==
  \E h \in Admins :
    \/ \E b \in Bodies, d \in Days : SaveProfile(h, b, d)
    \/ Enqueue(h) \/ WriteConfig(h) \/ MarkSent(h)
    \/ \E d \in Days : EditDay(h, d)
    \/ RereadDay(h) \/ SendDay(h)

LinkNext ==
  \/ Connect \/ FallBack \/ Drop
  \/ PushTake \/ PushWrite \/ PushMark \/ Advertise
  \/ Pull \/ Expire
  \/ Receive

UploadNext ==
  \E u \in Uploads :
    \/ StartUpload(u) \/ SendUpload(u)
    \/ Adopt(u) \/ Complete(u)
    \/ ReadDay(u) \/ ReadBody(u) \/ ReadRev(u)
    \/ Answer(u) \/ Discard(u) \/ LoseUpload(u)

Next == AdminNext \/ LinkNext \/ UploadNext \/ RestartAgent \/ RestartPanel

Spec == Init /\ [][Next]_vars

\* The Agent's upload ticker never stops and the panel's handlers end; nobody
\* has to save, nothing has to fail and no connection has to come up.
ServingFairness ==
  /\ \A h \in Admins :
       WF_vars(Enqueue(h) \/ WriteConfig(h) \/ MarkSent(h) \/ RereadDay(h) \/ SendDay(h))
  /\ WF_vars(PushTake \/ PushWrite \/ PushMark \/ Advertise)
  /\ WF_vars(Receive)

UploadFairness(u) ==
  WF_vars(\/ StartUpload(u) \/ SendUpload(u) \/ Adopt(u) \/ Complete(u)
          \/ ReadDay(u) \/ ReadBody(u) \/ ReadRev(u) \/ Answer(u) \/ Discard(u))

Fairness == ServingFairness /\ \A u \in Uploads : UploadFairness(u)

LiveSpec == Spec /\ Fairness

-----------------------------------------------------------------------------
TypeOK ==
  /\ day \in Days \cup {NoDay} /\ row \in Rows
  /\ queue \in SUBSET Messages /\ link \in {"none", "ws", "post"}
  /\ wire \in Seq(Messages)
  /\ step \in [Admins -> {"idle", "dispatch", "write", "mark", "reread", "sendDay"}]
  /\ order \in [Admins -> Messages]
  /\ push \in {"idle", "take", "write", "mark", "advertise"} /\ pushed \in Messages
  /\ cfg \in Configs /\ relay \in BOOLEAN
  /\ processed \in Revs /\ applied \in Revs /\ pending \in Results
  /\ seen \subseteq IDs /\ acks \subseteq IDs
  /\ stage \in [Uploads -> {"idle", "build", "adopt", "complete", "readDay",
                            "readBody", "readRev", "answer"}]
  /\ awaited \in [Uploads -> BOOLEAN] /\ result \in [Uploads -> Results]
  /\ state \in [Uploads -> Configs] /\ answer \in [Uploads -> Messages]
  /\ ops \in 0..MaxOps /\ faults \in 0..MaxFaults
  /\ issued \in [1..MaxRev -> Bodies \cup {NoBody}]
  /\ torn \subseteq Revs /\ overtaken \subseteq Revs

\* A revision that is finished stays finished: a mark that comes after the
\* result (the Agent may be quicker than the handler that wrote to it) does not
\* put it back to sent.
FinishedStaysFinished ==
  [][row.status \in Finished /\ row'.rev = row.rev => row'.status \in Finished]_row

\* The Agent never goes back to an older revision unless it restarts, and never
\* applies the same one twice, whatever arrives twice or out of order.
NeverBack ==
  [][processed' > processed \/ (processed' = 0 /\ cfg' = Startup)]_processed

\* A versioned setting changes only together with the revision the Agent has
\* processed: what comes late changes nothing.
BodyOnlyByRevision == [][processed' # processed]_(cfg.body)

\* What the Agent runs is what was saved under the revision it claims, unless
\* the profile was saved between the two reads of an answer that carried it.
RunsWhatItClaims == applied # 0 => cfg.body = issued[applied] \/ applied \in torn

\* A revision shown as applied, and processed by the Agent, is the configuration
\* in use once its result is with the panel; only such a torn answer, or a
\* report that was overtaken on its way, may close a delivery wrongly.
AppliedIsActive ==
  row.status = "applied" /\ processed = row.rev /\ pending = NoResult
    => cfg.body = row.body \/ row.rev \in torn \cup overtaken

\* The Hermes helper's control file says what the Agent's configuration says
\* unless the newest revision has failed: a failure half way leaves it behind,
\* and the next success brings it back.
RelayAgrees == applied = processed => relay = (cfg.body \in Hermes)

\* A result that is not taken in by the panel stays pending in the Agent.
ResultNotLost ==
  [][pending.rev # 0 /\ pending' # pending
       => \/ pending'.rev > pending.rev
          \/ processed' = 0
          \/ \E u \in Uploads : stage[u] = "answer" /\ result[u] = pending]_pending

\* An event leaves the queue because the Agent has dealt with it, because a
\* newer request replaces it, or by a fault; being sent is not enough.
RemovedWhenSeen ==
  [][\A e \in queue \ queue' :
       \/ e.id \in seen
       \/ \E f \in queue' : f.id # e.id
       \/ \E u \in Uploads : result[u].id = e.id
       \/ faults' # faults]_queue

\* The Agent runs what it claims, and what the panel shows as applied, and the
\* Hermes helper is told the same.
AgentHonest == TypeOK /\ RunsWhatItClaims /\ AppliedIsActive /\ RelayAgrees

\* Neither end of the delivery takes a step back: a finished revision stays
\* finished, an older revision changes nothing, and an event stays queued until
\* the Agent has dealt with it.
NoStepBack == FinishedStaysFinished /\ NeverBack /\ BodyOnlyByRevision /\ RemovedWhenSeen

\* In the end the configuration saved last is in use and shown as such, or the
\* panel says that it failed; an overtaken report may leave another one in use,
\* and a torn answer one that the panel never takes for applied.
EventuallyDelivered ==
  <>[](row.body # NoBody =>
         \/ row.status = "applied" /\ (cfg.body = row.body \/ row.rev \in overtaken)
         \/ row.status = "failed"
         \/ row.rev \in torn)

=============================================================================
