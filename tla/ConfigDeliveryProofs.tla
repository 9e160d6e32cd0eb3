------------------------ MODULE ConfigDeliveryProofs ------------------------
(***************************************************************************)
(* Proofs about ConfigDelivery, for every number of requests, uploads,     *)
(* faults and bodies.                                                      *)
(*                                                                         *)
(* TInv is the type invariant: it adds that a message that is sent carries *)
(* a day, without which the Agent would store none.  OInv orders revisions *)
(* (the Agent's, those under way and the profile's), and with Numbered,    *)
(* which keeps the events apart, it is enough for everything that speaks   *)
(* of not going back.  BInv adds that what is under way carries the body   *)
(* saved under its revision, but for the answers that were put together    *)
(* across a save (torn).  HInv follows a failure from the Agent to the     *)
(* panel; only a report that was overtaken on its way hides it.            *)
(*                                                                         *)
(* What a step does to one part of the state is a lemma of its own: to the *)
(* profile (RowStep), the messages (Carried), the Agent (Processing), an   *)
(* upload (UploadFrame), the requests and the queue (RequestFrame).        *)
(***************************************************************************)
EXTENDS ConfigDelivery, TLAPS

-----------------------------------------------------------------------------
(* Type correctness.                                                       *)

\* A message that carries a day, as every one does that is sent.
Dated == [id : IDs, rev : Revs, body : Bodies \cup {NoBody}, day : Days]

\* The steps at which a request has such a message, the stages after an
\* upload has given the node a profile, and those at which its answer has a day.
Holding == {"dispatch", "write", "mark", "sendDay"}
Past    == {"complete", "readDay", "readBody", "readRev", "answer"}
Dating  == {"readBody", "readRev", "answer"}

\* The groups of variables.  A revision is never beyond the requests so far,
\* which is what keeps it in its type.
PanelType  == day \in Days \cup {NoDay} /\ row \in Rows /\ row.rev <= ops + 1
WireType   == queue \in SUBSET Dated /\ link \in {"none", "ws", "post"} /\ wire \in Seq(Dated)
AdminType  ==
  /\ step \in [Admins -> {"idle", "dispatch", "write", "mark", "reread", "sendDay"}]
  /\ order \in [Admins -> Messages]
  /\ \A h \in Admins : step[h] \in Holding => order[h] \in Dated
PushType   ==
  /\ push \in {"idle", "take", "write", "mark", "advertise"} /\ pushed \in Messages
  /\ push = "write" => pushed \in Dated
AgentType  ==
  /\ cfg \in Configs /\ relay \in BOOLEAN
  /\ processed \in Revs /\ applied \in Revs /\ pending \in Results
EventType  == seen \subseteq IDs /\ acks \subseteq IDs
UploadType ==
  /\ stage \in [Uploads -> {"idle", "build"} \cup Handled]
  /\ awaited \in [Uploads -> BOOLEAN] /\ result \in [Uploads -> Results]
  /\ state \in [Uploads -> Configs] /\ answer \in [Uploads -> Messages]
  /\ \A u \in Uploads : stage[u] \in Dating => answer[u] \in Dated
BoundType  ==
  /\ ops \in 0..MaxOps /\ faults \in 0..MaxFaults
  /\ issued \in [1..MaxRev -> Bodies \cup {NoBody}]

\* The revisions the history names.
HistType == torn \subseteq Revs /\ overtaken \subseteq Revs

\* The node has a day from the first edit or upload on.
DayKnown ==
  \/ \E h \in Admins : step[h] = "reread"
  \/ \E u \in Uploads : stage[u] \in Past
  => day \in Days

TInv == DayKnown /\ PanelType /\ WireType /\ AdminType /\ PushType /\ AgentType /\ EventType /\ UploadType /\ BoundType

LEMMA DatedMessages ==
  /\ Dated \subseteq Messages
  /\ \A m \in Messages : m.day \in Days => m \in Dated
  /\ \A s \in Seq(Dated) : s \in Seq(Messages)
<1>1. Dated \subseteq Messages
  BY DEF Dated, Messages
<1>2. \A m \in Messages : m.day \in Days => m \in Dated
  BY DEF Dated, Messages
<1>3. \A s \in Seq(Dated) : s \in Seq(Messages)
  BY <1>1
<1>4. QED
  BY <1>1, <1>2, <1>3

LEMMA TInvTypes == TInv /\ HistType => TypeOK
  BY DatedMessages
  DEF TInv, PanelType, WireType, AdminType, PushType, AgentType, EventType, UploadType, BoundType,
         HistType, TypeOK, Handled

LEMMA Constants ==
  /\ NoMessage \in Messages /\ NoResult \in Results /\ NoRow \in Rows /\ Startup \in Configs
  /\ MaxRev \in Nat /\ MaxRev = MaxOps + 1 /\ MaxOps \in Nat /\ MaxFaults \in Nat /\ 0 \in Revs /\ 0 \in IDs
BY DeliveryAssumption
DEF NoMessage, Messages, NoResult, Results, NoRow, Rows, Startup, Configs, MaxRev, Revs, IDs, Finished, Statuses

LEMMA InitTypes == Init => TInv
<1> SUFFICES ASSUME Init PROVE TInv
  OBVIOUS
<1> USE DeliveryAssumption, Constants
<1>1. PanelType
  BY DEF Init, PanelType, Rows, Revs, Statuses, NoRow
<1>2. WireType /\ AdminType /\ PushType /\ AgentType /\ EventType /\ UploadType
  BY DEF Init, Holding, Dating, WireType, AdminType, PushType, AgentType, EventType, UploadType
<1>3. BoundType
  BY DEF Init, BoundType
<1>4. DayKnown
  BY DEF Init, DayKnown, Past
<1>5. QED
  BY <1>1, <1>2, <1>3, <1>4 DEF TInv

\* Once there is a day there is one for good.
LEMMA DayStays ==
  ASSUME DayKnown, day \in Days => day' \in Days,
         \A h \in Admins : step'[h] = "reread" => step[h] = "reread" \/ day' \in Days,
         \A u \in Uploads : stage'[u] \in Past => stage[u] \in Past \/ day' \in Days
  PROVE  DayKnown'
  BY DEF DayKnown

\* The administrator's steps.
LEMMA ReturnTypes ==
  ASSUME AdminType, NEW h \in Admins, Return(h)
  PROVE  AdminType' /\ \A g \in Admins : step'[g] = "reread" => step[g] = "reread"
  BY Constants DEF AdminType, Return, Holding

LEMMA AdminTypes ==
  ASSUME TInv, AdminNext
  PROVE  TInv'
<1> USE Constants DEF TInv
<1> PICK h \in Admins :
      \/ \E b \in Bodies, d \in Days : SaveProfile(h, b, d)
      \/ Enqueue(h) \/ WriteConfig(h) \/ MarkSent(h)
      \/ \E d \in Days : EditDay(h, d)
      \/ RereadDay(h) \/ SendDay(h)
  BY DEF AdminNext
<1> DEFINE Others == UNCHANGED <<pushVars, agentVars, eventVars, uploadVars>>
<1>0. Others => PushType' /\ AgentType' /\ EventType' /\ UploadType' /\ stage' = stage
  BY DEF pushVars, agentVars, eventVars, uploadVars, PushType, AgentType, EventType, UploadType
<1>1. ASSUME NEW b \in Bodies, NEW d \in Days, SaveProfile(h, b, d) PROVE TInv'
  <2>1. /\ Others /\ WireType' /\ ops' = ops + 1 /\ ops' \in 0..MaxOps /\ faults' = faults
        /\ day' = d
    BY <1>1 DEF SaveProfile, NewOp, BoundType, WireType, wireVars
  <2>2. DayKnown'
    BY <2>1 DEF DayKnown
  <2>3. CASE RuntimeChanged(b, d)
    <3>1. NewRevision \in 1..MaxRev /\ NewRevision <= ops' + 1
      BY <2>1 DEF NewRevision, PanelType, BoundType, Rows, Revs
    <3>2. row' = [rev |-> NewRevision, body |-> b, status |-> "saved"]
      BY <1>1, <2>3 DEF SaveProfile
    <3>3. PanelType'
      BY <2>1, <3>1, <3>2 DEF PanelType, Rows, Statuses, Revs
    <3>4. BoundType'
      BY <1>1, <2>1, <2>3, <3>1 DEF SaveProfile, BoundType
    <3>5. [id |-> ops + 1, rev |-> NewRevision, body |-> b, day |-> d] \in Dated
      BY <2>1, <3>1 DEF Dated, IDs, Revs
    <3>6. AdminType'
      BY <1>1, <2>3, <3>5, DatedMessages DEF SaveProfile, NewOp, AdminType
    <3>7. QED
      BY <1>0, <2>1, <2>2, <3>3, <3>4, <3>6
  <2>4. CASE ~RuntimeChanged(b, d)
    BY <1>0, <1>1, <2>1, <2>2, <2>4 DEF SaveProfile, AdminType, BoundType, PanelType, Rows, Revs
  <2>5. QED
    BY <2>3, <2>4
<1>2. CASE Enqueue(h)
  <2>1. AdminType' /\ \A g \in Admins : step'[g] = "reread" => step[g] = "reread"
    BY <1>2, ReturnTypes DEF Enqueue, AdminType, Holding
  <2>2. WireType'
    BY <1>2 DEF Enqueue, AdminType, WireType, Holding
  <2>3. PanelType' /\ BoundType' /\ Others /\ day' = day
    BY <1>2 DEF Enqueue, PanelType, panelVars, BoundType, boundVars
  <2>4. QED
    BY <1>0, <2>1, <2>2, <2>3, DayStays
<1>3. CASE WriteConfig(h)
  <2>1. AdminType' /\ \A g \in Admins : step'[g] = "reread" => step[g] = "reread"
    BY <1>3, ReturnTypes DEF WriteConfig, AdminType, Holding
  <2>2. WireType'
    BY <1>3 DEF WriteConfig, AdminType, WireType, Holding
  <2>3. PanelType' /\ BoundType' /\ Others /\ day' = day
    BY <1>3 DEF WriteConfig, PanelType, panelVars, BoundType, boundVars
  <2>4. QED
    BY <1>0, <2>1, <2>2, <2>3, DayStays
<1>4. CASE MarkSent(h)
  <2>1. AdminType' /\ \A g \in Admins : step'[g] = "reread" => step[g] = "reread"
    BY <1>4, ReturnTypes DEF MarkSent
  <2>2. PanelType' /\ day' = day
    BY <1>4 DEF MarkSent, Sent, PanelType, Rows, Statuses, boundVars
  <2>3. WireType' /\ BoundType' /\ Others
    BY <1>4 DEF MarkSent, WireType, wireVars, BoundType, boundVars
  <2>4. QED
    BY <1>0, <2>1, <2>2, <2>3, DayStays
<1>5. ASSUME NEW d \in Days, EditDay(h, d) PROVE TInv'
  <2>1. Others /\ WireType' /\ ops' = ops + 1 /\ ops' \in 0..MaxOps /\ faults' = faults
    BY <1>5 DEF EditDay, NewOp, BoundType, WireType, wireVars
  <2>2. [id |-> ops + 1, rev |-> 0, body |-> NoBody, day |-> NoDay] \in Messages
    BY <2>1 DEF Messages, IDs
  <2>3. AdminType'
    BY <1>5, <2>2 DEF EditDay, NewOp, AdminType, Holding
  <2>4. PanelType' /\ BoundType' /\ DayKnown'
    BY <1>5, <2>1 DEF EditDay, PanelType, BoundType, Rows, Revs, DayKnown
  <2>5. QED
    BY <1>0, <2>1, <2>3, <2>4
<1>6. CASE RereadDay(h)
  <2>1. [order[h] EXCEPT !.day = day] \in Dated
    BY <1>6, DatedMessages DEF RereadDay, AdminType, DayKnown, Messages, Dated
  <2>2. AdminType' /\ \A g \in Admins : step'[g] = "reread" => step[g] = "reread"
    BY <1>6, <2>1, DatedMessages DEF RereadDay, AdminType
  <2>3. WireType' /\ PanelType' /\ BoundType' /\ Others /\ day' = day
    BY <1>6 DEF RereadDay, PanelType, panelVars, WireType, wireVars, BoundType, boundVars
  <2>4. QED
    BY <1>0, <2>2, <2>3, DayStays
<1>7. CASE SendDay(h)
  <2>1. [order[h] EXCEPT !.id = 0] \in Dated /\ order[h] \in Dated
    BY <1>7 DEF SendDay, AdminType, Dated, Holding
  <2>2. WireType'
    <3>1. CASE link = "ws"
      BY <1>7, <2>1, <3>1 DEF SendDay, WireType
    <3>2. CASE link # "ws"
      BY <1>7, <2>1, <3>2 DEF SendDay, WireType
    <3>3. QED
      BY <3>1, <3>2
  <2>3. AdminType' /\ \A g \in Admins : step'[g] = "reread" => step[g] = "reread"
    BY <1>7, ReturnTypes DEF SendDay
  <2>4. PanelType' /\ BoundType' /\ Others /\ day' = day
    BY <1>7 DEF SendDay, PanelType, panelVars, BoundType, boundVars
  <2>5. QED
    BY <1>0, <2>2, <2>3, <2>4, DayStays
<1>8. QED
  BY <1>1, <1>2, <1>3, <1>4, <1>5, <1>6, <1>7

\* What the Agent makes of a message.
LEMMA ProcessTypes ==
  ASSUME AgentType, NEW m \in Dated, NEW id \in IDs, NEW ok \in BOOLEAN, ProcessConfig(m, ok)
  PROVE  /\ cfg' \in Configs /\ relay' \in BOOLEAN /\ processed' \in Revs /\ applied' \in Revs
         /\ PendingAfter(m, id, ok) \in Results
<1>1. Merged(m, ok) \in Configs
  <2>1. CASE ~ok
    BY <2>1 DEF Merged, AgentType
  <2>2. CASE ok /\ m.body = NoBody
    BY <2>2 DEF Merged, AgentType, Dated, Configs
  <2>3. CASE ok /\ m.body # NoBody
    BY <2>3 DEF Merged, Dated, Configs
  <2>4. QED
    BY <2>1, <2>2, <2>3
<1>2. PendingAfter(m, id, ok) \in Results
  BY DEF PendingAfter, AgentType, Results, Finished, Dated
<1>3. ASSUME NEW r \in Relays(m, ok) PROVE r \in BOOLEAN
  <2>1. relay \in BOOLEAN /\ (m.body \in Hermes) \in BOOLEAN
    BY DEF AgentType
  <2>2. Relays(m, ok) \in {{relay}, {m.body \in Hermes}, {relay, m.body \in Hermes}}
    BY DEF Relays
  <2>3. QED
    BY <1>3, <2>1, <2>2
<1>4. QED
  BY <1>1, <1>2, <1>3 DEF ProcessConfig, AgentType, Dated

LEMMA OutcomesAreBoolean == Outcomes \subseteq BOOLEAN
  BY DEF Outcomes

\* The connection's steps.
LEMMA CutTypes ==
  ASSUME WireType, PushType, Cut
  PROVE  link' \in {"none", "ws", "post"} /\ wire' \in Seq(Dated) /\ PushType'
  BY Constants DEF WireType, PushType, Cut, pushVars

LEMMA LinkTypes ==
  ASSUME TInv, LinkNext
  PROVE  TInv'
<1> USE Constants DEF TInv
<1> DEFINE Others == UNCHANGED <<adminVars, uploadVars>>
<1>0. Others /\ day' = day => AdminType' /\ UploadType' /\ DayKnown'
  BY DEF adminVars, uploadVars, AdminType, UploadType, DayKnown
<1>1. CASE Connect \/ FallBack
  <2>1. WireType'
    <3>1. CASE Connect
      BY <3>1 DEF Connect, WireType
    <3>2. CASE FallBack
      BY <3>2 DEF FallBack, WireType
    <3>3. QED
      BY <1>1, <3>1, <3>2
  <2>2. PushType'
    BY <1>1 DEF Connect, FallBack, PushType, pushVars
  <2>3. PanelType' /\ AgentType' /\ EventType' /\ BoundType' /\ Others /\ day' = day
    BY <1>1
    DEF Connect, FallBack, PanelType, panelVars, AgentType, agentVars, EventType, eventVars, BoundType, boundVars
  <2>4. QED
    BY <1>0, <2>1, <2>2, <2>3
<1>2. CASE Drop
  <2>1. WireType' /\ PushType'
    BY <1>2, CutTypes DEF Drop, WireType
  <2>2. PanelType' /\ AgentType' /\ EventType' /\ BoundType' /\ Others /\ day' = day
    BY <1>2
    DEF Drop, Fault, PanelType, panelVars, AgentType, agentVars, EventType, eventVars, BoundType
  <2>3. QED
    BY <1>0, <2>1, <2>2
<1>3. CASE PushTake \/ PushWrite \/ Advertise
  <2>1. WireType' /\ PushType'
    BY <1>3, DatedMessages DEF PushTake, PushWrite, Advertise, Without, WireType, wireVars, PushType
  <2>2. PanelType' /\ AgentType' /\ EventType' /\ BoundType' /\ Others /\ day' = day
    BY <1>3
    DEF PushTake, PushWrite, Advertise, PanelType, panelVars, AgentType, agentVars, EventType, eventVars,
        BoundType, boundVars
  <2>3. QED
    BY <1>0, <2>1, <2>2
<1>4. CASE PushMark
  <2>1. PanelType' /\ day' = day
    BY <1>4 DEF PushMark, Sent, PanelType, Rows, Statuses, boundVars
  <2>2. PushType'
    BY <1>4 DEF PushMark, PushType
  <2>3. WireType' /\ AgentType' /\ EventType' /\ BoundType' /\ Others
    BY <1>4
    DEF PushMark, WireType, wireVars, AgentType, agentVars, EventType, eventVars, BoundType, boundVars
  <2>4. QED
    BY <1>0, <2>1, <2>2, <2>3
<1>5. CASE Pull \/ Expire
  <2>1. WireType'
    <3>1. CASE Pull
      <4>1. queue' \in SUBSET Dated
        BY <3>1 DEF Pull, Without, WireType
      <4>2. link' = link
        BY <3>1 DEF Pull
      <4>3. CASE \E e \in queue' : wire' = <<e>>
        BY <4>1, <4>2, <4>3 DEF WireType
      <4>4. CASE wire' = wire
        BY <4>1, <4>2, <4>4 DEF WireType
      <4>5. QED
        BY <3>1, <4>3, <4>4 DEF Pull
    <3>2. CASE Expire
      BY <3>2 DEF Expire, WireType
    <3>3. QED
      BY <1>5, <3>1, <3>2
  <2>2. PushType' /\ BoundType'
    BY <1>5 DEF Pull, Expire, Fault, PushType, pushVars, BoundType, boundVars
  <2>3. PanelType' /\ AgentType' /\ EventType' /\ Others /\ day' = day
    BY <1>5
    DEF Pull, Expire, PanelType, panelVars, AgentType, agentVars, EventType, eventVars, boundVars
  <2>4. QED
    BY <1>0, <2>1, <2>2, <2>3
<1>6. CASE Receive
  <2>1. Head(wire) \in Dated /\ WireType'
    BY <1>6 DEF Receive, WireType
  <2>2. Head(wire).id \in IDs
    BY <2>1 DEF Dated
  <2>3. AgentType' /\ EventType'
    BY <1>6, <2>1, <2>2, ProcessTypes, OutcomesAreBoolean DEF Receive, AgentType, agentVars, EventType
  <2>4. PanelType' /\ PushType' /\ BoundType' /\ Others /\ day' = day
    BY <1>6 DEF Receive, PanelType, panelVars, PushType, pushVars, BoundType, boundVars
  <2>5. QED
    BY <1>0, <2>1, <2>3, <2>4
<1>7. QED
  BY <1>1, <1>2, <1>3, <1>4, <1>5, <1>6 DEF LinkNext

\* The uploads.
LEMMA ForgetTypes ==
  ASSUME UploadType, NEW u \in Uploads, Forget(u)
  PROVE  UploadType' /\ \A v \in Uploads : stage'[v] \in Past => stage[v] \in Past
  BY Constants DEF UploadType, Forget, Past, Dating

LEMMA ForgetAllTypes ==
  ASSUME UploadType, NEW gone, ForgetAll(gone), awaited' \in [Uploads -> BOOLEAN]
  PROVE  UploadType' /\ \A v \in Uploads : stage'[v] \in Past => stage[v] \in Past
  BY Constants DEF UploadType, ForgetAll, Past, Dating

LEMMA HandlerTypes ==
  ASSUME TInv, NEW u \in Uploads, NEW from \in Handled, NEW to \in Past \cup Dating, HandlerStep(u, from, to),
         answer' \in [Uploads -> Messages],
         \A v \in Uploads : stage'[v] \in Dating => answer'[v] \in Dated
  PROVE  /\ UploadType' /\ AdminType' /\ PushType' /\ AgentType' /\ EventType'
         /\ ops' = ops /\ faults' = faults /\ link' = link /\ wire' = wire
         /\ \A h \in Admins : step'[h] = step[h]
         /\ \A v \in Uploads : v # u => stage'[v] = stage[v]
         /\ stage[u] = from
<1>1. UploadType'
  BY DEF TInv, UploadType, HandlerStep, Handled, Past, Dating
<1>2. QED
  BY <1>1
  DEF TInv, UploadType, HandlerStep, AdminType, adminVars, PushType, pushVars, AgentType, agentVars,
      EventType, eventVars

\* What adoption makes of the profile.
LEMMA AdoptedRow ==
  ASSUME TInv, NEW u \in Uploads
  PROVE  /\ Adopted(u) \in Rows /\ Adopted(u).rev = (IF row.rev = 0 THEN 1 ELSE row.rev)
         /\ Adopted(u).rev <= ops + 1
         /\ row.rev = 0 => Adopted(u).body \in Bodies
         /\ row.rev # 0 /\ row.body # NoBody => Adopted(u).body = row.body
         /\ Adopted(u).status \in {row.status, "saved", "applied"}
         /\ Adopted(u).status = "saved" => row.rev = 0 \/ row.status = "saved"
         /\ Adopted(u).status = "applied" /\ row.rev # 0 /\ row.body # NoBody =>
              row.status = "applied" \/ row.body = state[u].body
<1> USE Constants DEF TInv
<1>0. /\ row.rev \in Revs /\ row.body \in Bodies \cup {NoBody} /\ row.status \in Statuses /\ row \in Rows
      /\ row.rev <= ops + 1 /\ ops \in 0..MaxOps
  BY DEF PanelType, BoundType, Rows
<1>1. state[u].body \in Bodies
  BY DEF UploadType, Configs
<1>2. 1 \in Revs /\ 1 <= ops + 1
  BY <1>0 DEF Revs
<1>3. CASE row.body \in {NoBody, state[u].body}
  <2>1. Adopted(u) = [rev |-> IF row.rev = 0 THEN 1 ELSE row.rev, body |-> state[u].body, status |-> "applied"]
    BY <1>3 DEF Adopted
  <2>2. QED
    BY <1>0, <1>1, <1>2, <1>3, <2>1 DEF Rows, Statuses
<1>4. CASE row.body \notin {NoBody, state[u].body} /\ row.rev = 0
  <2>1. Adopted(u) = [rev |-> 1, body |-> row.body, status |-> "saved"]
    BY <1>4 DEF Adopted
  <2>2. QED
    BY <1>0, <1>1, <1>2, <1>4, <2>1 DEF Rows, Statuses
<1>5. CASE row.body \notin {NoBody, state[u].body} /\ row.rev # 0
  <2>1. Adopted(u) = row
    BY <1>5 DEF Adopted
  <2>2. QED
    BY <1>0, <1>5, <2>1
<1>6. QED
  BY <1>3, <1>4, <1>5

LEMMA UploadTypes ==
  ASSUME TInv, UploadNext
  PROVE  TInv'
<1> USE Constants DEF TInv
<1> PICK u \in Uploads :
      \/ StartUpload(u) \/ SendUpload(u)
      \/ Adopt(u) \/ Complete(u)
      \/ ReadDay(u) \/ ReadBody(u) \/ ReadRev(u)
      \/ Answer(u) \/ Discard(u) \/ LoseUpload(u)
  BY DEF UploadNext
<1> DEFINE Others == UNCHANGED <<adminVars, pushVars, eventVars>>
<1>0. Others => AdminType' /\ PushType' /\ EventType' /\ step' = step
  BY DEF adminVars, pushVars, eventVars, AdminType, PushType, EventType
<1>1. CASE StartUpload(u) \/ SendUpload(u)
  <2>1. UploadType' /\ \A v \in Uploads : stage'[v] \in Past => stage[v] \in Past
    <3>1. CASE StartUpload(u)
      BY <3>1 DEF StartUpload, UploadType, AgentType, Past, Dating
    <3>2. CASE SendUpload(u)
      BY <3>2 DEF SendUpload, UploadType, Handled, AgentType, Past, Dating
    <3>3. QED
      BY <1>1, <3>1, <3>2
  <2>2. Others /\ PanelType' /\ WireType' /\ AgentType' /\ BoundType' /\ day' = day
    BY <1>1
    DEF StartUpload, SendUpload, PanelType, panelVars, WireType, wireVars, AgentType, agentVars,
        BoundType, boundVars
  <2>3. QED
    BY <1>0, <2>1, <2>2, DayStays
<1>2. CASE Adopt(u)
  <2>1. HandlerStep(u, "adopt", "complete") /\ answer' = answer /\ queue' = queue
    BY <1>2 DEF Adopt
  <2>2. stage' = [stage EXCEPT ![u] = "complete"] /\ stage \in [Uploads -> {"idle", "build"} \cup Handled]
    BY <2>1 DEF HandlerStep, UploadType
  <2>3. answer' \in [Uploads -> Messages] /\ \A v \in Uploads : stage'[v] \in Dating => answer'[v] \in Dated
    BY <2>1, <2>2 DEF UploadType, Dating
  <2>4. /\ UploadType' /\ AdminType' /\ PushType' /\ AgentType' /\ EventType'
        /\ ops' = ops /\ faults' = faults /\ link' = link /\ wire' = wire
    BY <2>1, <2>3, HandlerTypes DEF Handled, Past
  <2>5. day' \in Days
    BY <1>2 DEF Adopt, AdoptedDay, PanelType, UploadType, Configs
  <2>6. PanelType'
    BY <1>2, <2>4, <2>5, AdoptedRow DEF Adopt, PanelType
  <2>7. issued' \in [1..MaxRev -> Bodies \cup {NoBody}]
    BY <1>2, AdoptedRow DEF Adopt, BoundType
  <2>8. WireType' /\ BoundType' /\ DayKnown'
    BY <2>1, <2>4, <2>5, <2>7 DEF WireType, BoundType, DayKnown
  <2>9. QED
    BY <2>4, <2>6, <2>8
<1>3. CASE Complete(u)
  <2>1. HandlerStep(u, "complete", "readDay") /\ answer' = answer
    BY <1>3 DEF Complete
  <2>2. stage' = [stage EXCEPT ![u] = "readDay"] /\ stage \in [Uploads -> {"idle", "build"} \cup Handled]
    BY <2>1 DEF HandlerStep, UploadType
  <2>3. answer' \in [Uploads -> Messages] /\ \A v \in Uploads : stage'[v] \in Dating => answer'[v] \in Dated
    BY <2>1, <2>2 DEF UploadType, Dating
  <2>4. /\ UploadType' /\ AdminType' /\ PushType' /\ AgentType' /\ EventType'
        /\ ops' = ops /\ faults' = faults /\ link' = link /\ wire' = wire
        /\ \A h \in Admins : step'[h] = step[h]
        /\ \A v \in Uploads : v # u => stage'[v] = stage[v]
        /\ stage[u] = "complete"
    BY <2>1, <2>3, HandlerTypes DEF Handled, Past
  <2>5. day' = day /\ issued' = issued /\ queue' \subseteq queue
    BY <1>3 DEF Complete, Without
  <2>6. row' \in Rows /\ row'.rev = row.rev
    BY <1>3 DEF Complete, PanelType, UploadType, Rows, Results, Statuses, Finished
  <2>7. PanelType' /\ WireType' /\ BoundType'
    BY <2>4, <2>5, <2>6 DEF PanelType, WireType, BoundType
  <2>8. DayKnown'
    BY <2>4, <2>5 DEF DayKnown, Past
  <2>9. QED
    BY <2>4, <2>7, <2>8
<1>4. CASE ReadDay(u) \/ ReadBody(u) \/ ReadRev(u)
  <2>1. PICK from \in Past \ {"complete", "answer"}, to \in Dating : HandlerStep(u, from, to)
    BY <1>4 DEF ReadDay, ReadBody, ReadRev, Past, Dating
  <2>2. stage' = [stage EXCEPT ![u] = to] /\ stage \in [Uploads -> {"idle", "build"} \cup Handled] /\ stage[u] = from
    BY <2>1 DEF HandlerStep, UploadType
  <2>3. day \in Days
    BY <2>1, <2>2 DEF DayKnown
  <2>4. row.body \in Bodies \cup {NoBody} /\ row.rev \in Revs
    BY DEF PanelType, Rows
  <2>5. answer' \in [Uploads -> Messages] /\ answer'[u] \in Dated
        /\ \A v \in Uploads : v # u => answer'[v] = answer[v]
    <3>1. CASE ReadDay(u)
      <4>1. [NoMessage EXCEPT !.day = day] \in Dated
        BY <2>3 DEF NoMessage, Dated
      <4>2. QED
        BY <3>1, <4>1, DatedMessages DEF ReadDay, UploadType
    <3>2. CASE ReadBody(u)
      <4>1. answer[u] \in Dated
        BY <3>2 DEF ReadBody, HandlerStep, UploadType, Dating
      <4>2. [answer[u] EXCEPT !.body = row.body] \in Dated
        BY <2>4, <4>1 DEF Dated
      <4>3. QED
        BY <3>2, <4>2, DatedMessages DEF ReadBody, UploadType
    <3>3. CASE ReadRev(u)
      <4>1. answer[u] \in Dated
        BY <3>3 DEF ReadRev, HandlerStep, UploadType, Dating
      <4>2. [answer[u] EXCEPT !.rev = row.rev] \in Dated
        BY <2>4, <4>1 DEF Dated
      <4>3. QED
        BY <3>3, <4>2, DatedMessages DEF ReadRev, UploadType
    <3>4. QED
      BY <1>4, <3>1, <3>2, <3>3
  <2>6. \A v \in Uploads : stage'[v] \in Dating => answer'[v] \in Dated
    BY <2>2, <2>5 DEF UploadType
  <2>7. /\ UploadType' /\ AdminType' /\ PushType' /\ AgentType' /\ EventType'
        /\ ops' = ops /\ faults' = faults /\ link' = link /\ wire' = wire
        /\ \A h \in Admins : step'[h] = step[h]
        /\ \A v \in Uploads : v # u => stage'[v] = stage[v]
    BY <2>1, <2>5, <2>6, HandlerTypes DEF Handled, Past, Dating
  <2>8. UNCHANGED <<panelVars, queue, issued>>
    BY <1>4 DEF ReadDay, ReadBody, ReadRev
  <2>9. PanelType' /\ WireType' /\ BoundType' /\ DayKnown'
    BY <2>3, <2>7, <2>8 DEF panelVars, PanelType, WireType, BoundType, DayKnown
  <2>10. QED
    BY <2>7, <2>9
<1>5. CASE Answer(u)
  <2>1. UploadType' /\ \A v \in Uploads : stage'[v] \in Past => stage[v] \in Past
    BY <1>5, ForgetTypes DEF Answer
  <2>2. answer[u] \in Dated
    BY <1>5 DEF Answer, UploadType, Dating
  <2>3. PICK ok \in Outcomes :
          ProcessConfig(answer[u], ok) /\ pending' = Cleared(PendingAfter(answer[u], 0, ok), u)
    BY <1>5 DEF Answer
  <2>4. AgentType'
    BY <2>2, <2>3, ProcessTypes, OutcomesAreBoolean DEF AgentType, Cleared
  <2>5. Others /\ PanelType' /\ WireType' /\ BoundType' /\ day' = day
    BY <1>5 DEF Answer, PanelType, panelVars, WireType, wireVars, BoundType, boundVars
  <2>6. QED
    BY <1>0, <2>1, <2>4, <2>5, DayStays
<1>6. CASE Discard(u) \/ LoseUpload(u)
  <2>1. UploadType' /\ \A v \in Uploads : stage'[v] \in Past => stage[v] \in Past
    <3>1. CASE Forget(u)
      BY <3>1, ForgetTypes
    <3>2. CASE ~Forget(u)
      BY <1>6, <3>2 DEF Discard, LoseUpload, UploadType
    <3>3. QED
      BY <3>1, <3>2
  <2>2. Others /\ PanelType' /\ WireType' /\ AgentType' /\ BoundType' /\ day' = day
    BY <1>6
    DEF Discard, LoseUpload, Fault, PanelType, panelVars, WireType, wireVars, AgentType, agentVars,
        BoundType, boundVars
  <2>3. QED
    BY <1>0, <2>1, <2>2, DayStays
<1>7. QED
  BY <1>1, <1>2, <1>3, <1>4, <1>5, <1>6

\* The restarts.
LEMMA RestartTypes ==
  ASSUME TInv, RestartAgent \/ RestartPanel
  PROVE  TInv'
<1> USE Constants DEF TInv
<1>1. CASE RestartAgent
  <2>1. UploadType' /\ \A v \in Uploads : stage'[v] \in Past => stage[v] \in Past
    BY <1>1, ForgetAllTypes DEF RestartAgent
  <2>2. queue' = queue /\ UNCHANGED <<panelVars, adminVars, ops, issued>> /\ faults' = faults + 1 /\ faults < MaxFaults
    BY <1>1 DEF RestartAgent, Fault
  <2>3. WireType' /\ PushType'
    BY <1>1, <2>2, CutTypes DEF RestartAgent, WireType
  <2>4. AgentType' /\ EventType'
    BY <1>1 DEF RestartAgent, AgentType, EventType
  <2>5. AdminType' /\ PanelType' /\ BoundType' /\ day' = day /\ step' = step
    BY <2>2 DEF AdminType, adminVars, PanelType, panelVars, BoundType
  <2>6. QED
    BY <2>1, <2>3, <2>4, <2>5, DayStays
<1>2. CASE RestartPanel
  <2>1. awaited' \in [Uploads -> BOOLEAN]
    BY <1>2 DEF RestartPanel, UploadType
  <2>2. UploadType' /\ \A v \in Uploads : stage'[v] \in Past => stage[v] \in Past
    BY <1>2, <2>1, ForgetAllTypes DEF RestartPanel
  <2>3. AdminType' /\ \A h \in Admins : step'[h] # "reread"
    BY <1>2 DEF RestartPanel, AdminType, Holding
  <2>4. WireType' /\ PushType'
    BY <1>2 DEF RestartPanel, WireType, PushType
  <2>5. PanelType' /\ AgentType' /\ EventType' /\ BoundType' /\ day' = day
    BY <1>2
    DEF RestartPanel, Fault, PanelType, panelVars, AgentType, agentVars, EventType, eventVars, BoundType
  <2>6. QED
    BY <2>2, <2>3, <2>4, <2>5, DayStays
<1>3. QED
  BY <1>1, <1>2

LEMMA NextTypes ==
  ASSUME TInv, [Next]_vars
  PROVE  TInv'
<1>1. CASE Next
  BY <1>1, AdminTypes, LinkTypes, UploadTypes, RestartTypes DEF Next
<1>2. CASE UNCHANGED vars
  BY <1>2
  DEF vars, panelVars, wireVars, adminVars, pushVars, agentVars, eventVars, uploadVars, boundVars,
      TInv, PanelType, WireType, AdminType, PushType, AgentType, EventType, UploadType, BoundType, DayKnown
<1>3. QED
  BY <1>1, <1>2

LEMMA HistFrame ==
  ASSUME [Next]_vars
  PROVE  \/ \E u \in Uploads : Adopt(u) \/ Complete(u) \/ ReadRev(u)
         \/ UNCHANGED histVars
<1>1. CASE AdminNext
  BY <1>1
  DEF AdminNext, SaveProfile, NewOp, Enqueue, WriteConfig, MarkSent, EditDay, RereadDay, SendDay, boundVars, histVars
<1>2. CASE LinkNext
  BY <1>2
  DEF LinkNext, Connect, FallBack, Drop, PushTake, PushWrite, PushMark, Advertise, Pull, Expire, Receive,
      boundVars, histVars
<1>3. CASE UploadNext
  BY <1>3
  DEF UploadNext, StartUpload, SendUpload, ReadDay, ReadBody, Answer, Discard, LoseUpload, boundVars, histVars
<1>4. CASE RestartAgent \/ RestartPanel \/ UNCHANGED vars
  BY <1>4 DEF RestartAgent, RestartPanel, vars, boundVars, histVars
<1>5. QED
  BY <1>1, <1>2, <1>3, <1>4 DEF Next

\* The history only grows, by revisions of the profile.
LEMMA HistStep ==
  ASSUME TInv, HistType, [Next]_vars
  PROVE  HistType' /\ torn \subseteq torn' /\ overtaken \subseteq overtaken'
<1>1. row.rev \in Revs /\ row'.rev \in Revs
  BY NextTypes DEF TInv, PanelType, Rows
<1>2. ASSUME NEW u \in Uploads, Adopt(u) \/ Complete(u)
      PROVE  torn' = torn /\ overtaken' \in {overtaken, overtaken \cup {row'.rev}}
  BY <1>2 DEF Adopt, Complete, ShowApplied
<1>3. ASSUME NEW u \in Uploads, ReadRev(u)
      PROVE  overtaken' = overtaken /\ torn' \in {torn, torn \cup {row.rev}}
  BY <1>3 DEF ReadRev
<1>4. QED
  BY <1>1, <1>2, <1>3, HistFrame DEF HistType, histVars

\* Every variable keeps to its type: a revision never exceeds its bound, and a
\* message that reaches the Agent always carries a day, so that what it puts
\* into runtimeconfig is a configuration.
THEOREM TypeCorrect == Spec => []TypeOK
<1>1. TInv /\ HistType /\ [Next]_vars => (TInv /\ HistType)'
  BY NextTypes, HistStep
<1>2. Init => TInv /\ HistType
  BY InitTypes DEF Init, HistType
<1>3. QED
  BY <1>1, <1>2, TInvTypes, PTL DEF Spec

-----------------------------------------------------------------------------
(* The profile: a revision names one body for good.                        *)

RowKept ==
  /\ row.rev # 0 => row.body # NoBody
  /\ row.status = "applied" => row.rev # 0

\* The two things a step does to the profile: it leaves revision and body
\* alone, or it begins the next revision.
SameRev ==
  /\ row'.rev = row.rev /\ row'.body = row.body /\ issued' = issued
  /\ row.status \in Finished => row'.status \in Finished
NextRev ==
  /\ row'.rev = row.rev + 1 /\ row'.body \in Bodies /\ row'.rev \in 1..MaxRev
  /\ issued' = [issued EXCEPT ![row'.rev] = row'.body]

\* An upload's handler has a profile once it has adopted one.
Served == \A u \in Uploads : stage[u] \in Past => row.rev # 0

LEMMA RowFrame ==
  ASSUME [Next]_vars
  PROVE  \/ \E h \in Admins, b \in Bodies, d \in Days : SaveProfile(h, b, d)
         \/ \E h \in Admins : MarkSent(h)
         \/ PushMark
         \/ \E u \in Uploads : Adopt(u) \/ Complete(u)
         \/ UNCHANGED <<row, issued>>
<1>1. CASE AdminNext
  BY <1>1 DEF AdminNext, Enqueue, WriteConfig, EditDay, RereadDay, SendDay, panelVars, boundVars
<1>2. CASE LinkNext
  BY <1>2
  DEF LinkNext, Connect, FallBack, Drop, PushTake, PushWrite, Advertise, Pull, Expire, Receive,
      panelVars, boundVars
<1>3. CASE UploadNext
  BY <1>3
  DEF UploadNext, StartUpload, SendUpload, ReadDay, ReadBody, ReadRev, Answer, Discard, LoseUpload,
      panelVars, boundVars
<1>4. CASE RestartAgent \/ RestartPanel
  BY <1>4 DEF RestartAgent, RestartPanel, panelVars
<1>5. CASE UNCHANGED vars
  BY <1>5 DEF vars, panelVars, boundVars
<1>6. QED
  BY <1>1, <1>2, <1>3, <1>4, <1>5 DEF Next

LEMMA SentRow ==
  ASSUME NEW r \in Revs, row \in Rows
  PROVE  /\ Sent(r).rev = row.rev /\ Sent(r).body = row.body
         /\ Sent(r).status \in {row.status, "sent"}
         /\ row.status \in Finished => Sent(r).status = row.status
         /\ row.status \notin {"saved", "sent"} => Sent(r).status = row.status
  BY DEF Sent, Rows, Finished

LEMMA RowStep ==
  ASSUME TInv, RowKept, Served, [Next]_vars
  PROVE  (SameRev \/ NextRev) /\ RowKept'
<1> USE Constants
<1>0. row \in Rows /\ row.rev \in Revs /\ row.rev <= ops + 1 /\ ops \in 0..MaxOps /\ row.status \in Statuses
  BY DEF TInv, PanelType, BoundType, Rows
<1>1. ASSUME NEW h \in Admins, NEW b \in Bodies, NEW d \in Days, SaveProfile(h, b, d)
      PROVE  (SameRev \/ NextRev) /\ RowKept'
  <2>1. CASE RuntimeChanged(b, d)
    <3>1. NewRevision = row.rev + 1 /\ NewRevision \in 1..MaxRev
      BY <1>0, <1>1 DEF SaveProfile, NewOp, NewRevision, Revs
    <3>2. row' = [rev |-> NewRevision, body |-> b, status |-> "saved"]
          /\ issued' = [issued EXCEPT ![NewRevision] = b]
      BY <1>1, <2>1 DEF SaveProfile
    <3>3. QED
      BY <3>1, <3>2, DeliveryAssumption DEF NextRev, RowKept
  <2>2. CASE ~RuntimeChanged(b, d)
    BY <1>1, <2>2 DEF SaveProfile, SameRev, RowKept
  <2>3. QED
    BY <2>1, <2>2
<1>2. ASSUME NEW r \in Revs, row' = Sent(r), issued' = issued PROVE SameRev /\ RowKept'
  BY <1>0, <1>2, SentRow DEF SameRev, RowKept
<1>3. ASSUME NEW h \in Admins, MarkSent(h) PROVE SameRev /\ RowKept'
  <2>1. order[h].rev \in Revs
    BY DEF TInv, AdminType, Messages
  <2>2. QED
    BY <1>2, <1>3, <2>1 DEF MarkSent, boundVars
<1>4. CASE PushMark
  <2>1. pushed.rev \in Revs
    BY DEF TInv, PushType, Messages
  <2>2. QED
    BY <1>2, <1>4, <2>1 DEF PushMark, boundVars
<1>5. ASSUME NEW u \in Uploads, Adopt(u) PROVE (SameRev \/ NextRev) /\ RowKept'
  <2>1. row' = Adopted(u)
        /\ issued' = IF row.rev = 0 THEN [issued EXCEPT ![1] = Adopted(u).body] ELSE issued
    BY <1>5 DEF Adopt
  <2>2. CASE row.rev = 0
    <3>1. row'.rev = 1 /\ row'.body \in Bodies
      BY <2>1, <2>2, AdoptedRow
    <3>2. issued' = [issued EXCEPT ![1] = row'.body]
      BY <2>1, <2>2
    <3>3. NextRev
      BY <2>2, <3>1, <3>2 DEF NextRev
    <3>4. QED
      BY <3>1, <3>3, DeliveryAssumption DEF RowKept
  <2>3. CASE row.rev # 0
    BY <2>1, <2>3, AdoptedRow DEF SameRev, RowKept, Finished
  <2>4. QED
    BY <2>2, <2>3
<1>6. ASSUME NEW u \in Uploads, Complete(u) PROVE SameRev /\ RowKept'
  <2>1. row.rev # 0
    BY <1>6 DEF Complete, HandlerStep, Served, Past
  <2>2. result[u].status \in Finished
    BY DEF TInv, UploadType, Results
  <2>3. row' = row \/ row' = [row EXCEPT !.status = result[u].status]
    BY <1>6 DEF Complete
  <2>4. issued' = issued
    BY <1>6 DEF Complete
  <2>5. row'.rev = row.rev /\ row'.body = row.body /\ row'.status \in {row.status} \cup Finished
    BY <1>0, <2>2, <2>3 DEF Rows
  <2>6. QED
    BY <2>1, <2>4, <2>5 DEF SameRev, RowKept
<1>7. CASE UNCHANGED <<row, issued>>
  BY <1>7 DEF SameRev, RowKept
<1>8. QED
  BY <1>1, <1>3, <1>4, <1>5, <1>6, <1>7, RowFrame

-----------------------------------------------------------------------------
(* Messages: what is under way was under way before, or is the revision    *)
(* that the step begins.                                                   *)

InFlight ==
  {NoMessage, pushed} \cup queue \cup {order[h] : h \in Admins} \cup {wire[i] : i \in 1..Len(wire)}

Alike(m, n) == m.rev = n.rev /\ m.body = n.body

Known(m) == \E n \in InFlight : Alike(m, n)

Begun(m) == NextRev /\ m.rev = row'.rev /\ m.body = row'.body

LEMMA OrderCarried ==
  ASSUME TInv, [Next]_vars, NEW g \in Admins
  PROVE  Known(order'[g]) \/ Begun(order'[g])
<1> DEFINE Old == order'[g] \in {order[g], NoMessage}
<1>0. Old => Known(order'[g])
  BY DEF Known, InFlight, Alike
<1>a. order \in [Admins -> Messages]
  BY DEF TInv, AdminType
<1>1. CASE AdminNext
  <2> PICK h \in Admins :
        \/ \E b \in Bodies, d \in Days : SaveProfile(h, b, d)
        \/ Enqueue(h) \/ WriteConfig(h) \/ MarkSent(h)
        \/ \E d \in Days : EditDay(h, d)
        \/ RereadDay(h) \/ SendDay(h)
    BY <1>1 DEF AdminNext
  <2>1. ASSUME NEW b \in Bodies, NEW d \in Days, SaveProfile(h, b, d)
        PROVE  Old \/ Begun(order'[g])
    <3>1. CASE g = h /\ RuntimeChanged(b, d)
      <4>1. /\ order'[g] = [id |-> ops + 1, rev |-> NewRevision, body |-> b, day |-> d]
            /\ row' = [rev |-> NewRevision, body |-> b, status |-> "saved"]
            /\ issued' = [issued EXCEPT ![NewRevision] = b]
        BY <1>a, <2>1, <3>1 DEF SaveProfile
      <4>2. NewRevision = row.rev + 1 /\ NewRevision \in 1..MaxRev
        BY <2>1, Constants DEF SaveProfile, NewOp, NewRevision, TInv, PanelType, BoundType, Rows, Revs
      <4>3. QED
        BY <4>1, <4>2 DEF Begun, NextRev
    <3>2. CASE g # h \/ ~RuntimeChanged(b, d)
      BY <1>a, <2>1, <3>2 DEF SaveProfile
    <3>3. QED
      BY <3>1, <3>2
  <2>2. CASE Return(h)
    BY <1>a, <1>0, <2>2 DEF Return
  <2>3. CASE UNCHANGED order
    BY <1>0, <2>3
  <2>4. ASSUME NEW d \in Days, EditDay(h, d) PROVE Known(order'[g])
    <3>1. order'[g] = order[g] \/ order'[g] = [id |-> ops + 1, rev |-> 0, body |-> NoBody, day |-> NoDay]
      BY <1>a, <2>4 DEF EditDay
    <3>2. QED
      <4>1. ASSUME order'[g] = [id |-> ops + 1, rev |-> 0, body |-> NoBody, day |-> NoDay]
            PROVE  Alike(order'[g], NoMessage)
        BY <4>1 DEF Alike, NoMessage
      <4>2. QED
        BY <1>0, <3>1, <4>1 DEF Known, InFlight
  <2>5. CASE RereadDay(h)
    <3>1. order'[g] = order[g] \/ order'[g] = [order[g] EXCEPT !.day = day]
      BY <1>a, <2>5 DEF RereadDay
    <3>2. order[g] \in Messages /\ order[g] \in InFlight
      BY <1>a DEF InFlight
    <3>3. QED
      BY <3>1, <3>2 DEF Known, Alike, Messages
  <2>6. QED
    BY <1>0, <2>1, <2>2, <2>3, <2>4, <2>5 DEF Enqueue, WriteConfig, MarkSent, SendDay
<1>2. CASE RestartPanel
  BY <1>0, <1>2 DEF RestartPanel
<1>3. CASE UNCHANGED order
  BY <1>0, <1>3
<1>4. CASE LinkNext
  BY <1>3, <1>4
  DEF LinkNext, Connect, FallBack, Drop, PushTake, PushWrite, PushMark, Advertise, Pull, Expire, Receive, adminVars
<1>5. CASE UploadNext
  BY <1>3, <1>5
  DEF UploadNext, StartUpload, SendUpload, Adopt, Complete, ReadDay, ReadBody, ReadRev, HandlerStep,
      Answer, Discard, LoseUpload, adminVars
<1>6. CASE RestartAgent \/ UNCHANGED vars
  BY <1>3, <1>6 DEF RestartAgent, vars, adminVars
<1>7. QED
  BY <1>1, <1>2, <1>4, <1>5, <1>6 DEF Next

LEMMA QueueCarried ==
  ASSUME [Next]_vars
  PROVE  queue' \subseteq queue \/ \E h \in Admins : queue' = {order[h]}
<1>1. CASE AdminNext
  BY <1>1
  DEF AdminNext, SaveProfile, NewOp, Enqueue, WriteConfig, MarkSent, EditDay, RereadDay, SendDay, wireVars
<1>2. CASE LinkNext
  BY <1>2
  DEF LinkNext, Connect, FallBack, Drop, PushTake, PushWrite, PushMark, Advertise, Pull, Expire, Receive,
      Without, wireVars
<1>3. CASE UploadNext
  BY <1>3
  DEF UploadNext, StartUpload, SendUpload, Adopt, Complete, ReadDay, ReadBody, ReadRev,
      Answer, Discard, LoseUpload, Without, wireVars
<1>4. CASE RestartAgent \/ RestartPanel \/ UNCHANGED vars
  BY <1>4 DEF RestartAgent, RestartPanel, vars, wireVars
<1>5. QED
  BY <1>1, <1>2, <1>3, <1>4 DEF Next

LEMMA WireCarried ==
  ASSUME TInv, [Next]_vars
  PROVE  \/ wire' \in {wire, <<>>}
         \/ wire # <<>> /\ wire' = Tail(wire)
         \/ \E e \in queue : wire' = <<e>>
         \/ wire' = Append(wire, pushed)
         \/ \E h \in Admins : wire' \in {Append(wire, order[h]), Append(wire, [order[h] EXCEPT !.id = 0])}
<1>1. CASE AdminNext
  BY <1>1
  DEF AdminNext, SaveProfile, NewOp, Enqueue, WriteConfig, MarkSent, EditDay, RereadDay, SendDay, wireVars
<1>2. CASE Pull
  BY <1>2 DEF Pull, Without
<1>3. CASE LinkNext /\ ~Pull
  BY <1>3
  DEF LinkNext, Connect, FallBack, Drop, Cut, PushTake, PushWrite, PushMark, Advertise, Expire, Receive, wireVars
<1>4. CASE UploadNext
  BY <1>4
  DEF UploadNext, StartUpload, SendUpload, Adopt, Complete, ReadDay, ReadBody, ReadRev, HandlerStep,
      Answer, Discard, LoseUpload, wireVars
<1>5. CASE RestartAgent \/ RestartPanel \/ UNCHANGED vars
  BY <1>5 DEF RestartAgent, Cut, RestartPanel, vars, wireVars
<1>6. QED
  BY <1>1, <1>2, <1>3, <1>4, <1>5 DEF Next

LEMMA PushedCarried ==
  ASSUME [Next]_vars
  PROVE  pushed' \in {pushed, NoMessage} \cup queue
<1>1. CASE AdminNext
  BY <1>1
  DEF AdminNext, SaveProfile, NewOp, Enqueue, WriteConfig, MarkSent, EditDay, RereadDay, SendDay, pushVars
<1>2. CASE LinkNext
  BY <1>2
  DEF LinkNext, Connect, FallBack, Drop, Cut, PushTake, PushWrite, PushMark, Advertise, Pull, Expire, Receive,
      pushVars
<1>3. CASE UploadNext
  BY <1>3
  DEF UploadNext, StartUpload, SendUpload, Adopt, Complete, ReadDay, ReadBody, ReadRev, HandlerStep,
      Answer, Discard, LoseUpload, pushVars
<1>4. CASE RestartAgent \/ RestartPanel \/ UNCHANGED vars
  BY <1>4 DEF RestartAgent, Cut, RestartPanel, vars, pushVars
<1>5. QED
  BY <1>1, <1>2, <1>3, <1>4 DEF Next

LEMMA Carried ==
  ASSUME TInv, [Next]_vars, NEW m \in InFlight'
  PROVE  Known(m) \/ Begun(m)
<1>0. \A n \in InFlight : Known(n)
  BY DEF Known, Alike
<1>1. CASE m \in {NoMessage, pushed'}
  BY <1>0, <1>1, PushedCarried DEF InFlight
<1>2. CASE m \in queue'
  BY <1>0, <1>2, QueueCarried DEF InFlight
<1>3. ASSUME NEW h \in Admins, m = order'[h] PROVE Known(m) \/ Begun(m)
  BY <1>3, OrderCarried
<1>4. ASSUME NEW i \in 1..Len(wire'), m = wire'[i] PROVE Known(m)
  <2>0. wire \in Seq(Dated) /\ wire' \in Seq(Dated) /\ queue \subseteq Dated /\ pushed \in Messages
        /\ order \in [Admins -> Messages]
    BY NextTypes DEF TInv, WireType, PushType, AdminType
  <2>1. CASE \E j \in 1..Len(wire) : m = wire[j]
    BY <1>0, <2>1 DEF InFlight
  <2>2. CASE wire' \in {wire, <<>>} \/ (wire # <<>> /\ wire' = Tail(wire))
    <3>1. CASE wire' \in {wire, <<>>}
      BY <1>4, <2>1, <3>1
    <3>2. CASE wire # <<>> /\ wire' = Tail(wire)
      <4>1. i + 1 \in 1..Len(wire) /\ Tail(wire)[i] = wire[i + 1]
        BY <2>0, <3>2
      <4>2. QED
        BY <1>4, <2>1, <3>2, <4>1
    <3>3. QED
      BY <2>2, <3>1, <3>2
  <2>3. CASE \E e \in queue : wire' = <<e>>
    BY <1>0, <1>4, <2>0, <2>3 DEF InFlight
  <2>4. ASSUME NEW n \in Messages, wire' = Append(wire, n), Known(n) PROVE Known(m)
    BY <1>4, <2>0, <2>1, <2>4
  <2>5. Known(pushed) /\ \A h \in Admins : Known(order[h])
    BY <1>0 DEF InFlight
  <2>6. ASSUME NEW h \in Admins
        PROVE  [order[h] EXCEPT !.id = 0] \in Messages /\ Known([order[h] EXCEPT !.id = 0])
    BY <2>0, <2>5, Constants DEF Known, Alike, Messages
  <2>7. QED
    BY <2>0, <2>2, <2>3, <2>4, <2>5, <2>6, WireCarried
<1>5. QED
  BY <1>1, <1>2, <1>3, <1>4 DEF InFlight

-----------------------------------------------------------------------------
(* Revisions: nothing under way is newer than the profile, and nothing the *)
(* Agent knows of is newer than what it has processed.                     *)

\* A message without a revision carries only the day.
Sound(m) == m.rev <= row.rev /\ (m.rev = 0 => m.body = NoBody)

MessagesSound == \A m \in InFlight : Sound(m)

AgentOrdered ==
  /\ processed <= row.rev /\ applied <= processed /\ pending.rev <= processed
  /\ processed = 0 => cfg.body = StartBody
  /\ acks \subseteq seen

UploadsOrdered ==
  \A u \in Uploads :
    /\ result[u].rev <= row.rev
    /\ awaited[u] => result[u].rev <= processed
    /\ stage[u] = "answer" => answer[u].rev # 0 /\ answer[u].rev <= row.rev

LEMMA InFlightTypes ==
  ASSUME TInv
  PROVE  InFlight \subseteq Messages
<1>1. queue \subseteq Messages /\ wire \in Seq(Messages) /\ pushed \in Messages /\ order \in [Admins -> Messages]
  BY DatedMessages DEF TInv, WireType, PushType, AdminType
<1>2. QED
  BY <1>1, Constants DEF InFlight

LEMMA MessagesStep ==
  ASSUME TInv, RowKept, Served, MessagesSound, [Next]_vars
  PROVE  MessagesSound'
<1> SUFFICES ASSUME NEW m \in InFlight' PROVE m.rev <= row'.rev /\ (m.rev = 0 => m.body = NoBody)
  BY DEF MessagesSound, Sound
<1>1. row.rev \in Nat /\ row'.rev \in Nat /\ row.rev <= row'.rev
  BY NextTypes, RowStep, Constants DEF TInv, PanelType, Rows, Revs, SameRev, NextRev
<1>2. CASE Known(m)
  <2>1. PICK n \in InFlight : Alike(m, n)
    BY <1>2 DEF Known
  <2>2. n.rev \in Nat /\ Sound(n)
    BY InFlightTypes, Constants DEF Messages, Revs, MessagesSound
  <2>3. QED
    BY <1>1, <2>1, <2>2 DEF Alike, Sound
<1>3. CASE Begun(m)
  BY <1>1, <1>3 DEF Begun, NextRev
<1>4. QED
  BY <1>2, <1>3, Carried

\* What a message does to the Agent.
LEMMA Processing ==
  ASSUME TInv, AgentOrdered, NEW m \in Dated, Sound(m), NEW id \in IDs, NEW ok \in BOOLEAN, ProcessConfig(m, ok)
  PROVE  /\ processed' \in {processed, m.rev} /\ processed' >= processed /\ processed' <= row.rev
         /\ applied' <= processed'
         /\ processed' = 0 => cfg'.body = StartBody
         /\ cfg'.body # cfg.body => processed' > processed
         /\ PendingAfter(m, id, ok).rev <= processed'
         /\ PendingAfter(m, id, ok) # pending => PendingAfter(m, id, ok).rev > processed
<1>0. /\ processed \in Nat /\ applied \in Nat /\ pending.rev \in Nat /\ m.rev \in Nat /\ row.rev \in Nat
      /\ cfg \in Configs
  BY Constants DEF TInv, AgentType, PanelType, Rows, Dated, Revs, Results
<1>1. CASE Stale(m)
  BY <1>0, <1>1 DEF ProcessConfig, PendingAfter, AgentOrdered
<1>2. CASE ~Stale(m) /\ m.rev = 0
  <2>1. cfg' = Merged(m, ok) /\ processed' = processed /\ applied' = applied
    BY <1>2 DEF ProcessConfig
  <2>2. m.body = NoBody
    BY <1>2 DEF Sound
  <2>3. Merged(m, ok) = cfg \/ Merged(m, ok) = [cfg EXCEPT !.day = m.day]
    BY <2>2 DEF Merged
  <2>4. cfg'.body = cfg.body
    BY <1>0, <2>1, <2>3 DEF Configs
  <2>5. QED
    BY <1>0, <1>2, <2>1, <2>4 DEF PendingAfter, AgentOrdered
<1>3. CASE ~Stale(m) /\ m.rev # 0
  <2>1. processed' = m.rev /\ applied' \in {applied, m.rev} /\ m.rev > processed
    BY <1>0, <1>3 DEF ProcessConfig, Stale
  <2>2. PendingAfter(m, id, ok).rev = m.rev
    BY <1>3 DEF PendingAfter
  <2>3. QED
    BY <1>0, <1>3, <2>1, <2>2 DEF AgentOrdered, Sound
<1>4. QED
  BY <1>1, <1>2, <1>3

LEMMA AgentFrame ==
  ASSUME [Next]_vars
  PROVE  \/ Receive
         \/ \E u \in Uploads : Answer(u)
         \/ RestartAgent
         \/ UNCHANGED <<agentVars, eventVars>>
<1>1. CASE AdminNext
  BY <1>1 DEF AdminNext, SaveProfile, NewOp, Enqueue, WriteConfig, MarkSent, EditDay, RereadDay, SendDay
<1>2. CASE LinkNext
  BY <1>2 DEF LinkNext, Connect, FallBack, Drop, PushTake, PushWrite, PushMark, Advertise, Pull, Expire
<1>3. CASE UploadNext
  BY <1>3
  DEF UploadNext, StartUpload, SendUpload, Adopt, Complete, ReadDay, ReadBody, ReadRev, HandlerStep,
      Discard, LoseUpload
<1>4. CASE RestartPanel \/ UNCHANGED vars
  BY <1>4 DEF RestartPanel, vars
<1>5. QED
  BY <1>1, <1>2, <1>3, <1>4 DEF Next

\* The message the Agent reads next, and the one in an answer.
LEMMA HeadInFlight ==
  ASSUME TInv, wire # <<>>
  PROVE  Head(wire) \in InFlight /\ Head(wire) \in Dated /\ Head(wire).id \in IDs
<1>1. wire \in Seq(Dated)
  BY DEF TInv, WireType
<1>2. 1 \in 1..Len(wire) /\ Head(wire) = wire[1] /\ Head(wire) \in Dated
  BY <1>1
<1>3. QED
  BY <1>2 DEF InFlight, Dated

LEMMA AnswerSound ==
  ASSUME TInv, UploadsOrdered, NEW u \in Uploads, stage[u] = "answer"
  PROVE  answer[u] \in Dated /\ Sound(answer[u]) /\ answer[u].rev # 0
  BY DEF TInv, UploadType, Dating, UploadsOrdered, Sound

LEMMA AgentStep ==
  ASSUME TInv, RowKept, Served, MessagesSound, AgentOrdered, UploadsOrdered, [Next]_vars
  PROVE  AgentOrdered'
<1> USE Constants
<1>0. /\ row.rev \in Nat /\ row'.rev \in Nat /\ row.rev <= row'.rev
      /\ processed \in Nat /\ processed' \in Nat
  BY NextTypes, RowStep DEF TInv, PanelType, AgentType, Rows, Revs, SameRev, NextRev
<1>1. CASE Receive
  <2>1. CASE UNCHANGED agentVars
    BY <1>0, <1>1, <2>1 DEF Receive, AgentOrdered, agentVars, panelVars
  <2>2. ASSUME NEW ok \in Outcomes, ProcessConfig(Head(wire), ok),
               pending' = PendingAfter(Head(wire), Head(wire).id, ok)
        PROVE  /\ processed' <= row.rev /\ applied' <= processed' /\ pending'.rev <= processed'
               /\ processed' = 0 => cfg'.body = StartBody
    BY <1>1, <2>2, HeadInFlight, Processing, OutcomesAreBoolean DEF Receive, MessagesSound
  <2>3. acks' \subseteq seen' /\ row' = row
    BY <1>1 DEF Receive, AgentOrdered, panelVars
  <2>4. QED
    BY <1>1, <2>1, <2>2, <2>3 DEF Receive, AgentOrdered
<1>2. ASSUME NEW u \in Uploads, Answer(u) PROVE AgentOrdered'
  <2>1. PICK ok \in Outcomes :
          ProcessConfig(answer[u], ok) /\ pending' = Cleared(PendingAfter(answer[u], 0, ok), u)
    BY <1>2 DEF Answer
  <2>2. answer[u] \in Dated /\ Sound(answer[u]) /\ 0 \in IDs /\ ok \in BOOLEAN
    BY <1>2, AnswerSound, OutcomesAreBoolean DEF Answer
  <2>3. pending' \in {PendingAfter(answer[u], 0, ok), NoResult}
    BY <2>1 DEF Cleared
  <2>4. /\ processed' <= row.rev /\ applied' <= processed' /\ pending'.rev <= processed'
        /\ processed' = 0 => cfg'.body = StartBody
    BY <1>0, <2>1, <2>2, <2>3, Processing DEF NoResult
  <2>5. QED
    BY <1>2, <2>4 DEF Answer, AgentOrdered, panelVars, eventVars
<1>3. CASE RestartAgent
  BY <1>0, <1>3 DEF RestartAgent, AgentOrdered, NoResult, Startup
<1>4. CASE UNCHANGED <<agentVars, eventVars>>
  BY <1>0, <1>4 DEF AgentOrdered, agentVars, eventVars
<1>5. QED
  BY <1>1, <1>2, <1>3, <1>4, AgentFrame

\* What a step does to an upload: it leaves it alone or only gives up waiting
\* for it, ends it, starts it, sends it, or takes its handler a step further.
Stays(v) ==
  /\ stage'[v] = stage[v] /\ result'[v] = result[v] /\ state'[v] = state[v] /\ answer'[v] = answer[v]
  /\ awaited'[v] => awaited[v]
Ends(v)   == stage'[v] = "idle" /\ ~awaited'[v] /\ result'[v] = NoResult
Starts(v) == stage'[v] = "build" /\ result'[v] = pending /\ UNCHANGED <<agentVars, row>>
Goes(v)   == stage'[v] = "adopt" /\ state'[v] = cfg /\ UNCHANGED <<result, awaited, agentVars, row>>
Moves(v)  ==
  \/ Adopt(v) \/ Complete(v) \/ ReadDay(v) \/ ReadBody(v) \/ ReadRev(v)

LEMMA UploadFrame ==
  ASSUME TInv, [Next]_vars, NEW v \in Uploads
  PROVE  Stays(v) \/ Ends(v) \/ Starts(v) \/ Goes(v) \/ Moves(v)
<1>0. /\ stage \in [Uploads -> {"idle", "build"} \cup Handled]
      /\ awaited \in [Uploads -> BOOLEAN] /\ result \in [Uploads -> Results]
      /\ state \in [Uploads -> Configs] /\ answer \in [Uploads -> Messages]
  BY DEF TInv, UploadType
<1>1. CASE UNCHANGED uploadVars
  BY <1>1 DEF uploadVars, Stays
<1>2. CASE AdminNext
  BY <1>1, <1>2
  DEF AdminNext, SaveProfile, NewOp, Enqueue, WriteConfig, MarkSent, EditDay, RereadDay, SendDay
<1>3. CASE LinkNext
  BY <1>1, <1>3
  DEF LinkNext, Connect, FallBack, Drop, PushTake, PushWrite, PushMark, Advertise, Pull, Expire, Receive
<1>4. CASE UploadNext
  <2> PICK u \in Uploads :
        \/ StartUpload(u) \/ SendUpload(u)
        \/ Adopt(u) \/ Complete(u)
        \/ ReadDay(u) \/ ReadBody(u) \/ ReadRev(u)
        \/ Answer(u) \/ Discard(u) \/ LoseUpload(u)
    BY <1>4 DEF UploadNext
  <2>1. CASE StartUpload(u)
    BY <1>0, <2>1 DEF StartUpload, Stays, Starts, panelVars
  <2>2. CASE SendUpload(u)
    BY <1>0, <2>2 DEF SendUpload, Stays, Goes, panelVars
  <2>3. CASE Adopt(u) \/ Complete(u) \/ ReadDay(u) \/ ReadBody(u) \/ ReadRev(u)
    <3>1. CASE u = v
      BY <2>3, <3>1 DEF Moves
    <3>2. CASE u # v
      <4>1. stage'[v] = stage[v] /\ UNCHANGED <<awaited, result, state>>
        BY <1>0, <2>3, <3>2 DEF Adopt, Complete, ReadDay, ReadBody, ReadRev, HandlerStep
      <4>2. answer'[v] = answer[v]
        BY <1>0, <2>3, <3>2 DEF Adopt, Complete, ReadDay, ReadBody, ReadRev
      <4>3. QED
        BY <4>1, <4>2 DEF Stays
    <3>3. QED
      BY <3>1, <3>2
  <2>4. CASE Forget(u)
    BY <1>0, <2>4 DEF Forget, Stays, Ends
  <2>5. CASE LoseUpload(u) /\ ~Forget(u)
    BY <1>0, <2>5 DEF LoseUpload, Stays
  <2>6. QED
    BY <2>1, <2>2, <2>3, <2>4, <2>5 DEF Answer, Discard
<1>5. CASE RestartAgent
  BY <1>0, <1>5 DEF RestartAgent, ForgetAll, Stays, Ends
<1>6. CASE RestartPanel
  BY <1>0, <1>6 DEF RestartPanel, ForgetAll, Stays, Ends
<1>7. QED
  BY <1>1, <1>2, <1>3, <1>4, <1>5, <1>6 DEF Next, vars

LEMMA MoveKeeps ==
  ASSUME TInv, NEW v \in Uploads, Moves(v)
  PROVE  /\ UNCHANGED <<awaited, result, state, agentVars>>
         /\ stage'[v] = "answer" => ReadRev(v) /\ answer'[v].rev = row.rev /\ answer'[v].body = answer[v].body
         /\ stage'[v] \in Past => stage[v] \in Past \/ Adopt(v)
<1>0. stage \in [Uploads -> {"idle", "build"} \cup Handled] /\ answer \in [Uploads -> Messages]
  BY DEF TInv, UploadType
<1>1. UNCHANGED <<awaited, result, state, agentVars>>
  BY DEF Moves, Adopt, Complete, ReadDay, ReadBody, ReadRev, HandlerStep
<1>2. CASE ReadRev(v)
  BY <1>0, <1>1, <1>2 DEF ReadRev, HandlerStep, Past, Messages
<1>3. CASE ~ReadRev(v)
  BY <1>0, <1>1, <1>3 DEF Moves, Adopt, Complete, ReadDay, ReadBody, HandlerStep, Past
<1>4. QED
  BY <1>2, <1>3

LEMMA ProcessedGrows ==
  ASSUME TInv, MessagesSound, AgentOrdered, UploadsOrdered, [Next]_vars
  PROVE  processed' >= processed \/ (RestartAgent /\ \A v \in Uploads : ~awaited'[v])
<1>0. processed \in Nat
  BY Constants DEF TInv, AgentType, Revs
<1>1. CASE Receive
  BY <1>0, <1>1, HeadInFlight, Processing, OutcomesAreBoolean DEF Receive, MessagesSound, agentVars
<1>2. ASSUME NEW u \in Uploads, Answer(u) PROVE processed' >= processed
  BY <1>2, AnswerSound, Processing, OutcomesAreBoolean, Constants DEF Answer
<1>3. CASE RestartAgent
  BY <1>3 DEF RestartAgent
<1>4. CASE UNCHANGED <<agentVars, eventVars>>
  BY <1>0, <1>4 DEF agentVars
<1>5. QED
  BY <1>1, <1>2, <1>3, <1>4, AgentFrame

LEMMA UploadsStep ==
  ASSUME TInv, RowKept, Served, MessagesSound, AgentOrdered, UploadsOrdered, [Next]_vars
  PROVE  Served' /\ UploadsOrdered'
<1> USE Constants
<1>0. row.rev \in Nat /\ row'.rev \in Nat /\ row.rev <= row'.rev /\ processed \in Nat /\ processed' \in Nat
  BY NextTypes, RowStep DEF TInv, PanelType, AgentType, Rows, Revs, SameRev, NextRev
<1>1. \A v \in Uploads : result[v].rev \in Nat /\ answer[v].rev \in Nat /\ pending.rev \in Nat
  BY DEF TInv, UploadType, AgentType, Results, Messages, Revs
<1> SUFFICES ASSUME NEW v \in Uploads
             PROVE  /\ stage'[v] \in Past => row'.rev # 0
                    /\ result'[v].rev <= row'.rev
                    /\ awaited'[v] => result'[v].rev <= processed'
                    /\ stage'[v] = "answer" => answer'[v].rev # 0 /\ answer'[v].rev <= row'.rev
  BY DEF Served, UploadsOrdered
<1>2. CASE Stays(v)
  <2>1. awaited'[v] => result'[v].rev <= processed'
    BY <1>0, <1>1, <1>2, ProcessedGrows DEF Stays, UploadsOrdered
  <2>2. QED
    BY <1>0, <1>1, <1>2, <2>1 DEF Stays, Served, UploadsOrdered
<1>3. CASE Ends(v)
  BY <1>0, <1>3 DEF Ends, NoResult, Past
<1>4. CASE Starts(v)
  BY <1>0, <1>1, <1>4 DEF Starts, AgentOrdered, agentVars, Past
<1>5. CASE Goes(v)
  BY <1>0, <1>1, <1>5 DEF Goes, UploadsOrdered, agentVars, Past
<1>6. CASE Moves(v)
  <2>1. UNCHANGED <<awaited, result, state, agentVars>>
    BY <1>6, MoveKeeps
  <2>2. stage'[v] \in Past => row'.rev # 0
    <3>1. CASE Adopt(v)
      BY <3>1, AdoptedRow DEF Adopt
    <3>2. CASE ~Adopt(v)
      BY <1>0, <1>6, <3>2, MoveKeeps DEF Served
    <3>3. QED
      BY <3>1, <3>2
  <2>3. stage'[v] = "answer" => answer'[v].rev = row.rev /\ row' = row
    BY <1>6, MoveKeeps DEF ReadRev, panelVars
  <2>4. stage'[v] = "answer" => stage'[v] \in Past
    BY DEF Past
  <2>5. QED
    BY <1>0, <1>1, <2>1, <2>2, <2>3, <2>4 DEF UploadsOrdered, agentVars
<1>7. QED
  BY <1>2, <1>3, <1>4, <1>5, <1>6, UploadFrame

\* Everything so far, for every schedule.
OInv == TInv /\ RowKept /\ Served /\ MessagesSound /\ AgentOrdered /\ UploadsOrdered

LEMMA InitOrdered == Init => OInv
<1> SUFFICES ASSUME Init PROVE OInv
  OBVIOUS
<1> USE Constants
<1>1. TInv
  BY InitTypes
<1>2. RowKept /\ Served /\ row.rev = 0
  BY DEF Init, NoRow, RowKept, Served, Past
<1>3. InFlight \subseteq {NoMessage}
  BY DEF Init, InFlight
<1>4. MessagesSound
  BY <1>2, <1>3 DEF MessagesSound, Sound, NoMessage
<1>5. AgentOrdered /\ UploadsOrdered
  BY <1>2 DEF Init, AgentOrdered, UploadsOrdered, NoResult, Startup
<1>6. QED
  BY <1>1, <1>2, <1>4, <1>5 DEF OInv

LEMMA NextOrdered ==
  ASSUME OInv, [Next]_vars
  PROVE  OInv'
  BY NextTypes, RowStep, MessagesStep, AgentStep, UploadsStep DEF OInv

-----------------------------------------------------------------------------
(* Events: a request's event is its own, and it is queued at most once.     *)

Waiting == {"dispatch", "reread", "sendDay"}

Numbered ==
  /\ \A e \in queue : e.id \in 1..ops
  /\ \A h \in Admins : step[h] # "idle" => order[h].id \in 1..ops
  /\ \A h, g \in Admins : h # g /\ step[h] # "idle" /\ step[g] # "idle" => order[h].id # order[g].id
  /\ \A h \in Admins : step[h] \in Waiting => \A e \in queue : e.id # order[h].id

\* What a step does to the requests and the queue: a new request, with a number
\* of its own; a request that goes on or ends, its event perhaps put into the
\* queue; or events leave the queue.
BeginsRequest(h) ==
  /\ step[h] = "idle" /\ ops' = ops + 1 /\ queue' = queue
  /\ order'[h].id = ops + 1
  /\ \A g \in Admins : g # h => step'[g] = step[g] /\ order'[g] = order[g]
GoesOn(h) ==
  /\ step[h] # "idle" /\ ops' = ops
  /\ \A g \in Admins : g # h => step'[g] = step[g] /\ order'[g] = order[g]
  /\ step'[h] # "idle" => order'[h].id = order[h].id /\ (step'[h] \in Waiting => step[h] \in Waiting)
  /\ \/ queue' = queue
     \/ queue' = {order[h]} /\ step[h] \in Waiting /\ step'[h] \notin Waiting
OnlyLeaves ==
  /\ ops' \in {ops, ops + 1} /\ queue' \subseteq queue
  /\ \A g \in Admins : step'[g] = "idle" \/ (step'[g] = step[g] /\ order'[g] = order[g])

LEMMA RequestFrame ==
  ASSUME TInv, [Next]_vars
  PROVE  OnlyLeaves \/ \E h \in Admins : BeginsRequest(h) \/ GoesOn(h)
<1>0. /\ step \in [Admins -> {"idle", "dispatch", "write", "mark", "reread", "sendDay"}]
      /\ order \in [Admins -> Messages]
  BY DEF TInv, AdminType
<1>1. CASE AdminNext
  <2> PICK h \in Admins :
        \/ \E b \in Bodies, d \in Days : SaveProfile(h, b, d)
        \/ Enqueue(h) \/ WriteConfig(h) \/ MarkSent(h)
        \/ \E d \in Days : EditDay(h, d)
        \/ RereadDay(h) \/ SendDay(h)
    BY <1>1 DEF AdminNext
  <2>1. ASSUME NEW b \in Bodies, NEW d \in Days, SaveProfile(h, b, d)
        PROVE  BeginsRequest(h) \/ OnlyLeaves
    BY <1>0, <2>1 DEF SaveProfile, NewOp, wireVars, BeginsRequest, OnlyLeaves
  <2>2. ASSUME NEW d \in Days, EditDay(h, d) PROVE BeginsRequest(h)
    BY <1>0, <2>2 DEF EditDay, NewOp, wireVars, BeginsRequest
  <2>3. CASE Enqueue(h)
    BY <1>0, <2>3 DEF Enqueue, Return, GoesOn, Waiting, boundVars
  <2>4. CASE WriteConfig(h)
    BY <1>0, <2>4 DEF WriteConfig, Return, GoesOn, Waiting, boundVars
  <2>5. CASE MarkSent(h)
    BY <1>0, <2>5 DEF MarkSent, Return, GoesOn, Waiting, wireVars, boundVars
  <2>6. CASE RereadDay(h)
    BY <1>0, <2>6 DEF RereadDay, GoesOn, Waiting, wireVars, boundVars, Messages
  <2>7. CASE SendDay(h)
    BY <1>0, <2>7 DEF SendDay, Return, GoesOn, Waiting, boundVars
  <2>8. QED
    BY <2>1, <2>2, <2>3, <2>4, <2>5, <2>6, <2>7
<1>2. CASE LinkNext
  BY <1>2, QueueCarried
  DEF LinkNext, Connect, FallBack, Drop, PushTake, PushWrite, PushMark, Advertise, Pull, Expire, Receive,
      Without, adminVars, boundVars, wireVars, OnlyLeaves
<1>3. CASE UploadNext
  BY <1>3
  DEF UploadNext, StartUpload, SendUpload, Adopt, Complete, ReadDay, ReadBody, ReadRev, HandlerStep,
      Answer, Discard, LoseUpload, Without, adminVars, boundVars, wireVars, OnlyLeaves
<1>4. CASE RestartAgent \/ RestartPanel \/ UNCHANGED vars
  BY <1>4 DEF RestartAgent, RestartPanel, vars, adminVars, boundVars, wireVars, OnlyLeaves
<1>5. QED
  BY <1>1, <1>2, <1>3, <1>4 DEF Next

LEMMA NumberedStep ==
  ASSUME TInv, Numbered, [Next]_vars
  PROVE  Numbered'
<1>0. ops \in Nat /\ ops' \in Nat
  BY NextTypes, Constants DEF TInv, BoundType
<1>1. CASE OnlyLeaves
  BY <1>0, <1>1 DEF OnlyLeaves, Numbered, Waiting
<1>2. ASSUME NEW h \in Admins, BeginsRequest(h) PROVE Numbered'
  <2>1. \A g \in Admins : step'[g] # "idle" =>
           g = h \/ (step[g] # "idle" /\ step'[g] = step[g] /\ order'[g].id = order[g].id)
    BY <1>2 DEF BeginsRequest
  <2>2. order'[h].id = ops + 1 /\ ops' = ops + 1 /\ queue' = queue
    BY <1>2 DEF BeginsRequest
  <2>3. \A e \in queue' : e.id \in 1..ops
    BY <2>2 DEF Numbered
  <2>4. \A g \in Admins : g # h /\ step'[g] # "idle" => order'[g].id \in 1..ops
    BY <2>1 DEF Numbered
  <2>5. \A g \in Admins : step'[g] \in Waiting => \A e \in queue' : e.id # order'[g].id
    BY <1>0, <2>1, <2>2, <2>3 DEF Numbered, Waiting
  <2>6. \A f, g \in Admins : f # g /\ step'[f] # "idle" /\ step'[g] # "idle" => order'[f].id # order'[g].id
    BY <1>0, <2>1, <2>2, <2>4 DEF Numbered
  <2>7. QED
    BY <1>0, <2>2, <2>3, <2>4, <2>5, <2>6 DEF Numbered
<1>3. ASSUME NEW h \in Admins, GoesOn(h) PROVE Numbered'
  <2>1. \A g \in Admins : step'[g] # "idle" =>
           step[g] # "idle" /\ order'[g].id = order[g].id /\ (step'[g] \in Waiting => step[g] \in Waiting)
    BY <1>3 DEF GoesOn
  <2>2. ops' = ops
    BY <1>3 DEF GoesOn
  <2>3. CASE queue' = queue
    BY <2>1, <2>2, <2>3 DEF Numbered, Waiting
  <2>4. CASE queue' = {order[h]} /\ step[h] \in Waiting /\ step'[h] \notin Waiting
    <3>1. order[h].id \in 1..ops /\ step[h] # "idle"
      BY <2>4 DEF Numbered, Waiting
    <3>2. \A g \in Admins : step'[g] \in Waiting => g # h /\ order'[g].id # order[h].id
      BY <2>1, <2>4, <3>1 DEF Numbered, Waiting
    <3>3. QED
      BY <2>1, <2>2, <2>4, <3>1, <3>2 DEF Numbered, Waiting
  <2>5. QED
    BY <1>3, <2>3, <2>4 DEF GoesOn
<1>4. QED
  BY <1>1, <1>2, <1>3, RequestFrame

-----------------------------------------------------------------------------
(* No step back.                                                           *)

DInv == OInv /\ Numbered /\ HistType

LEMMA InitDelivery == Init => DInv
  BY InitOrdered DEF Init, Numbered, DInv, HistType

LEMMA NextDelivery ==
  ASSUME DInv, [Next]_vars
  PROVE  DInv'
  BY NextOrdered, NumberedStep, HistStep DEF DInv, OInv

\* The four action properties, one by one.
LEMMA FinishedStays ==
  ASSUME DInv, [Next]_vars, row.status \in Finished, row'.rev = row.rev
  PROVE  row'.status \in Finished
<1>1. row.rev \in Nat
  BY Constants DEF DInv, OInv, TInv, PanelType, Rows, Revs
<1>2. QED
  BY <1>1, RowStep DEF DInv, OInv, SameRev, NextRev

LEMMA AgentGoesForward ==
  ASSUME DInv, [Next]_vars
  PROVE  /\ processed' # processed => processed' > processed \/ (processed' = 0 /\ cfg' = Startup)
         /\ cfg'.body # cfg.body => processed' # processed
<1>0. processed \in Nat /\ processed' \in Nat
  BY NextTypes, Constants DEF DInv, OInv, TInv, AgentType, Revs
<1> DEFINE Forward == /\ processed' # processed => processed' > processed
                      /\ cfg'.body # cfg.body => processed' # processed
<1>1. CASE Receive
  <2>1. CASE UNCHANGED agentVars
    BY <2>1 DEF agentVars
  <2>2. ASSUME NEW ok \in Outcomes, ProcessConfig(Head(wire), ok) PROVE Forward
    <3>1. /\ Head(wire) \in Dated /\ Sound(Head(wire)) /\ ok \in BOOLEAN /\ 0 \in IDs
          /\ TInv /\ AgentOrdered
      BY <1>1, HeadInFlight, OutcomesAreBoolean, Constants DEF Receive, MessagesSound, DInv, OInv
    <3>2. QED
      BY <1>0, <2>2, <3>1, Processing
  <2>3. QED
    BY <1>1, <2>1, <2>2 DEF Receive
<1>2. ASSUME NEW u \in Uploads, Answer(u) PROVE Forward
  <2>1. PICK ok \in Outcomes : ProcessConfig(answer[u], ok)
    BY <1>2 DEF Answer
  <2>2. /\ answer[u] \in Dated /\ Sound(answer[u]) /\ ok \in BOOLEAN /\ 0 \in IDs
        /\ TInv /\ AgentOrdered
    BY <1>2, AnswerSound, OutcomesAreBoolean, Constants DEF Answer, DInv, OInv
  <2>3. QED
    BY <1>0, <2>1, <2>2, Processing
<1>3. CASE RestartAgent
  BY <1>3 DEF RestartAgent, DInv, OInv, AgentOrdered, Startup
<1>4. CASE UNCHANGED <<agentVars, eventVars>>
  BY <1>4 DEF agentVars
<1>5. QED
  BY <1>1, <1>2, <1>3, <1>4, AgentFrame

LEMMA EventsLeave ==
  ASSUME DInv, [Next]_vars, NEW e \in queue \ queue'
  PROVE  \/ e.id \in seen
         \/ \E f \in queue' : f.id # e.id
         \/ \E u \in Uploads : result[u].id = e.id
         \/ faults' # faults
<1>0. faults \in Nat /\ acks \subseteq seen
  BY Constants DEF DInv, OInv, TInv, BoundType, AgentOrdered
<1>1. ASSUME NEW h \in Admins, queue' = {order[h]}, step[h] \in Waiting
      PROVE  \E f \in queue' : f.id # e.id
  BY <1>1 DEF DInv, Numbered
<1>2. CASE AdminNext
  <2> PICK h \in Admins :
        \/ \E b \in Bodies, d \in Days : SaveProfile(h, b, d)
        \/ Enqueue(h) \/ WriteConfig(h) \/ MarkSent(h)
        \/ \E d \in Days : EditDay(h, d)
        \/ RereadDay(h) \/ SendDay(h)
    BY <1>2 DEF AdminNext
  <2>1. queue' = {order[h]} /\ step[h] \in Waiting
    BY DEF SaveProfile, NewOp, Enqueue, WriteConfig, MarkSent, EditDay, RereadDay, SendDay, wireVars, Waiting
  <2>2. QED
    BY <1>1, <2>1
<1>3. CASE Advertise \/ Pull
  BY <1>0, <1>3 DEF Advertise, Pull, Without
<1>4. CASE Drop \/ Expire \/ RestartAgent \/ RestartPanel
  BY <1>0, <1>4 DEF Drop, Expire, RestartAgent, RestartPanel, Fault
<1>5. CASE Connect \/ FallBack \/ PushTake \/ PushWrite \/ PushMark \/ Receive
  BY <1>5 DEF Connect, FallBack, PushTake, PushWrite, PushMark, Receive, wireVars
<1>6. ASSUME NEW u \in Uploads, Complete(u) PROVE result[u].id = e.id
  BY <1>6 DEF Complete, Without
<1>7. CASE UploadNext /\ ~\E u \in Uploads : Complete(u)
  BY <1>7
  DEF UploadNext, StartUpload, SendUpload, Adopt, ReadDay, ReadBody, ReadRev, Answer, Discard, LoseUpload, wireVars
<1>8. CASE UNCHANGED vars
  BY <1>8 DEF vars, wireVars
<1>9. QED
  BY <1>2, <1>3, <1>4, <1>5, <1>6, <1>7, <1>8 DEF Next, LinkNext

LEMMA ResultStays ==
  ASSUME DInv, [Next]_vars, pending.rev # 0, pending' # pending
  PROVE  \/ pending'.rev > pending.rev
         \/ processed' = 0
         \/ \E u \in Uploads : stage[u] = "answer" /\ result[u] = pending
<1>0. /\ TInv /\ AgentOrdered /\ processed \in Nat /\ pending.rev \in Nat /\ 0 \in IDs
      /\ pending.rev <= processed
  BY Constants DEF DInv, OInv, TInv, AgentType, Revs, Results, AgentOrdered
<1>1. CASE Receive
  <2>1. PICK ok \in Outcomes :
          /\ ProcessConfig(Head(wire), ok)
          /\ pending' = PendingAfter(Head(wire), Head(wire).id, ok)
    BY <1>1 DEF Receive, agentVars
  <2>2. Head(wire) \in Dated /\ Head(wire).id \in IDs /\ Sound(Head(wire)) /\ ok \in BOOLEAN
    BY <1>1, HeadInFlight, OutcomesAreBoolean DEF Receive, MessagesSound, DInv, OInv
  <2>3. pending'.rev > processed /\ pending'.rev \in Nat
    BY <1>0, <2>1, <2>2, Processing, ProcessTypes, Constants DEF TInv, Results, Revs
  <2>4. QED
    BY <1>0, <2>3
<1>2. ASSUME NEW u \in Uploads, Answer(u)
      PROVE  pending'.rev > pending.rev \/ (stage[u] = "answer" /\ result[u] = pending)
  <2>1. PICK ok \in Outcomes :
          /\ ProcessConfig(answer[u], ok)
          /\ pending' = Cleared(PendingAfter(answer[u], 0, ok), u)
    BY <1>2 DEF Answer
  <2>2. stage[u] = "answer" /\ awaited[u]
    BY <1>2 DEF Answer
  <2>3. answer[u] \in Dated /\ Sound(answer[u]) /\ ok \in BOOLEAN
    BY <2>2, AnswerSound, OutcomesAreBoolean DEF DInv, OInv
  <2>4. result[u].rev <= processed /\ result[u].rev \in Nat
    BY <2>2, Constants DEF DInv, OInv, UploadsOrdered, TInv, UploadType, Results, Revs
  <2>5. CASE PendingAfter(answer[u], 0, ok) = pending
    BY <2>1, <2>2, <2>5 DEF Cleared
  <2>6. CASE PendingAfter(answer[u], 0, ok) # pending
    <3>1. PendingAfter(answer[u], 0, ok).rev > processed /\ PendingAfter(answer[u], 0, ok).rev \in Nat
      BY <1>0, <2>1, <2>3, <2>6, Processing, ProcessTypes, Constants DEF TInv, Results, Revs
    <3>2. PendingAfter(answer[u], 0, ok) # result[u]
      BY <1>0, <2>4, <3>1
    <3>3. QED
      BY <1>0, <2>1, <3>1, <3>2 DEF Cleared
  <2>7. QED
    BY <2>5, <2>6
<1>3. CASE RestartAgent
  BY <1>3 DEF RestartAgent
<1>4. CASE UNCHANGED <<agentVars, eventVars>>
  BY <1>4 DEF agentVars
<1>5. QED
  BY <1>1, <1>2, <1>3, <1>4, AgentFrame

\* Neither end takes a step back, whatever is lost, repeated or overtaken: a
\* revision whose result the panel has stays finished, the Agent goes to newer
\* revisions only, a versioned setting changes with the revision alone, and an
\* event stays queued until the Agent has dealt with it or a newer one is there.
THEOREM NoStepIsBack == Spec => NoStepBack
<1>1. DInv /\ [Next]_vars => DInv'
  BY NextDelivery
<1>2. DInv /\ [Next]_vars =>
        [row.status \in Finished /\ row'.rev = row.rev => row'.status \in Finished]_row
  BY FinishedStays
<1>3. DInv /\ [Next]_vars => [processed' > processed \/ (processed' = 0 /\ cfg' = Startup)]_processed
  BY AgentGoesForward
<1>4. DInv /\ [Next]_vars => [processed' # processed]_(cfg.body)
  BY AgentGoesForward
<1>5. DInv /\ [Next]_vars =>
        [\A e \in queue \ queue' :
           \/ e.id \in seen
           \/ \E f \in queue' : f.id # e.id
           \/ \E u \in Uploads : result[u].id = e.id
           \/ faults' # faults]_queue
  BY EventsLeave
<1>6. QED
  BY InitDelivery, <1>1, <1>2, <1>3, <1>4, <1>5, PTL
  DEF Spec, NoStepBack, FinishedStaysFinished, NeverBack, BodyOnlyByRevision, RemovedWhenSeen

\* A result the Agent has not delivered stays pending until a newer revision
\* replaces it, the panel's answer to the upload that carried it arrives, or
\* the Agent restarts: an answer to an earlier upload does not clear it.
THEOREM NoResultIsLost == Spec => ResultNotLost
<1>1. DInv /\ [Next]_vars => DInv'
  BY NextDelivery
<1>2. DInv /\ [Next]_vars =>
        [pending.rev # 0 /\ pending' # pending
           => \/ pending'.rev > pending.rev
              \/ processed' = 0
              \/ \E u \in Uploads : stage[u] = "answer" /\ result[u] = pending]_pending
  BY ResultStays
<1>3. QED
  BY InitDelivery, <1>1, <1>2, PTL DEF Spec, ResultNotLost

-----------------------------------------------------------------------------
(* What the Agent runs.  A message carries the body that was saved under   *)
(* its revision; so does an answer, which is put together from two reads,  *)
(* unless its revision is torn.                                            *)

Faithful(m) == m.rev # 0 => m.body = issued[m.rev] /\ m.body # NoBody

\* As an answer is: at least a body that was saved.
Nearly(m) == m.rev # 0 => m.body # NoBody /\ (m.body = issued[m.rev] \/ m.rev \in torn)

MessagesFaithful == \A m \in InFlight : Faithful(m)
RowIssued        == row.rev # 0 => row.body = issued[row.rev]
AnswersFaithful  ==
  \A u \in Uploads :
    /\ stage[u] = "readRev" => answer[u].body # NoBody
    /\ stage[u] = "answer"  => Nearly(answer[u])

BInv ==
  /\ DInv /\ MessagesFaithful /\ RowIssued /\ AnswersFaithful
  /\ RunsWhatItClaims /\ RelayAgrees

LEMMA InitFaithful == Init => BInv
<1> SUFFICES ASSUME Init PROVE BInv
  OBVIOUS
<1>1. InFlight \subseteq {NoMessage}
  BY DEF Init, InFlight
<1>2. MessagesFaithful
  BY <1>1 DEF MessagesFaithful, Faithful, NoMessage
<1>3. RowIssued /\ AnswersFaithful /\ RunsWhatItClaims /\ RelayAgrees
  BY DEF Init, NoRow, RowIssued, AnswersFaithful, RunsWhatItClaims, RelayAgrees, Startup
<1>4. QED
  BY <1>2, <1>3, InitDelivery DEF BInv

\* A revision that was given out keeps its body.
LEMMA IssuedStays ==
  ASSUME DInv, [Next]_vars, NEW r \in Revs, r # 0, r <= row.rev
  PROVE  issued'[r] = issued[r]
<1>1. /\ row.rev \in Nat /\ r \in 1..MaxRev
      /\ issued \in [1..MaxRev -> Bodies \cup {NoBody}]
  BY Constants DEF DInv, OInv, TInv, PanelType, BoundType, Rows, Revs
<1>2. CASE SameRev
  BY <1>2 DEF SameRev
<1>3. CASE NextRev
  BY <1>1, <1>3 DEF NextRev
<1>4. QED
  BY <1>2, <1>3, RowStep DEF DInv, OInv

LEMMA StaysFaithful ==
  ASSUME DInv, [Next]_vars, NEW m, m.rev \in Revs, m.rev <= row.rev, Faithful(m)
  PROVE  m.rev # 0 => m.body = issued'[m.rev] /\ m.body # NoBody
  BY IssuedStays DEF Faithful

LEMMA MessagesFaithfulStep ==
  ASSUME DInv, RowIssued, MessagesFaithful, [Next]_vars
  PROVE  MessagesFaithful' /\ RowIssued'
<1> USE DEF DInv, OInv
<1>0. row.rev \in Revs /\ row.rev \in Nat /\ issued \in [1..MaxRev -> Bodies \cup {NoBody}]
  BY Constants DEF TInv, PanelType, BoundType, Rows, Revs
<1>1. NextRev => row'.rev # 0 /\ row'.body = issued'[row'.rev] /\ row'.body # NoBody
  BY <1>0, DeliveryAssumption DEF NextRev
<1>2. RowIssued'
  BY <1>0, <1>1, RowStep DEF SameRev, RowIssued
<1>3. ASSUME NEW m \in InFlight' PROVE Faithful(m)'
  <2>1. CASE Known(m)
    <3>1. PICK n \in InFlight : Alike(m, n)
      BY <2>1 DEF Known
    <3>2. n.rev \in Revs /\ n.rev <= row.rev /\ Faithful(n)
      BY InFlightTypes DEF Messages, MessagesSound, Sound, MessagesFaithful
    <3>3. QED
      BY <3>1, <3>2, StaysFaithful DEF Alike, Faithful
  <2>2. CASE Begun(m)
    BY <1>1, <2>2 DEF Begun, Faithful
  <2>3. QED
    BY <2>1, <2>2, Carried
<1>4. QED
  BY <1>2, <1>3 DEF MessagesFaithful

LEMMA AnswersFaithfulStep ==
  ASSUME DInv, RowIssued, AnswersFaithful, [Next]_vars
  PROVE  AnswersFaithful'
<1> USE DEF DInv, OInv
<1> SUFFICES ASSUME NEW v \in Uploads
             PROVE  /\ stage'[v] = "readRev" => answer'[v].body # NoBody
                    /\ stage'[v] = "answer"  => Nearly(answer[v])'
  BY DEF AnswersFaithful
<1>0. /\ stage \in [Uploads -> {"idle", "build"} \cup Handled] /\ answer \in [Uploads -> Messages]
      /\ answer[v].rev \in Revs /\ torn \subseteq torn'
  BY HistStep DEF TInv, UploadType, Messages
<1>1. CASE Stays(v)
  <2>1. stage'[v] = "readRev" => answer'[v].body # NoBody
    BY <1>1 DEF Stays, AnswersFaithful
  <2>2. ASSUME stage'[v] = "answer" PROVE Nearly(answer[v])'
    <3>1. stage[v] = "answer" /\ answer'[v] = answer[v]
      BY <1>1, <2>2 DEF Stays
    <3>2. answer[v].rev # 0 /\ issued'[answer[v].rev] = issued[answer[v].rev]
      BY <1>0, <3>1, IssuedStays DEF UploadsOrdered
    <3>3. QED
      BY <1>0, <3>1, <3>2 DEF AnswersFaithful, Nearly
  <2>3. QED
    BY <2>1, <2>2
<1>2. CASE Ends(v) \/ Starts(v) \/ Goes(v)
  BY <1>2 DEF Ends, Starts, Goes
<1>3. CASE ReadBody(v)
  BY <1>0, <1>3 DEF ReadBody, HandlerStep, panelVars, Messages, Served, Past, RowKept
<1>4. CASE ReadRev(v)
  <2>1. /\ stage[v] = "readRev" /\ stage'[v] = "answer" /\ row' = row /\ issued' = issued
        /\ answer'[v].rev = row.rev /\ answer'[v].body = answer[v].body
        /\ answer[v].body = row.body \/ row.rev \in torn'
    BY <1>0, <1>4 DEF ReadRev, HandlerStep, panelVars, Messages
  <2>2. QED
    BY <2>1 DEF AnswersFaithful, RowIssued, Nearly
<1>5. CASE Adopt(v) \/ Complete(v) \/ ReadDay(v)
  BY <1>0, <1>5 DEF Adopt, Complete, ReadDay, HandlerStep
<1>6. QED
  BY <1>1, <1>2, <1>3, <1>4, <1>5, UploadFrame DEF Moves

\* The Agent puts into use what a message carries, and tells the helper.
LEMMA ProcessingFaithful ==
  ASSUME TInv, AgentOrdered, RunsWhatItClaims, RelayAgrees,
         NEW m \in Dated, Sound(m), Nearly(m), NEW ok \in BOOLEAN, ProcessConfig(m, ok)
  PROVE  /\ applied' # 0 => cfg'.body = issued[applied'] \/ applied' \in torn
         /\ applied' = processed' => relay' = (cfg'.body \in Hermes)
<1>0. /\ cfg \in Configs /\ m.rev \in Nat /\ processed \in Nat /\ applied \in Nat
      /\ applied <= processed
  BY Constants DEF TInv, AgentType, Dated, Revs, AgentOrdered
<1>1. CASE Stale(m)
  BY <1>1 DEF ProcessConfig, RunsWhatItClaims, RelayAgrees
<1>2. CASE ~Stale(m) /\ m.rev = 0
  <2>1. cfg' = Merged(m, ok) /\ applied' = applied /\ processed' = processed /\ relay' \in Relays(m, ok)
    BY <1>2 DEF ProcessConfig
  <2>2. m.body = NoBody
    BY <1>2 DEF Sound
  <2>3. Merged(m, ok) = cfg \/ Merged(m, ok) = [cfg EXCEPT !.day = m.day]
    BY <2>2 DEF Merged
  <2>4. cfg'.body = cfg.body
    BY <1>0, <2>1, <2>3 DEF Configs
  <2>5. relay' = relay
    BY <2>1, <2>2 DEF Relays
  <2>6. QED
    BY <2>1, <2>4, <2>5 DEF RunsWhatItClaims, RelayAgrees
<1>3. CASE ~Stale(m) /\ m.rev # 0 /\ ~ok
  <2>1. cfg' = cfg /\ applied' = applied /\ processed' = m.rev /\ m.rev > processed
    BY <1>0, <1>3 DEF ProcessConfig, Merged, Stale
  <2>2. applied' # processed'
    BY <1>0, <2>1
  <2>3. QED
    BY <2>1, <2>2 DEF RunsWhatItClaims
<1>4. CASE ~Stale(m) /\ m.rev # 0 /\ ok
  <2>1. cfg' = Merged(m, ok) /\ applied' = m.rev /\ relay' \in Relays(m, ok)
    BY <1>4 DEF ProcessConfig
  <2>2. m.body # NoBody /\ (m.body = issued[m.rev] \/ m.rev \in torn)
    BY <1>4 DEF Nearly
  <2>3. Merged(m, ok) = [body |-> m.body, day |-> m.day] /\ Relays(m, ok) = {m.body \in Hermes}
    BY <1>4, <2>2 DEF Merged, Relays
  <2>4. QED
    BY <2>1, <2>2, <2>3
<1>5. QED
  BY <1>1, <1>2, <1>3, <1>4

LEMMA ClaimsStep ==
  ASSUME BInv, [Next]_vars
  PROVE  RunsWhatItClaims' /\ RelayAgrees'
<1> USE DEF BInv, DInv, OInv
<1>0. torn \subseteq torn'
  BY HistStep
<1>1. CASE Receive
  <2>1. issued' = issued
    BY <1>1 DEF Receive, boundVars
  <2>2. CASE UNCHANGED agentVars
    BY <1>0, <2>1, <2>2 DEF agentVars, RunsWhatItClaims, RelayAgrees
  <2>3. ASSUME NEW ok \in Outcomes, ProcessConfig(Head(wire), ok) PROVE RunsWhatItClaims' /\ RelayAgrees'
    <3>1. /\ Head(wire) \in Dated /\ Sound(Head(wire)) /\ Nearly(Head(wire)) /\ ok \in BOOLEAN
      BY <1>1, HeadInFlight, OutcomesAreBoolean DEF Receive, MessagesSound, MessagesFaithful, Faithful, Nearly
    <3>2. QED
      BY <1>0, <2>1, <2>3, <3>1, ProcessingFaithful DEF RunsWhatItClaims, RelayAgrees
  <2>4. QED
    BY <1>1, <2>2, <2>3 DEF Receive
<1>2. ASSUME NEW u \in Uploads, Answer(u) PROVE RunsWhatItClaims' /\ RelayAgrees'
  <2>1. PICK ok \in Outcomes : ProcessConfig(answer[u], ok)
    BY <1>2 DEF Answer
  <2>2. /\ answer[u] \in Dated /\ Sound(answer[u]) /\ Nearly(answer[u]) /\ ok \in BOOLEAN
    BY <1>2, AnswerSound, OutcomesAreBoolean DEF Answer, AnswersFaithful
  <2>3. issued' = issued
    BY <1>2 DEF Answer, boundVars
  <2>4. QED
    BY <1>0, <2>1, <2>2, <2>3, ProcessingFaithful DEF RunsWhatItClaims, RelayAgrees
<1>3. CASE RestartAgent
  BY <1>3 DEF RestartAgent, RunsWhatItClaims, RelayAgrees, Startup
<1>4. CASE UNCHANGED <<agentVars, eventVars>>
  <2>1. applied \in Revs /\ applied <= row.rev
    BY Constants DEF TInv, AgentType, PanelType, Rows, Revs, AgentOrdered
  <2>2. QED
    BY <1>0, <1>4, <2>1, IssuedStays DEF agentVars, RunsWhatItClaims, RelayAgrees
<1>5. QED
  BY <1>1, <1>2, <1>3, <1>4, AgentFrame

LEMMA NextFaithful ==
  ASSUME BInv, [Next]_vars
  PROVE  BInv'
  BY NextDelivery, MessagesFaithfulStep, AnswersFaithfulStep, ClaimsStep DEF BInv

-----------------------------------------------------------------------------
(* What the panel shows.  Of a revision that failed in the Agent, either   *)
(* the result is still pending there, or the panel has had it and shows    *)
(* the failure, until a report brings what was saved, or an overtaken one  *)
(* hides it.                                                               *)

\* The Agent has processed the profile's revision and could not apply it.
Failed == row.rev # 0 /\ processed = row.rev /\ applied # processed

Noted == row.status = "failed" \/ cfg.body = row.body \/ row.rev \in overtaken

\* A result says what the Agent made of the revision it processed last.
ResultsTrue ==
  /\ pending.rev = processed /\ processed # 0 =>
       (pending.status = "failed" <=> applied # processed)
  /\ \A u \in Uploads :
       awaited[u] /\ result[u].rev = processed /\ processed # 0 =>
         (result[u].status = "failed" <=> applied # processed)

\* A failure that an upload has brought is noted for as long as the Agent
\* waits for the answer.
FailureNoted ==
  \A u \in Uploads :
    (/\ awaited[u] /\ stage[u] \in Past \ {"complete"}
     /\ result[u].rev = row.rev /\ result[u].status = "failed")
      => Noted

FailureKept ==
  Failed => Noted \/ (pending.rev = row.rev /\ pending.status = "failed")

HInv == BInv /\ ResultsTrue /\ FailureNoted /\ FailureKept

LEMMA InitHonest == Init => HInv
<1> SUFFICES ASSUME Init PROVE HInv
  OBVIOUS
<1>1. ResultsTrue /\ FailureKept
  BY DEF Init, ResultsTrue, FailureKept, Failed
<1>2. FailureNoted
  BY DEF Init, FailureNoted, Past
<1>3. QED
  BY <1>1, <1>2, InitFaithful DEF HInv

LEMMA ProcessingOutcome ==
  ASSUME TInv, AgentOrdered, NEW m \in Dated, Sound(m), NEW id \in IDs, NEW ok \in BOOLEAN, ProcessConfig(m, ok)
  PROVE  \/ /\ processed' = processed /\ applied' = applied /\ cfg'.body = cfg.body
            /\ PendingAfter(m, id, ok) = pending
         \/ /\ processed' = m.rev /\ m.rev > processed /\ PendingAfter(m, id, ok).rev = m.rev
            /\ applied' # processed' <=> PendingAfter(m, id, ok).status = "failed"
<1>0. processed \in Nat /\ m.rev \in Nat /\ cfg \in Configs /\ applied \in Nat /\ applied <= processed
  BY Constants DEF TInv, AgentType, Dated, Revs, AgentOrdered
<1>1. CASE Stale(m)
  BY <1>1 DEF ProcessConfig, PendingAfter
<1>2. CASE ~Stale(m) /\ m.rev = 0
  <2>1. cfg' = Merged(m, ok) /\ processed' = processed /\ applied' = applied
    BY <1>2 DEF ProcessConfig
  <2>2. Merged(m, ok) = cfg \/ Merged(m, ok) = [cfg EXCEPT !.day = m.day]
    BY <1>2 DEF Merged, Sound
  <2>3. cfg'.body = cfg.body
    BY <1>0, <2>1, <2>2 DEF Configs
  <2>4. QED
    BY <1>2, <2>1, <2>3 DEF PendingAfter
<1>3. CASE ~Stale(m) /\ m.rev # 0
  <2>1. processed' = m.rev /\ m.rev > processed /\ applied' = IF ok THEN m.rev ELSE applied
    BY <1>0, <1>3 DEF ProcessConfig, Stale
  <2>2. PendingAfter(m, id, ok).rev = m.rev
        /\ PendingAfter(m, id, ok).status = IF ok THEN "applied" ELSE "failed"
    BY <1>3 DEF PendingAfter
  <2>3. QED
    BY <1>0, <2>1, <2>2
<1>4. QED
  BY <1>1, <1>2, <1>3

\* Only an adoption or a result changes what is shown of a failed revision.
LEMMA FailureShown ==
  ASSUME TInv, RowKept, Served, [Next]_vars, SameRev, row.status = "failed"
  PROVE  \/ row'.status = "failed"
         \/ \E u \in Uploads : Adopt(u) /\ row.body = state[u].body
         \/ \E u \in Uploads : Complete(u) /\ Accepted(result[u])
<1>0. row \in Rows /\ row.rev \in Nat
  BY Constants DEF TInv, PanelType, Rows, Revs
<1>1. ASSUME NEW h \in Admins, NEW b \in Bodies, NEW d \in Days, SaveProfile(h, b, d) PROVE row' = row
  <2>1. ~RuntimeChanged(b, d)
    BY <1>0, <1>1 DEF SaveProfile, SameRev, NewRevision
  <2>2. QED
    BY <1>1, <2>1 DEF SaveProfile
<1>2. ASSUME NEW h \in Admins, MarkSent(h) PROVE row' = row
  BY <1>2 DEF MarkSent, Sent
<1>3. CASE PushMark
  BY <1>3 DEF PushMark, Sent
<1>4. ASSUME NEW u \in Uploads, Adopt(u) PROVE row'.status = "failed" \/ row.body = state[u].body
  <2>1. row' = Adopted(u) /\ row.rev # 0 /\ row.body # NoBody
    BY <1>0, <1>4, AdoptedRow DEF Adopt, SameRev, RowKept
  <2>2. QED
    BY <2>1, AdoptedRow
<1>5. ASSUME NEW u \in Uploads, Complete(u) PROVE row' = row \/ Accepted(result[u])
  BY <1>5 DEF Complete
<1>6. QED
  BY <1>1, <1>2, <1>3, <1>4, <1>5, RowFrame

\* The Agent's part of a step: nothing, a restart, or a message; this either
\* changes nothing that matters here, or is a newer revision's first processing.
Ignores  ==
  /\ processed' = processed /\ applied' = applied /\ cfg'.body = cfg.body
Proceeds ==
  /\ processed' > processed /\ pending'.rev = processed'
  /\ applied' # processed' <=> pending'.status = "failed"

LEMMA AgentMoves ==
  ASSUME OInv, [Next]_vars
  PROVE  \/ UNCHANGED agentVars
         \/ RestartAgent
         \/ /\ row' = row /\ UNCHANGED histVars
            /\ \/ Proceeds
               \/ Ignores /\ (\/ pending' = pending
                              \/ \E u \in Uploads : Answer(u) /\ pending = result[u] /\ pending' = NoResult)
<1> USE DEF OInv
<1>0. processed \in Nat /\ processed' \in Nat /\ 0 \in IDs
  BY NextTypes, Constants DEF TInv, AgentType, Revs
<1>1. CASE Receive /\ ~UNCHANGED agentVars
  <2>1. PICK ok \in Outcomes :
          /\ ProcessConfig(Head(wire), ok)
          /\ pending' = PendingAfter(Head(wire), Head(wire).id, ok)
    BY <1>1 DEF Receive
  <2>2. /\ Head(wire) \in Dated /\ Sound(Head(wire)) /\ ok \in BOOLEAN /\ Head(wire).id \in IDs
        /\ row' = row /\ UNCHANGED histVars
    BY <1>1, HeadInFlight, OutcomesAreBoolean DEF Receive, MessagesSound, panelVars, boundVars, histVars
  <2>3. QED
    BY <2>1, <2>2, ProcessingOutcome DEF Proceeds, Ignores
<1>2. ASSUME NEW u \in Uploads, Answer(u)
      PROVE  /\ row' = row /\ UNCHANGED histVars
             /\ Proceeds \/ (Ignores /\ (pending' = pending \/ (pending = result[u] /\ pending' = NoResult)))
  <2>1. PICK ok \in Outcomes :
          /\ ProcessConfig(answer[u], ok)
          /\ pending' = Cleared(PendingAfter(answer[u], 0, ok), u)
    BY <1>2 DEF Answer
  <2>2. /\ answer[u] \in Dated /\ Sound(answer[u]) /\ ok \in BOOLEAN
        /\ stage[u] = "answer" /\ awaited[u] /\ row' = row /\ UNCHANGED histVars
    BY <1>2, AnswerSound, OutcomesAreBoolean DEF Answer, panelVars, boundVars, histVars
  <2>3. result[u].rev <= processed /\ result[u].rev \in Nat
    BY <2>2, Constants DEF UploadsOrdered, TInv, UploadType, Results, Revs
  <2>4. CASE /\ processed' = processed /\ applied' = applied /\ cfg'.body = cfg.body
             /\ PendingAfter(answer[u], 0, ok) = pending
    BY <2>1, <2>2, <2>4 DEF Ignores, Cleared
  <2>5. CASE /\ processed' = answer[u].rev /\ answer[u].rev > processed
             /\ PendingAfter(answer[u], 0, ok).rev = answer[u].rev
             /\ applied' # processed' <=> PendingAfter(answer[u], 0, ok).status = "failed"
    <3>1. PendingAfter(answer[u], 0, ok) # result[u]
      BY <1>0, <2>3, <2>5
    <3>2. pending' = PendingAfter(answer[u], 0, ok)
      BY <2>1, <3>1 DEF Cleared
    <3>3. QED
      BY <2>2, <2>5, <3>2 DEF Proceeds
  <2>6. QED
    BY <1>0, <2>1, <2>2, <2>4, <2>5, ProcessingOutcome
<1>3. QED
  BY <1>1, <1>2, AgentFrame DEF agentVars

LEMMA ResultsTrueStep ==
  ASSUME OInv, ResultsTrue, [Next]_vars
  PROVE  ResultsTrue'
<1> USE DEF OInv
<1>0. /\ processed \in Nat /\ processed' \in Nat /\ pending.rev \in Nat
      /\ \A v \in Uploads : result[v].rev \in Nat
  BY NextTypes, Constants DEF TInv, AgentType, UploadType, Results, Revs
<1>1. pending'.rev = processed' /\ processed' # 0 => (pending'.status = "failed" <=> applied' # processed')
  <2>1. CASE UNCHANGED agentVars
    BY <2>1 DEF agentVars, ResultsTrue
  <2>2. CASE RestartAgent
    BY <2>2 DEF RestartAgent
  <2>3. CASE Proceeds
    BY <2>3 DEF Proceeds
  <2>4. CASE Ignores /\ pending' = pending
    BY <2>4 DEF Ignores, ResultsTrue
  <2>5. CASE pending' = NoResult
    BY <1>0, <2>5 DEF NoResult
  <2>6. QED
    BY <2>1, <2>2, <2>3, <2>4, <2>5, AgentMoves
<1>2. ASSUME NEW v \in Uploads, awaited'[v], result'[v].rev = processed', processed' # 0
      PROVE  result'[v].status = "failed" <=> applied' # processed'
  <2>1. CASE Starts(v)
    BY <1>2, <2>1 DEF Starts, ResultsTrue, agentVars
  <2>2. CASE Ends(v)
    BY <1>2, <2>2 DEF Ends
  <2>3. ASSUME awaited[v], result'[v] = result[v]
        PROVE  result'[v].status = "failed" <=> applied' # processed'
    <3>1. result[v].rev <= processed
      BY <2>3 DEF UploadsOrdered
    <3>2. CASE UNCHANGED agentVars
      BY <1>2, <2>3, <3>2 DEF agentVars, ResultsTrue
    <3>3. CASE RestartAgent
      BY <1>2, <3>3 DEF RestartAgent
    <3>4. CASE Proceeds
      BY <1>0, <1>2, <2>3, <3>1, <3>4 DEF Proceeds
    <3>5. CASE Ignores
      BY <1>2, <2>3, <3>5 DEF Ignores, ResultsTrue
    <3>6. QED
      BY <3>2, <3>3, <3>4, <3>5, AgentMoves
  <2>4. CASE Stays(v) \/ Goes(v)
    BY <1>2, <2>3, <2>4 DEF Stays, Goes
  <2>5. CASE Moves(v)
    BY <1>2, <2>3, <2>5, MoveKeeps
  <2>6. QED
    BY <2>1, <2>2, <2>4, <2>5, UploadFrame
<1>3. QED
  BY <1>1, <1>2 DEF ResultsTrue

\* While the Agent's last revision is the profile's and failed, it stays noted.
LEMMA NotedStays ==
  ASSUME OInv, HistType, [Next]_vars, Noted, SameRev,
         processed = row.rev, applied # processed,
         UNCHANGED agentVars \/ (row' = row /\ Ignores)
  PROVE  Noted'
<1> USE DEF OInv
<1>0. overtaken \subseteq overtaken' /\ row'.rev = row.rev /\ row'.body = row.body /\ row \in Rows
  BY HistStep DEF SameRev, TInv, PanelType
<1>1. CASE cfg.body = row.body \/ row.rev \in overtaken
  BY <1>0, <1>1 DEF Noted, agentVars, Ignores
<1>2. CASE row.status = "failed" /\ cfg.body # row.body
  <2>1. ASSUME NEW u \in Uploads, Adopt(u), row.body = state[u].body PROVE Noted'
    <3>1. row' = Adopted(u) /\ row' # row => Adopted(u) # row
      BY <2>1 DEF Adopt
    <3>2. Adopted(u).status = "applied"
      BY <2>1 DEF Adopted
    <3>3. Adopted(u) # row /\ state[u].body # cfg.body
      BY <1>2, <2>1, <3>2
    <3>4. overtaken' = overtaken \cup {row'.rev}
      BY <2>1, <3>2, <3>3 DEF Adopt, ShowApplied
    <3>5. QED
      BY <3>4 DEF Noted
  <2>2. ASSUME NEW u \in Uploads, Complete(u), Accepted(result[u]) PROVE Noted'
    <3>1. row' = [row EXCEPT !.status = result[u].status] /\ result[u].status \in Finished
      BY <2>2 DEF Complete, TInv, UploadType, Results
    <3>2. CASE result[u].status = "failed"
      BY <1>0, <3>1, <3>2 DEF Noted, Rows
    <3>3. CASE result[u].status = "applied"
      <4>1. applied # row.rev
        OBVIOUS
      <4>2. overtaken' = overtaken \cup {row'.rev}
        BY <2>2, <3>3, <4>1 DEF Complete, ShowApplied
      <4>3. QED
        BY <4>2 DEF Noted
    <3>4. QED
      BY <3>1, <3>2, <3>3 DEF Finished
  <2>3. QED
    BY <1>2, <2>1, <2>2, FailureShown DEF Noted
<1>3. QED
  BY <1>1, <1>2 DEF Noted

LEMMA FailureNotedStep ==
  ASSUME OInv, HistType, ResultsTrue, FailureNoted, [Next]_vars
  PROVE  FailureNoted'
<1> USE DEF OInv
<1> SUFFICES ASSUME NEW v \in Uploads, awaited'[v], stage'[v] \in Past \ {"complete"},
                    result'[v].rev = row'.rev, result'[v].status = "failed"
             PROVE  Noted'
  BY DEF FailureNoted
<1>0. /\ row.rev \in Nat /\ row'.rev \in Nat /\ row'.rev >= row.rev /\ result[v].rev \in Nat
      /\ processed \in Nat /\ processed <= row.rev
      /\ processed' \in Nat /\ processed' <= row'.rev
      /\ row \in Rows /\ stage \in [Uploads -> {"idle", "build"} \cup Handled]
  BY NextOrdered, RowStep, Constants
  DEF TInv, PanelType, AgentType, UploadType, Rows, Results, Revs, AgentOrdered, SameRev, NextRev
<1>1. ASSUME awaited[v], stage[v] \in Past \ {"complete"}, result'[v] = result[v] PROVE Noted'
  <2>1. result[v].rev <= processed /\ result[v].rev <= row.rev
    BY <1>1 DEF UploadsOrdered
  <2>2. SameRev /\ result[v].rev = row.rev /\ processed = row.rev
    BY <1>0, <1>1, <2>1, RowStep DEF NextRev, SameRev
  <2>3. row.rev # 0
    BY <1>1 DEF Served
  <2>4. Noted /\ applied # processed
    BY <1>1, <2>2, <2>3 DEF FailureNoted, ResultsTrue
  <2>5. ~RestartAgent
    BY DEF RestartAgent
  <2>6. ~Proceeds
    BY <1>0, <2>2 DEF Proceeds, SameRev
  <2>7. QED
    BY <2>2, <2>4, <2>5, <2>6, AgentMoves, NotedStays
<1>2. CASE Stays(v)
  BY <1>1, <1>2 DEF Stays
<1>3. CASE Ends(v) \/ Starts(v) \/ Goes(v)
  BY <1>3 DEF Ends, Starts, Goes, Past
<1>4. CASE Adopt(v)
  BY <1>0, <1>4 DEF Adopt, HandlerStep
<1>5. CASE Complete(v)
  <2>1. row.rev # 0 /\ result' = result
    BY <1>5 DEF Complete, HandlerStep, Served, Past
  <2>2. result[v].status = "failed" /\ result[v].rev = row.rev
    BY <1>0, <1>5, <2>1 DEF Complete, Rows
  <2>3. Accepted(result[v])
    BY <2>1, <2>2 DEF Accepted, NoResult
  <2>4. row'.status = "failed"
    BY <1>0, <1>5, <2>2, <2>3 DEF Complete, Rows
  <2>5. QED
    BY <2>4 DEF Noted
<1>6. CASE ReadDay(v) \/ ReadBody(v) \/ ReadRev(v)
  BY <1>1, <1>6 DEF ReadDay, ReadBody, ReadRev, HandlerStep, Past
<1>7. QED
  BY <1>2, <1>3, <1>4, <1>5, <1>6, UploadFrame DEF Moves

LEMMA FailureKeptStep ==
  ASSUME OInv, HistType, FailureNoted, FailureKept, [Next]_vars
  PROVE  FailureKept'
<1> USE DEF OInv
<1> DEFINE InAgent == pending.rev = row.rev /\ pending.status = "failed"
<1> SUFFICES ASSUME Failed' PROVE Noted' \/ InAgent'
  BY DEF FailureKept
<1>0. row.rev \in Nat /\ processed \in Nat /\ processed <= row.rev
  BY Constants DEF TInv, PanelType, AgentType, Rows, Revs, AgentOrdered
<1>1. CASE UNCHANGED agentVars \/ (row' = row /\ Ignores)
  <2>1. SameRev
    <3>1. CASE UNCHANGED agentVars
      BY <1>0, <3>1, RowStep DEF Failed, NextRev, agentVars
    <3>2. CASE row' = row
      BY <1>0, <3>2, RowStep DEF NextRev
    <3>3. QED
      BY <1>1, <3>1, <3>2
  <2>2. Failed
    BY <1>1, <2>1 DEF Failed, SameRev, agentVars, Ignores
  <2>3. CASE Noted
    BY <1>1, <2>1, <2>2, <2>3, NotedStays DEF Failed
  <2>4. CASE InAgent /\ pending' = pending
    BY <2>1, <2>4 DEF SameRev
  <2>5. CASE InAgent /\ pending' # pending /\ ~Noted
    <3>1. ~RestartAgent /\ ~Proceeds /\ ~UNCHANGED agentVars
      BY <1>0, <1>1, <2>5 DEF RestartAgent, Failed, Proceeds, Ignores, agentVars
    <3>2. PICK u \in Uploads : Answer(u) /\ pending = result[u]
      BY <2>5, <3>1, AgentMoves
    <3>3. QED
      BY <2>5, <3>2 DEF Answer, FailureNoted, Past
  <2>6. QED
    BY <2>2, <2>3, <2>4, <2>5 DEF FailureKept
<1>2. CASE RestartAgent
  BY <1>2 DEF RestartAgent, Failed, panelVars
<1>3. CASE Proceeds
  BY <1>3 DEF Proceeds, Failed
<1>4. QED
  BY <1>1, <1>2, <1>3, AgentMoves

LEMMA HonestFollows ==
  ASSUME HInv
  PROVE  AgentHonest
<1> USE DEF HInv, BInv, DInv, OInv
<1>1. TypeOK /\ RunsWhatItClaims /\ RelayAgrees
  BY TInvTypes
<1>2. ASSUME row.status = "applied", processed = row.rev, pending = NoResult
      PROVE  cfg.body = row.body \/ row.rev \in torn \cup overtaken
  <2>1. row.rev # 0
    BY <1>2 DEF RowKept
  <2>2. CASE applied = processed
    BY <1>1, <1>2, <2>1, <2>2 DEF RunsWhatItClaims, RowIssued
  <2>3. CASE applied # processed
    BY <1>2, <2>1, <2>3 DEF FailureKept, Failed, Noted, NoResult
  <2>4. QED
    BY <2>2, <2>3
<1>3. QED
  BY <1>1, <1>2 DEF AgentHonest, AppliedIsActive

\* With any number of requests, uploads, faults and failures, half-way ones
\* included: the Agent runs the body saved under the revision it claims, a
\* revision the panel shows as applied is the configuration in use once its
\* result is with the panel, and the helper's control file agrees unless the
\* newest revision failed.  The exceptions are single revisions, and named: one
\* whose answer was put together across a save (torn), and one that was shown as
\* applied for a report overtaken on its way (overtaken).
THEOREM AgentIsHonest == Spec => []AgentHonest
<1>1. HInv /\ [Next]_vars => HInv'
  BY NextFaithful, ResultsTrueStep, FailureNotedStep, FailureKeptStep DEF HInv, BInv, DInv
<1>2. QED
  BY InitHonest, <1>1, HonestFollows, PTL DEF Spec

=============================================================================
