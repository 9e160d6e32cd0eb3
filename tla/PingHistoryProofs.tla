------------------------- MODULE PingHistoryProofs -------------------------
(***************************************************************************)
(* Proofs about PingHistory, for every set of nodes, administrators and    *)
(* writers, every bound on requests and faults, and with no assumption on  *)
(* how requests, the worker, writers and crashes interleave:               *)
(*                                                                         *)
(*   - DeletedIsEmpty: what is deleted is shut (blocked, or neither pinged *)
(*     nor being stored) until its job is done and erased from then on     *)
(*     (DInv);                                                             *)
(*   - GuardsAreSound: where the guard of an assignment and its job stand  *)
(*     at every step of an edit and of a cleanup, and which request has    *)
(*     still to reload the schedule (GInv);                                *)
(*   - HistoryIsKept: the points of the current term are not there while a *)
(*     cleanup of the assignment is pending (KInv).                        *)
(*                                                                         *)
(* All of them rest on Base: where a request can be, and which jobs the    *)
(* holder of the lock still has.                                           *)
(***************************************************************************)
EXTENDS PingHistory, TLAPS

(* The remaining steps of a request *)

Clean1   == <<"clean">>
Unblock1 == <<"unblock">>
Apply1   == <<"apply">>
Read2    == <<"read", "apply">>
Clean3   == <<"clean", "read", "apply">>
Write3   == <<"write", "read", "apply">>
NodePlan == <<"deleteNode", "clean", "read", "apply">>
TaskPlan == <<"deleteTask", "clean", "read", "apply">>
JoinPlan == <<"join", "write", "read", "apply">>
Clean2   == <<"clean", "unblock">>
Apply3   == <<"apply", "clean", "unblock">>
Read4    == <<"read", "apply", "clean", "unblock">>
Guard5   == <<"guard", "read", "apply", "clean", "unblock">>

Plan(what) ==
  CASE what = "node"   -> {NodePlan, Clean3, Read2, Apply1, Clean1, Unblock1}
    [] what = "task"   -> {TaskPlan, Clean3, Read2, Apply1, Unblock1}
    [] what = "edit"   -> {EditSteps, Guard5, Read4, Apply3, Clean2, Unblock1}
    [] what = "create" -> {JoinPlan, Write3, Read2, Apply1}

\* The last step, and a step with what follows it.
Ends(s, step) == s # <<>> /\ Head(s) = step /\ Tail(s) = <<>> /\ s \in Seq(Steps)
Goes(s, step, rest) == s # <<>> /\ Head(s) = step /\ Tail(s) = rest /\ s \in Seq(Steps)

LEMMA Plans ==
  /\ Ends(Clean1, "clean") /\ Ends(Unblock1, "unblock") /\ Ends(Apply1, "apply")
  /\ Goes(Read2, "read", Apply1) /\ Goes(Clean3, "clean", Read2) /\ Goes(Write3, "write", Read2)
  /\ Goes(NodePlan, "deleteNode", Clean3) /\ Goes(TaskPlan, "deleteTask", Clean3)
  /\ Goes(JoinPlan, "join", Write3)
  /\ Goes(Clean2, "clean", Unblock1) /\ Goes(Apply3, "apply", Clean2)
  /\ Goes(Read4, "read", Apply3) /\ Goes(Guard5, "guard", Read4) /\ Goes(EditSteps, "edit", Guard5)
<1> USE DEF Steps
<1>1. Ends(Clean1, "clean") /\ Ends(Unblock1, "unblock") /\ Ends(Apply1, "apply")
  BY DEF Ends, Clean1, Unblock1, Apply1
<1>2. Goes(Read2, "read", Apply1) 
  BY DEF Goes, Read2, Apply1
<1>3. Goes(Clean3, "clean", Read2) /\ Goes(Write3, "write", Read2)
  BY DEF Goes, Clean3, Write3, Read2
<1>4. Goes(NodePlan, "deleteNode", Clean3) /\ Goes(TaskPlan, "deleteTask", Clean3)
  BY DEF Goes, NodePlan, TaskPlan, Clean3
<1>5. Goes(JoinPlan, "join", Write3)
  BY DEF Goes, JoinPlan, Write3
<1>6. Goes(Clean2, "clean", Unblock1) /\ Goes(Apply3, "apply", Clean2)
  BY DEF Goes, Clean2, Apply3, Unblock1
<1>7. Goes(Read4, "read", Apply3) 
  BY DEF Goes, Read4, Apply3
<1>8. Goes(Guard5, "guard", Read4)
  BY DEF Goes, Read4, Guard5
<1>9. Goes(EditSteps, "edit", Guard5)
  BY DEF Goes, EditSteps, Guard5
<1> QED BY <1>1, <1>2, <1>3, <1>4, <1>5, <1>6, <1>7, <1>8, <1>9

------------------------------------------------------------------------------
(* Base *)

\* A request goes through its plan.
InOrder(h) ==
  \/ op[h] = "none" /\ todo[h] = <<>>
  \/ op[h] \in {"node", "create"} /\ node[h] \in Nodes /\ todo[h] \in Plan(op[h])
  \/ op[h] \in {"task", "edit"} /\ todo[h] \in Plan(op[h])

PlansFollowed == \A h \in Admins : InOrder(h)

OnlyWhenUp == boot # "up" => /\ \A h \in Admins : todo[h] = <<>>
                             /\ \A w \in Writers : save[w] = NoSave

\* The job in the hand of the lock's holder.
Handled(j) == cleaner.at # "block" /\ cleaner.job = j

CleanerOwned ==
  /\ cleaner.by = Nobody => cleaner = Free
  /\ cleaner.by \in Admins => At(cleaner.by, "clean")
  /\ cleaner.by = "boot" => boot = "clean"
  /\ boot = "clean" => cleaner.by \in {Nobody, "boot"}

CleanerListed ==
  /\ cleaner.at # "block" => cleaner.job \in cleaner.left
  /\ cleaner.at # "unblock" => cleaner.left \subseteq jobs
  /\ cleaner.at = "unblock" => cleaner.left \ {cleaner.job} \subseteq jobs

SavesSound ==
  \A w \in Writers : IF save[w].at = "idle" THEN save[w] = NoSave ELSE save[w].node \in Nodes

Base ==
  /\ TypeOK /\ PlansFollowed /\ OnlyWhenUp /\ CleanerOwned /\ CleanerListed /\ SavesSound

LEMMA InitBase == Init => Base
<1> SUFFICES ASSUME Init PROVE Base
  OBVIOUS
<1> USE HistoryAssumption DEF Init
<1>1. TypeOK
  <2> USE DEF Terms, Jobs, Free, TaskJob, NoSave
  <2>0. bared \subseteq Nodes \cup {Nobody} /\ crossed \subseteq Nodes /\ late \in BOOLEAN
    OBVIOUS
  <2>1. /\ nodes \in [Nodes -> {"new", "here", "gone"}]
        /\ exists \in BOOLEAN /\ members \subseteq Nodes /\ jobs \subseteq Jobs
        /\ schedule \subseteq Nodes
        /\ entityGuard \subseteq Nodes /\ taskGuard \in BOOLEAN /\ pairGuard \subseteq Nodes
    OBVIOUS
  <2>2. history \in [Nodes -> SUBSET Terms] /\ term \in [Nodes -> Terms]
    OBVIOUS
  <2>3. /\ op \in [Admins -> {"none", "node", "task", "edit", "create"}]
        /\ todo \in [Admins -> Seq(Steps)]
        /\ node \in [Admins -> Nodes \cup {Nobody}] /\ list \in [Admins -> SUBSET Nodes]
    OBVIOUS
  <2>4. /\ cleaner \in [by : Admins \cup {"worker", "boot", Nobody}, left : SUBSET Jobs,
                        job : Jobs, at : {"block", "execute", "remove", "unblock"}]
        /\ boot \in {"clean", "orphans", "load", "up"}
        /\ ops \in 0..MaxOps /\ faults \in 0..MaxFaults
    OBVIOUS
  <2>5. save \in [Writers -> [node : Nodes \cup {Nobody}, term : Terms,
                             at : {"idle", "check", "write"}]]
    OBVIOUS
  <2> QED
    BY <2>0, <2>1, <2>2, <2>3, <2>4, <2>5 DEF TypeOK
<1>2. PlansFollowed
  BY DEF PlansFollowed, InOrder
<1>4. OnlyWhenUp /\ CleanerOwned /\ CleanerListed /\ SavesSound
  BY DEF OnlyWhenUp, CleanerOwned, CleanerListed, SavesSound, Free, NoSave
<1> QED
  BY <1>1, <1>2, <1>4 DEF Base

------------------------------------------------------------------------------
(* Requests *)

LEMMA PlanAt ==
  ASSUME NEW h \in Admins, InOrder(h)
  PROVE  /\ At(h, "deleteNode") => /\ op[h] = "node" /\ node[h] \in Nodes
                                   /\ todo[h] = NodePlan /\ Tail(todo[h]) = Clean3
         /\ At(h, "deleteTask") => op[h] = "task" /\ todo[h] = TaskPlan /\ Tail(todo[h]) = Clean3
         /\ At(h, "edit") => op[h] = "edit" /\ todo[h] = EditSteps /\ Tail(todo[h]) = Guard5
         /\ At(h, "guard") => op[h] = "edit" /\ todo[h] = Guard5 /\ Tail(todo[h]) = Read4
         /\ At(h, "join") => /\ op[h] = "create" /\ node[h] \in Nodes
                             /\ todo[h] = JoinPlan /\ Tail(todo[h]) = Write3
         /\ At(h, "write") => /\ op[h] = "create" /\ node[h] \in Nodes
                              /\ todo[h] = Write3 /\ Tail(todo[h]) = Read2
         /\ At(h, "read") => \/ /\ op[h] \in {"node", "task", "create"}
                                /\ Tail(todo[h]) = Apply1 /\ Tail(Tail(todo[h])) = <<>>
                             \/ /\ op[h] = "edit"
                                /\ Tail(todo[h]) = Apply3 /\ Tail(Tail(todo[h])) = Clean2
         /\ At(h, "apply") => \/ op[h] \in {"node", "task", "create"} /\ Tail(todo[h]) = <<>>
                              \/ op[h] = "edit" /\ Tail(todo[h]) = Clean2
         /\ At(h, "clean") => \/ op[h] \in {"node", "task"} /\ Tail(todo[h]) = Read2
                              \/ op[h] = "node" /\ Tail(todo[h]) = <<>>
                              \/ op[h] = "edit" /\ Tail(todo[h]) = Unblock1
         /\ At(h, "unblock") => todo[h] = Unblock1 /\ op[h] \in {"node", "task", "edit"}
         /\ todo[h] # <<>> => op[h] \in {"node", "task", "edit", "create"}
  BY Plans DEF InOrder, Plan, At, Ends, Goes

LEMMA PlansAreSteps ==
  ASSUME NEW o \in {"node", "task", "edit", "create"}, NEW s \in Plan(o)
  PROVE  s \in Seq(Steps) /\ s # <<>>
  BY Plans DEF Plan, Ends, Goes

AdminTypes ==
  /\ op \in [Admins -> {"none", "node", "task", "edit", "create"}]
  /\ todo \in [Admins -> Seq(Steps)]
  /\ node \in [Admins -> Nodes \cup {Nobody}] /\ list \in [Admins -> SUBSET Nodes]

Requests == AdminTypes /\ PlansFollowed

LEMMA Continues ==
  ASSUME Requests, NEW h \in Admins, NEW steps, NEW kept \in SUBSET Nodes,
         todo[h] # <<>>, steps = <<>> \/ steps \in Plan(op[h]),
         Continue(h, steps, kept)
  PROVE  Requests'
<1>1. op[h] \in {"node", "task", "edit", "create"} /\ InOrder(h)
  BY PlanAt DEF Requests, PlansFollowed
<1>2. steps \in Seq(Steps)
  <2>1. CASE steps = <<>>
    BY <2>1
  <2>2. CASE steps \in Plan(op[h])
    BY <1>1, <2>2, PlansAreSteps
  <2> QED
    BY <2>1, <2>2
<1>3. AdminTypes'
  BY <1>2 DEF Requests, AdminTypes, Continue
<1>5. PlansFollowed'
  <2> SUFFICES ASSUME NEW g \in Admins PROVE InOrder(g)'
    BY DEF PlansFollowed
  <2>1. CASE g # h
    BY <2>1 DEF Requests, AdminTypes, PlansFollowed, InOrder, Continue
  <2>2. CASE g = h
    BY <2>2, <1>1 DEF Requests, AdminTypes, InOrder, Continue
  <2> QED
    BY <2>1, <2>2
<1> QED
  BY <1>3, <1>5 DEF Requests

LEMMA Begins ==
  ASSUME Requests, NEW h \in Admins, NEW o \in {"node", "task", "edit", "create"},
         NEW n \in Nodes \cup {Nobody}, o \in {"node", "create"} => n \in Nodes,
         NEW given \in SUBSET Nodes, NEW steps \in Plan(o),
         Begin(h, o, n, given, steps)
  PROVE  Requests'
<1>1. steps \in Seq(Steps)
  BY PlansAreSteps
<1>2. AdminTypes'
  BY <1>1 DEF Requests, AdminTypes, Begin
<1>4. PlansFollowed'
  <2> SUFFICES ASSUME NEW g \in Admins PROVE InOrder(g)'
    BY DEF PlansFollowed
  <2>1. CASE g # h
    BY <2>1 DEF Requests, AdminTypes, PlansFollowed, InOrder, Begin
  <2>2. CASE g = h
    BY <2>2 DEF Requests, AdminTypes, InOrder, Begin
  <2> QED
    BY <2>1, <2>2
<1> QED
  BY <1>2, <1>4 DEF Requests

LEMMA StepRequests ==
  ASSUME Base, [Next]_vars
  PROVE  Requests'
<1> USE DEF Base
<1>1. Requests
  BY DEF Requests, AdminTypes, TypeOK
<1>2. \A h \in Admins : InOrder(h) /\ list[h] \in SUBSET Nodes
  BY DEF PlansFollowed, TypeOK
<1>3. ASSUME UNCHANGED adminVars PROVE Requests'
  BY <1>1, <1>3 DEF adminVars, Requests, AdminTypes, PlansFollowed, InOrder
<1>4. ASSUME NEW h \in Admins, Request(h) PROVE Requests'
  <2>1. ASSUME NEW n \in Nodes, DeleteClient(h, n) PROVE Requests'
    <3>1. NodePlan \in Plan("node")
      BY DEF Plan
    <3> QED
      BY <1>1, <2>1, <3>1, Begins DEF DeleteClient, NodePlan
  <2>2. ASSUME NEW n \in Nodes, CreateClient(h, n) PROVE Requests'
    <3>1. JoinPlan \in Plan("create")
      BY DEF Plan
    <3> QED
      BY <1>1, <2>2, <3>1, Begins DEF CreateClient, JoinPlan
  <2>3. ASSUME DeletePingTask(h) PROVE Requests'
    <3>1. TaskPlan \in Plan("task")
      BY DEF Plan
    <3> QED
      BY <1>1, <2>3, <3>1, Begins DEF DeletePingTask, TaskPlan
  <2>4. ASSUME NEW wanted \in SUBSET Known, EditPingTask(h, wanted) PROVE Requests'
    <3>1. EditSteps \in Plan("edit") /\ wanted \in SUBSET Nodes
      BY DEF Plan, Known
    <3> QED
      BY <1>1, <2>4, <3>1, Begins DEF EditPingTask
  <2> QED
    BY <1>4, <2>1, <2>2, <2>3, <2>4 DEF Request
<1>5. ASSUME NEW h \in Admins, Proceed(h) PROVE Requests'
  <2> USE <1>1, <1>2, PlanAt, Continues
  <2>1. ASSUME DeleteNode(h) PROVE Requests'
    <3>1. /\ op[h] = "node" /\ todo[h] # <<>>
          /\ Tail(todo[h]) \in Plan("node") /\ Clean1 \in Plan("node") /\ Unblock1 \in Plan("node")
      BY <2>1 DEF DeleteNode, At, Plan
    <3> QED
      BY <2>1, <3>1 DEF DeleteNode, Clean1, Unblock1
  <2>2. ASSUME DeleteTask(h) PROVE Requests'
    <3>1. op[h] = "task" /\ todo[h] # <<>> /\ Tail(todo[h]) \in Plan("task") /\ Unblock1 \in Plan("task")
      BY <2>2 DEF DeleteTask, At, Plan
    <3> QED
      BY <2>2, <3>1 DEF DeleteTask, Unblock1
  <2>3. ASSUME Edit(h) PROVE Requests'
    <3>1. op[h] = "edit" /\ todo[h] # <<>> /\ Tail(todo[h]) \in Plan("edit") /\ Unblock1 \in Plan("edit")
      BY <2>3 DEF Edit, At, Plan
    <3>2. members \ list[h] \in SUBSET Nodes
      BY DEF TypeOK
    <3> QED
      BY <2>3, <3>1, <3>2 DEF Edit, Unblock1
  <2>4. ASSUME GuardPairs(h) PROVE Requests'
    <3>1. op[h] = "edit" /\ todo[h] # <<>> /\ Tail(todo[h]) \in Plan("edit")
      BY <2>4 DEF GuardPairs, At, Plan
    <3> QED
      BY <2>4, <3>1 DEF GuardPairs
  <2>5. ASSUME ReadTasks(h) PROVE Requests'
    <3>1. /\ todo[h] # <<>> /\ Tail(todo[h]) \in Plan(op[h])
          /\ Tail(Tail(todo[h])) = <<>> \/ Tail(Tail(todo[h])) \in Plan(op[h])
      BY <2>5 DEF ReadTasks, At, Plan
    <3>2. Tasks \in SUBSET Nodes /\ {} \in SUBSET Nodes
      BY DEF TypeOK, Tasks
    <3> QED
      BY <2>5, <3>1, <3>2 DEF ReadTasks
  <2>6. ASSUME Reload(h) PROVE Requests'
    <3>1. todo[h] # <<>> /\ (Tail(todo[h]) = <<>> \/ Tail(todo[h]) \in Plan(op[h]))
      BY <2>6 DEF Reload, At, Plan
    <3> QED
      BY <2>6, <3>1 DEF Reload
  <2>7. ASSUME Clean(h) PROVE Requests'
    BY <1>3, <2>7 DEF Clean, Lock, adminVars
  <2>8. ASSUME Unblock(h) PROVE Requests'
    BY <2>8 DEF Unblock, At
  <2>9. ASSUME Join(h) PROVE Requests'
    <3>1. todo[h] # <<>> /\ Tail(todo[h]) \in Plan(op[h])
      BY <2>9 DEF Join, At, Plan
    <3>2. members \in SUBSET Nodes
      BY DEF TypeOK
    <3> QED
      BY <2>9, <3>1, <3>2 DEF Join
  <2>10. ASSUME WriteMembers(h) PROVE Requests'
    <3>1. todo[h] # <<>> /\ Tail(todo[h]) \in Plan(op[h])
      BY <2>10 DEF WriteMembers, At, Plan
    <3> QED
      BY <2>10, <3>1 DEF WriteMembers
  <2> QED
    BY <1>5, <2>1, <2>2, <2>3, <2>4, <2>5, <2>6, <2>7, <2>8, <2>9, <2>10 DEF Proceed
<1>6. ASSUME Tick \/ CleanStep PROVE Requests'
  <2>1. CASE Tick \/ BlockJob \/ Execute \/ RemoveJob \/ UnblockJob
    BY <1>3, <2>1 DEF Tick, Lock, BlockJob, Execute, RemoveJob, UnblockJob, adminVars
  <2>2. CASE Finish
    <3>1. CASE cleaner.by \notin Admins
      BY <1>3, <2>2, <3>1 DEF Finish
    <3>2. CASE cleaner.by \in Admins
      <4> PICK h \in Admins : h = cleaner.by
        BY <3>2
      <4>1. At(h, "clean")
        BY <3>2 DEF CleanerOwned
      <4>2. todo[h] # <<>> /\ (Tail(todo[h]) = <<>> \/ Tail(todo[h]) \in Plan(op[h]))
        BY <1>2, <4>1, PlanAt DEF At, Plan
      <4>3. Continue(h, Tail(todo[h]), {})
        BY <2>2, <3>2 DEF Finish
      <4>4. {} \in SUBSET Nodes
        OBVIOUS
      <4> QED
        BY <1>1, <4>2, <4>3, <4>4, Continues
    <3> QED
      BY <3>1, <3>2
  <2> QED
    BY <1>6, <2>1, <2>2 DEF CleanStep
<1>7. ASSUME NEW w \in Writers, (\E n \in Nodes : Look(w, n)) \/ Check(w) \/ WritePoint(w)
      PROVE  Requests'
  BY <1>3, <1>7 DEF Look, Check, WritePoint
<1>8. ASSUME Crash PROVE Requests'
  BY <1>8 DEF Crash, Requests, AdminTypes, PlansFollowed, InOrder
<1>9. ASSUME BootStep PROVE Requests'
  BY <1>3, <1>9 DEF BootStep, BootClean, Lock, CleanOrphans, LoadSchedule
<1>10. ASSUME UNCHANGED vars PROVE Requests'
  BY <1>3, <1>10 DEF vars
<1> QED
  BY <1>4, <1>5, <1>6, <1>7, <1>8, <1>9, <1>10 DEF Next

Advance(h) ==
  \/ DeleteNode(h) \/ DeleteTask(h) \/ Edit(h) \/ GuardPairs(h) \/ ReadTasks(h) \/ Reload(h)
  \/ Unblock(h) \/ Join(h) \/ WriteMembers(h)

Cleaned(h) == cleaner.by = h /\ At(h, "clean") /\ Finish

requestVars == <<adminVars, nodes, exists, members, term, bared, ops>>

\* The steps of nobody's request take no guard of a deletion away.
Background ==
  /\ UNCHANGED requestVars
  /\ entityGuard \subseteq entityGuard'
  /\ taskGuard => taskGuard'

LEMMA WhoRequests ==
  ASSUME Base, [Next]_vars
  PROVE  \/ Background
         \/ \E h \in Admins : Request(h) \/ Advance(h) \/ Cleaned(h)
         \/ Crash
<1> USE DEF Background, requestVars, dbVars, guardVars, histVars
<1>1. ASSUME NEW h \in Admins, Proceed(h) PROVE Advance(h) \/ Background
  BY <1>1 DEF Proceed, Advance, Clean, Lock
<1>2. CASE Tick \/ BlockJob \/ Execute \/ RemoveJob \/ UnblockJob
  BY <1>2 DEF Tick, Lock, BlockJob, BlockTarget, Execute, RemoveJob, UnblockJob, Released, adminVars
<1>3. ASSUME Finish PROVE Background \/ \E h \in Admins : Cleaned(h)
  BY <1>3 DEF Base, CleanerOwned, Finish, Cleaned, adminVars
<1>4. ASSUME NEW w \in Writers, (\E n \in Nodes : Look(w, n)) \/ Check(w) \/ WritePoint(w)
      PROVE  Background
  BY <1>4 DEF Look, Check, WritePoint, adminVars
<1>5. ASSUME BootStep PROVE Background
  BY <1>5 DEF BootStep, BootClean, Lock, CleanOrphans, LoadSchedule, adminVars
<1>6. ASSUME UNCHANGED vars PROVE Background
  BY <1>6 DEF vars
<1> QED
  BY <1>1, <1>2, <1>3, <1>4, <1>5, <1>6 DEF Next, CleanStep

LEMMA BaseRequests ==
  ASSUME Base
  PROVE  Requests /\ \A h \in Admins : InOrder(h)
  BY DEF Base, Requests, AdminTypes, TypeOK, PlansFollowed

\* The other requests stay where they are.
Others(h) ==
  \A g \in Admins \ {h} : /\ op'[g] = op[g] /\ todo'[g] = todo[g]
                           /\ node'[g] = node[g] /\ list'[g] = list[g]

LEMMA GoesOn ==
  ASSUME Base, NEW h \in Admins, NEW steps, NEW kept, Continue(h, steps, kept)
  PROVE  /\ Others(h) /\ todo'[h] = steps
         /\ steps # <<>> => op'[h] = op[h] /\ node'[h] = node[h] /\ list'[h] = kept
  BY DEF Base, TypeOK, Continue, Others

LEMMA Begun ==
  ASSUME Base, NEW h \in Admins, NEW o, NEW n, NEW given, NEW steps, Begin(h, o, n, given, steps)
  PROVE  /\ Others(h) /\ todo[h] = <<>> /\ todo'[h] = steps
         /\ op'[h] = o /\ node'[h] = n /\ list'[h] = given
  BY DEF Base, TypeOK, Begin, Others

LEMMA Heads ==
  /\ Head(NodePlan) = "deleteNode" /\ Head(TaskPlan) = "deleteTask" /\ Head(JoinPlan) = "join"
  /\ Head(EditSteps) = "edit" /\ Head(Guard5) = "guard" /\ Head(Write3) = "write"
  /\ Head(Clean3) = "clean" /\ Head(Clean2) = "clean" /\ Head(Clean1) = "clean"
  /\ Head(Read2) = "read" /\ Head(Read4) = "read"
  /\ Head(Apply1) = "apply" /\ Head(Apply3) = "apply" /\ Head(Unblock1) = "unblock"
  BY Plans DEF Goes, Ends

\* Where a request is, and where each of its steps leaves it.
LEMMA Requested ==
  ASSUME Base, NEW h \in Admins, Request(h)
  PROVE  /\ Others(h) /\ todo[h] = <<>>
         /\ \A n \in Nodes : DeleteClient(h, n) =>
              op'[h] = "node" /\ At(h, "deleteNode")' /\ node'[h] = n
         /\ (\E n \in Nodes : CreateClient(h, n)) => op'[h] = "create" /\ At(h, "join")'
         /\ DeletePingTask(h) => op'[h] = "task" /\ At(h, "deleteTask")'
         /\ (\E wanted \in SUBSET Known : EditPingTask(h, wanted)) =>
              op'[h] = "edit" /\ At(h, "edit")'
<1>1. ASSUME NEW n \in Nodes, DeleteClient(h, n)
      PROVE  Others(h) /\ todo[h] = <<>> /\ op'[h] = "node" /\ At(h, "deleteNode")' /\ node'[h] = n
  <2>1. Begin(h, "node", n, {}, NodePlan)
    BY <1>1 DEF DeleteClient, NodePlan
  <2>2. Others(h) /\ todo[h] = <<>> /\ op'[h] = "node" /\ node'[h] = n /\ todo'[h] = NodePlan
    BY <2>1, Begun
  <2> QED
    BY <2>2, Heads, Plans DEF At, Goes
<1>2. ASSUME NEW n \in Nodes, CreateClient(h, n)
      PROVE  Others(h) /\ todo[h] = <<>> /\ op'[h] = "create" /\ At(h, "join")'
  <2>1. Begin(h, "create", n, {}, JoinPlan)
    BY <1>2 DEF CreateClient, JoinPlan
  <2> QED
    BY <2>1, Begun, Heads, Plans DEF At, Goes
<1>3. ASSUME DeletePingTask(h)
      PROVE  Others(h) /\ todo[h] = <<>> /\ op'[h] = "task" /\ At(h, "deleteTask")'
  BY <1>3, Begun, Heads, Plans DEF DeletePingTask, At, TaskPlan, Goes
<1>4. ASSUME NEW wanted \in SUBSET Known, EditPingTask(h, wanted)
      PROVE  Others(h) /\ todo[h] = <<>> /\ op'[h] = "edit" /\ At(h, "edit")'
  BY <1>4, Begun, Heads, Plans DEF EditPingTask, At, Goes
<1> QED
  BY <1>1, <1>2, <1>3, <1>4 DEF Request

LEMMA Advanced ==
  ASSUME Base, NEW h \in Admins, Advance(h)
  PROVE  Others(h) /\ todo[h] # <<>> /\ ~At(h, "clean")
<1> USE GoesOn DEF At
<1>1. CASE DeleteNode(h)
  BY <1>1 DEF DeleteNode
<1>2. CASE DeleteTask(h)
  BY <1>2 DEF DeleteTask
<1>3. CASE Edit(h)
  BY <1>3 DEF Edit
<1>4. CASE GuardPairs(h)
  BY <1>4 DEF GuardPairs
<1>5. CASE ReadTasks(h)
  BY <1>5 DEF ReadTasks
<1>6. CASE Reload(h)
  BY <1>6 DEF Reload
<1>7. CASE Unblock(h)
  BY <1>7 DEF Unblock
<1>8. CASE Join(h)
  BY <1>8 DEF Join
<1>9. CASE WriteMembers(h)
  BY <1>9 DEF WriteMembers
<1> QED
  BY <1>1, <1>2, <1>3, <1>4, <1>5, <1>6, <1>7, <1>8, <1>9 DEF Advance

LEMMA DeletesNode ==
  ASSUME Base, NEW h \in Admins, DeleteNode(h)
  PROVE  /\ op[h] = "node" /\ node[h] \in Nodes /\ todo[h] = NodePlan
         /\ op'[h] = "node" /\ node'[h] = node[h]
         /\ nodes[node[h]] = "here" =>
              /\ nodes' = [nodes EXCEPT ![node[h]] = "gone"]
              /\ jobs' = jobs \cup {EntityJob(node[h])} /\ Assign(members \ {node[h]})
              /\ todo'[h] = IF node[h] \in members THEN Clean3 ELSE Clean1
         /\ nodes[node[h]] # "here" =>
              UNCHANGED <<nodes, members, jobs, term>> /\ todo'[h] = Unblock1
<1>1. op[h] = "node" /\ node[h] \in Nodes /\ todo[h] = NodePlan /\ Tail(todo[h]) = Clean3
  BY BaseRequests, PlanAt DEF DeleteNode
<1>2. Clean3 # <<>> /\ Clean1 # <<>> /\ Unblock1 # <<>>
  BY Plans DEF Goes, Ends
<1>3. \A steps : Continue(h, steps, {}) /\ steps # <<>> =>
        todo'[h] = steps /\ op'[h] = op[h] /\ node'[h] = node[h]
  BY GoesOn
<1>4. CASE nodes[node[h]] = "here"
  <2>1. /\ nodes' = [nodes EXCEPT ![node[h]] = "gone"]
        /\ jobs' = jobs \cup {EntityJob(node[h])} /\ Assign(members \ {node[h]})
        /\ Continue(h, IF node[h] \in members THEN Clean3 ELSE Clean1, {})
    BY <1>1, <1>4 DEF DeleteNode, Clean1
  <2> QED
    BY <1>1, <1>2, <1>3, <1>4, <2>1
<1>5. CASE nodes[node[h]] # "here"
  <2>1. UNCHANGED <<nodes, members, jobs, term>> /\ Continue(h, Unblock1, {})
    BY <1>5 DEF DeleteNode, Unblock1
  <2> QED
    BY <1>1, <1>2, <1>3, <1>5, <2>1
<1> QED
  BY <1>4, <1>5

LEMMA DeletesTask ==
  ASSUME Base, NEW h \in Admins, DeleteTask(h)
  PROVE  op[h] = "task" /\ op'[h] = "task" /\ todo'[h] = IF exists THEN Clean3 ELSE Unblock1
<1>1. op[h] = "task" /\ Tail(todo[h]) = Clean3
  BY BaseRequests, PlanAt DEF DeleteTask
<1>2. Clean3 # <<>> /\ Unblock1 # <<>>
  BY Plans DEF Goes, Ends
<1>3. Continue(h, IF exists THEN Clean3 ELSE Unblock1, {})
  BY <1>1 DEF DeleteTask, Unblock1
<1> QED
  BY <1>1, <1>2, <1>3, GoesOn

\* The nodes an edit takes the task from.
Removed(h) == members \ list[h]

LEMMA Edits ==
  ASSUME Base, NEW h \in Admins, Edit(h)
  PROVE  /\ op[h] = "edit" /\ op'[h] = "edit"
         /\ \/ /\ exists /\ todo'[h] = Guard5 /\ list'[h] = Removed(h) /\ late' = late
               /\ crossed' = IF taskGuard THEN crossed ELSE crossed \cup Removed(h)
            \/ exists /\ todo'[h] = Unblock1 /\ crossed' = crossed \cup Removed(h) /\ late'
            \/ /\ ~exists /\ todo'[h] = Unblock1
               /\ UNCHANGED <<members, term, jobs, bared, crossed, late>>
<1>1. op[h] = "edit" /\ Tail(todo[h]) = Guard5
  BY BaseRequests, PlanAt DEF Edit
<1>2. Guard5 # <<>> /\ Unblock1 # <<>>
  BY Plans DEF Goes, Ends
<1>3. \A steps, kept : Continue(h, steps, kept) /\ steps # <<>> =>
        todo'[h] = steps /\ op'[h] = op[h] /\ list'[h] = kept
  BY GoesOn
<1>4. CASE /\ exists /\ Continue(h, Tail(todo[h]), Removed(h)) /\ late' = late
           /\ crossed' = IF taskGuard THEN crossed ELSE crossed \cup Removed(h)
  BY <1>1, <1>2, <1>3, <1>4
<1>5. CASE exists /\ Continue(h, Unblock1, {}) /\ crossed' = crossed \cup Removed(h) /\ late'
  BY <1>1, <1>2, <1>3, <1>5
<1>6. CASE /\ ~exists /\ Continue(h, Unblock1, {})
           /\ UNCHANGED <<members, term, jobs, bared, crossed, late>>
  BY <1>1, <1>2, <1>3, <1>6
<1> QED
  BY <1>4, <1>5, <1>6 DEF Edit, Removed, Unblock1, histVars

LEMMA WhenCleaned ==
  ASSUME Base, NEW h \in Admins, Cleaned(h)
  PROVE  /\ Others(h) /\ todo'[h] = Tail(todo[h])
         /\ todo'[h] \in {<<>>, Read2, Unblock1}
         /\ todo'[h] = Unblock1 => op[h] = "edit"
         /\ todo'[h] # <<>> => op'[h] = op[h] /\ node'[h] = node[h] /\ list'[h] = {}
<1>1. Continue(h, Tail(todo[h]), {})
  BY DEF Cleaned, Finish
<1>2. /\ Tail(todo[h]) \in {<<>>, Read2, Unblock1}
      /\ Tail(todo[h]) = Unblock1 => op[h] = "edit"
  BY PlanAt, BaseRequests, Heads, Plans DEF Cleaned, Ends
<1> QED
  BY <1>1, <1>2, GoesOn

LEMMA WhoSaves ==
  ASSUME [Next]_vars
  PROVE  \/ UNCHANGED save
         \/ \E w \in Writers : (\E n \in Nodes : Look(w, n)) \/ Check(w) \/ WritePoint(w)
         \/ Crash
<1>1. ASSUME NEW h \in Admins, Request(h) \/ Proceed(h) PROVE UNCHANGED save
  BY <1>1 DEF Request, DeleteClient, CreateClient, DeletePingTask, EditPingTask, Begin, Proceed,
     DeleteNode, DeleteTask, Edit, GuardPairs, ReadTasks, Reload, Clean, Lock, Unblock, Join,
     WriteMembers
<1>2. CASE Tick \/ CleanStep \/ BootStep
  BY <1>2 DEF Tick, Lock, CleanStep, BlockJob, Execute, RemoveJob, UnblockJob, Finish,
     BootStep, BootClean, CleanOrphans, LoadSchedule
<1>3. CASE UNCHANGED vars
  BY <1>3 DEF vars
<1> QED
  BY <1>1, <1>2, <1>3 DEF Next

Queued(h) == DeleteNode(h) \/ DeleteTask(h) \/ Edit(h)

LEMMA WhoQueues ==
  ASSUME [Next]_vars
  PROVE  \/ UNCHANGED <<cleaner, jobs>>
         \/ UNCHANGED cleaner /\ \E h \in Admins : Queued(h)
         \/ UNCHANGED <<dbVars, adminVars, boot>> /\ \E h \in Admins : Clean(h)
         \/ UNCHANGED <<dbVars, adminVars, boot>> /\ (Tick \/ BootClean)
         \/ CleanStep
         \/ Crash
<1>1. ASSUME NEW h \in Admins, Request(h) PROVE UNCHANGED <<cleaner, jobs>>
  BY <1>1 DEF Request, DeleteClient, CreateClient, DeletePingTask, EditPingTask, Begin
<1>2. ASSUME NEW h \in Admins, Proceed(h)
      PROVE  \/ UNCHANGED <<cleaner, jobs>>
             \/ UNCHANGED cleaner /\ Queued(h)
             \/ UNCHANGED <<dbVars, adminVars, boot>> /\ Clean(h)
  BY <1>2 DEF Proceed, Queued, DeleteNode, DeleteTask, Edit, GuardPairs, ReadTasks, Reload, Clean,
     Lock, Unblock, Join, WriteMembers, dbVars
<1>3. ASSUME NEW w \in Writers, (\E n \in Nodes : Look(w, n)) \/ Check(w) \/ WritePoint(w)
      PROVE  UNCHANGED <<cleaner, jobs>>
  BY <1>3 DEF Look, Check, WritePoint, dbVars
<1>4. CASE Tick
  BY <1>4 DEF Tick, Lock
<1>5. CASE BootStep
  BY <1>5 DEF BootStep, BootClean, Lock, CleanOrphans, LoadSchedule, dbVars
<1>6. CASE UNCHANGED vars
  BY <1>6 DEF vars, dbVars
<1> QED
  BY <1>1, <1>2, <1>3, <1>4, <1>5, <1>6 DEF Next

LEMMA StepSaves ==
  ASSUME Base, [Next]_vars
  PROVE  SavesSound'
<1> USE DEF Base, TypeOK, SavesSound, NoSave
<1>1. CASE UNCHANGED save
  BY <1>1
<1>2. ASSUME NEW w \in Writers, (\E n \in Nodes : Look(w, n)) \/ Check(w) \/ WritePoint(w)
      PROVE  SavesSound'
  <2>1. ASSUME NEW n \in Nodes, Look(w, n) PROVE SavesSound'
    BY <2>1 DEF Look
  <2>2. CASE Check(w)
    BY <2>2 DEF Check
  <2>3. CASE WritePoint(w)
    BY <2>3 DEF WritePoint
  <2> QED
    BY <1>2, <2>1, <2>2, <2>3
<1>3. CASE Crash
  BY <1>3 DEF Crash
<1> QED
  BY <1>1, <1>2, <1>3, WhoSaves

\* A request that is half-way, and a result that is being stored, are served by
\* a panel that has started.
LEMMA HalfWay ==
  ASSUME Base
  PROVE  /\ \A h \in Admins, x \in Steps : At(h, x) => boot = "up"
         /\ \A w \in Writers : save[w].at # "idle" => boot = "up"
  BY DEF Base, OnlyWhenUp, At, NoSave

LEMMA StepUp ==
  ASSUME Base, [Next]_vars
  PROVE  OnlyWhenUp'
<1> USE HalfWay DEF Base, OnlyWhenUp
<1>1. ASSUME NEW h \in Admins, Request(h) \/ Proceed(h) PROVE OnlyWhenUp'
  <2>1. boot = "up" /\ boot' = boot
    BY <1>1 DEF Request, DeleteClient, CreateClient, DeletePingTask, EditPingTask, Begin, Proceed,
       DeleteNode, DeleteTask, Edit, GuardPairs, ReadTasks, Reload, Clean, Lock, Unblock, Join,
       WriteMembers, Steps
  <2> QED
    BY <2>1
<1>2. CASE Tick \/ BlockJob \/ Execute \/ RemoveJob \/ UnblockJob
  BY <1>2 DEF Tick, Lock, BlockJob, Execute, RemoveJob, UnblockJob, adminVars
<1>3. CASE Finish
  <2>1. CASE cleaner.by \in Admins
    BY <1>3, <2>1, HistoryAssumption DEF Finish, CleanerOwned, Steps
  <2>2. CASE cleaner.by \notin Admins
    BY <1>3, <2>2 DEF Finish, CleanerOwned, adminVars
  <2> QED
    BY <2>1, <2>2
<1>4. ASSUME NEW w \in Writers, (\E n \in Nodes : Look(w, n)) \/ Check(w) \/ WritePoint(w)
      PROVE  OnlyWhenUp'
  BY <1>4 DEF Look, Check, WritePoint
<1>5. CASE Crash
  BY <1>5 DEF Crash
<1>6. CASE BootStep
  BY <1>6 DEF BootStep, BootClean, Lock, CleanOrphans, LoadSchedule, adminVars
<1>7. CASE UNCHANGED vars
  BY <1>7 DEF vars, adminVars
<1> QED
  BY <1>1, <1>2, <1>3, <1>4, <1>5, <1>6, <1>7 DEF Next, CleanStep

CleanerType ==
  cleaner \in [by : Admins \cup {"worker", "boot", Nobody}, left : SUBSET Jobs,
               job : Jobs, at : {"block", "execute", "remove", "unblock"}]

\* A step of the work on a job leaves the lock with its holder.

LEMMA Held ==
  ASSUME CleanerType, BlockJob \/ Execute \/ RemoveJob \/ UnblockJob
  PROVE  cleaner'.by = cleaner.by /\ cleaner.by # Nobody /\ UNCHANGED <<adminVars, boot>>
  BY DEF CleanerType, BlockJob, BlockTarget, Taken, Execute, RemoveJob, UnblockJob, Skip, Working

LEMMA StepOwned ==
  ASSUME Base, [Next]_vars
  PROVE  CleanerOwned'
<1> USE HistoryAssumption, BaseRequests, HalfWay DEF Steps
<1>0. CleanerOwned /\ CleanerType
  BY DEF Base, TypeOK, CleanerType
<1>1. ASSUME NEW h \in Admins, Request(h) PROVE CleanerOwned'
  <2>1. UNCHANGED <<cleaner, boot>>
    BY <1>1 DEF Request, DeleteClient, CreateClient, DeletePingTask, EditPingTask, Begin
  <2>2. Others(h) /\ todo[h] = <<>>
    BY <1>1, Requested
  <2>3. cleaner.by \in Admins => cleaner.by # h
    BY <1>0, <2>2 DEF CleanerOwned, At
  <2> QED
    BY <1>0, <2>1, <2>2, <2>3 DEF CleanerOwned, At, Others
<1>2. ASSUME NEW h \in Admins, Advance(h) PROVE CleanerOwned'
  <2>1. UNCHANGED <<cleaner, boot>>
    BY <1>2 DEF Advance, DeleteNode, DeleteTask, Edit, GuardPairs, ReadTasks, Reload, Unblock,
       Join, WriteMembers
  <2>2. Others(h) /\ ~At(h, "clean")
    BY <1>2, Advanced
  <2>3. cleaner.by \in Admins => cleaner.by # h
    BY <1>0, <2>2 DEF CleanerOwned
  <2> QED
    BY <1>0, <2>1, <2>2, <2>3 DEF CleanerOwned, At, Others
<1>3. ASSUME NEW h \in Admins, Clean(h) PROVE CleanerOwned'
  BY <1>3 DEF Clean, Lock, Free, CleanerOwned, At, adminVars
<1>4. CASE Tick \/ BootClean
  BY <1>4 DEF Tick, BootClean, Lock, Free, CleanerOwned
<1>5. CASE BlockJob \/ Execute \/ RemoveJob \/ UnblockJob
  BY <1>0, <1>5, Held DEF CleanerOwned, At, adminVars
<1>6. CASE Finish
  BY <1>0, <1>6 DEF Finish, Free, CleanerOwned
<1>7. ASSUME NEW w \in Writers, (\E n \in Nodes : Look(w, n)) \/ Check(w) \/ WritePoint(w)
      PROVE  CleanerOwned'
  BY <1>0, <1>7 DEF Look, Check, WritePoint, CleanerOwned, At, adminVars
<1>8. CASE Crash
  BY <1>8 DEF Crash, CleanerOwned, Free
<1>9. CASE CleanOrphans \/ LoadSchedule \/ UNCHANGED vars
  BY <1>0, <1>9 DEF CleanOrphans, LoadSchedule, vars, CleanerOwned, At, adminVars
<1> QED
  BY <1>1, <1>2, <1>3, <1>4, <1>5, <1>6, <1>7, <1>8, <1>9
  DEF Next, Proceed, Advance, CleanStep, BootStep

LEMMA StepListed ==
  ASSUME Base, [Next]_vars
  PROVE  CleanerListed'
<1>0. CleanerListed /\ CleanerType
  BY DEF Base, TypeOK, CleanerType
<1>1. CASE UNCHANGED <<cleaner, jobs>>
  BY <1>0, <1>1 DEF CleanerListed
<1>2. ASSUME NEW h \in Admins, UNCHANGED cleaner, Queued(h) PROVE CleanerListed'
  <2>1. jobs \subseteq jobs'
    BY <1>2 DEF Queued, DeleteNode, DeleteTask, Edit
  <2> QED
    BY <1>0, <1>2, <2>1 DEF CleanerListed
<1>3. ASSUME NEW h \in Admins, Clean(h) PROVE CleanerListed'
  BY <1>3 DEF Clean, Lock, dbVars, Free, CleanerListed
<1>4. CASE Tick \/ BootClean
  BY <1>4 DEF Tick, BootClean, Lock, dbVars, Free, CleanerListed
<1>5. CASE BlockJob
  BY <1>0, <1>5 DEF BlockJob, BlockTarget, Taken, Working, dbVars, CleanerType, CleanerListed
<1>6. CASE Execute
  BY <1>0, <1>6 DEF Execute, Skip, Working, dbVars, CleanerType, CleanerListed
<1>7. CASE RemoveJob
  BY <1>0, <1>7 DEF RemoveJob, Skip, Working, CleanerType, CleanerListed
<1>8. CASE UnblockJob
  BY <1>0, <1>8 DEF UnblockJob, Skip, Working, dbVars, CleanerType, CleanerListed
<1>9. CASE Finish
  BY <1>0, <1>9 DEF Finish, Free, CleanerListed
<1>10. CASE Crash
  BY <1>10 DEF Crash, Free, CleanerListed
<1> QED
  BY <1>1, <1>2, <1>3, <1>4, <1>5, <1>6, <1>7, <1>8, <1>9, <1>10, WhoQueues DEF CleanStep

DbType ==
  /\ nodes \in [Nodes -> {"new", "here", "gone"}]
  /\ exists \in BOOLEAN /\ members \subseteq Nodes /\ jobs \subseteq Jobs
GuardType ==
  /\ schedule \subseteq Nodes
  /\ entityGuard \subseteq Nodes /\ taskGuard \in BOOLEAN /\ pairGuard \subseteq Nodes
StoreType ==
  /\ history \in [Nodes -> SUBSET Terms]
  /\ save \in [Writers -> [node : Nodes \cup {Nobody}, term : Terms,
                           at : {"idle", "check", "write"}]]
CountType == boot \in {"clean", "orphans", "load", "up"} /\ faults \in 0..MaxFaults

LEMMA StepDb ==
  ASSUME Base, [Next]_vars
  PROVE  DbType'
<1> USE BaseRequests
<1>0. DbType /\ AdminTypes
  BY DEF Base, TypeOK, DbType, Requests
<1> USE <1>0 DEF DbType
<1>1. ASSUME NEW h \in Admins, Request(h) PROVE DbType'
  BY <1>1 DEF Request, DeleteClient, CreateClient, DeletePingTask, EditPingTask, Begin
<1>2. ASSUME NEW h \in Admins, Proceed(h) PROVE DbType'
  <2>1. CASE DeleteNode(h)
    BY <2>1, PlanAt DEF DeleteNode, Assign, Jobs, EntityJob
  <2>2. CASE DeleteTask(h)
    BY <2>2 DEF DeleteTask, Assign, Jobs
  <2>3. CASE Edit(h)
    <3>1. members' \subseteq Nodes
      BY <2>3 DEF Edit, Assign, AdminTypes
    <3>2. jobs' \subseteq Jobs
      BY <2>3 DEF Edit, Jobs, PairJob
    <3> QED
      BY <2>3, <3>1, <3>2 DEF Edit
  <2>4. CASE WriteMembers(h)
    BY <2>4, PlanAt DEF WriteMembers, Assign, AdminTypes
  <2>5. CASE GuardPairs(h) \/ ReadTasks(h) \/ Reload(h) \/ Clean(h) \/ Unblock(h) \/ Join(h)
    BY <2>5 DEF GuardPairs, ReadTasks, Reload, Clean, Lock, Unblock, Join, dbVars
  <2> QED
    BY <1>2, <2>1, <2>2, <2>3, <2>4, <2>5 DEF Proceed
<1>3. CASE Tick \/ CleanStep
  BY <1>3 DEF Tick, Lock, CleanStep, BlockJob, Execute, RemoveJob, UnblockJob, Finish, dbVars
<1>4. ASSUME NEW w \in Writers, (\E n \in Nodes : Look(w, n)) \/ Check(w) \/ WritePoint(w)
      PROVE  DbType'
  BY <1>4 DEF Look, Check, WritePoint, dbVars
<1>5. CASE Crash \/ BootStep \/ UNCHANGED vars
  BY <1>5 DEF Crash, BootStep, BootClean, Lock, CleanOrphans, LoadSchedule, vars, dbVars
<1> QED
  BY <1>1, <1>2, <1>3, <1>4, <1>5 DEF Next

LEMMA StepGuards ==
  ASSUME Base, [Next]_vars
  PROVE  GuardType'
<1> USE BaseRequests
<1>0. GuardType /\ AdminTypes /\ DbType /\ CleanerType /\ CleanerListed
  BY DEF Base, TypeOK, DbType, GuardType, CleanerType, Requests
<1> USE <1>0 DEF GuardType
<1>1. ASSUME NEW h \in Admins, Request(h) PROVE GuardType'
  BY <1>1 DEF Request, DeleteClient, CreateClient, DeletePingTask, EditPingTask, Begin
<1>2. ASSUME NEW h \in Admins, Proceed(h) PROVE GuardType'
  BY <1>2 DEF Proceed, DeleteNode, DeleteTask, Edit, GuardPairs, ReadTasks, Reload, Clean, Lock,
     Unblock, Join, WriteMembers, guardVars, AdminTypes
<1>3. CASE BlockJob
  <2>1. \A j \in cleaner.left : j.kind \in {"entity", "pair"} => j.node \in Nodes
    BY DEF CleanerType, Jobs, TaskJob
  <2> QED
    BY <1>3, <2>1 DEF BlockJob, BlockTarget
<1>4. CASE Tick \/ Execute \/ RemoveJob \/ UnblockJob \/ Finish
  BY <1>4 DEF Tick, Lock, Execute, RemoveJob, UnblockJob, Released, Finish, guardVars
<1>5. ASSUME NEW w \in Writers, (\E n \in Nodes : Look(w, n)) \/ Check(w) \/ WritePoint(w)
      PROVE  GuardType'
  BY <1>5 DEF Look, Check, WritePoint, guardVars
<1>6. CASE Crash \/ BootStep \/ UNCHANGED vars
  BY <1>6 DEF Crash, BootStep, BootClean, Lock, CleanOrphans, LoadSchedule, Tasks, vars, guardVars, DbType
<1> QED
  BY <1>1, <1>2, <1>3, <1>4, <1>5, <1>6 DEF Next, CleanStep

LEMMA StepStore ==
  ASSUME Base, [Next]_vars
  PROVE  StoreType'
<1>0. StoreType /\ SavesSound /\ term \in [Nodes -> Terms] /\ 0 \in Terms
  BY HistoryAssumption DEF Base, TypeOK, StoreType, Terms
<1> USE <1>0 DEF StoreType
<1>1. ASSUME NEW h \in Admins, Request(h) \/ Proceed(h) PROVE StoreType'
  BY <1>1 DEF Request, DeleteClient, CreateClient, DeletePingTask, EditPingTask, Begin, Proceed,
     DeleteNode, DeleteTask, Edit, GuardPairs, ReadTasks, Reload, Clean, Lock, Unblock, Join,
     WriteMembers
<1>2. CASE Tick \/ BlockJob \/ RemoveJob \/ UnblockJob \/ Finish
  BY <1>2 DEF Tick, Lock, BlockJob, RemoveJob, UnblockJob, Finish
<1>3. CASE Execute
  BY <1>3 DEF Execute
<1>4. ASSUME NEW w \in Writers, NEW n \in Nodes, Look(w, n) PROVE StoreType'
  BY <1>4 DEF Look
<1>5. ASSUME NEW w \in Writers, Check(w) PROVE StoreType'
  BY <1>5 DEF Check, NoSave
<1>6. ASSUME NEW w \in Writers, WritePoint(w) PROVE StoreType'
  BY <1>6 DEF WritePoint, NoSave
<1>7. CASE Crash
  BY <1>7 DEF Crash, NoSave
<1>8. CASE BootStep \/ UNCHANGED vars
  BY <1>8 DEF BootStep, BootClean, Lock, CleanOrphans, LoadSchedule, vars
<1> QED
  BY <1>1, <1>2, <1>3, <1>4, <1>5, <1>6, <1>7, <1>8 DEF Next, CleanStep

LEMMA StepCount ==
  ASSUME Base, [Next]_vars
  PROVE  CountType'
<1>0. CountType
  BY DEF Base, TypeOK, CountType
<1> USE <1>0, HistoryAssumption DEF CountType, Fault
<1>1. ASSUME NEW h \in Admins, Request(h) \/ Proceed(h) PROVE CountType'
  BY <1>1 DEF Request, DeleteClient, CreateClient, DeletePingTask, EditPingTask, Begin, Proceed,
     DeleteNode, DeleteTask, Edit, GuardPairs, ReadTasks, Reload, Clean, Lock, Unblock, Join,
     WriteMembers
<1>2. CASE Tick \/ CleanStep
  BY <1>2 DEF Tick, Lock, CleanStep, BlockJob, Execute, RemoveJob, UnblockJob, Finish
<1>3. ASSUME NEW w \in Writers, (\E n \in Nodes : Look(w, n)) \/ Check(w) \/ WritePoint(w)
      PROVE  CountType'
  BY <1>3 DEF Look, Check, WritePoint
<1>4. CASE Crash \/ BootStep \/ UNCHANGED vars
  BY <1>4 DEF Crash, BootStep, BootClean, Lock, CleanOrphans, LoadSchedule, vars
<1> QED
  BY <1>1, <1>2, <1>3, <1>4 DEF Next

LEMMA StepCleaner ==
  ASSUME Base, [Next]_vars
  PROVE  CleanerType'
<1>0. CleanerType /\ jobs \subseteq Jobs /\ TaskJob \in Jobs
  BY DEF Base, TypeOK, CleanerType, Jobs
<1> USE <1>0 DEF CleanerType
<1>1. CASE UNCHANGED cleaner
  BY <1>1
<1>2. ASSUME NEW h \in Admins, Clean(h) PROVE CleanerType'
  BY <1>2 DEF Clean, Lock, Free
<1>3. CASE Tick \/ BootClean
  BY <1>3 DEF Tick, BootClean, Lock, Free
<1>4. CASE BlockJob
  BY <1>4 DEF BlockJob, BlockTarget, Taken
<1>5. CASE Execute \/ RemoveJob \/ UnblockJob
  BY <1>5 DEF Execute, RemoveJob, UnblockJob, Skip
<1>6. CASE Finish \/ Crash
  BY <1>6 DEF Finish, Crash, Free
<1> QED
  BY <1>1, <1>2, <1>3, <1>4, <1>5, <1>6, WhoQueues DEF CleanStep

HistType ==
  /\ term \in [Nodes -> Terms]
  /\ bared \subseteq Nodes \cup {Nobody} /\ crossed \subseteq Nodes /\ late \in BOOLEAN
  /\ ops \in 0..MaxOps

LEMMA StepHist ==
  ASSUME Base, [Next]_vars
  PROVE  HistType'
<1> USE BaseRequests
<1>0. HistType /\ AdminTypes /\ DbType
  BY DEF Base, TypeOK, HistType, DbType, Requests
<1> USE <1>0 DEF HistType, Terms
<1>1. ASSUME NEW h \in Admins, Request(h) PROVE HistType'
  BY <1>1, HistoryAssumption DEF Request, DeleteClient, CreateClient, DeletePingTask, EditPingTask,
     Begin, histVars
<1>2. ASSUME NEW h \in Admins, Proceed(h) PROVE HistType'
  <2>1. \A wanted \in SUBSET Nodes : Assign(wanted) => term' \in [Nodes -> Terms]
    BY DEF Assign
  <2>2. CASE DeleteNode(h)
    <3>1. members \ {node[h]} \in SUBSET Nodes
      BY DEF DbType
    <3> QED
      BY <2>1, <2>2, <3>1 DEF DeleteNode, histVars
  <2>3. CASE DeleteTask(h)
    BY <2>1, <2>3 DEF DeleteTask
  <2>4. CASE Edit(h)
    <3>1. list[h] \in SUBSET Nodes /\ members \in SUBSET Nodes /\ Revived(list[h]) \subseteq Nodes
      BY DEF AdminTypes, DbType, Revived
    <3>2. term' \in [Nodes -> Terms] /\ ops' = ops
      BY <2>1, <2>4, <3>1 DEF Edit
    <3> QED
      BY <2>4, <3>1, <3>2 DEF Edit, histVars
  <2>5. CASE WriteMembers(h)
    <3>1. node[h] \in Nodes
      BY <2>5, PlanAt DEF WriteMembers
    <3>2. list[h] \cup {node[h]} \in SUBSET Nodes
      BY <3>1 DEF AdminTypes
    <3> QED
      BY <2>1, <2>5, <3>2 DEF WriteMembers, Revived
  <2>6. CASE GuardPairs(h)
    BY <2>6 DEF GuardPairs, dbVars, AdminTypes
  <2>7. CASE ReadTasks(h) \/ Reload(h)
    BY <2>7 DEF ReadTasks, Reload, dbVars
  <2>8. CASE Unblock(h)
    <3>1. UNION {list[g] : g \in {x \in Admins : At(x, "guard")}} \subseteq Nodes
      BY DEF AdminTypes
    <3>2. node[h] \in Nodes \cup {Nobody}
      BY DEF AdminTypes
    <3> QED
      BY <2>8, <3>1, <3>2 DEF Unblock, dbVars
  <2>9. CASE Clean(h) \/ Join(h)
    BY <2>9 DEF Clean, Lock, Join, dbVars, histVars
  <2> QED
    BY <1>2, <2>2, <2>3, <2>4, <2>5, <2>6, <2>7, <2>8, <2>9 DEF Proceed
<1>3. CASE Tick \/ CleanStep
  BY <1>3 DEF Tick, Lock, CleanStep, BlockJob, Execute, RemoveJob, UnblockJob, Finish, dbVars, histVars
<1>4. ASSUME NEW w \in Writers, (\E n \in Nodes : Look(w, n)) \/ Check(w) \/ WritePoint(w)
      PROVE  HistType'
  BY <1>4 DEF Look, Check, WritePoint, dbVars, histVars
<1>5. CASE Crash \/ BootStep \/ UNCHANGED vars
  BY <1>5 DEF Crash, BootStep, BootClean, Lock, CleanOrphans, LoadSchedule, vars, dbVars, histVars
<1> QED
  BY <1>1, <1>2, <1>3, <1>4, <1>5 DEF Next

LEMMA StepBase ==
  ASSUME Base, [Next]_vars
  PROVE  Base'
<1>1. Requests' /\ OnlyWhenUp' /\ CleanerOwned' /\ CleanerListed' /\ SavesSound'
  BY StepRequests, StepUp, StepOwned, StepListed, StepSaves
<1>2. TypeOK'
  BY <1>1, StepDb, StepGuards, StepStore, StepCount, StepCleaner, StepHist
  DEF TypeOK, Requests, AdminTypes, DbType, GuardType, StoreType, CountType, CleanerType, HistType
<1> QED
  BY <1>1, <1>2 DEF Base, Requests


------------------------------------------------------------------------------
(* What is deleted stays empty *)

\* A node that is gone has left the task, unless it was assigned again.
GoneLeft == \A n \in members : nodes[n] = "gone" => n \in bared

\* A deletion's job is queued by the deletion.
JobsTrue ==
  /\ \A n \in Nodes : EntityJob(n) \in jobs \/ Handled(EntityJob(n)) => nodes[n] = "gone"
  /\ TaskJob \in jobs \/ Handled(TaskJob) => ~exists

\* A deletion has blocked the node that it deletes; it fails, and lifts the guard,
\* when the node is gone.
Asked(h) ==
  op[h] = "node" => /\ nodes[node[h]] # "new"
                    /\ At(h, "deleteNode") /\ nodes[node[h]] = "here" => node[h] \in entityGuard
                    /\ At(h, "unblock") => nodes[node[h]] = "gone"
GuardedFirst == \A h \in Admins : Asked(h)

\* The node is not pinged, no reload is about to ping it, and no result of it is
\* being stored.
Unheard(n) == \A w \in Writers : save[w].node # n
Unlisted(n) == \A h \in Admins : At(h, "apply") => n \notin list[h]
Away(n) == n \notin schedule /\ Unheard(n) /\ Unlisted(n)

Shut ==
  /\ \A n \in Nodes \ bared : nodes[n] = "gone" => n \in entityGuard \/ Away(n)
  /\ ~exists /\ Nobody \notin bared => taskGuard \/ \A n \in Nodes : Away(n)

Erased(n) == history[n] = {} /\ \A w \in Writers : save[w].node = n => save[w].at # "write"

\* What the job is about has been deleted from the metric store.
Done(j) == j \in jobs => cleaner.at = "remove" /\ cleaner.job = j

Emptied ==
  /\ \A n \in Nodes \ bared : nodes[n] = "gone" /\ Done(EntityJob(n)) => Erased(n)
  /\ ~exists /\ Nobody \notin bared /\ Done(TaskJob) => \A n \in Nodes : Erased(n)

DInv == Base /\ GoneLeft /\ JobsTrue /\ GuardedFirst /\ Shut /\ Emptied

LEMMA InitDeleted == Init => DInv
<1> SUFFICES ASSUME Init PROVE DInv
  OBVIOUS
<1> USE HistoryAssumption DEF Init
<1>1. GoneLeft /\ GuardedFirst
  BY DEF GoneLeft, GuardedFirst, Asked, At
<1>2. JobsTrue /\ Shut /\ Emptied
  BY DEF JobsTrue, Handled, Free, Shut, Emptied, Erased
<1> QED
  BY <1>1, <1>2, InitBase DEF DInv

LEMMA JobsApart ==
  /\ \A m, n \in Nodes : EntityJob(m) = EntityJob(n) => m = n
  /\ \A m, n \in Nodes : PairJob(m) = PairJob(n) => m = n
  /\ \A m, n \in Nodes : EntityJob(m) # PairJob(n)
  /\ \A n \in Nodes : EntityJob(n) # TaskJob /\ PairJob(n) # TaskJob
  /\ \A j \in Jobs : \/ j = TaskJob
                     \/ \E n \in Nodes : j = EntityJob(n) \/ j = PairJob(n)
  /\ \A j \in Jobs, n \in Nodes : j = PairJob(n) <=> j.kind = "pair" /\ j.node = n
  BY DEF EntityJob, PairJob, TaskJob, Jobs


\* What is deleted does not come back.
LEMMA GoneForGood ==
  ASSUME Base, [Next]_vars
  PROVE  /\ \A n \in Nodes : nodes[n] = "gone" => nodes'[n] = "gone"
         /\ ~exists => ~exists'
         /\ \A n \in Nodes : nodes[n] # "gone" /\ nodes'[n] = "gone" =>
              \E h \in Admins : DeleteNode(h) /\ n = node[h] /\ nodes[n] = "here"
         /\ exists /\ ~exists' => \E h \in Admins : DeleteTask(h)
         /\ bared \subseteq bared'
<1>0. nodes \in [Nodes -> {"new", "here", "gone"}]
  BY DEF Base, TypeOK
<1>1. CASE Background \/ Crash
  BY <1>1 DEF Background, Crash, requestVars, dbVars, histVars
<1>2. ASSUME NEW h \in Admins, Request(h)
      PROVE  /\ \A n \in Nodes : nodes'[n] = "gone" <=> nodes[n] = "gone"
             /\ exists' = exists /\ bared' = bared
  BY <1>0, <1>2 DEF Request, DeleteClient, CreateClient, DeletePingTask, EditPingTask, Begin, histVars
<1>3. ASSUME NEW h \in Admins, Advance(h) \/ Cleaned(h), ~DeleteNode(h), ~DeleteTask(h)
      PROVE  UNCHANGED <<nodes, exists>> /\ bared \subseteq bared'
  BY <1>3 DEF Advance, Edit, GuardPairs, ReadTasks, Reload, Unblock, Join, WriteMembers, Cleaned,
     Finish, dbVars, histVars
<1>4. ASSUME NEW h \in Admins, DeleteNode(h)
      PROVE  /\ exists' = exists /\ bared' = bared
             /\ \A n \in Nodes : nodes[n] = "gone" => nodes'[n] = "gone"
             /\ \A n \in Nodes : nodes[n] # "gone" /\ nodes'[n] = "gone" =>
                  n = node[h] /\ nodes[n] = "here"
  BY <1>0, <1>4 DEF DeleteNode, histVars
<1>5. ASSUME NEW h \in Admins, DeleteTask(h) PROVE nodes' = nodes /\ (~exists => ~exists') /\ bared \subseteq bared'
  BY <1>5 DEF DeleteTask
<1> QED
  BY <1>1, <1>2, <1>3, <1>4, <1>5, WhoRequests


LEMMA StepJobsTrue ==
  ASSUME Base, JobsTrue, [Next]_vars
  PROVE  JobsTrue'
<1>0. /\ JobsTrue /\ CleanerListed /\ CleanerType
      /\ \A n \in Nodes : nodes[n] = "gone" => nodes'[n] = "gone"
      /\ ~exists => ~exists'
  BY GoneForGood DEF Base, TypeOK, CleanerType
<1>1. ASSUME jobs' \subseteq jobs,
             \A j \in Jobs : Handled(j)' => j \in jobs \/ Handled(j)
      PROVE  JobsTrue'
  <2>1. \A j \in Jobs : j \in jobs' \/ Handled(j)' => j \in jobs \/ Handled(j)
    BY <1>1
  <2>2. TaskJob \in Jobs /\ \A n \in Nodes : EntityJob(n) \in Jobs
    BY DEF Jobs, EntityJob
  <2> QED
    BY <1>0, <2>1, <2>2 DEF JobsTrue
<1>2. CASE UNCHANGED <<cleaner, jobs>>
  BY <1>1, <1>2 DEF Handled
<1>3. ASSUME NEW h \in Admins, UNCHANGED cleaner, Queued(h) PROVE JobsTrue'
  <2>1. CASE DeleteNode(h)
    <3>1. \A j \in jobs' : j \in jobs \/ (j = EntityJob(node[h]) /\ nodes[node[h]] = "here")
      BY <2>1 DEF DeleteNode
    <3>2. node[h] \in Nodes
      BY <2>1, BaseRequests, PlanAt DEF DeleteNode
    <3>3. nodes[node[h]] = "here" => nodes'[node[h]] = "gone"
      BY <2>1, <3>2 DEF DeleteNode, Base, TypeOK
    <3> QED
      BY <1>0, <1>3, <3>1, <3>2, <3>3, JobsApart DEF JobsTrue, Handled
  <2>2. CASE DeleteTask(h)
    BY <1>0, <1>3, <2>2, JobsApart DEF DeleteTask, JobsTrue, Handled
  <2>3. CASE Edit(h)
    <3>1. members \subseteq Nodes
      BY DEF Base, TypeOK
    <3>2. \A j \in jobs' : j \in jobs \/ \E n \in Nodes : j = PairJob(n)
      BY <2>3, <3>1 DEF Edit
    <3> QED
      BY <1>0, <1>3, <3>2, JobsApart DEF JobsTrue, Handled
  <2> QED
    BY <1>3, <2>1, <2>2, <2>3 DEF Queued
<1>4. ASSUME NEW h \in Admins, Clean(h) PROVE JobsTrue'
  BY <1>1, <1>4 DEF Clean, Lock, dbVars, Free, Handled
<1>5. CASE Tick \/ BootClean
  BY <1>1, <1>5 DEF Tick, BootClean, Lock, dbVars, Free, Handled
<1>6. CASE BlockJob
  BY <1>0, <1>1, <1>6 DEF BlockJob, BlockTarget, Taken, Working, CleanerType, CleanerListed, Handled, dbVars
<1>7. CASE Execute \/ RemoveJob \/ UnblockJob
  BY <1>0, <1>1, <1>7 DEF Execute, RemoveJob, UnblockJob, Skip, Working, CleanerType, Handled, dbVars
<1>8. CASE Finish \/ Crash
  BY <1>1, <1>8 DEF Finish, Crash, Free, Handled, dbVars
<1> QED
  BY <1>2, <1>3, <1>4, <1>5, <1>6, <1>7, <1>8, WhoQueues DEF CleanStep


\* A reload applies what it has read.
LEMMA Listed ==
  ASSUME Base, [Next]_vars, NEW h \in Admins, At(h, "apply")'
  PROVE  \/ At(h, "apply") /\ list'[h] = list[h]
         \/ ReadTasks(h) /\ list'[h] = Tasks
<1> USE BaseRequests
<1>1. CASE Background
  BY <1>1 DEF Background, requestVars, adminVars, At
<1>2. ASSUME NEW g \in Admins, Request(g) PROVE At(h, "apply") /\ list'[h] = list[h]
  <2>1. CASE g # h
    BY <1>2, <2>1, Requested DEF Others, At
  <2>2. CASE g = h
    BY <1>2, <2>2, Requested DEF Request, At
  <2> QED
    BY <2>1, <2>2
<1>3. ASSUME NEW g \in Admins, Advance(g), ~(g = h /\ ReadTasks(h))
      PROVE  At(h, "apply") /\ list'[h] = list[h]
  <2>1. CASE g # h
    BY <1>3, <2>1, Advanced DEF Others, At
  <2>2. CASE g = h
    <3> USE GoesOn, PlanAt, Heads, Plans DEF At
    <3>1. ~DeleteNode(h)
      <4>1. DeleteNode(h) => Head(todo'[h]) \in {"clean", "unblock"}
        BY DeletesNode
      <4> QED
        BY <4>1
    <3>2. ~DeleteTask(h)
      BY DeletesTask
    <3>3. ~Edit(h)
      BY Edits
    <3>4. ~GuardPairs(h)
      BY DEF GuardPairs
    <3>5. ~Reload(h)
      BY DEF Reload
    <3>6. ~Unblock(h)
      BY DEF Unblock
    <3>7. ~Join(h)
      BY DEF Join
    <3>8. ~WriteMembers(h)
      BY DEF WriteMembers
    <3> QED
      BY <1>3, <2>2, <3>1, <3>2, <3>3, <3>4, <3>5, <3>6, <3>7, <3>8 DEF Advance
  <2> QED
    BY <2>1, <2>2
<1>4. ASSUME ReadTasks(h) PROVE list'[h] = Tasks
  <2>1. todo[h] # <<>> /\ At(h, "read")
    BY <1>4 DEF ReadTasks, At
  <2>2. ~Continue(h, Tail(Tail(todo[h])), {})
    BY <2>1, GoesOn, PlanAt, Heads, Plans DEF At
  <2> QED
    BY <1>4, <2>2, GoesOn DEF ReadTasks, At
<1>5. ASSUME NEW g \in Admins, Cleaned(g) PROVE At(h, "apply") /\ list'[h] = list[h]
  <2>1. CASE g # h
    BY <1>5, <2>1, WhenCleaned DEF Others, At
  <2>2. CASE g = h
    BY <1>5, <2>2, WhenCleaned, Heads DEF At
  <2> QED
    BY <2>1, <2>2
<1>6. ~Crash
  BY DEF Crash, At
<1> QED
  BY <1>1, <1>2, <1>3, <1>4, <1>5, <1>6, WhoRequests

\* A node that the task is given again after its deletion is known by it.
LEMMA StepLeft ==
  ASSUME Base, GoneLeft, [Next]_vars
  PROVE  GoneLeft'
<1> USE BaseRequests DEF GoneLeft
<1>0. nodes \in [Nodes -> {"new", "here", "gone"}] /\ members \subseteq Nodes
  BY DEF Base, TypeOK
<1>1. CASE Background \/ Crash
  BY <1>1 DEF Background, Crash, requestVars, dbVars, histVars
<1>2. ASSUME NEW h \in Admins, Request(h) PROVE GoneLeft'
  BY <1>0, <1>2 DEF Request, DeleteClient, CreateClient, DeletePingTask, EditPingTask, Begin, histVars
<1>3. ASSUME NEW h \in Admins, Advance(h) PROVE GoneLeft'
  <2>1. CASE DeleteNode(h)
    <3>1. bared' = bared
      BY <2>1 DEF DeleteNode, histVars
    <3> QED
      BY <1>0, <2>1, <3>1, DeletesNode DEF Assign
  <2>2. CASE DeleteTask(h)
    BY <2>2 DEF DeleteTask, Assign
  <2>3. CASE Edit(h)
    BY <2>3 DEF Edit, Assign, Revived, histVars
  <2>4. CASE WriteMembers(h)
    BY <2>4 DEF WriteMembers, Assign, Revived
  <2>5. CASE GuardPairs(h) \/ ReadTasks(h) \/ Reload(h) \/ Unblock(h) \/ Join(h)
    BY <2>5 DEF GuardPairs, ReadTasks, Reload, Unblock, Join, dbVars, histVars
  <2> QED
    BY <1>3, <2>1, <2>2, <2>3, <2>4, <2>5 DEF Advance
<1>4. ASSUME NEW h \in Admins, Cleaned(h) PROVE GoneLeft'
  BY <1>4 DEF Cleaned, Finish, dbVars, histVars
<1> QED
  BY <1>1, <1>2, <1>3, <1>4, WhoRequests

LEMMA StepGuardedFirst ==
  ASSUME Base, GuardedFirst, [Next]_vars
  PROVE  GuardedFirst'
<1> USE BaseRequests
<1>0. /\ nodes \in [Nodes -> {"new", "here", "gone"}]
      /\ nodes' \in [Nodes -> {"new", "here", "gone"}]
      /\ \A g \in Admins : Asked(g) /\ InOrder(g)
  BY StepDb DEF Base, TypeOK, GuardedFirst, DbType
\* Of a request that stays where it is.
<1>1. ASSUME NEW g \in Admins, op'[g] = op[g], todo'[g] = todo[g], node'[g] = node[g],
             \A n \in Nodes : /\ nodes'[n] = "new" => nodes[n] = "new"
                              /\ nodes'[n] = "here" => nodes[n] \in {"new", "here"}
                              /\ n \in entityGuard \ entityGuard' => nodes[n] = "gone"
      PROVE  Asked(g)'
  <2>1. op[g] = "node" => node[g] \in Nodes
    BY <1>0 DEF InOrder
  <2> QED
    BY <1>0, <1>1, <2>1 DEF Asked, At
<1>2. CASE Background
  <2>1. ASSUME NEW g \in Admins PROVE Asked(g)'
    BY <1>1, <1>2 DEF Background, requestVars, adminVars
  <2> QED
    BY <2>1 DEF GuardedFirst
<1>3. ASSUME NEW h \in Admins, Request(h) PROVE GuardedFirst'
  <2>1. /\ \A n \in Nodes : /\ nodes'[n] = "new" => nodes[n] = "new"
                            /\ nodes'[n] = "here" => nodes[n] \in {"new", "here"}
        /\ entityGuard \subseteq entityGuard'
    BY <1>0, <1>3 DEF Request, DeleteClient, CreateClient, DeletePingTask, EditPingTask, Begin
  <2>2. ASSUME NEW g \in Admins, g # h PROVE Asked(g)'
    BY <1>1, <1>3, <2>1, <2>2, Requested DEF Others
  <2>3. Asked(h)'
    <3>1. ASSUME NEW n \in Nodes, DeleteClient(h, n) PROVE Asked(h)'
      <4>1. /\ nodes[n] # "new" /\ nodes' = nodes /\ n \in entityGuard'
        BY <3>1 DEF DeleteClient, Known
      <4>2. node'[h] = n /\ At(h, "deleteNode")'
        BY <1>3, <3>1, Requested
      <4> QED
        BY <4>1, <4>2 DEF Asked, At
    <3>2. ASSUME ~\E n \in Nodes : DeleteClient(h, n) PROVE op'[h] # "node"
      BY <1>3, <3>2, Requested DEF Request
    <3> QED
      BY <3>1, <3>2 DEF Asked
  <2> QED
    BY <2>2, <2>3 DEF GuardedFirst
<1>4. ASSUME NEW h \in Admins, Advance(h) PROVE GuardedFirst'
  <2>1. \A n \in Nodes : /\ nodes'[n] = "new" => nodes[n] = "new"
                         /\ nodes'[n] = "here" => nodes[n] \in {"new", "here"}
                         /\ n \in entityGuard \ entityGuard' => nodes[n] = "gone"
    <3>1. CASE DeleteNode(h)
      <4>1. entityGuard' = entityGuard
        BY <3>1 DEF DeleteNode, guardVars
      <4> QED
        BY <1>0, <3>1, <4>1, DeletesNode
    <3>2. CASE Unblock(h)
      <4>1. op[h] = "node" /\ At(h, "unblock") => nodes[node[h]] = "gone"
        BY <1>0 DEF Asked
      <4> QED
        BY <3>2, <4>1 DEF Unblock, dbVars
    <3>3. CASE DeleteTask(h) \/ Edit(h) \/ GuardPairs(h) \/ ReadTasks(h) \/ Reload(h) \/ Join(h)
                \/ WriteMembers(h)
      BY <3>3 DEF DeleteTask, Edit, GuardPairs, ReadTasks, Reload, Join, WriteMembers, dbVars,
         guardVars
    <3> QED
      BY <1>4, <3>1, <3>2, <3>3 DEF Advance
  <2>2. ASSUME NEW g \in Admins, g # h PROVE Asked(g)'
    BY <1>1, <1>4, <2>1, <2>2, Advanced DEF Others
  <2>3. Asked(h)'
    <3>1. CASE DeleteNode(h)
      <4>1. op[h] = "node" /\ nodes[node[h]] # "new" /\ node[h] \in Nodes /\ node'[h] = node[h]
        BY <1>0, <3>1, DeletesNode DEF Asked
      <4>2. /\ nodes[node[h]] = "here" => nodes'[node[h]] = "gone" /\ ~At(h, "unblock")'
            /\ nodes[node[h]] # "here" => nodes'[node[h]] = "gone"
            /\ ~At(h, "deleteNode")'
        <5>1. CASE nodes[node[h]] = "here"
          BY <1>0, <3>1, <4>1, <5>1, DeletesNode, Heads DEF At
        <5>2. CASE nodes[node[h]] # "here"
          BY <1>0, <3>1, <4>1, <5>2, DeletesNode, Heads DEF At
        <5> QED
          BY <5>1, <5>2
      <4> QED
        BY <1>0, <4>1, <4>2 DEF Asked
    <3>2. CASE DeleteTask(h)
      BY <3>2, DeletesTask DEF Asked
    <3>3. CASE Edit(h)
      BY <3>3, Edits DEF Asked
    <3>4. CASE GuardPairs(h) \/ Join(h) \/ WriteMembers(h)
      <4>1. op[h] # "node" /\ (op'[h] = op[h] \/ op'[h] = "none")
        BY <1>0, <3>4, PlanAt DEF GuardPairs, Join, WriteMembers, Continue, Base, TypeOK
      <4> QED
        BY <4>1 DEF Asked
    <3>5. CASE ReadTasks(h) \/ Reload(h)
      <4>1. /\ todo'[h] \in {<<>>, Apply1, Apply3, Clean2}
            /\ todo'[h] # <<>> => op'[h] = op[h] /\ node'[h] = node[h]
            /\ todo'[h] = <<>> => op'[h] = "none"
        BY <1>0, <3>5, PlanAt DEF ReadTasks, Reload, Continue, Base, TypeOK
      <4>2. nodes' = nodes
        BY <3>5 DEF ReadTasks, Reload, dbVars
      <4>3. ~At(h, "unblock")' /\ ~At(h, "deleteNode")'
        BY <4>1, Heads DEF At
      <4> QED
        BY <1>0, <4>1, <4>2, <4>3 DEF Asked
    <3>6. CASE Unblock(h)
      <4>1. op'[h] = "none"
        BY <3>6 DEF Unblock, Continue, Base, TypeOK
      <4> QED
        BY <4>1 DEF Asked
    <3> QED
      BY <1>4, <3>1, <3>2, <3>3, <3>4, <3>5, <3>6 DEF Advance
  <2> QED
    BY <2>2, <2>3 DEF GuardedFirst
<1>5. ASSUME NEW h \in Admins, Cleaned(h) PROVE GuardedFirst'
  <2>1. UNCHANGED <<nodes, entityGuard>>
    BY <1>5 DEF Cleaned, Finish, dbVars, guardVars
  <2>2. ASSUME NEW g \in Admins, g # h PROVE Asked(g)'
    BY <1>1, <1>5, <2>1, <2>2, WhenCleaned DEF Others
  <2>3. Asked(h)'
    <3>1. CASE todo'[h] = <<>>
      <4>1. op'[h] = "none"
        BY <1>5, <3>1 DEF Cleaned, Finish, Continue, Base, TypeOK
      <4> QED
        BY <4>1 DEF Asked
    <3>2. CASE todo'[h] = Read2
      <4>1. ~At(h, "unblock")' /\ ~At(h, "deleteNode")' /\ Read2 # <<>>
        BY <3>2, Heads, Plans DEF At, Goes
      <4> QED
        BY <1>0, <1>5, <2>1, <3>2, <4>1, WhenCleaned DEF Asked
    <3>3. CASE todo'[h] = Unblock1
      <4>1. Unblock1 # <<>>
        BY Plans DEF Ends
      <4> QED
        BY <1>5, <3>3, <4>1, WhenCleaned DEF Asked
    <3> QED
      BY <1>5, <3>1, <3>2, <3>3, WhenCleaned
  <2> QED
    BY <2>2, <2>3 DEF GuardedFirst
<1>6. CASE Crash
  BY <1>6 DEF Crash, GuardedFirst, Asked
<1> QED
  BY <1>2, <1>3, <1>4, <1>5, <1>6, WhoRequests

LEMMA WhoSchedules ==
  ASSUME [Next]_vars
  PROVE  \/ UNCHANGED schedule
         \/ \E h \in Admins : Reload(h)
         \/ Crash \/ LoadSchedule
<1>1. ASSUME NEW h \in Admins, Request(h) \/ Proceed(h) PROVE UNCHANGED schedule \/ Reload(h)
  BY <1>1 DEF Request, DeleteClient, CreateClient, DeletePingTask, EditPingTask, Begin, Proceed,
     DeleteNode, DeleteTask, Edit, GuardPairs, ReadTasks, Clean, Lock, Unblock, Join, WriteMembers
<1>2. CASE Tick \/ CleanStep
  BY <1>2 DEF Tick, Lock, CleanStep, BlockJob, Execute, RemoveJob, UnblockJob, Finish
<1>3. ASSUME NEW w \in Writers, (\E n \in Nodes : Look(w, n)) \/ Check(w) \/ WritePoint(w)
      PROVE  UNCHANGED schedule
  BY <1>3 DEF Look, Check, WritePoint
<1>4. CASE BootClean \/ CleanOrphans \/ UNCHANGED vars
  BY <1>4 DEF BootClean, Lock, CleanOrphans, vars
<1> QED
  BY <1>1, <1>2, <1>3, <1>4 DEF Next, BootStep

LEMMA StepShut ==
  ASSUME DInv, [Next]_vars
  PROVE  Shut'
<1> USE BaseRequests DEF DInv
<1>0. /\ save \in [Writers -> [node : Nodes \cup {Nobody}, term : Terms,
                               at : {"idle", "check", "write"}]]
      /\ Nobody \notin Nodes
      /\ bared \subseteq bared'
  BY HistoryAssumption, GoneForGood DEF Base, TypeOK
<1>1. CASE Crash
  <2>1. \A n \in Nodes : Away(n)'
    BY <1>0, <1>1 DEF Crash, Away, Unheard, Unlisted, NoSave, At
  <2> QED
    BY <2>1 DEF Shut
\* A guard that was set stays, or its target is counted as opened again.
<1>2. ASSUME ~Crash
      PROVE  /\ \A n \in Nodes \ bared' : n \in entityGuard => n \in entityGuard'
             /\ ~exists /\ taskGuard /\ Nobody \notin bared' => taskGuard'
  <2>1. ASSUME NEW h \in Admins, Request(h)
        PROVE  entityGuard \subseteq entityGuard' /\ (taskGuard => taskGuard')
    BY <2>1 DEF Request, DeleteClient, CreateClient, DeletePingTask, EditPingTask
  <2>2. ASSUME NEW h \in Admins, Unblock(h)
        PROVE  /\ \A n \in Nodes \ bared' : n \in entityGuard => n \in entityGuard'
               /\ ~exists /\ taskGuard /\ Nobody \notin bared' => taskGuard'
    BY <2>2 DEF Unblock
  <2>3. ASSUME NEW h \in Admins, Advance(h) \/ Cleaned(h), ~Unblock(h)
        PROVE  UNCHANGED <<entityGuard, taskGuard>>
    BY <2>3 DEF Advance, DeleteNode, DeleteTask, Edit, GuardPairs, ReadTasks, Reload, Join,
       WriteMembers, Cleaned, Finish, guardVars
  <2> QED
    BY <1>2, <2>1, <2>2, <2>3, WhoRequests DEF Background
\* What is not pinged stays that way, and no result of it begins.
<1>3. ASSUME ~Crash, NEW n \in Nodes, ~exists \/ (nodes[n] = "gone" /\ n \notin bared), Away(n)
      PROVE  Away(n)'
  <2>1. n \notin Tasks
    BY <1>3 DEF GoneLeft, Tasks
  <2>2. n \notin schedule'
    <3>1. ASSUME NEW h \in Admins, Reload(h) PROVE n \notin schedule'
      BY <1>3, <3>1 DEF Reload, Away, Unlisted
    <3>2. CASE LoadSchedule
      BY <2>1, <3>2 DEF LoadSchedule
    <3> QED
      BY <1>3, <3>1, <3>2, WhoSchedules DEF Away
  <2>3. Unheard(n)'
    <3>1. ASSUME NEW w \in Writers, NEW m \in Nodes, Look(w, m) PROVE Unheard(n)'
      BY <1>0, <1>3, <3>1 DEF Look, Away, Unheard
    <3>2. ASSUME NEW w \in Writers, Check(w) \/ WritePoint(w) PROVE Unheard(n)'
      BY <1>0, <1>3, <3>2 DEF Check, WritePoint, Away, Unheard, NoSave
    <3>3. CASE UNCHANGED save
      BY <1>3, <3>3 DEF Away, Unheard
    <3> QED
      BY <1>3, <3>1, <3>2, <3>3, WhoSaves
  <2>4. Unlisted(n)'
    BY <1>3, <2>1, Listed DEF Away, Unlisted
  <2> QED
    BY <2>2, <2>3, <2>4 DEF Away
<1>4. ASSUME ~Crash, NEW n \in Nodes \ bared', nodes'[n] = "gone"
      PROVE  n \in entityGuard' \/ Away(n)'
  <2>1. CASE nodes[n] = "gone"
    BY <1>0, <1>2, <1>3, <1>4, <2>1 DEF Shut
  <2>2. CASE nodes[n] # "gone"
    <3> PICK h \in Admins : DeleteNode(h) /\ n = node[h] /\ nodes[n] = "here"
      BY <1>4, <2>2, GoneForGood
    <3>1. At(h, "deleteNode") /\ entityGuard' = entityGuard /\ op[h] = "node"
      BY DeletesNode DEF DeleteNode, guardVars
    <3> QED
      BY <3>1 DEF GuardedFirst, Asked
  <2> QED
    BY <2>1, <2>2
<1>5. ASSUME ~Crash, ~exists', Nobody \notin bared'
      PROVE  taskGuard' \/ \A n \in Nodes : Away(n)'
  <2>1. CASE ~exists
    BY <1>0, <1>2, <1>3, <1>5, <2>1 DEF Shut
  <2>2. CASE exists
    <3> PICK h \in Admins : DeleteTask(h)
      BY <1>5, <2>2, GoneForGood
    <3> QED
      BY <1>5, <2>2 DEF DeleteTask, guardVars
  <2> QED
    BY <2>1, <2>2
<1> QED
  BY <1>1, <1>4, <1>5 DEF Shut

LEMMA WhoStores ==
  ASSUME [Next]_vars
  PROVE  \/ UNCHANGED <<history, save>>
         \/ \E w \in Writers : (\E n \in Nodes : Look(w, n)) \/ Check(w) \/ WritePoint(w)
         \/ Execute \/ Crash \/ CleanOrphans
<1>1. ASSUME NEW h \in Admins, Request(h) \/ Proceed(h) PROVE UNCHANGED <<history, save>>
  BY <1>1 DEF Request, DeleteClient, CreateClient, DeletePingTask, EditPingTask, Begin, Proceed,
     DeleteNode, DeleteTask, Edit, GuardPairs, ReadTasks, Reload, Clean, Lock, Unblock, Join,
     WriteMembers
<1>2. CASE Tick \/ BlockJob \/ RemoveJob \/ UnblockJob \/ Finish
  BY <1>2 DEF Tick, Lock, BlockJob, RemoveJob, UnblockJob, Finish
<1>3. CASE BootClean \/ LoadSchedule \/ UNCHANGED vars
  BY <1>3 DEF BootClean, Lock, LoadSchedule, vars
<1> QED
  BY <1>1, <1>2, <1>3 DEF Next, CleanStep, BootStep

\* A job is done because the metric store has just executed it, or was before.
LEMMA WhenDone ==
  ASSUME Base, [Next]_vars, NEW j, Done(j)'
  PROVE  Done(j) \/ (Execute /\ j = cleaner.job /\ cleaner'.at = "remove")
<1>0. CleanerType
  BY DEF Base, TypeOK, CleanerType
<1> USE DEF Done
<1>1. CASE UNCHANGED <<cleaner, jobs>>
  BY <1>1
<1>2. ASSUME NEW h \in Admins, UNCHANGED cleaner, Queued(h) PROVE Done(j)
  <2>1. jobs \subseteq jobs'
    BY <1>2 DEF Queued, DeleteNode, DeleteTask, Edit
  <2> QED
    BY <1>2, <2>1
<1>3. ASSUME NEW h \in Admins, Clean(h) PROVE Done(j)
  BY <1>3 DEF Clean, Lock, dbVars, Free
<1>4. CASE Tick \/ BootClean
  BY <1>4 DEF Tick, BootClean, Lock, dbVars, Free
<1>5. CASE BlockJob
  BY <1>0, <1>5 DEF BlockJob, BlockTarget, Taken, dbVars, CleanerType
<1>6. CASE Execute
  BY <1>0, <1>6 DEF Execute, Skip, dbVars, CleanerType
<1>7. CASE RemoveJob
  BY <1>0, <1>7 DEF RemoveJob, Skip, Working, CleanerType
<1>8. CASE UnblockJob
  BY <1>0, <1>8 DEF UnblockJob, Skip, dbVars, CleanerType
<1>9. CASE Finish \/ Crash
  BY <1>9 DEF Finish, Crash, dbVars, Free
<1> QED
  BY <1>1, <1>2, <1>3, <1>4, <1>5, <1>6, <1>7, <1>8, <1>9, WhoQueues DEF CleanStep

LEMMA ErasedStays ==
  ASSUME DInv, [Next]_vars, NEW n \in Nodes, Erased(n),
         (nodes[n] = "gone" /\ n \notin bared) \/ (~exists /\ Nobody \notin bared)
  PROVE  Erased(n)'
<1>0. /\ save \in [Writers -> [node : Nodes \cup {Nobody}, term : Terms,
                               at : {"idle", "check", "write"}]]
      /\ history \in [Nodes -> SUBSET Terms]
  BY DEF DInv, Base, TypeOK
<1> USE <1>0 DEF Erased
<1>1. CASE UNCHANGED <<history, save>>
  BY <1>1
<1>2. ASSUME NEW w \in Writers, NEW m \in Nodes, Look(w, m) PROVE Erased(n)'
  BY <1>2 DEF Look
<1>3. ASSUME NEW w \in Writers, Check(w) PROVE Erased(n)'
  <2>1. save[w].node = n => Blocked(n)
    BY DEF DInv, Shut, Away, Unheard, Blocked
  <2> QED
    BY <1>3, <2>1 DEF Check, NoSave
<1>4. ASSUME NEW w \in Writers, WritePoint(w) PROVE Erased(n)'
  BY <1>4 DEF WritePoint, NoSave
<1>5. CASE Execute
  BY <1>5 DEF Execute
<1>6. CASE Crash
  BY <1>6 DEF Crash, NoSave
<1>7. CASE CleanOrphans
  BY <1>7 DEF CleanOrphans
<1> QED
  BY <1>1, <1>2, <1>3, <1>4, <1>5, <1>6, <1>7, WhoStores

LEMMA StepEmptied ==
  ASSUME DInv, [Next]_vars
  PROVE  Emptied'
<1>1. ASSUME NEW n \in Nodes, Execute, Concerns(cleaner.job, n), cleaner'.at = "remove"
      PROVE  Erased(n)'
  BY <1>1 DEF Execute, Skip, Erased, DInv, Base, TypeOK
<1>0. bared \subseteq bared'
  BY GoneForGood DEF DInv
<1>2. ASSUME NEW n \in Nodes \ bared', nodes'[n] = "gone", Done(EntityJob(n))'
      PROVE  Erased(n)'
  <2>1. CASE nodes[n] = "gone" /\ Done(EntityJob(n))
    BY <1>0, <1>2, <2>1, ErasedStays DEF DInv, Emptied
  <2>2. CASE Execute /\ EntityJob(n) = cleaner.job /\ cleaner'.at = "remove"
    BY <1>1, <2>2 DEF Concerns, EntityJob
  <2>3. CASE nodes[n] # "gone"
    <3> PICK h \in Admins : DeleteNode(h) /\ n = node[h] /\ nodes[n] = "here"
      BY <1>2, <2>3, GoneForGood DEF DInv
    <3>1. EntityJob(n) \in jobs' /\ cleaner' = cleaner
      BY DeletesNode DEF DeleteNode, DInv
    <3>2. Handled(EntityJob(n))
      BY <1>2, <3>1 DEF Done, Handled
    <3> QED
      BY <2>3, <3>2 DEF DInv, JobsTrue
  <2> QED
    BY <1>2, <2>1, <2>2, <2>3, WhenDone DEF DInv
<1>3. ASSUME NEW n \in Nodes, ~exists', Nobody \notin bared', Done(TaskJob)'
      PROVE  Erased(n)'
  <2>1. CASE ~exists /\ Done(TaskJob)
    BY <1>0, <1>3, <2>1, ErasedStays DEF DInv, Emptied
  <2>2. CASE Execute /\ TaskJob = cleaner.job /\ cleaner'.at = "remove"
    BY <1>1, <2>2 DEF Concerns, TaskJob
  <2>3. CASE exists
    <3> PICK h \in Admins : DeleteTask(h)
      BY <1>3, <2>3, GoneForGood DEF DInv
    <3>1. TaskJob \in jobs' /\ cleaner' = cleaner
      BY <1>3, <2>3 DEF DeleteTask
    <3>2. Handled(TaskJob)
      BY <1>3, <3>1 DEF Done, Handled
    <3> QED
      BY <2>3, <3>2 DEF DInv, JobsTrue
  <2> QED
    BY <1>3, <2>1, <2>2, <2>3, WhenDone DEF DInv
<1> QED
  BY <1>2, <1>3 DEF Emptied

LEMMA StepDeleted ==
  ASSUME DInv, [Next]_vars
  PROVE  DInv'
  BY StepBase, StepLeft, StepJobsTrue, StepGuardedFirst, StepShut, StepEmptied DEF DInv

\* From the end of its cleanup on, a deleted node or task has no history, whatever
\* result arrives late, whatever the order of requests, worker, writers and crashes
\* and whatever fails: unless a request that came later opened it again, by failing
\* to delete it, by an edit, or by giving the task to the node that is gone
\* (deleteClient, deletePingTaskRows, the deletion guards).
THEOREM DeletedIsEmpty == Spec => []DeletedStaysEmpty
<1>1. Init => DInv
  BY InitDeleted
<1>2. DInv /\ [Next]_vars => DInv'
  BY StepDeleted
<1>3. DInv => DeletedStaysEmpty
  BY DEF DInv, Emptied, Done, Erased, DeletedStaysEmpty
<1> QED
  BY <1>1, <1>2, <1>3, PTL DEF Spec

------------------------------------------------------------------------------
(* Guards, schedule and database *)

\* An edit has queued the cleanup, and sets the guard next.
AboutToGuard(n) == \E h \in Admins : At(h, "guard") /\ n \in list[h]

\* The panel starts, and has not come to the node's cleanup yet.
Rebooting(n) == boot = "clean" /\ (cleaner.by = "boot" => PairJob(n) \in cleaner.left)

PairGuarded(n) ==
  /\ PairJob(n) \in jobs => n \in pairGuard \/ AboutToGuard(n) \/ Rebooting(n)
  /\ n \in pairGuard => \/ PairJob(n) \in jobs
                        \/ cleaner.at = "unblock" /\ cleaner.job = PairJob(n)
PairsGuarded == \A n \in Nodes \ crossed : PairGuarded(n)

\* A job is executed under its guard.
JobGuarded ==
  \A n \in Nodes : cleaner.at \in {"execute", "remove"} /\ cleaner.job = PairJob(n) => n \in pairGuard

\* Until the guard of the assignment is set, that of the task is.
EditGuarded ==
  \A h \in Admins : At(h, "guard") => \A n \in list[h] \ crossed : taskGuard

\* Whoever changes the task's nodes reloads the schedule later.
Reloads == {Clean3, Guard5, Read2, Read4, Apply1, Apply3}
ReloadDue ==
  boot = "up" /\ ~late /\ schedule # Tasks => \E h \in Admins : todo[h] \in Reloads

GInv == Base /\ PairsGuarded /\ JobGuarded /\ EditGuarded

LEMMA CrossedStays ==
  ASSUME Base, [Next]_vars
  PROVE  crossed \subseteq crossed'
<1>1. ASSUME NEW h \in Admins, Request(h) PROVE crossed' = crossed
  BY <1>1 DEF Request, DeleteClient, CreateClient, DeletePingTask, EditPingTask, Begin, histVars
<1>2. ASSUME NEW h \in Admins, Proceed(h) PROVE crossed \subseteq crossed'
  <2>1. CASE Edit(h)
    BY <2>1, Edits
  <2> QED
    BY <1>2, <2>1 DEF Proceed, DeleteNode, DeleteTask, GuardPairs, ReadTasks, Reload, Clean, Lock,
       Unblock, Join, WriteMembers, histVars
<1>3. CASE Tick \/ CleanStep
  BY <1>3 DEF Tick, Lock, CleanStep, BlockJob, Execute, RemoveJob, UnblockJob, Finish, histVars
<1>4. ASSUME NEW w \in Writers, (\E n \in Nodes : Look(w, n)) \/ Check(w) \/ WritePoint(w)
      PROVE  crossed' = crossed
  BY <1>4 DEF Look, Check, WritePoint, histVars
<1>5. CASE Crash \/ BootStep \/ UNCHANGED vars
  BY <1>5 DEF Crash, BootStep, BootClean, Lock, CleanOrphans, LoadSchedule, vars, histVars
<1> QED
  BY <1>1, <1>2, <1>3, <1>4, <1>5 DEF Next

\* A request that is to set guards has committed an edit, and sets them.
LEMMA GuardsNext ==
  ASSUME Base, [Next]_vars, NEW h \in Admins, At(h, "guard")'
  PROVE  \/ At(h, "guard") /\ list'[h] = list[h]
         \/ Edit(h) /\ list'[h] = Removed(h) /\ (taskGuard \/ Removed(h) \subseteq crossed')
<1> USE BaseRequests
<1>1. CASE Background
  BY <1>1 DEF Background, requestVars, adminVars, At
<1>2. ASSUME NEW g \in Admins, Request(g) PROVE At(h, "guard") /\ list'[h] = list[h]
  <2>1. CASE g # h
    BY <1>2, <2>1, Requested DEF Others, At
  <2>2. CASE g = h
    BY <1>2, <2>2, Requested DEF Request, At
  <2> QED
    BY <2>1, <2>2
<1>3. ASSUME NEW g \in Admins, Advance(g), ~(g = h /\ Edit(h))
      PROVE  At(h, "guard") /\ list'[h] = list[h]
  <2>1. CASE g # h
    BY <1>3, <2>1, Advanced DEF Others, At
  <2>2. CASE g = h
    <3> USE GoesOn, PlanAt, Heads, Plans DEF At
    <3>1. ~DeleteNode(h)
      <4>1. DeleteNode(h) => Head(todo'[h]) \in {"clean", "unblock"}
        BY DeletesNode
      <4> QED
        BY <4>1
    <3>2. ~DeleteTask(h)
      BY DeletesTask
    <3>3. ~ReadTasks(h)
      <4>1. ReadTasks(h) => todo'[h] \in {<<>>, Apply1, Apply3, Clean2}
        BY DEF ReadTasks
      <4> QED
        BY <4>1
    <3>4. ~GuardPairs(h)
      BY DEF GuardPairs
    <3>5. ~Reload(h)
      BY DEF Reload
    <3>6. ~Unblock(h)
      BY DEF Unblock
    <3>7. ~Join(h)
      BY DEF Join
    <3>8. ~WriteMembers(h)
      BY DEF WriteMembers
    <3> QED
      BY <1>3, <2>2, <3>1, <3>2, <3>3, <3>4, <3>5, <3>6, <3>7, <3>8 DEF Advance
  <2> QED
    BY <2>1, <2>2
<1>4. ASSUME Edit(h)
      PROVE  list'[h] = Removed(h) /\ (taskGuard \/ Removed(h) \subseteq crossed')
  <2>1. todo'[h] # Unblock1
    BY Heads DEF At
  <2> QED
    BY <1>4, <2>1, Edits
<1>5. ASSUME NEW g \in Admins, Cleaned(g) PROVE At(h, "guard") /\ list'[h] = list[h]
  <2>1. CASE g # h
    BY <1>5, <2>1, WhenCleaned DEF Others, At
  <2>2. CASE g = h
    BY <1>5, <2>2, WhenCleaned, Heads DEF At
  <2> QED
    BY <2>1, <2>2
<1>6. ~Crash
  BY DEF Crash, At
<1> QED
  BY <1>1, <1>2, <1>3, <1>4, <1>5, <1>6, WhoRequests

LEMMA StillToGuard ==
  ASSUME Base, [Next]_vars, NEW n \in Nodes, AboutToGuard(n), ~AboutToGuard(n)'
  PROVE  Crash \/ \E h \in Admins : GuardPairs(h) /\ n \in list[h]
<1> PICK h \in Admins : At(h, "guard") /\ n \in list[h]
  BY DEF AboutToGuard
<1>1. ~Background
  BY DEF Background, requestVars, adminVars, AboutToGuard, At
<1>2. ASSUME NEW g \in Admins, Others(g), g # h PROVE FALSE
  BY <1>2 DEF Others, AboutToGuard, At
<1>3. ASSUME NEW g \in Admins, Request(g) PROVE FALSE
  BY <1>2, <1>3, Requested DEF At
<1>4. ASSUME NEW g \in Admins, Advance(g) PROVE g = h /\ GuardPairs(h)
  <2>1. g = h
    BY <1>2, <1>4, Advanced
  <2> QED
    BY <1>4, <2>1 DEF Advance, DeleteNode, DeleteTask, Edit, ReadTasks, Reload, Unblock, Join,
       WriteMembers, At
<1>5. ASSUME NEW g \in Admins, Cleaned(g) PROVE FALSE
  BY <1>2, <1>5, WhenCleaned DEF Cleaned, At
<1> QED
  BY <1>1, <1>3, <1>4, <1>5, WhoRequests

LEMMA StepEditGuarded ==
  ASSUME Base, EditGuarded, [Next]_vars
  PROVE  EditGuarded'
<1> SUFFICES ASSUME NEW h \in Admins, At(h, "guard")', NEW n \in list'[h], n \notin crossed'
             PROVE  taskGuard'
  BY DEF EditGuarded
<1>1. CASE Edit(h) /\ list'[h] = Removed(h) /\ (taskGuard \/ Removed(h) \subseteq crossed')
  BY <1>1 DEF Edit, guardVars
<1>2. CASE At(h, "guard") /\ list'[h] = list[h]
  <2>1. taskGuard
    BY <1>2, CrossedStays DEF EditGuarded
  <2>2. ASSUME NEW g \in Admins, Unblock(g) PROVE taskGuard'
    <3>1. op[g] = "node" \/ n \in crossed'
      BY <1>2, <2>2 DEF Unblock
    <3> QED
      BY <2>1, <2>2, <3>1 DEF Unblock
  <2>3. ASSUME NEW g \in Admins, Request(g) PROVE taskGuard'
    BY <2>1, <2>3 DEF Request, DeleteClient, CreateClient, DeletePingTask, EditPingTask
  <2>4. ASSUME NEW g \in Admins, Advance(g) \/ Cleaned(g), ~Unblock(g) PROVE taskGuard'
    BY <2>1, <2>4 DEF Advance, DeleteNode, DeleteTask, Edit, GuardPairs, ReadTasks, Reload, Join,
       WriteMembers, Cleaned, Finish, guardVars
  <2>5. ~Crash
    BY DEF Crash, At
  <2> QED
    BY <2>1, <2>2, <2>3, <2>4, <2>5, WhoRequests DEF Background
<1> QED
  BY <1>1, <1>2, GuardsNext

LEMMA StepPairs ==
  ASSUME GInv, [Next]_vars
  PROVE  PairsGuarded' /\ JobGuarded'
<1> USE HistoryAssumption DEF GInv
<1>0. /\ CleanerOwned /\ CleanerListed /\ CleanerType /\ pairGuard \subseteq Nodes
      /\ crossed \subseteq crossed' /\ jobs \subseteq Jobs
  BY CrossedStays DEF Base, TypeOK, CleanerType
<1>1. CASE Crash
  BY <1>1 DEF Crash, Free, PairsGuarded, PairGuarded, Rebooting, JobGuarded
\* Of a step that leaves guards, jobs, lock and start alone.
<1>2. ASSUME ~Crash, UNCHANGED <<pairGuard, jobs, cleaner, boot>>,
             \A h \in Admins : ~GuardPairs(h)
      PROVE  PairsGuarded' /\ JobGuarded'
  <2>1. \A n \in Nodes : AboutToGuard(n) => AboutToGuard(n)'
    BY <1>2, StillToGuard
  <2> QED
    BY <1>0, <1>2, <2>1 DEF PairsGuarded, PairGuarded, Rebooting, JobGuarded
<1>3. ASSUME ~Crash, NEW h \in Admins, Request(h) PROVE PairsGuarded' /\ JobGuarded'
  <2>1. UNCHANGED <<pairGuard, jobs, cleaner, boot>> /\ ops' = ops + 1
    BY <1>3 DEF Request, DeleteClient, CreateClient, DeletePingTask, EditPingTask, Begin
  <2>2. \A g \in Admins : ~GuardPairs(g)
    BY <2>1 DEF GuardPairs, Base, TypeOK
  <2> QED
    BY <1>2, <1>3, <2>1, <2>2
<1>4. ASSUME ~Crash, NEW h \in Admins, GuardPairs(h) PROVE PairsGuarded' /\ JobGuarded'
  <2>1. /\ pairGuard' = pairGuard \cup list[h] /\ UNCHANGED <<jobs, cleaner, boot>>
        /\ crossed' = crossed \cup {n \in list[h] : PairJob(n) \notin jobs}
    BY <1>4 DEF GuardPairs, dbVars
  <2>2. \A n \in Nodes : AboutToGuard(n) => AboutToGuard(n)' \/ n \in pairGuard'
    <3>1. ASSUME NEW g \in Admins, GuardPairs(g) PROVE list[g] \subseteq pairGuard'
      BY <3>1 DEF GuardPairs
    <3> QED
      BY <1>4, <3>1, StillToGuard
  <2> QED
    BY <1>0, <2>1, <2>2 DEF PairsGuarded, PairGuarded, Rebooting, JobGuarded
<1>5. ASSUME ~Crash, NEW h \in Admins, Queued(h) PROVE PairsGuarded' /\ JobGuarded'
  <2>1. UNCHANGED <<pairGuard, cleaner, boot>> /\ jobs \subseteq jobs'
    BY <1>5 DEF Queued, DeleteNode, DeleteTask, Edit, guardVars
  <2>2. \A n \in Nodes : AboutToGuard(n) => AboutToGuard(n)'
    <3>1. ASSUME NEW g \in Admins, GuardPairs(g) PROVE FALSE
      BY <1>5, <3>1 DEF GuardPairs, Queued, DeleteNode, DeleteTask, Edit, At, Continue, Base, TypeOK
    <3> QED
      BY <1>5, <3>1, StillToGuard
  <2>3. \A n \in Nodes \ crossed' : PairJob(n) \in jobs' \ jobs => AboutToGuard(n)'
    <3>1. CASE DeleteNode(h) \/ DeleteTask(h)
      <4>1. \A j \in jobs' \ jobs : j = TaskJob \/ j = EntityJob(node[h])
        BY <3>1 DEF DeleteNode, DeleteTask
      <4> QED
        BY <4>1 DEF EntityJob, PairJob, TaskJob
    <3>2. CASE Edit(h)
      <4>1. \A j \in jobs' \ jobs : \E n \in Removed(h) : j = PairJob(n)
        BY <3>2 DEF Edit, Removed
      <4>2. Removed(h) \subseteq Nodes
        BY DEF Removed, Base, TypeOK
      <4>3. \A n \in Nodes : PairJob(n) \in jobs' \ jobs => n \in Removed(h)
        BY <4>1, <4>2 DEF PairJob
      <4>4. ASSUME NEW n \in Nodes, n \in Removed(h), PairJob(n) \in jobs' \ jobs, n \notin crossed'
            PROVE  AboutToGuard(n)'
        <5>1. todo'[h] = Guard5 /\ list'[h] = Removed(h)
          BY <3>2, <4>4, Edits
        <5>2. At(h, "guard")'
          BY <5>1, Heads, Plans DEF At, Goes
        <5> QED
          BY <4>4, <5>1, <5>2 DEF AboutToGuard
      <4> QED
        BY <4>3, <4>4
    <3> QED
      BY <1>5, <3>1, <3>2 DEF Queued
  <2> QED
    BY <1>0, <2>1, <2>2, <2>3 DEF PairsGuarded, PairGuarded, Rebooting, JobGuarded
<1>6. ASSUME ~Crash, NEW h \in Admins, Advance(h) PROVE PairsGuarded' /\ JobGuarded'
  <2>1. ASSUME ReadTasks(h) \/ Reload(h) \/ Unblock(h) \/ Join(h) \/ WriteMembers(h)
        PROVE  PairsGuarded' /\ JobGuarded'
    <3>1. UNCHANGED <<pairGuard, jobs, cleaner, boot>>
      BY <2>1 DEF ReadTasks, Reload, Unblock, Join, WriteMembers, dbVars, guardVars
    <3> QED
      BY <1>2, <1>4, <1>6, <3>1
  <2> QED
    BY <1>4, <1>5, <1>6, <2>1 DEF Advance, Queued
\* Of a step of the lock's holder.
<1>7. ASSUME ~Crash, UNCHANGED adminVars
      PROVE  \A n \in Nodes : AboutToGuard(n)' <=> AboutToGuard(n)
  BY <1>7 DEF adminVars, AboutToGuard, At
<1>8. ASSUME ~Crash, NEW who \in Admins \cup {"worker", "boot"}, Lock(who),
             who = "boot" <=> boot = "clean"
      PROVE  PairsGuarded' /\ JobGuarded'
  BY <1>0, <1>7, <1>8 DEF Lock, Free, dbVars, guardVars, histVars, PairsGuarded, PairGuarded, Rebooting,
     JobGuarded
<1>9. ASSUME ~Crash, NEW h \in Admins, Clean(h) PROVE PairsGuarded' /\ JobGuarded'
  <2>1. boot = "up"
    BY <1>9, HalfWay DEF Clean, Steps
  <2> QED
    BY <1>8, <1>9, <2>1 DEF Clean
<1>10. ASSUME ~Crash, Tick \/ BootClean PROVE PairsGuarded' /\ JobGuarded'
  BY <1>8, <1>10 DEF Tick, BootClean
<1>11. ASSUME ~Crash, BlockJob PROVE PairsGuarded' /\ JobGuarded'
  <2> PICK j \in cleaner.left :
        /\ pairGuard' = IF j.kind = "pair" THEN pairGuard \cup {j.node} ELSE pairGuard
        /\ cleaner' = [cleaner EXCEPT !.job = j, !.at = "execute"]
    BY <1>11 DEF BlockJob, BlockTarget, Taken
  <2>1. /\ UNCHANGED <<adminVars, jobs, boot, crossed>> /\ cleaner.at = "block"
        /\ j \in jobs /\ cleaner'.by = cleaner.by /\ cleaner'.left = cleaner.left
        /\ cleaner'.at = "execute" /\ cleaner'.job = j
    BY <1>0, <1>11 DEF BlockJob, Working, dbVars, histVars, CleanerType, CleanerListed
  <2>2. \A n \in Nodes : j = PairJob(n) => n \in pairGuard'
    BY DEF PairJob
  <2>3. \A n \in Nodes : n \in pairGuard' => n \in pairGuard \/ PairJob(n) \in jobs
    <3>1. j \in Jobs
      BY <1>0, <2>1
    <3> QED
      BY <2>1, <3>1, JobsApart
  <2> QED
    BY <1>7, <1>11, <2>1, <2>2, <2>3 DEF PairsGuarded, PairGuarded, Rebooting, JobGuarded
<1>12. ASSUME ~Crash, Execute PROVE PairsGuarded' /\ JobGuarded'
  <2>1. /\ UNCHANGED <<adminVars, pairGuard, jobs, boot, crossed>> /\ cleaner.at = "execute"
        /\ cleaner'.by = cleaner.by
        /\ \/ cleaner'.left = cleaner.left /\ cleaner'.job = cleaner.job /\ cleaner'.at = "remove"
           \/ cleaner'.left = cleaner.left \ {cleaner.job} /\ cleaner'.at = "block"
    BY <1>0, <1>12 DEF Execute, Skip, Working, dbVars, guardVars, histVars, CleanerType
  <2> QED
    BY <1>7, <1>12, <2>1 DEF PairsGuarded, PairGuarded, Rebooting, JobGuarded
<1>13. ASSUME ~Crash, RemoveJob PROVE PairsGuarded' /\ JobGuarded'
  <2>1. /\ UNCHANGED <<adminVars, pairGuard, boot, crossed>> /\ cleaner.at = "remove"
        /\ cleaner'.by = cleaner.by
        /\ \/ /\ cleaner'.left = cleaner.left /\ cleaner'.job = cleaner.job /\ cleaner'.at = "unblock"
              /\ jobs' = jobs \ {cleaner.job}
           \/ /\ cleaner'.left = cleaner.left \ {cleaner.job} /\ cleaner'.at = "block"
              /\ jobs' = jobs
    BY <1>0, <1>13 DEF RemoveJob, Skip, Working, guardVars, histVars, CleanerType
  <2> QED
    BY <1>7, <1>13, <2>1 DEF PairsGuarded, PairGuarded, Rebooting, JobGuarded
<1>14. ASSUME ~Crash, UnblockJob PROVE PairsGuarded' /\ JobGuarded'
  <2>1. /\ UNCHANGED <<adminVars, jobs, boot>> /\ cleaner.at = "unblock"
        /\ cleaner'.by = cleaner.by
        /\ cleaner'.left = cleaner.left \ {cleaner.job} /\ cleaner'.at = "block"
        /\ pairGuard' = IF cleaner.job.kind = "pair" THEN pairGuard \ {cleaner.job.node} ELSE pairGuard
        /\ \A n \in Nodes : PairJob(n) = cleaner.job /\ cleaner.job \in jobs => n \in crossed'
    BY <1>0, <1>14 DEF UnblockJob, Released, Skip, Working, dbVars, CleanerType
  <2>2. cleaner.job \in Jobs
    BY <1>0 DEF CleanerType
  <2>3. \A n \in Nodes : IF cleaner.job = PairJob(n) THEN n \notin pairGuard' /\ (n \in crossed' \/ PairJob(n) \notin jobs)
                         ELSE n \in pairGuard' <=> n \in pairGuard
    BY <2>1, <2>2, JobsApart
  <2> QED
    BY <1>0, <1>7, <1>14, <2>1, <2>3 DEF PairsGuarded, PairGuarded, Rebooting, JobGuarded
<1>15. ASSUME ~Crash, Finish PROVE PairsGuarded' /\ JobGuarded'
  <2>1. /\ UNCHANGED <<pairGuard, jobs, crossed>> /\ cleaner.by # Nobody
        /\ cleaner.at = "block" /\ cleaner.left = {} /\ cleaner'.at = "block"
        /\ cleaner'.by = Nobody
    BY <1>15 DEF Finish, Free, Working, dbVars, guardVars, histVars
  <2>2. \A n \in Nodes : ~Rebooting(n)
    BY <1>0, <2>1 DEF Rebooting, CleanerOwned
  <2>3. \A n \in Nodes : AboutToGuard(n) => AboutToGuard(n)'
    <3>1. ASSUME NEW g \in Admins, GuardPairs(g) PROVE FALSE
      BY <1>15, <2>1, <3>1 DEF GuardPairs
    <3> QED
      BY <1>15, <3>1, StillToGuard
  <2> QED
    BY <2>1, <2>2, <2>3 DEF PairsGuarded, PairGuarded, JobGuarded
<1>16. ASSUME ~Crash, NEW w \in Writers, (\E n \in Nodes : Look(w, n)) \/ Check(w) \/ WritePoint(w)
       PROVE  PairsGuarded' /\ JobGuarded'
  <2>1. UNCHANGED <<adminVars, pairGuard, jobs, cleaner, boot, crossed>>
    BY <1>16 DEF Look, Check, WritePoint, dbVars, guardVars, histVars
  <2> QED
    BY <1>7, <1>16, <2>1 DEF PairsGuarded, PairGuarded, Rebooting, JobGuarded
<1>17. ASSUME ~Crash, CleanOrphans \/ LoadSchedule \/ UNCHANGED vars
       PROVE  PairsGuarded' /\ JobGuarded'
  <2>1. /\ UNCHANGED <<adminVars, pairGuard, jobs, cleaner, crossed>>
        /\ boot' = boot \/ boot # "clean"
    BY <1>17 DEF CleanOrphans, LoadSchedule, vars, dbVars, guardVars, histVars
  <2> QED
    BY <1>7, <1>17, <2>1 DEF PairsGuarded, PairGuarded, Rebooting, JobGuarded
<1> QED
  BY <1>1, <1>3, <1>6, <1>9, <1>10, <1>11, <1>12, <1>13, <1>14, <1>15, <1>16, <1>17
  DEF Next, Proceed, Advance, CleanStep, BootStep

\* The request that has to reload the schedule goes on to do so.
LEMMA DueStays ==
  ASSUME Base, [Next]_vars, NEW h \in Admins, todo[h] \in Reloads,
         ~Crash, ~late', ~Reload(h)
  PROVE  todo'[h] \in Reloads
<1> USE BaseRequests
<1>0. todo[h] # <<>> /\ Head(todo[h]) \in {"clean", "guard", "read", "apply"}
  BY Heads, Plans DEF Reloads, Goes, Ends
<1>1. CASE Background
  BY <1>1 DEF Background, requestVars, adminVars
<1>2. ASSUME NEW g \in Admins, Request(g) PROVE todo'[h] \in Reloads
  BY <1>0, <1>2, Requested DEF Others
<1>3. ASSUME NEW g \in Admins, Advance(g) PROVE todo'[h] \in Reloads
  <2>1. CASE g # h
    BY <1>3, <2>1, Advanced DEF Others
  <2>2. CASE GuardPairs(h)
    BY <2>2, GoesOn, PlanAt DEF GuardPairs, Reloads
  <2>3. CASE ReadTasks(h)
    <3>1. Continue(h, Tail(todo[h]), Tasks)
      BY <2>3 DEF ReadTasks
    <3> QED
      BY <2>3, <3>1, GoesOn, PlanAt DEF ReadTasks, Reloads
  <2>4. CASE g = h /\ ~GuardPairs(h) /\ ~ReadTasks(h)
    BY <1>0, <1>3, <2>4 DEF Advance, DeleteNode, DeleteTask, Edit, Unblock, Join, WriteMembers, At
  <2> QED
    BY <2>1, <2>2, <2>3, <2>4
<1>4. ASSUME NEW g \in Admins, Cleaned(g) PROVE todo'[h] \in Reloads
  <2>1. CASE g # h
    BY <1>4, <2>1, WhenCleaned DEF Others
  <2>2. CASE g = h
    <3>1. todo[h] = Clean3
      BY <1>4, <2>2, Heads DEF Cleaned, At, Reloads
    <3>2. todo'[h] = Read2
      BY <1>4, <2>2, <3>1, WhenCleaned, Plans DEF Goes
    <3> QED
      BY <3>2 DEF Reloads
  <2> QED
    BY <2>1, <2>2
<1> QED
  BY <1>1, <1>2, <1>3, <1>4, WhoRequests

\* Whoever changes the task's nodes has the reload before it, or gives it up.
LEMMA WhoChanges ==
  ASSUME Base, [Next]_vars, Tasks' # Tasks
  PROVE  late' \/ \E h \in Admins : todo'[h] \in Reloads
<1> USE BaseRequests DEF Tasks
<1>1. ~Background /\ ~Crash
  BY DEF Background, Crash, requestVars, dbVars
<1>2. ASSUME NEW h \in Admins, Request(h) PROVE FALSE
  BY <1>2 DEF Request, DeleteClient, CreateClient, DeletePingTask, EditPingTask, Begin
<1>3. ASSUME NEW h \in Admins, Cleaned(h) PROVE FALSE
  BY <1>3 DEF Cleaned, Finish, dbVars
<1>4. ASSUME NEW h \in Admins, Advance(h) PROVE late' \/ todo'[h] \in Reloads
  <2>1. CASE DeleteNode(h)
    <3>1. exists' = exists /\ members \subseteq Nodes
      BY <2>1 DEF DeleteNode, Base, TypeOK
    <3>2. nodes[node[h]] = "here" /\ node[h] \in members
      BY <2>1, <3>1, DeletesNode DEF Assign
    <3> QED
      BY <2>1, <3>2, DeletesNode DEF Reloads
  <2>2. CASE DeleteTask(h)
    <3>1. CASE exists
      <4>1. todo'[h] = Clean3
        BY <2>2, <3>1, DeletesTask
      <4> QED
        BY <4>1 DEF Reloads
    <3>2. CASE ~exists
      <4>1. UNCHANGED <<exists, members>>
        BY <2>2, <3>2 DEF DeleteTask
      <4> QED
        BY <4>1
    <3> QED
      BY <3>1, <3>2
  <2>3. CASE Edit(h)
    BY <2>3, Edits DEF Edit, Reloads
  <2>4. CASE WriteMembers(h)
    BY <2>4, GoesOn, PlanAt DEF WriteMembers, Reloads
  <2>5. ~(GuardPairs(h) \/ ReadTasks(h) \/ Reload(h) \/ Unblock(h) \/ Join(h))
    BY DEF GuardPairs, ReadTasks, Reload, Unblock, Join, dbVars
  <2> QED
    BY <1>4, <2>1, <2>2, <2>3, <2>4, <2>5 DEF Advance
<1> QED
  BY <1>1, <1>2, <1>3, <1>4, WhoRequests

LEMMA LateStays ==
  ASSUME Base, [Next]_vars, ~LoadSchedule, \A h \in Admins : ~Reload(h)
  PROVE  (late => late') /\ (boot' = "up" => boot = "up")
<1>0. late \in BOOLEAN
  BY DEF Base, TypeOK
<1>1. ASSUME NEW h \in Admins, Request(h) PROVE late' = late /\ boot' = boot
  BY <1>1 DEF Request, DeleteClient, CreateClient, DeletePingTask, EditPingTask, Begin, histVars
<1>2. ASSUME NEW h \in Admins, Proceed(h) PROVE (late => late') /\ boot' = boot
  <2>1. CASE Edit(h)
    <3>1. boot' = boot
      BY <2>1 DEF Edit
    <3>2. late' = late \/ late'
      BY <2>1, Edits
    <3> QED
      BY <3>1, <3>2
  <2> QED
    BY <1>2, <2>1 DEF Proceed, DeleteNode, DeleteTask, GuardPairs, ReadTasks, Clean, Lock,
       Unblock, Join, WriteMembers, histVars
<1>3. CASE Tick \/ CleanStep
  BY <1>3 DEF Tick, Lock, CleanStep, BlockJob, Execute, RemoveJob, UnblockJob, Finish, histVars
<1>4. ASSUME NEW w \in Writers, (\E n \in Nodes : Look(w, n)) \/ Check(w) \/ WritePoint(w)
      PROVE  late' = late /\ boot' = boot
  BY <1>4 DEF Look, Check, WritePoint, histVars
<1>5. CASE Crash \/ BootClean \/ CleanOrphans \/ UNCHANGED vars
  BY <1>5 DEF Crash, BootClean, Lock, CleanOrphans, vars, histVars
<1> QED
  BY <1>1, <1>2, <1>3, <1>4, <1>5 DEF Next, BootStep

LEMMA StepReload ==
  ASSUME Base, ReloadDue, [Next]_vars
  PROVE  ReloadDue'
<1> SUFFICES ASSUME boot' = "up", ~late', schedule' # Tasks'
             PROVE  \E h \in Admins : todo'[h] \in Reloads
  BY DEF ReloadDue
<1>1. ~Crash /\ ~LoadSchedule
  BY DEF Crash, LoadSchedule, Tasks, dbVars
<1>2. ASSUME NEW h \in Admins, Reload(h) PROVE FALSE
  BY <1>2 DEF Reload, Tasks, dbVars
<1>3. schedule' = schedule /\ ~late /\ boot = "up"
  BY <1>1, <1>2, WhoSchedules, LateStays
<1>4. CASE Tasks' # Tasks
  BY <1>4, WhoChanges
<1>5. CASE Tasks' = Tasks
  <2> PICK h \in Admins : todo[h] \in Reloads
    BY <1>3, <1>5 DEF ReloadDue
  <2> QED
    BY <1>1, <1>2, DueStays
<1> QED
  BY <1>4, <1>5

LEMMA InitGuards == Init => GInv /\ ReloadDue
<1> SUFFICES ASSUME Init PROVE GInv /\ ReloadDue
  OBVIOUS
<1> USE HistoryAssumption DEF Init
<1>1. PairsGuarded /\ JobGuarded /\ EditGuarded
  BY DEF PairsGuarded, PairGuarded, JobGuarded, EditGuarded, Free, At
<1>2. ReloadDue
  BY DEF ReloadDue, Tasks
<1> QED
  BY <1>1, <1>2, InitBase DEF GInv

\* Whenever no request is half-way and no cleanup runs, an assignment is blocked
\* exactly as long as its cleanup is pending, and the nodes that are pinged are the
\* task's: after every failure of a store and every restart, whatever requests do at
\* the same time, but for a node whose edit and cleanup went past each other, and
\* for a schedule that an older list was applied to (editPingTasks).
THEOREM GuardsAreSound == Spec => []GuardsSound
<1>1. Init => GInv /\ ReloadDue
  BY InitGuards
<1>2. GInv /\ ReloadDue /\ [Next]_vars => GInv' /\ ReloadDue'
  BY StepBase, StepPairs, StepEditGuarded, StepReload DEF GInv
<1>3. GInv /\ ReloadDue => GuardsSound
  <2> SUFFICES ASSUME GInv, ReloadDue PROVE GuardsSound
    OBVIOUS
  <2>1. TypeOK
    BY DEF GInv, Base
  <2>2. ASSUME Quiet, NEW n \in Nodes \ crossed PROVE n \in pairGuard <=> PairJob(n) \in jobs
    BY <2>2 DEF Quiet, GInv, PairsGuarded, PairGuarded, AboutToGuard, Rebooting, Free, At
  <2>3. ASSUME Quiet, ~late PROVE schedule = Tasks
    <3>1. <<>> \notin Reloads
      BY Plans DEF Reloads, Goes, Ends
    <3> QED
      BY <2>3, <3>1 DEF Quiet, ReloadDue
  <2> QED
    BY <2>1, <2>2, <2>3 DEF GuardsSound, GuardsMatchJobs, ScheduleCurrent
<1> QED
  BY <1>1, <1>2, <1>3, PTL DEF Spec

------------------------------------------------------------------------------
(* What is measured for the current assignment stays *)

TermsPast ==
  /\ \A n \in Nodes : \A t \in history[n] : t <= term[n]
  /\ \A w \in Writers : save[w].at # "idle" => save[w].term <= term[save[w].node]

\* As long as its cleanup is pending, nothing is stored for a new assignment.
Waiting(n) ==
  /\ term[n] \notin history[n]
  /\ \A w \in Writers : save[w].at = "write" /\ save[w].node = n => save[w].term # term[n]
NotMeasuredYet == \A n \in members \ crossed : PairJob(n) \in jobs => Waiting(n)

KInv == GInv /\ JobsTrue /\ TermsPast /\ NotMeasuredYet

LEMMA InitKept == Init => KInv
<1> SUFFICES ASSUME Init PROVE KInv
  OBVIOUS
<1> USE HistoryAssumption DEF Init
<1>1. JobsTrue
  BY DEF JobsTrue, Handled, Free
<1>2. TermsPast /\ NotMeasuredYet
  BY DEF TermsPast, NotMeasuredYet, NoSave
<1> QED
  BY <1>1, <1>2, InitGuards DEF KInv

\* A term begins when a node gets the task, and no point is stored by that step.
LEMMA Reassigned ==
  ASSUME Base, [Next]_vars, NEW n \in Nodes
  PROVE  /\ n \in members' \ members =>
              term'[n] = term[n] + 1 /\ UNCHANGED <<history, save>>
         /\ n \notin members' \ members => term'[n] = term[n]
<1>0. term \in [Nodes -> Terms]
  BY DEF Base, TypeOK
<1>1. CASE Background \/ Crash
  BY <1>1 DEF Background, Crash, requestVars, dbVars
<1>2. ASSUME NEW h \in Admins, Request(h) PROVE members' = members /\ term' = term
  BY <1>2 DEF Request, DeleteClient, CreateClient, DeletePingTask, EditPingTask, Begin
<1>3. ASSUME NEW h \in Admins, DeleteNode(h) \/ DeleteTask(h)
      PROVE  members' \subseteq members /\ term'[n] = term[n]
  BY <1>0, <1>3 DEF DeleteNode, DeleteTask, Assign
<1>4. ASSUME NEW h \in Admins, Edit(h) \/ WriteMembers(h)
      PROVE  /\ UNCHANGED <<history, save>>
             /\ term'[n] = IF n \in members' \ members THEN term[n] + 1 ELSE term[n]
  BY <1>0, <1>4 DEF Edit, WriteMembers, Assign
<1>5. ASSUME NEW h \in Admins,
             GuardPairs(h) \/ ReadTasks(h) \/ Reload(h) \/ Unblock(h) \/ Join(h) \/ Cleaned(h)
      PROVE  members' = members /\ term' = term
  BY <1>5 DEF GuardPairs, ReadTasks, Reload, Unblock, Join, Cleaned, Finish, dbVars
<1> QED
  BY <1>1, <1>2, <1>3, <1>4, <1>5, WhoRequests DEF Advance

LEMMA StepPast ==
  ASSUME Base, TermsPast, [Next]_vars
  PROVE  TermsPast'
<1>0. /\ term \in [Nodes -> Nat] /\ history \in [Nodes -> SUBSET Nat] /\ SavesSound
      /\ save \in [Writers -> [node : Nodes \cup {Nobody}, term : Nat,
                               at : {"idle", "check", "write"}]]
  BY DEF Base, TypeOK, Terms
<1>1. \A n \in Nodes : term[n] <= term'[n] /\ term'[n] \in Nat
  BY <1>0, Reassigned
<1> USE <1>0, <1>1 DEF TermsPast, SavesSound
<1>2. CASE UNCHANGED <<history, save>>
  BY <1>2
<1>3. ASSUME NEW w \in Writers, NEW m \in Nodes, Look(w, m) PROVE TermsPast'
  BY <1>3 DEF Look, dbVars
<1>4. ASSUME NEW w \in Writers, Check(w) PROVE TermsPast'
  BY <1>4 DEF Check, NoSave
<1>5. ASSUME NEW w \in Writers, WritePoint(w) PROVE TermsPast'
  BY <1>5 DEF WritePoint, NoSave, dbVars
<1>6. CASE Execute \/ CleanOrphans
  BY <1>6 DEF Execute, CleanOrphans
<1>7. CASE Crash
  BY <1>7 DEF Crash, NoSave
<1> QED
  BY <1>2, <1>3, <1>4, <1>5, <1>6, <1>7, WhoStores

LEMMA StepWaiting ==
  ASSUME Base, PairsGuarded, EditGuarded, TermsPast, NotMeasuredYet, [Next]_vars
  PROVE  NotMeasuredYet'
<1>0. /\ term \in [Nodes -> Nat] /\ history \in [Nodes -> SUBSET Nat] /\ SavesSound
      /\ save \in [Writers -> [node : Nodes \cup {Nobody}, term : Nat,
                               at : {"idle", "check", "write"}]]
      /\ members \subseteq Nodes /\ members' \subseteq Nodes /\ crossed \subseteq crossed'
  BY StepDb, CrossedStays DEF Base, TypeOK, Terms, DbType
<1> SUFFICES ASSUME NEW n \in Nodes, n \in members', n \notin crossed', PairJob(n) \in jobs'
             PROVE  Waiting(n)'
  BY <1>0 DEF NotMeasuredYet
<1>1. CASE n \notin members
  <2>1. term'[n] = term[n] + 1 /\ UNCHANGED <<history, save>>
    BY <1>1, Reassigned
  <2> QED
    BY <1>0, <2>1 DEF TermsPast, Waiting
<1>2. CASE n \in members
  <2>1. term'[n] = term[n]
    BY <1>2, Reassigned
  <2>2. PairJob(n) \in jobs
    <3>1. CASE UNCHANGED jobs \/ jobs' \subseteq jobs
      BY <3>1
    <3>2. ASSUME NEW h \in Admins, Queued(h) PROVE PairJob(n) \in jobs
      <4>1. CASE DeleteNode(h) \/ DeleteTask(h)
        BY <4>1, DeletesNode, JobsApart DEF DeleteNode, DeleteTask
      <4>2. CASE Edit(h)
        BY <1>0, <4>2, JobsApart DEF Edit, Assign
      <4> QED
        BY <3>2, <4>1, <4>2 DEF Queued
    <3>3. CASE CleanStep \/ Crash
      BY <3>3 DEF CleanStep, BlockJob, Execute, RemoveJob, UnblockJob, Finish, Crash, dbVars
    <3> QED
      BY <3>1, <3>2, <3>3, WhoQueues DEF dbVars
  <2>3. Waiting(n)
    BY <1>0, <1>2, <2>2 DEF NotMeasuredYet
  <2> USE <1>0, <2>1, <2>3 DEF Waiting
  <2>4. CASE UNCHANGED <<history, save>>
    BY <2>4
  <2>5. ASSUME NEW w \in Writers, NEW m \in Nodes, Look(w, m) PROVE Waiting(n)'
    BY <2>5 DEF Look
  <2>6. ASSUME NEW w \in Writers, Check(w) PROVE Waiting(n)'
    <3>1. save[w].node = n => Blocked(n)
      <4>1. boot = "up"
        BY <2>6, HalfWay DEF Check
      <4>2. n \in pairGuard \/ taskGuard
        BY <1>0, <2>2, <4>1 DEF PairsGuarded, PairGuarded, AboutToGuard, Rebooting, EditGuarded
      <4> QED
        BY <4>2 DEF Blocked
    <3> QED
      BY <2>6, <3>1 DEF Check, NoSave
  <2>7. ASSUME NEW w \in Writers, WritePoint(w) PROVE Waiting(n)'
    BY <2>7 DEF WritePoint, NoSave
  <2>8. CASE Execute \/ CleanOrphans
    BY <2>8 DEF Execute, CleanOrphans
  <2>9. CASE Crash
    BY <2>9 DEF Crash, NoSave
  <2> QED
    BY <2>4, <2>5, <2>6, <2>7, <2>8, <2>9, WhoStores
<1> QED
  BY <1>1, <1>2

LEMMA StepKept ==
  ASSUME KInv, [Next]_vars
  PROVE  KInv'
  BY StepBase, StepPairs, StepEditGuarded, StepJobsTrue, StepPast, StepWaiting DEF KInv, GInv

\* A retry of a cleanup erases nothing that was measured since the node was
\* assigned again.
LEMMA CleanupSpares ==
  ASSUME KInv, [Next]_vars, NEW n \in Nodes \ crossed, Current(n), term[n] \in history[n]
  PROVE  term[n] \in history'[n]
<1> USE DEF KInv, GInv
<1>0. history \in [Nodes -> SUBSET Terms] /\ CleanerListed /\ CleanerType
  BY DEF Base, TypeOK, CleanerType
<1>1. CASE UNCHANGED <<history, save>>
  BY <1>1
<1>2. ASSUME NEW w \in Writers, (\E m \in Nodes : Look(w, m)) \/ Check(w) PROVE term[n] \in history'[n]
  BY <1>2 DEF Look, Check
<1>3. ASSUME NEW w \in Writers, WritePoint(w) PROVE term[n] \in history'[n]
  BY <1>0, <1>3 DEF WritePoint
<1>4. CASE Execute
  <2>1. cleaner.job \in jobs /\ cleaner.job \in Jobs
    BY <1>0, <1>4 DEF Execute, Working, CleanerListed, CleanerType
  <2>2. CASE cleaner.job = TaskJob
    BY <2>1, <2>2 DEF JobsTrue, Current
  <2>3. ASSUME NEW m \in Nodes, cleaner.job = EntityJob(m) PROVE term[n] \in history'[n]
    BY <1>0, <1>4, <2>1, <2>3 DEF JobsTrue, Current, Execute, Concerns, EntityJob
  <2>4. ASSUME NEW m \in Nodes, cleaner.job = PairJob(m) PROVE term[n] \in history'[n]
    <3>1. m # n
      BY <2>1, <2>4 DEF NotMeasuredYet, Waiting, Current
    <3> QED
      BY <1>0, <1>4, <2>4, <3>1 DEF Execute, Concerns, PairJob
  <2> QED
    BY <2>1, <2>2, <2>3, <2>4, JobsApart
<1>5. CASE Crash \/ CleanOrphans
  BY <1>5 DEF Crash, CleanOrphans
<1> QED
  BY <1>1, <1>2, <1>3, <1>4, <1>5, WhoStores

\* No cleanup and no retry of one erases what was measured for the current assignment
\* of a node, whatever requests, worker, writers and crashes do at the same time:
\* unless an edit and a cleanup of the node went past each other (the guard that an
\* edit keeps until the cleanup of the node it took out is done).
THEOREM HistoryIsKept == Spec => HistoryKept
<1>1. Init => KInv
  BY InitKept
<1>2. KInv /\ [Next]_vars => KInv'
  BY StepKept
<1>3. KInv /\ [Next]_vars =>
        [\A n \in Nodes \ crossed : /\ Current(n) /\ term[n] \in history[n]
                                    => term[n] \in history'[n]]_history
  BY CleanupSpares
<1> QED
  BY <1>1, <1>2, <1>3, PTL DEF Spec, HistoryKept

=============================================================================
