---------------------------- MODULE PingHistory ----------------------------
(***************************************************************************)
(* The history of ONE ping task, and its removal:                          *)
(*                                                                         *)
(*   - the panel's database: the nodes, the task with the nodes it is      *)
(*     assigned to, and the queue of cleanup jobs, written in the same     *)
(*     transaction as the change that makes them necessary;                *)
(*   - memory: the ping schedule and the deletion guards;                  *)
(*   - the metric store, another database, from which a job deletes;       *)
(*   - the administrator's requests, the writers of ping results, the      *)
(*     minute worker that retries jobs, and the panel's start.             *)
(*                                                                         *)
(* A step is one transaction, one critical section or one operation of the *)
(* metric store.  A point is kept as the term in which it was measured:    *)
(* the number of times its node has been assigned to the task.             *)
(***************************************************************************)
EXTENDS Naturals, Sequences, FiniteSets

CONSTANTS
  Nodes,
  Starters,  \* the nodes that exist, and have the task, at the beginning
  Admins,    \* requests served at the same time
  Writers,   \* ping results being stored at the same time
  Nobody,    \* no node, no request
  MaxOps,    \* bound: requests
  MaxFaults  \* bound: failures of a store or a write, crashes

ASSUME HistoryAssumption ==
  /\ Starters \subseteq Nodes
  /\ Nobody \notin Nodes \cup Admins
  /\ MaxOps \in Nat /\ MaxFaults \in Nat
  /\ {"worker", "boot"} \cap (Admins \cup {Nobody}) = {}

VARIABLES
  nodes,       \* clients: not yet, there, deleted
  exists,      \* the task's row
  members,     \* its clients
  jobs,        \* metric_cleanup_jobs
  schedule,    \* PingTaskManager.tasks: the nodes that are pinged
  entityGuard, \* deletionGuards.entities
  taskGuard,   \* deletionGuards.pingTasks has the task
  pairGuard,   \* deletionGuards.pingAssignments
  history,     \* the metric store: the terms of which a node has points
  op,          \* what each request is
  todo,        \* the steps it still has to do
  node,        \* the node it is about
  list,        \* the nodes it has read, is given or has removed
  cleaner,     \* who holds metricCleanupMu, and how far it is
  save,        \* where each writer is
  boot,        \* how far the panel has started
  term,        \* history: how often a node was assigned
  bared,       \* history: the nodes (Nobody: the task) that were opened again
               \* after their deletion: unblocked, or assigned to the task
  crossed,     \* history: the nodes whose guard was set after their cleanup,
               \* lifted before it, never set, or set too late
  late,        \* history: the schedule is a list read before a later change,
               \* or a reload was given up
  ops, faults

histVars  == <<bared, crossed, late>>
dbVars    == <<nodes, exists, members, jobs, term>>
guardVars == <<entityGuard, taskGuard, pairGuard>>
adminVars == <<op, todo, node, list>>
vars == <<dbVars, schedule, guardVars, history, adminVars, cleaner, save, boot,
          histVars, ops, faults>>

Terms == Nat
Steps == {"deleteNode", "deleteTask", "edit", "guard", "read", "apply", "clean",
          "unblock", "join", "write"}

EntityJob(n) == [kind |-> "entity", node |-> n]
TaskJob      == [kind |-> "task", node |-> Nobody]
PairJob(n)   == [kind |-> "pair", node |-> n]
Jobs == [kind : {"entity", "pair"}, node : Nodes] \cup {TaskJob}

Free  == [by |-> Nobody, left |-> {}, job |-> TaskJob, at |-> "block"]
NoSave == [node |-> Nobody, term |-> 0, at |-> "idle"]

Init ==
  /\ nodes = [n \in Nodes |-> IF n \in Starters THEN "here" ELSE "new"]
  /\ exists = TRUE /\ members = Starters /\ jobs = {}
  /\ term = [n \in Nodes |-> IF n \in Starters THEN 1 ELSE 0]
  /\ schedule = Starters
  /\ entityGuard = {} /\ taskGuard = FALSE /\ pairGuard = {}
  /\ history = [n \in Nodes |-> {}]
  /\ op = [h \in Admins |-> "none"] /\ todo = [h \in Admins |-> <<>>]
  /\ node = [h \in Admins |-> Nobody] /\ list = [h \in Admins |-> {}]
  /\ cleaner = Free
  /\ save = [w \in Writers |-> NoSave]
  /\ boot = "up"
  /\ bared = {} /\ crossed = {} /\ late = FALSE
  /\ ops = 0 /\ faults = 0

Fault == faults < MaxFaults /\ faults' = faults + 1

\* The node is there and assigned to the task.
Current(n) == exists /\ n \in members /\ nodes[n] = "here"

-----------------------------------------------------------------------------
(* Requests: each is a list of steps *)

\* A request may name what another one has deleted.
Known == {n \in Nodes : nodes[n] # "new"}

Begin(h, what, n, given, steps) ==
  /\ boot = "up" /\ todo[h] = <<>> /\ ops < MaxOps
  /\ op' = [op EXCEPT ![h] = what] /\ todo' = [todo EXCEPT ![h] = steps]
  /\ node' = [node EXCEPT ![h] = n] /\ list' = [list EXCEPT ![h] = given]
  /\ ops' = ops + 1
  /\ UNCHANGED <<exists, members, jobs, term, schedule, pairGuard, history, cleaner,
                 save, boot, histVars, faults>>

At(h, step) == todo[h] # <<>> /\ Head(todo[h]) = step

\* The remaining steps of a request; its local variables end with it.
Continue(h, steps, kept) ==
  /\ todo' = [todo EXCEPT ![h] = steps]
  /\ list' = [list EXCEPT ![h] = IF steps = <<>> THEN {} ELSE kept]
  /\ IF steps = <<>>
     THEN op' = [op EXCEPT ![h] = "none"] /\ node' = [node EXCEPT ![h] = Nobody]
     ELSE UNCHANGED <<op, node>>

\* adminRemoveClient and DeleteClient block the node first.
DeleteClient(h, n) ==
  /\ n \in Known
  /\ Begin(h, "node", n, {}, <<"deleteNode", "clean", "read", "apply">>)
  /\ entityGuard' = entityGuard \cup {n}
  /\ UNCHANGED <<nodes, taskGuard>>

DeletePingTask(h) ==
  /\ Begin(h, "task", Nobody, {}, <<"deleteTask", "clean", "read", "apply">>)
  /\ taskGuard' = TRUE
  /\ UNCHANGED <<nodes, entityGuard>>

EditSteps == <<"edit", "guard", "read", "apply", "clean", "unblock">>

EditPingTask(h, wanted) ==
  /\ Begin(h, "edit", Nobody, wanted, EditSteps)
  /\ taskGuard' = TRUE
  /\ UNCHANGED <<nodes, entityGuard>>

\* CreateClient, then AddDefaultOnClientUUID (the task is on by default).
CreateClient(h, n) ==
  /\ nodes[n] = "new"
  /\ Begin(h, "create", n, {}, <<"join", "write", "read", "apply">>)
  /\ nodes' = [nodes EXCEPT ![n] = "here"]
  /\ UNCHANGED <<entityGuard, taskGuard>>

\* Nobody asks whether the nodes are still there.
Assign(wanted) ==
  /\ members' = wanted
  /\ term' = [n \in Nodes |-> IF n \in wanted \ members THEN term[n] + 1 ELSE term[n]]

Revived(wanted) == {n \in wanted : nodes[n] = "gone"}

\* deleteClient, one transaction; a node that is gone is an error.
DeleteNode(h) ==
  /\ At(h, "deleteNode")
  /\ LET n == node[h] IN
     \/ /\ nodes[n] = "here"
        /\ nodes' = [nodes EXCEPT ![n] = "gone"]
        /\ jobs' = jobs \cup {EntityJob(n)}
        /\ Assign(members \ {n})
        /\ Continue(h, IF n \in members THEN Tail(todo[h]) ELSE <<"clean">>, {})
     \/ /\ nodes[n] # "here"
        /\ Continue(h, <<"unblock">>, {})
        /\ UNCHANGED <<nodes, members, jobs, term>>
  /\ UNCHANGED <<exists, schedule, guardVars, history, cleaner, save, boot, histVars,
                 ops, faults>>

\* deletePingTaskRows, one transaction; the queued job is rolled back with it.
DeleteTask(h) ==
  /\ At(h, "deleteTask")
  /\ \/ /\ exists
        /\ exists' = FALSE /\ Assign({})
        /\ jobs' = jobs \cup {TaskJob}
        /\ bared' = IF taskGuard THEN bared ELSE bared \cup {Nobody}
        /\ Continue(h, Tail(todo[h]), {})
     \/ /\ ~exists
        /\ Continue(h, <<"unblock">>, {})
        /\ UNCHANGED <<exists, members, jobs, term, bared>>
  /\ UNCHANGED <<nodes, schedule, guardVars, history, cleaner, save, boot, crossed,
                 late, ops, faults>>

\* editPingTasks up to its commit; if the alert defaults of an added node cannot
\* be written after it, the rest is skipped.
Edit(h) ==
  /\ At(h, "edit")
  /\ LET removed == members \ list[h] IN
     \/ /\ exists
        /\ Assign(list[h])
        /\ bared' = bared \cup Revived(list[h])
        /\ jobs' = jobs \cup {PairJob(n) : n \in removed}
        /\ \/ /\ Continue(h, Tail(todo[h]), removed)
              /\ crossed' = IF taskGuard THEN crossed ELSE crossed \cup removed
              /\ UNCHANGED <<late, faults>>
           \/ /\ list[h] \ members # {} /\ Fault
              /\ Continue(h, <<"unblock">>, {})
              /\ crossed' = crossed \cup removed /\ late' = TRUE
     \/ /\ ~exists
        /\ Continue(h, <<"unblock">>, {})
        /\ UNCHANGED <<members, term, jobs, histVars, faults>>
  /\ UNCHANGED <<nodes, exists, schedule, guardVars, history, cleaner, save, boot, ops>>

\* BlockPingAssignmentWrites
GuardPairs(h) ==
  /\ At(h, "guard")
  /\ pairGuard' = pairGuard \cup list[h]
  /\ crossed' = crossed \cup {n \in list[h] : PairJob(n) \notin jobs}
  /\ Continue(h, Tail(todo[h]), {})
  /\ UNCHANGED <<dbVars, schedule, entityGuard, taskGuard, history, cleaner, save, boot,
                 bared, late, ops, faults>>

Tasks == IF exists THEN members ELSE {}

\* ReloadPingSchedule: the database is read, then the schedule replaced.  An
\* edit goes on after a reload that failed.
ReadTasks(h) ==
  /\ At(h, "read")
  /\ \/ Continue(h, Tail(todo[h]), Tasks) /\ UNCHANGED <<late, faults>>
     \/ Continue(h, Tail(Tail(todo[h])), {}) /\ Fault /\ late' = TRUE
  /\ UNCHANGED <<dbVars, schedule, guardVars, history, cleaner, save, boot, bared,
                 crossed, ops>>

Reload(h) ==
  /\ At(h, "apply")
  /\ schedule' = list[h]
  /\ late' = (list[h] # Tasks)
  /\ Continue(h, Tail(todo[h]), {})
  /\ UNCHANGED <<dbVars, guardVars, history, cleaner, save, boot, bared, crossed, ops,
                 faults>>

\* The deferred calls of a deletion that failed, and of every edit.
Unblock(h) ==
  /\ At(h, "unblock")
  /\ IF op[h] = "node"
     THEN /\ entityGuard' = entityGuard \ {node[h]}
          /\ bared' = bared \cup {node[h]}
          /\ UNCHANGED <<taskGuard, crossed>>
     ELSE /\ taskGuard' = FALSE
          /\ bared' = IF exists THEN bared ELSE bared \cup {Nobody}
          /\ crossed' = crossed \cup UNION {list[g] : g \in {x \in Admins : At(x, "guard")}}
          /\ UNCHANGED entityGuard
  /\ Continue(h, <<>>, {})
  /\ UNCHANGED <<dbVars, schedule, pairGuard, history, cleaner, save, boot, late, ops,
                 faults>>

\* AddDefaultOnClientUUID reads the task's nodes ...
Join(h) ==
  /\ At(h, "join")
  /\ IF exists /\ node[h] \notin members
     THEN Continue(h, Tail(todo[h]), members)
     ELSE Continue(h, <<>>, {})
  /\ UNCHANGED <<dbVars, schedule, guardVars, history, cleaner, save, boot, histVars,
                 ops, faults>>

\* ... and writes them back with the new one.
WriteMembers(h) ==
  /\ At(h, "write")
  /\ LET next == list[h] \cup {node[h]} IN
     IF exists THEN Assign(next) /\ bared' = bared \cup Revived(next)
               ELSE UNCHANGED <<members, term, bared>>
  /\ Continue(h, Tail(todo[h]), {})
  /\ UNCHANGED <<nodes, exists, jobs, schedule, guardVars, history, cleaner, save, boot,
                 crossed, late, ops, faults>>

-----------------------------------------------------------------------------
(* ProcessPendingCleanupJobs *)

\* The jobs are listed under the lock.  (They are taken oldest first; here in
\* any order.)
Lock(who) ==
  /\ cleaner = Free
  /\ cleaner' = [Free EXCEPT !.by = who, !.left = jobs]
  /\ UNCHANGED <<dbVars, schedule, guardVars, history, adminVars, save, boot, histVars,
                 ops, faults>>

Clean(h) == At(h, "clean") /\ Lock(h)

\* Mutant: nobody retries.
NeverTicks == FALSE /\ Lock("worker")

\* StartPendingCleanupWorker: every minute, whether or not there are jobs.
Tick ==
  /\ boot \in {"load", "up"} /\ jobs # {}
  /\ Lock("worker")

Working(at) == cleaner.by # Nobody /\ cleaner.at = at

Taken(j) == [cleaner EXCEPT !.job = j, !.at = "execute"]

\* Mutant: the guards of pending jobs are not set again after a restart.
BlockNothing == UNCHANGED guardVars /\ \E j \in cleaner.left : cleaner' = Taken(j)

\* blockPendingCleanupWrites
BlockTarget ==
  \E j \in cleaner.left :
    /\ entityGuard' = IF j.kind = "entity" THEN entityGuard \cup {j.node} ELSE entityGuard
    /\ taskGuard' = (taskGuard \/ j.kind = "task")
    /\ pairGuard' = IF j.kind = "pair" THEN pairGuard \cup {j.node} ELSE pairGuard
    /\ cleaner' = Taken(j)

BlockJob ==
  /\ Working("block")
  /\ BlockTarget
  /\ UNCHANGED <<dbVars, schedule, history, adminVars, save, boot, histVars, ops, faults>>

Skip == [cleaner EXCEPT !.left = @ \ {cleaner.job}, !.job = TaskJob, !.at = "block"]

\* The node's or the task's points, or those of the one in the other.
Concerns(j, n) == j.kind = "task" \/ j.node = n

\* executeMetricCleanupJob has the metric store to itself.
Execute ==
  /\ Working("execute")
  /\ \A w \in Writers : save[w].at # "write"
  /\ \/ /\ history' = [n \in Nodes |-> IF Concerns(cleaner.job, n) THEN {} ELSE history[n]]
        /\ cleaner' = [cleaner EXCEPT !.at = "remove"]
        /\ UNCHANGED faults
     \/ /\ Fault
        /\ cleaner' = Skip
        /\ UNCHANGED history
  /\ UNCHANGED <<dbVars, schedule, guardVars, adminVars, save, boot, histVars, ops>>

RemoveJob ==
  /\ Working("remove")
  /\ \/ /\ jobs' = jobs \ {cleaner.job}
        /\ cleaner' = [cleaner EXCEPT !.at = "unblock"]
        /\ UNCHANGED faults
     \/ /\ Fault
        /\ cleaner' = Skip
        /\ UNCHANGED jobs
  /\ UNCHANGED <<nodes, exists, members, term, schedule, guardVars, history, adminVars,
                 save, boot, histVars, ops>>

\* Mutants: the guards of what was deleted are released too; no guard is released.
ReleasedAll ==
  /\ pairGuard' = pairGuard \ {cleaner.job.node}
  /\ entityGuard' = entityGuard \ {cleaner.job.node}

\* unblockCompletedCleanupWrites: what was deleted stays blocked.
Released ==
  /\ pairGuard' = IF cleaner.job.kind = "pair" THEN pairGuard \ {cleaner.job.node}
                  ELSE pairGuard
  /\ UNCHANGED entityGuard

UnblockJob ==
  /\ Working("unblock")
  /\ Released
  /\ crossed' = crossed \cup {n \in Nodes : PairJob(n) = cleaner.job /\ cleaner.job \in jobs}
  /\ cleaner' = Skip
  /\ UNCHANGED <<dbVars, schedule, taskGuard, history, adminVars, save, boot, bared,
                 late, ops, faults>>

\* The caller goes on.
Finish ==
  /\ Working("block") /\ cleaner.left = {}
  /\ cleaner' = Free
  /\ IF cleaner.by \in Admins
     THEN Continue(cleaner.by, Tail(todo[cleaner.by]), {}) ELSE UNCHANGED adminVars
  /\ boot' = IF cleaner.by = "boot" THEN "orphans" ELSE boot
  /\ UNCHANGED <<dbVars, schedule, guardVars, history, save, histVars, ops, faults>>

-----------------------------------------------------------------------------
(* Ping results *)

\* SavePingRecord: IsPingTaskAssigned.
Look(w, n) ==
  /\ boot = "up" /\ save[w] = NoSave
  /\ n \in schedule
  /\ save' = [save EXCEPT ![w] = [node |-> n, term |-> term[n], at |-> "check"]]
  /\ UNCHANGED <<dbVars, schedule, guardVars, history, adminVars, cleaner, boot, histVars,
                 ops, faults>>

\* Mutant: the assignment's own guard is forgotten.
BlockedWithoutPair(n) == n \in entityGuard \/ taskGuard

Blocked(n) == n \in entityGuard \/ taskGuard \/ n \in pairGuard

\* WritePingRecord under its share of the metric store.
Check(w) ==
  /\ save[w].at = "check"
  /\ save' = [save EXCEPT ![w] = IF Blocked(save[w].node) THEN NoSave
                                 ELSE [save[w] EXCEPT !.at = "write"]]
  /\ UNCHANGED <<dbVars, schedule, guardVars, history, adminVars, cleaner, boot, histVars,
                 ops, faults>>

WritePoint(w) ==
  /\ save[w].at = "write"
  /\ history' = [history EXCEPT ![save[w].node] = @ \cup {save[w].term}]
  /\ save' = [save EXCEPT ![w] = NoSave]
  /\ UNCHANGED <<dbVars, schedule, guardVars, adminVars, cleaner, boot, histVars, ops,
                 faults>>

-----------------------------------------------------------------------------
(* The panel's restart *)

Crash ==
  /\ Fault
  /\ schedule' = {}
  /\ entityGuard' = {} /\ taskGuard' = FALSE /\ pairGuard' = {}
  /\ op' = [h \in Admins |-> "none"] /\ todo' = [h \in Admins |-> <<>>]
  /\ node' = [h \in Admins |-> Nobody] /\ list' = [h \in Admins |-> {}]
  /\ cleaner' = Free
  /\ save' = [w \in Writers |-> NoSave]
  /\ boot' = "clean"
  /\ UNCHANGED <<dbVars, history, histVars, ops>>

BootClean == boot = "clean" /\ Lock("boot")

\* CleanupOrphanedData
CleanOrphans ==
  /\ boot = "orphans"
  /\ history' = [n \in Nodes |-> IF Current(n) THEN history[n] ELSE {}]
  /\ boot' = "load"
  /\ UNCHANGED <<dbVars, schedule, guardVars, adminVars, cleaner, save, histVars, ops,
                 faults>>

\* registerScheduledWork, before the first request is served.
LoadSchedule ==
  /\ boot = "load"
  /\ schedule' = Tasks
  /\ late' = FALSE
  /\ boot' = "up"
  /\ UNCHANGED <<dbVars, guardVars, history, adminVars, cleaner, save, bared, crossed,
                 ops, faults>>

-----------------------------------------------------------------------------
Request(h) ==
  \/ \E n \in Nodes : DeleteClient(h, n) \/ CreateClient(h, n)
  \/ DeletePingTask(h)
  \/ \E wanted \in SUBSET Known : EditPingTask(h, wanted)

Proceed(h) ==
  \/ DeleteNode(h) \/ DeleteTask(h) \/ Edit(h) \/ GuardPairs(h)
  \/ ReadTasks(h) \/ Reload(h) \/ Clean(h) \/ Unblock(h) \/ Join(h) \/ WriteMembers(h)

CleanStep == BlockJob \/ Execute \/ RemoveJob \/ UnblockJob \/ Finish

BootStep == BootClean \/ CleanOrphans \/ LoadSchedule

Next ==
  \/ \E h \in Admins : Request(h) \/ Proceed(h)
  \/ Tick \/ CleanStep
  \/ \E w \in Writers : (\E n \in Nodes : Look(w, n)) \/ Check(w) \/ WritePoint(w)
  \/ Crash \/ BootStep

Spec == Init /\ [][Next]_vars

\* Handlers, writers and the start proceed; the worker ticks; mutex and
\* semaphore serve in order of arrival, hence SF.
Fairness ==
  /\ \A h \in Admins : SF_vars(Proceed(h))
  /\ SF_vars(Tick) /\ SF_vars(CleanStep)
  /\ \A w \in Writers : WF_vars(Check(w)) /\ WF_vars(WritePoint(w))
  /\ WF_vars(BootStep)

LiveSpec == Spec /\ Fairness

-----------------------------------------------------------------------------
TypeOK ==
  /\ nodes \in [Nodes -> {"new", "here", "gone"}]
  /\ exists \in BOOLEAN /\ members \subseteq Nodes /\ jobs \subseteq Jobs
  /\ schedule \subseteq Nodes
  /\ entityGuard \subseteq Nodes /\ taskGuard \in BOOLEAN /\ pairGuard \subseteq Nodes
  /\ history \in [Nodes -> SUBSET Terms]
  /\ op \in [Admins -> {"none", "node", "task", "edit", "create"}]
  /\ todo \in [Admins -> Seq(Steps)]
  /\ node \in [Admins -> Nodes \cup {Nobody}] /\ list \in [Admins -> SUBSET Nodes]
  /\ cleaner \in [by : Admins \cup {"worker", "boot", Nobody}, left : SUBSET Jobs,
                  job : Jobs, at : {"block", "execute", "remove", "unblock"}]
  /\ save \in [Writers -> [node : Nodes \cup {Nobody}, term : Terms,
                           at : {"idle", "check", "write"}]]
  /\ boot \in {"clean", "orphans", "load", "up"}
  /\ term \in [Nodes -> Terms]
  /\ bared \subseteq Nodes \cup {Nobody} /\ crossed \subseteq Nodes /\ late \in BOOLEAN
  /\ ops \in 0..MaxOps /\ faults \in 0..MaxFaults

Quiet == boot = "up" /\ cleaner = Free /\ \A h \in Admins : todo[h] = <<>>

\* No cleanup, and no retry of one, erases what was measured since the node was
\* assigned again, unless an edit and a cleanup went past each other.
HistoryKept ==
  [][\A n \in Nodes \ crossed : /\ Current(n) /\ term[n] \in history[n]
                                => term[n] \in history'[n]]_history

\* An assignment is blocked exactly as long as its cleanup is pending.
GuardsMatchJobs ==
  Quiet => \A n \in Nodes \ crossed : n \in pairGuard <=> PairJob(n) \in jobs

\* The nodes that are pinged are those of the task, unless the last reload
\* applied an older list or one was given up.
ScheduleCurrent == Quiet /\ ~late => schedule = Tasks

\* From the end of its cleanup on, a deleted node or task has no history,
\* whatever result arrives late, unless another request opened it again.
DeletedStaysEmpty ==
  /\ \A n \in Nodes \ bared : nodes[n] = "gone" /\ EntityJob(n) \notin jobs => history[n] = {}
  /\ Nobody \notin bared /\ ~exists /\ TaskJob \notin jobs => \A n \in Nodes : history[n] = {}

\* In the end no cleanup is pending, and every node with the task can have
\* its results stored.
EventuallyClean == <>[](jobs = {})
EventuallyStored ==
  <>[](\A n \in Nodes : Current(n) => /\ n \in schedule \/ late
                                      /\ Blocked(n) => n \in crossed)

\* Guards, schedule and database agree whenever no request is half-way.
GuardsSound == TypeOK /\ GuardsMatchJobs /\ ScheduleCurrent

\* In the end the cleanups are done and the guards lifted.
EventuallySettled == EventuallyClean /\ EventuallyStored
=============================================================================
