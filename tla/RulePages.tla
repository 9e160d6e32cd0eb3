----------------------------- MODULE RulePages -----------------------------
(***************************************************************************)
(* The administrator's pages of alert rules and ping tasks: load alerts    *)
(* and the alerts that are active now, packet loss, node offline, traffic  *)
(* reports, the ping tasks with the tasks each node displays, and the      *)
(* dialog of the defaults that three of them carry.                        *)
(*                                                                         *)
(* Each page lists rows, edits them in dialogs, alone or several at once,  *)
(* and reads its list again when the panel has answered.  The pages differ *)
(* in what they hide while they read, in what they do when the panel       *)
(* refuses or cannot be reached, and in what a new list takes down, and    *)
(* each difference is a definition here.  A row is a rule, a node, or a    *)
(* node with a task.  Forms may hold anything when they are submitted.     *)
(***************************************************************************)
EXTENDS Integers, FiniteSets, SequencesExt

CONSTANTS
  Pages,    \* the pages of this instance
  Rows,     \* what a page may list, numbers
  Values,   \* settings of a rule
  Stored,   \* the rows with a rule at the beginning
  MaxReads, MaxSaves, MaxOthers \* bounds: lists being read, changes, foreign changes

AllPages == {"load", "current", "loss", "offline", "traffic", "ping", "display", "preset"}

ASSUME PagesAssumption ==
  /\ Pages \subseteq AllPages /\ Rows \subseteq Nat /\ IsFiniteSet(Rows)
  /\ Stored \subseteq Rows
  /\ MaxReads \in Nat /\ MaxSaves \in Nat /\ MaxOthers \in Nat

VARIABLES
  page,     \* the page that is open
  rules, order, assigned, gone, \* the panel: the settings stored for each row,
            \* the order of tasks, the rows a loss rule may be for, and
            \* (history) the rows whose rule was deleted
  known,    \* the assignments as the page read them when it opened
  list,     \* what the page holds of the rest, a snapshot or Nothing
  loading, first, error, \* the page reads, has not read yet, failed to read
  reads,    \* list requests in flight, with what they read once served
  dialog,   \* the open dialog and its row
  selected, search, \* ticked rows, rows the search keeps
  drawn,    \* localTasks: the order in which the tasks are drawn
  saves,    \* changes in flight
  stuck,    \* rows whose Save button stays disabled
  clean,    \* history: nothing has made the list unreliable
  sent, others

server == <<rules, order, assigned, gone, others>>
held   == <<list, loading, first, error>>
view   == <<dialog, selected, search, drawn, stuck>>
pvars  == <<page, known, clean, server, held, reads, view, saves, sent>>

Closed  == <<"closed", 0>>
Unread  == [rules |-> [r \in Rows |-> <<>>], order |-> <<>>]
Nothing == [Unread EXCEPT !.order = <<0>>]
InOrder == SetToSortSeq(Rows, LAMBDA a, b : a < b)
Served  == [rules |-> rules, order |-> order]

Has(l, r) == l.rules[r] # <<>>

-----------------------------------------------------------------------------
(* What is on the screen.  Ping and packet loss show nothing but a spinner *)
(* while they read, the others only before they have read once; an error   *)
(* hides the page, except for load alerts that were read before.           *)

LoadHidden    == (loading \/ error) /\ list = Nothing
LossHidden    == loading \/ error
PingHidden    == loading \/ error
OfflineHidden == loading \/ error
TrafficHidden == loading \/ error

Hidden == CASE page \in {"load", "current"}   -> LoadHidden
            [] page = "loss"                  -> LossHidden
            [] page \in {"ping", "display"}   -> PingHidden
            [] page = "offline"               -> OfflineHidden
            [] page = "traffic"               -> TrafficHidden
            [] OTHER                          -> FALSE

LoadRows    == {r \in Rows : Has(list, r)} \cap search
CurrentRows == {r \in Rows : Has(list, r)} \cap search
PingRows    == {r \in Rows : Has(list, r)} \cap search
Targets     == known \cup {r \in Rows : Has(list, r)}
LossRows    == Targets \cap search
OfflineRows == search
TrafficRows == search
DisplayRows == search

Visible == IF Hidden THEN {}
           ELSE CASE page = "load"    -> LoadRows
                  [] page = "current" -> CurrentRows
                  [] page = "ping"    -> PingRows
                  [] page = "loss"    -> LossRows
                  [] page = "offline" -> OfflineRows
                  [] page = "traffic" -> TrafficRows
                  [] page = "display" -> DisplayRows
                  [] OTHER            -> Rows

(* A dialog of a row lives in the row, and those of the whole page of loss *)
(* and ping live in what loading takes down; the batch and default dialogs *)
(* of the other pages outlive it.                                          *)
Lives(d, vis) ==
  /\ d # Closed
  /\ IF d[1] \in {"row", "delete"} THEN d[2] \in vis
     ELSE page \in {"load", "loss", "ping"} => ~Hidden'

(* Once the list, the search or an error has changed, rows that are no     *)
(* longer drawn lose their dialogs and the state of their saves; new rows  *)
(* start without any.                                                      *)
Drawn(d, pending, disabled) ==
  /\ dialog' = IF Lives(d, Visible') THEN d ELSE Closed
  /\ stuck' = disabled \cap Visible'
  /\ saves' = [i \in DOMAIN pending |->
                 [pending[i] EXCEPT !.live = @ /\ Lives(pending[i].of, Visible')]]

(* buildAlertTargets runs on each new list, and ticks of targets that are  *)
(* gone are taken back.                                                    *)
KeepTicks == selected' = IF page = "loss" THEN selected \cap Targets' ELSE selected

-----------------------------------------------------------------------------
(* Reading.                                                                 *)

LoadRefresh    == page = "load" /\ loading' = TRUE /\ error' = FALSE
CurrentRefresh == page = "current" /\ loading' = TRUE /\ error' = FALSE
LossRefresh    == page = "loss" /\ loading' = TRUE /\ error' = FALSE
PingRefresh    == page = "ping" /\ loading' = TRUE /\ error' = FALSE
OfflineRefresh == page = "offline" /\ loading' = (loading \/ first) /\ error' = error
TrafficRefresh == page = "traffic" /\ loading' = (loading \/ first) /\ error' = FALSE
DisplayRefresh == page = "display" /\ loading' = loading /\ error' = FALSE

Refresh ==
  /\ Len(reads) < MaxReads
  /\ reads' = Append(reads, Nothing)
  /\ \/ LoadRefresh \/ CurrentRefresh \/ LossRefresh \/ PingRefresh
     \/ OfflineRefresh \/ TrafficRefresh \/ DisplayRefresh
  /\ UNCHANGED <<list, first>>

(* The list of active alerts is read again every thirty seconds.           *)
PollCurrent ==
  /\ UNCHANGED <<page, sent, known, clean, server, selected, search, drawn>>
  /\ page = "current" /\ reads = <<>>
  /\ Refresh /\ Drawn(dialog, saves, stuck)

ServeRead(i) ==
  /\ reads[i] = Nothing
  /\ reads' = [reads EXCEPT ![i] = Served]
  /\ UNCHANGED <<page, sent, known, clean, server, held, view, saves>>

(* Only the request of the node list knows whether a newer one was sent.   *)
Overtaken(i) == page = "display" /\ i < Len(reads)

DoneOnce(i) ==
  /\ reads' = IF page = "display" THEN SubSeq(reads, i + 1, Len(reads)) ELSE RemoveAt(reads, i)
  /\ first' = FALSE /\ loading' = (loading /\ ~first)

(* An answer that was overtaken is dropped, as its predecessors will be.   *)
Done(i) ==
  /\ reads' = IF page = "display" THEN SubSeq(reads, i + 1, Len(reads)) ELSE RemoveAt(reads, i)
  /\ IF Overtaken(i) THEN UNCHANGED <<loading, first>>
                     ELSE loading' = FALSE /\ first' = FALSE

ReadAnswered(i) ==
  /\ UNCHANGED <<page, sent, known, server>>
  /\ reads[i] # Nothing
  /\ list' = IF Overtaken(i) THEN list ELSE reads[i]
  /\ error' = error
  /\ drawn' = list'.order
  /\ clean' = (clean /\ (i = 1 \/ page = "display"))
  /\ search' = search
  /\ Done(i) /\ KeepTicks /\ Drawn(dialog, saves, stuck)

(* The defaults keep what they have, without a word.                       *)
ReadFails(i) ==
  /\ UNCHANGED <<page, sent, known, server, list, drawn, selected>>
  /\ error' = (error \/ ~(page = "preset" \/ Overtaken(i)))
  /\ clean' = FALSE
  /\ search' = search
  /\ Done(i) /\ Drawn(dialog, saves, stuck)

-----------------------------------------------------------------------------
(* Searching, ticking and opening dialogs.                                  *)

(* New search results are new processedTasks: the tasks are drawn as they  *)
(* were read.                                                              *)
Search(s) ==
  /\ UNCHANGED <<page, sent, known, clean, server, held, reads, selected>>
  /\ ~Hidden /\ dialog = Closed /\ page # "preset"
  /\ search' = s /\ drawn' = list.order
  /\ Drawn(dialog, saves, stuck)

Ticked == selected \cap Visible

LossTick(r)    == page = "loss" /\ r \in LossRows
OfflineTick(r) == page = "offline" /\ r \in OfflineRows
TrafficTick(r) == page = "traffic" /\ r \in TrafficRows

Tick(r) ==
  /\ ~Hidden /\ dialog = Closed
  /\ LossTick(r) \/ OfflineTick(r) \/ TrafficTick(r)
  /\ selected' = IF r \in selected THEN selected \ {r} ELSE selected \cup {r}
  /\ UNCHANGED <<page, sent, known, clean, server, held, reads, dialog, search, drawn, saves, stuck>>

TickAll ==
  /\ page \in {"loss", "offline", "traffic"} /\ dialog = Closed /\ Visible # {}
  /\ selected' = IF Visible \subseteq selected THEN selected \ Visible ELSE selected \cup Visible
  /\ UNCHANGED <<page, sent, known, clean, server, held, reads, dialog, search, drawn, saves, stuck>>

LoadRowDialog    == {<<"row", r>> : r \in LoadRows}
PingRowDialog    == {<<"row", r>> : r \in PingRows}
LossRowDialog    == {<<"row", r>> : r \in LossRows}
OfflineRowDialog == {<<"row", r>> : r \in OfflineRows}
TrafficRowDialog == {<<"row", r>> : r \in TrafficRows}
DisplayRowDialog == {<<"row", r>> : r \in DisplayRows}
PresetDialog     == {<<"row", r>> : r \in Rows}

LoadDeleteDialog == {<<"delete", r>> : r \in LoadRows}
PingDeleteDialog == {<<"delete", r>> : r \in PingRows}
LossDeleteDialog == {<<"delete", r>> : r \in {q \in LossRows : Has(list, q)}}

LoadAddDialog == {<<"add", 0>>}
PingAddDialog == {<<"add", 0>>}
LossAddDialog == {<<"add", 0>>}

LossBatchDialog    == {<<"batch", 0>> : r \in Ticked}
OfflineBatchDialog == {<<"batch", 0>> : r \in Ticked}
TrafficBatchDialog == {<<"batch", 0>> : r \in Ticked}

LoadDialogs    == LoadRowDialog \cup LoadDeleteDialog \cup LoadAddDialog
PingDialogs    == PingRowDialog \cup PingDeleteDialog \cup PingAddDialog
LossDialogs    == LossRowDialog \cup LossDeleteDialog \cup LossAddDialog \cup LossBatchDialog
OfflineDialogs == OfflineRowDialog \cup OfflineBatchDialog
TrafficDialogs == TrafficRowDialog \cup TrafficBatchDialog

Open ==
  /\ ~Hidden /\ dialog = Closed
  /\ dialog' \in CASE page = "load"    -> LoadDialogs
                   [] page = "ping"    -> PingDialogs
                   [] page = "loss"    -> LossDialogs
                   [] page = "offline" -> OfflineDialogs
                   [] page = "traffic" -> TrafficDialogs
                   [] page = "display" -> DisplayRowDialog
                   [] page = "preset"  -> PresetDialog
                   [] OTHER            -> {}
  /\ UNCHANGED <<page, sent, known, clean, server, held, reads, selected, search, drawn, saves, stuck>>

Close ==
  /\ dialog # Closed /\ ~Hidden /\ dialog' = Closed
  /\ UNCHANGED <<page, sent, known, clean, server, held, reads, selected, search, drawn, saves, stuck>>

-----------------------------------------------------------------------------
(* Changing.  A dialog that is saving disables its own button only, and    *)
(* may be closed meanwhile.                                                *)

Saving(d) == \/ \E i \in DOMAIN saves : saves[i].live /\ saves[i].of = d
             \/ d[1] = "row" /\ d[2] \in stuck

(* An edit changes something; a new rule and a batch are the settings of an *)
(* empty form.                                                             *)
Preset == CHOOSE v \in Values : \A w \in Values : v <= w

Other(r) == Values \ ToSet(list.rules[r])

Send(d, rows, v) ==
  /\ sent < MaxSaves /\ sent' = sent + 1 /\ ~Hidden /\ ~Saving(d)
  /\ saves' = Append(saves, [of |-> d, rows |-> rows, value |-> v, at |-> "sent", live |-> TRUE])
  /\ UNCHANGED <<page, known, clean, server, held, reads, dialog, selected, search, stuck>>

LoadEdit(r)    == page = "load" /\ dialog = <<"row", r>> /\ \E v \in Other(r) : Send(dialog, {r}, v)
PingEdit(r)    == page = "ping" /\ dialog = <<"row", r>> /\ \E v \in Other(r) : Send(dialog, {r}, v)
LossEdit(r)    == page = "loss" /\ dialog = <<"row", r>> /\ \E v \in Other(r) : Send(dialog, {r}, v)
OfflineEdit(r) == page = "offline" /\ dialog = <<"row", r>> /\ \E v \in Other(r) : Send(dialog, {r}, v)
TrafficEdit(r) == page = "traffic" /\ dialog = <<"row", r>> /\ \E v \in Other(r) : Send(dialog, {r}, v)
DisplayEdit(r) == page = "display" /\ dialog = <<"row", r>> /\ \E v \in Other(r) : Send(dialog, {r}, v)
PresetEdit(r)  == page = "preset" /\ dialog = <<"row", r>> /\ \E v \in Other(r) : Send(dialog, {r}, v)

(* The selector of nodes in a row of load alerts or tasks, which saves as  *)
(* it closes, and the silence menu of an active alert.                     *)
Pick(r) == /\ page \in {"load", "ping"} /\ dialog = Closed /\ r \in Visible
           /\ \E v \in Other(r) : Send(<<"row", r>>, {r}, v)

Silence(r) == page = "current" /\ r \in Visible /\ \E v \in Other(r) : Send(<<"row", r>>, {r}, v)

LoadAdd(r) == page = "load" /\ dialog = <<"add", 0>> /\ ~Has(list, r) /\ Send(dialog, {r}, Preset)
PingAdd(r) == page = "ping" /\ dialog = <<"add", 0>> /\ ~Has(list, r) /\ Send(dialog, {r}, Preset)
LossAdd(r) == /\ page = "loss" /\ dialog = <<"add", 0>> /\ r \in Targets /\ ~Has(list, r)
              /\ Send(dialog, {r}, Preset)

LossBatch    == page = "loss" /\ dialog = <<"batch", 0>> /\ Ticked # {} /\ Send(dialog, Ticked, Preset)
OfflineBatch == page = "offline" /\ dialog = <<"batch", 0>> /\ Ticked # {} /\ Send(dialog, Ticked, Preset)
TrafficBatch == page = "traffic" /\ dialog = <<"batch", 0>> /\ Ticked # {} /\ Send(dialog, Ticked, Preset)

LoadDelete(r) == page = "load" /\ dialog = <<"delete", r>> /\ Send(dialog, {r}, Preset)
PingDelete(r) == page = "ping" /\ dialog = <<"delete", r>> /\ Send(dialog, {r}, Preset)
LossDelete(r) == page = "loss" /\ dialog = <<"delete", r>> /\ Send(dialog, {r}, Preset)

Submit ==
  /\ drawn' = drawn
  /\ \/ LossBatch \/ OfflineBatch \/ TrafficBatch
     \/ \E r \in Rows :
          \/ LoadEdit(r) \/ PingEdit(r) \/ LossEdit(r) \/ OfflineEdit(r)
          \/ TrafficEdit(r) \/ DisplayEdit(r) \/ PresetEdit(r) \/ Pick(r) \/ Silence(r)
          \/ LoadAdd(r) \/ PingAdd(r) \/ LossAdd(r)
          \/ LoadDelete(r) \/ PingDelete(r) \/ LossDelete(r)

(* A task dropped elsewhere: the new order is drawn at once, and sent.  The *)
(* request remembers the order to go back to.                              *)
DropTask(a, b) ==
  /\ page = "ping" /\ dialog = Closed /\ search = Rows /\ a \in 1..Len(drawn) /\ b \in 1..Len(drawn)
  /\ a # b
  /\ drawn' = InsertAt(RemoveAt(drawn, a), b, drawn[a])
  /\ Send(<<"order", 0>>, {}, <<drawn, drawn'>>)

(* What the panel does with a change; a refused one leaves everything.     *)
Store(s) == rules' = [r \in Rows |-> IF r \in s.rows THEN <<s.value>> ELSE rules[r]]

EditUnasked(s) == Store(s) /\ UNCHANGED <<order, gone>>

Exist(s) == \A r \in s.rows : rules[r] # <<>>

EditById(s) == Exist(s) /\ Store(s) /\ UNCHANGED <<order, gone>>

Create(s) ==
  /\ \A r \in s.rows : rules[r] = <<>> /\ r \notin gone
  /\ Store(s) /\ gone' = gone
  /\ order' = IF page = "ping" THEN order \o SetToSeq(s.rows) ELSE order

UpsertNode(s) == Store(s) /\ UNCHANGED <<order, gone>>

UpsertAssigned(s) ==
  /\ rules' = [r \in Rows |-> IF r \in s.rows \cap assigned THEN <<s.value>> ELSE rules[r]]
  /\ UNCHANGED <<order, gone>>

UpsertLoss(s) == s.rows \subseteq assigned /\ Store(s) /\ UNCHANGED <<order, gone>>

DeleteById(s) ==
  /\ Exist(s)
  /\ rules' = [r \in Rows |-> IF r \in s.rows THEN <<>> ELSE rules[r]]
  /\ order' = SelectSeq(order, LAMBDA r : r \notin s.rows)
  /\ gone' = gone \cup s.rows

Reorder(s) ==
  LET asked == s.value[2] IN
  /\ ToSet(asked) \subseteq ToSet(order)
  /\ order' = asked \o SelectSeq(order, LAMBDA r : r \notin ToSet(asked))
  /\ UNCHANGED <<rules, gone>>

Change(s) ==
  \/ s.of[1] = "delete" /\ DeleteById(s)
  \/ s.of[1] = "order" /\ Reorder(s)
  \/ s.of[1] \notin {"delete", "order"} /\ page = "loss" /\ UpsertLoss(s)
  \/ s.of[1] = "add" /\ page # "loss" /\ Create(s)
  \/ /\ s.of[1] \notin {"delete", "order", "add"} /\ page # "loss"
     /\ IF page \in {"load", "ping", "current"} THEN EditById(s) ELSE UpsertNode(s)

ServeSave(i) ==
  /\ saves[i].at = "sent"
  /\ \/ Change(saves[i]) /\ saves' = [saves EXCEPT ![i].at = "stored"]
     \/ saves' = [saves EXCEPT ![i].at = "refused"] /\ UNCHANGED <<rules, order, gone>>
  /\ UNCHANGED <<page, sent, assigned, others, known, clean, held, reads, view>>

(* Another administrator changes or removes a rule, or takes a task away   *)
(* from a node, which takes the loss rule for it along.                    *)
Others ==
  /\ page \in {"load", "loss", "ping"} /\ others < MaxOthers /\ others' = others + 1 /\ clean' = FALSE
  /\ \E r \in Rows, v \in Values :
       LET s == [of |-> Closed, rows |-> {r}, value |-> v] IN
       \/ Change(s) /\ UNCHANGED assigned
       \/ page \in {"load", "ping"} /\ DeleteById(s) /\ UNCHANGED assigned
       \/ /\ page = "loss" /\ assigned' = assigned \ {r}
          /\ rules' = [rules EXCEPT ![r] = <<>>] /\ UNCHANGED <<order, gone>>
  /\ UNCHANGED <<page, sent, known, held, reads, view, saves>>

-----------------------------------------------------------------------------
(* What a page does with the answer to a change: whether it closes the     *)
(* dialog, reads the list again and keeps the button disabled.             *)

EditDone(out) == [close |-> out = "stored", read |-> out = "stored", stick |-> FALSE]

AddDone(out) == [close |-> out = "stored", read |-> TRUE, stick |-> FALSE]

DeletedUnread(out) == [close |-> out = "stored", read |-> FALSE, stick |-> FALSE]

DeleteDone(out) == [close |-> out = "stored", read |-> out = "stored", stick |-> FALSE]

SilenceDone(out) == [close |-> FALSE, read |-> out = "stored", stick |-> FALSE]

LossDone(out) == [close |-> out = "stored", read |-> out = "stored", stick |-> FALSE]

(* A refusal with a message is told, and then taken for a success; only a  *)
(* request that fails leads to the handler that forgets the button.        *)
OfflineDone(out) == [close |-> out # "lost", read |-> out # "lost", stick |-> out = "lost"]

OfflineBatchDone(out) == [close |-> out # "lost", read |-> out # "lost", stick |-> FALSE]

TrafficDone(out) == [close |-> out = "stored", read |-> out = "stored", stick |-> FALSE]

DisplayDone(out) == [close |-> out = "stored", read |-> out = "stored", stick |-> FALSE]

PresetDone(out) == [close |-> out = "stored", read |-> FALSE, stick |-> FALSE]

OrderDone(out) == [close |-> FALSE, read |-> out # "stored", stick |-> FALSE]

Reaction(s, out) ==
  LET kind  == s.of[1]
      plain == kind \notin {"order", "delete", "add"}
  IN  CASE kind = "order"                                   -> OrderDone(out)
        [] kind = "delete" /\ page # "loss"                 -> DeleteDone(out)
        [] kind = "add" /\ page # "loss"                    -> AddDone(out)
        [] kind # "order" /\ page = "loss"                  -> LossDone(out)
        [] plain /\ page \in {"load", "ping"}               -> EditDone(out)
        [] plain /\ page = "current"                        -> SilenceDone(out)
        [] plain /\ page = "offline" /\ kind = "batch"      -> OfflineBatchDone(out)
        [] plain /\ page = "offline" /\ kind # "batch"      -> OfflineDone(out)
        [] plain /\ page = "traffic"                        -> TrafficDone(out)
        [] plain /\ page = "display"                        -> DisplayDone(out)
        [] OTHER                                            -> PresetDone(out)

(* The selection of a batch of loss rules is dropped, an order that failed *)
(* is taken back, defaults that were stored are what the page holds.       *)
Answer(i, out) ==
  LET s    == saves[i]
      does == Reaction(s, out)
  IN
  /\ UNCHANGED <<page, sent, known, server>>
  /\ selected' = IF page = "loss" /\ s.of[1] = "batch" /\ out = "stored" THEN {} ELSE selected
  /\ drawn' = IF s.of[1] = "order" /\ out # "stored" /\ s.live THEN s.value[1] ELSE drawn
  /\ IF does.read
       THEN Refresh
       ELSE /\ list' = IF page = "preset" /\ out = "stored"
                         THEN [list EXCEPT !.rules = [r \in Rows |-> IF r \in s.rows THEN <<s.value>> ELSE @[r]]]
                         ELSE list
            /\ UNCHANGED <<reads, loading, first, error>>
  /\ search' = search
  /\ Drawn(IF does.close /\ s.live /\ dialog = s.of THEN Closed ELSE dialog,
           RemoveAt(saves, i),
           IF does.stick /\ s.live THEN stuck \cup s.rows ELSE stuck)

Answered(i) ==
  /\ saves[i].at # "sent"
  /\ clean' = (clean /\ (saves[i].at = "stored" =>
                           saves[i].of[1] # "order" /\ (page = "preset" => reads = <<>>)))
  /\ Answer(i, saves[i].at)

Lost(i) == clean' = (clean /\ saves[i].at # "stored") /\ Answer(i, "lost")

-----------------------------------------------------------------------------

PagesInit ==
  /\ page \in Pages /\ known = Rows \ Stored /\ assigned = Rows /\ clean = TRUE
  /\ \E v \in Values : rules = [r \in Rows |-> IF r \in Stored THEN <<v>> ELSE <<>>]
  /\ order = IF page = "ping" THEN SelectSeq(InOrder, LAMBDA r : rules[r] # <<>>) ELSE <<>>
  /\ gone = {} /\ others = 0 /\ sent = 0
  /\ list = IF page \in {"load", "current"} THEN Nothing ELSE Unread
  /\ loading = (page # "preset") /\ first = TRUE /\ error = FALSE
  /\ reads = <<Nothing>> /\ saves = <<>>
  /\ dialog = Closed /\ selected = {} /\ search = Rows /\ drawn = <<>> /\ stuck = {}

PagesNext ==
  \/ PollCurrent \/ Open \/ Close \/ TickAll \/ Submit \/ Others
  \/ \E s \in {Rows, Stored} : Search(s)
  \/ \E r \in Rows : Tick(r)
  \/ \E a, b \in 1..Cardinality(Rows) : DropTask(a, b)
  \/ \E i \in DOMAIN reads : ServeRead(i) \/ ReadAnswered(i) \/ ReadFails(i)
  \/ \E i \in DOMAIN saves : ServeSave(i) \/ Answered(i) \/ Lost(i)

(* Requests are served, and end in an answer or an error.                  *)
PagesFairness ==
  /\ WF_pvars(\E i \in DOMAIN reads : ServeRead(i))
  /\ WF_pvars(\E i \in DOMAIN reads : ReadAnswered(i) \/ ReadFails(i))

PagesSpec == PagesInit /\ [][PagesNext]_pvars /\ PagesFairness

-----------------------------------------------------------------------------

(* When no request is under way and nothing made the list unreliable (a    *)
(* read that failed or was answered out of order, a change whose answer    *)
(* was lost, a change by somebody else), a page lists what the panel has   *)
(* stored, and the tasks are drawn in the panel's order.                   *)
QuietIsCurrent ==
  clean /\ reads = <<>> /\ saves = <<>> =>
    /\ list.rules = rules
    /\ page = "ping" /\ ~Hidden => drawn = order

(* A rule that was deleted does not come back through an edit that was     *)
(* already open, or on its way, when it went.                              *)
DeletedStaysDeleted == page \in {"load", "ping"} => \A r \in gone : rules[r] = <<>>

(* Targets of packet loss that are no longer there are not ticked, so that *)
(* a batch never names one the administrator cannot see.                   *)
TicksAreListed == page = "loss" => selected \subseteq Targets

(* The pages act on what is there: no rule that was deleted, no target     *)
(* that is gone.                                                           *)
OnlyWhatIsThere == DeletedStaysDeleted /\ TicksAreListed

(* A change of several rows is stored for all of them or for none.         *)
AllOrNothing ==
  [][\A i \in DOMAIN saves :
       ServeSave(i) =>
         IF saves'[i].at = "refused" THEN rules' = rules
         ELSE saves[i].of[1] = "batch" => \A r \in saves[i].rows : rules'[r] = <<saves[i].value>>]_pvars

(* A page that hides behind a spinner comes back, however many reads cross *)
(* and fail.                                                               *)
PageReturns == []<>~loading

=============================================================================
