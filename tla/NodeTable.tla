----------------------------- MODULE NodeTable -----------------------------
(***************************************************************************)
(* The administrator's table of nodes (pages/admin/index.tsx): the list    *)
(* that NodeDetailsContext keeps, refreshed every 15 seconds and after     *)
(* each change; the live data that says who is online; the filter; and the *)
(* copy of the list that the table shows, pages through and lets the       *)
(* administrator reorder by dragging.  The panel's clients table is here   *)
(* with the weights by which it lists the nodes.                           *)
(*                                                                         *)
(* A node is the number of its creation, which breaks ties of weight.      *)
(***************************************************************************)
EXTENDS Integers, FiniteSets, SequencesExt

CONSTANTS
  Nodes,       \* every node there may be, a set of numbers
  Starters,    \* those that exist at the beginning
  OnlineSets,  \* what the live data may say
  PageSizes, DefaultSize,
  MaxOrders, MaxReads,  \* bounds: requests in flight
  MaxEdits, MaxLost     \* bounds: changes of the clients table, lost requests

ASSUME TableAssumption ==
  /\ Nodes \subseteq Nat \ {0} /\ IsFiniteSet(Nodes) /\ Starters \subseteq Nodes
  /\ OnlineSets \subseteq SUBSET Nodes
  /\ PageSizes \subseteq Nat \ {0} /\ DefaultSize \in PageSizes
  /\ MaxOrders \in Nat /\ MaxReads \in Nat /\ MaxEdits \in Nat /\ MaxLost \in Nat

VARIABLES
  there, weight,  \* the clients table
  detail,   \* nodeDetail: a list and the moment it was read
  reads,    \* client/list requests in flight; only the newest one counts
  error,    \* the last list request failed: the page shows nothing else
  online,   \* onlineSet
  filter,   \* "all", or "online" for any search, status or alert filter
  local, page, size,  \* localNodes, currentPage, pageSize
  orders,   \* client/order requests in flight
  write,    \* an add or remove request in flight, and whether it is done
  moved,    \* history: the node that was dropped, until the table changes
  edits, tfaults

server == <<there, weight>>
view   == <<error, online, filter, local, page, size, moved>>
tvars  == <<there, weight, detail, reads, error, online, filter, local, page, size,
            orders, write, moved, edits, tfaults>>

Nobody   == 0   \* no node
Previous == -1  \* the buttons of the neighbouring pages
Following == -2

Before(a, b) == weight[a] < weight[b] \/ (weight[a] = weight[b] /\ a < b)

Listed == SetToSortSeq(there, Before)

Filtered(list) == SelectSeq(list, LAMBDA n : filter' = "all" \/ n \in online')

Pages(list, sz) == IF list = <<>> THEN 1 ELSE (Len(list) + sz - 1) \div sz

VisiblePage == IF page < Pages(local, size) THEN page ELSE Pages(local, size)

VisibleNodes ==
  LET first == (VisiblePage - 1) * size + 1
  IN  {local[i] : i \in {j \in DOMAIN local : first <= j /\ j < first + size}}

ReorderEnabled == filter = "all"

TableInit ==
  /\ there = Starters /\ weight = [n \in Nodes |-> 0]
  /\ detail = [list |-> Listed, at |-> 0] /\ reads = {} /\ error = FALSE
  /\ online = Starters /\ filter = "all"
  /\ local = detail.list /\ page = 1 /\ size = DefaultSize
  /\ orders = {} /\ write = "none" /\ moved = Nobody
  /\ edits = 0 /\ tfaults = 0

ShowKeepsOrder(list) ==
  /\ local' = IF Range(local) = Range(Filtered(list)) THEN local ELSE Filtered(list)
  /\ page' = 1 /\ size' = size /\ moved' = Nobody

(* The effect of the table on a new array of nodes: the local order is     *)
(* forgotten, the page stays within the pages.  Without nodes there is no  *)
(* table, and the next one starts anew.                                    *)
Show(list) ==
  /\ local' = Filtered(list)
  /\ page' = LET last == Pages(local', size) IN IF page < last THEN page ELSE last
  /\ size' = IF local' = <<>> THEN DefaultSize ELSE size
  /\ moved' = Nobody

Load ==
  /\ reads' = {[r EXCEPT !.newest = FALSE] : r \in reads}
                \cup {[newest |-> TRUE, list |-> <<>>, at |-> 0, read |-> FALSE]}
  /\ error' = FALSE
  /\ UNCHANGED <<online, filter>>
  /\ IF error THEN Show(detail.list) ELSE UNCHANGED <<local, page, size, moved>>

Refresh ==
  /\ \A r \in reads : ~r.newest
  /\ Cardinality(reads) < MaxReads
  /\ Load
  /\ UNCHANGED <<server, detail, orders, write, edits, tfaults>>

List(r) ==
  /\ r \in reads /\ ~r.read
  /\ reads' = (reads \ {r}) \cup {[r EXCEPT !.read = TRUE, !.list = Listed, !.at = edits]}
  /\ UNCHANGED <<server, detail, view, orders, write, edits, tfaults>>

NeverIgnored(r) == r \notin reads

Ignored(r) == ~r.newest

Loaded(r) ==
  /\ r \in reads /\ r.read
  /\ reads' = reads \ {r}
  /\ UNCHANGED <<error, online, filter>>
  /\ IF Ignored(r) THEN UNCHANGED <<detail, local, page, size, moved>>
     ELSE /\ detail' = [list |-> r.list, at |-> r.at]
          /\ IF error THEN UNCHANGED <<local, page, size, moved>> ELSE Show(r.list)
  /\ UNCHANGED <<server, orders, write, edits, tfaults>>

(* The page shows the error alone: the table is unmounted.                 *)
ListFails(r) ==
  /\ r \in reads /\ tfaults < MaxLost
  /\ reads' = reads \ {r} /\ tfaults' = tfaults + 1
  /\ UNCHANGED <<online, filter>>
  /\ IF r.newest
     THEN /\ error' = TRUE /\ local' = Filtered(detail.list)
          /\ page' = 1 /\ size' = DefaultSize /\ moved' = Nobody
     ELSE UNCHANGED <<error, local, page, size, moved>>
  /\ UNCHANGED <<server, detail, orders, write, edits>>

(* The live data is polled every 5 seconds.                                *)
Live(set) ==
  /\ set # online
  /\ online' = set /\ UNCHANGED <<error, filter>> /\ Show(detail.list)
  /\ UNCHANGED <<server, detail, reads, orders, write, edits, tfaults>>

SetFilter(f) ==
  /\ f # filter /\ ~error
  /\ filter' = f /\ UNCHANGED <<error, online>> /\ Show(detail.list)
  /\ UNCHANGED <<server, detail, reads, orders, write, edits, tfaults>>

Turn(p) ==
  /\ ~error /\ p # VisiblePage /\ p \in 1..Pages(local, size)
  /\ page' = p /\ moved' = Nobody
  /\ UNCHANGED <<server, detail, reads, error, online, filter, local, size, orders, write,
                 edits, tfaults>>

Resize(s) ==
  /\ ~error /\ s # size
  /\ size' = s /\ page' = 1 /\ moved' = Nobody
  /\ UNCHANGED <<server, detail, reads, error, online, filter, local, orders, write,
                 edits, tfaults>>

(* Where a row dropped on `over' goes: a place in the list and a page.  A  *)
(* row may be dropped on the buttons of the previous and the next page.    *)
Destination(over) ==
  CASE over = Previous -> [at |-> (VisiblePage - 1) * size, page |-> VisiblePage - 1]
    [] over = Following -> [at |-> VisiblePage * size + 1, page |-> VisiblePage + 1]
    [] OTHER             -> [at |-> CHOOSE i \in DOMAIN local : local[i] = over,
                             page |-> VisiblePage]

Targets ==
  VisibleNodes \cup (IF VisiblePage > 1 THEN {Previous} ELSE {})
               \cup (IF VisiblePage < Pages(local, size) THEN {Following} ELSE {})

Moved(node, at) ==
  LET rest == Remove(local, node)
  IN  InsertAt(rest, IF at <= Len(rest) THEN at ELSE Len(rest) + 1, node)

DragEnd(node, over) ==
  /\ ReorderEnabled /\ ~error
  /\ node \in VisibleNodes /\ over \in Targets \ {node}
  /\ Cardinality(orders) < MaxOrders
  /\ local' = Moved(node, Destination(over).at)
  /\ page' = Destination(over).page
  /\ orders' = orders \cup {local'} /\ moved' = node
  /\ UNCHANGED <<server, detail, reads, error, online, filter, size, write, edits, tfaults>>

StoreOrder(order) ==
  /\ order \in orders /\ edits < MaxEdits
  /\ orders' = orders \ {order}
  /\ weight' = [n \in Nodes |-> IF n \in Range(order) \cap there
                                THEN (CHOOSE i \in DOMAIN order : order[i] = n) - 1
                                ELSE weight[n]]
  /\ edits' = edits + 1
  /\ UNCHANGED <<there, detail, reads, view, write, tfaults>>

RefuseOrder(order) ==
  /\ order \in orders /\ tfaults < MaxLost
  /\ orders' = orders \ {order} /\ tfaults' = tfaults + 1
  /\ UNCHANGED <<server, detail, reads, view, write, edits>>

(* The dialogs that add and remove a node: the button stays disabled until *)
(* the answer, which refreshes the list.                                   *)
Ask(what) ==
  /\ write = "none" /\ ~error
  /\ write' = what
  /\ UNCHANGED <<server, detail, reads, view, orders, edits, tfaults>>

Add(n) ==
  /\ write = "add" /\ n \notin there /\ edits < MaxEdits
  /\ there' = there \cup {n} /\ weight' = [weight EXCEPT ![n] = 0]
  /\ write' = "done" /\ edits' = edits + 1
  /\ UNCHANGED <<detail, reads, view, orders, tfaults>>

Delete(n) ==
  /\ write = "remove" /\ n \in there /\ edits < MaxEdits
  /\ there' = there \ {n} /\ write' = "done" /\ edits' = edits + 1
  /\ UNCHANGED <<weight, detail, reads, view, orders, tfaults>>

Answer ==
  /\ write = "done" /\ Cardinality(reads) < MaxReads
  /\ write' = "none" /\ Load
  /\ UNCHANGED <<server, detail, orders, edits, tfaults>>

Refuse ==
  /\ write \in {"add", "remove"}
  /\ write' = "none"
  /\ UNCHANGED <<server, detail, reads, view, orders, edits, tfaults>>

TableNext ==
  \/ Refresh
  \/ \E r \in reads : List(r) \/ Loaded(r) \/ ListFails(r)
  \/ \E set \in OnlineSets : Live(set)
  \/ \E f \in {"all", "online"} : SetFilter(f)
  \/ \E p \in 1..Cardinality(Nodes) : Turn(p)
  \/ \E s \in PageSizes : Resize(s)
  \/ \E node \in Nodes, over \in Nodes \cup {Previous, Following} : DragEnd(node, over)
  \/ \E order \in orders : StoreOrder(order) \/ RefuseOrder(order)
  \/ \E what \in {"add", "remove"} : Ask(what)
  \/ \E n \in Nodes : Add(n) \/ Delete(n)
  \/ Answer \/ Refuse

(* The interval goes on whatever is shown; requests are answered, and      *)
(* before the next one is sent by the interval.                            *)
Answering ==
  /\ WF_tvars(Answer) /\ WF_tvars(Refuse)
  /\ WF_tvars(\E r \in reads : List(r))
  /\ WF_tvars(\E r \in reads : Loaded(r))

TableSpec == TableInit /\ [][TableNext]_tvars /\ WF_tvars(Refresh) /\ Answering

(* Every variable has its type.                                            *)
TableTypeOK ==
  /\ there \subseteq Nodes /\ weight \in [Nodes -> Nat]
  /\ Range(local) \subseteq Nodes /\ IsInjective(local)
  /\ page \in 1..Pages(local, size) /\ size \in PageSizes
  /\ \A order \in orders : IsInjective(order)
  /\ Cardinality({r \in reads : r.newest}) <= 1

(* A drop moves one row: wherever it is dropped, also on the button of     *)
(* another page, the row ends on the page that is then shown, and all the  *)
(* others keep their order (handleDragEnd, index.tsx:730).                 *)
DropMovesOneRow ==
  [][moved' # Nobody /\ local' # local =>
       /\ moved' \in VisibleNodes'
       /\ Remove(local', moved') = Remove(local, moved')]_tvars

(* Answers that cross never bring an older list back: the request sequence *)
(* of NodeDetailsContext (NodeDetailsContext.tsx:127).                     *)
ListNeverGoesBack == [][detail'.at >= detail.at]_tvars

(* A step of the table moves one row at most and never back in time.       *)
TableSteps == []TableTypeOK /\ DropMovesOneRow /\ ListNeverGoesBack

(* Whatever the administrator drags, filters or loses, the table ends up   *)
(* showing what the panel stores, once requests succeed again.             *)
TableFollowsPanel == <>[](~error /\ filter = "all" /\ orders = {} => local = Listed)
=============================================================================
