--------------------------- MODULE RulePagesProofs ---------------------------
(***************************************************************************)
(* Proofs about the rule pages (RulePages), for every page, every finite   *)
(* set of rows and every number of reads, changes and foreign changes.     *)
(*                                                                         *)
(* QuietIsCurrent says nothing of a page that waits.  The invariant PInv   *)
(* says what makes it true in the end.  Seven of the pages read again      *)
(* after a change: as long as the list is reliable and no stored change is *)
(* unanswered, their newest list request has not been served, or was       *)
(* served what is stored now (ListFollows).  The defaults read once and    *)
(* hold what they sent: at most one change of each is on its way, and      *)
(* those without one are what the panel holds (PresetSaves, PresetFollows).*)
(* The order in which tasks are drawn is the list's unless a new order is  *)
(* on its way (DrawnFollows).                                              *)
(*                                                                         *)
(* What a row, a snapshot or an order holds does not matter to any of it,  *)
(* so that the types say only what the steps rely on; sequences may hold   *)
(* anything (IsSeq).  A change whose dialog is redrawn keeps its content   *)
(* (Content), and when one is answered those after it move up (Before).    *)
(***************************************************************************)
EXTENDS RulePages, TLAPS

-----------------------------------------------------------------------------
(* Sequences, of whatever elements.                                         *)

IsSeq(s) == \E S : s \in Seq(S)

LEMMA SeqParts ==
  ASSUME NEW s, IsSeq(s)
  PROVE  Len(s) \in Nat /\ DOMAIN s = 1..Len(s) /\ (s = <<>> <=> Len(s) = 0)
  BY DEF IsSeq

LEMMA SeqAppend ==
  ASSUME NEW s, IsSeq(s), NEW e
  PROVE  /\ IsSeq(Append(s, e)) /\ Len(Append(s, e)) = Len(s) + 1
         /\ \A i \in 1..Len(s) : Append(s, e)[i] = s[i]
         /\ Append(s, e)[Len(s) + 1] = e
<1>1. PICK S : s \in Seq(S)
  BY DEF IsSeq
<1>2. s \in Seq(S \cup {e}) /\ e \in S \cup {e}
  BY <1>1
<1>3. Append(s, e) \in Seq(S \cup {e})
  BY <1>2
<1>4. QED
  BY <1>2, <1>3 DEF IsSeq

LEMMA SeqReplace ==
  ASSUME NEW s, IsSeq(s), NEW i \in 1..Len(s), NEW e
  PROVE  /\ IsSeq([s EXCEPT ![i] = e]) /\ Len([s EXCEPT ![i] = e]) = Len(s)
         /\ [s EXCEPT ![i] = e][i] = e
         /\ \A j \in 1..Len(s) : j # i => [s EXCEPT ![i] = e][j] = s[j]
<1>1. PICK S : s \in Seq(S)
  BY DEF IsSeq
<1>2. s \in Seq(S \cup {e}) /\ e \in S \cup {e}
  BY <1>1
<1>3. [s EXCEPT ![i] = e] \in Seq(S \cup {e})
  BY <1>2
<1>4. QED
  BY <1>2, <1>3 DEF IsSeq

LEMMA SeqTail ==
  ASSUME NEW s, IsSeq(s), NEW i \in 1..Len(s)
  PROVE  /\ IsSeq(SubSeq(s, i + 1, Len(s))) /\ Len(SubSeq(s, i + 1, Len(s))) = Len(s) - i
         /\ \A j \in 1..(Len(s) - i) : SubSeq(s, i + 1, Len(s))[j] = s[i + j]
<1>1. PICK S : s \in Seq(S)
  BY DEF IsSeq
<1>2. SubSeq(s, i + 1, Len(s)) \in Seq(S)
  BY <1>1
<1>3. QED
  BY <1>1, <1>2 DEF IsSeq

\* Where an element of the sequence without its i-th was before.
Before(i, j) == IF j < i THEN j ELSE j + 1

LEMMA SeqRemove ==
  ASSUME NEW s, IsSeq(s), NEW i \in 1..Len(s)
  PROVE  /\ IsSeq(RemoveAt(s, i)) /\ Len(RemoveAt(s, i)) = Len(s) - 1
         /\ \A j \in 1..(Len(s) - 1) : RemoveAt(s, i)[j] = s[Before(i, j)]
<1>1. PICK S : s \in Seq(S)
  BY DEF IsSeq
<1> DEFINE a == SubSeq(s, 1, i - 1)
           b == SubSeq(s, i + 1, Len(s))
<1>2. a \in Seq(S) /\ Len(a) = i - 1 /\ \A j \in 1..(i - 1) : a[j] = s[j]
  BY <1>1
<1>3. b \in Seq(S) /\ Len(b) = Len(s) - i /\ \A j \in 1..(Len(s) - i) : b[j] = s[i + j]
  BY <1>1
<1>4. RemoveAt(s, i) = a \o b
  BY DEF RemoveAt
<1>5. Len(s) \in Nat
  BY <1>1
<1> HIDE DEF a, b
<1>6. a \o b \in Seq(S) /\ Len(a \o b) = Len(s) - 1
  BY <1>2, <1>3, <1>5
<1>7. ASSUME NEW j \in 1..(Len(s) - 1) PROVE (a \o b)[j] = s[Before(i, j)]
  <2>1. CASE j < i
    BY <1>2, <1>3, <1>5, <2>1 DEF Before
  <2>2. CASE j >= i
    <3>1. j - Len(a) \in 1..Len(b) /\ i + (j - Len(a)) = j + 1
      BY <1>2, <1>3, <1>5, <2>2
    <3>2. (a \o b)[j] = b[j - Len(a)]
      BY <1>2, <1>3, <1>5, <2>2
    <3>3. QED
      BY <1>2, <1>3, <1>5, <2>2, <3>1, <3>2 DEF Before
  <2>3. j < i \/ j >= i
    BY <1>5
  <2>4. QED
    BY <2>1, <2>2, <2>3
<1>8. QED
  BY <1>4, <1>6, <1>7 DEF IsSeq

LEMMA BeforeOnce ==
  ASSUME NEW n \in Nat, NEW i \in 1..n
  PROVE  /\ \A j \in 1..(n - 1) : Before(i, j) \in 1..n /\ Before(i, j) # i
         /\ \A j, k \in 1..(n - 1) : Before(i, j) = Before(i, k) => j = k
         /\ \A k \in 1..n : k # i => \E j \in 1..(n - 1) : Before(i, j) = k
<1>1. ASSUME NEW k \in 1..n, k # i PROVE \E j \in 1..(n - 1) : Before(i, j) = k
  <2>1. CASE k < i
    BY <2>1 DEF Before
  <2>2. CASE k > i
    <3>1. k - 1 \in 1..(n - 1) /\ Before(i, k - 1) = k
      BY <2>2 DEF Before
    <3>2. QED
      BY <3>1
  <2>3. QED
    BY <1>1, <2>1, <2>2
<1>2. QED
  BY <1>1 DEF Before

-----------------------------------------------------------------------------
(* What is known of the state.                                              *)

\* The settings of every row; what a page holds of them.
IsRules(f) == f = [r \in Rows |-> f[r]]
IsSnap(x)  == x = [rules |-> x.rules, order |-> x.order] /\ IsRules(x.rules)

Content(s, t) == t.of = s.of /\ t.rows = s.rows /\ t.value = s.value /\ t.at = s.at

IsSave(s) ==
  /\ s = [of |-> s.of, rows |-> s.rows, value |-> s.value, at |-> s.at, live |-> s.live]
  /\ s.rows \subseteq Rows /\ s.at \in {"sent", "stored", "refused"}

ServerType == page \in AllPages /\ IsRules(rules) /\ gone \subseteq Rows
PageType   == known \subseteq Rows /\ search \subseteq Rows /\ IsSnap(list)
ReadsType  == IsSeq(reads) /\ \A i \in 1..Len(reads) : IsSnap(reads[i])
SavesType  == IsSeq(saves) /\ \A i \in 1..Len(saves) : IsSave(saves[i])

PagesType == ServerType /\ PageType /\ ReadsType /\ SavesType

\* A page without unanswered changes holds what the panel holds, or reads it: the
\* newest list request has not been served, or was served what is stored now.
InStore(i) == saves[i].at = "stored"
NoneStored == \A i \in 1..Len(saves) : ~InStore(i)

Recent == IF reads = <<>> THEN list.rules = rules /\ list.order = order
                          ELSE reads[Len(reads)] \in {Nothing, Served}
ListFollows == page # "preset" /\ clean /\ NoneStored => Recent

\* The tasks are drawn as the list has them, unless a new order is on its way.
NoOrder == \A i \in 1..Len(saves) : saves[i].of[1] # "order"
DrawnFollows == clean /\ reads = <<>> /\ NoOrder => drawn = list.order

\* The defaults are read once, and not again after a change: what is on its way is
\* one change of each, and those that are not hold what the panel holds.
PresetSave(s) ==
  s.live /\ \E r \in Rows : s.of = <<"row", r>> /\ s.rows = {r}
PresetSaves ==
  page = "preset" =>
    /\ Len(reads) <= 1
    /\ \A i \in 1..Len(saves) :
         /\ PresetSave(saves[i])
         /\ InStore(i) => \A r \in saves[i].rows : rules[r] = <<saves[i].value>>
    /\ \A i, j \in 1..Len(saves) : saves[i].of = saves[j].of => i = j

Fresh(r) == IF reads = <<>> THEN list.rules[r] = rules[r]
                            ELSE reads[1] # Nothing => reads[1].rules[r] = rules[r]
Settled(r) == \A i \in 1..Len(saves) : InStore(i) => r \notin saves[i].rows
PresetFollows ==
  page = "preset" /\ clean => \A r \in Rows : Settled(r) => Fresh(r)

PInv ==
  /\ PagesType
  /\ ListFollows /\ DrawnFollows /\ PresetSaves /\ PresetFollows
  /\ DeletedStaysDeleted /\ TicksAreListed

-----------------------------------------------------------------------------
(* Snapshots and redrawing.                                                 *)

LEMMA Snapshots ==
  /\ IsSnap(Unread) /\ IsSnap(Nothing)
  /\ ServerType => IsSnap(Served)
<1>1. IsSnap(Unread)
  BY DEF IsSnap, IsRules, Unread
<1>2. IsSnap(Nothing)
  BY DEF IsSnap, IsRules, Unread, Nothing
<1>3. ServerType => IsSnap(Served)
  BY DEF IsSnap, Served, ServerType, IsRules
<1>4. QED
  BY <1>1, <1>2, <1>3

LEMMA Flow ==
  ASSUME PagesType
  PROVE  /\ Len(reads) \in Nat /\ DOMAIN reads = 1..Len(reads) /\ (reads = <<>> <=> Len(reads) = 0)
         /\ Len(saves) \in Nat /\ DOMAIN saves = 1..Len(saves) /\ (saves = <<>> <=> Len(saves) = 0)
  BY SeqParts DEF PagesType, ReadsType, SavesType

LEMMA LiveSave ==
  ASSUME NEW s, IsSave(s), NEW b, NEW t, t = [s EXCEPT !.live = b]
  PROVE  Content(s, t) /\ IsSave(t) /\ t.live = b
<1>1. PICK o, w, v, a, l : s = [of |-> o, rows |-> w, value |-> v, at |-> a, live |-> l]
  BY DEF IsSave
<1>2. t = [of |-> o, rows |-> w, value |-> v, at |-> a, live |-> b]
  BY <1>1
<1>3. QED
  BY <1>1, <1>2 DEF IsSave, Content

\* The changes in flight keep what they are about while dialogs come and go.
LEMMA Redrawn ==
  ASSUME NEW d, NEW pending, NEW disabled, IsSeq(pending),
         \A i \in 1..Len(pending) : IsSave(pending[i]),
         Drawn(d, pending, disabled)
  PROVE  /\ Len(saves') = Len(pending) /\ IsSeq(saves')
         /\ \A i \in 1..Len(pending) : Content(pending[i], saves'[i]) /\ IsSave(saves'[i])
         /\ \A i \in 1..Len(pending) :
              page' = "preset" /\ PresetSave(pending[i]) => PresetSave(saves'[i])
<1>0. Len(pending) \in Nat /\ DOMAIN pending = 1..Len(pending)
  BY SeqParts
<1> DEFINE Alive(i) == pending[i].live /\ Lives(pending[i].of, Visible')
           Kept(i)  == [pending[i] EXCEPT !.live = Alive(i)]
<1>1. saves' = [i \in 1..Len(pending) |-> Kept(i)]
  BY <1>0 DEF Drawn
<1>2. ASSUME NEW i \in 1..Len(pending)
      PROVE  Content(pending[i], Kept(i)) /\ IsSave(Kept(i)) /\ Kept(i).live = Alive(i)
  BY LiveSave
<1> HIDE DEF Kept
<1>3. Len(saves') = Len(pending) /\ IsSeq(saves')
  <2> DEFINE S == {Kept(i) : i \in 1..Len(pending)}
  <2>1. saves' \in [1..Len(pending) -> S]
    BY <1>1
  <2>2. saves' \in Seq(S)
    BY <1>0, <2>1
  <2>3. QED
    BY <1>0, <2>1, <2>2 DEF IsSeq
<1>4. ASSUME NEW i \in 1..Len(pending), page' = "preset", PresetSave(pending[i])
      PROVE  PresetSave(saves'[i])
  <2>1. PICK r \in Rows : pending[i].of = <<"row", r>> /\ pending[i].rows = {r}
    BY <1>4 DEF PresetSave
  <2>2. ~Hidden'
    BY <1>4 DEF Hidden
  <2>3. Visible' = Rows
    BY <1>4, <2>2 DEF Visible
  <2>4. Lives(pending[i].of, Visible')
    BY <2>1, <2>3 DEF Lives, Closed
  <2>5. Alive(i)
    BY <1>4, <2>4 DEF PresetSave
  <2>6. saves'[i] = Kept(i)
    BY <1>1
  <2>7. QED
    BY <1>2, <2>1, <2>5, <2>6 DEF PresetSave, Content
<1>5. QED
  BY <1>1, <1>2, <1>3, <1>4

-----------------------------------------------------------------------------
(* What the panel does.                                                     *)

LEMMA Stores ==
  ASSUME NEW s, s.rows \subseteq Rows, Store(s)
  PROVE  /\ IsRules(rules')
         /\ \A r \in s.rows : rules'[r] = <<s.value>>
         /\ \A r \in Rows \ s.rows : rules'[r] = rules[r]
  BY DEF Store, IsRules

\* Whatever the change, only its rows change, and no deleted rule comes back.
LEMMA Changes ==
  ASSUME ServerType, DeletedStaysDeleted, NEW s, s.rows \subseteq Rows, Change(s)
  PROVE  /\ IsRules(rules') /\ gone' \subseteq Rows
         /\ \A r \in Rows \ s.rows : rules'[r] = rules[r]
         /\ page \in {"load", "ping"} => \A r \in gone' : rules'[r] = <<>>
         /\ s.of[1] \notin {"delete", "order"} => \A r \in s.rows : rules'[r] = <<s.value>>
<1>0. IsRules(rules) /\ gone \subseteq Rows
  BY DEF ServerType
<1>1. CASE s.of[1] = "delete" /\ DeleteById(s)
  BY <1>0, <1>1 DEF DeleteById, IsRules, DeletedStaysDeleted
<1>2. CASE s.of[1] = "order" /\ Reorder(s)
  BY <1>0, <1>2 DEF Reorder, IsRules, DeletedStaysDeleted
<1>3. CASE s.of[1] \notin {"delete", "order"} /\ page = "loss" /\ UpsertLoss(s)
  BY <1>0, <1>3, Stores DEF UpsertLoss
<1>4. CASE s.of[1] = "add" /\ page # "loss" /\ Create(s)
  <2>1. Store(s) /\ gone' = gone /\ \A r \in s.rows : r \notin gone
    BY <1>4 DEF Create
  <2>2. QED
    BY <1>0, <1>4, <2>1, Stores DEF DeletedStaysDeleted
<1>5. CASE /\ s.of[1] \notin {"delete", "order", "add"}
           /\ page \in {"load", "ping", "current"} /\ EditById(s)
  <2>1. Store(s) /\ gone' = gone /\ \A r \in s.rows : rules[r] # <<>>
    BY <1>5 DEF EditById, Exist
  <2>2. QED
    BY <1>0, <1>5, <2>1, Stores DEF DeletedStaysDeleted
<1>6. CASE /\ s.of[1] \notin {"delete", "order", "add"}
           /\ page \notin {"load", "ping", "current"} /\ UpsertNode(s)
  BY <1>0, <1>6, Stores DEF UpsertNode
<1>7. QED
  BY <1>1, <1>2, <1>3, <1>4, <1>5, <1>6 DEF Change

LEMMA OthersStep ==
  ASSUME PInv, Others
  PROVE  PInv'
<1>0. PagesType /\ IsRules(rules) /\ gone \subseteq Rows
  BY DEF PInv, PagesType, ServerType
<1>1. /\ clean' = FALSE /\ page \in {"load", "loss", "ping"}
      /\ UNCHANGED <<page, known, list, reads, dialog, selected, search, drawn, saves>>
  BY DEF Others, held, view
<1>2. IsRules(rules') /\ gone' \subseteq Rows /\ DeletedStaysDeleted'
  <2>1. PICK r \in Rows, v \in Values :
          LET s == [of |-> Closed, rows |-> {r}, value |-> v] IN
          \/ Change(s)
          \/ page \in {"load", "ping"} /\ DeleteById(s)
          \/ page = "loss" /\ rules' = [rules EXCEPT ![r] = <<>>] /\ UNCHANGED gone
    BY DEF Others
  <2>2. PICK s : s.rows = {r} /\ s = [of |-> Closed, rows |-> {r}, value |-> v]
    OBVIOUS
  <2>3. CASE Change(s)
    BY <1>0, <1>1, <2>2, <2>3, Changes DEF PInv, PagesType, DeletedStaysDeleted
  <2>4. CASE page \in {"load", "ping"} /\ DeleteById(s)
    BY <1>0, <1>1, <2>2, <2>4 DEF DeleteById, IsRules, PInv, DeletedStaysDeleted
  <2>5. CASE page = "loss" /\ rules' = [rules EXCEPT ![r] = <<>>] /\ UNCHANGED gone
    BY <1>0, <1>1, <2>5 DEF IsRules, DeletedStaysDeleted
  <2>6. QED
    BY <2>1, <2>2, <2>3, <2>4, <2>5
<1>3. PagesType'
  BY <1>0, <1>1, <1>2 DEF PagesType, ServerType, PageType, ReadsType, SavesType
<1>4. ListFollows' /\ DrawnFollows' /\ PresetSaves' /\ PresetFollows'
  BY <1>1 DEF ListFollows, DrawnFollows, PresetSaves, PresetFollows
<1>5. TicksAreListed'
  BY <1>1 DEF PInv, TicksAreListed, Targets, Has
<1>6. QED
  BY <1>2, <1>3, <1>4, <1>5 DEF PInv

\* What becomes of a change when the panel has it.
LEMMA ServedSave ==
  ASSUME PInv, NEW i \in 1..Len(saves), ServeSave(i)
  PROVE  /\ saves[i].at = "sent" /\ Len(saves') = Len(saves) /\ SavesType'
         /\ \A j \in 1..Len(saves) : j # i => saves'[j] = saves[j]
         /\ saves'[i].of = saves[i].of /\ saves'[i].rows = saves[i].rows
         /\ saves'[i].value = saves[i].value /\ saves'[i].live = saves[i].live
         /\ \/ saves'[i].at = "stored" /\ Change(saves[i])
            \/ saves'[i].at = "refused" /\ UNCHANGED <<rules, order, gone>>
<1>0. IsSeq(saves) /\ IsSave(saves[i]) /\ \A j \in 1..Len(saves) : IsSave(saves[j])
  BY DEF PInv, PagesType, SavesType
<1>1. PICK a \in {"stored", "refused"} :
        /\ saves' = [saves EXCEPT ![i].at = a]
        /\ IF a = "stored" THEN Change(saves[i]) ELSE UNCHANGED <<rules, order, gone>>
  BY DEF ServeSave
<1>2. PICK t : t = [saves[i] EXCEPT !.at = a]
  OBVIOUS
<1>3. /\ t.of = saves[i].of /\ t.rows = saves[i].rows /\ t.value = saves[i].value
      /\ t.live = saves[i].live /\ t.at = a /\ IsSave(t)
  <2>1. PICK o, w, v, b, l : saves[i] = [of |-> o, rows |-> w, value |-> v, at |-> b, live |-> l]
    BY <1>0 DEF IsSave
  <2>2. t = [of |-> o, rows |-> w, value |-> v, at |-> a, live |-> l]
    BY <1>2, <2>1
  <2>3. QED
    BY <1>0, <2>1, <2>2 DEF IsSave
<1>4. saves' = [saves EXCEPT ![i] = t]
  BY <1>1, <1>2
<1>5. IsSeq(saves') /\ Len(saves') = Len(saves) /\ saves'[i] = t
      /\ \A j \in 1..Len(saves) : j # i => saves'[j] = saves[j]
  <2>1. /\ IsSeq([saves EXCEPT ![i] = t]) /\ Len([saves EXCEPT ![i] = t]) = Len(saves)
        /\ [saves EXCEPT ![i] = t][i] = t
        /\ \A j \in 1..Len(saves) : j # i => [saves EXCEPT ![i] = t][j] = saves[j]
    BY <1>0, SeqReplace
  <2>2. QED
    BY <1>4, <2>1
<1>6. SavesType'
  BY <1>0, <1>3, <1>5 DEF SavesType
<1>7. QED
  BY <1>1, <1>3, <1>5, <1>6 DEF ServeSave

LEMMA ServeSaveStep ==
  ASSUME PInv, NEW i \in 1..Len(saves), ServeSave(i)
  PROVE  PInv'
<1>0. /\ PagesType /\ IsRules(rules) /\ gone \subseteq Rows /\ saves[i].rows \subseteq Rows
      /\ Len(saves) \in Nat
  BY Flow DEF PInv, PagesType, ServerType, SavesType, IsSave
<1>1. UNCHANGED <<page, clean, known, list, reads, dialog, selected, search, drawn>>
  BY DEF ServeSave, held, view
<1>2. /\ saves[i].at = "sent" /\ Len(saves') = Len(saves) /\ SavesType'
      /\ \A j \in 1..Len(saves) : j # i => saves'[j] = saves[j]
      /\ saves'[i].of = saves[i].of /\ saves'[i].rows = saves[i].rows
      /\ saves'[i].value = saves[i].value /\ saves'[i].live = saves[i].live
      /\ \/ saves'[i].at = "stored" /\ Change(saves[i])
         \/ saves'[i].at = "refused" /\ UNCHANGED <<rules, order, gone>>
  BY ServedSave
<1>3. IsRules(rules') /\ gone' \subseteq Rows /\ DeletedStaysDeleted'
  BY <1>0, <1>1, <1>2, Changes DEF PInv, PagesType, DeletedStaysDeleted
<1>4. PagesType'
  BY <1>0, <1>1, <1>2, <1>3 DEF PagesType, ServerType, PageType, ReadsType
<1>5. ListFollows'
  <2> SUFFICES ASSUME page # "preset", clean, NoneStored' PROVE Recent'
    BY <1>1 DEF ListFollows
  <2>1. saves'[i].at = "refused" /\ NoneStored /\ UNCHANGED <<rules, order>>
    BY <1>2 DEF NoneStored, InStore
  <2>2. QED
    BY <1>1, <2>1 DEF PInv, ListFollows, Recent, Served
<1>6. DrawnFollows'
  BY <1>1, <1>2 DEF PInv, DrawnFollows, NoOrder
<1>7. PresetSaves' /\ PresetFollows'
  <2> SUFFICES ASSUME page = "preset" PROVE PresetSaves' /\ PresetFollows'
    BY <1>1 DEF PresetSaves, PresetFollows
  <2>0. \A j \in 1..Len(saves) : /\ saves'[j].of = saves[j].of /\ saves'[j].rows = saves[j].rows
                                 /\ saves'[j].value = saves[j].value /\ saves'[j].live = saves[j].live
    BY <1>2
  <2>1. /\ Len(reads) <= 1
        /\ \A j \in 1..Len(saves) :
             /\ PresetSave(saves[j])
             /\ InStore(j) => \A r \in saves[j].rows : rules[r] = <<saves[j].value>>
        /\ \A j, k \in 1..Len(saves) : saves[j].of = saves[k].of => j = k
    BY DEF PInv, PresetSaves
  <2>2. PICK r \in Rows : saves[i].of = <<"row", r>> /\ saves[i].rows = {r}
    BY <2>1 DEF PresetSave
  <2>3. \A j \in 1..Len(saves) : j # i => r \notin saves[j].rows
    BY <2>1, <2>2 DEF PresetSave
  <2>4. \A q \in Rows : q # r => rules'[q] = rules[q]
    BY <1>0, <1>2, <2>2, Changes DEF PInv, PagesType
  <2>5. saves'[i].at = "stored" => rules'[r] = <<saves[i].value>>
    <3>1. saves[i].of[1] = "row"
      BY <2>2
    <3>2. QED
      BY <1>0, <1>2, <2>2, <3>1, Changes DEF PInv, PagesType
  <2>6. \A j \in 1..Len(saves) : PresetSave(saves'[j])
    BY <2>0, <2>1 DEF PresetSave
  <2>7. ASSUME NEW j \in 1..Len(saves), InStore(j)', NEW q \in saves'[j].rows
        PROVE  rules'[q] = <<saves'[j].value>>
    <3>1. CASE j = i
      BY <2>0, <2>2, <2>5, <2>7, <3>1 DEF InStore
    <3>2. CASE j # i
      <4>1. InStore(j) /\ q # r /\ q \in Rows /\ saves'[j] = saves[j]
        BY <1>2, <2>1, <2>3, <2>7, <3>2 DEF InStore, PresetSave
      <4>2. QED
        BY <2>1, <2>4, <2>7, <4>1
    <3>3. QED
      BY <3>1, <3>2
  <2>8. PresetSaves'
    BY <1>1, <1>2, <2>0, <2>1, <2>6, <2>7 DEF PresetSaves
  <2>9. ASSUME clean, NEW q \in Rows, Settled(q)'
        PROVE  Fresh(q)'
    <3>1. rules'[q] = rules[q]
      BY <1>2, <2>2, <2>4, <2>9 DEF Settled, InStore
    <3>2. Settled(q)
      BY <1>2, <2>9 DEF Settled, InStore
    <3>3. QED
      BY <1>1, <2>9, <3>1, <3>2 DEF PInv, PresetFollows, Fresh
  <2>10. PresetFollows'
    BY <1>1, <2>9 DEF PresetFollows
  <2>11. QED
    BY <2>8, <2>10
<1>8. TicksAreListed'
  BY <1>1 DEF PInv, TicksAreListed, Targets, Has
<1>9. QED
  BY <1>3, <1>4, <1>5, <1>6, <1>7, <1>8 DEF PInv

-----------------------------------------------------------------------------
(* Reading, searching, ticking and opening: the changes in flight stay.     *)

SavesKept ==
  /\ Len(saves') = Len(saves) /\ SavesType'
  /\ \A i \in 1..Len(saves) : Content(saves[i], saves'[i])
  /\ page = "preset" => \A i \in 1..Len(saves) : PresetSave(saves[i]) => PresetSave(saves'[i])

LEMMA RedrawnKept ==
  ASSUME PagesType, page' = page, Drawn(dialog, saves, stuck)
  PROVE  SavesKept
<1>1. IsSeq(saves) /\ \A i \in 1..Len(saves) : IsSave(saves[i])
  BY DEF PagesType, SavesType
<1>2. /\ Len(saves') = Len(saves) /\ IsSeq(saves')
      /\ \A i \in 1..Len(saves) : Content(saves[i], saves'[i]) /\ IsSave(saves'[i])
      /\ \A i \in 1..Len(saves) : page' = "preset" /\ PresetSave(saves[i]) => PresetSave(saves'[i])
  BY <1>1, Redrawn
<1>3. QED
  BY <1>2 DEF SavesKept, SavesType

LEMMA SameKept ==
  ASSUME PagesType, saves' = saves
  PROVE  SavesKept
  BY DEF PagesType, SavesType, SavesKept, Content

\* The list and what is drawn may follow the reads; nothing else is owed.
LEMMA KeptStep ==
  ASSUME PInv, SavesKept, UNCHANGED <<page, rules, order, gone>>, clean' => clean,
         PageType', ReadsType', TicksAreListed',
         page # "preset" /\ clean' /\ Recent => Recent',
         clean' /\ reads' = <<>> =>
           drawn' = list'.order \/ (reads = <<>> /\ drawn' = drawn /\ list'.order = list.order),
         page = "preset" => Len(reads') <= 1,
         page = "preset" /\ clean' => \A r \in Rows : Fresh(r) => Fresh(r)'
  PROVE  PInv'
<1>0. /\ Len(saves') = Len(saves) /\ SavesType'
      /\ \A i \in 1..Len(saves) : /\ saves'[i].of = saves[i].of /\ saves'[i].rows = saves[i].rows
                                  /\ saves'[i].value = saves[i].value /\ saves'[i].at = saves[i].at
      /\ page = "preset" => \A i \in 1..Len(saves) : PresetSave(saves[i]) => PresetSave(saves'[i])
  BY DEF SavesKept, Content
<1>1. PagesType'
  BY <1>0 DEF PInv, PagesType, ServerType
<1>2. ListFollows'
  BY <1>0 DEF PInv, ListFollows, NoneStored, InStore
<1>3. DrawnFollows'
  BY <1>0 DEF PInv, DrawnFollows, NoOrder
<1>4. PresetSaves'
  BY <1>0 DEF PInv, PresetSaves, InStore
<1>5. PresetFollows'
  BY <1>0 DEF PInv, PresetFollows, Settled, InStore
<1>6. DeletedStaysDeleted'
  BY DEF PInv, DeletedStaysDeleted
<1>7. QED
  BY <1>1, <1>2, <1>3, <1>4, <1>5, <1>6 DEF PInv

LEMMA VisibleRows ==
  ASSUME PagesType
  PROVE  Visible \subseteq Rows /\ (page = "loss" => Visible \subseteq Targets)
<1>1. known \subseteq Rows /\ search \subseteq Rows /\ page \in AllPages
  BY DEF PagesType, PageType, ServerType
<1>2. CASE Hidden
  BY <1>2 DEF Visible
<1>3. CASE ~Hidden
  BY <1>1, <1>3
  DEF Visible, AllPages, LoadRows, CurrentRows, PingRows, LossRows, OfflineRows, TrafficRows,
      DisplayRows, Targets
<1>4. QED
  BY <1>2, <1>3

\* The screen changes, and nothing that was read.
LEMMA ViewStep ==
  ASSUME PInv, SavesKept,
         UNCHANGED <<page, known, clean, rules, order, gone, list, reads>>,
         search' \subseteq Rows, drawn' \in {drawn, list.order},
         page = "loss" => selected' \subseteq Targets
  PROVE  PInv'
<1>1. PageType' /\ ReadsType'
  BY DEF PInv, PagesType, PageType, ReadsType
<1>2. TicksAreListed'
  BY DEF TicksAreListed, Targets, Has
<1>3. Recent => Recent'
  BY DEF Recent, Served
<1>4. page = "preset" => Len(reads') <= 1
  BY DEF PInv, PresetSaves
<1>5. \A r \in Rows : Fresh(r) => Fresh(r)'
  BY DEF Fresh
<1>6. clean' /\ reads' = <<>> =>
        drawn' = list'.order \/ (reads = <<>> /\ drawn' = drawn /\ list'.order = list.order)
  OBVIOUS
<1>7. QED
  BY <1>1, <1>2, <1>3, <1>4, <1>5, <1>6, KeptStep

LEMMA ScreenStep ==
  ASSUME PInv,
         \/ \E s \in {Rows, Stored} : Search(s)
         \/ \E r \in Rows : Tick(r)
         \/ TickAll \/ Open \/ Close
  PROVE  PInv'
<1>0. PagesType /\ search \subseteq Rows /\ (page = "loss" => selected \subseteq Targets)
  BY DEF PInv, PagesType, PageType, TicksAreListed
<1> USE DEF server, held, view
<1>1. ASSUME NEW s \in {Rows, Stored}, Search(s) PROVE PInv'
  <2>1. SavesKept
    BY <1>0, <1>1, RedrawnKept DEF Search
  <2>2. search' \subseteq Rows
    BY <1>1, PagesAssumption DEF Search
  <2>3. QED
    BY <1>0, <1>1, <2>1, <2>2, ViewStep DEF Search
<1>2. ASSUME NEW r \in Rows, Tick(r) PROVE PInv'
  <2>1. SavesKept
    BY <1>0, <1>2, SameKept DEF Tick
  <2>2. page = "loss" => selected' \subseteq Targets
    BY <1>0, <1>2 DEF Tick, LossTick, OfflineTick, TrafficTick, LossRows
  <2>3. QED
    BY <1>0, <1>2, <2>1, <2>2, ViewStep DEF Tick
<1>3. CASE TickAll
  <2>1. SavesKept
    BY <1>0, <1>3, SameKept DEF TickAll
  <2>2. page = "loss" => selected' \subseteq Targets
    BY <1>0, <1>3, VisibleRows DEF TickAll
  <2>3. QED
    BY <1>0, <1>3, <2>1, <2>2, ViewStep DEF TickAll
<1>4. CASE Open \/ Close
  <2>1. SavesKept
    BY <1>0, <1>4, SameKept DEF Open, Close
  <2>2. QED
    BY <1>0, <1>4, <2>1, ViewStep DEF Open, Close
<1>5. QED
  BY <1>1, <1>2, <1>3, <1>4

\* A new list is asked for: from now on it is the newest.
LEMMA Refreshes ==
  ASSUME PagesType, Refresh
  PROVE  /\ reads' = Append(reads, Nothing) /\ list' = list /\ page # "preset"
         /\ ReadsType' /\ reads' # <<>> /\ reads'[Len(reads')] = Nothing
<1>1. reads' = Append(reads, Nothing) /\ list' = list
  BY DEF Refresh
<1>2. page # "preset"
  BY DEF Refresh, LoadRefresh, CurrentRefresh, LossRefresh, PingRefresh, OfflineRefresh,
         TrafficRefresh, DisplayRefresh
<1>3. /\ IsSeq(reads') /\ Len(reads') = Len(reads) + 1 /\ Len(reads) \in Nat
      /\ reads'[Len(reads) + 1] = Nothing
      /\ \A i \in 1..Len(reads) : reads'[i] = reads[i] /\ IsSnap(reads[i])
  <2>1. IsSeq(reads) /\ \A i \in 1..Len(reads) : IsSnap(reads[i])
    BY DEF PagesType, ReadsType
  <2>2. QED
    BY <1>1, <2>1, SeqAppend, SeqParts
<1>4. ASSUME NEW i \in 1..Len(reads') PROVE IsSnap(reads'[i])
  BY <1>3, Snapshots
<1>5. reads' # <<>>
  BY <1>3
<1>6. QED
  BY <1>1, <1>2, <1>3, <1>4, <1>5 DEF ReadsType

LEMMA PollStep ==
  ASSUME PInv, PollCurrent
  PROVE  PInv'
<1>0. PagesType
  BY DEF PInv
<1>1. UNCHANGED <<page, known, clean, rules, order, gone, selected, search, drawn>>
  BY DEF PollCurrent, server
<1>2. /\ reads' = Append(reads, Nothing) /\ list' = list /\ page # "preset"
      /\ ReadsType' /\ reads' # <<>> /\ reads'[Len(reads')] = Nothing
  BY <1>0, Refreshes DEF PollCurrent
<1>3. SavesKept
  BY <1>0, <1>1, RedrawnKept DEF PollCurrent
<1>4. PageType'
  BY <1>0, <1>1, <1>2 DEF PagesType, PageType
<1>5. TicksAreListed'
  BY <1>1, <1>2 DEF PInv, TicksAreListed, Targets, Has
<1>6. Recent'
  BY <1>2 DEF Recent
<1>7. QED
  BY <1>1, <1>2, <1>3, <1>4, <1>5, <1>6, KeptStep

LEMMA ServeReadStep ==
  ASSUME PInv, NEW i \in 1..Len(reads), ServeRead(i)
  PROVE  PInv'
<1>0. PagesType /\ ServerType /\ Len(reads) \in Nat
  BY Flow DEF PInv, PagesType
<1>1. UNCHANGED <<page, known, clean, rules, order, gone, list, selected, search, drawn, saves>>
  BY DEF ServeRead, server, held, view
<1>2. /\ IsSeq(reads') /\ Len(reads') = Len(reads) /\ reads'[i] = Served
      /\ \A j \in 1..Len(reads) : j # i => reads'[j] = reads[j]
  <2>0. IsSeq(reads)
    BY <1>0 DEF PagesType, ReadsType
  <2>1. reads' = [reads EXCEPT ![i] = Served]
    BY DEF ServeRead
  <2>2. PICK x : x = Served
    OBVIOUS
  <2>3. /\ IsSeq([reads EXCEPT ![i] = x]) /\ Len([reads EXCEPT ![i] = x]) = Len(reads)
        /\ [reads EXCEPT ![i] = x][i] = x
        /\ \A j \in 1..Len(reads) : j # i => [reads EXCEPT ![i] = x][j] = reads[j]
    BY <2>0, SeqReplace
  <2>4. QED
    BY <2>1, <2>2, <2>3
<1>3. reads # <<>> /\ reads' # <<>>
  BY <1>0, <1>2, Flow, SeqParts
<1>4. ReadsType'
  <2>1. ASSUME NEW j \in 1..Len(reads') PROVE IsSnap(reads'[j])
    BY <1>0, <1>2, Snapshots DEF PagesType, ReadsType
  <2>2. QED
    BY <1>2, <2>1 DEF ReadsType
<1>5. PageType'
  BY <1>0, <1>1 DEF PagesType, PageType
<1>6. Recent => Recent'
  BY <1>0, <1>1, <1>2, <1>3 DEF Recent, Served
<1>7. \A r \in Rows : Fresh(r) => Fresh(r)'
  BY <1>0, <1>1, <1>2, <1>3 DEF Fresh, Served
<1>8. TicksAreListed'
  BY <1>1 DEF PInv, TicksAreListed, Targets, Has
<1>9. SavesKept
  BY <1>0, <1>1, SameKept
<1>10. page = "preset" => Len(reads') <= 1
  BY <1>2 DEF PInv, PresetSaves
<1>11. QED
  BY <1>1, <1>3, <1>4, <1>5, <1>6, <1>7, <1>8, <1>9, <1>10, KeptStep

\* What is left of the reads when one is done.
LEMMA ReadsLeft ==
  ASSUME PagesType, NEW i \in 1..Len(reads), Done(i)
  PROVE  /\ ReadsType' /\ Len(reads') \in Nat /\ Len(reads') < Len(reads)
         /\ (reads' = <<>>) <=> (Len(reads') = 0)
         /\ page = "display" => Len(reads') = Len(reads) - i
         /\ page # "display" => Len(reads') = Len(reads) - 1
         /\ (page = "display" \/ i = 1) /\ reads' # <<>> =>
              reads'[Len(reads')] = reads[Len(reads)]
<1>0. IsSeq(reads) /\ Len(reads) \in Nat /\ \A j \in 1..Len(reads) : IsSnap(reads[j])
  BY Flow DEF PagesType, ReadsType
<1>1. CASE page = "display"
  <2>1. reads' = SubSeq(reads, i + 1, Len(reads))
    BY <1>1 DEF Done
  <2>2. /\ IsSeq(reads') /\ Len(reads') = Len(reads) - i
        /\ \A j \in 1..(Len(reads) - i) : reads'[j] = reads[i + j]
    BY <1>0, <2>1, SeqTail
  <2>3. reads' = <<>> <=> Len(reads') = 0
    BY <2>2, SeqParts
  <2>4. \A j \in 1..Len(reads') : IsSnap(reads'[j])
    BY <1>0, <2>2
  <2>5. QED
    BY <1>0, <1>1, <2>2, <2>3, <2>4 DEF ReadsType
<1>2. CASE page # "display"
  <2>1. reads' = RemoveAt(reads, i)
    BY <1>2 DEF Done
  <2>2. /\ IsSeq(reads') /\ Len(reads') = Len(reads) - 1
        /\ \A j \in 1..(Len(reads) - 1) : reads'[j] = reads[Before(i, j)]
    BY <1>0, <2>1, SeqRemove
  <2>3. reads' = <<>> <=> Len(reads') = 0
    BY <2>2, SeqParts
  <2>4. \A j \in 1..Len(reads') : IsSnap(reads'[j])
    BY <1>0, <2>2, BeforeOnce
  <2>5. i = 1 /\ reads' # <<>> => reads'[Len(reads')] = reads[Len(reads)]
    BY <1>0, <2>2, <2>3 DEF Before
  <2>6. QED
    BY <1>0, <1>2, <2>2, <2>3, <2>4, <2>5 DEF ReadsType
<1>3. QED
  BY <1>1, <1>2

LEMMA ReadAnsweredStep ==
  ASSUME PInv, NEW i \in 1..Len(reads), ReadAnswered(i)
  PROVE  PInv'
<1>0. /\ PagesType /\ Len(reads) \in Nat /\ Len(reads) >= 1 /\ reads # <<>>
      /\ IsSnap(reads[i]) /\ (page = "preset" => Len(reads) = 1 /\ i = 1)
  <2>1. PagesType
    BY DEF PInv
  <2>2. Len(reads) \in Nat /\ (reads = <<>> <=> Len(reads) = 0)
    BY <2>1, Flow
  <2>3. Len(reads) >= 1 /\ reads # <<>>
    BY <2>2
  <2>4. IsSnap(reads[i])
    BY <2>1 DEF PagesType, ReadsType
  <2>5. page = "preset" => Len(reads) <= 1
    BY DEF PInv, PresetSaves
  <2>6. ASSUME page = "preset" PROVE Len(reads) = 1 /\ i = 1
    <3>1. Len(reads) \in Nat /\ Len(reads) <= 1 /\ i \in 1..Len(reads)
      BY <2>2, <2>5, <2>6
    <3>2. \A n \in Nat : \A k \in 1..n : n <= 1 => n = 1 /\ k = 1
      OBVIOUS
    <3>3. QED
      BY <3>1, <3>2
  <2>7. QED
    BY <2>1, <2>2, <2>3, <2>4, <2>6
<1>1. /\ UNCHANGED <<page, known, rules, order, gone, search>>
      /\ reads[i] # Nothing /\ drawn' = list'.order
      /\ clean' = (clean /\ (i = 1 \/ page = "display"))
      /\ list' = IF page = "display" /\ i < Len(reads) THEN list ELSE reads[i]
  BY DEF ReadAnswered, server, Overtaken
<1>2. /\ ReadsType' /\ Len(reads') \in Nat /\ Len(reads') < Len(reads)
      /\ (reads' = <<>>) <=> (Len(reads') = 0)
      /\ page = "display" => Len(reads') = Len(reads) - i
      /\ page # "display" => Len(reads') = Len(reads) - 1
      /\ (page = "display" \/ i = 1) /\ reads' # <<>> =>
           reads'[Len(reads')] = reads[Len(reads)]
  BY <1>0, ReadsLeft DEF ReadAnswered
<1>3. SavesKept
  BY <1>0, <1>1, RedrawnKept DEF ReadAnswered
<1>4. PageType'
  BY <1>0, <1>1 DEF PagesType, PageType
<1>5. TicksAreListed'
  BY <1>1 DEF ReadAnswered, KeepTicks, TicksAreListed
<1>6. ASSUME clean', Recent PROVE Recent'
  <2>1. (page = "display" \/ i = 1) /\ reads[Len(reads)] \in {Nothing, Served}
    BY <1>0, <1>1, <1>6 DEF Recent
  <2>2. CASE reads' # <<>>
    BY <1>1, <1>2, <2>1, <2>2 DEF Recent, Served
  <2>3. CASE reads' = <<>>
    <3>1. i = Len(reads)
      BY <1>0, <1>2, <2>1, <2>3
    <3>2. list' = Served
      BY <1>1, <2>1, <3>1
    <3>3. QED
      BY <1>1, <2>3, <3>2 DEF Recent, Served
  <2>4. QED
    BY <2>2, <2>3
<1>7. page = "preset" => Len(reads') <= 1 /\ \A r \in Rows : Fresh(r) => Fresh(r)'
  BY <1>0, <1>1, <1>2 DEF Fresh
<1>8. QED
  BY <1>1, <1>2, <1>3, <1>4, <1>5, <1>6, <1>7, KeptStep

LEMMA ReadFailsStep ==
  ASSUME PInv, NEW i \in 1..Len(reads), ReadFails(i)
  PROVE  PInv'
<1>0. PagesType /\ Len(reads) \in Nat
  BY Flow DEF PInv
<1>1. UNCHANGED <<page, known, rules, order, gone, search, list, drawn, selected>> /\ clean' = FALSE
  BY DEF ReadFails, server
<1>2. ReadsType' /\ Len(reads') < Len(reads) /\ Len(reads') \in Nat
  BY <1>0, ReadsLeft DEF ReadFails
<1>3. SavesKept
  BY <1>0, <1>1, RedrawnKept DEF ReadFails
<1>4. PageType'
  BY <1>0, <1>1 DEF PagesType, PageType
<1>5. TicksAreListed'
  BY <1>1 DEF PInv, TicksAreListed, Targets, Has
<1>6. page = "preset" => Len(reads') <= 1
  BY <1>0, <1>2 DEF PInv, PresetSaves
<1>7. QED
  BY <1>1, <1>2, <1>3, <1>4, <1>5, <1>6, KeptStep

-----------------------------------------------------------------------------
(* A change is sent.                                                        *)

LEMMA SendStep ==
  ASSUME PInv, NEW d, NEW rows, NEW v, Send(d, rows, v), rows \subseteq Rows,
         page = "preset" => \E r \in Rows : d = <<"row", r>> /\ rows = {r},
         drawn' = drawn \/ d[1] = "order"
  PROVE  PInv'
<1>0. /\ PagesType /\ IsSeq(saves) /\ Len(saves) \in Nat /\ DOMAIN saves = 1..Len(saves)
      /\ \A i \in 1..Len(saves) : IsSave(saves[i])
  BY Flow DEF PInv, PagesType, SavesType
<1>1. UNCHANGED <<page, known, clean, rules, order, gone, list, reads, selected, search>>
  BY DEF Send, server, held
<1>2. PICK s : s = [of |-> d, rows |-> rows, value |-> v, at |-> "sent", live |-> TRUE]
  OBVIOUS
<1>3. s.of = d /\ s.rows = rows /\ s.at = "sent" /\ s.live = TRUE /\ IsSave(s)
  BY <1>2 DEF IsSave
<1>4. /\ IsSeq(saves') /\ Len(saves') = Len(saves) + 1
      /\ \A i \in 1..Len(saves) : saves'[i] = saves[i]
      /\ saves'[Len(saves) + 1] = s
  <2>1. saves' = Append(saves, s)
    BY <1>2 DEF Send
  <2>2. QED
    BY <1>0, <2>1, SeqAppend
<1>5. \A i \in 1..Len(saves') : i = Len(saves) + 1 \/ i \in 1..Len(saves)
  BY <1>0, <1>4
<1>6. 1..Len(saves) \subseteq 1..Len(saves') /\ Len(saves) + 1 \in 1..Len(saves')
  BY <1>0, <1>4
<1>7. PagesType'
  <2>1. SavesType'
    BY <1>0, <1>3, <1>4, <1>5 DEF SavesType
  <2>2. QED
    BY <1>0, <1>1, <2>1 DEF PagesType, ServerType, PageType, ReadsType
<1>8. NoneStored' => NoneStored
  BY <1>4, <1>6 DEF NoneStored, InStore
<1>9. ListFollows'
  BY <1>1, <1>8 DEF PInv, ListFollows, Recent, Served
<1>10. DrawnFollows'
  <2>1. NoOrder' => NoOrder /\ d[1] # "order"
    BY <1>3, <1>4, <1>6 DEF NoOrder
  <2>2. QED
    BY <1>1, <2>1 DEF PInv, DrawnFollows
<1>11. CASE page = "preset"
  <2>1. /\ Len(reads) <= 1
        /\ \A i \in 1..Len(saves) :
             /\ PresetSave(saves[i])
             /\ InStore(i) => \A r \in saves[i].rows : rules[r] = <<saves[i].value>>
        /\ \A i, j \in 1..Len(saves) : saves[i].of = saves[j].of => i = j
    BY <1>11 DEF PInv, PresetSaves
  <2>2. PresetSave(s)
    BY <1>3, <1>11 DEF PresetSave
  <2>3. \A i \in 1..Len(saves) : saves[i].of # d
    BY <1>0, <2>1 DEF Send, Saving, PresetSave
  <2>4. PresetSaves'
    <3>1. Len(reads') <= 1
      BY <1>1, <2>1
    <3>2. ASSUME NEW i \in 1..Len(saves')
          PROVE  /\ PresetSave(saves'[i])
                 /\ InStore(i)' => \A r \in saves'[i].rows : rules'[r] = <<saves'[i].value>>
      BY <1>1, <1>3, <1>4, <1>5, <2>1, <2>2 DEF InStore
    <3>3. ASSUME NEW i \in 1..Len(saves'), NEW j \in 1..Len(saves'), saves'[i].of = saves'[j].of
          PROVE  i = j
      BY <1>3, <1>4, <1>5, <2>1, <2>3, <3>3
    <3>4. QED
      BY <3>1, <3>2, <3>3 DEF PresetSaves
  <2>5. \A r \in Rows : Settled(r)' => Settled(r)
    BY <1>4, <1>6 DEF Settled, InStore
  <2>6. PresetFollows'
    BY <1>1, <2>5 DEF PInv, PresetFollows, Fresh
  <2>7. QED
    BY <2>4, <2>6, <1>1, <1>7, <1>9, <1>10 DEF PInv, DeletedStaysDeleted, TicksAreListed, Targets, Has
<1>12. CASE page # "preset"
  BY <1>1, <1>7, <1>9, <1>10, <1>12
  DEF PInv, PresetSaves, PresetFollows, DeletedStaysDeleted, TicksAreListed, Targets, Has
<1>13. QED
  BY <1>11, <1>12

\* A change of these rows is sent, from the dialog of one row if it is a default.
Sends(d, rows, v) ==
  /\ Send(d, rows, v) /\ rows \subseteq Rows
  /\ page = "preset" => \E r \in Rows : d = <<"row", r>> /\ rows = {r}

LEMMA SendsRow ==
  ASSUME NEW r \in Rows, NEW v, Send(<<"row", r>>, {r}, v)
  PROVE  \E d, rows, w : Sends(d, rows, w)
<1>1. Sends(<<"row", r>>, {r}, v)
  BY DEF Sends
<1>2. QED
  BY <1>1

LEMMA SubmitSends ==
  ASSUME Ticked \subseteq Rows, Submit
  PROVE  \E d, rows, v : Sends(d, rows, v)
<1>1. CASE LossBatch \/ OfflineBatch \/ TrafficBatch
  <2>1. Sends(dialog, Ticked, Preset)
    BY <1>1 DEF LossBatch, OfflineBatch, TrafficBatch, Sends
  <2>2. QED
    BY <2>1
<1>2. ASSUME NEW r \in Rows,
             \/ LoadEdit(r) \/ PingEdit(r) \/ LossEdit(r) \/ OfflineEdit(r)
             \/ TrafficEdit(r) \/ DisplayEdit(r) \/ PresetEdit(r)
      PROVE  \E d, rows, v : Sends(d, rows, v)
  <2>1. PICK v : Send(<<"row", r>>, {r}, v)
    BY <1>2 DEF LoadEdit, PingEdit, LossEdit, OfflineEdit, TrafficEdit, DisplayEdit, PresetEdit
  <2>2. QED
    BY <2>1, SendsRow
<1>3. ASSUME NEW r \in Rows, Pick(r) \/ Silence(r)
      PROVE  \E d, rows, v : Sends(d, rows, v)
  <2>1. PICK v : Send(<<"row", r>>, {r}, v)
    BY <1>3 DEF Pick, Silence
  <2>2. QED
    BY <2>1, SendsRow
<1>4. ASSUME NEW r \in Rows,
             LoadAdd(r) \/ PingAdd(r) \/ LossAdd(r) \/ LoadDelete(r) \/ PingDelete(r) \/ LossDelete(r)
      PROVE  \E d, rows, v : Sends(d, rows, v)
  <2>1. Sends(dialog, {r}, Preset)
    BY <1>4 DEF LoadAdd, PingAdd, LossAdd, LoadDelete, PingDelete, LossDelete, Sends
  <2>2. QED
    BY <2>1
<1>5. QED
  BY <1>1, <1>2, <1>3, <1>4 DEF Submit

LEMMA SubmitStep ==
  ASSUME PInv, Submit
  PROVE  PInv'
<1>1. PagesType /\ Ticked \subseteq Rows
  BY VisibleRows DEF PInv, Ticked
<1>2. PICK d, rows, v : Sends(d, rows, v)
  BY <1>1, SubmitSends
<1>3. drawn' = drawn
  BY DEF Submit
<1>4. QED
  BY <1>2, <1>3, SendStep DEF Sends

LEMMA DropStep ==
  ASSUME PInv, NEW a, NEW b, DropTask(a, b)
  PROVE  PInv'
<1>1. PICK v : Send(<<"order", 0>>, {}, v)
  BY DEF DropTask
<1>2. page # "preset"
  BY DEF DropTask
<1>3. QED
  BY <1>1, <1>2, SendStep

-----------------------------------------------------------------------------
(* A change is answered, or its answer is lost.                             *)

\* Which answers make a page read again.
LEMMA Rereads ==
  ASSUME ServerType, NEW s, NEW out
  PROVE  /\ s.of[1] = "order" /\ out # "stored" => Reaction(s, out).read
         /\ out = "stored" /\ page # "preset" /\ s.of[1] # "order" => Reaction(s, out).read
<1>1. PICK kind : kind = s.of[1]
  OBVIOUS
<1>2. ASSUME kind = "order", out # "stored" PROVE Reaction(s, out).read
  <2>1. Reaction(s, out) = OrderDone(out)
    BY <1>1, <1>2 DEF Reaction
  <2>2. OrderDone(out).read
    BY <1>2 DEF OrderDone
  <2>3. QED
    BY <2>1, <2>2
<1>3. ASSUME out = "stored", page # "preset", kind # "order" PROVE Reaction(s, out).read
  <2>1. page \in {"load", "current", "loss", "offline", "traffic", "ping", "display"}
    BY <1>3 DEF ServerType, AllPages
  <2>2. Reaction(s, out) \in {AddDone(out), DeleteDone(out), LossDone(out), EditDone(out),
          SilenceDone(out), OfflineDone(out), OfflineBatchDone(out), TrafficDone(out), DisplayDone(out)}
    BY <1>1, <1>3, <2>1 DEF Reaction
  <2>3. /\ AddDone(out).read /\ DeleteDone(out).read /\ LossDone(out).read /\ EditDone(out).read
        /\ SilenceDone(out).read /\ OfflineDone(out).read /\ OfflineBatchDone(out).read
        /\ TrafficDone(out).read /\ DisplayDone(out).read
    BY <1>3 DEF AddDone, DeleteDone, LossDone, EditDone, SilenceDone, OfflineDone, OfflineBatchDone,
                TrafficDone, DisplayDone
  <2>4. QED
    BY <2>2, <2>3
<1>4. QED
  BY <1>1, <1>2, <1>3

\* The changes that remain in flight, and where each of them was before.
Remaining(i) ==
  /\ SavesType' /\ Len(saves') = Len(saves) - 1
  /\ \A j \in 1..(Len(saves) - 1) : Content(saves[Before(i, j)], saves'[j])
  /\ page = "preset" =>
       \A j \in 1..(Len(saves) - 1) : PresetSave(saves[Before(i, j)]) => PresetSave(saves'[j])

LEMMA AnswerRemains ==
  ASSUME PagesType, NEW i \in 1..Len(saves), NEW out, Answer(i, out)
  PROVE  Remaining(i)
<1>0. /\ IsSeq(saves) /\ Len(saves) \in Nat /\ \A j \in 1..Len(saves) : IsSave(saves[j])
  BY Flow DEF PagesType, SavesType
<1>1. PICK pending : pending = RemoveAt(saves, i)
  OBVIOUS
<1>2. /\ IsSeq(pending) /\ Len(pending) = Len(saves) - 1
      /\ \A j \in 1..(Len(saves) - 1) : pending[j] = saves[Before(i, j)]
  BY <1>0, <1>1, SeqRemove
<1>3. \A j \in 1..Len(pending) : IsSave(pending[j])
  BY <1>0, <1>2, BeforeOnce
<1>4. PICK d, disabled : Drawn(d, pending, disabled)
  BY <1>1 DEF Answer
<1>5. /\ Len(saves') = Len(pending) /\ IsSeq(saves')
      /\ \A j \in 1..Len(pending) : Content(pending[j], saves'[j]) /\ IsSave(saves'[j])
      /\ \A j \in 1..Len(pending) : page' = "preset" /\ PresetSave(pending[j]) => PresetSave(saves'[j])
  BY <1>2, <1>3, <1>4, Redrawn
<1>6. page' = page
  BY DEF Answer
<1>7. QED
  BY <1>2, <1>5, <1>6 DEF Remaining, SavesType

\* What a change leaves behind that was stored and has been answered.
LEMMA Remains ==
  ASSUME PagesType, NEW i \in 1..Len(saves), Remaining(i)
  PROVE  /\ \A j \in 1..Len(saves) : j # i =>
              \E k \in 1..Len(saves') : Content(saves[j], saves'[k])
         /\ \A k \in 1..Len(saves') :
              Before(i, k) \in 1..Len(saves) /\ Before(i, k) # i /\ Content(saves[Before(i, k)], saves'[k])
         /\ \A j, k \in 1..Len(saves') : Before(i, j) = Before(i, k) => j = k
<1>1. Len(saves) \in Nat
  BY Flow
<1>2. /\ Len(saves') = Len(saves) - 1
      /\ \A k \in 1..(Len(saves) - 1) : Content(saves[Before(i, k)], saves'[k])
  BY DEF Remaining
<1>3. /\ \A k \in 1..(Len(saves) - 1) : Before(i, k) \in 1..Len(saves) /\ Before(i, k) # i
      /\ \A j, k \in 1..(Len(saves) - 1) : Before(i, j) = Before(i, k) => j = k
      /\ \A j \in 1..Len(saves) : j # i => \E k \in 1..(Len(saves) - 1) : Before(i, k) = j
  BY <1>1, BeforeOnce
<1>4. ASSUME NEW j \in 1..Len(saves), j # i
      PROVE  \E k \in 1..Len(saves') : Content(saves[j], saves'[k])
  <2>1. PICK k \in 1..(Len(saves) - 1) : Before(i, k) = j
    BY <1>3, <1>4
  <2>2. Content(saves[j], saves'[k])
    BY <1>2, <2>1
  <2>3. QED
    BY <1>2, <2>2
<1>5. QED
  BY <1>2, <1>3, <1>4

LEMMA AnswerStep ==
  ASSUME PInv, NEW i \in 1..Len(saves), NEW out, Answer(i, out),
         out = "stored" => saves[i].at = "stored",
         clean' => /\ clean
                   /\ saves[i].at = "stored" => /\ out = "stored" /\ saves[i].of[1] # "order"
                                                /\ page = "preset" => reads = <<>>
  PROVE  PInv'
<1>0. PagesType /\ ServerType /\ IsSave(saves[i]) /\ Len(reads) \in Nat
  BY Flow DEF PInv, PagesType, SavesType
<1>1. PICK s : s = saves[i]
  OBVIOUS
<1>2. UNCHANGED <<page, known, rules, order, gone, search>>
  BY DEF Answer, server
<1>3. /\ SavesType' /\ Len(saves') = Len(saves) - 1
      /\ \A j \in 1..Len(saves) : j # i => \E k \in 1..Len(saves') : Content(saves[j], saves'[k])
      /\ \A k \in 1..Len(saves') :
           Before(i, k) \in 1..Len(saves) /\ Before(i, k) # i /\ Content(saves[Before(i, k)], saves'[k])
      /\ \A j, k \in 1..Len(saves') : Before(i, j) = Before(i, k) => j = k
      /\ page = "preset" =>
           \A k \in 1..Len(saves') : PresetSave(saves[Before(i, k)]) => PresetSave(saves'[k])
  <2>1. Remaining(i)
    BY <1>0, AnswerRemains
  <2>2. QED
    BY <1>0, <2>1, Remains DEF Remaining
<1>4. CASE Reaction(s, out).read
  <2>1. Refresh
    BY <1>1, <1>4 DEF Answer
  <2>2. /\ list' = list /\ page # "preset"
        /\ ReadsType' /\ reads' # <<>> /\ reads'[Len(reads')] = Nothing
    BY <1>0, <2>1, Refreshes
  <2>3. PagesType'
    BY <1>0, <1>2, <1>3, <2>2 DEF PagesType, ServerType, PageType
  <2>4. ListFollows' /\ DrawnFollows' /\ PresetSaves' /\ PresetFollows'
    BY <1>2, <2>2 DEF ListFollows, Recent, DrawnFollows, PresetSaves, PresetFollows
  <2>5. TicksAreListed'
    BY <1>1, <1>2, <2>2 DEF PInv, Answer, TicksAreListed, Targets, Has
  <2>6. QED
    BY <1>2, <2>3, <2>4, <2>5 DEF PInv, DeletedStaysDeleted
<1>5. CASE ~Reaction(s, out).read
  <2>1. /\ UNCHANGED reads
        /\ list' = IF page = "preset" /\ out = "stored"
                   THEN [list EXCEPT !.rules = [r \in Rows |-> IF r \in s.rows THEN <<s.value>> ELSE @[r]]]
                   ELSE list
        /\ drawn' = IF s.of[1] = "order" /\ out # "stored" /\ s.live THEN s.value[1] ELSE drawn
        /\ selected' \in {{}, selected}
    BY <1>1, <1>5 DEF Answer
  <2>2. /\ s.of[1] = "order" => out = "stored"
        /\ out = "stored" /\ page # "preset" => s.of[1] = "order"
    BY <1>0, <1>5, Rereads
  <2>3. /\ list'.order = list.order /\ IsSnap(list')
        /\ page = "preset" /\ out = "stored" =>
             \A r \in Rows : list'.rules[r] = IF r \in s.rows THEN <<s.value>> ELSE list.rules[r]
        /\ ~(page = "preset" /\ out = "stored") => list' = list
    <3>1. PICK x, y : list = [rules |-> x, order |-> y] /\ IsRules(x)
      BY <1>0 DEF PagesType, PageType, IsSnap
    <3>2. CASE page = "preset" /\ out = "stored"
      <4>1. list' = [rules |-> [r \in Rows |-> IF r \in s.rows THEN <<s.value>> ELSE x[r]], order |-> y]
        BY <2>1, <3>1, <3>2
      <4>2. QED
        BY <3>1, <3>2, <4>1 DEF IsSnap, IsRules
    <3>3. CASE ~(page = "preset" /\ out = "stored")
      BY <1>0, <2>1, <3>3 DEF PagesType, PageType
    <3>4. QED
      BY <3>2, <3>3
  <2>4. PagesType'
    BY <1>0, <1>2, <1>3, <2>1, <2>3 DEF PagesType, ServerType, PageType, ReadsType
  <2>5. ListFollows'
    <3> SUFFICES ASSUME page # "preset", clean', NoneStored' PROVE Recent'
      BY <1>2 DEF ListFollows
    <3>1. s.at # "stored"
      BY <1>1, <2>2
    <3>2. NoneStored
      <4>1. ASSUME NEW j \in 1..Len(saves), j # i PROVE saves[j].at # "stored"
        <5>1. PICK k \in 1..Len(saves') : Content(saves[j], saves'[k])
          BY <1>3, <4>1
        <5>2. saves'[k].at # "stored"
          BY DEF NoneStored, InStore
        <5>3. QED
          BY <5>1, <5>2 DEF Content
      <4>2. QED
        BY <1>1, <3>1, <4>1 DEF NoneStored, InStore
    <3>3. Recent
      BY <3>2 DEF PInv, ListFollows
    <3>4. QED
      BY <1>2, <2>1, <2>3, <3>3 DEF Recent, Served
  <2>6. DrawnFollows'
    <3> SUFFICES ASSUME clean', reads' = <<>>, NoOrder' PROVE drawn' = list'.order
      BY DEF DrawnFollows
    <3>1. s.of[1] # "order"
      BY <1>1, <2>2
    <3>2. NoOrder
      BY <1>1, <1>3, <3>1 DEF NoOrder, Content
    <3>3. QED
      BY <2>1, <2>3, <3>1, <3>2 DEF PInv, DrawnFollows
  <2>7. PresetSaves' /\ PresetFollows'
    <3> SUFFICES ASSUME page = "preset" PROVE PresetSaves' /\ PresetFollows'
      BY <1>2 DEF PresetSaves, PresetFollows
    <3>1. /\ Len(reads) <= 1
          /\ \A j \in 1..Len(saves) :
               /\ PresetSave(saves[j])
               /\ InStore(j) => \A r \in saves[j].rows : rules[r] = <<saves[j].value>>
          /\ \A j, k \in 1..Len(saves) : saves[j].of = saves[k].of => j = k
      BY DEF PInv, PresetSaves
    <3>2. PresetSaves'
      <4>1. ASSUME NEW k \in 1..Len(saves')
            PROVE  /\ PresetSave(saves'[k])
                   /\ InStore(k)' => \A r \in saves'[k].rows : rules'[r] = <<saves'[k].value>>
        <5>1. PICK b \in 1..Len(saves) : b = Before(i, k) /\ Content(saves[b], saves'[k])
          BY <1>3
        <5>2. PresetSave(saves'[k])
          BY <1>3, <3>1, <5>1
        <5>3. ASSUME InStore(k)', NEW r \in saves'[k].rows PROVE rules'[r] = <<saves'[k].value>>
          <6>1. InStore(b) /\ r \in saves[b].rows /\ saves'[k].value = saves[b].value
            BY <5>1, <5>3 DEF InStore, Content
          <6>2. QED
            BY <1>2, <3>1, <6>1
        <5>4. QED
          BY <5>2, <5>3
      <4>2. ASSUME NEW j \in 1..Len(saves'), NEW k \in 1..Len(saves'), saves'[j].of = saves'[k].of
            PROVE  j = k
        <5>1. PICK b \in 1..Len(saves) : b = Before(i, j) /\ Content(saves[b], saves'[j])
          BY <1>3
        <5>2. PICK e \in 1..Len(saves) : e = Before(i, k) /\ Content(saves[e], saves'[k])
          BY <1>3
        <5>3. b = e
          BY <3>1, <4>2, <5>1, <5>2 DEF Content
        <5>4. QED
          BY <1>3, <5>1, <5>2, <5>3
      <4>3. QED
        BY <2>1, <3>1, <4>1, <4>2 DEF PresetSaves
    <3>3. ASSUME clean', NEW r \in Rows, Settled(r)' PROVE Fresh(r)'
      <4>1. CASE s.at = "stored" /\ r \in s.rows
        <5>1. out = "stored" /\ reads' = <<>> /\ rules[r] = <<s.value>>
          BY <1>1, <2>1, <3>1, <3>3, <4>1 DEF InStore
        <5>2. QED
          BY <1>2, <2>3, <4>1, <5>1 DEF Fresh
      <4>2. CASE ~(s.at = "stored" /\ r \in s.rows)
        <5>1. Settled(r)
          <6> SUFFICES ASSUME NEW j \in 1..Len(saves), saves[j].at = "stored" PROVE r \notin saves[j].rows
            BY DEF Settled, InStore
          <6>1. CASE j = i
            BY <1>1, <4>2, <6>1
          <6>2. CASE j # i
            <7>1. PICK k \in 1..Len(saves') : Content(saves[j], saves'[k])
              BY <1>3, <6>2
            <7>2. saves'[k].at = "stored" /\ saves'[k].rows = saves[j].rows
              BY <7>1 DEF Content
            <7>3. QED
              BY <3>3, <7>2 DEF Settled, InStore
          <6>3. QED
            BY <6>1, <6>2
        <5>2. Fresh(r)
          BY <3>3, <5>1 DEF PInv, PresetFollows
        <5>3. list'.rules[r] = list.rules[r]
          BY <1>1, <2>3, <4>2
        <5>4. QED
          BY <1>2, <2>1, <5>2, <5>3 DEF Fresh
      <4>3. QED
        BY <4>1, <4>2
    <3>4. QED
      BY <3>2, <3>3 DEF PresetFollows
  <2>8. TicksAreListed'
    BY <1>2, <2>1, <2>3 DEF PInv, TicksAreListed, Targets, Has
  <2>9. QED
    BY <1>2, <2>4, <2>5, <2>6, <2>7, <2>8 DEF PInv, DeletedStaysDeleted
<1>6. QED
  BY <1>4, <1>5

-----------------------------------------------------------------------------
(* Every behaviour.                                                         *)

LEMMA PagesStart == PagesInit => PInv
<1> SUFFICES ASSUME PagesInit PROVE PInv
  OBVIOUS
<1>1. /\ page \in AllPages /\ known \subseteq Rows /\ gone = {} /\ search = Rows /\ selected = {}
      /\ reads = <<Nothing>> /\ saves = <<>> /\ list \in {Nothing, Unread}
  BY PagesAssumption DEF PagesInit
<1>2. IsRules(rules)
  BY DEF PagesInit, IsRules
<1>3. Len(reads) = 1 /\ reads[1] = Nothing /\ reads # <<>> /\ Len(saves) = 0
  BY <1>1
<1>4. IsSeq(reads) /\ IsSeq(saves)
  <2>1. PICK x : x = Nothing
    OBVIOUS
  <2>2. <<x>> \in Seq({x}) /\ <<>> \in Seq({x})
    OBVIOUS
  <2>3. QED
    BY <1>1, <2>1, <2>2 DEF IsSeq
<1>5. PagesType
  BY <1>1, <1>2, <1>3, <1>4, Snapshots
  DEF PagesType, ServerType, PageType, ReadsType, SavesType
<1>6. ListFollows /\ DrawnFollows /\ PresetSaves /\ PresetFollows
  BY <1>3 DEF ListFollows, Recent, DrawnFollows, PresetSaves, PresetFollows, Fresh
<1>7. DeletedStaysDeleted /\ TicksAreListed
  BY <1>1 DEF DeletedStaysDeleted, TicksAreListed
<1>8. QED
  BY <1>5, <1>6, <1>7 DEF PInv

LEMMA PagesStep == PInv /\ [PagesNext]_pvars => PInv'
<1> SUFFICES ASSUME PInv, [PagesNext]_pvars PROVE PInv'
  OBVIOUS
<1>0. DOMAIN reads = 1..Len(reads) /\ DOMAIN saves = 1..Len(saves)
  BY Flow DEF PInv
<1>1. CASE UNCHANGED pvars
  <2>1. UNCHANGED <<page, known, clean, rules, order, gone, list, reads, selected, search, drawn, saves>>
    BY <1>1 DEF pvars, server, held, view
  <2>2. PagesType'
    BY <2>1 DEF PInv, PagesType, ServerType, PageType, ReadsType, SavesType
  <2>3. ListFollows' /\ DrawnFollows'
    BY <2>1 DEF PInv, ListFollows, NoneStored, InStore, Recent, Served, DrawnFollows, NoOrder
  <2>4. PresetSaves' /\ PresetFollows'
    BY <2>1 DEF PInv, PresetSaves, PresetFollows, InStore, Settled, Fresh
  <2>5. DeletedStaysDeleted' /\ TicksAreListed'
    BY <2>1 DEF PInv, DeletedStaysDeleted, TicksAreListed, Targets, Has
  <2>6. QED
    BY <2>2, <2>3, <2>4, <2>5 DEF PInv
<1>2. ASSUME NEW i \in 1..Len(saves), Answered(i) PROVE PInv'
  <2>1. /\ Answer(i, saves[i].at)
        /\ clean' = (clean /\ (saves[i].at = "stored" =>
                       saves[i].of[1] # "order" /\ (page = "preset" => reads = <<>>)))
    BY <1>2 DEF Answered
  <2>2. QED
    BY <2>1, AnswerStep
<1>3. ASSUME NEW i \in 1..Len(saves), Lost(i) PROVE PInv'
  <2>1. Answer(i, "lost") /\ clean' = (clean /\ saves[i].at # "stored")
    BY <1>3 DEF Lost
  <2>2. QED
    BY <2>1, AnswerStep
<1>4. CASE PagesNext
  <2>1. CASE \/ \E s \in {Rows, Stored} : Search(s)
             \/ \E r \in Rows : Tick(r)
             \/ TickAll \/ Open \/ Close
    BY <2>1, ScreenStep
  <2>2. CASE PollCurrent \/ Submit \/ Others
    BY <2>2, PollStep, SubmitStep, OthersStep
  <2>3. CASE \E a, b \in 1..Cardinality(Rows) : DropTask(a, b)
    BY <2>3, DropStep
  <2>4. CASE \E i \in DOMAIN reads : ServeRead(i) \/ ReadAnswered(i) \/ ReadFails(i)
    BY <1>0, <2>4, ServeReadStep, ReadAnsweredStep, ReadFailsStep
  <2>5. CASE \E i \in DOMAIN saves : ServeSave(i) \/ Answered(i) \/ Lost(i)
    BY <1>0, <1>2, <1>3, <2>5, ServeSaveStep
  <2>6. QED
    BY <1>4, <2>1, <2>2, <2>3, <2>4, <2>5 DEF PagesNext
<1>5. QED
  BY <1>1, <1>4

LEMMA PagesHold == PagesSpec => []PInv
<1>1. PagesInit => PInv
  BY PagesStart
<1>2. PInv /\ [PagesNext]_pvars => PInv'
  BY PagesStep
<1>3. QED
  BY <1>1, <1>2, PTL DEF PagesSpec

\* When no request is under way and nothing made the list unreliable, each of the
\* eight pages lists what the panel stores and the tasks are drawn in the panel's
\* order, whatever crossed before: a page reads again after every change that was
\* stored, or puts the default it sent into what it holds (load.tsx:504-528,
\* PingTaskContext.tsx:38-65, traffic_report.tsx:352-420).
THEOREM QuietPagesAreCurrent == PagesSpec => []QuietIsCurrent
<1>1. ASSUME PInv, clean, reads = <<>>, saves = <<>>
      PROVE  list.rules = rules /\ (page = "ping" => drawn = order)
  <2>0. PagesType /\ Len(saves) = 0 /\ IsRules(rules) /\ IsRules(list.rules)
    BY <1>1, Flow DEF PInv, PagesType, ServerType, PageType, IsSnap
  <2>1. NoneStored /\ NoOrder /\ \A r \in Rows : Settled(r)
    BY <2>0 DEF NoneStored, NoOrder, Settled
  <2>2. CASE page # "preset"
    BY <1>1, <2>1, <2>2 DEF PInv, ListFollows, Recent, DrawnFollows
  <2>3. CASE page = "preset"
    <3>1. \A r \in Rows : list.rules[r] = rules[r]
      BY <1>1, <2>1, <2>3 DEF PInv, PresetFollows, Fresh
    <3>2. QED
      BY <2>0, <2>3, <3>1 DEF IsRules
  <2>4. QED
    BY <2>2, <2>3
<1>2. PInv => QuietIsCurrent
  BY <1>1 DEF QuietIsCurrent
<1>3. QED
  BY <1>2, PagesHold, PTL

\* A rule that was deleted stays deleted whatever was open or on its way when it
\* went, and no target of packet loss that is gone is ticked when a batch is sent:
\* the panel edits only rules that exist, and a new list takes back the ticks of
\* targets it does not have (load.go:61-104, ping.go:86-112, ping_loss.tsx:256-308).
THEOREM PagesActOnWhatIsThere == PagesSpec => []OnlyWhatIsThere
<1>1. PInv => OnlyWhatIsThere
  BY DEF PInv, OnlyWhatIsThere
<1>2. QED
  BY <1>1, PagesHold, PTL

\* A change of several rows is stored for every row it names or for none, whatever
\* has become of those rows since it was sent (ping_loss.go:113-156,
\* traffic_report.go:93-118, admin.notification.go:153-180).
THEOREM BatchesAreWhole == PagesSpec => AllOrNothing
<1>1. ASSUME PInv, NEW i \in DOMAIN saves, ServeSave(i)
      PROVE  IF saves'[i].at = "refused" THEN rules' = rules
             ELSE saves[i].of[1] = "batch" => \A r \in saves[i].rows : rules'[r] = <<saves[i].value>>
  <2>0. PagesType
    BY <1>1 DEF PInv
  <2>1. i \in 1..Len(saves) /\ ServerType /\ DeletedStaysDeleted
    BY <1>1, <2>0, Flow DEF PInv, PagesType
  <2>2. saves[i].rows \subseteq Rows
    BY <2>0, <2>1 DEF PagesType, SavesType, IsSave
  <2>3. \/ saves'[i].at = "stored" /\ Change(saves[i])
        \/ saves'[i].at = "refused" /\ UNCHANGED <<rules, order, gone>>
    BY <1>1, <2>1, ServedSave
  <2>4. QED
    BY <2>1, <2>2, <2>3, Changes
<1>2. PInv => [\A i \in DOMAIN saves :
                 ServeSave(i) =>
                   IF saves'[i].at = "refused" THEN rules' = rules
                   ELSE saves[i].of[1] = "batch" =>
                          \A r \in saves[i].rows : rules'[r] = <<saves[i].value>>]_pvars
  BY <1>1
<1>3. QED
  BY <1>2, PagesHold, PTL DEF PagesSpec, AllOrNothing

=============================================================================
