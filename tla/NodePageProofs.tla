---------------------------- MODULE NodePageProofs ----------------------------
(***************************************************************************)
(* Proofs about the node page, for any number of nodes, requests, faults   *)
(* and changes made by others:                                             *)
(*                                                                         *)
(*   - what a dialog shows belongs together (DialogsHonest);               *)
(*   - a save of the edit dialog changes only the traffic settings that    *)
(*     were entered (OnlyEnteredIsSaved);                                  *)
(*   - answers that cross never bring an older list back                   *)
(*     (ListNeverGoesBack).                                                *)
(*                                                                         *)
(* The first rests on the one save that is under way: until it is answered *)
(* nothing is said to be copied and the clipboard holds what it carries,   *)
(* and once it was served it is this dialog's last save, which the panel   *)
(* stores until another administrator saves (CommandInv).  The second on   *)
(* the fields in which a form differs from its node (EditInv), the third   *)
(* on the one request that is the newest (TableInv).                       *)
(***************************************************************************)
EXTENDS NodeTable, NodeDialogs, TLAPS

-----------------------------------------------------------------------------
(* THE DIALOGS: what each keeps, and the requests it has in flight.        *)

Profiles == [on : BOOLEAN, text : Texts]
Statuses == {"none", "saved", "sent", "applied", "failed"}
Bodies   == [profile : Profiles, stored : BOOLEAN, status : Statuses]
Plain    == [kind : {"load", "poll"}, body : Bodies \cup {None}]
Saves    == [kind : {"save"}, body : Bodies \cup {None}, profile : Profiles, confirmed : BOOLEAN]

(* The deployment dialog: one save is under way at a time.                 *)
CommandInv ==
  /\ form \in Profiles /\ panel \in Bodies
  /\ mine \in [profile : Profiles \cup {None}, last : BOOLEAN]
  /\ mine.last => panel.profile = mine.profile
  /\ clip \in Profiles \cup {None} /\ notice \in Profiles \cup {None}
  /\ requests \subseteq Plain \cup Saves
  /\ \A r, s \in requests : r.kind = "save" /\ s.kind = "save" => r = s
  /\ \A r \in requests : r.kind = "save" =>
       /\ notice = None
       /\ r.confirmed => clip = r.profile
       /\ r.body # None => mine.profile = r.profile
  /\ CopiedIsSaved

Fields == {"allowance", "day", "hidden"}
Traffic == {"allowance", "day"}
Forms == [Fields -> BOOLEAN]
Edits == [kind : {"save"}, done : BOOLEAN, settings : Forms, fields : SUBSET Fields,
          meant : SUBSET Fields]

(* The edit dialog: where the form differs from the node it was entered.   *)
EditInv ==
  /\ requests \subseteq Edits /\ entered \subseteq Fields
  /\ form \in Forms /\ known \in Forms /\ panel \in Forms
  /\ notice = None
  /\ \A f \in Traffic : form[f] # known[f] => f \in entered
  /\ \A r \in requests : \A f \in Traffic : f \in r.fields => f \in r.meant

Rates == [kind : {"rate"}, of : Currencies, newest : BOOLEAN]

(* The calculator: the newest question is about the form's currency.       *)
ResaleInv ==
  /\ form \in [currency : Currencies, typed : BOOLEAN, rate : Currencies \cup {"none", "typed"}]
  /\ requests \subseteq Rates /\ notice = None
  /\ \A r \in requests : r.newest => r.of = form.currency
  /\ form.rate \in {"none", form.currency, "typed"} /\ (form.typed => form.rate = "typed")

DialogInv ==
  /\ dialog \in {"command", "edit", "calibration", "resale"}
  /\ dialog = "command" => CommandInv
  /\ dialog = "edit" => EditInv
  /\ dialog = "calibration" => notice = None
  /\ dialog = "resale" => ResaleInv

(* A record of settings is a function of its fields.                       *)
LEMMA SettingsAreForms == Settings = Forms
  BY DEF Settings, Forms, Fields

(* Every dialog is closed, and has asked for nothing.                      *)
LEMMA DialogInitInv == DialogInit => DialogInv
<1> SUFFICES ASSUME DialogInit PROVE DialogInv
  OBVIOUS
<1> USE DialogAssumption DEF DialogInit, DialogInv
<1>1. CASE dialog = "command"
  BY <1>1 DEF CommandInv, CopiedIsSaved, Profiles, Bodies, Statuses, Texts, Defaults, None
<1>2. CASE dialog = "edit"
  <2>1. known \in Forms
    BY <1>2, SettingsAreForms DEF Settings
  <2>2. QED
    BY <1>2, <2>1 DEF EditInv, Traffic
<1>3. CASE dialog = "calibration"
  BY <1>3
<1>4. CASE dialog = "resale"
  BY <1>4 DEF ResaleInv
<1>5. QED
  BY <1>1, <1>2, <1>3, <1>4

(* What only takes requests away, or asks to load or poll, keeps it.       *)
LEMMA FewerRequests ==
  ASSUME CommandInv, form' \in Profiles, UNCHANGED <<panel, clip, notice, mine>>,
         requests' \subseteq requests \cup Plain
  PROVE  CommandInv'
<1>1. \A r \in requests' : r.kind = "save" => r \in requests
  BY DEF Plain
<1>2. requests' \subseteq Plain \cup Saves
  BY DEF CommandInv
<1>3. QED
  BY <1>1, <1>2 DEF CommandInv, CopiedIsSaved

(* A profile as the form shows it is a profile.                            *)
LEMMA ProfileShown == \A p \in Profiles : Shown(p) \in Profiles
  BY DEF Profiles, Shown, Texts

(* Whoever saves a profile, the panel holds it.                            *)
LEMMA StoredIsStored ==
  ASSUME panel \in Bodies, NEW profile \in Profiles, NEW s \in Statuses
  PROVE  Stored(profile, s) \in Bodies /\ Stored(profile, s).profile = profile
  BY DEF Stored, Bodies

(* The deployment dialog, the panel and the Agent.                         *)
LEMMA CommandSteps == ASSUME CommandInv, CommandNext PROVE CommandInv'
<1> DEFINE AskNow == [kind |-> "poll", body |-> None]
           AskAll == [kind |-> "load", body |-> None]
<1> USE DEF command, bounds
<1>a. AskNow \in Plain /\ AskAll \in Plain
  BY DEF Plain
<1>b. /\ form \in Profiles /\ panel \in Bodies /\ panel.profile \in Profiles
      /\ \A r \in requests : r.body = None \/ r.body.profile \in Profiles
  BY DEF CommandInv, Bodies, Plain, Saves
<1>1. CASE OpenCommand
  BY <1>1, <1>a, <1>b, FewerRequests DEF OpenCommand
<1>2. CASE CloseCommand
  BY <1>2, <1>b, FewerRequests DEF CloseCommand
<1>3. CASE EditCommand
  <2>1. form' \in Profiles
    BY <1>3, <1>b DEF EditCommand, TickBox, TypeText, Profiles, Texts
  <2>2. QED
    BY <1>3, <2>1, FewerRequests DEF EditCommand
<1>4. CASE FollowResetDay
  BY <1>4, <1>b, ProfileShown, FewerRequests DEF FollowResetDay
<1>5. CASE Tick
  <2>1. requests' \subseteq requests \cup {AskNow}
    BY <1>5 DEF Tick
  <2>2. QED
    BY <1>5, <2>1, <1>a, <1>b, FewerRequests DEF Tick
<1>6. ASSUME NEW s \in {"sent", "applied", "failed"}, Deliver(s) PROVE CommandInv'
  <2>1. panel' \in Bodies /\ panel'.profile = panel.profile
    BY <1>6, <1>b DEF Deliver, Bodies, Statuses
  <2>2. QED
    BY <1>6, <2>1 DEF Deliver, CommandInv, CopiedIsSaved
<1>7. ASSUME NEW copy \in BOOLEAN, NEW written \in BOOLEAN, NEW confirmed \in BOOLEAN,
             SaveProfile(copy, written, confirmed)
      PROVE  CommandInv'
  <2> DEFINE new == [kind |-> "save", body |-> None, profile |-> form, confirmed |-> confirmed]
  <2>1. new \in Saves /\ new.body = None /\ new.profile = form /\ new.confirmed = confirmed
    BY <1>b DEF Saves
  <2>2. requests' = requests \cup {new} /\ clip' = (IF written THEN form ELSE clip) /\ notice' = None
        /\ UNCHANGED <<form, panel, mine>> /\ (confirmed => written)
    BY <1>7 DEF SaveProfile
  <2>3. \A r \in requests : r.kind # "save"
    BY <1>7 DEF SaveProfile, Saving
  <2> HIDE DEF new
  <2>4. \A r \in requests' : r.kind = "save" => r = new
    BY <2>2, <2>3
  <2>5. confirmed => clip' = form
    BY <2>2
  <2>6. clip' \in Profiles \cup {None} /\ requests' \subseteq Plain \cup Saves
    BY <2>1, <2>2, <1>b DEF CommandInv
  <2>7. QED
    BY <2>1, <2>2, <2>4, <2>5, <2>6, <1>b DEF CommandInv, CopiedIsSaved
<1>8. ASSUME NEW r \in requests, ServeCommand(r) PROVE CommandInv'
  <2> DEFINE new == [r EXCEPT !.body = panel']
  <2>1. r \in Plain \cup Saves
    BY DEF CommandInv
  <2>2. CASE r.kind # "save"
    <3>1. r \in Plain /\ panel' = panel
      BY <1>8, <2>1, <2>2 DEF ServeCommand, Saves
    <3>2. new \in Plain
      BY <3>1, <1>b DEF Plain
    <3>3. QED
      BY <1>8, <2>2, <3>1, <3>2, <1>b, FewerRequests DEF ServeCommand
  <2>3. CASE r.kind = "save"
    <3>1. r \in Saves /\ r.profile \in Profiles
      BY <2>1, <2>3 DEF Plain, Saves
    <3>2. panel' \in Bodies /\ panel'.profile = r.profile
      BY <1>8, <2>3, <3>1, <1>b, StoredIsStored DEF ServeCommand, Statuses
    <3>3. new \in Saves /\ new.profile = r.profile /\ new.confirmed = r.confirmed /\ new.kind = "save"
      BY <3>1, <3>2 DEF Saves
    <3>4. requests' = (requests \ {r}) \cup {new} /\ UNCHANGED <<form, clip, notice>>
          /\ mine' = [profile |-> r.profile, last |-> TRUE]
      BY <1>8, <2>3 DEF ServeCommand
    <3> HIDE DEF new
    <3>5. \A q \in requests' : q.kind = "save" => q = new
      BY <3>4, <2>3 DEF CommandInv
    <3>6. notice = None /\ (r.confirmed => clip = r.profile)
      BY <2>3 DEF CommandInv
    <3>7. QED
      BY <3>1, <3>2, <3>3, <3>4, <3>5, <3>6 DEF CommandInv, CopiedIsSaved
  <2>4. QED
    BY <2>2, <2>3
<1>9. ASSUME NEW r \in requests, LoadedCommand(r) PROVE CommandInv'
  <2>1. requests' \subseteq requests /\ form' \in Profiles
    BY <1>9, <1>b, ProfileShown DEF LoadedCommand, ShowDelivery
  <2>2. QED
    BY <1>9, <2>1, FewerRequests DEF LoadedCommand
<1>10. ASSUME NEW r \in requests, LoadFails(r) \/ PollFails(r) \/ SaveFails(r) PROVE CommandInv'
  BY <1>10, <1>b, FewerRequests DEF LoadFails, PollFails, SaveFails
<1>11. ASSUME NEW r \in requests, Polled(r) PROVE CommandInv'
  <2>1. requests' \subseteq requests
    BY <1>11 DEF Polled, ShowDelivery
  <2>2. QED
    BY <1>11, <1>b, <2>1, FewerRequests DEF Polled
<1>12. ASSUME NEW r \in requests, SavedProfile(r) PROVE CommandInv'
  <2>1. requests' \subseteq requests \ {r} /\ r.kind = "save" /\ r.body # None
        /\ notice' = (IF r.confirmed THEN r.profile ELSE None) /\ UNCHANGED <<form, panel, clip, mine>>
    BY <1>12 DEF SavedProfile, ShowDelivery
  <2>2. \A q \in requests' : q.kind # "save"
    BY <2>1 DEF CommandInv
  <2>3. r \in Saves
    BY <2>1 DEF CommandInv, Plain
  <2>4. r.profile \in Profiles /\ mine.profile = r.profile /\ (r.confirmed => clip = r.profile)
    BY <2>1, <2>3 DEF CommandInv, Saves
  <2>5. QED
    BY <2>1, <2>2, <2>4 DEF CommandInv, CopiedIsSaved
<1>13. ASSUME NEW profile \in Savable, SomebodySaves(profile) PROVE CommandInv'
  <2>1. profile \in Profiles
    BY DEF Savable, Profiles
  <2>2. panel' \in Bodies
    BY <1>13, <2>1, <1>b, StoredIsStored DEF SomebodySaves, Statuses
  <2>3. mine' = [mine EXCEPT !.last = FALSE] /\ UNCHANGED <<form, clip, notice, requests>>
    BY <1>13 DEF SomebodySaves
  <2>4. mine' \in [profile : Profiles \cup {None}, last : BOOLEAN]
        /\ mine'.profile = mine.profile /\ ~mine'.last
    BY <2>3 DEF CommandInv
  <2>5. QED
    BY <2>2, <2>3, <2>4 DEF CommandInv, CopiedIsSaved
<1>14. QED
  BY <1>1, <1>2, <1>3, <1>4, <1>5, <1>6, <1>7, <1>8, <1>9, <1>10, <1>11, <1>12, <1>13 DEF CommandNext

(* The edit dialog, and whoever else edits the node.                       *)
LEMMA EditSteps ==
  ASSUME EditInv, EditNext
  PROVE  EditInv'
<1> USE DEF EditInv, command, bounds, Forms, Fields, Traffic, Edits
<1>1. CASE FollowNode
  BY <1>1 DEF FollowNode
<1>2. CASE OpenEdit
  BY <1>2 DEF OpenEdit
<1>3. CASE EnterSetting
  BY <1>3 DEF EnterSetting
<1>4. CASE SaveNode
  BY <1>4 DEF SaveNode, Sent
<1>5. ASSUME NEW r \in requests, ServeNode(r) PROVE EditInv'
  BY <1>5 DEF ServeNode
<1>6. ASSUME NEW r \in requests, SavedNode(r) PROVE EditInv'
  BY <1>6 DEF SavedNode
<1>7. ASSUME NEW r \in requests, SaveFails(r) PROVE EditInv'
  BY <1>7 DEF SaveFails
<1>8. ASSUME NEW s \in Settings, SomebodyEdits(s) PROVE EditInv'
  BY <1>8 DEF SomebodyEdits, Settings
<1>9. QED
  BY <1>1, <1>2, <1>3, <1>4, <1>5, <1>6, <1>7, <1>8 DEF EditNext

(* Questions that are no longer the newest.                                *)
LEMMA OldAsked ==
  ASSUME ResaleInv, NEW old, old = {[r EXCEPT !.newest = FALSE] : r \in requests}
  PROVE  old \subseteq Rates /\ \A r \in old : ~r.newest
  BY DEF ResaleInv, Rates

(* A new question makes all others old.                                    *)
LEMMA RateLoads ==
  ASSUME ResaleInv, NEW c \in Currencies, NEW rate, NEW forced \in BOOLEAN, rate \in {"none", c, "typed"},
         LoadRate(c, rate, FALSE, forced), notice' = notice
  PROVE  ResaleInv'
<1> DEFINE old == {[r EXCEPT !.newest = FALSE] : r \in requests}
           new == [kind |-> "rate", of |-> c, newest |-> TRUE]
<1>1. old \subseteq Rates /\ \A r \in old : ~r.newest
  BY OldAsked
<1>2. new \in Rates /\ new.of = c
  BY DEF Rates
<1>3. requests' \subseteq old \cup {new}
  BY DEF LoadRate
<1>4. /\ form' \in [currency : Currencies, typed : BOOLEAN, rate : Currencies \cup {"none", "typed"}]
      /\ form'.currency = c /\ form'.rate \in {"none", c, "typed"} /\ form'.typed = FALSE
  BY DEF LoadRate
<1> HIDE DEF old, new
<1>5. QED
  BY <1>1, <1>2, <1>3, <1>4 DEF ResaleInv

(* The calculator, its provider and the rates it keeps.                    *)
LEMMA ResaleSteps ==
  ASSUME ResaleInv, ResaleNext
  PROVE  ResaleInv'
<1> USE DEF ResaleInv, command, bounds, Rates
<1>1. CASE CloseCalculator
  BY <1>1 DEF CloseCalculator
<1>2. CASE RefreshRate
  BY <1>2, RateLoads DEF RefreshRate
<1>3. CASE TypeRate
  BY <1>3 DEF TypeRate
<1>4. ASSUME NEW c \in Currencies, ShowCalculator(c) PROVE ResaleInv'
  BY <1>4, RateLoads DEF ShowCalculator
<1>5. ASSUME NEW c \in Currencies, RateExpires(c) PROVE ResaleInv'
  BY <1>5 DEF RateExpires
<1>6. ASSUME NEW r \in requests, NEW ok \in BOOLEAN, RateAnswers(r, ok) PROVE ResaleInv'
  BY <1>6 DEF RateAnswers, Current
<1>7. QED
  BY <1>1, <1>2, <1>3, <1>4, <1>5, <1>6 DEF ResaleNext

(* The calibration dialog says nothing of a clipboard.                     *)
LEMMA CalibrationSteps ==
  ASSUME notice = None, CalibrationNext PROVE notice' = None
  BY DEF CalibrationNext, PrepareCalibration, CloseCalibration, SaveCalibration, ServeCalibration, ShowCalibration,
         LoadFails, SaveFails, command

(* Every step is one of the dialog that is followed.                       *)
LEMMA DialogNextInv == DialogInv /\ [DialogNext]_dvars => DialogInv'
<1> SUFFICES ASSUME DialogInv, [DialogNext]_dvars PROVE DialogInv'
  OBVIOUS
<1>1. CASE UNCHANGED dvars
  BY <1>1 DEF dvars, bounds, DialogInv, CommandInv, EditInv, ResaleInv, CopiedIsSaved
<1>2. CASE dialog = "command" /\ CommandNext
  <2>1. dialog' = "command"
    BY <1>2 DEF CommandNext, OpenCommand, CloseCommand, EditCommand, FollowResetDay, Tick, Deliver, SaveProfile,
       SomebodySaves, ServeCommand, LoadedCommand, LoadFails, Polled, PollFails, SavedProfile, SaveFails
  <2>2. QED
    BY <1>2, <2>1, CommandSteps DEF DialogInv
<1>3. CASE dialog = "edit" /\ EditNext
  <2>1. dialog' = "edit"
    BY <1>3 DEF EditNext, FollowNode, OpenEdit, EnterSetting, SaveNode, ServeNode, SavedNode, SaveFails, SomebodyEdits
  <2>2. QED
    BY <1>3, <2>1, EditSteps DEF DialogInv
<1>4. CASE dialog = "calibration" /\ CalibrationNext
  <2>1. dialog' = "calibration"
    BY <1>4 DEF CalibrationNext, PrepareCalibration, CloseCalibration, SaveCalibration, ServeCalibration,
       ShowCalibration, LoadFails, SaveFails
  <2>2. QED
    BY <1>4, <2>1, CalibrationSteps DEF DialogInv
<1>5. CASE dialog = "resale" /\ ResaleNext
  <2>1. dialog' = "resale"
    BY <1>5 DEF ResaleNext, CloseCalculator, RefreshRate, TypeRate, ShowCalculator, RateExpires, RateAnswers
  <2>2. QED
    BY <1>5, <2>1, ResaleSteps DEF DialogInv
<1>6. QED
  BY <1>1, <1>2, <1>3, <1>4, <1>5 DEF DialogNext

(* The invariant holds in every reachable state.                           *)
LEMMA DialogInductive == DialogSpec => []DialogInv
  BY DialogInitInv, DialogNextInv, PTL DEF DialogSpec

(* index.tsx:1604, RemainingValueCalculator.tsx:66: what was said to be     *)
(* copied is in the clipboard and was stored by the save that said so, and *)
(* is what the panel stores unless another administrator saved after it;   *)
(* the calculator never uses the rate of another currency or forgets one   *)
(* that was typed.                                                         *)
THEOREM DialogsAreHonest == DialogSpec => []DialogsHonest
<1>1. DialogInv => DialogsHonest
  <2> SUFFICES ASSUME DialogInv PROVE DialogsHonest
    OBVIOUS
  <2> QED
    BY DEF DialogInv, CommandInv, EditInv, ResaleInv, DialogsHonest, CopiedIsSaved, RateIsOfCurrency
<1>2. QED
  BY <1>1, DialogInductive, PTL

(* index.tsx:2222 and 2263: what others changed in a traffic setting that  *)
(* was not entered is not taken back by a save.                            *)
THEOREM EnteredIsSaved == DialogSpec => OnlyEnteredIsSaved
<1>1. ASSUME DialogInv, NEW r \in requests, dialog = "edit", ServeNode(r), NEW f \in {"allowance", "day"},
             panel'[f] # panel[f]
      PROVE  f \in r.meant
  <2>1. panel \in Forms /\ f \in Fields /\ f \in Traffic
    BY <1>1 DEF DialogInv, EditInv, Fields, Traffic
  <2>2. f \in r.fields
    BY <1>1, <2>1 DEF ServeNode, Forms
  <2>3. QED
    BY <1>1, <2>1, <2>2 DEF DialogInv, EditInv
<1>2. DialogInv => [\A r \in requests : dialog = "edit" /\ ServeNode(r) =>
                      \A f \in {"allowance", "day"} : panel'[f] # panel[f] => f \in r.meant]_dvars
  BY <1>1
<1>3. QED
  BY <1>2, DialogInductive, PTL DEF OnlyEnteredIsSaved

-----------------------------------------------------------------------------
(* THE TABLE: its list requests.                                           *)

Request(r) == DOMAIN r = {"newest", "list", "at", "read"}

(* One request is the newest, and what it read is no older than the list.  *)
TableInv ==
  /\ edits \in Nat /\ detail.at \in 0..edits
  /\ \A r \in reads : Request(r) /\ r.newest \in BOOLEAN /\ r.read \in BOOLEAN /\ r.at \in 0..edits
  /\ \A r \in reads : r.newest /\ r.read => r.at >= detail.at
  /\ \A r, s \in reads : r.newest /\ s.newest => r = s

(* No list was asked for.                                                  *)
LEMMA TableInitInv == TableInit => TableInv
  BY DEF TableInit, TableInv

(* A new request makes all others old.                                     *)
LEMMA LoadKeeps ==
  ASSUME TableInv, Load, UNCHANGED <<detail, edits>>
  PROVE  TableInv'
<1> DEFINE old == {[r EXCEPT !.newest = FALSE] : r \in reads}
           new == [newest |-> TRUE, list |-> <<>>, at |-> 0, read |-> FALSE]
<1>1. \A r \in old : Request(r) /\ r.newest = FALSE /\ r.read \in BOOLEAN /\ r.at \in 0..edits
  BY DEF TableInv, Request
<1>2. Request(new) /\ new.newest = TRUE /\ new.read = FALSE /\ new.at \in 0..edits
  BY DEF TableInv, Request
<1>3. reads' = old \cup {new}
  BY DEF Load
<1> HIDE DEF old, new
<1>4. QED
  BY <1>1, <1>2, <1>3 DEF TableInv

(* Only the newest answer changes the list.                                *)
LEMMA TableNextInv == TableInv /\ [TableNext]_tvars => TableInv' /\ detail'.at >= detail.at
<1> SUFFICES ASSUME TableInv, [TableNext]_tvars PROVE TableInv' /\ detail'.at >= detail.at
  OBVIOUS
<1> USE DEF server, view
<1>a. detail.at >= detail.at
  BY DEF TableInv
<1>b. ASSUME UNCHANGED <<detail, reads, edits>> PROVE TableInv' /\ detail'.at >= detail.at
  BY <1>a, <1>b DEF TableInv
<1>c. ASSUME UNCHANGED <<detail, reads>>, edits' = edits + 1 PROVE TableInv' /\ detail'.at >= detail.at
  BY <1>a, <1>c DEF TableInv
<1>1. CASE Refresh
  BY <1>1, <1>a, LoadKeeps DEF Refresh
<1>2. CASE Answer
  BY <1>2, <1>a, LoadKeeps DEF Answer
<1>3. ASSUME NEW r \in reads, List(r) PROVE TableInv' /\ detail'.at >= detail.at
  <2> DEFINE new == [r EXCEPT !.read = TRUE, !.list = Listed, !.at = edits]
  <2>1. Request(new) /\ new.newest = r.newest /\ new.read = TRUE /\ new.at = edits
    <3>1. Request(r)
      BY DEF TableInv
    <3>2. QED
      BY <3>1 DEF Request
  <2>2. reads' = (reads \ {r}) \cup {new} /\ UNCHANGED <<detail, edits>>
    BY <1>3 DEF List
  <2> HIDE DEF new
  <2>3. edits \in Nat /\ detail.at \in 0..edits /\ edits \in 0..edits /\ edits >= detail.at
    BY DEF TableInv
  <2>4. \A q \in reads' : Request(q) /\ q.newest \in BOOLEAN /\ q.read \in BOOLEAN /\ q.at \in 0..edits
    BY <2>1, <2>2, <2>3 DEF TableInv
  <2>5. \A q \in reads' : q.newest /\ q.read => q.at >= detail.at
    BY <2>1, <2>2, <2>3 DEF TableInv
  <2>6. \A p, q \in reads' : p.newest /\ q.newest => p = q
    BY <2>1, <2>2 DEF TableInv
  <2>7. QED
    BY <1>a, <2>2, <2>3, <2>4, <2>5, <2>6 DEF TableInv
<1>4. ASSUME NEW r \in reads, Loaded(r) PROVE TableInv' /\ detail'.at >= detail.at
  <2>1. CASE r.newest
    BY <1>4, <2>1 DEF Loaded, Ignored, TableInv
  <2>2. CASE ~r.newest
    BY <1>4, <1>a, <2>2 DEF Loaded, Ignored, TableInv
  <2>3. QED
    BY <2>1, <2>2
<1>5. ASSUME NEW r \in reads, ListFails(r) PROVE TableInv' /\ detail'.at >= detail.at
  BY <1>5, <1>a DEF ListFails, TableInv
<1>6. ASSUME NEW set \in OnlineSets, Live(set) PROVE TableInv' /\ detail'.at >= detail.at
  BY <1>6, <1>b DEF Live
<1>7. ASSUME NEW f \in {"all", "online"}, SetFilter(f) PROVE TableInv' /\ detail'.at >= detail.at
  BY <1>7, <1>b DEF SetFilter
<1>8. ASSUME NEW p \in 1..Cardinality(Nodes), Turn(p) PROVE TableInv' /\ detail'.at >= detail.at
  BY <1>8, <1>b DEF Turn
<1>9. ASSUME NEW s \in PageSizes, Resize(s) PROVE TableInv' /\ detail'.at >= detail.at
  BY <1>9, <1>b DEF Resize
<1>10. ASSUME NEW node \in Nodes, NEW over \in Nodes \cup {Previous, Following}, DragEnd(node, over)
       PROVE  TableInv' /\ detail'.at >= detail.at
  BY <1>10, <1>b DEF DragEnd
<1>11. ASSUME NEW order \in orders, StoreOrder(order) \/ RefuseOrder(order)
       PROVE  TableInv' /\ detail'.at >= detail.at
  BY <1>11, <1>b, <1>c DEF StoreOrder, RefuseOrder
<1>12. ASSUME NEW what \in {"add", "remove"}, Ask(what) PROVE TableInv' /\ detail'.at >= detail.at
  BY <1>12, <1>b DEF Ask
<1>13. ASSUME NEW n \in Nodes, Add(n) \/ Delete(n) PROVE TableInv' /\ detail'.at >= detail.at
  BY <1>13, <1>c DEF Add, Delete
<1>14. CASE Refuse
  BY <1>14, <1>b DEF Refuse
<1>15. CASE UNCHANGED tvars
  BY <1>15, <1>b DEF tvars
<1>16. QED
  BY <1>1, <1>2, <1>3, <1>4, <1>5, <1>6, <1>7, <1>8, <1>9, <1>10, <1>11, <1>12, <1>13, <1>14, <1>15 DEF TableNext

(* NodeDetailsContext.tsx:127: answers that cross never bring an older     *)
(* list back.                                                              *)
THEOREM ListStaysCurrent == TableSpec => ListNeverGoesBack
<1>1. TableInv /\ [TableNext]_tvars => [detail'.at >= detail.at]_tvars
  BY TableNextInv
<1>2. QED
  BY <1>1, TableInitInv, TableNextInv, PTL DEF TableSpec, ListNeverGoesBack

=============================================================================
