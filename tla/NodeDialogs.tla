---------------------------- MODULE NodeDialogs ----------------------------
(***************************************************************************)
(* The dialogs of a row of the node table (pages/admin/index.tsx) and what *)
(* they keep while requests are in flight:                                 *)
(*                                                                         *)
(*   - the deployment dialog: the collection profile it loads, edits,      *)
(*     saves and turns into an install command, and the delivery status it *)
(*     polls every two seconds while an Agent's answer is expected;        *)
(*   - the edit dialog, whose form follows the node and which sends only   *)
(*     the traffic settings that differ from it;                           *)
(*   - the traffic calibration dialog;                                     *)
(*   - the resale calculator of the billing dialog, with the exchange      *)
(*     rates it fetches and keeps in localStorage.                         *)
(*                                                                         *)
(* The dialogs are modal and share nothing, so a behaviour follows one of  *)
(* them, given by `dialog'.  The panel is here with what the dialog        *)
(* changes, and with the other administrators who change it too.           *)
(***************************************************************************)
EXTENDS Naturals, FiniteSets, SequencesExt

CONSTANTS
  Dialogs,     \* the dialogs to follow
  Amounts,     \* calibrated totals
  Currencies,  \* the currencies of a billing form; one of them is CNY
  MaxTicks,    \* polls of a delivery before the timer is cleared: 30
  MaxOps, MaxChanges, MaxFaults  \* bounds

ASSUME DialogAssumption ==
  /\ Dialogs \subseteq {"command", "edit", "calibration", "resale"}
  /\ Amounts \subseteq Nat /\ 0 \in Amounts /\ "CNY" \in Currencies
  /\ MaxTicks \in Nat /\ MaxOps \in Nat
  /\ MaxChanges \in Nat /\ MaxFaults \in Nat

VARIABLES
  dialog,    \* the dialog this behaviour follows
  open,      \* whether it is open
  loading,   \* whether it waits for what it shows
  form,      \* what the administrator can edit
  known,     \* what the dialog last learnt from the panel
  panel,     \* the state of the panel, or the rates kept in localStorage
  requests,  \* requests in flight; a cancelled one is not in the set
  timer,     \* polls since the delivery timer was set, or Off
  clip,      \* the profile of the command in the clipboard
  notice,    \* the profile that was said to be copied
  entered,   \* history: the fields typed since the form followed the node,
             \* or the saved profile whose reset day the form last followed
  mine,      \* history: the profile this dialog's last save stored, and
             \* whether it is the last that anybody stored
  ops, changes, dfaults

bounds == <<ops, changes, dfaults>>
command == <<timer, clip, notice, mine>>
dvars == <<dialog, open, loading, form, known, panel, requests, timer, clip, notice,
           entered, mine, bounds>>

Off == MaxTicks + 1
None == <<>>

Saving == \E r \in requests : r.kind = "save"

Fault == dfaults < MaxFaults /\ dfaults' = dfaults + 1 /\ UNCHANGED <<ops, changes>>

-----------------------------------------------------------------------------
(* THE DEPLOYMENT DIALOG.  A profile: an option with a number (interval,   *)
(* reset day).  "" is no number in its range; a profile that asks for AI   *)
(* monitoring on Windows is refused like it.                               *)

Texts == {"", "good"}
Defaults == [on |-> FALSE, text |-> ""]

(* A disabled option shows no number.                                      *)
Shown(profile) == IF profile.on THEN profile ELSE [profile EXCEPT !.text = ""]

(* selectedInterval, selectedTrafficResetDay.                              *)
Acceptable(profile) == profile.on => profile.text = "good"

(* The profiles a dialog can send.                                         *)
Savable == {profile \in [on : BOOLEAN, text : Texts] : profile = Shown(profile) /\ Acceptable(profile)}

Pending(status) == status \in {"saved", "sent"}

Armed(status) == IF Pending(status) THEN 0 ELSE Off

(* The timer's effect runs again when the status it shows changes, and     *)
(* cancels its requests.                                                   *)
ShowDelivery(status, others) ==
  /\ known' = status
  /\ IF status = known THEN timer' = timer /\ requests' = others
     ELSE /\ timer' = IF open THEN Armed(status) ELSE Off
          /\ requests' = {r \in others : r.kind # "poll"}

TickForever ==
  /\ dialog = "command" /\ timer # Off
  /\ requests' = requests \cup {[kind |-> "poll", body |-> None]}
  /\ UNCHANGED <<dialog, open, loading, form, known, panel, command, entered, bounds>>

OpenCommand ==
  /\ dialog = "command" /\ ~open /\ ops < MaxOps
  /\ open' = TRUE /\ loading' = TRUE /\ ops' = ops + 1
  /\ timer' = Armed(known)
  /\ requests' = requests \cup {[kind |-> "load", body |-> None]}
  /\ UNCHANGED <<dialog, form, known, panel, clip, notice, entered, mine, changes, dfaults>>

CloseCommand ==
  /\ dialog = "command" /\ open
  /\ open' = FALSE /\ timer' = Off
  /\ requests' = {r \in requests : r.kind = "save"}
  /\ UNCHANGED <<dialog, loading, form, known, panel, clip, notice, entered, mine, bounds>>

(* The same profile again is a new revision only after a failure; the      *)
(* profile and its status are written in one transaction.                  *)
Stored(profile, status) ==
  [profile |-> profile, stored |-> TRUE,
   status |-> IF ~panel.stored \/ panel.profile # profile \/ panel.status = "failed"
              THEN status ELSE panel.status]

(* The panel serves a request at some time before its answer.              *)
ServeCommand(r) ==
  /\ dialog = "command" /\ r \in requests /\ r.body = None
  /\ \/ r.kind # "save" /\ UNCHANGED <<panel, mine>>
     \/ /\ r.kind = "save"
        /\ \E s \in {"saved", "sent"} : panel' = Stored(r.profile, s)
        /\ mine' = [profile |-> r.profile, last |-> TRUE]
  /\ requests' = (requests \ {r}) \cup {[r EXCEPT !.body = panel']}
  /\ UNCHANGED <<dialog, open, loading, form, known, timer, clip, notice, entered, bounds>>

(* The dialog of another administrator saves a profile of the same node.   *)
SomebodySaves(profile) ==
  /\ dialog = "command" /\ changes < MaxChanges
  /\ panel' = Stored(profile, "saved")
  /\ mine' = [mine EXCEPT !.last = FALSE] /\ changes' = changes + 1
  /\ UNCHANGED <<dialog, open, loading, form, known, requests, timer, clip, notice, entered, ops,
                 dfaults>>

LoadedCommand(r) ==
  /\ dialog = "command" /\ r \in requests /\ r.kind = "load" /\ r.body # None
  /\ form' = Shown(r.body.profile)
  /\ ShowDelivery(IF r.body.stored THEN r.body.status ELSE "none", requests \ {r})
  /\ loading' = FALSE
  /\ UNCHANGED <<dialog, open, panel, clip, notice, entered, mine, bounds>>

LoadFails(r) ==
  /\ dialog \in {"command", "calibration"} /\ r \in requests /\ r.kind = "load"
  /\ requests' = requests \ {r} /\ loading' = FALSE /\ Fault
  /\ open' = TRUE
  /\ UNCHANGED <<dialog, form, known, panel, command, entered>>

Tick ==
  /\ dialog = "command" /\ timer # Off
  /\ IF timer = MaxTicks THEN timer' = Off /\ UNCHANGED requests
     ELSE /\ timer' = timer + 1
          /\ requests' = requests \cup {[kind |-> "poll", body |-> None]}
  /\ UNCHANGED <<dialog, open, loading, form, known, panel, clip, notice, entered, mine, bounds>>

Polled(r) ==
  /\ dialog = "command" /\ r \in requests /\ r.kind = "poll" /\ r.body # None
  /\ ShowDelivery(r.body.status, requests \ {r})
  /\ UNCHANGED <<dialog, open, loading, form, panel, clip, notice, entered, mine, bounds>>

PollFails(r) ==
  /\ dialog = "command" /\ r \in requests /\ r.kind = "poll" /\ Fault
  /\ requests' = requests \ {r}
  /\ UNCHANGED <<dialog, open, loading, form, known, panel, command, entered>>

TickBox ==
  form' = [form EXCEPT !.on = ~form.on, !.text = IF form.on THEN "" ELSE "good"]

TypeText == form.on /\ \E s \in Texts : form' = [form EXCEPT !.text = s]

(* A refresh of the node list brings the reset day of a saved profile.     *)
FollowResetDay ==
  /\ dialog = "command" /\ panel.profile # entered
  /\ form' = Shown(panel.profile) /\ entered' = panel.profile
  /\ UNCHANGED <<dialog, open, loading, known, panel, requests, command, bounds>>

EditCommand ==
  /\ dialog = "command" /\ open /\ ~loading
  /\ TickBox \/ TypeText
  /\ UNCHANGED <<dialog, open, loading, known, panel, requests, command, entered, bounds>>

(* The command goes to the clipboard in the click, before the request that *)
(* saves the same profile; the browser may not let it be read back.        *)
SaveProfile(copy, written, confirmed) ==
  /\ dialog = "command" /\ open /\ ~loading /\ ~Saving /\ ops < MaxOps
  /\ Acceptable(form)
  /\ confirmed => written
  /\ written => copy
  /\ notice' = None /\ ops' = ops + 1
  /\ clip' = IF written THEN form ELSE clip
  /\ requests' = requests \cup
       {[kind |-> "save", body |-> None, profile |-> form, confirmed |-> confirmed]}
  /\ UNCHANGED <<dialog, open, loading, form, known, panel, timer, entered, mine, changes,
                 dfaults>>

SavedUnconfirmed(r) ==
  /\ dialog = "command" /\ r \in requests /\ r.kind = "save" /\ r.body # None
  /\ ShowDelivery(r.body.status, requests \ {r})
  /\ notice' = r.profile
  /\ UNCHANGED <<dialog, open, loading, form, panel, clip, entered, mine, bounds>>

SavedProfile(r) ==
  /\ dialog = "command" /\ r \in requests /\ r.kind = "save" /\ r.body # None
  /\ ShowDelivery(r.body.status, requests \ {r})
  /\ notice' = IF r.confirmed THEN r.profile ELSE None
  /\ UNCHANGED <<dialog, open, loading, form, panel, clip, entered, mine, bounds>>

(* Any request to save may be refused, or its answer lost.                 *)
SaveFails(r) ==
  /\ r \in requests /\ r.kind = "save" /\ Fault
  /\ requests' = requests \ {r}
  /\ UNCHANGED <<dialog, open, loading, form, known, panel, command, entered>>

(* The Agent: a revision is sent, then applied or refused.                 *)
Deliver(s) ==
  /\ dialog = "command" /\ Pending(panel.status)
  /\ (s = "sent") <=> (panel.status = "saved")
  /\ panel' = [panel EXCEPT !.status = s]
  /\ UNCHANGED <<dialog, open, loading, form, known, requests, command, entered, bounds>>

CommandNext ==
  \/ OpenCommand \/ CloseCommand \/ EditCommand \/ FollowResetDay \/ Tick
  \/ \E profile \in Savable : SomebodySaves(profile)
  \/ \E s \in {"sent", "applied", "failed"} : Deliver(s)
  \/ \E copy, written, confirmed \in BOOLEAN : SaveProfile(copy, written, confirmed)
  \/ \E r \in requests :
       \/ ServeCommand(r) \/ LoadedCommand(r) \/ LoadFails(r)
       \/ Polled(r) \/ PollFails(r) \/ SavedProfile(r) \/ SaveFails(r)

-----------------------------------------------------------------------------
(* THE EDIT DIALOG.  Whether there is a traffic allowance, and a reset day *)
(* that an allowance needs; and one field that is always sent.             *)

Settings == [allowance : BOOLEAN, day : BOOLEAN, hidden : BOOLEAN]

(* The node list was refreshed: a form whose node differs starts again.    *)
FollowNode ==
  /\ dialog = "edit" /\ known # panel
  /\ known' = panel /\ form' = panel /\ entered' = {}
  /\ UNCHANGED <<dialog, open, loading, panel, requests, command, bounds>>

OpenEdit ==
  /\ dialog = "edit" /\ ops < MaxOps
  /\ open' = ~open /\ ops' = ops + 1
  /\ UNCHANGED <<dialog, loading, form, known, panel, requests, command, entered, changes,
                 dfaults>>

EnterSetting ==
  /\ dialog = "edit" /\ open
  /\ \E f \in DOMAIN form, v \in BOOLEAN :
       /\ form' = [form EXCEPT ![f] = v] /\ entered' = entered \cup {f}
  /\ UNCHANGED <<dialog, open, loading, known, panel, requests, command, bounds>>

SentWhole == DOMAIN form

Sent == {f \in {"allowance", "day"} : form[f] # known[f]} \cup {"hidden"}

SaveNode ==
  /\ dialog = "edit" /\ open /\ ~Saving /\ ops < MaxOps
  /\ form.allowance => form.day
  /\ requests' = {[kind |-> "save", done |-> FALSE, settings |-> form, fields |-> Sent,
                   meant |-> entered]}
  /\ ops' = ops + 1
  /\ UNCHANGED <<dialog, open, loading, form, known, panel, command, entered, changes, dfaults>>

ServeNode(r) ==
  /\ dialog = "edit" /\ r \in requests /\ ~r.done
  /\ panel' = [f \in DOMAIN panel |-> IF f \in r.fields THEN r.settings[f] ELSE panel[f]]
  /\ requests' = {[r EXCEPT !.done = TRUE]}
  /\ UNCHANGED <<dialog, open, loading, form, known, command, entered, bounds>>

SavedNode(r) ==
  /\ dialog = "edit" /\ r \in requests /\ r.done
  /\ requests' = {} /\ open' = FALSE
  /\ UNCHANGED <<dialog, loading, form, known, panel, command, entered, bounds>>

SomebodyEdits(s) ==
  /\ dialog = "edit" /\ changes < MaxChanges /\ s # panel
  /\ s.allowance => s.day
  /\ panel' = s /\ changes' = changes + 1
  /\ UNCHANGED <<dialog, open, loading, form, known, requests, command, entered, ops, dfaults>>

EditNext ==
  \/ FollowNode \/ OpenEdit \/ EnterSetting \/ SaveNode
  \/ \E r \in requests : ServeNode(r) \/ SavedNode(r) \/ SaveFails(r)
  \/ \E s \in Settings : SomebodyEdits(s)

-----------------------------------------------------------------------------
(* THE CALIBRATION DIALOG.  It opens with the answer to its request, and   *)
(* one request at a time is sent; saving stays possible after it closed.   *)

PrepareCalibration ==
  /\ dialog = "calibration" /\ ~open /\ ~loading /\ ops < MaxOps
  /\ loading' = TRUE /\ known' = None /\ ops' = ops + 1
  /\ requests' = requests \cup {[kind |-> "load", body |-> None]}
  /\ UNCHANGED <<dialog, open, form, panel, command, entered, changes, dfaults>>

CloseCalibration ==
  /\ dialog = "calibration" /\ open
  /\ open' = FALSE
  /\ UNCHANGED <<dialog, loading, form, known, panel, requests, command, entered, bounds>>

ServeCalibration(r) ==
  /\ dialog = "calibration" /\ r \in requests /\ r.body = None
  /\ panel' = IF r.kind = "save" THEN <<r.target>> ELSE panel
  /\ requests' = (requests \ {r}) \cup {[r EXCEPT !.body = panel']}
  /\ UNCHANGED <<dialog, open, loading, form, known, command, entered, bounds>>

(* Both answers carry the totals in effect, and set the targets to them.   *)
ShowCalibration(r) ==
  /\ dialog = "calibration" /\ r \in requests /\ r.body # None
  /\ requests' = requests \ {r}
  /\ known' = r.body /\ form' = r.body
  /\ IF r.kind = "load" THEN loading' = FALSE /\ open' = TRUE ELSE UNCHANGED <<loading, open>>
  /\ UNCHANGED <<dialog, panel, command, entered, bounds>>

SaveCalibration(a) ==
  /\ dialog = "calibration" /\ open /\ known # None /\ ~Saving /\ ops < MaxOps
  /\ form' = <<a>> /\ ops' = ops + 1
  /\ requests' = requests \cup {[kind |-> "save", body |-> None, target |-> a]}
  /\ UNCHANGED <<dialog, open, loading, known, panel, command, entered, changes, dfaults>>

CalibrationNext ==
  \/ PrepareCalibration \/ CloseCalibration
  \/ \E a \in Amounts : SaveCalibration(a)
  \/ \E r \in requests :
       ServeCalibration(r) \/ ShowCalibration(r) \/ LoadFails(r) \/ SaveFails(r)

-----------------------------------------------------------------------------
(* THE RESALE CALCULATOR.  form: the currency, the rate (none, that of a   *)
(* currency, or typed) and whether it was typed.  panel: for each currency *)
(* the rate kept in localStorage: none, fresh or stale.                    *)

(* loadRate: a fixed or fresh rate comes at once, another is asked for;    *)
(* only the newest request counts.                                         *)
LoadRate(c, rate, typed, forced) ==
  LET at == c = "CNY" \/ (panel[c] = "fresh" /\ ~forced)
      old == {[r EXCEPT !.newest = FALSE] : r \in requests}
  IN  /\ form' = [currency |-> c, typed |-> typed, rate |-> IF at THEN c ELSE rate]
      /\ loading' = ~at
      /\ requests' = IF at THEN old ELSE old \cup {[kind |-> "rate", of |-> c, newest |-> TRUE]}

ShowCalculator(c) ==
  /\ dialog = "resale"
  /\ IF open THEN c # form.currency /\ changes < MaxChanges ELSE ops < MaxOps
  /\ open' = TRUE
  /\ IF open THEN ops' = ops /\ changes' = changes + 1
             ELSE ops' = ops + 1 /\ changes' = changes
  /\ LoadRate(c, "none", FALSE, FALSE)
  /\ UNCHANGED <<dialog, known, panel, command, entered, dfaults>>

CloseCalculator ==
  /\ dialog = "resale" /\ open
  /\ open' = FALSE
  /\ requests' = {[r EXCEPT !.newest = FALSE] : r \in requests}
  /\ UNCHANGED <<dialog, loading, form, known, panel, command, entered, bounds>>

RefreshRate ==
  /\ dialog = "resale" /\ open /\ form.currency # "CNY" /\ ~loading /\ ops < MaxOps
  /\ ops' = ops + 1
  /\ LoadRate(form.currency, form.rate, FALSE, TRUE)
  /\ UNCHANGED <<dialog, open, known, panel, command, entered, changes, dfaults>>

TypeRate ==
  /\ dialog = "resale" /\ open /\ form.currency # "CNY"
  /\ form' = [form EXCEPT !.rate = "typed", !.typed = TRUE]
  /\ UNCHANGED <<dialog, open, loading, known, panel, requests, command, entered, bounds>>

Current(r) == r.newest

(* A provider's answer is kept whoever asked; without one the stale rate   *)
(* serves; a rate the administrator typed stays.                           *)
RateAnswers(r, ok) ==
  /\ dialog = "resale" /\ r \in requests
  /\ ok \/ dfaults < MaxFaults
  /\ dfaults' = IF ok THEN dfaults ELSE dfaults + 1
  /\ requests' = requests \ {r}
  /\ panel' = IF ok THEN [panel EXCEPT ![r.of] = "fresh"] ELSE panel
  /\ IF Current(r)
     THEN /\ loading' = FALSE
          /\ form' = IF ~form.typed /\ panel'[r.of] # "none" THEN [form EXCEPT !.rate = r.of] ELSE form
     ELSE UNCHANGED <<loading, form>>
  /\ UNCHANGED <<dialog, open, known, command, entered, ops, changes>>

RateExpires(c) ==
  /\ dialog = "resale" /\ panel[c] = "fresh"
  /\ panel' = [panel EXCEPT ![c] = "stale"]
  /\ UNCHANGED <<dialog, open, loading, form, known, requests, command, entered, bounds>>

ResaleNext ==
  \/ CloseCalculator \/ RefreshRate \/ TypeRate
  \/ \E c \in Currencies : ShowCalculator(c) \/ RateExpires(c)
  \/ \E r \in requests, ok \in BOOLEAN : RateAnswers(r, ok)

-----------------------------------------------------------------------------
DialogInit ==
  /\ dialog \in Dialogs
  /\ open = FALSE /\ loading = FALSE /\ requests = {}
  /\ timer = Off /\ clip = None /\ notice = None
  /\ mine = [profile |-> None, last |-> FALSE]
  /\ entered = IF dialog = "command" THEN Defaults ELSE {}
  /\ known = CASE dialog = "command" -> "none"
               [] dialog = "edit" -> [allowance |-> FALSE, day |-> FALSE, hidden |-> FALSE]
               [] OTHER -> None
  /\ panel = CASE dialog = "command" ->
                    [profile |-> Defaults, stored |-> FALSE, status |-> "none"]
               [] dialog = "edit" -> known
               [] dialog = "calibration" -> <<0>>
               [] dialog = "resale" -> [c \in Currencies |-> "none"]
  /\ form = CASE dialog = "command" -> Defaults
              [] dialog = "resale" -> [currency |-> "CNY", rate |-> "CNY", typed |-> FALSE]
              [] OTHER -> known
  /\ ops = 0 /\ changes = 0 /\ dfaults = 0

DialogNext ==
  \/ dialog = "command" /\ CommandNext
  \/ dialog = "edit" /\ EditNext
  \/ dialog = "calibration" /\ CalibrationNext
  \/ dialog = "resale" /\ ResaleNext

(* Requests are served and answered, a timer fires.                        *)
DialogFairness ==
  /\ WF_dvars(Tick)
  /\ WF_dvars(\E r \in requests : ServeCommand(r) \/ LoadedCommand(r) \/ Polled(r) \/ SavedProfile(r))
  /\ WF_dvars(\E r \in requests : ServeNode(r) \/ SavedNode(r))
  /\ WF_dvars(\E r \in requests : ServeCalibration(r) \/ ShowCalibration(r))
  /\ WF_dvars(\E r \in requests : RateAnswers(r, TRUE))

DialogSpec == DialogInit /\ [][DialogNext]_dvars /\ DialogFairness

(* What was said to be copied is in the clipboard and was stored by the    *)
(* last save this dialog was answered; it is what the panel stores, unless *)
(* another administrator saved after it (saveProfile, index.tsx:1604).     *)
CopiedIsSaved ==
  notice # None => /\ notice = clip /\ notice = mine.profile
                   /\ mine.last => notice = panel.profile

(* A save changes a traffic setting only if the administrator entered it   *)
(* since the form last followed the node: what others changed meanwhile is *)
(* not taken back (EditButton, index.tsx:2222 and 2263).                   *)
OnlyEnteredIsSaved ==
  [][\A r \in requests : dialog = "edit" /\ ServeNode(r) =>
       \A f \in {"allowance", "day"} : panel'[f] # panel[f] => f \in r.meant]_dvars

(* The calculator never uses the rate of another currency, and never an    *)
(* answer in place of a rate that was typed after the question             *)
(* (loadRate, RemainingValueCalculator.tsx:66).                            *)
RateIsOfCurrency ==
  dialog = "resale" /\ open => form.rate \in {"none", form.currency, "typed"}
                               /\ (form.typed => form.rate = "typed")

(* What a dialog shows belongs together: the clipboard with the profile,   *)
(* the rate with its currency.                                             *)
DialogsHonest == CopiedIsSaved /\ RateIsOfCurrency

(* A delivery is not polled for ever, and no open dialog stays loading or  *)
(* saving for ever (index.tsx:1483, and the `finally' of each request).    *)
DialogsSettle == []<>~(timer # Off \/ Saving \/ (open /\ loading))
=============================================================================
