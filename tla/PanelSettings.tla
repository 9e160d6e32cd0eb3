--------------------------- MODULE PanelSettings ---------------------------
(* The settings pages of the admin panel (lib/api.ts, components/admin/      *)
(* SettingCard.tsx, pages/admin/settings/).  One SettingsProvider lives as    *)
(* long as the admin area and keeps a copy of the panel's settings; the pages *)
(* come and go and mount cards from that copy.  A card saves its field in one *)
(* of four ways: it posts its own key and leaves the copy as it was; it posts *)
(* its own key and reads everything again; or it posts the whole copy with    *)
(* its key replaced, and then puts the whole body, or only its key, into the  *)
(* copy.  One action per handler; requests are served and answered in any     *)
(* order, may be refused and may lose their answer.                           *)
EXTENDS Integers, FiniteSets

CONSTANTS Absent,       \* no card, no field
          Fields,     \* the settings of this instance, a subset of Known
          Values,     \* what a setting can be
          Flags,      \* those a switch can be
          MaxMounts,  \* bound: times the cards are mounted by a visit
          MaxSaves,   \* bound: saves begun
          MaxFaults   \* bound: refusals, failed reloads and lost answers

\* The settings each page shows.
Site    == {"sitename", "description", "private_site", "tempory_share_token"}
General == {"admin_default_page_size", "reduce_motion", "geo_ip_provider"}
Storage == {"metric_table_prefix"}
Reports == {"traffic_report_time"}

PageOf(f) == CASE f \in Site    -> "site"
               [] f \in General -> "general"
               [] f \in Storage -> "storage"
               [] OTHER         -> "reports"

\* How a card follows its default, and how it saves.
Short    == {"sitename", "admin_default_page_size", "metric_table_prefix"}
Long     == {"description", "traffic_report_time"}
Switches == {"reduce_motion", "private_site"}
Selects  == {"geo_ip_provider"}
Buttons  == {"tempory_share_token"}
Reread   == (General \ Selects) \cup Buttons
Whole    == Storage
One      == Reports
Own      == (Site \ Buttons) \cup Selects

Known == Site \cup General \cup Storage \cup Reports
Card == [text : Values, busy : BOOLEAN]

ASSUME FieldsAssumption ==
  /\ Fields \subseteq Known /\ Flags \subseteq Values
  /\ Absent \notin Known /\ Absent \notin Card
  /\ MaxMounts \in Nat /\ MaxSaves \in Nat /\ MaxFaults \in Nat

Default == CHOOSE v \in Values : TRUE   \* what the copy starts with
Stores  == [Fields -> Values]

VARIABLES saved,     \* the settings the panel holds
          settings,  \* the provider's copy
          settingsLoading,   \* the provider's first read is unanswered
          settingsError,     \* the provider reports an error: no page shows its cards
          here,      \* the page shown
          cards,     \* per field the mounted card, or Absent
          mount,     \* counts the times the cards were mounted or taken away
          posts,     \* requests begun and not settled
          saves, faults,
          doubtful,  \* two requests overlapped, or one failed after it was applied
          behind     \* history: per field the mount whose own-key save left the
                     \* copy behind, or Nowhere

provider == <<settings, settingsLoading, settingsError>>
shownNow == <<here, cards, mount>>
bounds   == <<saves, faults>>
pvars    == <<saved, provider, shownNow, posts, bounds, doubtful, behind>>

Nowhere == -1
NoneBehind == [f \in Fields |-> Nowhere]

Post == [n : Nat, f : Fields \cup {Absent}, op : {"save", "get"},
         body : UNION {[D -> Values] : D \in SUBSET Fields},
         prev : Values, mount : Nat, at : {"sent", "done", "failed"}]

SettingsTypeOK ==
  /\ saved \in Stores
  /\ settings \in Stores
  /\ settingsLoading \in BOOLEAN
  /\ settingsError \in BOOLEAN
  /\ here \in {PageOf(f) : f \in Fields}
  /\ cards \in [Fields -> Card \cup {Absent}]
  /\ mount \in Nat
  /\ \A c \in posts : c \in Post
  /\ saves \in 0..MaxSaves
  /\ faults \in 0..MaxFaults
  /\ doubtful \in BOOLEAN
  /\ behind \in [Fields -> Nat \cup {Nowhere}]

\* A page shows its cards once the copy is there and nothing went wrong.
Mounted(p, s, there) ==
  [f \in Fields |-> IF there /\ PageOf(f) = p
                    THEN [text |-> s[f], busy |-> FALSE] ELSE Absent]
NoCards == Mounted(here, settings, FALSE)

\* Mutant: every card takes its default again whenever the copy is replaced.
AlwaysSynced(f, k, s) == IF k = Absent THEN k ELSE [k EXCEPT !.text = s[f]]

\* A short text keeps what was typed over its default and a select what it was
\* mounted with; every other card takes the new default.
Synced(f, k, s) ==
  IF \/ k = Absent \/ s[f] = settings[f]
     \/ f \in Short /\ k.text # settings[f]
     \/ f \in Selects
  THEN k ELSE [k EXCEPT !.text = s[f]]

\* Mutant: a card whose save failed turns back and stays disabled.
DisabledOnFailure(c, cs, failed) ==
  [f \in Fields |->
     IF f # c.f \/ c.mount # mount \/ cs[f] = Absent THEN cs[f]
     ELSE [text |-> IF failed /\ f \in Switches \cup Selects THEN c.prev ELSE cs[f].text,
           busy |-> failed /\ f \notin Buttons]]

\* The card that began c is released, if it is still the one on the page; a
\* switch or select whose save failed turns back.
Released(c, cs, failed) ==
  [f \in Fields |->
     IF f # c.f \/ c.mount # mount \/ cs[f] = Absent THEN cs[f]
     ELSE [text |-> IF failed /\ f \in Switches \cup Selects THEN c.prev ELSE cs[f].text,
           busy |-> FALSE]]

----------------------------------------------------------------------------
SettingsInit ==
  /\ \E v \in Flags : saved = [f \in Fields |-> v]
  /\ settings = [f \in Fields |-> Default]
  /\ settingsLoading = TRUE /\ settingsError = FALSE
  /\ here \in {PageOf(f) : f \in Fields}
  /\ cards = [f \in Fields |-> Absent]
  /\ mount = 0 /\ saves = 0 /\ faults = 0 /\ doubtful = FALSE /\ behind = NoneBehind
  /\ posts = {[n |-> 0, f |-> Absent, op |-> "get", body |-> <<>>, prev |-> Default,
               mount |-> 0, at |-> "sent"]}

\* The administrator goes to another page: its cards start from the copy.
Visit(p) ==
  /\ p # here /\ mount < MaxMounts
  /\ here' = p
  /\ mount' = mount + 1
  /\ cards' = Mounted(p, settings, ~settingsLoading /\ ~settingsError)
  /\ UNCHANGED <<saved, provider, posts, bounds, doubtful, behind>>

\* Text is typed; all but the long text card are disabled while they save.
Type(f, v) ==
  /\ f \in Short \cup Long
  /\ cards[f] # Absent /\ cards[f].text # v
  /\ cards[f].busy => f = "description"
  /\ cards' = [cards EXCEPT ![f].text = v]
  /\ UNCHANGED <<saved, provider, here, mount, posts, bounds, doubtful, behind>>

\* What a save posts: its own key, or the copy with its key replaced.
Body(f, v) ==
  IF f \in Own \cup Reread THEN [g \in {f} |-> v]
  ELSE [settings EXCEPT ![f] = v]

\* A save begins.  A switch or select shows the new value at once; the share buttons
\* are not disabled; the report time is saved only when it differs.
Save(f, v) ==
  /\ cards[f] # Absent /\ saves < MaxSaves
  /\ f \in Buttons \/ ~cards[f].busy
  /\ IF f \in Switches \cup Selects \cup Buttons THEN v # cards[f].text ELSE v = cards[f].text
  /\ f \in One => v # settings[f]
  /\ f \in Switches => v \in Flags
  /\ saves' = saves + 1
  /\ cards' = [cards EXCEPT ![f] =
                 [text |-> IF f \in Switches \cup Selects THEN v ELSE @.text,
                  busy |-> f \notin Buttons]]
  /\ posts' = posts \cup {[n |-> saves + 1, f |-> f, op |-> "save", body |-> Body(f, v),
                           prev |-> cards[f].text, mount |-> mount, at |-> "sent"]}
  /\ doubtful' = (doubtful \/ posts # {})
  /\ UNCHANGED <<saved, provider, here, mount, faults, behind>>

----------------------------------------------------------------------------
\* The panel writes exactly the keys of the body.
Written(body) == [f \in Fields |-> IF f \in DOMAIN body THEN body[f] ELSE saved[f]]

Answered(c, d) == posts' = (posts \ {c}) \cup {d}

ServeSetting(c) ==
  /\ c.at = "sent"
  /\ \/ /\ c.op = "save"
        /\ saved' = Written(c.body)
        /\ Answered(c, [c EXCEPT !.at = "done"])
     \/ /\ c.op = "get"
        /\ Answered(c, [c EXCEPT !.at = "done", !.body = saved])
        /\ UNCHANGED saved
  /\ UNCHANGED <<provider, shownNow, bounds, doubtful, behind>>

\* The panel refuses a save: a value it does not accept, a metrics database it
\* cannot connect to, a write that fails.  Nothing is written.
Refuse(c) ==
  /\ c.op = "save" /\ c.at = "sent" /\ faults < MaxFaults
  /\ faults' = faults + 1
  /\ Answered(c, [c EXCEPT !.at = "failed"])
  /\ UNCHANGED <<saved, provider, shownNow, saves, doubtful, behind>>

\* The body holds metric keys: the settings are saved, and then the metrics
\* database does not reload.  The panel answers with an error.
ReloadFails(c) ==
  /\ c.op = "save" /\ c.at = "sent" /\ c.f \in Whole \cup One /\ faults < MaxFaults
  /\ faults' = faults + 1
  /\ saved' = Written(c.body)
  /\ Answered(c, [c EXCEPT !.at = "failed"])
  /\ doubtful' = TRUE
  /\ UNCHANGED <<provider, shownNow, saves, behind>>

\* A request or its answer is lost, or a read is answered with an error.
LoseSetting(c) ==
  /\ c.at \in {"sent", "done"} /\ faults < MaxFaults
  /\ faults' = faults + 1
  /\ Answered(c, [c EXCEPT !.at = "failed"])
  /\ doubtful' = (doubtful \/ c.at = "done" \/ c.op = "get")
  /\ UNCHANGED <<saved, provider, shownNow, saves, behind>>

----------------------------------------------------------------------------
\* The provider's copy becomes s and its error e: cards follow, come back or go.
Settles(c, s, e, failed) ==
  /\ settings' = s
  /\ settingsError' = e
  /\ mount' = IF e = settingsError THEN mount ELSE mount + 1
  /\ cards' = IF e THEN NoCards
              ELSE IF settingsError THEN Mounted(here, s, ~settingsLoading)
              ELSE Released(c, [f \in Fields |-> Synced(f, cards[f], s)], failed)
  /\ posts' = posts \ {c}
  /\ behind' = IF failed THEN behind
               ELSE IF c.f \in Own THEN [behind EXCEPT ![c.f] = c.mount] ELSE NoneBehind
  /\ UNCHANGED <<saved, settingsLoading, here, bounds, doubtful>>

\* The first read of the provider is answered.
Loaded(c) ==
  /\ c.f = Absent /\ c.at \in {"done", "failed"}
  /\ settingsLoading' = FALSE
  /\ settingsError' = (c.at = "failed")
  /\ settings' = IF c.at = "done" THEN c.body ELSE settings
  /\ cards' = Mounted(here, settings', c.at = "done")
  /\ posts' = posts \ {c}
  /\ UNCHANGED <<saved, here, mount, bounds, doubtful, behind>>

\* A card that posts its own key: the copy stays what it was.
OwnSettles(c) ==
  /\ c.f \in Own /\ c.at \in {"done", "failed"}
  /\ Settles(c, settings, settingsError, c.at = "failed")

\* A card that posts its own key and then reads every setting again.
Refetch(c) ==
  /\ c.f \in Reread /\ c.op = "save" /\ c.at = "done"
  /\ Answered(c, [c EXCEPT !.op = "get", !.at = "sent"])
  /\ UNCHANGED <<saved, provider, shownNow, bounds, doubtful, behind>>

RereadSettles(c) ==
  /\ c.f \in Reread
  /\ \/ c.op = "get" /\ c.at = "done" /\ Settles(c, c.body, FALSE, FALSE)
     \/ c.at = "failed" /\ Settles(c, settings, settingsError, TRUE)

\* updateMultipleSettings: the posted body becomes the copy.
WholeSettles(c) ==
  /\ c.f \in Whole
  /\ \/ c.at = "done" /\ Settles(c, c.body, settingsError, FALSE)
     \/ c.at = "failed" /\ Settles(c, settings, TRUE, TRUE)

\* Mutant: the value saved is not put into the copy.
CopyLeftBehind(c) ==
  /\ c.f \in One
  /\ \/ c.at = "done" /\ Settles(c, settings, settingsError, FALSE)
     \/ c.at = "failed" /\ Settles(c, settings, TRUE, TRUE)

\* updateSetting: the posted key is put into the copy.
OneSettles(c) ==
  /\ c.f \in One
  /\ \/ c.at = "done" /\ Settles(c, [settings EXCEPT ![c.f] = c.body[c.f]], settingsError, FALSE)
     \/ c.at = "failed" /\ Settles(c, settings, TRUE, TRUE)

Settle(c) ==
  Loaded(c) \/ OwnSettles(c) \/ Refetch(c) \/ RereadSettles(c) \/ WholeSettles(c) \/ OneSettles(c)

SettingsNext ==
  \/ \E p \in {PageOf(f) : f \in Fields} : Visit(p)
  \/ \E f \in Fields, v \in Values : Type(f, v) \/ Save(f, v)
  \/ \E c \in posts : ServeSetting(c) \/ Refuse(c) \/ ReloadFails(c) \/ LoseSetting(c) \/ Settle(c)

\* The panel serves and answers what it was sent, and the browser's promises
\* run; the administrator owes nothing.
SettingsFairness ==
  /\ WF_pvars(\E c \in posts : ServeSetting(c))
  /\ WF_pvars(\E c \in posts : Settle(c))
SettingsSpec == SettingsInit /\ [][SettingsNext]_pvars /\ SettingsFairness

----------------------------------------------------------------------------
Quiet == ~settingsLoading /\ posts = {} /\ ~doubtful

\* The card's own-key save left the copy behind ...
Behind(f) == f \in Own /\ behind[f] # Nowhere

\* ... and the page was mounted since.
Remounted(f) == Behind(f) /\ behind[f] < mount

\* When nothing is under way, no requests overlapped and none failed after the
\* panel had applied it: the provider's copy agrees with the panel on every
\* setting, except those whose own-key save left it behind and that nothing has
\* read or posted since; a switch on the page shows what the panel holds, and
\* only one of those left behind, mounted again since, the copy's old value
\* (api.ts:135-146, 204-239, SettingCard.tsx:113-139).
CopyIsCurrent ==
  Quiet => /\ \A f \in Fields : settings[f] = saved[f] \/ Behind(f)
           /\ \A f \in Fields \cap Switches :
                cards[f] # Absent =>
                  cards[f].text = IF Remounted(f) THEN settings[f] ELSE saved[f]

\* The provider's copy and the cards at any moment (api.ts:151-239).
SettingsSound == SettingsTypeOK /\ CopyIsCurrent

\* What is typed into a short text card and not saved survives a new copy of
\* the settings, wherever that came from (SettingCard.tsx:344-362).
TypedStays ==
  [][\A f \in Fields \cap Short :
       (cards[f] # Absent /\ mount' = mount /\ settings' # settings
          /\ cards[f].text # settings[f])
         => cards'[f].text = cards[f].text]_pvars

\* A card that was disabled for its save is released or gone in the end,
\* whatever failed (SettingCard.tsx:127-138, 372-377).
CardBusy    == \E f \in Fields : cards[f] # Absent /\ cards[f].busy
CardsSettle == CardBusy ~> ~CardBusy

\* "Update a single setting" (api.ts:149, 203): a save changes no setting of
\* the panel but the one of its card.
UpdatesSingleSetting ==
  [][\A f \in Fields : saved'[f] # saved[f] =>
       \E c \in posts : c.f = f /\ c.op = "save" /\ c.at = "sent" /\ c \notin posts']_pvars
============================================================================
