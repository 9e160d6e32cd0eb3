---------------------------- MODULE AdminAreaProofs ----------------------------
(***************************************************************************)
(* Proofs about what the administrator's pages share.                      *)
(*                                                                         *)
(* AdminSession, for any accounts, any number of requests in flight and    *)
(* any order of their answers: a tab holds nothing of a session that has   *)
(* ended and signing out is final (SessionSound), and SessionPromise is    *)
(* implemented.                                                            *)
(*                                                                         *)
(* PanelSettings, for every set of settings and values and every number of *)
(* visits, saves and faults: the copy follows what was saved and no card   *)
(* lies (SettingsSound), and nothing that was typed is lost (TypedStays).  *)
(* SettingsSound speaks of moments when nothing is under way, so it is far *)
(* from inductive.  SInv says what holds meanwhile.  As long as no requests*)
(* overlapped and none failed after it was applied there is at most one    *)
(* request, and the copy and the cards owe the panel exactly the setting   *)
(* that request is about, next to those that own-key saves have left       *)
(* behind: nothing until the panel has written it, the value it carries    *)
(* from then until the page has its answer.  Some facts about the provider *)
(* carry the rest: no card before the first read is answered or while an   *)
(* error is shown, cards of one page only, and every request, and every    *)
(* save that left the copy behind, begun no later than the cards on the    *)
(* page were mounted.                                                      *)
(***************************************************************************)
EXTENDS AdminSession, PanelSettings, TLAPS

-----------------------------------------------------------------------------
(* THE SESSION.                                                            *)

Answers  == {"sent", "ok", "denied", "failed", "read"}
Accounts == Users \cup {Nobody, None}
Cached   == Entry \cup {None}

(* identityRef names the account that is shown, if there is one.           *)
IdentityKnown == identity = IF account \in Users THEN account ELSE None

(* The dashboard is only there for an account.                             *)
DashShown ==
  /\ dash.on => account \in Users
  /\ ~dash.on => dash.data = None

(* No read comes from the future: a new generation, or a new read,         *)
(* supersedes all that are in flight.                                      *)
AsksBound == \A a \in asks : a.gen <= gen /\ a.seq <= seq

(* Why signing out is final: the panel may still know the cookie only      *)
(* while signing out is pending, and until then nobody reads the account.  *)
AwayForGood ==
  left => /\ \A a \in asks : Superseded(a) \/ (~pending /\ a.who = Nobody)
          /\ ~pending \/ logout = "done" => cookie = Nobody

Data == OfThisSession /\ StorageCleared /\ IdentityKnown /\ DashShown
Away == AsksBound /\ AwayForGood /\ LogoutIsFinal

SessionInv == SessionTypeOK /\ Data /\ Away

(* The type invariant, by the groups of variables.                         *)
PanelType  == cookie \in Users \cup {Nobody} /\ switches \in Nat /\ fails \in Nat /\ asked \in Nat
CountType  == gen \in Nat /\ seq \in Nat
MemoryType == ended \in BOOLEAN /\ calls \subseteq Call /\ cache \in [Slots -> Cached]
WhoType    == /\ account \in Users \cup {Nobody, None} /\ identity \in Users \cup {None}
              /\ loading \in BOOLEAN /\ error \in BOOLEAN
ScreenType == /\ stored \in SUBSET Users /\ route \in {"dashboard", "other"}
              /\ dash \in [on : BOOLEAN, data : Cached]
LoginType  == login \in [step : {"password", "code"},
                         at : {"idle", "sent", "accepted", "asked", "refused"}]
LeaveType  == pending \in BOOLEAN /\ logout \in {"none", "sent", "done", "failed"} /\ left \in BOOLEAN

LEMMA SessionTypeParts ==
  SessionTypeOK <=> /\ PanelType /\ CountType /\ MemoryType /\ WhoType /\ ScreenType /\ LoginType
                    /\ LeaveType /\ asks \subseteq Read
  BY DEF SessionTypeOK, PanelType, CountType, MemoryType, WhoType, ScreenType, LoginType, LeaveType, Cached

LEMMA SessionTypePartsNext ==
  SessionTypeOK' <=> /\ PanelType' /\ CountType' /\ MemoryType' /\ WhoType' /\ ScreenType'
                     /\ LoginType' /\ LeaveType'
                     /\ asks' \subseteq Read
  BY DEF SessionTypeOK, PanelType, CountType, MemoryType, WhoType, ScreenType, LoginType, LeaveType, Cached

-----------------------------------------------------------------------------
(* What moves through its stages stays what it is.                         *)

LEMMA CallMoves ==
  ASSUME SessionTypeOK, NEW c \in calls, NEW at \in Answers
  PROVE  (calls \ {c}) \cup {[c EXCEPT !.at = at]} \subseteq Call
<1>1. c \in Call /\ calls \subseteq Call
  BY DEF SessionTypeOK
<1>2. [c EXCEPT !.at = at] \in Call
  BY <1>1 DEF Call, Answers
<1>3. QED
  BY <1>1, <1>2

LEMMA ReadMoves ==
  ASSUME SessionTypeOK, NEW a \in asks, NEW at \in Answers
  PROVE  /\ (asks \ {a}) \cup {[a EXCEPT !.at = at]} \subseteq Read
         /\ [a EXCEPT !.at = at].gen = a.gen /\ [a EXCEPT !.at = at].seq = a.seq
         /\ [a EXCEPT !.at = at].who = a.who
<1>1. a \in Read /\ asks \subseteq Read
  BY DEF SessionTypeOK
<1>2. [a EXCEPT !.at = at] \in Read
  BY <1>1 DEF Read, Answers
<1>3. QED
  BY <1>1, <1>2 DEF Read

LEMMA FailedIsCache ==
  ASSUME NEW slots \in [Slots -> Cached], NEW c \in Call
  PROVE  /\ Failed(c, slots) \in [Slots -> Cached]
         /\ \A s \in Slots \ {"load"} : Failed(c, slots)[s] = slots[s]
  BY DEF Failed, Call, Cached, Slots

LEMMA EmptiedIsCache ==
  Emptied \in [Slots -> Cached] /\ \A s \in Slots : Emptied[s] = None
  BY DEF Emptied, Cached

(* What Draw leaves on the screen and in sessionStorage.                   *)
LEMMA Drawn ==
  ASSUME SessionTypeOK, NEW data \in Cached, NEW kept \in SUBSET Users, Draw(data, kept),
         account' \in Accounts, cache' \in [Slots -> Cached],
         dash.on /\ data # None /\ account' \in Users => data.gen = gen' /\ data.key = account',
         cache'["summary"] # None => cache'["summary"].gen = gen'
  PROVE  /\ dash' \in [on : BOOLEAN, data : Cached] /\ stored' \in SUBSET Users
         /\ ended' => stored' = kept
         /\ dash'.data # None => dash'.data.gen = gen' /\ dash'.data.key = account'
         /\ DashShown'
<1>1. Snapshot \in Cached
  BY DEF Snapshot, Slots, Cached
<1>2. Snapshot # None => Snapshot.gen = gen' /\ Snapshot.key = account'
  BY DEF Snapshot
<1>3. stored' \in SUBSET Users /\ (ended' => stored' = kept)
  BY DEF Draw
<1>4. CASE View(account', loading', error') = "admin" /\ route' = "dashboard"
  <2>1. account' \in Users
    BY <1>4 DEF View, Accounts
  <2>2. dash' = [on |-> TRUE, data |-> IF dash.on THEN data ELSE Snapshot]
    BY <1>4 DEF Draw
  <2>3. QED
    BY <1>1, <1>2, <1>3, <2>1, <2>2 DEF DashShown
<1>5. CASE ~(View(account', loading', error') = "admin" /\ route' = "dashboard")
  <2>1. dash' = [on |-> FALSE, data |-> None]
    BY <1>5 DEF Draw, Off
  <2>2. QED
    BY <1>3, <2>1 DEF DashShown, Cached
<1>6. QED
  BY <1>4, <1>5

-----------------------------------------------------------------------------
(* Steps that leave what is held, or what signing out rests on, alone.     *)

LEMMA DataFrame ==
  ASSUME Data, UNCHANGED <<account, identity, gen, ended, cache, screen>>
  PROVE  Data'
  BY DEF Data, OfThisSession, StorageCleared, IdentityKnown, DashShown, screen

LEMMA AwayFrame ==
  ASSUME Away, UNCHANGED <<cookie, account, seq, gen, asks, leaving>>
  PROVE  Away'
  BY DEF Away, AsksBound, AwayForGood, LogoutIsFinal, Superseded, leaving

(* Steps within a session that draw the screen again.                      *)
LEMMA DataRedrawn ==
  ASSUME SessionTypeOK, Data, Draw(dash.data, stored), UNCHANGED <<gen, ended, cache>>,
         account' \in Accounts, IdentityKnown', dash.on => account' = account
  PROVE  Data' /\ dash' \in [on : BOOLEAN, data : Cached] /\ stored' \in SUBSET Users
<1>1. dash.data \in Cached /\ stored \in SUBSET Users /\ cache \in [Slots -> Cached]
  BY DEF SessionTypeOK, Cached
<1>2. dash.on /\ dash.data # None /\ account' \in Users
        => dash.data.gen = gen' /\ dash.data.key = account'
  BY DEF Data, OfThisSession
<1>3. cache'["summary"] # None => cache'["summary"].gen = gen'
  BY DEF Data, OfThisSession, Slots
<1>4. /\ dash' \in [on : BOOLEAN, data : Cached] /\ stored' \in SUBSET Users
      /\ ended' => stored' = stored
      /\ dash'.data # None => dash'.data.gen = gen' /\ dash'.data.key = account'
      /\ DashShown'
  BY <1>1, <1>2, <1>3, Drawn
<1>5. StorageCleared'
  BY <1>4 DEF Data, StorageCleared
<1>6. OfThisSession'
  BY <1>4 DEF Data, OfThisSession
<1>7. QED
  BY <1>4, <1>5, <1>6 DEF Data

(* Steps that begin a new generation: nothing of the last one is left.     *)
LEMMA DataRenewed ==
  ASSUME SessionTypeOK, NEW kept \in SUBSET Users, Draw(None, kept), ended' => kept = {},
         account' \in Accounts, IdentityKnown',
         cache' \in [Slots -> Cached], \A s \in Slots \ {"load"} : cache'[s] = None
  PROVE  /\ Data' /\ dash' \in [on : BOOLEAN, data : Cached] /\ stored' \in SUBSET Users
         /\ dash'.data = None
<1>1. None \in Cached
  BY DEF Cached
<1>2. cache'["summary"] = None
  BY DEF Slots
<1>3. /\ dash' \in [on : BOOLEAN, data : Cached] /\ stored' \in SUBSET Users
      /\ ended' => stored' = kept
      /\ dash'.data # None => dash'.data.gen = gen' /\ dash'.data.key = account'
      /\ DashShown'
  BY <1>1, <1>2, Drawn
<1>4. dash'.data = None
  BY <1>2 DEF Draw, Snapshot, Off
<1>5. OfThisSession' /\ StorageCleared'
  BY <1>3, <1>4 DEF OfThisSession, StorageCleared
<1>6. QED
  BY <1>3, <1>4, <1>5 DEF Data

(* A new generation supersedes every read in flight.                       *)
LEMMA AwayRenewed ==
  ASSUME SessionTypeOK, Away, asks' \subseteq asks, gen' = gen + 1, seq' = seq + 1,
         account' \notin Users, pending' \in BOOLEAN,
         left' => (~pending' \/ logout' = "done" => cookie' = Nobody)
  PROVE  Away'
<1>1. \A a \in asks' : a.gen \in Nat /\ a.seq \in Nat /\ a.gen <= gen /\ a.seq <= seq
  BY DEF SessionTypeOK, Read, Away, AsksBound
<1>2. gen \in Nat /\ seq \in Nat
  BY DEF SessionTypeOK
<1>3. \A a \in asks' : a.gen <= gen' /\ a.seq <= seq' /\ a.gen # gen'
  BY <1>1, <1>2
<1>4. QED
  BY <1>3 DEF Away, AsksBound, AwayForGood, LogoutIsFinal, Superseded

-----------------------------------------------------------------------------
LEMMA SessionInitInv == SessionInit => SessionInv
<1> SUFFICES ASSUME SessionInit
             PROVE  SessionInv
  OBVIOUS
<1>1. FirstRead(0) \subseteq Read
  BY DEF FirstRead, Read
<1>2. SessionTypeOK
  BY <1>1, EmptiedIsCache DEF SessionInit, SessionTypeOK, Form, Off, Cached
<1>3. Data
  BY SessionAssumption, EmptiedIsCache
     DEF SessionInit, Data, OfThisSession, StorageCleared, IdentityKnown, DashShown, Off
<1>4. Away
  BY DEF SessionInit, Away, AsksBound, AwayForGood, LogoutIsFinal, FirstRead
<1>5. QED
  BY <1>2, <1>3, <1>4 DEF SessionInv

(* Reading the account again.                                              *)
LEMMA RefreshKeeps ==
  ASSUME SessionInv, Refresh, ~pending, UNCHANGED <<panel, leaving>>,
         login' = login \/ login' = Form
  PROVE  SessionInv'
<1> DEFINE new == [seq |-> seq + 1, gen |-> gen, at |-> "sent", who |-> Nobody]
<1>1. gen \in Nat /\ seq \in Nat /\ asks \subseteq Read
  BY DEF SessionInv, SessionTypeOK
<1>2. new \in Read /\ new.seq = seq + 1 /\ new.gen = gen /\ new.who = Nobody
  BY <1>1 DEF Read
<1>3. asks' = asks \cup {new} /\ seq' = seq + 1
  BY DEF Refresh
<1>4. UNCHANGED <<account, identity, gen, ended, calls, cache, route>> /\ Draw(dash.data, stored)
  BY DEF Refresh, memory
<1>5. account' \in Accounts /\ IdentityKnown'
  BY <1>4 DEF SessionInv, SessionTypeOK, Accounts, Data, IdentityKnown
<1>6. Data' /\ dash' \in [on : BOOLEAN, data : Cached] /\ stored' \in SUBSET Users
  BY <1>4, <1>5, DataRedrawn DEF SessionInv
<1>7. SessionTypeOK'
  <2> USE SessionTypeParts DEF SessionInv
  <2>1. PanelType' /\ LeaveType'
    BY DEF Refresh, PanelType, LeaveType, panel, leaving
  <2>2. MemoryType' /\ ScreenType'
    BY <1>4, <1>6 DEF MemoryType, ScreenType
  <2>3. WhoType' /\ CountType'
    <3>1. WhoType'
      BY <1>4 DEF Refresh, WhoType
    <3>2. CountType'
      BY <1>1, <1>3, <1>4 DEF CountType
    <3>3. QED
      BY <3>1, <3>2
  <2>4. LoginType' /\ asks' \subseteq Read
    BY <1>1, <1>2, <1>3 DEF LoginType, Form
  <2>5. QED
    BY <2>1, <2>2, <2>3, <2>4, SessionTypePartsNext
<1>8. AsksBound'
  BY <1>1, <1>2, <1>3, <1>4 DEF SessionInv, Away, AsksBound, Read
<1>9. AwayForGood' /\ LogoutIsFinal'
  <2>1. \A a \in asks : a.seq \in Nat /\ a.seq <= seq
    BY <1>1 DEF SessionInv, Away, AsksBound, Read
  <2>2. \A a \in asks : a.seq # seq'
    BY <1>1, <1>3, <2>1
  <2>3. QED
    BY <1>2, <1>3, <1>4, <2>2
       DEF SessionInv, Away, AwayForGood, LogoutIsFinal, Superseded, panel, leaving
<1>10. QED
  BY <1>6, <1>7, <1>8, <1>9 DEF SessionInv, Away

(* A session ends: refused, signed out, or somebody else's.                *)
LEMMA EndKeeps ==
  ASSUME SessionInv, NEW inFlight \in SUBSET calls, Revoked(inFlight), SignedOut,
         cache' \in [Slots -> Cached], \A s \in Slots \ {"load"} : cache'[s] = None,
         asks' \subseteq asks, UNCHANGED <<panel, asked, route, login>>,
         \/ UNCHANGED leaving
         \/ pending' = TRUE /\ logout' = "sent" /\ left' = TRUE
  PROVE  SessionInv'
<1>1. /\ gen' = gen + 1 /\ ended' = TRUE /\ calls' \subseteq calls /\ seq' = seq + 1
      /\ account' = Nobody /\ identity' = None /\ loading' = FALSE /\ error' = FALSE
      /\ Draw(None, {})
  BY DEF Revoked, SignedOut
<1>2. account' \in Accounts /\ account' \notin Users /\ IdentityKnown'
  BY <1>1, SessionAssumption DEF Accounts, IdentityKnown
<1>3. Data' /\ dash' \in [on : BOOLEAN, data : Cached] /\ stored' \in SUBSET Users
  BY <1>1, <1>2, DataRenewed DEF SessionInv
<1>4. pending' \in BOOLEAN /\ left' \in BOOLEAN /\ logout' \in {"none", "sent", "done", "failed"}
  BY DEF SessionInv, SessionTypeOK, leaving
<1>5. SessionTypeOK'
  <2> USE SessionTypeParts DEF SessionInv
  <2>1. PanelType' /\ LoginType' /\ asks' \subseteq Read
    BY DEF PanelType, LoginType, panel
  <2>2. MemoryType' /\ WhoType' /\ CountType'
    <3>1. MemoryType' /\ WhoType'
      BY <1>1 DEF MemoryType, WhoType
    <3>2. CountType'
      BY <1>1 DEF CountType
    <3>3. QED
      BY <3>1, <3>2
  <2>3. ScreenType' /\ LeaveType'
    BY <1>3, <1>4 DEF ScreenType, LeaveType
  <2>4. QED
    BY <2>1, <2>2, <2>3, SessionTypePartsNext
<1>6. left' => (~pending' \/ logout' = "done" => cookie' = Nobody)
  BY DEF SessionInv, Away, AwayForGood, leaving, panel
<1>7. Away'
  BY <1>1, <1>2, <1>4, <1>6, AwayRenewed DEF SessionInv
<1>8. QED
  BY <1>3, <1>5, <1>7 DEF SessionInv

-----------------------------------------------------------------------------
(* The account.                                                            *)

LEMMA ServeReadKeeps ==
  ASSUME SessionInv, NEW a \in asks, ServeRead(a)
  PROVE  SessionInv'
<1>1. /\ cookie \in Users \cup {Nobody} /\ SessionTypeOK
      /\ "ok" \in Answers /\ "denied" \in Answers /\ "failed" \in Answers
  BY DEF SessionInv, SessionTypeOK, Answers
<1>2. PICK b \in {[a EXCEPT !.at = "ok", !.who = cookie], [a EXCEPT !.at = "denied"],
                  [a EXCEPT !.at = "failed"]} : asks' = (asks \ {a}) \cup {b}
  BY DEF ServeRead
<1>3. /\ (asks \ {a}) \cup {b} \subseteq Read
      /\ b.gen = a.gen /\ b.seq = a.seq /\ b.who \in {a.who, cookie}
  <2>1. CASE b = [a EXCEPT !.at = "ok", !.who = cookie]
    <3>1. a \in Read /\ asks \subseteq Read
      BY <1>1 DEF SessionTypeOK
    <3>2. b \in Read /\ b.gen = a.gen /\ b.seq = a.seq /\ b.who = cookie
      BY <1>1, <2>1, <3>1 DEF Read
    <3>3. QED
      BY <3>1, <3>2
  <2>2. CASE b = [a EXCEPT !.at = "denied"]
    BY <1>1, <2>2, ReadMoves
  <2>3. CASE b = [a EXCEPT !.at = "failed"]
    BY <1>1, <2>3, ReadMoves
  <2>4. QED
    BY <1>2, <2>1, <2>2, <2>3
<1>4. fails' \in Nat
  BY DEF SessionInv, SessionTypeOK, ServeRead
<1>5. SessionTypeOK'
  BY <1>2, <1>3, <1>4
     DEF SessionInv, SessionTypeOK, ServeRead, who, memory, screen, leaving
<1>6. Data'
  BY DataFrame DEF SessionInv, ServeRead, who, memory
<1>7. AsksBound' /\ LogoutIsFinal'
  BY <1>2, <1>3 DEF SessionInv, Away, AsksBound, LogoutIsFinal, ServeRead, who, memory, leaving
<1>8. AwayForGood'
  BY <1>2, <1>3 DEF SessionInv, Away, AwayForGood, Superseded, ServeRead, who, memory, leaving
<1>9. QED
  BY <1>5, <1>6, <1>7, <1>8 DEF SessionInv, Away

LEMMA DropReadKeeps ==
  ASSUME SessionInv, NEW a \in asks, DropRead(a)
  PROVE  SessionInv'
<1>1. SessionTypeOK'
  BY DEF SessionInv, SessionTypeOK, DropRead, panel, who, memory, screen, leaving
<1>2. Data'
  BY DataFrame DEF SessionInv, DropRead, who, memory
<1>3. Away'
  BY DEF SessionInv, Away, AsksBound, AwayForGood, LogoutIsFinal, Superseded, DropRead, panel, who,
     memory, leaving
<1>4. QED
  BY <1>1, <1>2, <1>3 DEF SessionInv

LEMMA ReadHeadersKeeps ==
  ASSUME SessionInv, NEW a \in asks, ReadHeaders(a)
  PROVE  SessionInv'
<1>1. CASE DropRead(a)
  BY <1>1, DropReadKeeps
<1>2. CASE /\ ~Superseded(a) /\ a.at = "ok"
           /\ asks' = (asks \ {a}) \cup {[a EXCEPT !.at = "read"]}
           /\ UNCHANGED <<panel, asked, who, memory, screen, login, leaving>>
  <2>2. /\ asks' \subseteq Read
        /\ [a EXCEPT !.at = "read"].gen = a.gen /\ [a EXCEPT !.at = "read"].seq = a.seq
        /\ [a EXCEPT !.at = "read"].who = a.who
    BY <1>2, ReadMoves DEF SessionInv, Answers
  <2>3. SessionTypeOK'
    BY <1>2, <2>2 DEF SessionInv, SessionTypeOK, panel, who, memory, screen, leaving
  <2>4. Data'
    BY <1>2, DataFrame DEF SessionInv, who, memory
  <2>5. Away'
    BY <1>2, <2>2 DEF SessionInv, Away, AsksBound, AwayForGood, LogoutIsFinal, Superseded, panel, who,
       memory, leaving
  <2>6. QED
    BY <2>3, <2>4, <2>5 DEF SessionInv
<1>3. CASE /\ asks' = asks \ {a} /\ UNCHANGED <<panel, asked, route, login, leaving>>
           /\ Revoked(calls) /\ cache' = Emptied /\ SignedOut
  BY <1>3, EndKeeps, EmptiedIsCache
<1>4. CASE /\ asks' = asks \ {a} /\ error' = TRUE /\ loading' = FALSE
           /\ UNCHANGED <<panel, asked, account, identity, seq, memory, route, login, leaving>>
           /\ Draw(dash.data, stored)
  <2>1. account' \in Accounts /\ IdentityKnown'
    BY <1>4 DEF SessionInv, SessionTypeOK, Accounts, Data, IdentityKnown
  <2>2. Data' /\ dash' \in [on : BOOLEAN, data : Cached] /\ stored' \in SUBSET Users
    BY <1>4, <2>1, DataRedrawn DEF SessionInv, memory
  <2>3. SessionTypeOK'
    <3> USE SessionTypeParts DEF SessionInv
    <3>1. PanelType' /\ CountType' /\ MemoryType' /\ LeaveType'
      BY <1>4 DEF PanelType, CountType, MemoryType, LeaveType, panel, memory, leaving
    <3>2. WhoType' /\ LoginType' /\ asks' \subseteq Read
      BY <1>4 DEF WhoType, LoginType
    <3>3. ScreenType'
      BY <1>4, <2>2 DEF ScreenType
    <3>4. QED
      BY <3>1, <3>2, <3>3, SessionTypePartsNext
  <2>4. Away'
    BY <1>4 DEF SessionInv, Away, AsksBound, AwayForGood, LogoutIsFinal, Superseded, panel, memory, leaving
  <2>5. QED
    BY <2>2, <2>3, <2>4 DEF SessionInv
<1>5. QED
  BY <1>1, <1>2, <1>3, <1>4 DEF ReadHeaders

LEMMA ReadBodyKeeps ==
  ASSUME SessionInv, NEW a \in asks, ReadBody(a)
  PROVE  SessionInv'
<1> DEFINE known == IF a.who = Nobody THEN None ELSE a.who
<1>1. CASE DropRead(a)
  BY <1>1, DropReadKeeps
<1>2. CASE /\ ~Superseded(a) /\ asks' = asks \ {a}
           /\ account' = a.who /\ identity' = known /\ loading' = FALSE /\ error' = FALSE
           /\ UNCHANGED <<panel, asked, route, login, leaving>>
           /\ IF identity # None /\ identity # known
                THEN seq' = seq + 1 /\ Revoked(calls) /\ cache' = Emptied /\ Draw(None, {})
                ELSE UNCHANGED <<seq, memory>> /\ Draw(dash.data, stored)
  <2>1. a.who \in Users \cup {Nobody}
    BY DEF SessionInv, SessionTypeOK, Read
  <2>2. account' \in Accounts /\ IdentityKnown'
    BY <1>2, <2>1, SessionAssumption DEF Accounts, IdentityKnown
  <2>3. LogoutIsFinal'
    BY <1>2, SessionAssumption DEF SessionInv, Away, AwayForGood, LogoutIsFinal, leaving
  <2>4. CASE identity # None /\ identity # known
    <3>1. gen' = gen + 1 /\ ended' = TRUE /\ calls' \subseteq calls /\ seq' = seq + 1
      BY <1>2, <2>4 DEF Revoked
    <3>2. Data' /\ dash' \in [on : BOOLEAN, data : Cached] /\ stored' \in SUBSET Users
      BY <1>2, <2>2, <2>4, DataRenewed, EmptiedIsCache DEF SessionInv
    <3>3. SessionTypeOK'
      <4> USE SessionTypeParts DEF SessionInv
      <4>1. PanelType' /\ LoginType' /\ LeaveType' /\ asks' \subseteq Read
        BY <1>2 DEF PanelType, LoginType, LeaveType, panel, leaving
      <4>2. MemoryType'
        BY <1>2, <2>4, <3>1, EmptiedIsCache DEF MemoryType
      <4>3. WhoType' /\ CountType'
        <5>1. WhoType'
          BY <1>2, <2>1 DEF WhoType
        <5>2. CountType'
          BY <3>1 DEF CountType
        <5>3. QED
          BY <5>1, <5>2
      <4>4. ScreenType'
        BY <1>2, <3>2 DEF ScreenType
      <4>5. QED
        BY <4>1, <4>2, <4>3, <4>4, SessionTypePartsNext
    <3>4. \A b \in asks : b.gen \in Nat /\ b.seq \in Nat /\ b.gen <= gen /\ b.seq <= seq
      BY DEF SessionInv, SessionTypeOK, Read, Away, AsksBound
    <3>5. \A b \in asks : b.gen <= gen' /\ b.seq <= seq' /\ b.gen # gen'
      BY <3>1, <3>4 DEF SessionInv, SessionTypeOK
    <3>6. AsksBound' /\ AwayForGood'
      BY <1>2, <3>5 DEF SessionInv, Away, AsksBound, AwayForGood, Superseded, panel, leaving
    <3>7. QED
      BY <2>3, <3>2, <3>3, <3>6 DEF SessionInv, Away
  <2>5. CASE ~(identity # None /\ identity # known)
    <3>1. UNCHANGED <<seq, gen, ended, calls, cache>> /\ Draw(dash.data, stored)
      BY <1>2, <2>5 DEF memory
    <3>2. dash.on => account' = account
      BY <1>2, <2>5, SessionAssumption DEF SessionInv, Data, IdentityKnown, DashShown
    <3>3. Data' /\ dash' \in [on : BOOLEAN, data : Cached] /\ stored' \in SUBSET Users
      BY <2>2, <3>1, <3>2, DataRedrawn DEF SessionInv
    <3>4. SessionTypeOK'
      <4> USE SessionTypeParts DEF SessionInv
      <4>1. PanelType' /\ LoginType' /\ LeaveType' /\ asks' \subseteq Read
        BY <1>2 DEF PanelType, LoginType, LeaveType, panel, leaving
      <4>2. MemoryType' /\ CountType'
        BY <3>1 DEF MemoryType, CountType
      <4>3. WhoType'
        BY <1>2, <2>1 DEF WhoType
      <4>4. ScreenType'
        BY <1>2, <3>3 DEF ScreenType
      <4>5. QED
        BY <4>1, <4>2, <4>3, <4>4, SessionTypePartsNext
    <3>5. AsksBound' /\ AwayForGood'
      BY <1>2, <3>1 DEF SessionInv, Away, AsksBound, AwayForGood, Superseded, panel, leaving
    <3>6. QED
      BY <2>3, <3>3, <3>4, <3>5 DEF SessionInv, Away
  <2>6. QED
    BY <2>4, <2>5
<1>3. QED
  BY <1>1, <1>2 DEF ReadBody

-----------------------------------------------------------------------------
(* The other requests.                                                     *)

LEMMA AskKeeps ==
  ASSUME SessionInv, NEW k, Ask(k)
  PROVE  SessionInv'
<1> DEFINE new == [kind |-> k, key |-> account, gen |-> gen, at |-> "sent",
                   old |-> IF k = "reload" THEN cache["load"] ELSE None]
<1> USE SessionTypeParts DEF SessionInv
<1>1. k \in AllKinds /\ account \in Users /\ calls' = calls \cup {new}
  BY SessionAssumption DEF Ask
<1>2. cache["load"] \in Cached /\ None \in Cached /\ gen \in Nat
  BY DEF MemoryType, CountType, Slots, Cached
<1>3. new \in Call
  BY <1>1, <1>2 DEF Call, Cached
<1>4. PanelType' /\ CountType' /\ WhoType' /\ ScreenType' /\ LoginType' /\ LeaveType'
      /\ asks' \subseteq Read
  BY DEF Ask, PanelType, CountType, WhoType, ScreenType, LoginType, LeaveType, panel, who, screen,
     leaving
<1>5. MemoryType'
  BY <1>1, <1>3 DEF Ask, MemoryType
<1>6. Data'
  BY DataFrame DEF Ask, who
<1>7. Away'
  BY AwayFrame DEF Ask, panel, who
<1>8. QED
  BY <1>4, <1>5, <1>6, <1>7, SessionTypePartsNext

LEMMA ServeCallKeeps ==
  ASSUME SessionInv, NEW c \in calls, ServeCall(c)
  PROVE  SessionInv'
<1> USE SessionTypeParts DEF SessionInv
<1>1. calls' \subseteq Call
  <2>1. "ok" \in Answers /\ "denied" \in Answers /\ "failed" \in Answers
    BY DEF Answers
  <2>2. QED
    BY <2>1, CallMoves DEF ServeCall
<1>2. /\ CountType' /\ WhoType' /\ ScreenType' /\ LoginType' /\ LeaveType' /\ asks' \subseteq Read
  BY DEF ServeCall, CountType, WhoType, ScreenType, LoginType, LeaveType, who, screen, leaving
<1>3. PanelType'
  BY DEF ServeCall, PanelType
<1>4. MemoryType'
  BY <1>1 DEF ServeCall, MemoryType
<1>5. Data'
  BY DataFrame DEF ServeCall, who
<1>6. Away'
  BY AwayFrame DEF ServeCall, who
<1>7. QED
  BY <1>2, <1>3, <1>4, <1>5, <1>6, SessionTypePartsNext

(* Steps that only change what is cached, in slots of this session.        *)
LEMMA CacheKeeps ==
  ASSUME SessionInv, calls' \subseteq Call, cache' \in [Slots -> Cached],
         \A s \in Slots \ {"load"} : cache'[s] = cache[s] \/ cache'[s] = None \/ cache'[s].gen = gen,
         UNCHANGED <<panel, asked, who, asks, gen, ended, screen, login, leaving>>
  PROVE  SessionInv'
<1> USE SessionTypeParts DEF SessionInv
<1>1. /\ PanelType' /\ CountType' /\ WhoType' /\ ScreenType' /\ LoginType' /\ LeaveType'
      /\ asks' \subseteq Read
  BY DEF PanelType, CountType, WhoType, ScreenType, LoginType, LeaveType, panel, who, screen, leaving
<1>2. MemoryType'
  BY DEF MemoryType
<1>3. OfThisSession'
  BY DEF Data, OfThisSession, who, screen
<1>4. StorageCleared' /\ IdentityKnown' /\ DashShown'
  BY DEF Data, StorageCleared, IdentityKnown, DashShown, who, screen
<1>5. Away'
  BY AwayFrame DEF panel, who
<1>6. QED
  BY <1>1, <1>2, <1>3, <1>4, <1>5, SessionTypePartsNext DEF Data

LEMMA DropCallKeeps ==
  ASSUME SessionInv, NEW c \in calls, DropCall(c)
  PROVE  SessionInv'
<1>1. c \in Call /\ calls \subseteq Call /\ cache \in [Slots -> Cached]
  BY SessionTypeParts DEF SessionInv, MemoryType
<1>2. /\ cache' \in [Slots -> Cached]
      /\ \A s \in Slots \ {"load"} : cache'[s] = cache[s]
  BY <1>1, FailedIsCache DEF DropCall
<1>3. QED
  BY <1>1, <1>2, CacheKeeps DEF DropCall

LEMMA CallHeadersKeeps ==
  ASSUME SessionInv, NEW c \in calls, CallHeaders(c)
  PROVE  SessionInv'
<1>1. CASE DropCall(c)
  BY <1>1, DropCallKeeps
<1>2. CASE /\ calls' = (calls \ {c}) \cup {[c EXCEPT !.at = "read"]}
           /\ UNCHANGED <<panel, asked, who, asks, gen, ended, cache, screen, login, leaving>>
  <2>1. "read" \in Answers
    BY DEF Answers
  <2>2. calls' \subseteq Call
    BY <1>2, <2>1, CallMoves DEF SessionInv
  <2>3. QED
    BY <1>2, <2>2, CacheKeeps, SessionTypeParts DEF SessionInv, MemoryType
<1>3. CASE /\ UNCHANGED <<panel, asked, asks, route, login, leaving>>
           /\ Revoked(calls \ {c}) /\ cache' = Failed(c, Emptied) /\ SignedOut
  <2>1. c \in Call
    BY SessionTypeParts DEF SessionInv, MemoryType
  <2>2. cache' \in [Slots -> Cached] /\ \A s \in Slots \ {"load"} : cache'[s] = None
    BY <1>3, <2>1, FailedIsCache, EmptiedIsCache
  <2>3. QED
    BY <1>3, <2>2, EndKeeps
<1>4. QED
  BY <1>1, <1>2, <1>3 DEF CallHeaders

LEMMA CallBodyKeeps ==
  ASSUME SessionInv, NEW c \in calls, CallBody(c)
  PROVE  SessionInv'
<1>1. CASE DropCall(c)
  BY <1>1, DropCallKeeps
<1>2. CASE ~Invalidated(c) /\ ~DropCall(c)
  <2> DEFINE new == [key |-> c.key, gen |-> c.gen]
  <2> USE SessionTypeParts DEF SessionInv
  <2>1. c \in Call /\ c.gen = gen /\ c.kind \in AllKinds /\ c.key \in Users
    BY <1>2 DEF Invalidated, MemoryType, Call
  <2>2. new \in Cached /\ new.gen = gen /\ new.key = c.key
    BY <2>1 DEF Call, Entry, Cached
  <2>3. /\ calls' = calls \ {c} /\ cache' = [cache EXCEPT ![Slot(c.kind)] = new]
        /\ dash' = IF c.kind = "summary" /\ dash.on /\ c.key = account
                     THEN [dash EXCEPT !.data = new] ELSE dash
        /\ stored' = IF Slot(c.kind) = "settings" /\ ~ended THEN stored \cup {c.key} ELSE stored
        /\ UNCHANGED <<panel, asked, who, asks, gen, ended, route, login, leaving>>
    BY <1>2 DEF CallBody
  <2>4. PanelType' /\ CountType' /\ WhoType' /\ LoginType' /\ LeaveType' /\ asks' \subseteq Read
    BY <2>3 DEF PanelType, CountType, WhoType, LoginType, LeaveType, panel, who, leaving
  <2>5. MemoryType'
    BY <2>2, <2>3 DEF MemoryType
  <2>6. ScreenType'
    BY <2>1, <2>2, <2>3 DEF ScreenType
  <2>7. \A s \in Slots : cache'[s] = cache[s] \/ cache'[s] = new
    BY <2>3 DEF MemoryType
  <2>8. dash' = dash \/ (dash'.data = new /\ dash'.on = dash.on /\ dash.on /\ c.key = account)
    BY <2>3 DEF ScreenType
  <2>9. OfThisSession' /\ StorageCleared' /\ IdentityKnown' /\ DashShown'
    BY <2>2, <2>3, <2>7, <2>8
       DEF Data, OfThisSession, StorageCleared, IdentityKnown, DashShown, who
  <2>10. Away'
    BY <2>3, AwayFrame DEF panel, who
  <2>11. QED
    BY <2>4, <2>5, <2>6, <2>9, <2>10, SessionTypePartsNext DEF Data
<1>3. QED
  BY <1>1, <1>2 DEF CallBody

LEMMA CacheExpiresKeeps ==
  ASSUME SessionInv, NEW s \in Slots, CacheExpires(s)
  PROVE  SessionInv'
<1>1. cache' = [cache EXCEPT ![s] = None] /\ calls' = calls
  BY DEF CacheExpires
<1>2. cache' \in [Slots -> Cached] /\ calls' \subseteq Call
  BY <1>1, SessionTypeParts DEF SessionInv, MemoryType, Cached
<1>3. \A t \in Slots \ {"load"} : cache'[t] = cache[t] \/ cache'[t] = None
  BY <1>1, SessionTypeParts DEF SessionInv, MemoryType
<1>4. QED
  BY <1>2, <1>3, CacheKeeps DEF CacheExpires

LEMMA RecallSettingsKeeps ==
  ASSUME SessionInv, RecallSettings
  PROVE  SessionInv'
<1> DEFINE new == [key |-> account, gen |-> gen]
<1>1. cache' = [cache EXCEPT !["settings"] = new] /\ calls' = calls
  BY DEF RecallSettings
<1>2. account \in Users /\ gen \in Nat
  BY SessionTypeParts DEF SessionInv, RecallSettings, ScreenType, CountType
<1>3. new \in Cached /\ new.gen = gen
  BY <1>2 DEF Cached, Entry
<1>4. cache' \in [Slots -> Cached] /\ calls' \subseteq Call
  BY <1>1, <1>3, SessionTypeParts DEF SessionInv, MemoryType
<1>5. \A t \in Slots \ {"load"} : cache'[t] = cache[t] \/ cache'[t].gen = gen
  BY <1>1, <1>3, SessionTypeParts DEF SessionInv, MemoryType
<1>6. QED
  BY <1>4, <1>5, CacheKeeps DEF RecallSettings

LEMMA NavigateKeeps ==
  ASSUME SessionInv, Navigate
  PROVE  SessionInv'
<1> USE SessionTypeParts DEF SessionInv
<1>1. UNCHANGED <<panel, asked, who, asks, memory, login, leaving>> /\ Draw(dash.data, stored)
  BY DEF Navigate
<1>2. account' \in Accounts /\ IdentityKnown'
  BY <1>1 DEF WhoType, Accounts, Data, IdentityKnown, who
<1>3. Data' /\ dash' \in [on : BOOLEAN, data : Cached] /\ stored' \in SUBSET Users
  BY <1>1, <1>2, DataRedrawn DEF memory, who
<1>4. PanelType' /\ CountType' /\ MemoryType' /\ WhoType' /\ LoginType' /\ LeaveType'
      /\ asks' \subseteq Read
  BY <1>1 DEF PanelType, CountType, MemoryType, WhoType, LoginType, LeaveType, panel, who, memory,
     leaving
<1>5. ScreenType'
  BY <1>3 DEF Navigate, ScreenType
<1>6. Away'
  BY <1>1, AwayFrame DEF panel, who, memory
<1>7. QED
  BY <1>3, <1>4, <1>5, <1>6, SessionTypePartsNext

-----------------------------------------------------------------------------
(* Signing in and out, and what happens outside the tab.                   *)

(* Steps of the form, of signing out and of the cookie.                    *)
LEMMA OutsideKeeps ==
  ASSUME SessionInv, PanelType', LoginType', LeaveType', UNCHANGED <<asked, who, asks, memory, screen>>,
         left' => /\ left
                  /\ pending' = pending \/ cookie' = Nobody
                  /\ ~pending' \/ logout' = "done" => cookie' = Nobody,
         left' => (~pending => ~pending')
  PROVE  SessionInv'
<1> USE SessionTypeParts DEF SessionInv
<1>1. CountType' /\ MemoryType' /\ WhoType' /\ ScreenType' /\ asks' \subseteq Read
  BY DEF CountType, MemoryType, WhoType, ScreenType, who, memory, screen
<1>2. Data'
  BY DataFrame DEF who, memory
<1>3. Away'
  BY DEF Away, AsksBound, AwayForGood, LogoutIsFinal, Superseded, who, memory
<1>4. QED
  BY <1>1, <1>2, <1>3, SessionTypePartsNext

LEMMA FormKeeps ==
  ASSUME SessionInv, SubmitLogin \/ LoginRefused \/ LoginLost \/ BackToPassword
  PROVE  SessionInv'
<1> USE SessionTypeParts DEF SessionInv
<1>1. LoginType'
  BY DEF SubmitLogin, LoginRefused, LoginLost, BackToPassword, LoginType, Form
<1>2. PanelType'
  BY DEF SubmitLogin, LoginRefused, LoginLost, BackToPassword, PanelType, panel
<1>3. UNCHANGED <<cookie, asked, who, asks, memory, screen, leaving>>
  BY DEF SubmitLogin, LoginRefused, LoginLost, BackToPassword, panel
<1>4. LeaveType'
  BY <1>3 DEF LeaveType, leaving
<1>5. QED
  BY <1>1, <1>2, <1>3, <1>4, OutsideKeeps DEF leaving, Away, AwayForGood

LEMMA ServeLoginKeeps ==
  ASSUME SessionInv, ServeLogin
  PROVE  SessionInv'
<1> USE SessionTypeParts DEF SessionInv
<1>1. LoginType'
  BY DEF ServeLogin, LoginType
<1>2. PanelType' /\ LeaveType'
  BY DEF ServeLogin, PanelType, LeaveType
<1>3. UNCHANGED <<asked, who, asks, memory, screen, pending, logout>>
      /\ (left' => left /\ cookie' = cookie)
  BY DEF ServeLogin
<1>4. QED
  BY <1>1, <1>2, <1>3, OutsideKeeps DEF Away, AwayForGood

LEMMA LoginAcceptedKeeps ==
  ASSUME SessionInv, LoginAccepted
  PROVE  SessionInv'
<1>1. CASE ~pending /\ login' = Form /\ Refresh
  BY <1>1, RefreshKeeps DEF LoginAccepted
<1>2. CASE login' = [login EXCEPT !.at = "idle"] /\ UNCHANGED <<asked, who, asks, memory, screen>>
  <2> USE SessionTypeParts DEF SessionInv
  <2>1. LoginType' /\ PanelType' /\ LeaveType'
    BY <1>2 DEF LoginAccepted, LoginType, PanelType, LeaveType, panel, leaving
  <2>2. QED
    BY <1>2, <2>1, OutsideKeeps DEF LoginAccepted, panel, leaving, Away, AwayForGood
<1>3. QED
  BY <1>1, <1>2 DEF LoginAccepted

LEMMA LogoutKeeps ==
  ASSUME SessionInv, Logout
  PROVE  SessionInv'
  BY EndKeeps, EmptiedIsCache DEF Logout

LEMMA LeavingKeeps ==
  ASSUME SessionInv, ServeLogout \/ LogoutDone \/ LogoutFails
  PROVE  SessionInv'
<1> USE SessionTypeParts DEF SessionInv
<1> DEFINE Safe == left => /\ pending' = pending \/ cookie' = Nobody
                           /\ ~pending' \/ logout' = "done" => cookie' = Nobody
                           /\ ~pending => ~pending'
<1> DEFINE Kept == LoginType' /\ PanelType' /\ LeaveType' /\ Safe
<1>1. left => (~pending \/ logout = "done" => cookie = Nobody)
  BY DEF Away, AwayForGood
<1>2. ASSUME ServeLogout PROVE Kept
  <2>1. fails' \in Nat /\ cookie' \in Users \cup {Nobody}
    BY <1>2 DEF ServeLogout, PanelType
  <2>2. LoginType' /\ PanelType'
    BY <1>2, <2>1 DEF ServeLogout, LoginType, PanelType
  <2>3. LeaveType' /\ Safe
    <3>1. cookie' = cookie \/ cookie' = Nobody
      BY <1>2 DEF ServeLogout
    <3>2. logout' \in {"done", "failed"} /\ (logout' = "done" => cookie' = Nobody)
      BY <1>2 DEF ServeLogout
    <3>3. pending' = pending /\ left' = left
      BY <1>2 DEF ServeLogout
    <3>4. QED
      BY <1>1, <3>1, <3>2, <3>3 DEF LeaveType
  <2>4. QED
    BY <2>2, <2>3
<1>3. ASSUME LogoutDone \/ LogoutFails PROVE Kept
  <2>1. UNCHANGED <<panel, asked, login, left>>
    BY <1>3 DEF LogoutDone, LogoutFails
  <2>2. LoginType' /\ PanelType'
    BY <2>1 DEF LoginType, PanelType, panel
  <2>3. LeaveType'
    BY <1>3 DEF LogoutDone, LogoutFails, LeaveType
  <2>4. Safe
    <3>1. CASE LogoutDone
      BY <1>1, <3>1 DEF LogoutDone, panel
    <3>2. CASE LogoutFails
      <4>1. pending' = pending /\ logout' = "none" /\ cookie' = cookie /\ left' = left
        BY <3>2 DEF LogoutFails, panel
      <4>2. QED
        BY <1>1, <4>1
    <3>3. QED
      BY <1>3, <3>1, <3>2
  <2>5. QED
    BY <2>2, <2>3, <2>4
<1>4. UNCHANGED <<asked, who, asks, memory, screen, left>>
  BY DEF ServeLogout, LogoutDone, LogoutFails
<1>5. Kept
  BY <1>2, <1>3
<1>6. QED
  BY <1>4, <1>5, OutsideKeeps

LEMMA CookieChangesKeeps ==
  ASSUME SessionInv, CookieChanges
  PROVE  SessionInv'
<1> USE SessionTypeParts DEF SessionInv
<1>1. LoginType' /\ PanelType' /\ LeaveType'
  <2>1. switches' \in Nat
    BY DEF CookieChanges, PanelType
  <2>2. left' \in BOOLEAN /\ cookie' \in Users \cup {Nobody}
    BY DEF CookieChanges
  <2>3. QED
    BY <2>1, <2>2 DEF CookieChanges, LoginType, PanelType, LeaveType
<1>2. UNCHANGED <<asked, who, asks, memory, screen, pending, logout>>
      /\ (left' => left /\ cookie' = Nobody)
  BY DEF CookieChanges
<1>3. QED
  BY <1>1, <1>2, OutsideKeeps

LEMMA ReloadKeeps ==
  ASSUME SessionInv, Reload
  PROVE  SessionInv'
<1> USE SessionTypeParts DEF SessionInv
<1>1. gen \in Nat /\ asked \in Nat /\ stored \in SUBSET Users
  BY DEF CountType, PanelType, ScreenType
<1>2. account' = None /\ identity' = None /\ cache' = Emptied /\ ended' = FALSE
      /\ Draw(None, stored)
  BY DEF Reload
<1>3. account' \in Accounts /\ IdentityKnown'
  BY <1>2, SessionAssumption DEF Accounts, IdentityKnown
<1>4. /\ Data' /\ dash' \in [on : BOOLEAN, data : Cached] /\ stored' \in SUBSET Users
  BY <1>1, <1>2, <1>3, DataRenewed, EmptiedIsCache
<1>5. gen' \in Nat /\ seq' = 1 /\ asks' = FirstRead(gen')
  BY <1>1 DEF Reload
<1>6. asks' \subseteq Read /\ \A a \in asks' : a.gen <= gen' /\ a.seq <= seq'
  BY <1>5 DEF FirstRead, Read
<1>7. PanelType' /\ CountType'
  <2>1. asked' \in Nat
    BY <1>1 DEF Reload
  <2>2. CountType'
    BY <1>5 DEF CountType
  <2>3. QED
    BY <2>1, <2>2 DEF Reload, PanelType, panel
<1>8. MemoryType' /\ WhoType'
  BY <1>2, EmptiedIsCache DEF Reload, MemoryType, WhoType
<1>9. ScreenType' /\ LoginType' /\ LeaveType'
  BY <1>4 DEF Reload, ScreenType, LoginType, LeaveType, Form
<1>10. Away'
  BY <1>6 DEF Reload, Away, AsksBound, AwayForGood, LogoutIsFinal
<1>11. QED
  BY <1>4, <1>6, <1>7, <1>8, <1>9, <1>10, SessionTypePartsNext

-----------------------------------------------------------------------------
LEMMA SessionNextInv == SessionInv /\ [SessionNext]_svars => SessionInv'
<1> SUFFICES ASSUME SessionInv, [SessionNext]_svars
             PROVE  SessionInv'
  OBVIOUS
<1>1. CASE RefreshAccount
  BY <1>1, RefreshKeeps DEF RefreshAccount
<1>2. ASSUME NEW k, Ask(k) PROVE SessionInv'
  BY <1>2, AskKeeps
<1>3. CASE RecallSettings \/ Navigate
  BY <1>3, RecallSettingsKeeps, NavigateKeeps
<1>4. CASE SubmitLogin \/ LoginRefused \/ LoginLost \/ BackToPassword
  BY <1>4, FormKeeps
<1>5. CASE ServeLogin \/ LoginAccepted
  BY <1>5, ServeLoginKeeps, LoginAcceptedKeeps
<1>6. CASE Logout \/ ServeLogout \/ LogoutDone \/ LogoutFails
  BY <1>6, LogoutKeeps, LeavingKeeps
<1>7. CASE CookieChanges \/ Reload
  BY <1>7, CookieChangesKeeps, ReloadKeeps
<1>8. ASSUME NEW a \in asks, ServeRead(a) \/ ReadHeaders(a) \/ ReadBody(a) PROVE SessionInv'
  BY <1>8, ServeReadKeeps, ReadHeadersKeeps, ReadBodyKeeps
<1>9. ASSUME NEW c \in calls, ServeCall(c) \/ CallHeaders(c) \/ CallBody(c) PROVE SessionInv'
  BY <1>9, ServeCallKeeps, CallHeadersKeeps, CallBodyKeeps
<1>10. ASSUME NEW s \in Slots, CacheExpires(s) PROVE SessionInv'
  BY <1>10, CacheExpiresKeeps
<1>11. CASE UNCHANGED svars
  <2>1. UNCHANGED <<panel, asked, who, asks, memory, screen, login, leaving>>
    BY <1>11 DEF svars
  <2>2. PanelType' /\ LoginType' /\ LeaveType'
    BY <2>1, SessionTypeParts DEF SessionInv, PanelType, LoginType, LeaveType, panel, leaving
  <2>3. QED
    BY <2>1, <2>2, OutsideKeeps DEF panel, leaving, SessionInv, Away, AwayForGood
<1>12. QED
  BY <1>1, <1>2, <1>3, <1>4, <1>5, <1>6, <1>7, <1>8, <1>9, <1>10, <1>11
     DEF SessionNext, Poll, Prefetch, AskPrivate

(* What the tab holds is of the session it is in, nothing of the dashboard *)
(* stays in sessionStorage after a session ended, and whoever signed out   *)
(* is not shown the pages again: adminRevocation.ts, AccountContext.tsx.   *)
THEOREM SessionIsSound == SessionSpec => []SessionSound
<1>1. SessionInv => SessionSound
  BY DEF SessionInv, Data, Away, SessionSound
<1>2. QED
  BY <1>1, SessionInitInv, SessionNextInv, PTL DEF SessionSpec

-----------------------------------------------------------------------------
(* The promise.  What is held never belongs to another session, so a step  *)
(* that starts no session adds at most this one's data, or drops some; and *)
(* a step that starts one leaves nothing.                                  *)

LEMMA HeldIsOfSession ==
  ASSUME OfThisSession
  PROVE  Held = {} \/ Held = {gen}
  BY DEF OfThisSession, Held

LEMMA HeldIsOfSessionNext ==
  ASSUME OfThisSession'
  PROVE  Held' = {} \/ Held' = {gen'}
  BY DEF OfThisSession, Held

LEMMA NothingHeld ==
  ASSUME \A s \in Slots \ {"load"} : cache'[s] = None, dash'.data = None
  PROVE  Held' = {}
  BY DEF Held

LEMMA EndLeavesNothing ==
  ASSUME SessionInv, NEW slots \in [Slots -> Cached], \A s \in Slots \ {"load"} : slots[s] = None,
         cache' = slots, NEW inFlight, Revoked(inFlight), SignedOut
  PROVE  gen' = gen + 1 /\ Held' = {}
<1>1. gen' = gen + 1 /\ account' = Nobody /\ Draw(None, {})
  BY DEF Revoked, SignedOut
<1>2. dash' = Off
  BY <1>1, SessionAssumption DEF Draw, View, SignedOut
<1>3. QED
  BY <1>1, <1>2, NothingHeld DEF Off

(* A new session begins with nothing held, in every step that begins one.  *)
LEMMA NewSession ==
  ASSUME SessionInv, [SessionNext]_svars
  PROVE  gen' = gen \/ (gen' = gen + 1 /\ Held' = {})
<1> USE SessionTypeParts DEF SessionInv
<1>1. CASE Logout
  BY <1>1, EndLeavesNothing, EmptiedIsCache DEF Logout
<1>2. CASE Reload
  <2>1. cache' = Emptied /\ gen' = gen + 1 /\ Draw(None, stored)
    BY <1>2 DEF Reload
  <2>2. \A s \in Slots \ {"load"} : cache'[s] = None
    BY <2>1, EmptiedIsCache
  <2>3. dash'.data = None
    BY <2>1, <2>2 DEF Draw, Snapshot, Off, Slots
  <2>4. QED
    BY <2>1, <2>2, <2>3, NothingHeld
<1>3. ASSUME NEW a \in asks, ReadHeaders(a)
      PROVE  gen' = gen \/ (gen' = gen + 1 /\ Held' = {})
  <2>1. CASE Revoked(calls) /\ cache' = Emptied /\ SignedOut
    BY <2>1, EndLeavesNothing, EmptiedIsCache
  <2>2. CASE UNCHANGED memory
    BY <2>2 DEF memory
  <2>3. QED
    BY <1>3, <2>1, <2>2 DEF ReadHeaders, DropRead
<1>4. ASSUME NEW a \in asks, ReadBody(a)
      PROVE  gen' = gen \/ (gen' = gen + 1 /\ Held' = {})
  <2>1. CASE Revoked(calls) /\ cache' = Emptied /\ Draw(None, {})
    <3>1. \A s \in Slots \ {"load"} : cache'[s] = None
      BY <2>1, EmptiedIsCache
    <3>2. dash'.data = None
      BY <2>1, <3>1 DEF Draw, Snapshot, Off, Slots
    <3>3. QED
      BY <2>1, <3>1, <3>2, NothingHeld DEF Revoked
  <2>2. CASE UNCHANGED memory
    BY <2>2 DEF memory
  <2>3. QED
    BY <1>4, <2>1, <2>2 DEF ReadBody, DropRead
<1>5. ASSUME NEW c \in calls, CallHeaders(c)
      PROVE  gen' = gen \/ (gen' = gen + 1 /\ Held' = {})
  <2>1. CASE Revoked(calls \ {c}) /\ cache' = Failed(c, Emptied) /\ SignedOut
    <3>1. c \in Call
      BY DEF MemoryType
    <3>2. /\ Failed(c, Emptied) \in [Slots -> Cached]
          /\ \A s \in Slots \ {"load"} : Failed(c, Emptied)[s] = None
      BY <3>1, EmptiedIsCache, FailedIsCache
    <3>3. QED
      BY <2>1, <3>2, EndLeavesNothing
  <2>2. CASE gen' = gen
    BY <2>2
  <2>3. QED
    BY <1>5, <2>1, <2>2 DEF CallHeaders, DropCall
<1>6. CASE gen' = gen
  BY <1>6
<1>7. CASE SubmitLogin \/ ServeLogin \/ LoginRefused \/ LoginLost \/ BackToPassword \/ CookieChanges
  BY <1>7 DEF SubmitLogin, ServeLogin, LoginRefused, LoginLost, BackToPassword, CookieChanges, memory
<1>8. CASE RefreshAccount \/ LoginAccepted \/ Navigate
  BY <1>8 DEF RefreshAccount, LoginAccepted, Navigate, Refresh, memory
<1>9. CASE ServeLogout \/ LogoutDone \/ LogoutFails \/ RecallSettings
  BY <1>9 DEF ServeLogout, LogoutDone, LogoutFails, RecallSettings, memory
<1>10. ASSUME NEW k, Ask(k) PROVE gen' = gen
  BY <1>10 DEF Ask
<1>11. ASSUME NEW a \in asks, ServeRead(a) PROVE gen' = gen
  BY <1>11 DEF ServeRead, memory
<1>12. ASSUME NEW c \in calls, ServeCall(c) \/ CallBody(c) PROVE gen' = gen
  BY <1>12 DEF ServeCall, CallBody, DropCall
<1>13. ASSUME NEW s \in Slots, CacheExpires(s) PROVE gen' = gen
  BY <1>13 DEF CacheExpires
<1>14. CASE UNCHANGED svars
  BY <1>14 DEF svars, memory
<1>15. QED
  BY <1>1, <1>2, <1>3, <1>4, <1>5, <1>7, <1>8, <1>9, <1>10, <1>11, <1>12, <1>13, <1>14
     DEF SessionNext, Poll, Prefetch, AskPrivate

(* Every step of the tab is a step of the promise, or none: data of one    *)
(* session never survives into the next.                                   *)
THEOREM SessionPromiseIsKept == SessionSpec => KeepsSessionPromise
<1>1. SessionInit => Promise!SInit
  <2> SUFFICES ASSUME SessionInit
               PROVE  gen = 0 /\ Held = {}
    BY DEF Promise!SInit
  <2>1. \A s \in Slots \ {"load"} : cache[s] = None
    BY EmptiedIsCache DEF SessionInit
  <2>2. QED
    BY <2>1 DEF SessionInit, Held, Off
<1>2. SessionInv /\ SessionInv' /\ [SessionNext]_svars => [Promise!SNext]_(Promise!sessionVars)
  <2> SUFFICES ASSUME SessionInv, SessionInv', [SessionNext]_svars
               PROVE  Promise!SNext
    OBVIOUS
  <2>1. (Held = {} \/ Held = {gen}) /\ (Held' = {} \/ Held' = {gen'})
    BY HeldIsOfSession, HeldIsOfSessionNext DEF SessionInv, Data
  <2>2. CASE gen' = gen + 1 /\ Held' = {}
    BY <2>2 DEF Promise!SNext, Promise!End
  <2>3. CASE gen' = gen /\ Held' = {}
    BY <2>3 DEF Promise!SNext, Promise!Drop
  <2>4. CASE gen' = gen /\ Held' = {gen}
    BY <2>1, <2>4 DEF Promise!SNext, Promise!Hold
  <2>5. QED
    BY <2>1, <2>2, <2>3, <2>4, NewSession
<1>3. QED
  BY <1>1, <1>2, SessionInitInv, SessionNextInv, PTL DEF SessionSpec, KeepsSessionPromise, Promise!SSpec

-----------------------------------------------------------------------------
(* THE SETTINGS.  Types first, then what moves a request along (Moved),    *)
(* then one lemma for each kind of step.                                   *)

Bodies == UNION {[D -> Values] : D \in SUBSET Fields}

\* The card of a setting, if it is on the page, shows this value.
Shows(f, v) == cards[f] # Absent => cards[f].text = v

LEMMA KindsApart ==
  /\ Absent \notin Fields /\ Absent \notin Own \cup Reread \cup Whole \cup One
  /\ Fields \subseteq Own \cup Reread \cup Whole \cup One
  /\ Whole \cap (Own \cup Reread \cup One) = {} /\ One \cap (Own \cup Reread) = {} /\ Own \cap Reread = {}
  /\ Switches \subseteq Own \cup Reread
  /\ \A f \in Switches, g \in Whole \cup One : PageOf(f) # PageOf(g)
  /\ Short \cap (Switches \cup Selects) = {} /\ Switches \cap (Selects \cup Long \cup Buttons) = {}
BY FieldsAssumption
DEF PageOf, Own, Reread, Whole, One, Switches, Selects, Short, Long, Buttons, Site, General, Storage,
    Reports, Known

LEMMA BodyType ==
  /\ \A b : b \in Bodies <=> b \in [DOMAIN b -> Values] /\ DOMAIN b \subseteq Fields
  /\ Stores \subseteq Bodies
  /\ <<>> \in Bodies
<1>1. \A b : b \in Bodies <=> b \in [DOMAIN b -> Values] /\ DOMAIN b \subseteq Fields
  BY DEF Bodies
<1>2. Stores \subseteq Bodies
  BY DEF Bodies, Stores
<1>3. <<>> \in Bodies
  <2>1. <<>> \in [{} -> Values]
    OBVIOUS
  <2>2. QED
    BY <2>1 DEF Bodies
<1>4. QED
  BY <1>1, <1>2, <1>3

\* A request in flight, field by field.
LEMMA PostType ==
  \A c : c \in Post <=>
    /\ c = [n |-> c.n, f |-> c.f, op |-> c.op, body |-> c.body, prev |-> c.prev,
            mount |-> c.mount, at |-> c.at]
    /\ c.n \in Nat /\ c.f \in Fields \cup {Absent} /\ c.op \in {"save", "get"}
    /\ c.body \in Bodies /\ c.prev \in Values /\ c.mount \in Nat
    /\ c.at \in {"sent", "done", "failed"}
BY DEF Post, Bodies

-----------------------------------------------------------------------------
(* Type correctness.                                                        *)

\* The groups of variables.
CopyType  == /\ saved \in Stores /\ settings \in Stores /\ settingsLoading \in BOOLEAN
             /\ settingsError \in BOOLEAN /\ behind \in [Fields -> Nat \cup {Nowhere}]
PageType  == here \in {PageOf(f) : f \in Fields} /\ cards \in [Fields -> Card \cup {Absent}] /\ mount \in Nat
PostsType == \A c \in posts : c \in Post
SavesType == saves \in 0..MaxSaves /\ faults \in 0..MaxFaults /\ doubtful \in BOOLEAN

LEMMA SettingsTypeParts == SettingsTypeOK <=> CopyType /\ PageType /\ PostsType /\ SavesType
  BY DEF SettingsTypeOK, CopyType, PageType, PostsType, SavesType

LEMMA SettingsTypePartsNext == SettingsTypeOK' <=> CopyType' /\ PageType' /\ PostsType' /\ SavesType'
  BY DEF SettingsTypeOK, CopyType, PageType, PostsType, SavesType

\* What the helpers make of cards, requests and the copy.
LEMMA MountedType ==
  ASSUME NEW p, NEW s \in Stores, NEW there \in BOOLEAN
  PROVE  /\ Mounted(p, s, there) \in [Fields -> Card \cup {Absent}]
         /\ \A f \in Fields : Mounted(p, s, there)[f] # Absent =>
              there /\ Mounted(p, s, there)[f].text = s[f] /\ PageOf(f) = p
         /\ ~there => \A f \in Fields : Mounted(p, s, there)[f] = Absent
  BY DEF Mounted, Stores, Card

LEMMA SyncedType ==
  ASSUME NEW f \in Fields, NEW k \in Card \cup {Absent}, NEW s \in Stores
  PROVE  Synced(f, k, s) \in Card \cup {Absent}
  BY FieldsAssumption DEF Synced, Stores, Card

LEMMA ReleasedType ==
  ASSUME NEW c \in Post, NEW cs \in [Fields -> Card \cup {Absent}], NEW failed \in BOOLEAN
  PROVE  /\ Released(c, cs, failed) \in [Fields -> Card \cup {Absent}]
         /\ \A f \in Fields : cs[f] = Absent => Released(c, cs, failed)[f] = Absent
<1>1. c.prev \in Values
  BY PostType
<1>2. ASSUME NEW f \in Fields, cs[f] # Absent
      PROVE  [text |-> IF failed /\ f \in Switches \cup Selects THEN c.prev ELSE cs[f].text,
              busy |-> FALSE] \in Card
  BY <1>1, <1>2 DEF Card
<1>3. QED
  BY <1>2 DEF Released

\* What becomes of a request on its way.
Same(c, d) == d.f = c.f /\ d.prev = c.prev /\ d.mount = c.mount

MovedTo(c, at)     == [c EXCEPT !.at = at]
AnsweredWith(c, s) == [c EXCEPT !.at = "done", !.body = s]
AskedAgain(c)      == [c EXCEPT !.op = "get", !.at = "sent"]

LEMMA MovedPost ==
  ASSUME NEW c \in Post, NEW at \in {"sent", "done", "failed"}, NEW d, d = MovedTo(c, at)
  PROVE  d \in Post /\ Same(c, d) /\ d.at = at /\ d.op = c.op /\ d.body = c.body
  BY DEF Post, Same, MovedTo

LEMMA ServedPost ==
  ASSUME NEW c \in Post, NEW s \in Stores, NEW d, d = AnsweredWith(c, s)
  PROVE  d \in Post /\ Same(c, d) /\ d.at = "done" /\ d.op = c.op /\ d.body = s
<1>1. s \in Bodies
  BY BodyType
<1>2. QED
  BY <1>1 DEF Post, Bodies, Same, AnsweredWith

LEMMA RefetchedPost ==
  ASSUME NEW c \in Post, NEW d, d = AskedAgain(c)
  PROVE  d \in Post /\ Same(c, d) /\ d.at = "sent" /\ d.op = "get" /\ d.body = c.body
  BY DEF Post, Same, AskedAgain

\* The panel, the network or the page moves a request on: it is served, refused,
\* lost, or asked again as a read; the provider and the cards stay.
Replaces(c, d) == posts' = (posts \ {c}) \cup {d}

ServedAs(c, d) ==
  /\ c.at = "sent" /\ d.at = "done" /\ d.op = c.op /\ doubtful' = doubtful
  /\ c.op = "get" => d.body = saved /\ saved' = saved
  /\ c.op = "save" => d.body = c.body /\ saved' = Written(c.body)
RefusedAs(c, d) ==
  /\ c.op = "save" /\ c.at = "sent" /\ d.at = "failed" /\ d.op = c.op /\ d.body = c.body
  /\ saved' = saved /\ doubtful' = doubtful
LostAs(c, d)  == d.at = "failed" /\ d.op = c.op /\ d.body = c.body /\ doubtful' = TRUE
AgainAs(c, d) ==
  /\ c.op = "save" /\ c.at = "done" /\ c.f \in Reread /\ d.op = "get" /\ d.at = "sent"
  /\ saved' = saved /\ doubtful' = doubtful

Moved(c, d) ==
  /\ Replaces(c, d) /\ Same(c, d)
  /\ ServedAs(c, d) \/ RefusedAs(c, d) \/ LostAs(c, d) \/ AgainAs(c, d)

LEMMA Moves ==
  ASSUME PostsType, saved \in Stores, doubtful \in BOOLEAN, NEW c \in posts,
         ServeSetting(c) \/ Refuse(c) \/ ReloadFails(c) \/ LoseSetting(c) \/ Refetch(c)
  PROVE  \E d \in Post : Moved(c, d)
<1>0. c \in Post
  BY DEF PostsType
<1> USE DEF Moved, Replaces, Answered, bounds
<1>1. CASE ServeSetting(c) /\ c.op = "get"
  <2>1. PICK d : d = AnsweredWith(c, saved)
    OBVIOUS
  <2>2. d \in Post /\ Same(c, d) /\ d.at = "done" /\ d.op = c.op /\ d.body = saved
    BY <1>0, <2>1, ServedPost
  <2>3. Replaces(c, d) /\ c.at = "sent" /\ saved' = saved /\ doubtful' = doubtful
    BY <1>1, <2>1 DEF ServeSetting, AnsweredWith
  <2>4. ServedAs(c, d)
    BY <1>1, <2>2, <2>3 DEF ServedAs
  <2>5. QED
    BY <2>2, <2>3, <2>4
<1>2. CASE ServeSetting(c) /\ c.op = "save"
  <2>1. PICK d : d = MovedTo(c, "done")
    OBVIOUS
  <2>2. d \in Post /\ Same(c, d) /\ d.at = "done" /\ d.op = c.op /\ d.body = c.body
    BY <1>0, <2>1, MovedPost
  <2>3. Replaces(c, d) /\ c.at = "sent" /\ saved' = Written(c.body) /\ doubtful' = doubtful
    BY <1>2, <2>1 DEF ServeSetting, MovedTo
  <2>4. ServedAs(c, d)
    BY <1>2, <2>2, <2>3 DEF ServedAs
  <2>5. QED
    BY <2>2, <2>3, <2>4
<1>3. CASE Refuse(c) \/ ReloadFails(c) \/ LoseSetting(c)
  <2>1. PICK d : d = MovedTo(c, "failed")
    OBVIOUS
  <2>2. d \in Post /\ Same(c, d) /\ d.at = "failed" /\ d.op = c.op /\ d.body = c.body
    BY <1>0, <2>1, MovedPost
  <2>3. Replaces(c, d)
    BY <1>3, <2>1 DEF Refuse, ReloadFails, LoseSetting, MovedTo
  <2>4. \/ c.op = "save" /\ c.at = "sent" /\ saved' = saved /\ doubtful' = doubtful
        \/ doubtful' = TRUE
    <3>1. CASE Refuse(c)
      BY <3>1 DEF Refuse
    <3>2. CASE ReloadFails(c)
      BY <3>2 DEF ReloadFails
    <3>3. CASE LoseSetting(c)
      <4>1. c.op \in {"save", "get"}
        BY <1>0 DEF Post
      <4>2. doubtful' = (doubtful \/ c.at = "done" \/ c.op = "get") /\ saved' = saved
            /\ c.at \in {"sent", "done"}
        BY <3>3 DEF LoseSetting
      <4>3. QED
        BY <4>1, <4>2
    <3>4. QED
      BY <1>3, <3>1, <3>2, <3>3
  <2>5. RefusedAs(c, d) \/ LostAs(c, d)
    BY <2>2, <2>4 DEF RefusedAs, LostAs
  <2>6. QED
    BY <2>2, <2>3, <2>5
<1>4. CASE Refetch(c)
  <2>1. PICK d : d = AskedAgain(c)
    OBVIOUS
  <2>2. d \in Post /\ Same(c, d) /\ d.at = "sent" /\ d.op = "get"
    BY <1>0, <2>1, RefetchedPost
  <2>3. Replaces(c, d) /\ c.op = "save" /\ c.at = "done" /\ c.f \in Reread /\ saved' = saved /\ doubtful' = doubtful
    BY <1>4, <2>1 DEF Refetch, AskedAgain
  <2>4. AgainAs(c, d)
    BY <2>2, <2>3 DEF AgainAs
  <2>5. QED
    BY <2>2, <2>3, <2>4
<1>5. QED
  BY <1>1, <1>2, <1>3, <1>4 DEF ServeSetting

(* What a request carries: a save its own key or every key, an answered   *)
(* read every key.                                                         *)
BodyOk(c) ==
  /\ c.op = "get" => c.f \in Reread \cup {Absent}
  /\ c.op = "save" => /\ c.f \in Fields
                      /\ DOMAIN c.body = IF c.f \in Own \cup Reread THEN {c.f} ELSE Fields
  /\ c.op = "get" /\ c.at = "done" => c.body \in Stores
BodiesOk == \A c \in posts : BodyOk(c)

LEMMA TypeInit == SettingsInit => SettingsTypeOK /\ BodiesOk
<1> SUFFICES ASSUME SettingsInit PROVE SettingsTypeOK /\ BodiesOk
  OBVIOUS
<1>1. Default \in Values
  BY FieldsAssumption DEF SettingsInit, Default
<1>2. CopyType
  BY <1>1, FieldsAssumption DEF SettingsInit, CopyType, Stores, NoneBehind
<1>3. PageType
  BY DEF SettingsInit, PageType
<1>4. PostsType
  <2> DEFINE c == [n |-> 0, f |-> Absent, op |-> "get", body |-> <<>>, prev |-> Default,
                   mount |-> 0, at |-> "sent"]
  <2>1. c \in Post
    BY <1>1, BodyType, PostType
  <2>2. posts = {c}
    BY DEF SettingsInit
  <2>3. QED
    BY <2>1, <2>2 DEF PostsType
<1>5. SavesType
  <2>1. saves = 0 /\ faults = 0 /\ doubtful = FALSE
    BY DEF SettingsInit
  <2>2. saves \in 0..MaxSaves /\ faults \in 0..MaxFaults
    BY <2>1, FieldsAssumption
  <2>3. QED
    BY <2>1, <2>2 DEF SavesType
<1>6. BodiesOk
  BY DEF SettingsInit, BodiesOk, BodyOk
<1>7. QED
  BY <1>1, <1>2, <1>3, <1>4, <1>5, <1>6, SettingsTypeParts

LEMMA SettlesType ==
  ASSUME SettingsTypeOK, NEW c \in posts, NEW s \in Stores, NEW e \in BOOLEAN, NEW failed \in BOOLEAN,
         Settles(c, s, e, failed)
  PROVE  SettingsTypeOK'
<1> USE DEF Settles, bounds
<1>0. CopyType /\ PageType /\ PostsType /\ SavesType
  BY SettingsTypeParts
<1>1. CopyType'
  <2>1. c.mount \in Nat
    BY <1>0 DEF PostsType, Post
  <2>2. NoneBehind \in [Fields -> Nat \cup {Nowhere}]
    BY DEF NoneBehind
  <2>3. behind' \in [Fields -> Nat \cup {Nowhere}]
    BY <1>0, <2>1, <2>2 DEF CopyType
  <2>4. QED
    BY <1>0, <2>3 DEF CopyType
<1>2. PostsType'
  BY <1>0 DEF PostsType
<1>3. SavesType'
  BY <1>0 DEF SavesType
<1>4. cards' \in [Fields -> Card \cup {Absent}]
  <2>1. CASE e
    BY <1>0, <2>1, MountedType DEF NoCards, CopyType
  <2>2. CASE ~e /\ settingsError
    BY <1>0, <2>2, MountedType DEF CopyType
  <2>3. CASE ~e /\ ~settingsError
    <3> DEFINE cs == [f \in Fields |-> Synced(f, cards[f], s)]
    <3>1. cs \in [Fields -> Card \cup {Absent}]
      BY <1>0, SyncedType DEF PageType
    <3>2. cards' = Released(c, cs, failed)
      BY <2>3
    <3>3. c \in Post
      BY <1>0 DEF PostsType
    <3> HIDE DEF cs
    <3>4. QED
      BY <3>1, <3>2, <3>3, ReleasedType
  <2>4. QED
    BY <2>1, <2>2, <2>3
<1>5. PageType'
  BY <1>0, <1>4 DEF PageType
<1>6. QED
  BY <1>1, <1>2, <1>3, <1>5, SettingsTypePartsNext

LEMMA BodiesStep ==
  ASSUME SettingsTypeOK, BodiesOk, [SettingsNext]_pvars
  PROVE  BodiesOk'
<1>0. CopyType /\ PageType /\ PostsType /\ doubtful \in BOOLEAN
  BY SettingsTypeParts DEF SavesType
<1> USE DEF BodiesOk, BodyOk, Answered
<1>1. CASE posts' \subseteq posts
  BY <1>1
<1>2. ASSUME NEW f \in Fields, NEW v \in Values, Save(f, v) PROVE BodiesOk'
  <2> DEFINE d == [n |-> saves + 1, f |-> f, op |-> "save", body |-> Body(f, v),
                   prev |-> cards[f].text, mount |-> mount, at |-> "sent"]
  <2>1. posts' = posts \cup {d}
    BY <1>2 DEF Save
  <2>2. DOMAIN Body(f, v) = IF f \in Own \cup Reread THEN {f} ELSE Fields
    BY <1>0 DEF Body, CopyType, Stores
  <2>3. BodyOk(d)
    BY <2>2
  <2> HIDE DEF d
  <2>4. QED
    BY <2>1, <2>3
<1>3. ASSUME NEW c \in posts,
             ServeSetting(c) \/ Refuse(c) \/ ReloadFails(c) \/ LoseSetting(c) \/ Refetch(c)
      PROVE  BodiesOk'
  <2>1. BodyOk(c) /\ saved \in Stores
    BY <1>0 DEF CopyType
  <2>2. PICK d \in Post : Moved(c, d)
    BY <1>0, <1>3, <2>1, Moves
  <2>3. c.op \in {"save", "get"}
    BY <1>0 DEF PostsType, Post
  <2>4. BodyOk(d)
    BY <2>1, <2>2, <2>3 DEF Moved, Same, ServedAs, RefusedAs, LostAs, AgainAs
  <2>5. QED
    BY <2>2, <2>4 DEF Moved, Replaces
<1>4. ASSUME NEW c \in posts, Loaded(c) \/ OwnSettles(c) \/ RereadSettles(c) \/ WholeSettles(c) \/ OneSettles(c)
      PROVE  posts' \subseteq posts
  BY <1>4 DEF Loaded, OwnSettles, RereadSettles, WholeSettles, OneSettles, Settles
<1>5. ASSUME NEW p, NEW f, NEW v, Visit(p) \/ Type(f, v) PROVE posts' \subseteq posts
  BY <1>5 DEF Visit, Type
<1>6. QED
  BY <1>1, <1>2, <1>3, <1>4, <1>5 DEF SettingsNext, Settle, pvars

LEMMA TypeStep == SettingsTypeOK /\ BodiesOk /\ [SettingsNext]_pvars => SettingsTypeOK'
<1> SUFFICES ASSUME SettingsTypeOK, BodiesOk, [SettingsNext]_pvars PROVE SettingsTypeOK'
  OBVIOUS
<1>0. CopyType /\ PageType /\ PostsType /\ SavesType
  BY SettingsTypeParts
<1> USE DEF provider, shownNow, bounds
<1>1. CASE UNCHANGED pvars
  BY <1>0, <1>1, SettingsTypePartsNext DEF pvars, CopyType, PageType, PostsType, SavesType
<1>2. ASSUME NEW p \in {PageOf(f) : f \in Fields}, Visit(p) PROVE SettingsTypeOK'
  <2>1. PageType'
    <3>1. PICK there \in BOOLEAN : there = (~settingsLoading /\ ~settingsError)
      OBVIOUS
    <3>2. cards' = Mounted(p, settings, there) /\ here' = p /\ mount' = mount + 1
      BY <1>2, <3>1 DEF Visit
    <3>3. cards' \in [Fields -> Card \cup {Absent}]
      BY <1>0, <3>2, MountedType DEF CopyType
    <3>4. QED
      BY <1>0, <3>2, <3>3 DEF PageType
  <2>2. QED
    BY <1>0, <1>2, <2>1, SettingsTypePartsNext DEF Visit, CopyType, PostsType, SavesType
<1>3. ASSUME NEW f \in Fields, NEW v \in Values, Type(f, v) PROVE SettingsTypeOK'
  <2>1. PageType'
    BY <1>0, <1>3 DEF Type, PageType, Card
  <2>2. QED
    BY <1>0, <1>3, <2>1, SettingsTypePartsNext DEF Type, CopyType, PostsType, SavesType
<1>4. ASSUME NEW f \in Fields, NEW v \in Values, Save(f, v) PROVE SettingsTypeOK'
  <2>1. cards[f] \in Card
    BY <1>0, <1>4 DEF Save, PageType
  <2>2. PageType'
    BY <1>0, <1>4, <2>1 DEF Save, PageType, Card
  <2>3. Body(f, v) \in Bodies
    BY <1>0, BodyType DEF Body, CopyType, Stores
  <2>4. saves + 1 \in 0..MaxSaves
    BY <1>0, <1>4, FieldsAssumption DEF Save, SavesType
  <2>5. PostsType'
    BY <1>0, <1>4, <2>1, <2>3, <2>4 DEF Save, PostsType, PageType, Post, Bodies, Card
  <2>6. SavesType'
    BY <1>0, <1>4, <2>4 DEF Save, SavesType
  <2>7. QED
    BY <1>0, <1>4, <2>2, <2>5, <2>6, SettingsTypePartsNext DEF Save, CopyType
<1>5. ASSUME NEW c \in posts, ServeSetting(c) \/ Refuse(c) \/ ReloadFails(c) \/ LoseSetting(c) \/ Refetch(c)
      PROVE  SettingsTypeOK'
  <2> USE <1>5 DEF ServeSetting, Refuse, ReloadFails, LoseSetting, Refetch, Answered
  <2>0. c \in Post /\ c.body \in Bodies /\ saved \in Bodies
    BY <1>0, BodyType DEF PostsType, CopyType, Post, Bodies
  <2>1. saved' \in Stores
    BY <1>0, <2>0, BodyType DEF Written, CopyType, Stores
  <2>2. PostsType'
    <3>1. PICK d \in Post : Moved(c, d)
      BY <1>0, Moves DEF CopyType, SavesType
    <3>2. QED
      BY <1>0, <3>1 DEF PostsType, Moved, Replaces
  <2>3. SavesType'
    <3>1. doubtful' \in BOOLEAN
      BY <1>0 DEF SavesType
    <3>2. saves' = saves /\ (faults' = faults \/ (faults < MaxFaults /\ faults' = faults + 1))
      OBVIOUS
    <3>3. QED
      BY <1>0, <3>1, <3>2, FieldsAssumption DEF SavesType
  <2>4. QED
    BY <1>0, <2>1, <2>2, <2>3, SettingsTypePartsNext DEF CopyType, PageType
<1>6. ASSUME NEW c \in posts, Loaded(c) PROVE SettingsTypeOK'
  <2>1. settings' \in Stores
    BY <1>0, <1>6, KindsApart DEF Loaded, CopyType, BodiesOk, BodyOk, PostsType, Post
  <2>2. PICK there \in BOOLEAN : there = (c.at = "done")
    OBVIOUS
  <2>3. cards' = Mounted(here, settings', there)
    BY <1>6, <2>2 DEF Loaded
  <2>4. CopyType'
    BY <1>0, <1>6, <2>1 DEF Loaded, CopyType
  <2>5. PageType'
    <3>1. cards' \in [Fields -> Card \cup {Absent}]
      BY <2>1, <2>2, <2>3, MountedType
    <3>2. QED
      BY <1>0, <1>6, <3>1 DEF Loaded, PageType
  <2>6. QED
    BY <1>0, <1>6, <2>4, <2>5, SettingsTypePartsNext DEF Loaded, PostsType, SavesType
<1>7. ASSUME NEW c \in posts, OwnSettles(c) \/ RereadSettles(c) \/ WholeSettles(c) \/ OneSettles(c)
      PROVE  SettingsTypeOK'
  <2>0. c \in Post /\ c.body \in Bodies /\ BodyOk(c) /\ settings \in Stores /\ settingsError \in BOOLEAN
    BY <1>0 DEF PostsType, CopyType, Post, Bodies, BodiesOk
  <2>1. CASE OwnSettles(c)
    <3>1. PICK failed \in BOOLEAN : failed = (c.at = "failed")
      OBVIOUS
    <3>2. Settles(c, settings, settingsError, failed)
      BY <2>1, <3>1 DEF OwnSettles
    <3>3. QED
      BY <2>0, <3>2, SettlesType
  <2>2. CASE RereadSettles(c)
    <3>1. c.op = "get" /\ c.at = "done" => c.body \in Stores
      BY <2>0 DEF BodyOk
    <3>2. QED
      BY <2>0, <2>2, <3>1, SettlesType DEF RereadSettles
  <2>3. CASE WholeSettles(c)
    <3>1. c.body \in Stores
      BY <2>0, <2>3, KindsApart, BodyType DEF BodyOk, WholeSettles, Stores, Post
    <3>2. QED
      BY <2>0, <2>3, <3>1, SettlesType DEF WholeSettles
  <2>4. CASE OneSettles(c)
    <3>1. [settings EXCEPT ![c.f] = c.body[c.f]] \in Stores
      BY <2>0, <2>4, KindsApart, BodyType DEF BodyOk, OneSettles, Stores, Post
    <3>2. QED
      BY <2>0, <2>4, <3>1, SettlesType DEF OneSettles
  <2>5. QED
    BY <1>7, <2>1, <2>2, <2>3, <2>4
<1>8. QED
  BY <1>1, <1>2, <1>3, <1>4, <1>5, <1>6, <1>7 DEF SettingsNext, Settle

-----------------------------------------------------------------------------
(* The invariant.  While nothing has made the copy unreliable there is at  *)
(* most one request under way, and what the copy and the cards still owe   *)
(* the panel is exactly what that request is about: nothing before a save  *)
(* is applied, the setting of its card from then until it is settled.      *)

\* Before the first read is answered there is no card and no other request.
LoadingAlone ==
  /\ settingsLoading => /\ \A f \in Fields : cards[f] = Absent
                        /\ \A c, d \in posts : c = d
  /\ \A c \in posts : (c.f = Absent) <=> settingsLoading
ErrorHides == settingsError => \A f \in Fields : cards[f] = Absent
PostsBegun == \A c \in posts : c.mount <= mount
OneAtATime == ~doubtful => \A c, d \in posts : c = d

\* The cards are those of the page, and what was left behind was so before now.
CardsOfPage == \A f \in Fields : cards[f] # Absent => PageOf(f) = here
BehindBefore == \A f \in Fields : behind[f] <= mount

\* The copy and a switch, with those left behind.
Agrees(g) == settings[g] = saved[g] \/ Behind(g)
Right(g)  == Shows(g, IF Remounted(g) THEN settings[g] ELSE saved[g])

\* Nothing of this save has been written.
Unapplied(c) == c.op = "save" /\ c.at # "done"

FirstReading(c) == c.at # "failed" /\ (c.at = "done" => c.body = saved)

OthersAgree(c) ==
  /\ \A g \in Fields \ {c.f} : Agrees(g)
  /\ \A g \in (Fields \cap Switches) \ {c.f} : Right(g)

\* A save of the whole copy: whatever was left behind, it writes the copy.
CarriesCopy(c) ==
  c.f \notin Own \cup Reread =>
    /\ \A g \in Fields \ {c.f} : c.body[g] = settings[g]
    /\ \A g \in Fields \cap Switches : Shows(g, settings[g])

\* A switch that posts its own key: it shows what it posts until it is mounted
\* again, and then the copy.
OwnSwitch(c) ==
  c.f \in Switches \cap Own =>
    Shows(c.f, IF c.mount = mount THEN c.body[c.f] ELSE settings[c.f])

BeforeSave(c) ==
  Unapplied(c) =>
    /\ Agrees(c.f)
    /\ c.f \in Switches =>
         /\ c.f \in Reread => c.body[c.f] # settings[c.f]
         /\ IF c.mount = mount
            THEN c.prev = IF Remounted(c.f) THEN settings[c.f] ELSE saved[c.f]
            ELSE Right(c.f)

AfterSave(c) ==
  ~Unapplied(c) =>
    /\ c.op = "save" => saved[c.f] = c.body[c.f]
    /\ c.f \notin Own \cup Reread => saved = c.body
    /\ c.op = "get" => c.at # "failed" /\ (c.at = "done" => c.body = saved)
    /\ c.f \in Switches \cap Reread => settings[c.f] # saved[c.f]

Settling(c) == OthersAgree(c) /\ CarriesCopy(c) /\ OwnSwitch(c) /\ BeforeSave(c) /\ AfterSave(c)

Consistent(c) == IF c.f = Absent THEN FirstReading(c) ELSE Settling(c)
InFlight == ~doubtful => \A c \in posts : Consistent(c)

\* What holds of the provider and its page whatever happened.
Frame == LoadingAlone /\ ErrorHides /\ PostsBegun /\ OneAtATime /\ CardsOfPage /\ BehindBefore

Rest == Frame /\ InFlight /\ CopyIsCurrent

SInv == SettingsTypeOK /\ BodiesOk /\ Rest

\* What the invariant says of one request.
LEMMA OfPost ==
  ASSUME SInv, NEW c \in posts
  PROVE  /\ c \in Post /\ BodyOk(c) /\ c.op \in {"save", "get"} /\ c.at \in {"sent", "done", "failed"}
         /\ c.f \in Fields \cup {Absent} /\ c.mount \in Nat /\ c.mount <= mount
         /\ saved \in Stores /\ settings \in Stores /\ settingsLoading \in BOOLEAN
         /\ settingsError \in BOOLEAN /\ doubtful \in BOOLEAN
         /\ mount \in Nat /\ cards \in [Fields -> Card \cup {Absent}]
         /\ c.f = Absent => c.op = "get" /\ settingsLoading
         /\ c.f # Absent => c.f \in Fields /\ ~settingsLoading
         /\ behind \in [Fields -> Nat \cup {Nowhere}]
         /\ ~doubtful => posts = {c} /\ Consistent(c)
<1>1. c \in Post /\ BodyOk(c) /\ PostsBegun /\ OneAtATime /\ InFlight /\ LoadingAlone
      /\ CopyType /\ PageType /\ SavesType
  BY SettingsTypeParts DEF SInv, Rest, Frame, PostsType, BodiesOk
<1>2. c.op \in {"save", "get"} /\ c.at \in {"sent", "done", "failed"}
      /\ c.f \in Fields \cup {Absent} /\ c.mount \in Nat
  BY <1>1 DEF Post
<1>3. c.f = Absent => c.op = "get" /\ settingsLoading
  BY <1>1, <1>2, FieldsAssumption DEF BodyOk, LoadingAlone
<1>4. c.f # Absent => c.f \in Fields /\ ~settingsLoading
  BY <1>1, <1>2 DEF LoadingAlone
<1>5. ~doubtful => posts = {c} /\ Consistent(c)
  BY <1>1 DEF OneAtATime, InFlight
<1>6. QED
  BY <1>1, <1>2, <1>3, <1>4, <1>5 DEF CopyType, PageType, SavesType, PostsBegun

\* The types of the variables that the steps below read.
Typed ==
  /\ saved \in Stores /\ settings \in Stores /\ settingsLoading \in BOOLEAN
  /\ settingsError \in BOOLEAN /\ doubtful \in BOOLEAN
  /\ mount \in Nat /\ cards \in [Fields -> Card \cup {Absent}]
  /\ behind \in [Fields -> Nat \cup {Nowhere}]

LEMMA StateTypes == SInv => Typed
  BY SettingsTypeParts DEF SInv, CopyType, PageType, SavesType, Typed

\* A visit: new cards show the copy.
LEMMA VisitStep ==
  ASSUME SInv, NEW p, Visit(p)
  PROVE  Rest'
<1> DEFINE there == ~settingsLoading /\ ~settingsError
<1>0. Typed
  BY StateTypes
<1>1. /\ UNCHANGED <<saved, settings, settingsLoading, settingsError, posts, doubtful, behind>>
      /\ mount' = mount + 1 /\ here' = p
      /\ \A f \in Fields : cards'[f] # Absent =>
           there /\ cards'[f].text = settings[f] /\ PageOf(f) = p
  <2>1. PICK b \in BOOLEAN : b = there
    OBVIOUS
  <2>2. cards' = Mounted(p, settings, b)
    BY <2>1 DEF Visit
  <2>3. \A f \in Fields : cards'[f] # Absent =>
          b /\ cards'[f].text = settings[f] /\ PageOf(f) = p
    BY <1>0, <2>2, MountedType DEF Typed
  <2>4. QED
    BY <2>1, <2>3 DEF Visit, provider, bounds
<1>2. Frame'
  <2>1. LoadingAlone'
    BY <1>1 DEF SInv, Rest, Frame, LoadingAlone
  <2>2. ErrorHides'
    BY <1>1 DEF ErrorHides
  <2>3. PostsBegun'
    BY <1>0, <1>1, OfPost DEF PostsBegun, Typed
  <2>4. OneAtATime'
    BY <1>1 DEF SInv, Rest, Frame, OneAtATime
  <2>5. CardsOfPage'
    BY <1>1 DEF CardsOfPage
  <2>6. BehindBefore'
    BY <1>0, <1>1 DEF SInv, Rest, Frame, BehindBefore, Typed, Nowhere
  <2>7. QED
    BY <2>1, <2>2, <2>3, <2>4, <2>5, <2>6 DEF Frame
<1>3. ASSUME NEW g \in Fields, Agrees(g) PROVE Agrees(g)' /\ Right(g)'
  <2>1. behind[g] < mount'
    BY <1>0, <1>1 DEF SInv, Rest, Frame, BehindBefore, Typed, Nowhere
  <2>2. Agrees(g)'
    BY <1>1, <1>3 DEF Agrees, Behind
  <2>3. Right(g)'
    BY <1>1, <1>3, <2>1 DEF Agrees, Behind, Remounted, Right, Shows
  <2>4. QED
    BY <2>2, <2>3
<1>4. InFlight'
  <2> SUFFICES ASSUME ~doubtful, NEW c \in posts PROVE Consistent(c)'
    BY <1>1 DEF InFlight
  <2>1. Consistent(c) /\ c.mount # mount' /\ (c.f # Absent => c.f \in Fields)
    BY <1>0, <1>1, OfPost DEF Typed
  <2>2. CASE c.f = Absent
    BY <1>1, <2>1, <2>2 DEF Consistent, FirstReading
  <2>3. CASE c.f # Absent
    <3>1. Settling(c) /\ c.f \in Fields
      BY <2>1, <2>3 DEF Consistent
    <3>2. OthersAgree(c)'
      BY <1>3, <3>1 DEF Settling, OthersAgree
    <3>3. CarriesCopy(c)'
      BY <1>1, <3>1 DEF Settling, CarriesCopy, Shows
    <3>4. OwnSwitch(c)'
      BY <1>1, <2>1, <3>1 DEF OwnSwitch, Shows
    <3>5. BeforeSave(c)'
      <4>1. Unapplied(c)' => Unapplied(c)
        BY DEF Unapplied
      <4>2. Unapplied(c) => Agrees(c.f)' /\ Right(c.f)'
        BY <1>3, <3>1 DEF Settling, BeforeSave
      <4>3. Unapplied(c) /\ c.f \in Switches /\ c.f \in Reread => c.body[c.f] # settings[c.f]
        BY <3>1 DEF Settling, BeforeSave
      <4>4. QED
        BY <1>1, <2>1, <4>1, <4>2, <4>3 DEF BeforeSave
    <3>6. AfterSave(c)'
      BY <1>1, <3>1 DEF Settling, AfterSave, Unapplied
    <3>7. QED
      BY <2>3, <3>2, <3>3, <3>4, <3>5, <3>6 DEF Consistent, Settling
  <2>4. QED
    BY <2>2, <2>3
<1>5. CopyIsCurrent'
  <2> SUFFICES ASSUME Quiet
               PROVE  /\ \A f \in Fields : Agrees(f)'
                      /\ \A f \in Fields \cap Switches : Right(f)'
    BY <1>1 DEF CopyIsCurrent, Quiet, Agrees, Right, Shows
  <2>1. \A f \in Fields : Agrees(f)
    BY DEF SInv, Rest, CopyIsCurrent, Agrees
  <2>2. QED
    BY <1>3, <2>1
<1>6. QED
  BY <1>2, <1>4, <1>5 DEF Rest

\* Typing touches no switch.
LEMMA TypingStep ==
  ASSUME SInv, NEW f \in Fields, NEW v \in Values, Type(f, v)
  PROVE  Rest'
<1>0. Typed
  BY StateTypes
<1>1. /\ UNCHANGED <<saved, settings, settingsLoading, settingsError, here, mount, posts, doubtful, behind>>
      /\ cards[f] # Absent
      /\ \A g \in Fields : g # f => cards'[g] = cards[g]
      /\ f \notin Switches
  BY <1>0, KindsApart DEF Type, provider, bounds, Typed
<1>2. Frame'
  BY <1>1 DEF SInv, Rest, Frame, LoadingAlone, ErrorHides, PostsBegun, OneAtATime, CardsOfPage, BehindBefore
<1>3. \A g \in Fields : /\ Agrees(g)' <=> Agrees(g)
                        /\ g \in Switches => (Right(g)' <=> Right(g))
  BY <1>1 DEF Agrees, Behind, Remounted, Right, Shows
<1>4. InFlight'
  <2> SUFFICES ASSUME ~doubtful, NEW c \in posts PROVE Consistent(c)'
    BY <1>1 DEF InFlight
  <2>1. Consistent(c) /\ (c.f # Absent => c.f \in Fields)
    BY OfPost
  <2>2. CASE c.f = Absent
    BY <1>1, <2>1, <2>2 DEF Consistent, FirstReading
  <2>3. CASE c.f # Absent
    <3>1. Settling(c) /\ c.f \in Fields
      BY <2>1, <2>3 DEF Consistent
    <3>2. OthersAgree(c)'
      BY <1>3, <3>1 DEF Settling, OthersAgree
    <3>3. CarriesCopy(c)' /\ OwnSwitch(c)'
      BY <1>1, <3>1 DEF Settling, CarriesCopy, OwnSwitch, Shows
    <3>4. BeforeSave(c)'
      BY <1>1, <1>3, <3>1 DEF Settling, BeforeSave, Unapplied, Remounted, Behind
    <3>5. AfterSave(c)'
      BY <1>1, <3>1 DEF Settling, AfterSave, Unapplied
    <3>6. QED
      BY <2>3, <3>2, <3>3, <3>4, <3>5 DEF Consistent, Settling
  <2>4. QED
    BY <2>2, <2>3
<1>5. CopyIsCurrent'
  BY <1>1 DEF SInv, Rest, CopyIsCurrent, Quiet, Behind, Remounted
<1>6. QED
  BY <1>2, <1>4, <1>5 DEF Rest

\* A save begins: if nothing else is under way the copy agrees, and the card shows
\* a value it did not show before.
LEMMA SaveStep ==
  ASSUME SInv, NEW f \in Fields, NEW v \in Values, Save(f, v)
  PROVE  Rest'
<1>0. Typed
  BY StateTypes
<1>1. PICK d : d = [n |-> saves + 1, f |-> f, op |-> "save", body |-> Body(f, v),
                    prev |-> cards[f].text, mount |-> mount, at |-> "sent"]
  OBVIOUS
<1>2. /\ d.f = f /\ d.op = "save" /\ d.body = Body(f, v) /\ d.prev = cards[f].text
      /\ d.mount = mount /\ d.at = "sent"
  BY <1>1
<1>3. /\ posts' = posts \cup {d} /\ doubtful' = (doubtful \/ posts # {})
      /\ UNCHANGED <<saved, settings, settingsLoading, settingsError, here, mount, behind>>
  BY <1>1 DEF Save, provider
<1>4. /\ cards[f] # Absent /\ cards'[f] # Absent
      /\ \A g \in Fields : g # f => cards'[g] = cards[g]
      /\ f \in Switches => v # cards[f].text /\ cards'[f].text = v
  <2>1. [text |-> IF f \in Switches \cup Selects THEN v ELSE cards[f].text,
         busy |-> f \notin Buttons] # Absent
    <3>1. cards[f] \in Card
      BY <1>0 DEF Save, Typed
    <3>2. [text |-> IF f \in Switches \cup Selects THEN v ELSE cards[f].text,
           busy |-> f \notin Buttons] \in Card
      BY <3>1 DEF Card
    <3>3. QED
      BY <3>2, FieldsAssumption
  <2>2. QED
    BY <1>0, <2>1 DEF Save, Typed
<1>5. ~settingsLoading /\ ~settingsError /\ f # Absent /\ PageOf(f) = here
  BY <1>4, FieldsAssumption DEF SInv, Rest, Frame, LoadingAlone, ErrorHides, CardsOfPage
<1>6. Frame'
  <2>1. LoadingAlone'
    BY <1>2, <1>3, <1>5 DEF SInv, Rest, Frame, LoadingAlone
  <2>2. ErrorHides'
    BY <1>3, <1>5 DEF ErrorHides
  <2>3. PostsBegun'
    BY <1>0, <1>2, <1>3 DEF SInv, Rest, Frame, PostsBegun, Typed
  <2>4. OneAtATime'
    BY <1>3 DEF OneAtATime
  <2>5. CardsOfPage' /\ BehindBefore'
    BY <1>3, <1>4 DEF SInv, Rest, Frame, CardsOfPage, BehindBefore
  <2>6. QED
    BY <2>1, <2>2, <2>3, <2>4, <2>5 DEF Frame
<1>7. CASE doubtful'
  BY <1>6, <1>7 DEF Rest, InFlight, CopyIsCurrent, Quiet
<1>8. CASE ~doubtful'
  <2>1. posts = {} /\ ~doubtful /\ posts' = {d}
    BY <1>3, <1>8
  <2>2. /\ \A g \in Fields : Agrees(g)
        /\ \A g \in Fields \cap Switches : Right(g)
    BY <1>5, <2>1 DEF SInv, Rest, CopyIsCurrent, Quiet, Agrees, Right, Shows
  <2>3. \A g \in Fields : /\ Agrees(g)'
                          /\ g \in Switches /\ g # f => Right(g)'
    BY <1>3, <1>4, <2>2 DEF Agrees, Right, Shows, Behind, Remounted
  <2>4. f \notin Own \cup Reread => \A g \in Fields \ {f} : d.body[g] = settings[g]
    BY <1>0, <1>2 DEF Body, Typed, Stores
  <2>5. d.body[f] = v
    BY <1>0, <1>2 DEF Body, Typed, Stores
  <2>6. OthersAgree(d)'
    BY <1>2, <2>3 DEF OthersAgree
  <2>7. CarriesCopy(d)'
    <3>1. ASSUME f \notin Own \cup Reread, NEW g \in Fields \cap Switches PROVE cards'[g] = Absent
      <4>1. g # f /\ PageOf(g) # PageOf(f)
        BY <3>1, KindsApart
      <4>2. QED
        BY <1>4, <1>5, <4>1 DEF SInv, Rest, Frame, CardsOfPage
    <3>2. QED
      BY <1>2, <1>3, <2>4, <3>1 DEF CarriesCopy, Shows
  <2>8. OwnSwitch(d)'
    BY <1>2, <1>3, <1>4, <2>5 DEF OwnSwitch, Shows
  <2>9. BeforeSave(d)'
    <3>1. f \in Switches /\ f \in Reread => d.body[f] # settings[f]
      <4>1. f \in Switches /\ f \in Reread => ~Behind(f) /\ settings[f] = saved[f]
        BY <2>2, KindsApart DEF Behind, Agrees
      <4>2. QED
        BY <1>4, <2>2, <2>5, <4>1 DEF Right, Shows, Remounted
    <3>2. f \in Switches => d.prev = IF Remounted(f) THEN settings[f] ELSE saved[f]
      BY <1>2, <1>4, <2>2 DEF Right, Shows
    <3>3. Remounted(f)' <=> Remounted(f)
      BY <1>3 DEF Remounted, Behind
    <3>4. QED
      BY <1>2, <1>3, <2>3, <3>1, <3>2, <3>3 DEF BeforeSave
  <2>10. AfterSave(d)'
    BY <1>2 DEF AfterSave, Unapplied
  <2>11. InFlight'
    BY <1>2, <1>5, <2>1, <2>6, <2>7, <2>8, <2>9, <2>10 DEF InFlight, Consistent, Settling
  <2>12. CopyIsCurrent'
    BY <2>1 DEF CopyIsCurrent, Quiet
  <2>13. QED
    BY <1>6, <2>11, <2>12 DEF Rest
<1>9. QED
  BY <1>7, <1>8

\* A save of the whole copy writes what it carries.
LEMMA WholeWritten ==
  ASSUME SInv, NEW c \in posts, c.op = "save", c.f \in Fields, c.f \notin Own \cup Reread
  PROVE  Written(c.body) = c.body
<1>1. c \in Post /\ BodyOk(c)
  BY OfPost
<1>2. c.body \in Bodies /\ DOMAIN c.body = Fields
  BY <1>1 DEF Post, Bodies, BodyOk
<1>3. c.body \in [Fields -> Values]
  BY <1>2, BodyType
<1>4. QED
  BY <1>2, <1>3 DEF Written

\* A request moves on: what is not yet in the copy is what its save has written.
LEMMA MovedStep ==
  ASSUME SInv, NEW c \in posts, NEW d \in Post, Moved(c, d),
         UNCHANGED <<settings, settingsLoading, settingsError, here, cards, mount, behind>>
  PROVE  Rest'
<1>0. Typed
  BY StateTypes
<1>1. /\ posts' = (posts \ {c}) \cup {d}
      /\ d.f = c.f /\ d.prev = c.prev /\ d.mount = c.mount
      /\ doubtful => doubtful'
  BY DEF Moved, Replaces, Same, ServedAs, RefusedAs, LostAs, AgainAs
<1>2. /\ BodyOk(c) /\ c.op \in {"save", "get"} /\ c.f \in Fields \cup {Absent}
      /\ c.f = Absent => c.op = "get"
      /\ c.f # Absent => c.f \in Fields
      /\ ~doubtful => posts = {c} /\ Consistent(c)
  BY OfPost
<1>3. Frame'
  <2>1. LoadingAlone'
    BY <1>1 DEF SInv, Rest, Frame, LoadingAlone
  <2>2. ErrorHides' /\ CardsOfPage' /\ BehindBefore'
    BY DEF SInv, Rest, Frame, ErrorHides, CardsOfPage, BehindBefore
  <2>3. PostsBegun'
    BY <1>1 DEF SInv, Rest, Frame, PostsBegun
  <2>4. OneAtATime'
    BY <1>1, <1>2 DEF OneAtATime
  <2>5. QED
    BY <2>1, <2>2, <2>3, <2>4 DEF Frame
<1>4. CASE doubtful'
  BY <1>3, <1>4 DEF Rest, InFlight, CopyIsCurrent, Quiet
<1>5. CASE ~doubtful'
  <2>1. ~doubtful /\ posts = {c} /\ Consistent(c) /\ posts' = {d}
    BY <1>1, <1>2, <1>5
  <2> SUFFICES Consistent(d)'
    BY <1>3, <2>1 DEF Rest, InFlight, CopyIsCurrent, Quiet
  <2>2. ServedAs(c, d) \/ RefusedAs(c, d) \/ AgainAs(c, d)
    BY <1>5 DEF Moved, LostAs
  <2>3. CASE c.f = Absent
    BY <1>1, <1>2, <2>1, <2>2, <2>3
    DEF Consistent, FirstReading, ServedAs, RefusedAs, AgainAs
  <2>4. CASE c.f # Absent
    <3>0. OthersAgree(c) /\ CarriesCopy(c) /\ OwnSwitch(c) /\ BeforeSave(c) /\ AfterSave(c)
      BY <2>1, <2>4 DEF Consistent, Settling
    <3>1. CASE saved' = saved
      <4>1. \A g \in Fields : (Agrees(g)' <=> Agrees(g)) /\ (Right(g)' <=> Right(g))
            /\ (Remounted(g)' <=> Remounted(g))
        BY <3>1 DEF Agrees, Right, Shows, Behind, Remounted
      <4>2. c.f \in Fields /\ d.f = c.f /\ d.mount = c.mount /\ d.prev = c.prev
        BY <1>1, <1>2, <2>4
      <4>3. \/ d.op = c.op /\ d.body = c.body /\ (Unapplied(d) <=> Unapplied(c))
               /\ c.op = "save" /\ d.at # "done"
            \/ ServedAs(c, d) /\ c.op = "save"
            \/ c.f \in Reread /\ ~Unapplied(c) /\ d.op = "get" /\ d.at \in {"sent", "done"}
               /\ (d.at = "done" => d.body = saved)
        BY <1>2, <2>2, <2>4 DEF ServedAs, RefusedAs, AgainAs, Unapplied, BodyOk
      <4>4. OthersAgree(d)'
        BY <3>0, <4>1, <4>2 DEF OthersAgree
      <4>5. CASE d.op = c.op /\ d.body = c.body /\ (Unapplied(d) <=> Unapplied(c))
                 /\ c.op = "save" /\ d.at # "done"
        <5>1. CarriesCopy(d)' /\ OwnSwitch(d)'
          BY <3>0, <4>2, <4>5 DEF CarriesCopy, OwnSwitch, Shows
        <5>2. BeforeSave(d)'
          BY <3>0, <3>1, <4>1, <4>2, <4>5 DEF BeforeSave, Unapplied
        <5>3. AfterSave(d)'
          BY <4>5 DEF AfterSave, Unapplied
        <5>4. QED
          BY <2>4, <4>2, <4>4, <5>1, <5>2, <5>3 DEF Consistent, Settling
      <4>6. CASE c.f \in Reread /\ ~Unapplied(c) /\ d.op = "get" /\ d.at \in {"sent", "done"}
                 /\ (d.at = "done" => d.body = saved)
        <5>1. CarriesCopy(d)' /\ OwnSwitch(d)'
          BY <4>2, <4>6, KindsApart DEF CarriesCopy, OwnSwitch
        <5>2. BeforeSave(d)'
          BY <4>6 DEF BeforeSave, Unapplied
        <5>3. AfterSave(d)'
          BY <3>0, <3>1, <4>2, <4>6 DEF AfterSave, Unapplied
        <5>4. QED
          BY <2>4, <4>2, <4>4, <5>1, <5>2, <5>3 DEF Consistent, Settling
      <4>7. CASE ServedAs(c, d) /\ c.op = "save"
        <5>1. d.op = "save" /\ d.at = "done" /\ d.body = c.body /\ c.at = "sent" /\ saved' = Written(c.body)
          BY <4>7 DEF ServedAs
        <5>2. saved'[c.f] = c.body[c.f]
          BY <1>2, <2>4, <4>2, <4>7, <5>1 DEF Written, BodyOk
        <5>3. CarriesCopy(d)' /\ OwnSwitch(d)'
          BY <3>0, <4>2, <5>1 DEF CarriesCopy, OwnSwitch, Shows
        <5>4. c.f \notin Own \cup Reread => saved' = d.body
          BY <1>2, <2>4, <4>2, <4>7, <5>1, WholeWritten
        <5>5. BeforeSave(d)' /\ AfterSave(d)'
          BY <3>0, <4>2, <4>7, <5>1, <5>2, <5>4 DEF BeforeSave, AfterSave, Unapplied
        <5>6. QED
          BY <2>4, <4>2, <4>4, <5>3, <5>5 DEF Consistent, Settling
      <4>8. QED
        BY <4>3, <4>5, <4>6, <4>7
    <3>2. CASE saved' # saved
      <4>0. ServedAs(c, d) /\ c.op = "save"
        BY <1>2, <2>2, <3>2 DEF ServedAs, RefusedAs, AgainAs
      <4>1. /\ saved' = Written(c.body) /\ d.op = "save" /\ d.at = "done" /\ d.body = c.body
            /\ c.at = "sent" /\ Unapplied(c) /\ d.f = c.f /\ d.mount = c.mount
        BY <1>1, <4>0 DEF ServedAs, Unapplied
      <4>2. /\ c.f \in Fields /\ c.f \in DOMAIN c.body
            /\ c.f \in Own \cup Reread => DOMAIN c.body = {c.f}
            /\ c.f \notin Own \cup Reread => DOMAIN c.body = Fields
        BY <1>2, <2>4, <4>0 DEF BodyOk
      <4>3. saved'[c.f] = c.body[c.f]
        BY <4>1, <4>2 DEF Written
      <4>4. \A g \in Fields \ {c.f} :
              IF c.f \in Own \cup Reread THEN saved'[g] = saved[g] ELSE saved'[g] = settings[g]
        BY <3>0, <4>1, <4>2 DEF Written, CarriesCopy
      <4>5. \A g \in Fields \ {c.f} : Agrees(g)'
        BY <3>0, <4>4 DEF OthersAgree, Agrees, Behind
      <4>6. \A g \in (Fields \cap Switches) \ {c.f} : Right(g)'
        BY <3>0, <4>4 DEF OthersAgree, CarriesCopy, Right, Shows, Remounted, Behind
      <4>7. OthersAgree(d)' /\ CarriesCopy(d)' /\ OwnSwitch(d)'
        BY <3>0, <4>1, <4>5, <4>6 DEF OthersAgree, CarriesCopy, OwnSwitch, Shows
      <4>8. BeforeSave(d)' /\ AfterSave(d)'
        <5>1. c.f \notin Own \cup Reread => saved' = d.body
          BY <1>2, <4>0, <4>1, <4>2, WholeWritten
        <5>2. QED
          BY <3>0, <4>1, <4>3, <5>1 DEF BeforeSave, AfterSave, Unapplied
      <4>9. QED
        BY <2>4, <4>1, <4>7, <4>8 DEF Consistent, Settling
    <3>3. QED
      BY <3>1, <3>2
  <2>5. QED
    BY <2>3, <2>4
<1>6. QED
  BY <1>4, <1>5

\* The first read is answered: the copy is what the panel holds, and cards are mounted
\* from it.
LEMMA LoadedStep ==
  ASSUME SInv, NEW c \in posts, Loaded(c)
  PROVE  Rest'
<1>0. Typed
  BY StateTypes
<1>1. /\ c.f = Absent /\ settingsLoading' = FALSE /\ settingsError' = (c.at = "failed")
      /\ settings' = IF c.at = "done" THEN c.body ELSE settings
      /\ posts' = posts \ {c} /\ UNCHANGED <<saved, here, mount, doubtful, behind>>
  BY DEF Loaded, bounds
<1>2. posts' = {}
  BY <1>1 DEF SInv, Rest, Frame, LoadingAlone
<1>3. PICK there \in BOOLEAN : there = (c.at = "done")
  OBVIOUS
<1>4. settings' \in Stores
  BY <1>0, <1>1, OfPost DEF Typed, BodyOk
<1>5. \A f \in Fields : cards'[f] # Absent =>
        there /\ cards'[f].text = settings'[f] /\ PageOf(f) = here
  <2>1. cards' = Mounted(here, settings', there)
    BY <1>3 DEF Loaded
  <2>2. QED
    BY <1>4, <2>1, MountedType
<1>6. ErrorHides' /\ CardsOfPage'
  BY <1>1, <1>3, <1>5 DEF ErrorHides, CardsOfPage
<1>7. LoadingAlone' /\ PostsBegun' /\ OneAtATime' /\ InFlight'
  BY <1>1, <1>2 DEF LoadingAlone, PostsBegun, OneAtATime, InFlight
<1>8. ~doubtful => settings' = saved
  BY <1>1, OfPost DEF Loaded, Consistent, FirstReading
<1>9. CopyIsCurrent'
  BY <1>1, <1>5, <1>8 DEF CopyIsCurrent, Quiet
<1>10. BehindBefore'
  BY <1>1 DEF SInv, Rest, Frame, BehindBefore
<1>11. QED
  BY <1>6, <1>7, <1>9, <1>10 DEF Rest, Frame

\* What a settled request leaves: a failed one the copy it found, one of its own
\* key the copy it left behind, every other one what the panel holds.
Leaves(c, s, failed) ==
  /\ failed => s = settings /\ Unapplied(c)
  /\ ~failed /\ c.f \in Own => s = settings /\ ~Unapplied(c) /\ c.op = "save"
  /\ ~failed /\ c.f \notin Own => s = saved /\ ~Unapplied(c)

\* The copy then agrees with the panel, but for what was left behind.
LEMMA CopyAgrees ==
  ASSUME SInv, ~doubtful, NEW c \in posts, c.f # Absent, NEW s \in Stores, NEW e \in BOOLEAN,
         NEW failed \in BOOLEAN, Settles(c, s, e, failed), Leaves(c, s, failed), NEW g \in Fields
  PROVE  Agrees(g)' /\ behind'[g] <= mount
<1>0. Typed /\ c.f \in Fields /\ c.mount \in Nat /\ c.mount <= mount
  BY StateTypes, OfPost
<1>1. OthersAgree(c) /\ BeforeSave(c)
  BY OfPost DEF Consistent, Settling
<1>2. settings' = s /\ saved' = saved /\ behind[g] <= mount
  BY DEF Settles, SInv, Rest, Frame, BehindBefore
<1>3. CASE failed
  <2>1. behind' = behind
    BY <1>3 DEF Settles
  <2>2. Agrees(g)
    BY <1>1, <1>3 DEF OthersAgree, BeforeSave, Leaves
  <2>3. QED
    BY <1>2, <1>3, <2>1, <2>2 DEF Agrees, Behind, Leaves
<1>4. CASE ~failed /\ c.f \in Own
  <2>1. behind' = [behind EXCEPT ![c.f] = c.mount]
    BY <1>4 DEF Settles
  <2>2. CASE g = c.f
    BY <1>0, <1>4, <2>1, <2>2 DEF Agrees, Behind, Typed, Nowhere
  <2>3. CASE g # c.f
    <3>1. Agrees(g)
      BY <1>1, <2>3 DEF OthersAgree
    <3>2. behind'[g] = behind[g]
      BY <1>0, <2>1, <2>3 DEF Typed
    <3>3. QED
      BY <1>2, <1>4, <3>1, <3>2 DEF Agrees, Behind, Leaves
  <2>4. QED
    BY <2>2, <2>3
<1>5. CASE ~failed /\ c.f \notin Own
  <2>1. behind' = NoneBehind
    BY <1>5 DEF Settles
  <2>2. QED
    BY <1>0, <1>2, <1>5, <2>1 DEF Agrees, Leaves, NoneBehind, Nowhere, Typed
<1>6. QED
  BY <1>3, <1>4, <1>5

\* Without the copy, what was left behind is behind no later than now.
LEMMA BehindStays ==
  ASSUME SInv, NEW c \in posts, c.f # Absent, NEW s, NEW e, NEW failed \in BOOLEAN,
         Settles(c, s, e, failed), NEW g \in Fields
  PROVE  behind'[g] <= mount
<1>0. Typed /\ c.f \in Fields /\ c.mount \in Nat /\ c.mount <= mount
  BY StateTypes, OfPost
<1>1. behind[g] <= mount
  BY DEF SInv, Rest, Frame, BehindBefore
<1>2. CASE failed
  BY <1>1, <1>2 DEF Settles
<1>3. CASE ~failed /\ c.f \in Own
  BY <1>0, <1>1, <1>3 DEF Settles, Typed
<1>4. CASE ~failed /\ c.f \notin Own
  BY <1>0, <1>4 DEF Settles, NoneBehind, Nowhere, Typed
<1>5. QED
  BY <1>2, <1>3, <1>4

\* A switch whose save is settled shows what the panel holds: the new value if it was
\* saved, the one before if it failed.
LEMMA SwitchShows ==
  ASSUME SInv, ~doubtful, NEW c \in posts, c.f # Absent, NEW s \in Stores, NEW failed \in BOOLEAN,
         Settles(c, s, FALSE, failed), ~settingsError, Leaves(c, s, failed),
         NEW g \in Fields \cap Switches
  PROVE  Right(g)'
<1>0. Typed /\ g \notin Short /\ g \notin Selects /\ c.f \in Fields /\ c.mount \in Nat /\ c.mount <= mount
  BY StateTypes, KindsApart, OfPost
<1>1. OthersAgree(c) /\ OwnSwitch(c) /\ BeforeSave(c) /\ AfterSave(c)
  BY OfPost DEF Consistent, Settling
<1> DEFINE k == Synced(g, cards[g], s)
           w == Released(c, [f \in Fields |-> Synced(f, cards[f], s)], failed)[g]
<1>2. w = IF g # c.f \/ c.mount # mount \/ k = Absent THEN k
          ELSE [text |-> IF failed /\ g \in Switches \cup Selects THEN c.prev ELSE k.text,
                busy |-> FALSE]
  BY DEF Released
<1>3. cards'[g] = w /\ settings' = s /\ saved' = saved /\ mount' = mount
  BY DEF Settles
<1> SUFFICES ASSUME w # Absent PROVE w.text = IF Remounted(g)' THEN s[g] ELSE saved[g]
  BY <1>3 DEF Right, Shows
<1>4. k # Absent /\ cards[g] # Absent /\ cards[g] \in Card
  BY <1>0, <1>2 DEF Synced, Typed
<1>5. k.text = IF s[g] = settings[g] THEN cards[g].text ELSE s[g]
  BY <1>0, <1>4 DEF Synced, Card
<1> HIDE DEF k, w
<1>6. g # c.f => cards[g].text = IF Remounted(g) THEN settings[g] ELSE saved[g]
  BY <1>1, <1>4 DEF OthersAgree, Right, Shows
<1>7. CASE failed
  <2>1. s = settings /\ Unapplied(c) /\ (Remounted(g)' <=> Remounted(g))
    BY <1>3, <1>7 DEF Leaves, Settles, Remounted, Behind
  <2>2. k.text = cards[g].text
    BY <1>5, <2>1
  <2>3. CASE g # c.f
    BY <1>2, <1>6, <2>1, <2>2, <2>3
  <2>4. CASE g = c.f /\ c.mount = mount
    <3>1. c.prev = IF Remounted(g) THEN settings[g] ELSE saved[g]
      BY <1>1, <2>1, <2>4 DEF BeforeSave
    <3>2. w.text = c.prev
      BY <1>2, <1>4, <1>7, <2>4
    <3>3. QED
      BY <2>1, <3>1, <3>2
  <2>5. CASE g = c.f /\ c.mount # mount
    <3>1. cards[g].text = IF Remounted(g) THEN settings[g] ELSE saved[g]
      BY <1>1, <1>4, <2>1, <2>5 DEF BeforeSave, Right, Shows
    <3>2. QED
      BY <1>2, <2>1, <2>2, <2>5, <3>1
  <2>6. QED
    BY <2>3, <2>4, <2>5
<1>8. CASE ~failed /\ c.f \in Own
  <2>1. s = settings /\ ~Unapplied(c) /\ c.op = "save" /\ behind' = [behind EXCEPT ![c.f] = c.mount]
    BY <1>8 DEF Leaves, Settles
  <2>2. k.text = cards[g].text
    BY <1>5, <2>1
  <2>3. w.text = k.text
    BY <1>2, <1>8
  <2>4. CASE g # c.f
    <3>1. behind'[g] = behind[g]
      BY <1>0, <2>1, <2>4 DEF Typed
    <3>2. Remounted(g)' <=> Remounted(g)
      BY <1>3, <3>1 DEF Remounted, Behind
    <3>3. QED
      BY <1>6, <2>1, <2>2, <2>3, <2>4, <3>2
  <2>5. CASE g = c.f
    <3>1. behind'[g] = c.mount
      BY <1>0, <2>1, <2>5 DEF Typed
    <3>2. Remounted(g)' <=> c.mount # mount
      BY <1>0, <1>3, <1>8, <2>5, <3>1 DEF Remounted, Behind, Nowhere, Typed
    <3>3. cards[g].text = IF c.mount = mount THEN c.body[g] ELSE settings[g]
      BY <1>1, <1>4, <1>8, <2>5 DEF OwnSwitch, Shows
    <3>4. saved[g] = c.body[g]
      BY <1>1, <2>1, <2>5 DEF AfterSave
    <3>5. QED
      BY <2>1, <2>2, <2>3, <3>2, <3>3, <3>4
  <2>6. QED
    BY <2>4, <2>5
<1>9. CASE ~failed /\ c.f \notin Own
  <2>1. s = saved /\ ~Unapplied(c)
    BY <1>9 DEF Leaves
  <2>2. w.text = k.text
    BY <1>2, <1>9
  <2>3. k.text = saved[g]
    <3>1. CASE g # c.f
      BY <1>5, <1>6, <2>1, <3>1
    <3>2. CASE g = c.f
      <4>1. settings[g] # saved[g]
        BY <1>1, <1>9, <2>1, <3>2, KindsApart DEF AfterSave
      <4>2. QED
        BY <1>5, <2>1, <4>1
    <3>3. QED
      BY <3>1, <3>2
  <2>4. QED
    BY <2>1, <2>2, <2>3
<1>10. QED
  BY <1>7, <1>8, <1>9

LEMMA SettledStep ==
  ASSUME SInv, NEW c \in posts, c.f # Absent, NEW s \in Stores, NEW e \in BOOLEAN, NEW failed \in BOOLEAN,
         Settles(c, s, e, failed), ~doubtful => Leaves(c, s, failed)
  PROVE  Rest'
<1>0. Typed /\ ~settingsLoading
  BY StateTypes, OfPost
<1>1. /\ settings' = s /\ settingsError' = e /\ posts' = posts \ {c}
      /\ UNCHANGED <<saved, settingsLoading, here, doubtful>>
      /\ mount' = IF e = settingsError THEN mount ELSE mount + 1
      /\ mount' \in Nat /\ mount <= mount'
  BY <1>0 DEF Settles, bounds, Typed
<1>2. LoadingAlone' /\ PostsBegun' /\ OneAtATime' /\ BehindBefore'
  <2>1. LoadingAlone'
    <3>1. ~settingsLoading' /\ \A d \in posts' : d \in posts
      BY <1>0, <1>1
    <3>2. QED
      BY <1>1, <3>1 DEF SInv, Rest, Frame, LoadingAlone
  <2>2. PostsBegun'
    BY <1>0, <1>1, OfPost DEF PostsBegun, Typed
  <2>3. OneAtATime'
    BY <1>1 DEF SInv, Rest, Frame, OneAtATime
  <2>4. BehindBefore'
    <3> SUFFICES ASSUME NEW g \in Fields PROVE behind'[g] <= mount'
      BY DEF BehindBefore
    <3>1. behind'[g] <= mount
      BY BehindStays
    <3>2. behind'[g] \in Int
      <4>1. behind' \in [Fields -> Nat \cup {Nowhere}]
        BY SettlesType, SettingsTypePartsNext DEF SInv, CopyType
      <4>2. QED
        BY <4>1 DEF Nowhere
    <3>3. QED
      BY <1>0, <1>1, <3>1, <3>2 DEF Typed
  <2>5. QED
    BY <2>1, <2>2, <2>3, <2>4
<1>3. ~doubtful => posts' = {}
  BY <1>1, OfPost
<1>4. InFlight'
  BY <1>1, <1>3 DEF InFlight
<1>5. CASE e
  <2>1. \A f \in Fields : cards'[f] = Absent
    BY <1>0, <1>5, MountedType DEF Settles, NoCards, Typed
  <2>2. ErrorHides' /\ CardsOfPage'
    BY <2>1 DEF ErrorHides, CardsOfPage
  <2>3. CopyIsCurrent'
    <3>1. ~doubtful => \A g \in Fields : Agrees(g)'
      BY CopyAgrees
    <3>2. QED
      BY <1>1, <2>1, <3>1 DEF CopyIsCurrent, Quiet, Agrees
  <2>4. QED
    BY <1>2, <1>4, <2>2, <2>3 DEF Rest, Frame
<1>6. CASE ~e
  <2>1. ErrorHides'
    BY <1>1, <1>6 DEF ErrorHides
  <2>2. settingsError => \A f \in Fields : cards'[f] # Absent =>
                           cards'[f].text = s[f] /\ PageOf(f) = here
    <3>1. settingsError => cards' = Mounted(here, s, ~settingsLoading)
      BY <1>6 DEF Settles
    <3>2. PICK b \in BOOLEAN : b = ~settingsLoading
      OBVIOUS
    <3>3. settingsError => cards' = Mounted(here, s, b)
      BY <3>1, <3>2
    <3>4. QED
      BY <3>3, MountedType
  <2>3. CardsOfPage'
    <3>1. CASE settingsError
      BY <1>1, <2>2, <3>1 DEF CardsOfPage
    <3>2. CASE ~settingsError
      <4>1. cards' = Released(c, [f \in Fields |-> Synced(f, cards[f], s)], failed)
        BY <1>6, <3>2 DEF Settles
      <4>2. \A f \in Fields : cards[f] = Absent => cards'[f] = Absent
        BY <4>1 DEF Released, Synced
      <4>3. QED
        BY <1>1, <4>2 DEF SInv, Rest, Frame, CardsOfPage
    <3>3. QED
      BY <3>1, <3>2
  <2>4. ASSUME ~doubtful, NEW g \in Fields \cap Switches PROVE Right(g)'
    <3>1. CASE settingsError
      <4>1. Agrees(g)' /\ behind'[g] <= mount /\ mount' = mount + 1
        BY <1>1, <1>6, <2>4, <3>1, CopyAgrees
      <4>2. behind'[g] \in Int
        <5>1. behind' \in [Fields -> Nat \cup {Nowhere}]
          BY SettlesType, SettingsTypePartsNext DEF SInv, CopyType
        <5>2. QED
          BY <5>1 DEF Nowhere
      <4>3. behind'[g] < mount'
        BY <1>0, <4>1, <4>2 DEF Typed
      <4>4. QED
        BY <1>1, <2>2, <3>1, <4>1, <4>3 DEF Agrees, Right, Shows, Remounted
    <3>2. CASE ~settingsError
      BY <1>6, <2>4, <3>2, SwitchShows
    <3>3. QED
      BY <3>1, <3>2
  <2>5. CopyIsCurrent'
    <3>1. ~doubtful => \A g \in Fields : Agrees(g)'
      BY CopyAgrees
    <3>2. QED
      BY <1>1, <2>4, <3>1 DEF CopyIsCurrent, Quiet, Agrees, Right, Shows
  <2>6. QED
    BY <1>2, <1>4, <2>1, <2>3, <2>5 DEF Rest, Frame
<1>7. QED
  BY <1>5, <1>6

\* Each way of saving leaves the copy as Leaves says.
LEMMA WaysStep ==
  ASSUME SInv, NEW c \in posts, OwnSettles(c) \/ RereadSettles(c) \/ WholeSettles(c) \/ OneSettles(c)
  PROVE  Rest'
<1>0. /\ settings \in Stores /\ saved \in Stores /\ settingsError \in BOOLEAN /\ c \in Post /\ BodyOk(c)
      /\ c.op \in {"save", "get"}
  BY OfPost
<1>1. c.f # Absent
  BY KindsApart DEF OwnSettles, RereadSettles, WholeSettles, OneSettles
<1>2. ~doubtful => CarriesCopy(c) /\ AfterSave(c)
  BY <1>1, OfPost DEF Consistent, Settling
<1>3. c.at = "failed" /\ ~doubtful => Unapplied(c)
  BY <1>0, <1>2 DEF AfterSave, Unapplied
<1>4. CASE OwnSettles(c)
  <2>1. PICK failed \in BOOLEAN : failed = (c.at = "failed")
    OBVIOUS
  <2>2. Settles(c, settings, settingsError, failed) /\ c.f \in Own /\ c.at \in {"done", "failed"}
    BY <1>4, <2>1 DEF OwnSettles
  <2>3. c.op = "save"
    BY <1>0, <1>1, <2>2, KindsApart DEF BodyOk
  <2>4. ~doubtful => Leaves(c, settings, failed)
    BY <1>3, <2>1, <2>2, <2>3 DEF Leaves, Unapplied
  <2>5. QED
    BY <1>0, <1>1, <2>2, <2>4, SettledStep
<1>5. CASE ~OwnSettles(c) /\ c.at = "failed"
  <2>1. PICK e \in BOOLEAN : Settles(c, settings, e, TRUE)
    BY <1>0, <1>5 DEF RereadSettles, WholeSettles, OneSettles
  <2>2. ~doubtful => Leaves(c, settings, TRUE)
    BY <1>3, <1>5 DEF Leaves
  <2>3. QED
    BY <1>0, <1>1, <2>1, <2>2, SettledStep
<1>6. CASE RereadSettles(c) /\ c.at # "failed"
  <2>1. Settles(c, c.body, FALSE, FALSE) /\ c.op = "get" /\ c.at = "done" /\ c.f \in Reread
    BY <1>6 DEF RereadSettles
  <2>2. c.body \in Stores
    BY <1>0, <2>1 DEF BodyOk
  <2>3. ~Unapplied(c)
    BY <2>1 DEF Unapplied
  <2>4. ~doubtful => Leaves(c, c.body, FALSE)
    BY <1>2, <2>1, <2>3, KindsApart DEF AfterSave, Leaves
  <2>5. QED
    BY <1>1, <2>1, <2>2, <2>4, SettledStep
<1>7. CASE (WholeSettles(c) \/ OneSettles(c)) /\ c.at # "failed"
  <2>1. c.at = "done" /\ c.f \in Whole \cup One
    BY <1>7 DEF WholeSettles, OneSettles
  <2>2. c.op = "save" /\ c.f \in Fields /\ c.f \notin Own \cup Reread
    BY <1>0, <1>1, <2>1, KindsApart DEF BodyOk
  <2>3. c.body \in Stores
    BY <1>0, <2>2, BodyType DEF BodyOk, Stores, Post
  <2>4. PICK s : s = [settings EXCEPT ![c.f] = c.body[c.f]]
    OBVIOUS
  <2>5. s \in Stores /\ s[c.f] = c.body[c.f] /\ \A g \in Fields \ {c.f} : s[g] = settings[g]
    BY <1>0, <2>2, <2>3, <2>4 DEF Stores
  <2>6. ~doubtful => s = c.body
    <3>1. ~doubtful => \A g \in Fields : s[g] = c.body[g]
      BY <1>2, <2>2, <2>5 DEF CarriesCopy
    <3>2. QED
      BY <2>3, <2>5, <3>1 DEF Stores
  <2>7. ~doubtful => saved = c.body
    BY <1>2, <2>1, <2>2 DEF AfterSave, Unapplied
  <2>8. ~doubtful => Leaves(c, s, FALSE) /\ Leaves(c, c.body, FALSE)
    BY <2>1, <2>2, <2>6, <2>7 DEF Leaves, Unapplied
  <2>9. Settles(c, c.body, settingsError, FALSE) \/ Settles(c, s, settingsError, FALSE)
    BY <1>7, <2>1, <2>4 DEF WholeSettles, OneSettles
  <2>10. QED
    BY <1>0, <1>1, <2>3, <2>5, <2>8, <2>9, SettledStep
<1>8. QED
  BY <1>4, <1>5, <1>6, <1>7

-----------------------------------------------------------------------------
(* The invariant holds of every behaviour.                                  *)

LEMMA SettingsStart == SettingsInit => SInv
<1> SUFFICES ASSUME SettingsInit PROVE SInv
  OBVIOUS
<1>1. SettingsTypeOK /\ BodiesOk
  BY TypeInit
<1>2. /\ settingsLoading = TRUE /\ settingsError = FALSE /\ mount = 0
      /\ cards = [f \in Fields |-> Absent] /\ behind = NoneBehind
  BY DEF SettingsInit
<1>3. PICK c : posts = {c} /\ c.f = Absent /\ c.mount = 0 /\ c.at = "sent"
  <2>1. PICK c : c = [n |-> 0, f |-> Absent, op |-> "get", body |-> <<>>, prev |-> Default,
                      mount |-> 0, at |-> "sent"]
    OBVIOUS
  <2>2. posts = {c}
    BY <2>1 DEF SettingsInit
  <2>3. c.f = Absent /\ c.mount = 0 /\ c.at = "sent"
    BY <2>1
  <2>4. QED
    BY <2>2, <2>3
<1>4. LoadingAlone /\ ErrorHides /\ PostsBegun /\ OneAtATime /\ CardsOfPage
  BY <1>2, <1>3 DEF LoadingAlone, ErrorHides, PostsBegun, OneAtATime, CardsOfPage
<1>5. BehindBefore
  BY <1>2 DEF BehindBefore, NoneBehind, Nowhere
<1>6. InFlight
  BY <1>3 DEF InFlight, Consistent, FirstReading
<1>7. CopyIsCurrent
  BY <1>2 DEF CopyIsCurrent, Quiet
<1>8. QED
  BY <1>1, <1>4, <1>5, <1>6, <1>7 DEF SInv, Rest, Frame

LEMMA SettingsStep == SInv /\ [SettingsNext]_pvars => SInv'
<1> SUFFICES ASSUME SInv, [SettingsNext]_pvars PROVE SInv'
  OBVIOUS
<1>0. SettingsTypeOK' /\ BodiesOk'
  BY BodiesStep, TypeStep DEF SInv
<1>1. CASE UNCHANGED pvars
  <2>1. UNCHANGED <<saved, settings, settingsLoading, settingsError, here, cards, mount, posts, doubtful, behind>>
    BY <1>1 DEF pvars, provider, shownNow
  <2>2. Frame'
    BY <2>1 DEF SInv, Rest, Frame, LoadingAlone, ErrorHides, PostsBegun, OneAtATime, CardsOfPage, BehindBefore
  <2>3. \A c \in posts : Consistent(c)' <=> Consistent(c)
    BY <2>1 DEF Consistent, FirstReading, Settling, OthersAgree, CarriesCopy, OwnSwitch, BeforeSave,
       AfterSave, Unapplied, Agrees, Right, Shows, Behind, Remounted
  <2>4. InFlight'
    BY <2>1, <2>3 DEF SInv, Rest, InFlight
  <2>5. CopyIsCurrent'
    BY <2>1 DEF SInv, Rest, CopyIsCurrent, Quiet, Behind, Remounted
  <2>6. QED
    BY <1>0, <2>2, <2>4, <2>5 DEF SInv, Rest
<1>2. ASSUME NEW p, Visit(p) PROVE Rest'
  BY <1>2, VisitStep
<1>3. ASSUME NEW f \in Fields, NEW v \in Values, Type(f, v) PROVE Rest'
  BY <1>3, TypingStep
<1>4. ASSUME NEW f \in Fields, NEW v \in Values, Save(f, v) PROVE Rest'
  BY <1>4, SaveStep
<1>5. ASSUME NEW c \in posts, ServeSetting(c) \/ Refuse(c) \/ ReloadFails(c) \/ LoseSetting(c) \/ Refetch(c)
      PROVE  Rest'
  <2>1. PostsType /\ saved \in Stores /\ doubtful \in BOOLEAN
    BY SettingsTypeParts DEF SInv, CopyType, SavesType
  <2>2. PICK d \in Post : Moved(c, d)
    BY <1>5, <2>1, Moves
  <2>3. UNCHANGED <<settings, settingsLoading, settingsError, here, cards, mount, behind>>
    BY <1>5 DEF ServeSetting, Refuse, ReloadFails, LoseSetting, Refetch, provider, shownNow
  <2>4. QED
    BY <2>2, <2>3, MovedStep
<1>6. ASSUME NEW c \in posts, Loaded(c) PROVE Rest'
  BY <1>6, LoadedStep
<1>7. ASSUME NEW c \in posts, OwnSettles(c) \/ RereadSettles(c) \/ WholeSettles(c) \/ OneSettles(c)
      PROVE  Rest'
  BY <1>7, WaysStep
<1>8. CASE SettingsNext
  <2>1. Rest'
    BY <1>2, <1>3, <1>4, <1>5, <1>6, <1>7, <1>8 DEF SettingsNext, Settle
  <2>2. QED
    BY <1>0, <2>1 DEF SInv
<1>9. QED
  BY <1>1, <1>8

LEMMA SettingsHold == SettingsSpec => []SInv
<1>1. SettingsInit => SInv
  BY SettingsStart
<1>2. SInv /\ [SettingsNext]_pvars => SInv'
  BY SettingsStep
<1>3. QED
  BY <1>1, <1>2, PTL DEF SettingsSpec

\* When nothing is under way, no two requests overlapped and none failed after
\* the panel had applied it, the provider's copy holds what the panel holds of
\* every setting but those whose own-key save left it behind, and a switch on the
\* page shows what the panel holds, except one of those left behind that was
\* mounted again since: the three ways of updating the copy, each on its own
\* answer and in whatever page the administrator is by then, never leave another
\* setting behind (api.ts:135-239, SettingCard.tsx:113-139).
THEOREM SettingsAreSound == SettingsSpec => []SettingsSound
<1>1. SInv => SettingsSound
  BY DEF SInv, Rest, SettingsSound
<1>2. QED
  BY <1>1, SettingsHold, PTL

\* A short text card keeps its unsaved text when the copy is replaced.
LEMMA TypedStep ==
  ASSUME SInv, [SettingsNext]_pvars, NEW f \in Fields \cap Short,
         cards[f] # Absent, mount' = mount, settings' # settings,
         cards[f].text # settings[f]
  PROVE  cards'[f].text = cards[f].text
<1>0. Typed /\ ~settingsLoading /\ ~settingsError /\ f \notin Switches \cup Selects
      /\ cards[f] \in Card
  <2>1. Typed
    BY StateTypes
  <2>2. QED
    BY <2>1, KindsApart DEF SInv, Rest, Frame, LoadingAlone, ErrorHides, Typed
<1>1. ASSUME NEW c \in posts, NEW s, NEW e \in BOOLEAN, NEW failed \in BOOLEAN, Settles(c, s, e, failed)
      PROVE  cards'[f].text = cards[f].text
  <2>1. ~e
    BY <1>0, <1>1 DEF Settles, Typed
  <2>2. cards' = Released(c, [g \in Fields |-> Synced(g, cards[g], s)], failed)
    BY <1>0, <1>1, <2>1 DEF Settles
  <2>3. Synced(f, cards[f], s) = cards[f]
    BY DEF Synced
  <2>4. QED
    BY <1>0, <2>2, <2>3 DEF Released
<1>2. ASSUME NEW c \in posts, OwnSettles(c) \/ RereadSettles(c) \/ WholeSettles(c) \/ OneSettles(c)
      PROVE  cards'[f].text = cards[f].text
  <2>1. settingsError \in BOOLEAN
    BY <1>0 DEF Typed
  <2>2. CASE OwnSettles(c)
    <3>1. settings' = settings
      BY <2>2 DEF OwnSettles, Settles
    <3>2. QED
      BY <3>1
  <2>3. CASE RereadSettles(c)
    BY <1>1, <2>1, <2>3 DEF RereadSettles
  <2>4. CASE WholeSettles(c)
    BY <1>1, <2>1, <2>4 DEF WholeSettles
  <2>5. CASE OneSettles(c)
    BY <1>1, <2>1, <2>5 DEF OneSettles
  <2>6. QED
    BY <1>2, <2>2, <2>3, <2>4, <2>5
<1>3. \A c \in posts : ~Loaded(c)
  BY <1>0 DEF SInv, Rest, Frame, LoadingAlone, Loaded
<1>4. ~UNCHANGED pvars
  BY DEF pvars, provider
<1>5. ASSUME NEW p, NEW g, NEW v, Visit(p) \/ Type(g, v) \/ Save(g, v) PROVE FALSE
  BY <1>5 DEF Visit, Type, Save, provider
<1>6. ASSUME NEW c \in posts, ServeSetting(c) \/ Refuse(c) \/ ReloadFails(c) \/ LoseSetting(c) \/ Refetch(c)
      PROVE  FALSE
  BY <1>6 DEF ServeSetting, Refuse, ReloadFails, LoseSetting, Refetch, provider
<1>7. QED
  BY <1>2, <1>3, <1>4, <1>5, <1>6 DEF SettingsNext, Settle

\* What the administrator typed into a short text card and did not save stays
\* there when the copy is replaced under it, by whichever request, for every set
\* of settings and values (SettingCard.tsx:344-362).
THEOREM TypedTextStays == SettingsSpec => TypedStays
<1>1. ASSUME SInv, [SettingsNext]_pvars
      PROVE  [\A f \in Fields \cap Short :
                (cards[f] # Absent /\ mount' = mount /\ settings' # settings
                   /\ cards[f].text # settings[f])
                  => cards'[f].text = cards[f].text]_pvars
  BY <1>1, TypedStep
<1>2. QED
  BY <1>1, SettingsHold, PTL DEF SettingsSpec, TypedStays
=============================================================================
