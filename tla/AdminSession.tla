----------------------------- MODULE AdminSession -----------------------------
(***************************************************************************)
(* One tab of the administrator's pages, from signing in to signing out:   *)
(* the account it shows, the requests it makes, the caches that outlive    *)
(* its pages, the dashboard that polls, and what happens to all of them    *)
(* when the session ends - by signing out here, by a refused request, or   *)
(* because the cookie, which all tabs share, became somebody else's.       *)
(*                                                                         *)
(* Every request is answered in two parts, headers and body, and either    *)
(* may arrive after the session it was made in has ended.  The generation  *)
(* of adminRevocation.ts tells sessions apart.                             *)
(***************************************************************************)
EXTENDS Integers, FiniteSets

CONSTANTS
  Users, Nobody, \* accounts, and no account (a guest)
  None,          \* nothing cached, no account known yet
  Kinds,         \* the requests of this instance
  MaxSwitches, MaxAsks, MaxFails, MaxCalls \* bounds: changes of the cookie by
                 \* other tabs, reads of the account, failed requests, and other
                 \* requests in flight that are not the summary's

AllKinds == {"settings", "save", "summary", "charts", "alerts", "nodes", "load", "reload"}
Slots    == {"settings", "summary", "charts", "alerts", "nodes", "load"}

ASSUME SessionAssumption ==
  /\ Nobody \notin Users /\ None \notin Users /\ None # Nobody
  /\ Kinds \subseteq AllKinds
  /\ MaxSwitches \in Nat /\ MaxAsks \in Nat /\ MaxFails \in Nat /\ MaxCalls \in Nat

VARIABLES
  cookie,           \* whom the panel takes the browser for
  switches, fails, asked, \* counts for the bounds
  gen, ended,       \* generation, sessionEnded
  account, identity, loading, error, seq, \* the account, as the tab knows it
  asks,             \* reads of the account in flight
  calls, cache,     \* other requests in flight, and what is cached: the key
                    \* it is filed under and the generation it was asked in
  stored,           \* accounts with dashboard entries in sessionStorage
  route, dash,      \* the page, the dashboard when it is mounted
  login,            \* the sign-in form
  pending, logout,  \* logoutPending, the request to sign out
  left              \* history: signed out here, and no new session since

panel   == <<cookie, switches, fails>>
who     == <<account, identity, loading, error, seq>>
memory  == <<gen, ended, calls, cache>>
screen  == <<stored, route, dash>>
leaving == <<pending, logout, left>>
svars   == <<panel, asked, who, asks, memory, screen, login, leaving>>

Entry == [key : Users, gen : Nat]
Off   == [on |-> FALSE, data |-> None]
Form  == [step |-> "password", at |-> "idle"]

Call == [kind : AllKinds, key : Users, gen : Nat,
         at : {"sent", "ok", "denied", "failed", "read"}, old : Entry \cup {None}]
Read == [seq : Nat, gen : Nat, at : {"sent", "ok", "denied", "failed", "read"},
         who : Users \cup {Nobody}]

(* Where the answer to a request goes.                                     *)
Slot(k) == CASE k = "save" -> "settings" [] k = "reload" -> "load" [] OTHER -> k

(* resolveAdminAuthView.                                                   *)
View(a, l, e) == IF l THEN "loading"
                 ELSE IF e \/ a = None THEN "error"
                 ELSE IF a = Nobody THEN "login" ELSE "admin"

view == View(account, loading, error)

-----------------------------------------------------------------------------
(* The dashboard is mounted while its route and the signed-in view are.    *)
(* It starts from what is cached for its account, and when it goes it      *)
(* leaves its scroll position in sessionStorage, unless a session ended.   *)

Snapshot == LET s == cache'["summary"] IN
            IF s # None /\ s.key = account' THEN s ELSE None

Draw(data, kept) ==
  LET shows == View(account', loading', error') = "admin" /\ route' = "dashboard" IN
  /\ dash' = IF ~shows THEN Off
             ELSE [on |-> TRUE, data |-> IF dash.on THEN data ELSE Snapshot]
  /\ stored' = IF ~ended /\ ~ended' /\ dash.on /\ ~shows THEN kept \cup ({account} \cap Users)
               ELSE kept

(* revokeAdminSession: a new generation, empty caches, dashboard requests  *)
(* aborted, sessionStorage cleared.                                        *)
Revoked(inFlight) ==
  /\ gen' = gen + 1 /\ ended' = TRUE
  /\ calls' = {c \in inFlight : c.kind \notin {"summary", "charts"}}

Emptied == [s \in Slots |-> None]

(* The account's own subscription: reads in flight are superseded, and the *)
(* sign-in form takes the place of the pages.                              *)
SignedOut ==
  /\ seq' = seq + 1 /\ identity' = None /\ account' = Nobody
  /\ loading' = FALSE /\ error' = FALSE
  /\ Draw(None, {})

-----------------------------------------------------------------------------
(* The account.                                                            *)

Refresh ==
  /\ asked < MaxAsks /\ asked' = asked + 1
  /\ seq' = seq + 1 /\ loading' = TRUE /\ error' = FALSE
  /\ asks' = asks \cup {[seq |-> seq + 1, gen |-> gen, at |-> "sent", who |-> Nobody]}
  /\ UNCHANGED <<account, identity, memory, route>>
  /\ Draw(dash.data, stored)

(* Retrying after an error; the account page after it changed something.   *)
RefreshAccount ==
  /\ view \in {"error", "admin"} /\ ~pending
  /\ Refresh
  /\ UNCHANGED <<panel, login, leaving>>

ServeRead(a) ==
  /\ a.at = "sent"
  /\ \/ /\ asks' = (asks \ {a}) \cup {[a EXCEPT !.at = "ok", !.who = cookie]}
        /\ UNCHANGED fails
     \/ /\ cookie = Nobody
        /\ asks' = (asks \ {a}) \cup {[a EXCEPT !.at = "denied"]}
        /\ UNCHANGED fails
     \/ /\ fails < MaxFails /\ fails' = fails + 1
        /\ asks' = (asks \ {a}) \cup {[a EXCEPT !.at = "failed"]}
  /\ UNCHANGED <<cookie, switches, asked, who, memory, screen, login, leaving>>

NeverSuperseded(a) == FALSE

Superseded(a) == a.gen # gen \/ a.seq # seq

DropRead(a) ==
  /\ asks' = asks \ {a}
  /\ UNCHANGED <<panel, asked, who, memory, screen, login, leaving>>

ReadHeaders(a) ==
  /\ a.at \in {"ok", "denied", "failed"}
  /\ \/ Superseded(a) /\ DropRead(a)
     \/ /\ ~Superseded(a) /\ a.at = "ok"
        /\ asks' = (asks \ {a}) \cup {[a EXCEPT !.at = "read"]}
        /\ UNCHANGED <<panel, asked, who, memory, screen, login, leaving>>
     \/ /\ ~Superseded(a) /\ a.at = "denied"
        /\ asks' = asks \ {a}
        /\ UNCHANGED <<panel, asked, route, login, leaving>>
        /\ Revoked(calls) /\ cache' = Emptied /\ SignedOut
     \/ /\ ~Superseded(a) /\ a.at = "failed"
        /\ asks' = asks \ {a}
        /\ error' = TRUE /\ loading' = FALSE
        /\ UNCHANGED <<panel, asked, account, identity, seq, memory, route, login, leaving>>
        /\ Draw(dash.data, stored)

(* Another account, or none, in the place of one that was known ends the   *)
(* session before the new account is shown.                                *)
ReadBody(a) ==
  LET known == IF a.who = Nobody THEN None ELSE a.who IN
  /\ a.at = "read"
  /\ \/ Superseded(a) /\ DropRead(a)
     \/ /\ ~Superseded(a)
        /\ asks' = asks \ {a}
        /\ account' = a.who /\ identity' = known /\ loading' = FALSE /\ error' = FALSE
        /\ UNCHANGED <<panel, asked, route, login, leaving>>
        /\ IF identity # None /\ identity # known
             THEN /\ seq' = seq + 1 /\ Revoked(calls) /\ cache' = Emptied
                  /\ Draw(None, {})
             ELSE UNCHANGED <<seq, memory>> /\ Draw(dash.data, stored)

-----------------------------------------------------------------------------
(* The other requests.  One of a kind is in flight per session: a second   *)
(* one joins it.  A refresh of the load alerts keeps the list it had.      *)

Ask(k) ==
  /\ k \in Kinds /\ account \in Users 
  /\ k = "summary" \/ Cardinality({c \in calls : c.kind # "summary"}) < MaxCalls
  /\ \A c \in calls : c.kind # k \/ c.key # account \/ c.gen # gen
  /\ calls' = calls \cup {[kind |-> k, key |-> account, gen |-> gen, at |-> "sent",
                           old |-> IF k = "reload" THEN cache["load"] ELSE None]}
  /\ UNCHANGED <<panel, asked, who, asks, gen, ended, cache, screen, login, leaving>>

Poll       == dash.on /\ \E k \in {"summary", "charts"} : Ask(k)
Prefetch   == \E k \in {"settings", "summary", "charts"} : Ask(k)
AskPrivate == view = "admin" /\ \E k \in {"settings", "save", "alerts", "nodes", "load", "reload"} : Ask(k)

ServeCall(c) ==
  /\ c.at = "sent"
  /\ \/ cookie # Nobody /\ calls' = (calls \ {c}) \cup {[c EXCEPT !.at = "ok"]} /\ UNCHANGED fails
     \/ cookie = Nobody /\ calls' = (calls \ {c}) \cup {[c EXCEPT !.at = "denied"]} /\ UNCHANGED fails
     \/ /\ fails < MaxFails /\ fails' = fails + 1
        /\ calls' = (calls \ {c}) \cup {[c EXCEPT !.at = "failed"]}
  /\ UNCHANGED <<cookie, switches, asked, who, asks, gen, ended, cache, screen, login, leaving>>

(* A request that comes to nothing.  The refresh of the load alerts writes *)
(* the list it still has back into the cache, with the error.              *)
Failed(c, slots) == IF c.kind = "reload" THEN [slots EXCEPT !["load"] = c.old] ELSE slots

OtherAccount(c) == c.key # account

Invalidated(c) == c.gen # gen

DropCall(c) ==
  /\ calls' = calls \ {c} /\ cache' = Failed(c, cache)
  /\ UNCHANGED <<panel, asked, who, asks, gen, ended, screen, login, leaving>>

DeniedIsAnError(c) ==
  /\ c.at \in {"ok", "denied", "failed"}
  /\ \/ (Invalidated(c) \/ c.at \in {"failed", "denied"}) /\ DropCall(c)
     \/ /\ ~Invalidated(c) /\ c.at = "ok"
        /\ calls' = (calls \ {c}) \cup {[c EXCEPT !.at = "read"]}
        /\ UNCHANGED <<panel, asked, who, asks, gen, ended, cache, screen, login, leaving>>

CallHeaders(c) ==
  /\ c.at \in {"ok", "denied", "failed"}
  /\ \/ (Invalidated(c) \/ c.at = "failed") /\ DropCall(c)
     \/ /\ ~Invalidated(c) /\ c.at = "ok"
        /\ calls' = (calls \ {c}) \cup {[c EXCEPT !.at = "read"]}
        /\ UNCHANGED <<panel, asked, who, asks, gen, ended, cache, screen, login, leaving>>
     \/ /\ ~Invalidated(c) /\ c.at = "denied"
        /\ UNCHANGED <<panel, asked, asks, route, login, leaving>>
        /\ Revoked(calls \ {c}) /\ cache' = Failed(c, Emptied) /\ SignedOut

(* Settings go to sessionStorage as well; a summary is drawn if the        *)
(* dashboard of its account is there.                                      *)
CallBody(c) ==
  /\ c.at = "read"
  /\ \/ Invalidated(c) /\ DropCall(c)
     \/ /\ ~Invalidated(c)
        /\ calls' = calls \ {c}
        /\ cache' = [cache EXCEPT ![Slot(c.kind)] = [key |-> c.key, gen |-> c.gen]]
        /\ dash' = IF c.kind = "summary" /\ dash.on /\ c.key = account
                     THEN [dash EXCEPT !.data = [key |-> c.key, gen |-> c.gen]] ELSE dash
        /\ stored' = IF Slot(c.kind) = "settings" /\ ~ended THEN stored \cup {c.key} ELSE stored
        /\ UNCHANGED <<panel, asked, who, asks, gen, ended, route, login, leaving>>

(* Thirty seconds for alerts, ten minutes for the dashboard.               *)
CacheExpires(s) ==
  /\ s \in {"summary", "charts", "alerts"} /\ cache[s] # None
  /\ cache' = [cache EXCEPT ![s] = None]
  /\ UNCHANGED <<panel, asked, who, asks, gen, ended, calls, screen, login, leaving>>

(* Settings kept in sessionStorage spare the wait for the panel's.         *)
RecallSettings ==
  /\ account \in stored /\ ~ended /\ cache["settings"] = None
  /\ cache' = [cache EXCEPT !["settings"] = [key |-> account, gen |-> gen]]
  /\ UNCHANGED <<panel, asked, who, asks, gen, ended, calls, screen, login, leaving>>

Navigate ==
  /\ view = "admin"
  /\ route' = IF route = "dashboard" THEN "other" ELSE "dashboard"
  /\ UNCHANGED <<panel, asked, who, asks, memory, login, leaving>>
  /\ Draw(dash.data, stored)

-----------------------------------------------------------------------------
(* Signing in, with a second step when the account asks for a code.        *)

SubmitLogin ==
  /\ view = "login" /\ login.at = "idle"
  /\ login' = [login EXCEPT !.at = "sent"]
  /\ UNCHANGED <<panel, asked, who, asks, memory, screen, leaving>>

ServeLogin ==
  /\ login.at = "sent"
  /\ \/ \E u \in Users :
          /\ cookie' = u /\ left' = FALSE /\ login' = [login EXCEPT !.at = "accepted"]
     \/ /\ login' = [login EXCEPT !.at = IF login.step = "password" THEN "asked" ELSE "refused"]
        /\ UNCHANGED <<cookie, left>>
     \/ login' = [login EXCEPT !.at = "refused"] /\ UNCHANGED <<cookie, left>>
  /\ UNCHANGED <<switches, fails, asked, who, asks, memory, screen, pending, logout>>

(* Being asked for a code is not an error, and leads to the second step.   *)
LoginRefused ==
  /\ login.at \in {"asked", "refused"}
  /\ login' = [step |-> IF login.at = "asked" THEN "code" ELSE login.step, at |-> "idle"]
  /\ UNCHANGED <<panel, asked, who, asks, memory, screen, leaving>>

(* The account is read again; not while signing out is unfinished.         *)
LoginAccepted ==
  /\ login.at = "accepted"
  /\ \/ pending /\ login' = [login EXCEPT !.at = "idle"] /\ UNCHANGED <<asked, who, asks, memory, screen>>
     \/ ~pending /\ login' = Form /\ Refresh
  /\ UNCHANGED <<panel, leaving>>

LoginLost ==
  /\ login.at \notin {"idle"} /\ fails < MaxFails /\ fails' = fails + 1
  /\ login' = [login EXCEPT !.at = "idle"]
  /\ UNCHANGED <<cookie, switches, asked, who, asks, memory, screen, leaving>>

BackToPassword ==
  /\ view = "login" /\ login = [step |-> "code", at |-> "idle"]
  /\ login' = Form
  /\ UNCHANGED <<panel, asked, who, asks, memory, screen, leaving>>

(* logoutAdminSession: the view goes first, then the panel is told.        *)
Logout ==
  /\ view = "admin" /\ logout = "none"
  /\ pending' = TRUE /\ logout' = "sent" /\ left' = TRUE
  /\ UNCHANGED <<panel, asked, asks, route, login>>
  /\ Revoked(calls) /\ cache' = Emptied /\ SignedOut

ServeLogout ==
  /\ logout = "sent"
  /\ \/ cookie # Nobody /\ cookie' = Nobody /\ logout' = "done" /\ UNCHANGED fails
     \/ cookie = Nobody /\ logout' = "failed" /\ UNCHANGED <<cookie, fails>>
     \/ fails < MaxFails /\ fails' = fails + 1 /\ logout' = "failed" /\ UNCHANGED cookie
  /\ UNCHANGED <<switches, asked, who, asks, memory, screen, login, pending, left>>

(* Once the panel has ended the session the tab goes to the public page    *)
(* (Reload), or stays when the browser does not let it.                    *)
LogoutDone ==
  /\ logout = "done" /\ logout' = "none" /\ pending' = FALSE
  /\ UNCHANGED <<panel, asked, who, asks, memory, screen, login, left>>

LogoutFails ==
  /\ logout \in {"done", "failed"} /\ logout' = "none"
  /\ UNCHANGED <<panel, asked, who, asks, memory, screen, login, pending, left>>

-----------------------------------------------------------------------------
(* Outside the tab: another tab signs in or out, or the panel ends the     *)
(* session; and the tab is loaded again, with an empty memory.             *)

CookieChanges ==
  /\ switches < MaxSwitches /\ switches' = switches + 1
  /\ \E u \in (Users \cup {Nobody}) \ {cookie} : cookie' = u /\ left' = (left /\ u = Nobody)
  /\ UNCHANGED <<fails, asked, who, asks, memory, screen, login, pending, logout>>

FirstRead(g) == {[seq |-> 1, gen |-> g, at |-> "sent", who |-> Nobody]}

Reload ==
  /\ asked < MaxAsks /\ asked' = asked + 1
  /\ gen' = gen + 1 /\ ended' = FALSE /\ calls' = {} /\ cache' = Emptied
  /\ account' = None /\ identity' = None /\ loading' = TRUE /\ error' = FALSE /\ seq' = 1
  /\ asks' = FirstRead(gen') /\ login' = Form /\ pending' = FALSE /\ logout' = "none"
  /\ left' = FALSE
  /\ UNCHANGED <<panel, route>>
  /\ Draw(None, stored)

SessionInit ==
  /\ cookie \in Users \cup {Nobody} /\ switches = 0 /\ fails = 0 /\ asked = 1
  /\ gen = 0 /\ ended = FALSE /\ calls = {} /\ cache = Emptied
  /\ account = None /\ identity = None /\ loading = TRUE /\ error = FALSE /\ seq = 1
  /\ asks = FirstRead(0) /\ stored = {} /\ route = "dashboard" /\ dash = Off
  /\ login = Form /\ pending = FALSE /\ logout = "none" /\ left = FALSE

SessionNext ==
  \/ RefreshAccount \/ Poll \/ Prefetch \/ AskPrivate \/ RecallSettings \/ Navigate
  \/ SubmitLogin \/ ServeLogin \/ LoginRefused \/ LoginAccepted \/ LoginLost \/ BackToPassword
  \/ Logout \/ ServeLogout \/ LogoutDone \/ LogoutFails \/ CookieChanges \/ Reload
  \/ \E a \in asks : ServeRead(a) \/ ReadHeaders(a) \/ ReadBody(a)
  \/ \E c \in calls : ServeCall(c) \/ CallHeaders(c) \/ CallBody(c)
  \/ \E s \in Slots : CacheExpires(s)

(* The dashboard polls while the tab is visible, requests are served and   *)
(* their answers handled.                                                  *)
Summaries == {c \in calls : c.kind = "summary" /\ c.gen = gen /\ c.key = account}

SessionFairness ==
  /\ WF_svars(dash.on /\ Ask("summary"))
  /\ WF_svars(\E c \in Summaries : ServeCall(c))
  /\ WF_svars(\E c \in Summaries : CallHeaders(c))
  /\ WF_svars(\E c \in Summaries : CallBody(c))

SessionSpec == SessionInit /\ [][SessionNext]_svars /\ SessionFairness

-----------------------------------------------------------------------------

SessionTypeOK ==
  /\ cookie \in Users \cup {Nobody} /\ switches \in Nat /\ fails \in Nat /\ asked \in Nat
  /\ gen \in Nat /\ ended \in BOOLEAN
  /\ account \in Users \cup {Nobody, None} /\ identity \in Users \cup {None}
  /\ loading \in BOOLEAN /\ error \in BOOLEAN /\ seq \in Nat
  /\ asks \subseteq Read /\ calls \subseteq Call
  /\ cache \in [Slots -> Entry \cup {None}]
  /\ stored \subseteq Users /\ route \in {"dashboard", "other"}
  /\ dash \in [on : BOOLEAN, data : Entry \cup {None}]
  /\ login \in [step : {"password", "code"}, at : {"idle", "sent", "accepted", "asked", "refused"}]
  /\ pending \in BOOLEAN /\ logout \in {"none", "sent", "done", "failed"} /\ left \in BOOLEAN

(* What is cached, and what the dashboard shows, was asked for in the      *)
(* session the tab is in: no answer that comes late brings back data of a  *)
(* session that ended.  The load alerts are the exception: a refresh that  *)
(* fails puts back the list it had (LoadAlertContext.tsx:86).              *)
OfThisSession ==
  /\ \A s \in Slots \ {"load"} : cache[s] # None => cache[s].gen = gen
  /\ dash.data # None => dash.data.gen = gen /\ dash.data.key = account

(* Once a session has ended in this tab nothing of the dashboard is left   *)
(* in sessionStorage, not even by pages that are taken down afterwards.    *)
StorageCleared == ended => stored = {}

(* Whoever signs out here is not shown the pages again on the strength of  *)
(* the old cookie, whether or not the panel was reached, until somebody    *)
(* signs in or the tab is loaded again.                                    *)
LogoutIsFinal == left => account \notin Users

(* What the tab holds is of the session it is in, and of none once it has  *)
(* ended or been left.                                                     *)
SessionSound == SessionTypeOK /\ OfThisSession /\ StorageCleared /\ LogoutIsFinal

(* A dashboard does not go on showing data of a session that ran out.      *)
Expired == cookie = Nobody /\ dash.data # None
ExpiryIsNoticed == Expired ~> ~Expired

(* Shown to implement the promise.                                         *)
Held == {cache[s].gen : s \in {t \in Slots \ {"load"} : cache[t] # None}}
          \cup (IF dash.data # None THEN {dash.data.gen} ELSE {})

Promise == INSTANCE SessionPromise WITH session <- gen, held <- Held

KeepsSessionPromise == Promise!SSpec
=============================================================================
