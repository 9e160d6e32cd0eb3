---------------------------- MODULE AgentPresence ----------------------------
(***************************************************************************)
(* Online state of ONE node (one client UUID) in the panel:                *)
(*                                                                         *)
(*   - the WebSocket handlers WebSocketReport (v1) and WebSocketV2RPC (v2) *)
(*     and the registry connectedClients they write;                       *)
(*   - the HTTP POST session: refreshPostPresence, its timer with the      *)
(*     generation check, and the presenceOnly entry;                       *)
(*   - the notifier: OnlineNotification runs in a goroutine of its own,    *)
(*     OfflineNotification in the handler's deferred function, and an      *)
(*     accepted offline event sleeps through the grace period;             *)
(*   - adminRemoveClient, which blocks writes, drops the connection,       *)
(*     forgets the notifier state and deletes the node.                    *)
(*                                                                         *)
(* A step is one critical section: everything done under one lock, or      *)
(* between two points where another goroutine can observe the difference.  *)
(* Connection IDs are time stamps in the code, so they are distinct        *)
(* numbers here; 0 is the zero value of an ID and of a missing entry.      *)
(* The protocol version, connectedClientV2, is left out: nothing here      *)
(* reads it.                                                               *)
(***************************************************************************)
EXTENDS Integers, FiniteSets

CONSTANTS
  Conns,        \* IDs of the WebSocket connections the node will open
  V2Conns,      \* those that use the v2 endpoint
  MaxSessions,  \* bound: POST sessions
  MaxGen,       \* bound: refreshes of one POST session
  HttpVersions, \* protocol versions the node reports over HTTP ({} = none)
  MayDisable,   \* TRUE: the operator may switch notifications off and on
  MayRemove     \* TRUE: the operator may delete the node

ASSUME PresenceAssumption ==
  /\ Conns \subseteq Nat \ {0}
  /\ V2Conns \subseteq Conns
  /\ MaxSessions \in Nat /\ MaxGen \in Nat
  /\ Conns \cap (1..MaxSessions) = {}
  /\ HttpVersions \subseteq {1, 2}
  /\ MayDisable \in BOOLEAN /\ MayRemove \in BOOLEAN

None     == 0
Sessions == 1..MaxSessions
IDs      == Conns \cup Sessions

VARIABLES
  pc,        \* where each WebSocket handler is
  closed,    \* connections whose socket is closed, as the server sees it
  closing,   \* pending `go oldConn.Close()` goroutines
  registry,  \* connectedClients[uuid]
  http,      \* where the HTTP request is that is being served
  sessions,  \* POST sessions created so far
  post,      \* postPresenceStates[uuid]: connID and generation
  timers,    \* timer callbacks: armed, fired (running), or past the map
  presence,  \* id of presenceOnly[uuid]
  online,    \* goroutines about to run OnlineNotification, by connection ID
  notif,     \* the notificationState of the node
  grace,     \* goroutines asleep in the grace period, by connection ID
  enabled,   \* offline notifications are enabled for the node
  told,      \* the last message handed to the senders
  blocked,   \* EntityWritesBlocked(uuid)
  early,     \* history: what was past the blocked check when writes were blocked
  known,     \* the node has a row in the database
  removal,   \* progress of adminRemoveClient
  crossed,   \* history: connections stored while another one was past its lookup
  unheard,   \* history: ends that came when the notifier could not note them
  beside     \* history: links announced when they were not the node's only one

wsVars     == <<pc, closed, closing, registry>>
postVars   == <<http, sessions, post, timers, presence>>
notifyVars == <<online, notif, grace, enabled, told>>
removeVars == <<blocked, early, known, removal>>
pastVars   == <<crossed, unheard, beside>>
vars       == <<wsVars, postVars, notifyVars, removeVars, pastVars>>

Connecting == {"accepted", "admitted", "stored"}
Serving    == {"running", "refreshing", "keeping"}
PCs        == {"idle", "unregistered", "done"} \cup Connecting \cup Serving

Absent   == [id |-> None, gen |-> 0]
NewState == [first |-> TRUE, pending |-> FALSE, exist |-> FALSE, conn |-> None]

Callbacks == [id : Sessions, gen : 0..MaxGen, stage : {"armed", "fired", "clearing", "ending"}]
States    == [first : BOOLEAN, pending : BOOLEAN, exist : BOOLEAN, conn : IDs \cup {None}]

TypeOK ==
  /\ pc \in [Conns -> PCs]
  /\ closed \subseteq Conns /\ closing \subseteq Conns /\ early \subseteq IDs
  /\ registry \in Conns \cup {None}
  /\ http \in {"none", "refreshing", "keeping"}
  /\ sessions \in 0..MaxSessions
  /\ post \in [id : Sessions \cup {None}, gen : 0..MaxGen]
  /\ timers \subseteq Callbacks
  /\ presence \in Sessions \cup {None}
  /\ online \subseteq IDs /\ grace \subseteq IDs
  /\ notif \in States
  /\ enabled \in BOOLEAN /\ blocked \in BOOLEAN /\ known \in BOOLEAN
  /\ told \in {"nothing", "offline", "online"}
  /\ removal \in {"no", "blocked", "dropped", "forgotten", "deleted", "redropped", "done", "failed",
                 "halfway"}
  /\ crossed \subseteq Conns /\ unheard \subseteq IDs /\ beside \subseteq IDs

Init ==
  /\ pc = [c \in Conns |-> "idle"] /\ closed = {} /\ closing = {}
  /\ registry = None
  /\ http = "none" /\ sessions = 0 /\ post = Absent /\ timers = {} /\ presence = None
  /\ online = {} /\ notif = NewState /\ grace = {}
  /\ enabled \in BOOLEAN /\ (MayDisable \/ enabled = TRUE) /\ told = "nothing"
  /\ blocked = FALSE /\ early = {} /\ known = TRUE /\ removal = "no"
  /\ crossed = {} /\ unheard = {} /\ beside = {}

------------------------------------------------------------------------------
(* Helpers shared by the handlers. *)

At(c, from, to) == pc[c] = from /\ pc' = [pc EXCEPT ![c] = to]

\* refreshPostPresence works under postPresenceMu. KeepAlivePresence, which it calls,
\* asks EntityWritesBlocked before it takes the registry's lock: whoever has passed
\* that check is "keeping" and still holds the mutex.
PostFree == http # "keeping" /\ \A c \in Conns : pc[c] # "keeping"

\* The session being refreshed: that of the entry, or the one just created.
Session == IF post.id # None THEN post.id ELSE sessions

\* The rest of a new session: announced online, with its first timer and its entry.
Opened(id) ==
  /\ post' = [id |-> id, gen |-> 0]
  /\ timers' = timers \cup {[id |-> id, gen |-> 0, stage |-> "armed"]}
  /\ online' = online \cup {id}

\* refreshPostPresence with an entry, up to the check: the old timer is stopped (a
\* callback that already fired still runs), a new one armed for the next generation.
ExtendSession ==
  /\ post.id # None
  /\ post.gen < MaxGen
  /\ post' = [post EXCEPT !.gen = @ + 1]
  /\ timers' = {t \in timers : t.stage # "armed"}
                 \cup {[id |-> post.id, gen |-> post.gen + 1, stage |-> "armed"]}
  /\ UNCHANGED <<sessions, online>>

\* refreshPostPresence without an entry, up to the check, or to its end if writes
\* are blocked.
OpenSession ==
  /\ post.id = None
  /\ sessions < MaxSessions
  /\ sessions' = sessions + 1
  /\ IF blocked THEN Opened(sessions + 1) ELSE UNCHANGED <<post, timers, online>>

RefreshPostPresence == PostFree /\ (ExtendSession \/ OpenSession) /\ UNCHANGED presence

\* Where a refresh goes after the check.
Checked(end) == IF blocked THEN end ELSE "keeping"

\* KeepAlivePresence under the lock, and what is left of the refresh.
KeepAlivePresence ==
  /\ presence' = Session
  /\ IF post.id = None THEN Opened(sessions) ELSE UNCHANGED <<post, timers, online>>
  /\ UNCHANGED sessions

\* Bound: a report starts only if MaxGen and MaxSessions leave room for its refresh
\* and for those already under way, so the bounds never stop a handler half-way.
RoomToRefresh ==
  LET inFlight == Cardinality({c \in Conns : pc[c] \in {"refreshing", "keeping"}})
                    + (IF http # "none" THEN 1 ELSE 0)
  IN  post.gen + inFlight < MaxGen /\ sessions + inFlight < MaxSessions

\* Mutant: a reconnect during the grace period returns before anything is recorded.
RecordOnlineIgnored(s, id) ==
  IF s.pending THEN s
  ELSE [first |-> FALSE, pending |-> FALSE, exist |-> TRUE, conn |-> id]

\* recordOnlineConnection.
RecordOnline(s, id) ==
  [first   |-> FALSE,
   pending |-> FALSE,
   exist   |-> IF s.pending /\ ~s.first THEN s.exist ELSE TRUE,
   conn    |-> id]

NotifyOnline(s) == ~s.first /\ ~s.pending /\ ~s.exist

\* Mutant: the end of any connection opens the grace period.
BeginOfflineGraceAny(s, id) == ~s.pending

\* beginOfflineGrace accepts only the first end of the current connection.
BeginOfflineGrace(s, id) == ~s.pending /\ s.conn = id

\* OfflineNotification(uuid, id), up to the start of the grace goroutine.
OfflineNotification(id) ==
  /\ IF known /\ enabled /\ BeginOfflineGrace(notif, id)
     THEN notif' = [notif EXCEPT !.pending = TRUE] /\ grace' = grace \cup {id}
     ELSE UNCHANGED <<notif, grace>>
  /\ unheard' = IF known /\ enabled /\ id \notin online THEN unheard ELSE unheard \cup {id}
  /\ UNCHANGED <<crossed, beside>>

------------------------------------------------------------------------------
(* WebSocket handlers. *)

\* Upgrade (v1: after the first message was read), then look the old connection
\* up and close it in a goroutine. The token no longer resolves once the node is gone.
Accept(c) ==
  /\ known
  /\ At(c, "idle", "accepted")
  /\ closing' = IF registry # None THEN closing \cup {registry} ELSE closing
  /\ UNCHANGED <<closed, registry, postVars, notifyVars, removeVars, pastVars>>

\* SetConnectedClients, first half: the blocked check is made outside the lock.
Admit(c) ==
  /\ IF blocked
     THEN At(c, "accepted", "stored") /\ closed' = closed \cup {c}
     ELSE At(c, "accepted", "admitted") /\ UNCHANGED closed
  /\ UNCHANGED <<closing, registry, postVars, notifyVars, removeVars, pastVars>>

\* SetConnectedClients, second half.
Store(c) ==
  /\ At(c, "admitted", "stored")
  /\ registry' = c
  /\ crossed' = IF \E d \in Conns \ {c} : pc[d] \in {"accepted", "admitted"}
                THEN crossed \cup {c} ELSE crossed
  /\ UNCHANGED <<closed, closing, postVars, notifyVars, removeVars, unheard, beside>>

\* Both versions announce the connection asynchronously.
Announce(c) ==
  /\ At(c, "stored", "running")
  /\ online' = online \cup {c}
  /\ UNCHANGED <<closed, closing, registry, postVars, notif, grace, enabled, told, removeVars, pastVars>>

\* ingestReport of the v2 handler (markPresence = true); a write to a blocked node
\* fails first. A v1 report leaves the POST presence alone.
WsReport(c) ==
  /\ c \in V2Conns /\ ~blocked /\ RoomToRefresh
  /\ At(c, "running", "refreshing")
  /\ UNCHANGED <<closed, closing, registry, postVars, notifyVars, removeVars, pastVars>>

WsRefresh(c) ==
  /\ At(c, "refreshing", Checked("running"))
  /\ RefreshPostPresence
  /\ UNCHANGED <<closed, closing, registry, http, notif, grace, enabled, told, removeVars, pastVars>>

WsKeepAlive(c) ==
  /\ At(c, "keeping", "running")
  /\ KeepAlivePresence
  /\ UNCHANGED <<closed, closing, registry, http, notif, grace, enabled, told, removeVars, pastVars>>

\* The peer goes away, the network breaks or the read deadline passes.
PeerCloses(c) ==
  /\ pc[c] \notin {"idle", "unregistered", "done"}
  /\ c \notin closed
  /\ closed' = closed \cup {c}
  /\ UNCHANGED <<pc, closing, registry, postVars, notifyVars, removeVars, pastVars>>

\* Mutant: closing the old connection does not end its read.
CloseOldIneffective(c) ==
  /\ c \in closing
  /\ closing' = closing \ {c}
  /\ UNCHANGED <<pc, closed, registry, postVars, notifyVars, removeVars, pastVars>>

\* `go oldConn.Close()`.
CloseOld(c) ==
  /\ c \in closing
  /\ closing' = closing \ {c}
  /\ closed' = closed \cup {c}
  /\ UNCHANGED <<pc, registry, postVars, notifyVars, removeVars, pastVars>>

\* Mutant: the cleanup removes whatever connection is registered.
UnregisterAny(c) ==
  /\ c \in closed
  /\ At(c, "running", "unregistered")
  /\ registry' = None
  /\ UNCHANGED <<closed, closing, postVars, notifyVars, removeVars, pastVars>>

\* The read loop ends and the deferred DeleteClientConditionally runs: only the
\* connection that is still current takes the registry entry away.
Unregister(c) ==
  /\ c \in closed
  /\ At(c, "running", "unregistered")
  /\ IF registry = c
     THEN registry' = None
     ELSE UNCHANGED registry
  /\ UNCHANGED <<closed, closing, postVars, notifyVars, removeVars, pastVars>>

\* Second half of the deferred function, in the handler's own goroutine.
EndConnection(c) ==
  /\ At(c, "unregistered", "done")
  /\ OfflineNotification(c)
  /\ UNCHANGED <<closed, closing, registry, postVars, online, enabled, told, removeVars>>

------------------------------------------------------------------------------
(* HTTP POST reporting. *)

\* UploadReport (v1) and agent.report over HTTP (v2): ingestReport, first half.
HttpReport ==
  /\ HttpVersions # {} /\ known /\ ~blocked /\ RoomToRefresh
  /\ http = "none" /\ http' = "refreshing"
  /\ UNCHANGED <<wsVars, sessions, post, timers, presence, notifyVars, removeVars, pastVars>>

\* agent.pull (v2) refreshes the presence without writing anything first.
HttpPull ==
  /\ 2 \in HttpVersions /\ known /\ RoomToRefresh
  /\ http = "none" /\ http' = "refreshing"
  /\ UNCHANGED <<wsVars, sessions, post, timers, presence, notifyVars, removeVars, pastVars>>

HttpRefresh ==
  /\ http = "refreshing" /\ http' = Checked("none")
  /\ RefreshPostPresence
  /\ UNCHANGED <<wsVars, notif, grace, enabled, told, removeVars, pastVars>>

HttpKeepAlive ==
  /\ http = "keeping" /\ http' = "none"
  /\ KeepAlivePresence
  /\ UNCHANGED <<wsVars, notif, grace, enabled, told, removeVars, pastVars>>

\* 35 seconds without a refresh.
TimerFires(t) ==
  /\ t \in timers /\ t.stage = "armed"
  /\ timers' = (timers \ {t}) \cup {[t EXCEPT !.stage = "fired"]}
  /\ UNCHANGED <<wsVars, http, sessions, post, presence, notifyVars, removeVars, pastVars>>

\* Mutant: the callback compares the connection ID only.
PostPresenceExpiredAnyGeneration(t) ==
  /\ PostFree
  /\ t \in timers /\ t.stage = "fired"
  /\ IF post.id # t.id
     THEN timers' = timers \ {t} /\ UNCHANGED post
     ELSE timers' = (timers \ {t}) \cup {[t EXCEPT !.stage = "clearing"]} /\ post' = Absent
  /\ UNCHANGED <<wsVars, http, sessions, presence, notifyVars, removeVars, pastVars>>

\* postPresenceExpired under postPresenceMu: a stale callback stops here.
PostPresenceExpired(t) ==
  /\ PostFree
  /\ t \in timers /\ t.stage = "fired"
  /\ IF post.id # t.id \/ post.gen # t.gen
     THEN timers' = timers \ {t} /\ UNCHANGED post
     ELSE timers' = (timers \ {t}) \cup {[t EXCEPT !.stage = "clearing"]} /\ post' = Absent
  /\ UNCHANGED <<wsVars, http, sessions, presence, notifyVars, removeVars, pastVars>>

\* Mutant: the presence is cleared whichever session it belongs to.
ClearPresenceAny(t) ==
  /\ t \in timers /\ t.stage = "clearing"
  /\ presence' = None
  /\ timers' = (timers \ {t}) \cup {[t EXCEPT !.stage = "ending"]}
  /\ UNCHANGED <<wsVars, http, sessions, post, notifyVars, removeVars, pastVars>>

\* SetPresence(uuid, connID, false): only its own entry.
ClearPresence(t) ==
  /\ t \in timers /\ t.stage = "clearing"
  /\ presence' = IF presence = t.id THEN None ELSE presence
  /\ timers' = (timers \ {t}) \cup {[t EXCEPT !.stage = "ending"]}
  /\ UNCHANGED <<wsVars, http, sessions, post, notifyVars, removeVars, pastVars>>

EndSession(t) ==
  /\ t \in timers /\ t.stage = "ending"
  /\ timers' = timers \ {t}
  /\ OfflineNotification(t.id)
  /\ UNCHANGED <<wsVars, http, sessions, post, presence, online, enabled, told, removeVars>>

------------------------------------------------------------------------------
(* Notifier goroutines. *)

\* OnlineNotification: the state is recorded whether or not messages are enabled.
OnlineNotification(id) ==
  /\ id \in online
  /\ online' = online \ {id}
  /\ IF known
     THEN /\ notif' = RecordOnline(notif, id)
          /\ told' = IF enabled /\ NotifyOnline(notif) THEN "online" ELSE told
     ELSE UNCHANGED <<notif, told>>
  /\ beside' = IF {registry, presence} \ {None} = {id} THEN beside ELSE beside \cup {id}
  /\ UNCHANGED <<wsVars, postVars, grace, enabled, removeVars, crossed, unheard>>

\* Mutant: the offline message leaves the node recorded as connected.
GraceExpiresStillConnected(id) ==
  /\ id \in grace
  /\ grace' = grace \ {id}
  /\ IF notif.pending /\ notif.conn = id
     THEN notif' = [notif EXCEPT !.pending = FALSE] /\ told' = "offline"
     ELSE UNCHANGED <<notif, told>>
  /\ UNCHANGED <<wsVars, postVars, online, enabled, removeVars, pastVars>>

\* The grace goroutine wakes up.
GraceExpires(id) ==
  /\ id \in grace
  /\ grace' = grace \ {id}
  /\ IF notif.pending /\ notif.conn = id
     THEN notif' = [notif EXCEPT !.pending = FALSE, !.exist = FALSE] /\ told' = "offline"
     ELSE UNCHANGED <<notif, told>>
  /\ UNCHANGED <<wsVars, postVars, online, enabled, removeVars, pastVars>>

ToggleNotifications ==
  /\ MayDisable /\ enabled' = ~enabled
  /\ UNCHANGED <<wsVars, postVars, online, notif, grace, told, removeVars, pastVars>>

------------------------------------------------------------------------------
(* adminRemoveClient. *)

RemovalStep(from, to) == removal = from /\ removal' = to

BlockEntityWrites ==
  /\ MayRemove
  /\ RemovalStep("no", "blocked")
  /\ blocked' = TRUE
  /\ early' = {c \in Conns : pc[c] = "admitted"} \cup (IF PostFree THEN {} ELSE {Session})
  /\ UNCHANGED <<wsVars, postVars, notifyVars, known, pastVars>>

\* Called before and again after the database transaction. The POST entry and its
\* timer stay; only presenceOnly is cleared.
DeleteConnectedClients ==
  /\ RemovalStep("blocked", "dropped") \/ RemovalStep("deleted", "redropped")
  /\ registry' = None /\ presence' = None
  /\ closed' = closed \cup ({registry} \ {None})
  /\ UNCHANGED <<pc, closing, http, sessions, post, timers, notifyVars, blocked, early, known, pastVars>>

\* ForgetClient: the old state object is orphaned with a new connectionID, so the
\* grace goroutines that still hold it find nothing pending and give up.
ForgetClient ==
  /\ RemovalStep("dropped", "forgotten") \/ RemovalStep("redropped", "done")
  /\ notif' = NewState /\ grace' = {}
  /\ UNCHANGED <<wsVars, postVars, online, enabled, told, blocked, early, known, pastVars>>

\* DeleteClient commits, or fails and unblocks the writes. A schedule that cannot be
\* reloaded after the commit ends the request half way: the writes stay blocked.
DeleteClient ==
  /\ \/ RemovalStep("forgotten", "deleted") /\ known' = FALSE /\ UNCHANGED blocked
     \/ RemovalStep("forgotten", "failed") /\ blocked' = FALSE /\ UNCHANGED known
     \/ RemovalStep("deleted", "halfway") /\ UNCHANGED <<known, blocked>>
     \/ RemovalStep("redropped", "halfway") /\ UNCHANGED <<known, blocked>>
  /\ UNCHANGED <<wsVars, postVars, notifyVars, early, pastVars>>

------------------------------------------------------------------------------
Connect(c)   == Accept(c) \/ Admit(c) \/ Store(c) \/ Announce(c)
WsServe(c)   == WsReport(c) \/ WsRefresh(c) \/ WsKeepAlive(c) \/ PeerCloses(c) \/ CloseOld(c)
WsEnd(c)     == Unregister(c) \/ EndConnection(c)
HttpServe    == HttpReport \/ HttpPull \/ HttpRefresh \/ HttpKeepAlive
Expiry(t)    == TimerFires(t) \/ PostPresenceExpired(t) \/ ClearPresence(t) \/ EndSession(t)
AdminStep    == ToggleNotifications \/ BlockEntityWrites
RemovalGoesOn == DeleteConnectedClients \/ ForgetClient \/ DeleteClient

Next ==
  \/ \E c \in Conns : Connect(c) \/ WsServe(c) \/ WsEnd(c)
  \/ HttpServe
  \/ AdminStep
  \/ RemovalGoesOn
  \/ \E t \in timers : Expiry(t)
  \/ \E id \in online : OnlineNotification(id)
  \/ \E id \in grace : GraceExpires(id)

Spec == Init /\ [][Next]_vars

\* The runtime runs every runnable goroutine, every timer fires, and a handler whose
\* socket is closed leaves its read loop. Nothing makes an agent connect or report.
Fairness ==
  /\ \A c \in Conns : /\ WF_vars(Admit(c) \/ Store(c) \/ Announce(c))
                      /\ WF_vars(WsRefresh(c) \/ WsKeepAlive(c))
                      /\ WF_vars(CloseOld(c))
                      /\ WF_vars(WsEnd(c))
  /\ WF_vars(HttpRefresh \/ HttpKeepAlive)
  /\ \A t \in Callbacks : WF_vars(Expiry(t))
  /\ \A id \in IDs : WF_vars(OnlineNotification(id)) /\ WF_vars(GraceExpires(id))
  /\ WF_vars(RemovalGoesOn)

FairSpec == Spec /\ Fairness

------------------------------------------------------------------------------
(* Properties. *)

\* The registry never keeps a connection whose handler has already left: whatever
\* the order of connects and ends, the deferred cleanup takes out exactly its own.
RegistryLive == registry # None => pc[registry] \in {"stored"} \cup Serving

\* A handler that is no longer the registered one has been told to close, so the node
\* does not keep two served connections; connections that were stored while another
\* one had already looked for its predecessor are the only ones nobody closes.
NoOrphan ==
  \A c \in Conns :
    pc[c] \in {"stored"} \cup Serving /\ registry # c => c \in closing \cup closed \cup crossed

\* A POST session and the presence entry it keeps alive belong together: the entry of
\* a live session is never cleared by the callback of an earlier one, and an entry
\* that outlives its session is about to be cleared.
SessionPresence ==
  /\ removal = "no" /\ post.id # None => presence = post.id
  /\ presence \notin {None, post.id} => \E t \in timers : t.id = presence /\ t.stage = "clearing"

\* A POST session always has a timer of its current generation still to act, so it
\* cannot stay online for ever after its last report.
SessionTimed ==
  post.id # None =>
    \E t \in timers : t.id = post.id /\ t.gen = post.gen /\ t.stage \in {"armed", "fired"}

\* An accepted offline event always has its grace goroutine, and belongs to the
\* connection the notifier holds to be current: no stale goroutine can act for it.
GraceSound ==
  notif.pending => notif.exist /\ ~notif.first /\ notif.conn \in grace

\* From the moment a deletion drops the node's connections nothing brings it back
\* online, except what had passed the blocked check when the writes were blocked.
RemovedStaysGone ==
  removal \notin {"no", "blocked", "failed"} => {registry, presence} \subseteq early \cup {None}

\* What the two registries hold at any moment: no connection of a handler that has
\* left, a presence entry with its session and its timer, and nothing of a deleted
\* node (connections.go:39-123, report.go:39-93).
RegistrySound == TypeOK /\ RegistryLive /\ SessionPresence /\ SessionTimed /\ RemovedStaysGone

Quiet ==
  /\ online = {} /\ grace = {} /\ timers = {} /\ http = "none"
  /\ \A c \in Conns : pc[c] \in {"idle", "done"}

\* With nothing left to run and nothing connected, a node that is still recorded as up
\* is one whose last link ended where the notifier could not note it: before its own
\* announcement had run, or with notifications off, or after the node was deleted.
SilenceReported == Quiet /\ notif.exist => notif.conn \in unheard

\* No end gets lost: neither that of a connection which was replaced, nor that of the
\* last one (report.go:162-191, offline.go:107-170).
EndsAccounted == NoOrphan /\ SilenceReported

\* The node exists and is connected, as far as its connections and their announcements go.
Connected ==
  /\ known
  /\ \/ registry # None /\ pc[registry] \in Serving /\ registry \notin online \cup closed
     \/ removal = "no" /\ presence # None /\ presence \notin online

TakenOffline == notif.exist /\ ~notif'.exist /\ removal' = removal

\* offline.go:18-26 and 137-139: when an offline message is sent for a node that is
\* connected, the link it reports was announced beside another one or late, when it was
\* not the node's only link any more. A plain reconnect never causes one.
OfflineExplained == [][TakenOffline => ~Connected \/ notif.conn \in beside]_vars

\* The same without the exception: no offline message while the node is connected.
NoFalseOffline == [][TakenOffline => ~Connected]_vars

\* report.go:78-80: an expiry never ends a session that was refreshed in time, that
\* is, one whose current timer has not fired yet.
ExpiryIsCurrent ==
  [][post.id # None /\ post'.id # post.id =>
       ~\E t \in timers : t.id = post.id /\ t.gen = post.gen /\ t.stage = "armed"]_vars

\* A replaced connection is closed and its handler ends.
Superseded == \A c \in Conns : c \in closing ~> pc[c] = "done"

\* The whole machinery implements the notifier's promise.
Promise == INSTANCE NotifierPromise WITH
  status <- IF notif.first THEN "unknown" ELSE IF notif.exist THEN "up" ELSE "down"

KeepsPromise == Promise!PSpec
==============================================================================
