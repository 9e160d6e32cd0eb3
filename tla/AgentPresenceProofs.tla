------------------------- MODULE AgentPresenceProofs -------------------------
(***************************************************************************)
(* Proofs about AgentPresence, for every set of connections, every bound   *)
(* and every schedule: its types, the soundness of the notifier's grace    *)
(* period, the refinement of NotifierPromise, the soundness of the two     *)
(* registries, and what becomes of the end of every connection.            *)
(*                                                                         *)
(* GraceSound is not inductive by itself: that a node which was reported   *)
(* offline cannot be reported again rests on the fact that a connection    *)
(* ends once.  Ended(id) says that id has had its OfflineNotification; the *)
(* timer facts say that a POST session reaches that call at most once.     *)
(*                                                                         *)
(* Three more invariants build on that one.  RInv relates the registry of  *)
(* connections and the map of sessions to what each goroutine has still to *)
(* do.  EInv says that what was announced will end or was not heard, and   *)
(* that a replaced connection is being closed or crossed with another.     *)
(* FInv says that what the notifier holds of a connected node is that      *)
(* connection, or a link that was announced beside another one.  All hold  *)
(* for every schedule.                                                     *)
(***************************************************************************)
EXTENDS AgentPresence, TLAPS

Past == {"clearing", "ending"}

\* The end of this connection or session has been given to the notifier.
Ended(id) ==
  \/ id \in Conns /\ pc[id] = "done"
  \/ /\ id \in Sessions /\ id <= sessions /\ post.id # id /\ (PostFree \/ Session # id)
     /\ \A t \in timers : t.id = id => t.stage \notin Past

\* Sessions are numbered in the order they were opened.
SessionsNumbered == post.id <= sessions /\ \A t \in timers : t.id <= sessions

\* A callback that took its session out of the map is the only one of that session.
ExpiresOnce ==
  /\ \A t \in timers : t.stage \in Past => post.id # t.id
  /\ \A t, u \in timers : t.stage \in Past /\ u.stage \in Past /\ t.id = u.id => t = u

\* Whoever is past the check of KeepAlivePresence holds the mutex, and a session that is
\* being opened has no callback yet.
OneKeeper ==
  /\ \A c, d \in Conns : pc[c] = "keeping" /\ pc[d] = "keeping" => c = d
  /\ http = "keeping" => \A c \in Conns : pc[c] # "keeping"
OpeningIsNew ==
  ~PostFree /\ post.id = None => sessions \in Sessions /\ \A t \in timers : t.id # sessions

GraceAfterEnd == \A id \in grace : Ended(id)
FirstIsNew    == notif.first => notif = NewState
DownIsEnded   == ~notif.first /\ ~notif.exist => Ended(notif.conn)

IInv ==
  /\ TypeOK
  /\ SessionsNumbered
  /\ ExpiresOnce
  /\ OneKeeper
  /\ OpeningIsNew
  /\ GraceAfterEnd
  /\ FirstIsNew
  /\ DownIsEnded
  /\ GraceSound

------------------------------------------------------------------------------
(* IDs: zero is not one of them, and connections and sessions are apart. *)

LEMMA IDsApart == None \notin IDs /\ Conns \cap Sessions = {} /\ IDs \subseteq Nat
  BY PresenceAssumption DEF None, IDs, Sessions

LEMMA InitInv == Init => IInv
<1> SUFFICES ASSUME Init PROVE IInv
  OBVIOUS
<1> USE PresenceAssumption, IDsApart DEF Init, NewState, Absent, None
<1>1. TypeOK
  <2>1. enabled \in BOOLEAN
    OBVIOUS
  <2>2. pc \in [Conns -> PCs]
    BY DEF PCs
  <2>3. post \in [id : Sessions \cup {None}, gen : 0..MaxGen] /\ notif \in States
    BY DEF States, IDs
  <2>4. closed \subseteq Conns /\ closing \subseteq Conns /\ early \subseteq IDs /\ timers \subseteq Callbacks
        /\ online \subseteq IDs /\ grace \subseteq IDs
    OBVIOUS
  <2>5. registry \in Conns \cup {None} /\ sessions \in 0..MaxSessions /\ presence \in Sessions \cup {None}
    OBVIOUS
  <2>6. blocked \in BOOLEAN /\ known \in BOOLEAN
    OBVIOUS
  <2>7. QED
    BY <2>1, <2>2, <2>3, <2>4, <2>5, <2>6 DEF TypeOK
<1>2. /\ SessionsNumbered /\ ExpiresOnce /\ OneKeeper /\ OpeningIsNew
      /\ GraceAfterEnd /\ FirstIsNew /\ DownIsEnded /\ GraceSound
  BY DEF SessionsNumbered, ExpiresOnce, OneKeeper, OpeningIsNew, PostFree, GraceAfterEnd, FirstIsNew, DownIsEnded, GraceSound
<1>3. QED
  BY <1>1, <1>2 DEF IInv

------------------------------------------------------------------------------
(* What the helpers do to the variables they write. *)

LEMMA AtType ==
  ASSUME TypeOK, NEW c \in Conns, NEW from, NEW to \in PCs, At(c, from, to)
  PROVE  /\ pc' \in [Conns -> PCs]
         /\ pc[c] = from /\ pc'[c] = to
         /\ \A d \in Conns \ {c} : pc'[d] = pc[d]
  BY DEF TypeOK, At

LEMMA OpenedType ==
  ASSUME TypeOK, NEW id \in Sessions, Opened(id)
  PROVE  /\ post' \in [id : Sessions \cup {None}, gen : 0..MaxGen]
         /\ timers' \subseteq Callbacks
         /\ online' \subseteq IDs
<1>1. [id |-> id, gen |-> 0] \in [id : Sessions \cup {None}, gen : 0..MaxGen]
  BY PresenceAssumption
<1>2. [id |-> id, gen |-> 0, stage |-> "armed"] \in Callbacks
  BY PresenceAssumption DEF Callbacks
<1>3. QED
  BY <1>1, <1>2 DEF TypeOK, Opened, IDs

LEMMA RefreshType ==
  ASSUME TypeOK, RefreshPostPresence
  PROVE  /\ sessions' \in 0..MaxSessions
         /\ post' \in [id : Sessions \cup {None}, gen : 0..MaxGen]
         /\ timers' \subseteq Callbacks
         /\ presence' \in Sessions \cup {None}
         /\ online' \subseteq IDs
<1> USE PresenceAssumption DEF TypeOK
<1>1. CASE ExtendSession
  BY <1>1 DEF RefreshPostPresence, ExtendSession, Callbacks, Sessions, None
<1>2. CASE OpenSession
  <2>1. sessions + 1 \in Sessions /\ sessions' \in 0..MaxSessions
    BY <1>2 DEF OpenSession, Sessions
  <2>2. CASE blocked
    BY <1>2, <2>1, <2>2, OpenedType DEF OpenSession, RefreshPostPresence
  <2>3. CASE ~blocked
    BY <1>2, <2>1, <2>3 DEF OpenSession, RefreshPostPresence
  <2>4. QED
    BY <2>2, <2>3
<1>3. QED
  BY <1>1, <1>2 DEF RefreshPostPresence

LEMMA SessionType ==
  ASSUME TypeOK, OpeningIsNew, ~PostFree
  PROVE  Session \in Sessions
  BY DEF TypeOK, OpeningIsNew, Session

LEMMA KeepType ==
  ASSUME TypeOK, OpeningIsNew, ~PostFree, KeepAlivePresence
  PROVE  /\ sessions' \in 0..MaxSessions
         /\ post' \in [id : Sessions \cup {None}, gen : 0..MaxGen]
         /\ timers' \subseteq Callbacks
         /\ presence' \in Sessions \cup {None}
         /\ online' \subseteq IDs
<1>1. presence' \in Sessions /\ sessions' = sessions
  BY SessionType DEF KeepAlivePresence
<1>2. CASE post.id = None
  <2>1. sessions \in Sessions /\ Opened(sessions)
    BY <1>2 DEF OpeningIsNew, KeepAlivePresence
  <2>2. QED
    BY <1>1, <2>1, OpenedType DEF TypeOK
<1>3. CASE post.id # None
  BY <1>1, <1>3 DEF KeepAlivePresence, TypeOK
<1>4. QED
  BY <1>2, <1>3

LEMMA OfflineType ==
  ASSUME TypeOK, NEW id \in IDs, OfflineNotification(id)
  PROVE  /\ notif' \in States /\ grace' \subseteq IDs
         /\ crossed' \subseteq Conns /\ unheard' \subseteq IDs /\ beside' \subseteq IDs
<1>1. crossed' \subseteq Conns /\ unheard' \subseteq IDs /\ beside' \subseteq IDs
  BY DEF TypeOK, OfflineNotification
<1>2. CASE known /\ enabled /\ BeginOfflineGrace(notif, id)
  BY <1>1, <1>2 DEF TypeOK, OfflineNotification, States
<1>3. CASE ~(known /\ enabled /\ BeginOfflineGrace(notif, id))
  BY <1>1, <1>3 DEF TypeOK, OfflineNotification
<1>4. QED
  BY <1>2, <1>3

------------------------------------------------------------------------------
(* Type correctness, one step per action. *)

LEMMA TypeStep == TypeOK /\ OpeningIsNew /\ [Next]_vars => TypeOK'
<1> SUFFICES ASSUME TypeOK, OpeningIsNew, [Next]_vars PROVE TypeOK'
  OBVIOUS
<1> USE DEF vars, wsVars, postVars, notifyVars, removeVars, pastVars
<1>1. CASE UNCHANGED vars
  BY <1>1 DEF TypeOK
<1>2. ASSUME NEW c \in Conns, Accept(c) PROVE TypeOK'
  BY <1>2, AtType DEF TypeOK, Accept, PCs, Connecting
<1>3. ASSUME NEW c \in Conns, Admit(c) PROVE TypeOK'
  <2>1. pc' \in [Conns -> PCs]
    BY <1>3, AtType DEF Admit, PCs, Connecting
  <2>2. QED
    BY <1>3, <2>1 DEF TypeOK, Admit
<1>4. ASSUME NEW c \in Conns, Store(c) PROVE TypeOK'
  <2>1. pc' \in [Conns -> PCs]
    BY <1>4, AtType DEF Store, PCs, Connecting
  <2>2. crossed' \subseteq Conns
    BY <1>4 DEF TypeOK, Store
  <2>3. QED
    BY <1>4, <2>1, <2>2 DEF TypeOK, Store
<1>5. ASSUME NEW c \in Conns, Announce(c) PROVE TypeOK'
  <2>1. pc' \in [Conns -> PCs]
    BY <1>5, AtType DEF Announce, PCs, Serving
  <2>2. QED
    BY <1>5, <2>1 DEF TypeOK, Announce, IDs
<1>6. ASSUME NEW c \in Conns, WsReport(c) PROVE TypeOK'
  BY <1>6, AtType DEF TypeOK, WsReport, PCs, Serving
<1>7. ASSUME NEW c \in Conns, WsRefresh(c) PROVE TypeOK'
  <2>1. pc' \in [Conns -> PCs]
    BY <1>7, AtType DEF WsRefresh, Checked, PCs, Serving
  <2>2. QED
    BY <1>7, <2>1, RefreshType DEF TypeOK, WsRefresh
<1>8. ASSUME NEW c \in Conns, WsKeepAlive(c) PROVE TypeOK'
  <2>1. pc' \in [Conns -> PCs] /\ ~PostFree
    BY <1>8, AtType DEF WsKeepAlive, At, PostFree, PCs, Serving
  <2>2. QED
    BY <1>8, <2>1, KeepType DEF TypeOK, WsKeepAlive
<1>9. ASSUME NEW c \in Conns, PeerCloses(c) PROVE TypeOK'
  BY <1>9 DEF TypeOK, PeerCloses
<1>10. ASSUME NEW c \in Conns, CloseOld(c) PROVE TypeOK'
  BY <1>10 DEF TypeOK, CloseOld
<1>11. ASSUME NEW c \in Conns, Unregister(c) PROVE TypeOK'
  <2>1. pc' \in [Conns -> PCs]
    BY <1>11, AtType DEF Unregister, PCs
  <2>2. registry' \in Conns \cup {None}
    BY <1>11 DEF TypeOK, Unregister
  <2>3. QED
    BY <1>11, <2>1, <2>2 DEF TypeOK, Unregister
<1>12. ASSUME NEW c \in Conns, EndConnection(c) PROVE TypeOK'
  <2>1. pc' \in [Conns -> PCs]
    BY <1>12, AtType DEF EndConnection, PCs
  <2>2. /\ notif' \in States /\ grace' \subseteq IDs
        /\ crossed' \subseteq Conns /\ unheard' \subseteq IDs /\ beside' \subseteq IDs
    BY <1>12, OfflineType DEF EndConnection, IDs
  <2>3. QED
    BY <1>12, <2>1, <2>2 DEF TypeOK, EndConnection
<1>13. CASE HttpReport \/ HttpPull
  BY <1>13 DEF TypeOK, HttpReport, HttpPull
<1>14. CASE HttpRefresh
  BY <1>14, RefreshType DEF TypeOK, HttpRefresh, Checked
<1>15. CASE HttpKeepAlive
  <2>1. ~PostFree
    BY <1>15 DEF HttpKeepAlive, PostFree
  <2>2. QED
    BY <1>15, <2>1, KeepType DEF TypeOK, HttpKeepAlive
<1>16. CASE ToggleNotifications
  BY <1>16 DEF TypeOK, ToggleNotifications
<1>17. CASE BlockEntityWrites
  <2>1. ~PostFree => Session \in IDs
    BY SessionType DEF IDs
  <2>2. early' \subseteq IDs
    BY <1>17, <2>1 DEF BlockEntityWrites, IDs
  <2>3. QED
    BY <1>17, <2>2 DEF TypeOK, BlockEntityWrites, RemovalStep
<1>18. CASE DeleteConnectedClients
  BY <1>18 DEF TypeOK, DeleteConnectedClients, RemovalStep
<1>19. CASE ForgetClient
  BY <1>19 DEF TypeOK, ForgetClient, RemovalStep, NewState, States
<1>20. CASE DeleteClient
  BY <1>20 DEF TypeOK, DeleteClient, RemovalStep
<1>21. ASSUME NEW t \in timers, TimerFires(t) PROVE TypeOK'
  BY <1>21 DEF TypeOK, TimerFires, Callbacks
<1>22. ASSUME NEW t \in timers, PostPresenceExpired(t) PROVE TypeOK'
  BY <1>22, PresenceAssumption DEF TypeOK, PostPresenceExpired, Callbacks, Absent
<1>23. ASSUME NEW t \in timers, ClearPresence(t) PROVE TypeOK'
  BY <1>23 DEF TypeOK, ClearPresence, Callbacks
<1>24. ASSUME NEW t \in timers, EndSession(t) PROVE TypeOK'
  <2>1. /\ notif' \in States /\ grace' \subseteq IDs
        /\ crossed' \subseteq Conns /\ unheard' \subseteq IDs /\ beside' \subseteq IDs
    BY <1>24, OfflineType DEF EndSession, TypeOK, Callbacks, IDs
  <2>2. QED
    BY <1>24, <2>1 DEF TypeOK, EndSession
<1>25. ASSUME NEW id \in online, OnlineNotification(id) PROVE TypeOK'
  <2>1. RecordOnline(notif, id) \in States
    BY DEF TypeOK, RecordOnline, States
  <2>2. notif' \in States /\ told' \in {"nothing", "offline", "online"}
    BY <1>25, <2>1 DEF TypeOK, OnlineNotification
  <2>3. beside' \subseteq IDs
    BY <1>25 DEF TypeOK, OnlineNotification
  <2>4. QED
    BY <1>25, <2>2, <2>3 DEF TypeOK, OnlineNotification
<1>26. ASSUME NEW id \in grace, GraceExpires(id) PROVE TypeOK'
  <2>1. notif' \in States /\ told' \in {"nothing", "offline", "online"}
    BY <1>26 DEF TypeOK, GraceExpires, States
  <2>2. QED
    BY <1>26, <2>1 DEF TypeOK, GraceExpires
<1>27. QED
  BY <1>1, <1>2, <1>3, <1>4, <1>5, <1>6, <1>7, <1>8, <1>9, <1>10, <1>11, <1>12, <1>13,
     <1>14, <1>15, <1>16, <1>17, <1>18, <1>19, <1>20, <1>21, <1>22, <1>23, <1>24,
     <1>25, <1>26
  DEF Next, Connect, WsServe, WsEnd, HttpServe, AdminStep, RemovalGoesOn, Expiry

------------------------------------------------------------------------------
(* Which steps touch what. *)

\* The steps of one connection but the two that work on the POST session.
PlainConnStep(c) ==
  \/ Accept(c) \/ Admit(c) \/ Store(c) \/ Announce(c)
  \/ WsReport(c) \/ PeerCloses(c) \/ CloseOld(c)
  \/ Unregister(c) \/ EndConnection(c)

\* Only a refresh hands the mutex to the check, and only what passed it gives it back.
LEMMA PlainConn ==
  ASSUME TypeOK, NEW c \in Conns, PlainConnStep(c)
  PROVE  /\ UNCHANGED <<sessions, post, timers, presence, http, enabled, removeVars>>
         /\ \A d \in Conns : pc'[d] = "keeping" <=> pc[d] = "keeping"
         /\ \A d \in Conns : pc[d] = "done" => pc'[d] = "done"
<1> USE DEF postVars, notifyVars, TypeOK, At
<1>1. CASE Accept(c) \/ Admit(c) \/ Store(c) \/ Announce(c)
  BY <1>1 DEF Accept, Admit, Store, Announce
<1>2. CASE WsReport(c) \/ PeerCloses(c) \/ CloseOld(c)
  BY <1>2 DEF WsReport, PeerCloses, CloseOld
<1>3. CASE Unregister(c) \/ EndConnection(c)
  BY <1>3 DEF Unregister, EndConnection
<1>4. QED
  BY <1>1, <1>2, <1>3 DEF PlainConnStep

\* A refresh by a WebSocket handler or an HTTP request, up to the check ...
RefreshStep(c) ==
  \/ c \in Conns /\ WsRefresh(c)
  \/ c = None /\ HttpRefresh

\* ... and what follows it.
KeepStep(c) ==
  \/ c \in Conns /\ WsKeepAlive(c)
  \/ c = None /\ HttpKeepAlive

ServeVars == <<registry, closed, closing, notif, grace, enabled, told, removeVars, pastVars>>

LEMMA Refresh ==
  ASSUME TypeOK, NEW c, RefreshStep(c)
  PROVE  /\ RefreshPostPresence /\ PostFree /\ UNCHANGED ServeVars
         /\ blocked => PostFree'
         /\ ~blocked => ~PostFree'
         /\ \A d \in Conns : pc[d] = "done" => pc'[d] = "done"
         /\ \A d \in Conns : d # c => pc'[d] = pc[d]
         /\ c \in Conns => http' = http /\ pc[c] = "refreshing" /\ pc'[c] \in {"running", "keeping"}
<1> USE DEF TypeOK, At, Checked, PostFree, RefreshPostPresence, ServeVars
<1>1. CASE c \in Conns /\ WsRefresh(c)
  BY <1>1 DEF WsRefresh
<1>2. CASE c = None /\ HttpRefresh
  <2>1. c \notin Conns
    BY <1>2, IDsApart DEF IDs
  <2>2. QED
    BY <1>2, <2>1 DEF HttpRefresh, wsVars
<1>3. QED
  BY <1>1, <1>2 DEF RefreshStep

LEMMA Keep ==
  ASSUME TypeOK, OneKeeper, NEW c, KeepStep(c)
  PROVE  /\ KeepAlivePresence /\ ~PostFree /\ PostFree' /\ UNCHANGED ServeVars
         /\ \A d \in Conns : pc[d] = "done" => pc'[d] = "done"
         /\ \A d \in Conns : d # c => pc'[d] = pc[d]
         /\ c \in Conns => http' = http /\ pc[c] = "keeping" /\ pc'[c] = "running"
<1> USE DEF TypeOK, OneKeeper, At, PostFree, ServeVars
<1>1. CASE c \in Conns /\ WsKeepAlive(c)
  BY <1>1 DEF WsKeepAlive
<1>2. CASE c = None /\ HttpKeepAlive
  <2>1. c \notin Conns
    BY <1>2, IDsApart DEF IDs
  <2>2. QED
    BY <1>2, <2>1 DEF HttpKeepAlive, wsVars
<1>3. QED
  BY <1>1, <1>2 DEF KeepStep

\* Every step is one of these kinds.
Other ==
  \/ UNCHANGED vars
  \/ HttpReport \/ HttpPull
  \/ AdminStep
  \/ RemovalGoesOn
  \/ \E id \in online : OnlineNotification(id)
  \/ \E id \in grace : GraceExpires(id)

LEMMA Moves ==
  ASSUME [Next]_vars
  PROVE  \/ \E c \in Conns : PlainConnStep(c)
         \/ \E c \in Conns \cup {None} : RefreshStep(c) \/ KeepStep(c)
         \/ \E t \in timers : Expiry(t)
         \/ Other
  BY DEF Next, Connect, WsServe, WsEnd, HttpServe, PlainConnStep, RefreshStep, KeepStep, Other

\* What is left of the steps moves no handler and no session.
LEMMA Others ==
  ASSUME Other
  PROVE  /\ UNCHANGED <<pc, sessions, post, timers, closing>>
         /\ http' = http \/ (http = "none" /\ http' = "refreshing")
         /\ DeleteConnectedClients \/ UNCHANGED <<registry, presence, closed>>
<1> USE DEF vars, wsVars, postVars, notifyVars, removeVars, pastVars
<1>1. CASE UNCHANGED vars \/ HttpReport \/ HttpPull \/ AdminStep
  BY <1>1 DEF HttpReport, HttpPull, AdminStep, ToggleNotifications, BlockEntityWrites
<1>2. CASE RemovalGoesOn
  BY <1>2 DEF RemovalGoesOn, DeleteConnectedClients, ForgetClient, DeleteClient
<1>3. ASSUME NEW id, OnlineNotification(id) \/ GraceExpires(id)
      PROVE  UNCHANGED <<pc, sessions, post, timers, closing, http, registry, presence, closed>>
  BY <1>3 DEF OnlineNotification, GraceExpires
<1>4. QED
  BY <1>1, <1>2, <1>3 DEF Other

LEMMA Expiries ==
  ASSUME NEW t, Expiry(t)
  PROVE  UNCHANGED <<wsVars, http, sessions, online, enabled, told, removeVars>>
  BY DEF Expiry, TimerFires, PostPresenceExpired, ClearPresence, EndSession, wsVars, notifyVars,
         removeVars, pastVars

LEMMA WhoRefreshes ==
  ASSUME TypeOK, OneKeeper, [Next]_vars
  PROVE  \/ RefreshPostPresence /\ PostFree /\ (PostFree' <=> blocked) /\ UNCHANGED ServeVars
         \/ KeepAlivePresence /\ ~PostFree /\ PostFree' /\ UNCHANGED ServeVars
         \/ (\E t \in timers : Expiry(t)) /\ (PostFree' <=> PostFree) /\ UNCHANGED removeVars
         \/ /\ UNCHANGED <<sessions, post, timers>> /\ (PostFree' <=> PostFree)
            /\ DeleteConnectedClients \/ UNCHANGED presence
<1>1. ASSUME NEW c \in Conns, PlainConnStep(c)
      PROVE  UNCHANGED <<sessions, post, timers, presence>> /\ (PostFree' <=> PostFree)
  BY <1>1, PlainConn DEF PostFree
<1>2. ASSUME NEW t \in timers, Expiry(t) PROVE (PostFree' <=> PostFree) /\ UNCHANGED removeVars
  BY <1>2, Expiries DEF PostFree, wsVars
<1>3. CASE Other
  BY <1>3, Others DEF PostFree
<1>4. QED
  BY <1>1, <1>2, <1>3, Moves, Refresh, Keep

LEMMA KeeperStep == TypeOK /\ OneKeeper /\ [Next]_vars => OneKeeper'
<1> SUFFICES ASSUME TypeOK, OneKeeper, [Next]_vars PROVE OneKeeper'
  OBVIOUS
<1>1. ASSUME NEW c \in Conns, PlainConnStep(c) PROVE OneKeeper'
  BY <1>1, PlainConn DEF OneKeeper
<1>2. ASSUME NEW c \in Conns \cup {None}, RefreshStep(c) PROVE OneKeeper'
  <2>1. CASE c \in Conns
    BY <1>2, <2>1, Refresh DEF OneKeeper, PostFree
  <2>2. CASE c \notin Conns
    BY <1>2, <2>2, Refresh DEF OneKeeper, PostFree
  <2>3. QED
    BY <2>1, <2>2
<1>3. ASSUME NEW c \in Conns \cup {None}, KeepStep(c) PROVE OneKeeper'
  BY <1>3, Keep DEF OneKeeper, PostFree
<1>4. ASSUME NEW t, Expiry(t) PROVE OneKeeper'
  BY <1>4, Expiries DEF OneKeeper, wsVars
<1>5. CASE Other
  BY <1>5, Others DEF OneKeeper
<1>6. QED
  BY <1>1, <1>2, <1>3, <1>4, <1>5, Moves

LEMMA WhoNotifies ==
  ASSUME TypeOK, OneKeeper, [Next]_vars
  PROVE  \/ \E id \in online : OnlineNotification(id)
         \/ \E id \in grace : GraceExpires(id)
         \/ ForgetClient
         \/ \E c \in Conns : EndConnection(c)
         \/ \E t \in timers : EndSession(t)
         \/ UNCHANGED <<notif, grace, told>>
<1> USE DEF vars, wsVars, postVars, notifyVars, removeVars
<1>1. ASSUME NEW c \in Conns, PlainConnStep(c)
      PROVE  EndConnection(c) \/ UNCHANGED <<notif, grace, told>>
  BY <1>1 DEF PlainConnStep, Accept, Admit, Store, Announce, WsReport, PeerCloses, CloseOld, Unregister
<1>2. ASSUME NEW c, RefreshStep(c) \/ KeepStep(c) PROVE UNCHANGED <<notif, grace, told>>
  BY <1>2, Refresh, Keep DEF ServeVars
<1>3. ASSUME NEW t \in timers, Expiry(t)
      PROVE  EndSession(t) \/ UNCHANGED <<notif, grace, told>>
  BY <1>3 DEF Expiry, TimerFires, PostPresenceExpired, ClearPresence
<1>4. CASE UNCHANGED vars \/ HttpReport \/ HttpPull \/ AdminStep
  BY <1>4 DEF HttpReport, HttpPull, AdminStep, ToggleNotifications, BlockEntityWrites
<1>5. CASE RemovalGoesOn
  BY <1>5 DEF RemovalGoesOn, DeleteConnectedClients, DeleteClient
<1>6. QED
  BY <1>1, <1>2, <1>3, <1>4, <1>5, Moves DEF Other

\* A handler that is done stays done.
LEMMA DoneStays ==
  ASSUME TypeOK, OneKeeper, [Next]_vars, NEW c \in Conns, pc[c] = "done"
  PROVE  pc'[c] = "done"
  BY Moves, PlainConn, Refresh, Keep, Expiries, Others DEF wsVars

------------------------------------------------------------------------------
(* POST sessions: their numbers, their single expiry, and that an end is final. *)

\* What every step preserves of a session that has ended.
SessionEnded(id) ==
  /\ id <= sessions /\ post.id # id /\ (PostFree \/ Session # id)
  /\ \A t \in timers : t.id = id => t.stage \notin Past

\* A new session gets its callback and its entry.
LEMMA OpenedStep ==
  ASSUME TypeOK, SessionsNumbered, ExpiresOnce, NEW new \in Sessions, Opened(new), post.id = None,
         \A t \in timers : t.id # new, sessions' \in Nat, sessions <= sessions', new <= sessions', PostFree'
  PROVE  /\ SessionsNumbered' /\ ExpiresOnce' /\ OpeningIsNew'
         /\ \A id \in Sessions : SessionEnded(id) /\ id # new => SessionEnded(id)'
<1> DEFINE u == [id |-> new, gen |-> 0, stage |-> "armed"]
<1>1. /\ timers' = timers \cup {u} /\ post'.id = new
      /\ u.id = new /\ u.stage = "armed"
  BY DEF Opened
<1> HIDE DEF u
<1>2. sessions \in Nat /\ sessions' \in Nat /\ \A t \in timers : t.id \in Nat
  BY PresenceAssumption DEF TypeOK, Callbacks, Sessions
<1>3. SessionsNumbered'
  BY <1>1, <1>2 DEF SessionsNumbered, Sessions
<1>4. ExpiresOnce'
  BY <1>1 DEF ExpiresOnce, Past
<1>5. OpeningIsNew'
  BY DEF OpeningIsNew
<1>6. ASSUME NEW id \in Sessions, SessionEnded(id), id # new PROVE SessionEnded(id)'
  BY <1>1, <1>2, <1>6 DEF SessionEnded, Past, Sessions
<1>7. QED
  BY <1>3, <1>4, <1>5, <1>6

LEMMA SessionStep ==
  ASSUME TypeOK, SessionsNumbered, ExpiresOnce, OneKeeper, OpeningIsNew, [Next]_vars
  PROVE  /\ SessionsNumbered' /\ ExpiresOnce' /\ OpeningIsNew'
         /\ \A id \in Sessions : SessionEnded(id) => SessionEnded(id)'
<1> DEFINE Goal == /\ SessionsNumbered' /\ ExpiresOnce' /\ OpeningIsNew'
                   /\ \A id \in Sessions : SessionEnded(id) => SessionEnded(id)'
<1>0. sessions \in Nat /\ MaxSessions \in Nat /\ None \notin Sessions
  BY PresenceAssumption, IDsApart DEF TypeOK, IDs
<1>1. CASE UNCHANGED <<sessions, post, timers>> /\ (PostFree' <=> PostFree)
  BY <1>1 DEF SessionsNumbered, ExpiresOnce, SessionEnded, Past, OpeningIsNew, Session
<1>2. CASE ExtendSession /\ PostFree
  <2>1. post'.id = post.id /\ post.id # None /\ sessions' = sessions
    BY <1>2 DEF ExtendSession, TypeOK
  <2>2. \A t \in timers' : (t \in timers /\ t.stage # "armed") \/ (t.id = post.id /\ t.stage = "armed")
    BY <1>2 DEF ExtendSession, TypeOK
  <2>3. SessionsNumbered' /\ ExpiresOnce' /\ OpeningIsNew'
    BY <2>1, <2>2 DEF SessionsNumbered, ExpiresOnce, OpeningIsNew, Past
  <2>4. ASSUME NEW id \in Sessions, SessionEnded(id) PROVE SessionEnded(id)'
    BY <2>1, <2>2, <2>4 DEF SessionEnded, Session, Past
  <2>5. QED
    BY <2>3, <2>4
<1>3. CASE OpenSession /\ PostFree /\ (PostFree' <=> blocked)
  <2>1. /\ sessions' = sessions + 1 /\ sessions + 1 \in Sessions /\ post.id = None
        /\ \A t \in timers : t.id # sessions + 1
    BY <1>0, <1>3, PresenceAssumption DEF OpenSession, Sessions, SessionsNumbered, TypeOK, Callbacks
  <2>2. CASE blocked
    <3>1. Opened(sessions + 1)
      BY <1>3, <2>2 DEF OpenSession
    <3>2. \A id \in Sessions : SessionEnded(id) => id # sessions + 1
      BY <1>0 DEF SessionEnded, Sessions
    <3>3. /\ SessionsNumbered' /\ ExpiresOnce' /\ OpeningIsNew'
          /\ \A id \in Sessions : SessionEnded(id) /\ id # sessions + 1 => SessionEnded(id)'
      BY <1>0, <1>3, <2>1, <2>2, <3>1, OpenedStep
    <3>4. QED
      BY <3>2, <3>3
  <2>3. CASE ~blocked
    <3>1. UNCHANGED <<post, timers>> /\ ~PostFree'
      BY <1>3, <2>3 DEF OpenSession
    <3>2. SessionsNumbered' /\ ExpiresOnce' /\ OpeningIsNew'
      BY <1>0, <2>1, <3>1, PresenceAssumption
      DEF SessionsNumbered, ExpiresOnce, OpeningIsNew, Past, TypeOK, Callbacks, Sessions, None
    <3>3. ASSUME NEW id \in Sessions, SessionEnded(id) PROVE SessionEnded(id)'
      <4>1. id <= sessions' /\ id # sessions'
        BY <1>0, <2>1, <3>3 DEF SessionEnded, Sessions
      <4>2. QED
        BY <2>1, <3>1, <3>3, <4>1 DEF SessionEnded, Session
    <3>4. QED
      BY <3>2, <3>3
  <2>4. QED
    BY <2>2, <2>3
<1>4. CASE KeepAlivePresence /\ ~PostFree /\ PostFree'
  <2>1. CASE post.id # None
    <3>1. UNCHANGED <<sessions, post, timers>>
      BY <1>4, <2>1 DEF KeepAlivePresence
    <3>2. QED
      BY <1>4, <3>1 DEF SessionsNumbered, ExpiresOnce, OpeningIsNew, SessionEnded, Past
  <2>2. CASE post.id = None
    <3>1. sessions \in Sessions /\ Opened(sessions) /\ sessions' = sessions /\ \A t \in timers : t.id # sessions
      BY <1>4, <2>2 DEF KeepAlivePresence, OpeningIsNew
    <3>2. \A id \in Sessions : SessionEnded(id) => id # sessions
      BY <1>4, <2>2 DEF SessionEnded, Session
    <3>3. /\ SessionsNumbered' /\ ExpiresOnce' /\ OpeningIsNew'
          /\ \A id \in Sessions : SessionEnded(id) /\ id # sessions => SessionEnded(id)'
      BY <1>0, <1>4, <2>2, <3>1, OpenedStep
    <3>4. QED
      BY <3>2, <3>3
  <2>3. QED
    BY <2>1, <2>2
<1>5. ASSUME NEW t \in timers, Expiry(t), PostFree' <=> PostFree PROVE Goal
  <2>1. CASE TimerFires(t) \/ ClearPresence(t)
    <3> DEFINE u == IF t.stage = "armed" THEN [t EXCEPT !.stage = "fired"] ELSE [t EXCEPT !.stage = "ending"]
    <3>1. /\ timers' = (timers \ {t}) \cup {u} /\ UNCHANGED <<sessions, post>>
          /\ u.id = t.id /\ (u.stage \in Past <=> t.stage \in Past)
      BY <2>1 DEF TimerFires, ClearPresence, TypeOK, Callbacks, Past
    <3> HIDE DEF u
    <3>2. QED
      BY <1>5, <3>1 DEF SessionsNumbered, ExpiresOnce, OpeningIsNew, SessionEnded, Session
  <2>2. CASE PostPresenceExpired(t)
    <3>0. PostFree /\ PostFree'
      BY <1>5, <2>2 DEF PostPresenceExpired
    <3>1. CASE post.id # t.id \/ post.gen # t.gen
      <4>1. timers' = timers \ {t} /\ UNCHANGED <<sessions, post>>
        BY <2>2, <3>1 DEF PostPresenceExpired
      <4>2. QED
        BY <3>0, <4>1 DEF SessionsNumbered, ExpiresOnce, OpeningIsNew, SessionEnded
    <3>2. CASE ~(post.id # t.id \/ post.gen # t.gen)
      <4> DEFINE u == [t EXCEPT !.stage = "clearing"]
      <4>1. /\ timers' = (timers \ {t}) \cup {u} /\ post' = Absent
            /\ u.id = t.id /\ u.stage = "clearing" /\ post.id = t.id
            /\ sessions' = sessions
        BY <2>2, <3>2 DEF PostPresenceExpired, TypeOK, Callbacks
      <4> HIDE DEF u
      <4>2. SessionsNumbered'
        BY <1>0, <4>1, PresenceAssumption DEF SessionsNumbered, Absent, None
      <4>3. ExpiresOnce'
        BY <4>1 DEF ExpiresOnce, Past, Absent, None, TypeOK, Callbacks, Sessions
      <4>4. \A id \in Sessions : SessionEnded(id) => SessionEnded(id)'
        BY <3>0, <4>1 DEF SessionEnded, Past, Absent, None, Sessions
      <4>5. QED
        BY <3>0, <4>2, <4>3, <4>4 DEF OpeningIsNew
    <3>3. QED
      BY <3>1, <3>2
  <2>3. CASE EndSession(t)
    BY <1>5, <2>3 DEF EndSession, SessionsNumbered, ExpiresOnce, OpeningIsNew, SessionEnded, Session
  <2>4. QED
    BY <1>5, <2>1, <2>2, <2>3 DEF Expiry
<1>6. QED
  BY <1>1, <1>2, <1>3, <1>4, <1>5, WhoRefreshes DEF RefreshPostPresence

LEMMA EndedStays ==
  ASSUME TypeOK, SessionsNumbered, ExpiresOnce, OneKeeper, OpeningIsNew, [Next]_vars, NEW id, Ended(id)
  PROVE  Ended(id)'
<1>1. CASE id \in Conns /\ pc[id] = "done"
  BY <1>1, DoneStays DEF Ended
<1>2. CASE id \in Sessions /\ SessionEnded(id)
  BY <1>2, SessionStep DEF Ended, SessionEnded
<1>3. QED
  BY <1>1, <1>2 DEF Ended, SessionEnded

------------------------------------------------------------------------------
(* The notifier. *)

\* An end that is accepted is the first one of its connection, so the node was up.
LEMMA OfflineStep ==
  ASSUME IInv, NEW id \in IDs, ~Ended(id), Ended(id)', OfflineNotification(id), TypeOK',
         \A i : Ended(i) => Ended(i)'
  PROVE  (GraceAfterEnd /\ FirstIsNew /\ DownIsEnded /\ GraceSound)'
<1> USE DEF IInv, GraceAfterEnd, FirstIsNew, DownIsEnded, GraceSound
<1>1. CASE known /\ enabled /\ BeginOfflineGrace(notif, id)
  <2>1. notif.conn = id /\ ~notif.pending
    BY <1>1 DEF BeginOfflineGrace
  <2>2. notif.exist /\ ~notif.first
    BY <2>1, IDsApart DEF NewState
  <2>3. /\ notif' = [notif EXCEPT !.pending = TRUE]
        /\ grace' = grace \cup {id}
    BY <1>1 DEF OfflineNotification
  <2>4. /\ notif'.exist /\ ~notif'.first /\ notif'.conn = id
    BY <2>1, <2>2, <2>3 DEF TypeOK, States
  <2>5. QED
    BY <2>3, <2>4
<1>2. CASE ~(known /\ enabled /\ BeginOfflineGrace(notif, id))
  <2>1. UNCHANGED <<notif, grace>>
    BY <1>2 DEF OfflineNotification
  <2>2. QED
    BY <2>1
<1>3. QED
  BY <1>1, <1>2

LEMMA NotifyStep ==
  ASSUME IInv, [Next]_vars, TypeOK', \A i : Ended(i) => Ended(i)'
  PROVE  (GraceAfterEnd /\ FirstIsNew /\ DownIsEnded /\ GraceSound)'
<1> DEFINE Goal == GraceAfterEnd /\ FirstIsNew /\ DownIsEnded /\ GraceSound
<1>1. CASE UNCHANGED <<notif, grace>>
  BY <1>1 DEF IInv, GraceAfterEnd, FirstIsNew, DownIsEnded, GraceSound
<1>2. ASSUME NEW id \in online, OnlineNotification(id) PROVE Goal'
  <2>1. CASE known
    <3>1. notif' = RecordOnline(notif, id) /\ grace' = grace
      BY <1>2, <2>1 DEF OnlineNotification
    <3>2. ~notif'.first /\ ~notif'.pending /\ notif'.exist
      BY <3>1 DEF RecordOnline, IInv, GraceSound
    <3>3. QED
      BY <3>1, <3>2 DEF IInv, GraceAfterEnd, FirstIsNew, DownIsEnded, GraceSound
  <2>2. CASE ~known
    BY <1>1, <1>2, <2>2 DEF OnlineNotification
  <2>3. QED
    BY <2>1, <2>2
<1>3. ASSUME NEW id \in grace, GraceExpires(id) PROVE Goal'
  <2>1. grace' = grace \ {id}
    BY <1>3 DEF GraceExpires
  <2>2. CASE notif.pending /\ notif.conn = id
    <3>1. notif' = [notif EXCEPT !.pending = FALSE, !.exist = FALSE]
      BY <1>3, <2>2 DEF GraceExpires
    <3>2. ~notif'.pending /\ ~notif'.exist /\ notif'.first = notif.first /\ notif'.conn = id
      BY <3>1, <2>2 DEF IInv, TypeOK, States
    <3>3. ~notif'.first
      BY <3>2, <2>2 DEF IInv, GraceSound
    <3>4. QED
      BY <2>1, <3>2, <3>3 DEF IInv, GraceAfterEnd, FirstIsNew, DownIsEnded, GraceSound
  <2>3. CASE ~(notif.pending /\ notif.conn = id)
    <3>1. notif' = notif
      BY <1>3, <2>3 DEF GraceExpires
    <3>2. QED
      BY <2>1, <2>3, <3>1 DEF IInv, GraceAfterEnd, FirstIsNew, DownIsEnded, GraceSound
  <2>4. QED
    BY <2>2, <2>3
<1>4. CASE ForgetClient
  BY <1>4 DEF ForgetClient, NewState, GraceAfterEnd, FirstIsNew, DownIsEnded, GraceSound
<1>5. ASSUME NEW c \in Conns, EndConnection(c) PROVE Goal'
  <2>1. c \in IDs /\ c \notin Sessions
    BY IDsApart DEF IDs
  <2>2. pc[c] = "unregistered" /\ pc'[c] = "done"
    BY <1>5 DEF EndConnection, At, IInv, TypeOK
  <2>3. ~Ended(c) /\ Ended(c)'
    BY <2>1, <2>2 DEF Ended
  <2>4. QED
    BY <1>5, <2>1, <2>3, OfflineStep DEF EndConnection
<1>6. ASSUME NEW t \in timers, EndSession(t) PROVE Goal'
  <2>1. t \in Callbacks /\ t.id \in Sessions /\ t.id \in IDs /\ t.id \notin Conns
    BY IDsApart DEF IInv, TypeOK, Callbacks, IDs
  <2>2. t.stage = "ending" /\ timers' = timers \ {t} /\ UNCHANGED <<sessions, post, pc, http>>
    BY <1>6 DEF EndSession, wsVars
  <2>3. ~Ended(t.id) /\ Ended(t.id)'
    BY <2>1, <2>2 DEF Ended, Past, IInv, ExpiresOnce, SessionsNumbered, OpeningIsNew, Session,
                         PostFree
  <2>4. QED
    BY <1>6, <2>1, <2>3, OfflineStep DEF EndSession
<1>7. QED
  BY <1>1, <1>2, <1>3, <1>4, <1>5, <1>6, WhoNotifies DEF IInv

------------------------------------------------------------------------------
(* Theorems. *)

LEMMA InvStep == IInv /\ [Next]_vars => IInv'
<1> SUFFICES ASSUME IInv, [Next]_vars PROVE IInv'
  OBVIOUS
<1>1. TypeOK' /\ OneKeeper'
  BY TypeStep, KeeperStep DEF IInv
<1>2. SessionsNumbered' /\ ExpiresOnce' /\ OpeningIsNew'
  BY SessionStep DEF IInv
<1>3. \A i : Ended(i) => Ended(i)'
  BY EndedStays DEF IInv
<1>4. QED
  BY <1>1, <1>2, <1>3, NotifyStep DEF IInv

LEMMA Inductive == Spec => []IInv
  BY InitInv, InvStep, PTL DEF Spec

\* Every variable keeps its type, whatever the schedule of handlers and goroutines.
THEOREM TypeCorrect == Spec => []TypeOK
<1>1. IInv => TypeOK
  BY DEF IInv
<1>2. QED
  BY <1>1, Inductive, PTL

\* offline.go:70-80 and 137-148: whenever an offline event is pending, the node was up,
\* and the goroutine that will report it is that of the current connection.
THEOREM GraceIsSound == Spec => []GraceSound
<1>1. IInv => GraceSound
  BY DEF IInv
<1>2. QED
  BY <1>1, Inductive, PTL

\* AgentPresence implements NotifierPromise: messages alternate, whatever the order in
\* which handlers, timers and notifier goroutines run.
THEOREM PromiseKept == Spec => KeepsPromise
<1> DEFINE status == IF notif.first THEN "unknown" ELSE IF notif.exist THEN "up" ELSE "down"
<1>1. Init => Promise!PInit
  BY DEF Init, NewState, Promise!PInit
<1>2. IInv /\ [Next]_vars => [Promise!PNext]_(Promise!promiseVars)
  <2> SUFFICES ASSUME IInv, [Next]_vars
               PROVE  [Promise!PNext]_(Promise!promiseVars)
    OBVIOUS
  <2> USE DEF Promise!PNext, Promise!promiseVars
  <2>1. CASE UNCHANGED <<notif, told>>
    BY <2>1
  <2>2. ASSUME NEW id \in online, OnlineNotification(id)
        PROVE  [Promise!PNext]_(Promise!promiseVars)
    <3>1. CASE known /\ notif.first
      BY <2>2, <3>1 DEF OnlineNotification, RecordOnline, NotifyOnline, Promise!Learn
    <3>2. CASE known /\ ~notif.first /\ ~notif.pending /\ ~notif.exist
      BY <2>2, <3>2 DEF OnlineNotification, RecordOnline, Promise!GoOnline
    <3>3. CASE known /\ ~notif.first /\ notif.exist
      BY <2>2, <3>3 DEF OnlineNotification, RecordOnline, NotifyOnline
    <3>4. CASE ~known
      BY <2>1, <2>2, <3>4 DEF OnlineNotification
    <3>5. notif.pending => notif.exist
      BY DEF IInv, GraceSound
    <3>6. QED
      BY <3>1, <3>2, <3>3, <3>4, <3>5
  <2>3. ASSUME NEW id \in grace, GraceExpires(id)
        PROVE  [Promise!PNext]_(Promise!promiseVars)
    <3>1. CASE notif.pending /\ notif.conn = id
      <4>1. notif' = [notif EXCEPT !.pending = FALSE, !.exist = FALSE] /\ told' = "offline"
        BY <2>3, <3>1 DEF GraceExpires
      <4>2. notif.exist /\ ~notif.first
        BY <3>1 DEF IInv, GraceSound
      <4>3. ~notif'.exist /\ ~notif'.first
        BY <4>1, <4>2 DEF IInv, TypeOK, States
      <4>4. QED
        BY <4>1, <4>2, <4>3 DEF Promise!GoOffline
    <3>2. CASE ~(notif.pending /\ notif.conn = id)
      BY <2>1, <2>3, <3>2 DEF GraceExpires
    <3>3. QED
      BY <3>1, <3>2
  <2>4. CASE ForgetClient
    BY <2>4 DEF ForgetClient, NewState, Promise!Forget, notifyVars
  <2>5. ASSUME NEW id, OfflineNotification(id), UNCHANGED told
        PROVE  [Promise!PNext]_(Promise!promiseVars)
    <3>1. notif'.exist = notif.exist /\ notif'.first = notif.first
      BY <2>5 DEF OfflineNotification, IInv, TypeOK, States
    <3>2. QED
      BY <2>5, <3>1
  <2>6. ASSUME NEW c \in Conns, EndConnection(c) PROVE OfflineNotification(c) /\ UNCHANGED told
    BY <2>6 DEF EndConnection
  <2>7. ASSUME NEW t \in timers, EndSession(t) PROVE OfflineNotification(t.id) /\ UNCHANGED told
    BY <2>7 DEF EndSession
  <2>8. QED
    BY <2>1, <2>2, <2>3, <2>4, <2>5, <2>6, <2>7, WhoNotifies DEF IInv
<1>3. QED
  BY <1>1, <1>2, Inductive, PTL DEF Spec, KeepsPromise, Promise!PSpec

------------------------------------------------------------------------------
(* The registries.  Four facts of RegistrySound are kept by the steps      *)
(* themselves; the fifth, that a deleted node stays gone, rests on what    *)
(* had passed the blocked check when writes were blocked: only that may    *)
(* still write.  An expiry is of the current generation because            *)
(* generations only grow and no two callbacks of a session have the same.  *)

BlockedInRemoval  == blocked <=> removal \notin {"no", "failed"}
KnownUntilDeleted == known <=> removal \notin {"deleted", "redropped", "done", "halfway"}
AdmittedEarly     == blocked => \A c \in Conns : pc[c] = "admitted" => c \in early
KeeperEarly       == blocked /\ ~PostFree => Session \in early
GenerationsPast   == \A t \in timers : t.id = post.id => t.gen <= post.gen
OneTimer          == \A t, u \in timers : t.id = u.id /\ t.gen = u.gen => t = u

RInv ==
  /\ IInv
  /\ RegistryLive /\ SessionPresence /\ SessionTimed
  /\ BlockedInRemoval /\ KnownUntilDeleted /\ AdmittedEarly /\ KeeperEarly /\ RemovedStaysGone
  /\ GenerationsPast /\ OneTimer

LEMMA RInvTypes == RInv => IInv /\ TypeOK /\ OneKeeper /\ OpeningIsNew
  BY DEF RInv, IInv

LEMMA WhoRemoves ==
  ASSUME TypeOK, OneKeeper, [Next]_vars
  PROVE  BlockEntityWrites \/ RemovalGoesOn \/ UNCHANGED removeVars
<1> USE DEF vars, notifyVars, removeVars
<1>1. ASSUME NEW c \in Conns, PlainConnStep(c) PROVE UNCHANGED removeVars
  BY <1>1, PlainConn
<1>2. ASSUME NEW c, RefreshStep(c) \/ KeepStep(c) PROVE UNCHANGED removeVars
  BY <1>2, Refresh, Keep DEF ServeVars
<1>3. ASSUME NEW id, OnlineNotification(id) \/ GraceExpires(id) PROVE UNCHANGED removeVars
  BY <1>3 DEF OnlineNotification, GraceExpires
<1>4. ASSUME NEW t, Expiry(t) PROVE UNCHANGED removeVars
  BY <1>4, Expiries
<1>5. CASE HttpReport \/ HttpPull \/ ToggleNotifications \/ UNCHANGED vars
  BY <1>5 DEF HttpReport, HttpPull, ToggleNotifications
<1>6. QED
  BY <1>1, <1>2, <1>3, <1>4, <1>5, Moves DEF Other, AdminStep

LEMMA RemovalFacts ==
  ASSUME RInv, [Next]_vars
  PROVE  BlockedInRemoval' /\ KnownUntilDeleted'
<1> USE DEF RInv, BlockedInRemoval, KnownUntilDeleted
<1>1. CASE UNCHANGED removeVars
  BY <1>1 DEF removeVars
<1>2. CASE BlockEntityWrites
  BY <1>2 DEF BlockEntityWrites, RemovalStep
<1>3. CASE DeleteConnectedClients
  BY <1>3 DEF DeleteConnectedClients, RemovalStep
<1>4. CASE ForgetClient
  BY <1>4 DEF ForgetClient, RemovalStep
<1>5. CASE DeleteClient
  BY <1>5 DEF DeleteClient, RemovalStep
<1>6. QED
  BY <1>1, <1>2, <1>3, <1>4, <1>5, WhoRemoves, RInvTypes DEF RemovalGoesOn

\* The registry is written by a handler that stores or leaves, and by the removal.
LEMMA WhoConnects ==
  ASSUME TypeOK, OneKeeper, [Next]_vars
  PROVE  \/ \E c \in Conns : Store(c)
         \/ \E c \in Conns : Unregister(c)
         \/ DeleteConnectedClients
         \/ UNCHANGED registry
<1>1. ASSUME NEW c \in Conns, PlainConnStep(c) PROVE Store(c) \/ Unregister(c) \/ UNCHANGED registry
  BY <1>1 DEF PlainConnStep, Accept, Admit, Announce, WsReport, PeerCloses, CloseOld, EndConnection
<1>2. ASSUME NEW c, RefreshStep(c) \/ KeepStep(c) PROVE UNCHANGED registry
  BY <1>2, Refresh, Keep DEF ServeVars
<1>3. QED
  BY <1>1, <1>2, Moves, Expiries, Others DEF wsVars

LEMMA RegistryStep ==
  ASSUME RInv, [Next]_vars
  PROVE  RegistryLive'
<1>0. RegistryLive /\ TypeOK /\ OneKeeper /\ None \notin Conns
  BY RInvTypes, IDsApart DEF RInv, IDs
<1>1. ASSUME NEW c \in Conns, PlainConnStep(c) PROVE RegistryLive'
  <2> USE <1>0 DEF RegistryLive, TypeOK, At, Serving
  <2>1. CASE Accept(c) \/ Admit(c) \/ Store(c) \/ Announce(c)
    BY <2>1 DEF Accept, Admit, Store, Announce
  <2>2. CASE WsReport(c) \/ PeerCloses(c) \/ CloseOld(c)
    BY <2>2 DEF WsReport, PeerCloses, CloseOld
  <2>3. CASE Unregister(c) \/ EndConnection(c)
    BY <2>3 DEF Unregister, EndConnection
  <2>4. QED
    BY <1>1, <2>1, <2>2, <2>3 DEF PlainConnStep
<1>2. ASSUME NEW c \in Conns \cup {None}, RefreshStep(c) \/ KeepStep(c) PROVE RegistryLive'
  <2>1. /\ registry' = registry /\ \A d \in Conns : d # c => pc'[d] = pc[d]
        /\ c \in Conns => pc[c] \in Serving /\ pc'[c] \in Serving
    BY <1>0, <1>2, Refresh, Keep DEF ServeVars, Serving
  <2>2. QED
    BY <1>0, <2>1 DEF RegistryLive, TypeOK
<1>3. ASSUME NEW t, Expiry(t) PROVE RegistryLive'
  BY <1>0, <1>3, Expiries DEF RegistryLive, wsVars
<1>4. CASE Other
  BY <1>0, <1>4, Others DEF RegistryLive, DeleteConnectedClients
<1>5. QED
  BY <1>1, <1>2, <1>3, <1>4, Moves

\* Blocked writes let nothing in but what was past the check.
LEMMA EarlyStep ==
  ASSUME RInv, [Next]_vars
  PROVE  AdmittedEarly' /\ KeeperEarly'
<1>0. TypeOK /\ OneKeeper /\ AdmittedEarly /\ KeeperEarly
  BY RInvTypes DEF RInv
<1>1. CASE BlockEntityWrites
  BY <1>1 DEF BlockEntityWrites, wsVars, postVars, AdmittedEarly, KeeperEarly, PostFree, Session
<1>2. CASE RemovalGoesOn
  BY <1>0, <1>2 DEF RemovalGoesOn, DeleteConnectedClients, ForgetClient, DeleteClient, wsVars, postVars,
                    AdmittedEarly, KeeperEarly, PostFree, Session
<1>3. CASE UNCHANGED removeVars
  <2>1. ASSUME NEW c \in Conns, blocked, pc'[c] = "admitted" PROVE pc[c] = "admitted"
    <3>1. ASSUME NEW d \in Conns, PlainConnStep(d) PROVE pc[c] = "admitted"
      BY <1>0, <2>1, <3>1 DEF TypeOK, At, PlainConnStep, Accept, Admit, Store, Announce, WsReport, PeerCloses,
                              CloseOld, Unregister, EndConnection
    <3>2. ASSUME NEW d \in Conns \cup {None}, RefreshStep(d) \/ KeepStep(d) PROVE pc[c] = "admitted"
      BY <1>0, <2>1, <3>2, Refresh, Keep
    <3>3. QED
      BY <2>1, <3>1, <3>2, Moves, Expiries, Others DEF wsVars
  <2>2. ASSUME blocked, ~PostFree' PROVE ~PostFree /\ Session' = Session
    <3>1. CASE (\E t \in timers : Expiry(t)) /\ ~PostFree
      BY <3>1 DEF Expiry, TimerFires, PostPresenceExpired, ClearPresence, EndSession, Session
    <3>2. CASE UNCHANGED <<sessions, post, timers>>
      BY <1>0, <2>2, <3>2, WhoRefreshes DEF Session
    <3>3. QED
      BY <1>0, <2>2, <3>1, <3>2, WhoRefreshes
  <2>3. QED
    BY <1>0, <1>3, <2>1, <2>2 DEF removeVars, AdmittedEarly, KeeperEarly
<1>4. QED
  BY <1>0, <1>1, <1>2, <1>3, WhoRemoves

\* What is in the registry or marked present after the drop was past the check.
LEMMA GoneStep ==
  ASSUME RInv, [Next]_vars
  PROVE  RemovedStaysGone'
<1>0. TypeOK /\ OneKeeper /\ RemovedStaysGone /\ BlockedInRemoval /\ AdmittedEarly /\ KeeperEarly
  BY RInvTypes DEF RInv
<1>1. CASE BlockEntityWrites
  BY <1>1 DEF BlockEntityWrites, RemovalStep, RemovedStaysGone
<1>2. CASE RemovalGoesOn
  BY <1>0, <1>2 DEF RemovalGoesOn, DeleteConnectedClients, ForgetClient, DeleteClient, RemovalStep,
                    wsVars, postVars, RemovedStaysGone
<1>3. CASE UNCHANGED removeVars
  <2> SUFFICES ASSUME removal \notin {"no", "blocked", "failed"}, blocked,
                      {registry, presence} \subseteq early \cup {None}
               PROVE  registry' \in early \cup {None} /\ presence' \in early \cup {None}
    BY <1>0, <1>3 DEF removeVars, BlockedInRemoval, RemovedStaysGone
  <2>1. registry' \in early \cup {None}
    <3>1. ASSUME NEW c \in Conns, Store(c) PROVE registry' \in early
      BY <1>0, <3>1 DEF Store, At, AdmittedEarly
    <3>2. ASSUME NEW c \in Conns, Unregister(c) PROVE registry' \in {registry, None}
      BY <3>2 DEF Unregister
    <3>3. DeleteConnectedClients => registry' = None
      BY DEF DeleteConnectedClients
    <3>4. QED
      BY <1>0, <3>1, <3>2, <3>3, WhoConnects
  <2>2. presence' \in early \cup {None}
    <3>1. RefreshPostPresence => UNCHANGED presence
      BY DEF RefreshPostPresence
    <3>2. KeepAlivePresence /\ ~PostFree => presence' \in early
      BY <1>0 DEF KeepAlivePresence, KeeperEarly
    <3>3. ASSUME NEW t, Expiry(t) PROVE presence' \in {presence, None}
      BY <3>3 DEF Expiry, TimerFires, PostPresenceExpired, ClearPresence, EndSession
    <3>4. DeleteConnectedClients => presence' = None
      BY DEF DeleteConnectedClients
    <3>5. QED
      BY <1>0, <3>1, <3>2, <3>3, <3>4, WhoRefreshes
  <2>3. QED
    BY <2>1, <2>2
<1>4. QED
  BY <1>0, <1>1, <1>2, <1>3, WhoRemoves

\* Generations of a session only grow, and a callback keeps its own.
LEMMA OpenedTimers ==
  ASSUME TypeOK, GenerationsPast, OneTimer, NEW new \in Sessions, Opened(new), \A t \in timers : t.id # new
  PROVE  GenerationsPast' /\ OneTimer' /\ SessionTimed'
<1> DEFINE u == [id |-> new, gen |-> 0, stage |-> "armed"]
<1>1. /\ post'.id = new /\ post'.gen = 0 /\ timers' = timers \cup {u}
      /\ u.id = new /\ u.gen = 0 /\ u.stage = "armed"
  BY DEF Opened
<1> HIDE DEF u
<1>2. GenerationsPast' /\ OneTimer'
  BY <1>1 DEF GenerationsPast, OneTimer
<1>3. SessionTimed'
  BY <1>1 DEF SessionTimed
<1>4. QED
  BY <1>2, <1>3

LEMMA GenerationStep ==
  ASSUME RInv, [Next]_vars
  PROVE  GenerationsPast' /\ OneTimer' /\ SessionTimed'
<1> USE DEF GenerationsPast, OneTimer, SessionTimed
<1>0. /\ TypeOK /\ OneKeeper /\ OpeningIsNew /\ GenerationsPast /\ OneTimer /\ SessionTimed /\ SessionsNumbered
      /\ None \notin Sessions
  BY RInvTypes, IDsApart DEF RInv, IInv, IDs
<1>1. CASE UNCHANGED <<sessions, post, timers>>
  BY <1>0, <1>1
<1>2. CASE ExtendSession
  <2> DEFINE u == [id |-> post.id, gen |-> post.gen + 1, stage |-> "armed"]
  <2>1. /\ post'.id = post.id /\ post'.gen = post.gen + 1
        /\ timers' = {t \in timers : t.stage # "armed"} \cup {u}
        /\ u.id = post.id /\ u.gen = post.gen + 1 /\ u.stage = "armed"
    BY <1>0, <1>2 DEF ExtendSession, TypeOK
  <2>2. post.gen \in Nat /\ \A t \in timers : t.gen \in Nat
    BY <1>0, PresenceAssumption DEF TypeOK, Callbacks
  <2> HIDE DEF u
  <2>3. GenerationsPast' /\ OneTimer'
    BY <1>0, <2>1, <2>2
  <2>4. SessionTimed'
    BY <2>1
  <2>5. QED
    BY <2>3, <2>4
<1>3. CASE OpenSession
  <2>1. sessions + 1 \in Sessions /\ \A t \in timers : t.id # sessions + 1
    BY <1>0, <1>3, PresenceAssumption DEF OpenSession, SessionsNumbered, TypeOK, Callbacks, Sessions
  <2>2. CASE blocked
    BY <1>0, <1>3, <2>1, <2>2, OpenedTimers DEF OpenSession
  <2>3. CASE ~blocked
    BY <1>0, <1>3, <2>3 DEF OpenSession
  <2>4. QED
    BY <2>2, <2>3
<1>4. CASE KeepAlivePresence /\ ~PostFree
  <2>1. CASE post.id = None
    BY <1>0, <1>4, <2>1, OpenedTimers DEF KeepAlivePresence, OpeningIsNew
  <2>2. CASE post.id # None
    BY <1>0, <1>4, <2>2 DEF KeepAlivePresence
  <2>3. QED
    BY <2>1, <2>2
<1>5. ASSUME NEW t \in timers, TimerFires(t)
      PROVE  GenerationsPast' /\ OneTimer' /\ SessionTimed'
  <2> DEFINE u == [t EXCEPT !.stage = "fired"]
  <2>1. /\ timers' = (timers \ {t}) \cup {u} /\ post' = post
        /\ u.id = t.id /\ u.gen = t.gen /\ u.stage = "fired"
    BY <1>0, <1>5 DEF TimerFires, TypeOK, Callbacks
  <2> HIDE DEF u
  <2>2. GenerationsPast' /\ OneTimer'
    BY <1>0, <2>1
  <2>3. SessionTimed'
    BY <1>0, <2>1
  <2>4. QED
    BY <2>2, <2>3
<1>6. ASSUME NEW t \in timers, PostPresenceExpired(t)
      PROVE  GenerationsPast' /\ OneTimer' /\ SessionTimed'
  <2>1. CASE post.id # t.id \/ post.gen # t.gen
    BY <1>0, <1>6, <2>1 DEF PostPresenceExpired
  <2>2. CASE ~(post.id # t.id \/ post.gen # t.gen)
    <3> DEFINE u == [t EXCEPT !.stage = "clearing"]
    <3>1. /\ timers' = (timers \ {t}) \cup {u} /\ post' = Absent
          /\ u.id = t.id /\ u.gen = t.gen
      BY <1>0, <1>6, <2>2 DEF PostPresenceExpired, TypeOK, Callbacks
    <3> HIDE DEF u
    <3>2. \A v \in timers' : v.id # None
      BY <1>0, <3>1 DEF TypeOK, Callbacks
    <3>3. QED
      BY <1>0, <3>1, <3>2 DEF Absent
  <2>3. QED
    BY <2>1, <2>2
<1>7. ASSUME NEW t \in timers, ClearPresence(t)
      PROVE  GenerationsPast' /\ OneTimer' /\ SessionTimed'
  <2> DEFINE u == [t EXCEPT !.stage = "ending"]
  <2>1. /\ timers' = (timers \ {t}) \cup {u} /\ post' = post /\ t.stage = "clearing"
        /\ u.id = t.id /\ u.gen = t.gen
    BY <1>0, <1>7 DEF ClearPresence, TypeOK, Callbacks
  <2> HIDE DEF u
  <2>2. QED
    BY <1>0, <2>1
<1>8. ASSUME NEW t \in timers, EndSession(t)
      PROVE  GenerationsPast' /\ OneTimer' /\ SessionTimed'
  BY <1>0, <1>8 DEF EndSession
<1>9. QED
  BY <1>0, <1>1, <1>2, <1>3, <1>4, <1>5, <1>6, <1>7, <1>8, WhoRefreshes DEF RefreshPostPresence, Expiry

\* The entry of a live session is its own; only its own callback takes it away.
LEMMA PresenceStep ==
  ASSUME RInv, [Next]_vars
  PROVE  SessionPresence'
<1>0. /\ TypeOK /\ OneKeeper /\ OpeningIsNew /\ ExpiresOnce /\ BlockedInRemoval /\ SessionPresence
      /\ None \notin Sessions
  BY RInvTypes, IDsApart DEF RInv, IInv, IDs
<1> USE DEF SessionPresence
<1>1. removal' = "no" => removal = "no" /\ ~blocked /\ ~DeleteConnectedClients
  BY <1>0, WhoRemoves DEF BlockEntityWrites, RemovalGoesOn, DeleteConnectedClients, ForgetClient,
                          DeleteClient, RemovalStep, removeVars, BlockedInRemoval
<1>2. CASE UNCHANGED <<sessions, post, timers>> /\ (DeleteConnectedClients \/ UNCHANGED presence)
  BY <1>0, <1>1, <1>2 DEF DeleteConnectedClients
<1>3. CASE RefreshPostPresence
  <2>1. presence' = presence
    BY <1>3 DEF RefreshPostPresence
  <2>2. CASE ExtendSession
    <3>1. post'.id = post.id /\ \A t \in timers : t.stage = "clearing" => t \in timers'
      BY <1>0, <2>2 DEF ExtendSession, TypeOK
    <3>2. QED
      BY <1>0, <1>1, <2>1, <3>1
  <2>3. CASE OpenSession
    <3>1. post.id = None /\ (\A t \in timers : t \in timers') /\ (~blocked => post' = post)
      BY <2>3 DEF OpenSession, Opened
    <3>2. QED
      BY <1>0, <1>1, <2>1, <3>1
  <2>4. QED
    BY <1>3, <2>2, <2>3 DEF RefreshPostPresence
<1>4. CASE KeepAlivePresence /\ ~PostFree
  <2>1. presence' = Session /\ post'.id = Session
    BY <1>4 DEF KeepAlivePresence, Opened, Session
  <2>2. QED
    BY <2>1
<1>5. ASSUME NEW t \in timers, TimerFires(t) PROVE SessionPresence'
  BY <1>0, <1>1, <1>5 DEF TimerFires, TypeOK, Callbacks
<1>6. ASSUME NEW t \in timers, PostPresenceExpired(t) PROVE SessionPresence'
  <2>1. CASE post.id # t.id \/ post.gen # t.gen
    BY <1>0, <1>1, <1>6, <2>1 DEF PostPresenceExpired
  <2>2. CASE ~(post.id # t.id \/ post.gen # t.gen)
    <3> DEFINE u == [t EXCEPT !.stage = "clearing"]
    <3>1. /\ timers' = (timers \ {t}) \cup {u} /\ post' = Absent /\ presence' = presence
          /\ u.id = t.id /\ u.stage = "clearing" /\ t.stage = "fired" /\ post.id = t.id
      BY <1>0, <1>6, <2>2 DEF PostPresenceExpired, TypeOK, Callbacks
    <3> HIDE DEF u
    <3>2. \A v \in timers : v.stage = "clearing" => v \in timers'
      BY <3>1
    <3>3. CASE presence = t.id
      BY <3>1, <3>3 DEF Absent
    <3>4. CASE presence # t.id
      BY <1>0, <3>1, <3>2, <3>4 DEF Absent
    <3>5. QED
      BY <3>3, <3>4
  <2>3. QED
    BY <2>1, <2>2
<1>7. ASSUME NEW t \in timers, ClearPresence(t) PROVE SessionPresence'
  <2>1. post.id # t.id /\ t.stage = "clearing" /\ UNCHANGED post
    BY <1>0, <1>7 DEF ClearPresence, ExpiresOnce, Past
  <2>2. \A u \in timers : u # t => u \in timers'
    BY <1>7 DEF ClearPresence
  <2>3. presence' = IF presence = t.id THEN None ELSE presence
    BY <1>7 DEF ClearPresence
  <2>4. QED
    BY <1>0, <1>1, <2>1, <2>2, <2>3
<1>8. ASSUME NEW t \in timers, EndSession(t) PROVE SessionPresence'
  BY <1>0, <1>1, <1>8 DEF EndSession
<1>9. QED
  BY <1>0, <1>2, <1>3, <1>4, <1>5, <1>6, <1>7, <1>8, WhoRefreshes DEF Expiry

LEMMA RegistryInvStep == RInv /\ [Next]_vars => RInv'
<1> SUFFICES ASSUME RInv, [Next]_vars PROVE RInv'
  OBVIOUS
<1>1. IInv'
  BY InvStep DEF RInv
<1>2. RegistryLive' /\ SessionPresence' /\ SessionTimed'
  BY RegistryStep, PresenceStep, GenerationStep
<1>3. BlockedInRemoval' /\ KnownUntilDeleted' /\ AdmittedEarly' /\ KeeperEarly' /\ RemovedStaysGone'
  BY RemovalFacts, EarlyStep, GoneStep
<1>4. GenerationsPast' /\ OneTimer'
  BY GenerationStep
<1>5. QED
  BY <1>1, <1>2, <1>3, <1>4 DEF RInv

LEMMA RegistryInit == Init => RInv
<1> SUFFICES ASSUME Init PROVE RInv
  OBVIOUS
<1>1. IInv
  BY InitInv
<1>2. QED
  BY <1>1 DEF RInv, Init, RegistryLive, SessionPresence, SessionTimed, BlockedInRemoval,
              KnownUntilDeleted, AdmittedEarly, KeeperEarly, PostFree, RemovedStaysGone,
              GenerationsPast, OneTimer, Absent

LEMMA RegistryInductive == Spec => []RInv
  BY RegistryInit, RegistryInvStep, PTL DEF Spec

\* connections.go:39-123 and report.go:39-93: whatever the order of connects, ends, reports,
\* expiries and a removal, the registries hold no connection of a handler that has left, a
\* presence entry lives with its session and its timer, and after the drop of a removal only
\* what had passed the blocked check before writes were blocked can come back.
THEOREM RegistryIsSound == Spec => []RegistrySound
<1>1. RInv => RegistrySound
  BY DEF RInv, IInv, RegistrySound
<1>2. QED
  BY <1>1, RegistryInductive, PTL

\* report.go:78-80: an expiry ends a session only if the timer that was armed by its last
\* refresh has fired, however many refreshes and callbacks cross.
THEOREM ExpiryStaysCurrent == Spec => ExpiryIsCurrent
<1> DEFINE Armed == \E t \in timers : t.id = post.id /\ t.gen = post.gen /\ t.stage = "armed"
<1>1. RInv /\ [Next]_vars => [post.id # None /\ post'.id # post.id => ~Armed]_vars
  <2> SUFFICES ASSUME RInv, [Next]_vars, post.id # None, post'.id # post.id
               PROVE  ~Armed
    OBVIOUS
  <2>1. ~RefreshPostPresence /\ ~KeepAlivePresence
    BY RInvTypes DEF RefreshPostPresence, ExtendSession, OpenSession, KeepAlivePresence, TypeOK
  <2>2. PICK t \in timers : Expiry(t)
    BY <2>1, WhoRefreshes, RInvTypes
  <2>3. t.stage = "fired" /\ t.id = post.id /\ t.gen = post.gen
    BY <2>2 DEF Expiry, TimerFires, PostPresenceExpired, ClearPresence, EndSession
  <2>4. QED
    BY <2>3 DEF RInv, OneTimer
<1>2. QED
  BY <1>1, RegistryInductive, PTL DEF Spec, ExpiryIsCurrent

------------------------------------------------------------------------------
(* No end gets lost.  The registered connection is told to close by        *)
(* whoever has looked for its predecessor, unless the two crossed; what    *)
(* was announced has its end still before it, or the notifier was given    *)
(* that end when it could not note it.                                     *)

\* The end of this connection or session is still to be given to the notifier.
StillToEnd(id) ==
  \/ id \in Conns /\ pc[id] \notin {"idle", "done"}
  \/ id \in Sessions /\ \/ post.id = id
                        \/ ~PostFree /\ Session = id
                        \/ \E t \in timers : t.id = id /\ t.stage \in Past

ReplacedCloses ==
  (\E c \in Conns : pc[c] \in {"accepted", "admitted"}) /\ registry # None
    => registry \in closing \cup closed \cup crossed
AnnouncedToEnd == \A id \in online : StillToEnd(id) \/ id \in unheard
RecordedToEnd  ==
  notif.exist /\ ~notif.pending => StillToEnd(notif.conn) \/ notif.conn \in unheard

EInv ==
  /\ RInv
  /\ ReplacedCloses /\ NoOrphan
  /\ AnnouncedToEnd /\ RecordedToEnd

LEMMA ConnectsStep ==
  ASSUME EInv, [Next]_vars
  PROVE  ReplacedCloses' /\ NoOrphan'
<1>0. /\ TypeOK /\ OneKeeper /\ RegistryLive /\ ReplacedCloses /\ NoOrphan
      /\ None \notin Conns
  BY RInvTypes, IDsApart DEF EInv, RInv, IDs
<1>1. ASSUME NEW c \in Conns, PlainConnStep(c) PROVE ReplacedCloses' /\ NoOrphan'
  <2> USE <1>0 DEF TypeOK, At, Serving, ReplacedCloses, NoOrphan
  <2>1. CASE Accept(c)
    BY <2>1 DEF Accept, RegistryLive, pastVars
  <2>2. CASE Admit(c)
    BY <2>2 DEF Admit, pastVars
  <2>3. CASE Store(c)
    <3>1. /\ pc[c] = "admitted" /\ pc'[c] = "stored" /\ registry' = c
          /\ UNCHANGED <<closed, closing>> /\ \A d \in Conns \ {c} : pc'[d] = pc[d]
          /\ crossed \subseteq crossed'
      BY <2>3 DEF Store
    <3>2. registry # None => registry \in closing \cup closed \cup crossed
      BY <3>1
    <3>3. (\E d \in Conns : pc'[d] \in {"accepted", "admitted"}) => c \in crossed'
      BY <2>3, <3>1 DEF Store
    <3>4. ReplacedCloses'
      BY <3>1, <3>3
    <3>5. NoOrphan'
      BY <3>1, <3>2
    <3>6. QED
      BY <3>4, <3>5
  <2>4. CASE Announce(c) \/ WsReport(c)
    BY <2>4 DEF Announce, WsReport, pastVars
  <2>5. CASE PeerCloses(c) \/ CloseOld(c)
    BY <2>5 DEF PeerCloses, CloseOld, pastVars
  <2>6. CASE Unregister(c)
    BY <2>6 DEF Unregister, pastVars
  <2>7. CASE EndConnection(c)
    BY <2>7 DEF EndConnection, OfflineNotification
  <2>8. QED
    BY <1>1, <2>1, <2>2, <2>3, <2>4, <2>5, <2>6, <2>7 DEF PlainConnStep
<1>2. ASSUME NEW c \in Conns \cup {None}, RefreshStep(c) \/ KeepStep(c) PROVE ReplacedCloses' /\ NoOrphan'
  <2>1. /\ UNCHANGED <<registry, closed, closing, crossed>> /\ \A d \in Conns : d # c => pc'[d] = pc[d]
        /\ c \in Conns => pc[c] \in Serving /\ pc'[c] \in Serving
    BY <1>0, <1>2, Refresh, Keep DEF ServeVars, pastVars, Serving
  <2>2. QED
    BY <1>0, <2>1 DEF ReplacedCloses, NoOrphan, TypeOK, Serving
<1>3. ASSUME NEW t, Expiry(t) PROVE ReplacedCloses' /\ NoOrphan'
  <2>1. UNCHANGED <<pc, registry, closed, closing, crossed>>
    BY <1>3 DEF Expiry, TimerFires, PostPresenceExpired, ClearPresence, EndSession, OfflineNotification,
                wsVars, pastVars
  <2>2. QED
    BY <1>0, <2>1 DEF ReplacedCloses, NoOrphan
<1>4. CASE Other
  <2>1. UNCHANGED crossed
    BY <1>4 DEF Other, vars, pastVars, HttpReport, HttpPull, AdminStep, ToggleNotifications, BlockEntityWrites,
                RemovalGoesOn, DeleteConnectedClients, ForgetClient, DeleteClient, OnlineNotification,
                GraceExpires
  <2>2. CASE UNCHANGED <<registry, closed>>
    BY <1>0, <1>4, <2>1, <2>2, Others DEF ReplacedCloses, NoOrphan
  <2>3. CASE DeleteConnectedClients
    BY <1>0, <1>4, <2>1, <2>3, Others DEF DeleteConnectedClients, ReplacedCloses, NoOrphan, TypeOK
  <2>4. QED
    BY <1>4, <2>2, <2>3, Others
<1>5. QED
  BY <1>1, <1>2, <1>3, <1>4, Moves

\* Steps that end no connection and no session leave every end to come.
LEMMA StillToEndStays ==
  ASSUME IInv, [Next]_vars, NEW id \in IDs, StillToEnd(id),
         ~(id \in Conns /\ EndConnection(id)),
         \A t \in timers : t.id = id => ~EndSession(t)
  PROVE  StillToEnd(id)'
<1>0. TypeOK /\ OneKeeper /\ OpeningIsNew /\ None \notin IDs /\ sessions \in Nat
  BY IDsApart DEF IInv, TypeOK
<1>1. CASE id \in Conns /\ pc[id] \notin {"idle", "done"}
  <2>1. ASSUME NEW c \in Conns, PlainConnStep(c) PROVE pc'[id] \notin {"idle", "done"}
    BY <1>0, <1>1, <2>1 DEF TypeOK, At, PlainConnStep, Accept, Admit, Store, Announce, WsReport, PeerCloses,
                            CloseOld, Unregister, EndConnection
  <2>2. ASSUME NEW c \in Conns \cup {None}, RefreshStep(c) \/ KeepStep(c) PROVE pc'[id] \notin {"idle", "done"}
    BY <1>0, <1>1, <2>2, Refresh, Keep
  <2>3. pc'[id] \notin {"idle", "done"}
    BY <1>1, <2>1, <2>2, Moves, Expiries, Others DEF wsVars
  <2>4. QED
    BY <1>1, <2>3 DEF StillToEnd
<1>2. CASE /\ id \in Sessions
           /\ \/ post.id = id
              \/ ~PostFree /\ Session = id
              \/ \E t \in timers : t.id = id /\ t.stage \in Past
  <2>1. id # None
    BY <1>0
  <2>2. CASE RefreshPostPresence /\ PostFree
    <3>1. post.id # None => post'.id = post.id
      BY <1>0, <2>2 DEF RefreshPostPresence, ExtendSession, OpenSession, TypeOK
    <3>2. \A t \in timers : t.stage \in Past => t \in timers'
      BY <2>2 DEF RefreshPostPresence, ExtendSession, OpenSession, Opened, Past
    <3>3. QED
      BY <1>2, <2>1, <2>2, <3>1, <3>2 DEF StillToEnd
  <2>3. CASE KeepAlivePresence /\ ~PostFree
    <3>1. post'.id = Session /\ \A t \in timers : t \in timers'
      BY <2>3 DEF KeepAlivePresence, Opened, Session
    <3>2. post.id = id => Session = id
      BY <2>1 DEF Session
    <3>3. QED
      BY <1>2, <3>1, <3>2 DEF StillToEnd
  <2>4. ASSUME NEW t \in timers, TimerFires(t), PostFree' <=> PostFree PROVE StillToEnd(id)'
    BY <1>2, <2>4 DEF TimerFires, StillToEnd, Past, Session
  <2>5. ASSUME NEW t \in timers, PostPresenceExpired(t) PROVE StillToEnd(id)'
    <3>0. PostFree
      BY <2>5 DEF PostPresenceExpired
    <3>1. CASE UNCHANGED post /\ timers' = timers \ {t} /\ t.stage = "fired"
      BY <1>2, <3>0, <3>1 DEF StillToEnd, Past
    <3>2. CASE /\ post.id = t.id /\ t.stage = "fired"
               /\ timers' = (timers \ {t}) \cup {[t EXCEPT !.stage = "clearing"]}
      <4> DEFINE u == [t EXCEPT !.stage = "clearing"]
      <4>1. u.id = t.id /\ u.stage = "clearing" /\ u \in timers'
        BY <1>0, <3>2 DEF TypeOK, Callbacks
      <4> HIDE DEF u
      <4>2. CASE post.id = id
        BY <1>2, <3>2, <4>1, <4>2 DEF StillToEnd, Past
      <4>3. CASE post.id # id
        BY <1>2, <3>0, <3>2, <4>3 DEF StillToEnd, Past
      <4>4. QED
        BY <4>2, <4>3
    <3>3. QED
      BY <2>5, <3>1, <3>2 DEF PostPresenceExpired
  <2>6. ASSUME NEW t \in timers, ClearPresence(t), PostFree' <=> PostFree PROVE StillToEnd(id)'
    <3> DEFINE u == [t EXCEPT !.stage = "ending"]
    <3>1. timers' = (timers \ {t}) \cup {u} /\ UNCHANGED <<sessions, post>>
      BY <2>6 DEF ClearPresence
    <3>2. u.id = t.id /\ u.stage = "ending"
      BY <1>0 DEF TypeOK, Callbacks
    <3> HIDE DEF u
    <3>3. QED
      BY <1>2, <2>6, <3>1, <3>2 DEF StillToEnd, Past, Session
  <2>7. ASSUME NEW t \in timers, EndSession(t), PostFree' <=> PostFree PROVE StillToEnd(id)'
    BY <1>2, <2>7 DEF EndSession, StillToEnd, Session
  <2>8. CASE UNCHANGED <<sessions, post, timers>> /\ (PostFree' <=> PostFree)
    BY <1>2, <2>8 DEF StillToEnd, Session
  <2>9. QED
    BY <1>0, <2>2, <2>3, <2>4, <2>5, <2>6, <2>7, <2>8, WhoRefreshes DEF Expiry
<1>3. QED
  BY <1>1, <1>2 DEF StillToEnd

\* An end is given to the notifier with its announcement made, or counts as unheard.
LEMMA EndsStep ==
  ASSUME IInv, [Next]_vars, NEW id \in IDs, StillToEnd(id) \/ id \in unheard
  PROVE  \/ StillToEnd(id)' \/ id \in unheard'
         \/ (OfflineNotification(id) /\ known /\ enabled /\ id \notin online)
<1>0. TypeOK /\ OneKeeper
  BY DEF IInv
<1>1. unheard \subseteq unheard'
  <2>1. ASSUME NEW c \in Conns, PlainConnStep(c) PROVE unheard \subseteq unheard'
    BY <2>1 DEF PlainConnStep, Accept, Admit, Store, Announce, WsReport, PeerCloses, CloseOld,
                Unregister, EndConnection, OfflineNotification, pastVars
  <2>2. ASSUME NEW c, RefreshStep(c) \/ KeepStep(c) PROVE unheard' = unheard
    BY <1>0, <2>2, Refresh, Keep DEF ServeVars, pastVars
  <2>3. ASSUME NEW t, Expiry(t) PROVE unheard \subseteq unheard'
    BY <2>3 DEF Expiry, TimerFires, PostPresenceExpired, ClearPresence, EndSession, OfflineNotification,
                pastVars
  <2>4. CASE Other
    BY <2>4 DEF Other, vars, pastVars, HttpReport, HttpPull, AdminStep, ToggleNotifications, BlockEntityWrites,
                RemovalGoesOn, DeleteConnectedClients, ForgetClient, DeleteClient, OnlineNotification,
                GraceExpires
  <2>5. QED
    BY <2>1, <2>2, <2>3, <2>4, Moves
<1>2. ASSUME OfflineNotification(id)
      PROVE  id \in unheard' \/ (known /\ enabled /\ id \notin online)
  <2>1. CASE known /\ enabled /\ id \notin online
    BY <2>1
  <2>2. CASE ~(known /\ enabled /\ id \notin online)
    <3>1. unheard' = unheard \cup {id}
      BY <1>2, <2>2 DEF OfflineNotification
    <3>2. QED
      BY <3>1
  <2>3. QED
    BY <2>1, <2>2
<1>3. ASSUME id \in Conns, EndConnection(id) PROVE OfflineNotification(id)
  BY <1>3 DEF EndConnection
<1>4. ASSUME NEW t \in timers, t.id = id, EndSession(t) PROVE OfflineNotification(id)
  BY <1>4 DEF EndSession
<1>5. QED
  BY <1>1, <1>2, <1>3, <1>4, StillToEndStays

\* What is announced: a handler that starts to serve, or a session that was opened.
LEMMA WhoAnnounces ==
  ASSUME TypeOK, OneKeeper, OpeningIsNew, [Next]_vars
  PROVE  \/ online' \subseteq online
         \/ \E c \in Conns : Announce(c)
         \/ \E id \in Sessions : online' = online \cup {id} /\ post'.id = id
<1>0. MaxSessions \in Nat
  BY PresenceAssumption
<1>1. ASSUME NEW c \in Conns, PlainConnStep(c) PROVE Announce(c) \/ online' = online
  BY <1>1 DEF PlainConnStep, Accept, Admit, Store, WsReport, PeerCloses, CloseOld, Unregister,
              EndConnection, notifyVars
<1>2. CASE RefreshPostPresence
  <2>1. OpenSession /\ blocked => sessions + 1 \in Sessions
    BY <1>0 DEF OpenSession, TypeOK, Sessions
  <2>2. QED
    BY <1>2, <2>1 DEF RefreshPostPresence, ExtendSession, OpenSession, Opened
<1>3. CASE KeepAlivePresence /\ ~PostFree
  BY <1>3 DEF KeepAlivePresence, Opened, OpeningIsNew
<1>4. ASSUME NEW t, Expiry(t) PROVE online' = online
  BY <1>4, Expiries
<1>5. CASE Other
  BY <1>5 DEF Other, vars, notifyVars, HttpReport, HttpPull, AdminStep, ToggleNotifications,
              BlockEntityWrites, RemovalGoesOn, DeleteConnectedClients, ForgetClient, DeleteClient,
              OnlineNotification, GraceExpires
<1>6. QED
  BY <1>1, <1>2, <1>3, <1>4, <1>5, Moves, Refresh, Keep

LEMMA AnnouncedStep ==
  ASSUME EInv, [Next]_vars
  PROVE  AnnouncedToEnd'
<1>0. IInv /\ TypeOK /\ OneKeeper /\ OpeningIsNew /\ AnnouncedToEnd
  BY RInvTypes DEF EInv
<1> SUFFICES ASSUME NEW id \in online' PROVE StillToEnd(id)' \/ id \in unheard'
  BY DEF AnnouncedToEnd
<1>1. CASE id \in online
  <2>1. id \in IDs
    BY <1>0, <1>1 DEF TypeOK
  <2>2. QED
    BY <1>0, <1>1, <2>1, EndsStep DEF AnnouncedToEnd
<1>2. ASSUME NEW c \in Conns, Announce(c), id \notin online PROVE StillToEnd(id)'
  BY <1>0, <1>2 DEF Announce, At, TypeOK, StillToEnd
<1>3. ASSUME NEW s \in Sessions, online' = online \cup {s}, post'.id = s, id \notin online
      PROVE  StillToEnd(id)'
  BY <1>3 DEF StillToEnd
<1>4. QED
  BY <1>0, <1>1, <1>2, <1>3, WhoAnnounces

\* Only an accepted end, the grace period or a removal takes the record back.
LEMMA RecordedStep ==
  ASSUME EInv, [Next]_vars
  PROVE  RecordedToEnd'
<1>0. IInv /\ TypeOK /\ OneKeeper /\ RecordedToEnd /\ AnnouncedToEnd /\ None \notin IDs
  BY RInvTypes, IDsApart DEF EInv
<1> SUFFICES ASSUME notif'.exist, ~notif'.pending
             PROVE  (StillToEnd(notif.conn) \/ notif.conn \in unheard)'
  BY DEF RecordedToEnd
<1>1. CASE notif' = notif
  <2>1. PICK id : id = notif.conn
    OBVIOUS
  <2>2. StillToEnd(id) \/ id \in unheard
    BY <1>0, <1>1, <2>1 DEF RecordedToEnd
  <2>3. id \in IDs
    BY <1>0, <2>2 DEF StillToEnd, IDs, TypeOK
  <2>4. ~(OfflineNotification(id) /\ known /\ enabled)
    BY <1>0, <1>1, <2>1 DEF OfflineNotification, BeginOfflineGrace, TypeOK, States
  <2>5. QED
    <3>1. StillToEnd(id)' \/ id \in unheard'
      BY <1>0, <2>2, <2>3, <2>4, EndsStep
    <3>2. QED
      BY <1>1, <2>1, <3>1 DEF StillToEnd
<1>2. ASSUME NEW id \in online, OnlineNotification(id), notif' # notif
      PROVE  (StillToEnd(notif.conn) \/ notif.conn \in unheard)'
  <2>1. notif'.conn = id
    <3>1. notif' = RecordOnline(notif, id)
      BY <1>2 DEF OnlineNotification
    <3>2. QED
      BY <3>1 DEF RecordOnline
  <2>2. StillToEnd(id) \/ id \in unheard
    BY <1>0, <1>2 DEF AnnouncedToEnd
  <2>3. UNCHANGED <<pc, http, post, sessions, timers, unheard>>
    BY <1>2 DEF OnlineNotification, wsVars, postVars
  <2>4. QED
    BY <2>1, <2>2, <2>3 DEF StillToEnd, PostFree, Session
<1>3. ASSUME NEW id, OfflineNotification(id) PROVE notif' = notif
  BY <1>0, <1>3 DEF OfflineNotification, TypeOK, States
<1>4. ASSUME NEW id \in grace, GraceExpires(id) PROVE notif' = notif
  BY <1>0, <1>4 DEF GraceExpires, TypeOK, States
<1>5. ~ForgetClient
  BY DEF ForgetClient, NewState
<1>6. ASSUME NEW c \in Conns, EndConnection(c) PROVE notif' = notif
  BY <1>3, <1>6 DEF EndConnection
<1>7. ASSUME NEW t \in timers, EndSession(t) PROVE notif' = notif
  BY <1>3, <1>7 DEF EndSession
<1>8. QED
  BY <1>0, <1>1, <1>2, <1>4, <1>5, <1>6, <1>7, WhoNotifies

LEMMA EndsInit == Init => EInv
<1> SUFFICES ASSUME Init PROVE EInv
  OBVIOUS
<1>1. RInv
  BY RegistryInit
<1>2. QED
  BY <1>1 DEF EInv, Init, ReplacedCloses, NoOrphan, AnnouncedToEnd, RecordedToEnd, NewState, Serving

LEMMA EndsInvStep == EInv /\ [Next]_vars => EInv'
<1> SUFFICES ASSUME EInv, [Next]_vars PROVE EInv'
  OBVIOUS
<1>1. RInv'
  BY RegistryInvStep DEF EInv
<1>2. QED
  BY <1>1, ConnectsStep, AnnouncedStep, RecordedStep DEF EInv

LEMMA EndsInductive == Spec => []EInv
  BY EndsInit, EndsInvStep, PTL DEF Spec

\* report.go:162-191 and offline.go:107-170: no end gets lost, in any schedule. A connection
\* that was replaced is being closed unless it crossed with another one, and a node with
\* nothing left is reported unless its last end came when the notifier could not note it.
THEOREM EndsAreAccounted == Spec => []EndsAccounted
<1>1. EInv => EndsAccounted
  <2> SUFFICES ASSUME EInv PROVE NoOrphan /\ SilenceReported
    BY DEF EndsAccounted
  <2>1. NoOrphan
    BY DEF EInv
  <2>2. ASSUME Quiet, notif.exist PROVE notif.conn \in unheard
    <3>1. ~notif.pending
      BY <2>2 DEF Quiet, EInv, RInv, IInv, GraceSound
    <3>2. PostFree
      BY <2>2 DEF Quiet, PostFree
    <3>3. SUFFICES ASSUME StillToEnd(notif.conn) PROVE FALSE
      BY <2>2, <3>1 DEF EInv, RecordedToEnd
    <3>4. post.id # None
      BY <2>2, <3>2, <3>3, IDsApart DEF StillToEnd, Quiet, IDs
    <3>5. QED
      BY <2>2, <3>4 DEF Quiet, EInv, RInv, SessionTimed
  <2>3. QED
    BY <2>1, <2>2 DEF SilenceReported
<1>2. QED
  BY <1>1, EndsInductive, PTL

------------------------------------------------------------------------------
(* Offline messages.  As soon as the announcement of a connected link has  *)
(* been heard, the notifier holds that link to be current; only a link     *)
(* that is announced after it, and so beside it, can take its place.       *)

Holds(id) == notif.first \/ (notif.conn = id /\ ~notif.pending) \/ notif.conn \in beside

ConnectedRecorded ==
  known /\ registry # None /\ pc[registry] \in Serving /\ registry \notin online \cup closed
    => Holds(registry)
PresentRecorded ==
  known /\ removal = "no" /\ presence # None /\ presence \notin online => Holds(presence)

FInv == RInv /\ ConnectedRecorded /\ PresentRecorded

\* What is recorded of a link changes only with its own end or another announcement.
LEMMA HoldsStep ==
  ASSUME RInv, [Next]_vars, known', NEW id \in IDs, id \in {registry', presence'}, Holds(id) \/ id \in online,
         id \notin online',
         \A c \in Conns : EndConnection(c) => c # id,
         \A t \in timers : EndSession(t) => t.id # id
  PROVE  Holds(id)'
<1>0. TypeOK /\ OneKeeper /\ KnownUntilDeleted /\ None \notin IDs
  BY RInvTypes, IDsApart DEF RInv
<1>1. known
  BY <1>0, WhoRemoves DEF BlockEntityWrites, RemovalGoesOn, DeleteConnectedClients, ForgetClient, DeleteClient,
                          removeVars
<1>2. beside \subseteq beside'
  <2>1. ASSUME NEW c \in Conns, PlainConnStep(c) PROVE beside' = beside
    BY <2>1 DEF PlainConnStep, Accept, Admit, Store, Announce, WsReport, PeerCloses, CloseOld,
                Unregister, EndConnection, OfflineNotification, pastVars
  <2>2. ASSUME NEW c, RefreshStep(c) \/ KeepStep(c) PROVE beside' = beside
    BY <1>0, <2>2, Refresh, Keep DEF ServeVars, pastVars
  <2>3. ASSUME NEW t, Expiry(t) PROVE beside' = beside
    BY <2>3 DEF Expiry, TimerFires, PostPresenceExpired, ClearPresence, EndSession, OfflineNotification,
                pastVars
  <2>4. CASE Other
    BY <2>4 DEF Other, vars, pastVars, HttpReport, HttpPull, AdminStep, ToggleNotifications, BlockEntityWrites,
                RemovalGoesOn, DeleteConnectedClients, ForgetClient, DeleteClient, OnlineNotification,
                GraceExpires
  <2>5. QED
    BY <2>1, <2>2, <2>3, <2>4, Moves
<1>3. ASSUME NEW a \in online, OnlineNotification(a) PROVE Holds(id)'
  <2>1. notif'.conn = a /\ ~notif'.pending
    BY <1>1, <1>3 DEF OnlineNotification, RecordOnline
  <2>2. a = id \/ a \in beside'
    BY <1>0, <1>3 DEF OnlineNotification, wsVars, postVars
  <2>3. QED
    BY <2>1, <2>2 DEF Holds
<1>4. ASSUME ~\E a \in online : OnlineNotification(a) PROVE Holds(id)
  <2>1. id \notin online
    <3>1. ASSUME NEW c \in Conns, PlainConnStep(c) PROVE online \subseteq online'
      BY <3>1 DEF PlainConnStep, Accept, Admit, Store, Announce, WsReport, PeerCloses, CloseOld,
                  Unregister, EndConnection, notifyVars
    <3>2. ASSUME NEW c, RefreshStep(c) PROVE online \subseteq online'
      BY <1>0, <3>2, Refresh DEF RefreshPostPresence, ExtendSession, OpenSession, Opened
    <3>3. ASSUME NEW c, KeepStep(c) PROVE online \subseteq online'
      BY <1>0, <3>3, Keep DEF KeepAlivePresence, Opened
    <3>4. ASSUME NEW t, Expiry(t) PROVE online' = online
      BY <3>4, Expiries
    <3>5. CASE Other
      BY <1>4, <3>5 DEF Other, vars, notifyVars, HttpReport, HttpPull, AdminStep, ToggleNotifications,
                  BlockEntityWrites, RemovalGoesOn, DeleteConnectedClients, ForgetClient, DeleteClient,
                  GraceExpires
    <3>6. QED
      BY <3>1, <3>2, <3>3, <3>4, <3>5, Moves
  <2>2. QED
    BY <2>1
<1>5. ASSUME NEW a, a # id, OfflineNotification(a), Holds(id) PROVE Holds(id)'
  <2>1. notif' = notif \/ (notif.conn = a /\ notif'.conn = a /\ notif'.first = notif.first)
    BY <1>0, <1>5 DEF OfflineNotification, BeginOfflineGrace, TypeOK, States
  <2>2. QED
    BY <1>2, <1>5, <2>1 DEF Holds
<1>6. ASSUME NEW a \in grace, GraceExpires(a), Holds(id) PROVE Holds(id)'
  BY <1>0, <1>2, <1>6 DEF GraceExpires, Holds, TypeOK, States
<1>7. ForgetClient => Holds(id)'
  BY DEF ForgetClient, NewState, Holds
<1>8. ASSUME UNCHANGED notif, Holds(id) PROVE Holds(id)'
  BY <1>2, <1>8 DEF Holds
<1>9. ASSUME NEW c \in Conns, EndConnection(c) PROVE OfflineNotification(c) /\ c # id
  BY <1>9 DEF EndConnection
<1>10. ASSUME NEW t \in timers, EndSession(t) PROVE OfflineNotification(t.id) /\ t.id # id
  BY <1>10 DEF EndSession
<1>11. QED
  BY <1>0, <1>3, <1>4, <1>5, <1>6, <1>7, <1>8, <1>9, <1>10, WhoNotifies

LEMMA ConnectedStep ==
  ASSUME FInv, [Next]_vars
  PROVE  ConnectedRecorded'
<1>0. RInv /\ TypeOK /\ OneKeeper /\ ConnectedRecorded /\ None \notin IDs /\ Conns \subseteq IDs
      /\ Conns \cap Sessions = {}
  BY RInvTypes, IDsApart DEF FInv, IDs
<1> SUFFICES ASSUME known', registry' # None, pc'[registry'] \in Serving, registry' \notin online' \cup closed'
             PROVE  Holds(registry)'
  BY DEF ConnectedRecorded, Holds
<1>1. PICK id \in Conns : id = registry'
  <2>1. registry' \in Conns
    BY <1>0, TypeStep, RInvTypes DEF TypeOK
  <2>2. QED
    BY <2>1
<1>2. registry = id /\ known
  <2>1. ASSUME NEW c \in Conns, Store(c) PROVE FALSE
    BY <1>0, <1>1, <2>1 DEF Store, At, TypeOK, Serving
  <2>2. ASSUME NEW c \in Conns, Unregister(c) PROVE registry' = registry
    BY <1>1, <2>2 DEF Unregister
  <2>3. ~DeleteConnectedClients
    BY <1>1 DEF DeleteConnectedClients
  <2>4. known
    BY <1>0, WhoRemoves DEF BlockEntityWrites, RemovalGoesOn, DeleteConnectedClients, ForgetClient,
                            DeleteClient, removeVars
  <2>5. QED
    BY <1>0, <1>1, <2>1, <2>2, <2>3, <2>4, WhoConnects
<1>3. id \notin closed /\ (pc[id] \in Serving \/ id \in online')
  <2>1. ASSUME NEW c \in Conns, PlainConnStep(c) PROVE id \notin closed /\ (pc[id] \in Serving \/ id \in online')
    BY <1>0, <1>1, <2>1 DEF PlainConnStep, Accept, Admit, Store, Announce, WsReport, PeerCloses, CloseOld,
                Unregister, EndConnection, At, TypeOK, Serving
  <2>2. ASSUME NEW c \in Conns \cup {None}, RefreshStep(c) \/ KeepStep(c)
        PROVE  id \notin closed /\ pc[id] \in Serving
    BY <1>0, <1>1, <2>2, Refresh, Keep DEF ServeVars, Serving
  <2>3. ASSUME NEW t, Expiry(t) PROVE id \notin closed /\ pc[id] \in Serving
    BY <1>1, <2>3, Expiries DEF wsVars
  <2>4. CASE Other
    BY <1>1, <2>4, Others DEF DeleteConnectedClients
  <2>5. QED
    BY <2>1, <2>2, <2>3, <2>4, Moves
<1>4. Holds(id) \/ id \in online
  BY <1>0, <1>1, <1>2, <1>3 DEF ConnectedRecorded
<1>5. ASSUME NEW c \in Conns, EndConnection(c) PROVE c # id
  BY <1>0, <1>1, <1>3, <1>5 DEF EndConnection, At, Serving
<1>6. ASSUME NEW t \in timers, EndSession(t) PROVE t.id # id
  BY <1>0 DEF TypeOK, Callbacks
<1>7. Holds(id)'
  BY <1>0, <1>1, <1>4, <1>5, <1>6, HoldsStep
<1>8. QED
  BY <1>1, <1>7 DEF Holds

LEMMA PresentStep ==
  ASSUME FInv, [Next]_vars
  PROVE  PresentRecorded'
<1>0. /\ RInv /\ TypeOK /\ OneKeeper /\ OpeningIsNew /\ ExpiresOnce /\ SessionPresence /\ PresentRecorded
      /\ None \notin IDs /\ Sessions \subseteq IDs /\ Conns \cap Sessions = {}
  BY RInvTypes, IDsApart DEF FInv, RInv, IInv, IDs
<1> SUFFICES ASSUME known', removal' = "no", presence' # None, presence' \notin online'
             PROVE  Holds(presence)'
  BY DEF PresentRecorded, Holds
<1>1. PICK id \in Sessions : id = presence'
  <2>1. presence' \in Sessions
    BY <1>0, TypeStep DEF TypeOK
  <2>2. QED
    BY <2>1
<1>2. removal = "no" /\ known /\ ~DeleteConnectedClients
  BY <1>0, WhoRemoves DEF BlockEntityWrites, RemovalGoesOn, DeleteConnectedClients, ForgetClient,
                          DeleteClient, RemovalStep, removeVars
<1>3. presence = id
  <2>1. RefreshPostPresence => presence' = presence
    BY DEF RefreshPostPresence
  <2>2. ASSUME KeepAlivePresence PROVE presence' = presence
    <3>1. CASE post.id = None
      BY <1>1, <2>2, <3>1 DEF KeepAlivePresence, Opened, Session
    <3>2. CASE post.id # None
      BY <1>0, <1>2, <2>2, <3>2 DEF KeepAlivePresence, SessionPresence, Session
    <3>3. QED
      BY <3>1, <3>2
  <2>3. ASSUME NEW t, Expiry(t) PROVE presence' = presence
    BY <1>1, <2>3 DEF Expiry, TimerFires, PostPresenceExpired, ClearPresence, EndSession
  <2>4. QED
    BY <1>0, <1>1, <1>2, <2>1, <2>2, <2>3, WhoRefreshes
<1>4. Holds(id) \/ id \in online
  BY <1>0, <1>1, <1>2, <1>3 DEF PresentRecorded
<1>5. ASSUME NEW c \in Conns, EndConnection(c) PROVE c # id
  BY <1>0
<1>6. ASSUME NEW t \in timers, EndSession(t) PROVE t.id # id
  <2>1. t.stage = "ending" /\ post.id # t.id
    BY <1>0, <1>6 DEF EndSession, ExpiresOnce, Past
  <2>2. QED
    BY <1>0, <1>3, <2>1 DEF SessionPresence, ExpiresOnce, Past
<1>7. Holds(id)'
  BY <1>0, <1>1, <1>2, <1>4, <1>5, <1>6, HoldsStep
<1>8. QED
  BY <1>1, <1>7 DEF Holds

LEMMA MessagesInit == Init => FInv
  BY RegistryInit DEF FInv, Init, ConnectedRecorded, PresentRecorded

LEMMA MessagesStep == FInv /\ [Next]_vars => FInv'
  BY RegistryInvStep, ConnectedStep, PresentStep DEF FInv

LEMMA MessagesInductive == Spec => []FInv
  BY MessagesInit, MessagesStep, PTL DEF Spec

\* offline.go:18-26 and 137-139: in every schedule, an offline message that is sent for a
\* connected node reports a link that was announced beside another one, or late.
THEOREM OfflineIsExplained == Spec => OfflineExplained
<1>1. FInv /\ [Next]_vars => [TakenOffline => ~Connected \/ notif.conn \in beside]_vars
  <2> SUFFICES ASSUME FInv, [Next]_vars, TakenOffline, Connected
               PROVE  notif.conn \in beside
    OBVIOUS
  <2>0. TypeOK /\ OneKeeper /\ FirstIsNew
    BY RInvTypes DEF FInv, RInv, IInv
  <2>1. notif.exist /\ ~notif'.exist /\ ~notif.first
    BY <2>0 DEF TakenOffline, FirstIsNew, NewState
  <2>2. ASSUME NEW id, OfflineNotification(id) PROVE notif'.exist = notif.exist
    BY <2>0, <2>2 DEF OfflineNotification, TypeOK, States
  <2>3. ASSUME NEW c \in Conns, EndConnection(c) PROVE FALSE
    BY <2>1, <2>2, <2>3 DEF EndConnection
  <2>4. ASSUME NEW t \in timers, EndSession(t) PROVE FALSE
    BY <2>1, <2>2, <2>4 DEF EndSession
  <2>5. ASSUME NEW id \in online, OnlineNotification(id) PROVE FALSE
    BY <2>1, <2>5 DEF OnlineNotification, RecordOnline
  <2>6. ASSUME NEW id \in grace, GraceExpires(id) PROVE notif.pending
    BY <2>1, <2>6 DEF GraceExpires
  <2>7. ~ForgetClient
    BY DEF ForgetClient, RemovalStep, TakenOffline
  <2>8. notif.pending
    BY <2>0, <2>1, <2>3, <2>4, <2>5, <2>6, <2>7, WhoNotifies
  <2>9. QED
    BY <2>1, <2>8 DEF Connected, FInv, ConnectedRecorded, PresentRecorded, Holds
<1>2. QED
  BY <1>1, MessagesInductive, PTL DEF Spec, OfflineExplained

=============================================================================
