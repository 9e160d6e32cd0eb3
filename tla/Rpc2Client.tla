------------------------------ MODULE Rpc2Client ------------------------------
(***************************************************************************)
(* The connection the pages call the panel through: one client for the     *)
(* tab, which prefers a WebSocket, reconnects it, and falls back to HTTP.  *)
(* The provider that owns the client is taken down by the guide pages and  *)
(* put back afterwards, so a socket that is closing may still have         *)
(* something to say when the next one is already opening.                  *)
(***************************************************************************)
EXTENDS Integers, FiniteSets

CONSTANTS
  Socks, Calls, NoSock, \* sockets and calls that may exist at one time
  MaxAttempts,        \* maxReconnectAttempts
  MaxDrops, MaxMounts \* bounds: connections the network ends or refuses,
                      \* times the provider is put up

ASSUME ClientAssumption ==
  /\ NoSock \notin Socks
  /\ MaxAttempts \in Nat /\ MaxDrops \in Nat /\ MaxMounts \in Nat

VARIABLES
  conn, ws,        \* connectionState, and the socket in use
  sock,            \* what each socket is doing
  waiting,         \* sockets a connect() still waits for
  auto, attempts, timer, beat, \* autoReconnect, reconnectAttempts, retry and
                   \* heartbeat timers
  call,            \* the calls
  mounts, mounted, \* the provider
  list,            \* NodeListProvider
  drops

link     == <<conn, ws, sock, waiting, attempts, beat>>
provider == <<mounts, mounted>>
cvars    == <<link, auto, timer, call, provider, list, drops>>

Live(s) == sock[s] # "closed"
WsOpen  == ws # NoSock /\ sock[ws] = "open"

Idle == [at |-> "idle", for |-> "poll", mount |-> 0, on |-> NoSock]

-----------------------------------------------------------------------------
(* connect, beyond its early return; a socket is made at once, its fate    *)
(* comes later.                                                            *)
ConnectWith(s) ==
  /\ sock[s] = "closed"
  /\ sock' = [sock EXCEPT ![s] = "opening"] /\ ws' = s
  /\ waiting' = waiting \cup {s} /\ conn' = "connecting"
  /\ UNCHANGED <<attempts, beat>>

Connect == \E s \in Socks : ConnectWith(s)

(* call: a connection is started when there is none, and not waited for.   *)
NeverConnects(c, for, m) ==
  /\ call[c].at = "idle"
  /\ UNCHANGED link
  /\ call' = [call EXCEPT ![c] = [at |-> IF conn = "connected" /\ WsOpen THEN "ws" ELSE "http",
       for |-> for, mount |-> m, on |-> IF conn = "connected" /\ WsOpen THEN ws ELSE NoSock]]

Place(c, for, m) ==
  /\ call[c].at = "idle"
  /\ \/ conn = "disconnected" /\ Connect
     \/ conn # "disconnected" /\ UNCHANGED link
  /\ call' = [call EXCEPT ![c] = [at |-> IF conn = "connected" /\ WsOpen THEN "ws" ELSE "http",
       for |-> for, mount |-> m, on |-> IF conn = "connected" /\ WsOpen THEN ws ELSE NoSock]]

-----------------------------------------------------------------------------
(* What happens to a socket.                                               *)

Opens(s) ==
  /\ sock[s] = "opening"
  /\ sock' = [sock EXCEPT ![s] = "open"] /\ waiting' = waiting \ {s}
  /\ conn' = "connected" /\ attempts' = 0 /\ beat' = TRUE
  /\ UNCHANGED <<ws, auto, timer, call, provider, list, drops>>

(* The promise of connect gives up; the socket does not.                   *)
ConnectTimesOut(s) ==
  /\ s \in waiting /\ sock[s] = "opening"
  /\ waiting' = waiting \ {s} /\ conn' = "error"
  /\ UNCHANGED <<ws, sock, attempts, beat, auto, timer, call, provider, list, drops>>

(* The calls on a socket that closed wait for an answer all the same.      *)
Unanswered(s) == [c \in Calls |-> IF call[c].on = s THEN [call[c] EXCEPT !.on = NoSock] ELSE call[c]]

CloseAfterRetries(s) ==
  /\ sock' = [sock EXCEPT ![s] = "closed"] /\ waiting' = waiting \ {s} /\ beat' = FALSE
  /\ call' = Unanswered(s)
  /\ IF auto /\ attempts < MaxAttempts
       THEN attempts' = attempts + 1 /\ conn' = "reconnecting" /\ timer' = TRUE
       ELSE UNCHANGED <<conn, attempts, timer>>
  /\ UNCHANGED <<ws, auto, provider, list>>

(* onclose, of whichever socket: the error of a failed handshake comes in  *)
(* the same task before it, and its state does not last.                   *)
OnClose(s) ==
  /\ sock' = [sock EXCEPT ![s] = "closed"] /\ waiting' = waiting \ {s} /\ beat' = FALSE
  /\ call' = Unanswered(s)
  /\ IF auto /\ attempts < MaxAttempts
       THEN attempts' = attempts + 1 /\ conn' = "reconnecting" /\ timer' = TRUE
       ELSE conn' = "disconnected" /\ UNCHANGED <<attempts, timer>>
  /\ UNCHANGED <<ws, auto, provider, list>>

Closes(s) == sock[s] = "closing" /\ OnClose(s) /\ UNCHANGED drops

Breaks(s) ==
  /\ sock[s] \in {"opening", "open"} /\ drops < MaxDrops /\ drops' = drops + 1
  /\ OnClose(s)

(* The retry timer, whose connect may find a connection under way.         *)
Reconnect ==
  /\ timer /\ timer' = FALSE
  /\ \/ conn \notin {"connected", "connecting"} /\ Connect
     \/ conn \in {"connected", "connecting"} /\ UNCHANGED link
  /\ UNCHANGED <<auto, call, provider, list, drops>>

-----------------------------------------------------------------------------
(* The calls.  One that fails on the socket - refused, or unanswered for   *)
(* thirty seconds - is made again over HTTP, once.                         *)

Answered(c, ok) ==
  /\ call' = [call EXCEPT ![c] = Idle]
  /\ list' = IF call[c].for = "list" /\ mounted /\ call[c].mount = mounts
               THEN IF ok THEN "shown" ELSE "failed"
               ELSE list
  /\ UNCHANGED <<link, auto, timer, provider, drops>>

FallsBack(c) ==
  /\ call' = [call EXCEPT ![c].at = "http", ![c].on = NoSock]
  /\ UNCHANGED <<link, auto, timer, provider, list, drops>>

HandleMessage(c) ==
  /\ call[c].at = "ws" /\ call[c].on # NoSock
  /\ Answered(c, TRUE) \/ FallsBack(c)

CallTimesOut(c) == call[c].at = "ws" /\ FallsBack(c)

HttpSettles(c) == call[c].at = "http" /\ \E ok \in BOOLEAN : Answered(c, ok)

(* The node page's poll: the next one after the answer to the last.        *)
PollList(c) ==
  /\ mounted /\ \A d \in Calls : call[d].for # "poll" \/ call[d].mount # mounts
  /\ Place(c, "poll", mounts)
  /\ UNCHANGED <<auto, timer, provider, list, drops>>

-----------------------------------------------------------------------------
(* The provider.  The client is made the first time only; the node list    *)
(* below it makes a call each time.                                        *)
Mount(c) ==
  /\ ~mounted /\ mounts < MaxMounts
  /\ mounts' = mounts + 1 /\ mounted' = TRUE /\ list' = "loading"
  /\ Place(c, "list", mounts + 1)
  /\ UNCHANGED <<auto, timer, drops>>

(* clearPendingRequests rejects the calls on the socket, which go to HTTP. *)
ClearPending == [c \in Calls |-> IF call[c].at = "ws"
                                   THEN [call[c] EXCEPT !.at = "http", !.on = NoSock] ELSE call[c]]

(* disconnect, for good: it also turns reconnecting off.                   *)
Unmount ==
  /\ mounted /\ mounted' = FALSE /\ list' = "none"
  /\ auto' = FALSE /\ timer' = FALSE /\ beat' = FALSE
  /\ sock' = [s \in Socks |-> IF s = ws /\ Live(s) THEN "closing" ELSE sock[s]]
  /\ ws' = NoSock /\ conn' = "disconnected" /\ call' = ClearPending
  /\ UNCHANGED <<waiting, attempts, mounts, drops>>

ClientInit ==
  /\ conn = "disconnected" /\ ws = NoSock /\ sock = [s \in Socks |-> "closed"] /\ waiting = {}
  /\ auto = TRUE /\ attempts = 0 /\ timer = FALSE /\ beat = FALSE
  /\ call = [c \in Calls |-> Idle] /\ mounts = 0 /\ mounted = FALSE /\ list = "none" /\ drops = 0

ClientNext ==
  \/ \E s \in Socks : Opens(s) \/ ConnectTimesOut(s) \/ Closes(s) \/ Breaks(s)
  \/ Reconnect \/ Unmount
  \/ \E c \in Calls : HandleMessage(c) \/ CallTimesOut(c) \/ HttpSettles(c) \/ PollList(c) \/ Mount(c)

(* Every handshake ends, timers fire, HTTP requests end, and the page      *)
(* polls.                                                                  *)
ClientFairness ==
  /\ \A s \in Socks : WF_cvars(Opens(s)) /\ WF_cvars(Closes(s))
  /\ WF_cvars(Reconnect)
  /\ WF_cvars(\E c \in Calls : PollList(c))
  /\ \A c \in Calls : WF_cvars(CallTimesOut(c)) /\ WF_cvars(HttpSettles(c))

ClientSpec == ClientInit /\ [][ClientNext]_cvars /\ ClientFairness

-----------------------------------------------------------------------------

ClientTypeOK ==
  /\ conn \in {"disconnected", "connecting", "connected", "reconnecting", "error"}
  /\ ws \in Socks \cup {NoSock}
  /\ sock \in [Socks -> {"closed", "opening", "open", "closing"}] /\ waiting \subseteq Socks
  /\ auto \in BOOLEAN /\ attempts \in 0..MaxAttempts /\ timer \in BOOLEAN /\ beat \in BOOLEAN
  /\ call \in [Calls -> [at : {"idle", "ws", "http"}, for : {"poll", "list"}, mount : Nat,
                         on : Socks \cup {NoSock}]]
  /\ mounts \in Nat /\ mounted \in BOOLEAN
  /\ list \in {"none", "loading", "shown", "failed"} /\ drops \in Nat

(* What calls itself connected has an open socket, and keeps it alive; and *)
(* as long as the client may reconnect by itself it has one connection at  *)
(* most, and none while it waits to try again (rpc2.ts:226-372).           *)
ConnectedIsAlive == conn = "connected" => beat /\ \E s \in Socks : sock[s] = "open"
SoleWhileAuto ==
  auto => /\ \A s, t \in Socks : Live(s) /\ Live(t) => s = t
          /\ timer => \A s \in Socks : ~Live(s)
ConnectionSound == ClientTypeOK /\ ConnectedIsAlive /\ SoleWhileAuto

(* Whatever was lost, retried or taken down: as long as the provider stays *)
(* up and the page polls, the client ends up connected.                    *)
Recovers == <>[]mounted => <>[](conn = "connected")

=============================================================================
