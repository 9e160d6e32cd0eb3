---------------------------- MODULE TransportProofs ----------------------------
(***************************************************************************)
(* Proofs about the two ways a page reaches the panel besides single       *)
(* requests, for any numbers of sockets, calls, uploads and chunks:        *)
(*                                                                         *)
(*   - what calls itself connected is kept alive, and a client that        *)
(*     reconnects by itself never has two connections (ConnectionSound);   *)
(*   - the dialog of an upload tells what the panel does                   *)
(*     (DialogTellsTruth), whatever is cancelled, lost, late or restarted. *)
(*                                                                         *)
(* Neither is inductive.  The first rests on the retry timer, which runs   *)
(* only between two connections (BetweenConnections); the second on what   *)
(* the panel and the requests given up hold of an upload before its merge  *)
(* (Unmerged), on the stages an aborted upload can be in (UploadSound) and *)
(* on where the controller of an upload is that can still be cancelled     *)
(* (Heard).                                                                *)
(***************************************************************************)
EXTENDS Rpc2Client, ArchiveUpload, TLAPS

-----------------------------------------------------------------------------
(* THE RPC CLIENT.                                                         *)

Entries == [at : {"idle", "ws", "http"}, for : {"poll", "list"}, mount : Nat,
            on : Socks \cup {NoSock}]

NoneLive == \A s \in Socks : ~Live(s)

(* Why there is one connection at most: the retry timer runs only between  *)
(* two of them, and whoever finds the client disconnected finds none.      *)
BetweenConnections ==
  /\ timer => auto /\ conn = "reconnecting" /\ NoneLive
  /\ auto /\ conn = "disconnected" => NoneLive

ClientInv == ClientTypeOK /\ ConnectedIsAlive /\ SoleWhileAuto /\ BetweenConnections

LEMMA ClientInitInv == ClientInit => ClientInv
<1> SUFFICES ASSUME ClientInit
             PROVE  ClientInv
  OBVIOUS
<1>1. Idle \in Entries
  BY DEF Idle, Entries
<1>2. call \in [Calls -> Entries]
  BY <1>1 DEF ClientInit
<1>3. ClientTypeOK
  <2>1. attempts \in 0..MaxAttempts
    BY ClientAssumption DEF ClientInit
  <2>2. sock \in [Socks -> {"closed", "opening", "open", "closing"}]
    BY DEF ClientInit
  <2>3. QED
    BY <1>2, <2>1, <2>2 DEF ClientInit, ClientTypeOK, Entries
<1>4. ConnectedIsAlive /\ SoleWhileAuto /\ BetweenConnections
  BY DEF ClientInit, ConnectedIsAlive, SoleWhileAuto, BetweenConnections, NoneLive, Live
<1>5. QED
  BY <1>3, <1>4 DEF ClientInv

-----------------------------------------------------------------------------
(* What a call becomes is a call.                                          *)

LEMMA PlacedIsEntry ==
  ASSUME ClientTypeOK, NEW c \in Calls, NEW for \in {"poll", "list"}, NEW m \in Nat,
         Place(c, for, m)
  PROVE  call' \in [Calls -> Entries]
<1>1. ws \in Socks \cup {NoSock} /\ call \in [Calls -> Entries]
  BY DEF ClientTypeOK, Entries
<1>2. [at |-> IF conn = "connected" /\ WsOpen THEN "ws" ELSE "http", for |-> for, mount |-> m,
       on |-> IF conn = "connected" /\ WsOpen THEN ws ELSE NoSock] \in Entries
  BY <1>1 DEF Entries
<1>3. QED
  BY <1>1, <1>2 DEF Place

LEMMA AnsweredIsEntry ==
  ASSUME ClientTypeOK, NEW c \in Calls, NEW ok \in BOOLEAN, Answered(c, ok)
  PROVE  call' \in [Calls -> Entries] /\ list' \in {"none", "loading", "shown", "failed"}
<1>1. Idle \in Entries
  BY DEF Idle, Entries
<1>2. QED
  BY <1>1 DEF Answered, ClientTypeOK, Entries

LEMMA FallenBackIsEntry ==
  ASSUME ClientTypeOK, NEW c \in Calls, FallsBack(c)
  PROVE  call' \in [Calls -> Entries]
<1>1. call \in [Calls -> Entries]
  BY DEF ClientTypeOK, Entries
<1>2. \A e \in Entries : [[e EXCEPT !.at = "http"] EXCEPT !.on = NoSock] \in Entries
  BY DEF Entries
<1>3. call' = [call EXCEPT ![c] = [[call[c] EXCEPT !.at = "http"] EXCEPT !.on = NoSock]]
  BY <1>1 DEF FallsBack, Entries
<1>4. QED
  BY <1>1, <1>2, <1>3

LEMMA ClearedIsEntry ==
  ASSUME ClientTypeOK
  PROVE  ClearPending \in [Calls -> Entries]
<1>1. call \in [Calls -> Entries]
  BY DEF ClientTypeOK, Entries
<1>2. \A e \in Entries : [e EXCEPT !.at = "http", !.on = NoSock] \in Entries
  BY DEF Entries
<1>3. QED
  BY <1>1, <1>2 DEF ClearPending

LEMMA UnansweredIsEntry ==
  ASSUME ClientTypeOK, NEW s \in Socks
  PROVE  Unanswered(s) \in [Calls -> Entries]
<1>1. call \in [Calls -> Entries]
  BY DEF ClientTypeOK, Entries
<1>2. \A e \in Entries : [e EXCEPT !.on = NoSock] \in Entries
  BY DEF Entries
<1>3. QED
  BY <1>1, <1>2 DEF Unanswered

-----------------------------------------------------------------------------
(* A connection is made when there is none, and is then the only one.      *)
LEMMA ConnectKeeps ==
  ASSUME ClientInv, Connect, auto => NoneLive, auto' = auto, timer' = FALSE
  PROVE  /\ conn' \in {"connecting"} /\ ws' \in Socks /\ waiting' \subseteq Socks
         /\ sock' \in [Socks -> {"closed", "opening", "open", "closing"}]
         /\ attempts' = attempts /\ beat' = beat
         /\ ConnectedIsAlive' /\ SoleWhileAuto' /\ BetweenConnections'
  BY DEF Connect, ConnectWith, ClientInv, ClientTypeOK, ConnectedIsAlive, SoleWhileAuto,
         BetweenConnections, NoneLive, Live

LEMMA PlaceKeeps ==
  ASSUME ClientInv, NEW c \in Calls, NEW for \in {"poll", "list"}, NEW m \in Nat, Place(c, for, m),
         auto' = auto, timer' = timer, mounts' \in Nat, mounted' \in BOOLEAN,
         list' \in {"none", "loading", "shown", "failed"}, drops' = drops
  PROVE  ClientInv'
<1>1. call' \in [Calls -> Entries]
  BY PlacedIsEntry DEF ClientInv
<1>2. CASE conn = "disconnected" /\ Connect
  <2>1. (auto => NoneLive) /\ timer' = FALSE
    BY <1>2 DEF ClientInv, BetweenConnections, ClientTypeOK
  <2>2. QED
    BY <1>1, <1>2, <2>1, ConnectKeeps DEF ClientInv, ClientTypeOK, Entries
<1>3. CASE UNCHANGED link
  BY <1>1, <1>3 DEF link, ClientInv, ClientTypeOK, Entries, ConnectedIsAlive, SoleWhileAuto,
     BetweenConnections, NoneLive, Live
<1>4. QED
  BY <1>2, <1>3 DEF Place

LEMMA CloseKeeps ==
  ASSUME ClientInv, NEW s \in Socks, Live(s), OnClose(s), drops' \in Nat
  PROVE  ClientInv'
<1>1. call' \in [Calls -> Entries]
  BY UnansweredIsEntry DEF ClientInv, OnClose
<1>2. ClientTypeOK'
  <2>1. attempts \in 0..MaxAttempts
    BY DEF ClientInv, ClientTypeOK
  <2>2. attempts' \in 0..MaxAttempts
    BY <2>1, ClientAssumption DEF OnClose
  <2>3. timer' \in BOOLEAN /\ beat' \in BOOLEAN
    BY DEF ClientInv, ClientTypeOK, OnClose
  <2>4. /\ conn' \in {"disconnected", "connecting", "connected", "reconnecting", "error"}
        /\ sock' \in [Socks -> {"closed", "opening", "open", "closing"}]
        /\ waiting' \subseteq Socks
    BY DEF ClientInv, ClientTypeOK, OnClose
  <2>5. QED
    BY <1>1, <2>2, <2>3, <2>4 DEF ClientInv, ClientTypeOK, OnClose, Entries, provider
<1>3. ~timer
  BY DEF ClientInv, BetweenConnections, NoneLive
<1>4. ConnectedIsAlive'
  BY DEF OnClose, ConnectedIsAlive
<1>5. auto => NoneLive'
  BY DEF ClientInv, ClientTypeOK, SoleWhileAuto, NoneLive, Live, OnClose
<1>6. SoleWhileAuto' /\ BetweenConnections'
  BY <1>3, <1>5 DEF OnClose, SoleWhileAuto, BetweenConnections, NoneLive
<1>7. QED
  BY <1>2, <1>4, <1>6 DEF ClientInv

-----------------------------------------------------------------------------
LEMMA ClientNextInv == ClientInv /\ [ClientNext]_cvars => ClientInv'
<1> SUFFICES ASSUME ClientInv, [ClientNext]_cvars
             PROVE  ClientInv'
  OBVIOUS
<1> USE DEF ClientInv, link, provider
<1>1. ASSUME NEW s \in Socks, Opens(s)
      PROVE  ClientInv'
  BY <1>1, ClientAssumption DEF Opens, ClientTypeOK, ConnectedIsAlive, SoleWhileAuto, BetweenConnections, NoneLive, Live
<1>2. ASSUME NEW s \in Socks, ConnectTimesOut(s)
      PROVE  ClientInv'
  BY <1>2 DEF ConnectTimesOut, ClientTypeOK, ConnectedIsAlive, SoleWhileAuto, BetweenConnections,
     NoneLive, Live
<1>3. ASSUME NEW s \in Socks, Closes(s)
      PROVE  ClientInv'
  BY <1>3, CloseKeeps DEF Closes, ClientTypeOK, Live
<1>4. ASSUME NEW s \in Socks, Breaks(s)
      PROVE  ClientInv'
  BY <1>4, CloseKeeps DEF Breaks, ClientTypeOK, Live
<1>5. CASE Reconnect
  <2>1. CASE Connect
    BY <1>5, <2>1, ConnectKeeps DEF Reconnect, ClientTypeOK, BetweenConnections
  <2>2. CASE UNCHANGED link
    BY <1>5, <2>2 DEF Reconnect, ClientTypeOK, ConnectedIsAlive, SoleWhileAuto, BetweenConnections,
       NoneLive, Live
  <2>3. QED
    BY <1>5, <2>1, <2>2 DEF Reconnect
<1>6. CASE Unmount
  <2>1. ClientTypeOK'
    BY <1>6, ClearedIsEntry DEF Unmount, ClientTypeOK, Entries
  <2>2. QED
    BY <1>6, <2>1 DEF Unmount, ConnectedIsAlive, SoleWhileAuto, BetweenConnections
<1>7. ASSUME NEW c \in Calls, NEW ok \in BOOLEAN, Answered(c, ok)
      PROVE  ClientInv'
  BY <1>7, AnsweredIsEntry DEF Answered, ClientTypeOK, Entries, ConnectedIsAlive, SoleWhileAuto,
     BetweenConnections, NoneLive, Live
<1>8. ASSUME NEW c \in Calls, FallsBack(c)
      PROVE  ClientInv'
  BY <1>8, FallenBackIsEntry DEF FallsBack, ClientTypeOK, Entries, ConnectedIsAlive, SoleWhileAuto,
     BetweenConnections, NoneLive, Live
<1>9. ASSUME NEW c \in Calls, PollList(c)
      PROVE  ClientInv'
  BY <1>9, PlaceKeeps DEF PollList, ClientTypeOK
<1>10. ASSUME NEW c \in Calls, Mount(c)
       PROVE  ClientInv'
  <2>1. mounts + 1 \in Nat
    BY DEF ClientTypeOK
  <2>2. QED
    BY <1>10, <2>1, PlaceKeeps DEF Mount
<1>11. CASE UNCHANGED cvars
  BY <1>11 DEF cvars, ClientTypeOK, ConnectedIsAlive, SoleWhileAuto, BetweenConnections, NoneLive, Live
<1>12. QED
  BY <1>1, <1>2, <1>3, <1>4, <1>5, <1>6, <1>7, <1>8, <1>9, <1>10, <1>11
     DEF ClientNext, HandleMessage, CallTimesOut, HttpSettles

(* rpc2.ts:226-372, RPC2Context.tsx:24-68: connected means alive, and      *)
(* there is one connection as long as the client reconnects by itself.     *)
THEOREM OneLiveConnection == ClientSpec => []ConnectionSound
<1>1. ClientInv => ConnectionSound
  BY DEF ClientInv, ConnectionSound
<1>2. QED
  BY <1>1, ClientInitInv, ClientNextInv, PTL DEF ClientSpec

-----------------------------------------------------------------------------
(* THE ARCHIVE UPLOAD.                                                     *)

Kinds  == {"init", "chunk", "merge", "cancel"}
Stages == Kinds \cup {"new", "wait", "pause", "shown", "closing", "done"}
Messages == [up : Uploads, kind : Kinds, part : Parts]

UploadType ==
  /\ controller \in Uploads \cup {None} /\ at \in [Uploads -> Stages]
  /\ req \in [Uploads -> {"none", "sent", "ok", "refused", "lost"}]
  /\ store \in [Uploads -> {"none", "open", "finalizing"}]
  /\ part \in [Uploads -> Parts] /\ have \in [Uploads -> SUBSET Parts]
  /\ aborted \in [Uploads -> Stages \cup {None}]
  /\ strays \subseteq Messages /\ staged \subseteq Uploads
  /\ \A u \in Uploads : req[u] = "sent" => at[u] \in Kinds

(* Nothing of the upload asks the panel to put it together.                *)
Unmerged(u) ==
  /\ u \notin staged /\ store[u] # "finalizing"
  /\ \A r \in strays : r.up = u => r.kind # "merge"

BeforeMerge(u) == at[u] \in {"new", "init", "chunk", "wait", "pause"}

(* Cancelled before it asked for the merge.                                *)
GivenUp(u) == aborted[u] \notin {None, "merge"}

(* An upload that was given up never gets to its merge, and one whose      *)
(* merge was answered is staged.                                           *)
UploadSound(u) ==
  /\ BeforeMerge(u) \/ GivenUp(u) => Unmerged(u)
  /\ GivenUp(u) => at[u] \in {"pause", "cancel", "done"}
  /\ at[u] = "merge" /\ req[u] = "ok" => u \in staged
  /\ at[u] \in {"shown", "closing"} => u \in staged

UploadInv == UploadType /\ \A u \in Uploads : UploadSound(u)

(* No upload was begun.                                                    *)
LEMMA UploadInitInv == UploadInit => UploadInv
  BY UploadAssumption DEF UploadInit, UploadInv, UploadType, UploadSound, Unmerged, BeforeMerge, GivenUp, Stages,
         Kinds, Messages, Parts

(* What is still on its way is a message of the upload's stage.            *)
LEMMA OnItsWayIsMessage ==
  ASSUME UploadType, NEW u \in Uploads
  PROVE  /\ OnItsWay(u) \subseteq Messages
         /\ \A r \in OnItsWay(u) : r.up = u /\ r.kind = at[u]
<1>1. CASE req[u] = "sent" /\ store[u] # "finalizing"
  <2>1. OnItsWay(u) = {[up |-> u, kind |-> at[u], part |-> part[u]]}
    BY <1>1 DEF OnItsWay, Request
  <2>2. at[u] \in Kinds /\ part[u] \in Parts
    BY <1>1 DEF UploadType
  <2>3. QED
    BY <2>1, <2>2 DEF Messages
<1>2. CASE ~(req[u] = "sent" /\ store[u] # "finalizing")
  BY <1>2 DEF OnItsWay
<1>3. QED
  BY <1>1, <1>2

(* The panel puts together what a merge asked for, and nothing else.       *)
LEMMA StoredKeeps ==
  ASSUME UploadType, NEW u \in Uploads, NEW k \in Kinds, NEW p \in Parts, Stored(u, k, p)
  PROVE  /\ store' \in [Uploads -> {"none", "open", "finalizing"}]
         /\ have' \in [Uploads -> SUBSET Parts]
         /\ \A v \in Uploads : store'[v] = "finalizing" =>
              store[v] = "finalizing" \/ (v = u /\ k = "merge")
         /\ \A v \in Uploads : store[v] = "finalizing" => store'[v] # "none"
<1> USE DEF UploadType
<1>1. CASE k = "init"
  BY <1>1 DEF Stored
<1>2. CASE k = "chunk"
  BY <1>2 DEF Stored
<1>3. CASE k = "merge"
  BY <1>3 DEF Stored
<1>4. CASE k = "cancel"
  BY <1>4 DEF Stored, Withdrawn
<1>5. QED
  BY <1>1, <1>2, <1>3, <1>4 DEF Kinds

-----------------------------------------------------------------------------
(* Opening, closing and cancelling; a cancelled upload leaves the merge    *)
(* for ever.                                                               *)
LEMMA DialogSteps == ASSUME UploadInv, Open \/ Close \/ Cancel \/ Restart PROVE UploadInv'
<1> USE UploadAssumption DEF UploadInv, UploadType, UploadSound, Unmerged, BeforeMerge, GivenUp, dialog, client,
        panel, Stages, Kinds
<1>1. CASE Open
  BY <1>1 DEF Open
<1>2. CASE Close
  BY <1>2 DEF Close
<1>3. CASE Restart
  BY <1>3 DEF Restart
<1>4. CASE Cancel
  <2>1. CASE UNCHANGED <<controller, at, req, aborted, strays>>
    BY <1>4, <2>1 DEF Cancel
  <2>2. ASSUME NEW u \in Uploads, u = controller, ~UNCHANGED <<controller, at, req, aborted, strays>>
        PROVE  UploadInv'
    <3>1. OnItsWay(u) \subseteq Messages /\ \A r \in OnItsWay(u) : r.up = u /\ r.kind = at[u]
      BY OnItsWayIsMessage
    <3>2. QED
      BY <1>4, <2>2, <3>1 DEF Cancel
  <2>3. QED
    BY <1>4, <2>1, <2>2 DEF Cancel
<1>5. QED
  BY <1>1, <1>2, <1>3, <1>4

(* The panel answers, finalizes, or loses what was sent.                   *)
LEMMA PanelSteps ==
  ASSUME UploadInv, NEW u \in Uploads, Serve(u) \/ Finalize(u) \/ Expire(u) \/ Lose(u)
  PROVE  UploadInv'
<1> USE UploadAssumption DEF UploadInv, UploadType, UploadSound, Unmerged, BeforeMerge, GivenUp, dialog, client,
        panel, Stages, Kinds
<1>1. CASE Serve(u)
  <2>1. at[u] \in Kinds /\ part[u] \in Parts
    BY <1>1 DEF Serve
  <2>2. CASE Stored(u, at[u], part[u])
    BY <1>1, <2>1, <2>2, StoredKeeps DEF Serve
  <2>3. CASE UNCHANGED <<store, have>>
    BY <1>1, <2>3 DEF Serve
  <2>4. QED
    BY <1>1, <2>2, <2>3 DEF Serve
<1>2. CASE Finalize(u)
  BY <1>2 DEF Finalize
<1>3. CASE Expire(u)
  BY <1>3 DEF Expire
<1>4. CASE Lose(u)
  <2>1. OnItsWay(u) \subseteq Messages /\ \A r \in OnItsWay(u) : r.up = u /\ r.kind = at[u]
    BY OnItsWayIsMessage
  <2>2. QED
    BY <1>4, <2>1 DEF Lose
<1>5. QED
  BY <1>1, <1>2, <1>3, <1>4

(* What arrives late is no merge of an upload that was given up.           *)
LEMMA StraySteps ==
  ASSUME UploadInv, NEW r \in strays, ServeStray(r)
  PROVE  UploadInv'
<1> USE DEF UploadInv, UploadType, UploadSound, Unmerged, BeforeMerge, GivenUp, dialog, client, panel
<1>1. r.up \in Uploads /\ r.kind \in Kinds /\ r.part \in Parts
  BY DEF Messages
<1>2. CASE Stored(r.up, r.kind, r.part)
  BY <1>1, <1>2, StoredKeeps DEF ServeStray
<1>3. CASE UNCHANGED <<store, have>>
  BY <1>3 DEF ServeStray
<1>4. QED
  BY <1>2, <1>3 DEF ServeStray

(* An upload goes on, to its merge only when it was not aborted.           *)
LEMMA UploadSteps ==
  ASSUME UploadInv, NEW u \in Uploads, Select(u) \/ Progress(u) \/ Continues(u)
  PROVE  UploadInv'
<1> USE UploadAssumption DEF UploadInv, UploadType, UploadSound, Unmerged, BeforeMerge, GivenUp, dialog, client,
        panel, Stages, Kinds, DropController
<1>1. CASE Select(u)
  BY <1>1 DEF Select
<1>2. CASE Progress(u)
  BY <1>2 DEF Progress
<1>3. CASE Initialized(u)
  BY <1>3 DEF Initialized, Fails
<1>4. CASE ChunkSettles(u)
  <2>1. part' \in [Uploads -> Parts]
    BY <1>4 DEF ChunkSettles, Parts
  <2>2. QED
    BY <1>4, <2>1 DEF ChunkSettles, Fails
<1>5. CASE Retry(u)
  BY <1>5 DEF Retry
<1>6. CASE PauseEnds(u)
  BY <1>6 DEF PauseEnds
<1>7. CASE MergeSettles(u)
  BY <1>7 DEF MergeSettles, Fails
<1>8. CASE Cancelled(u)
  BY <1>8 DEF Cancelled, Caught
<1>9. CASE Dismiss(u)
  BY <1>9 DEF Dismiss
<1>10. CASE Forget(u)
  BY <1>10 DEF Forget
<1>11. CASE Leave(u)
  <2>1. \A v \in Uploads : OnItsWay(v) \subseteq Messages /\ \A r \in OnItsWay(v) : r.up = v /\ r.kind = at[v]
    BY OnItsWayIsMessage
  <2>2. QED
    BY <1>11, <2>1 DEF Leave, Started
<1>12. QED
  BY <1>1, <1>2, <1>3, <1>4, <1>5, <1>6, <1>7, <1>8, <1>9, <1>10, <1>11 DEF Continues

(* Every step keeps the invariant.                                         *)
LEMMA UploadNextInv == UploadInv /\ [UploadNext]_uvars => UploadInv'
<1> SUFFICES ASSUME UploadInv, [UploadNext]_uvars PROVE UploadInv'
  OBVIOUS
<1>1. CASE UNCHANGED uvars
  BY <1>1 DEF uvars, dialog, client, history, panel, UploadInv, UploadType, UploadSound, Unmerged, BeforeMerge, GivenUp
<1>2. QED
  BY <1>1, DialogSteps, PanelSteps, StraySteps, UploadSteps DEF UploadNext

-----------------------------------------------------------------------------
(* A cancel finds the controller of the upload it is about, unless that    *)
(* was aborted already or an earlier upload's end had dropped it.          *)
Heard(u) ==
  /\ Newest(u) /\ at[u] \in Unmerging => controller = u \/ u \in orphaned \/ GivenUp(u)
  /\ u \in asked => u \in orphaned \/ GivenUp(u)

HeardInv ==
  /\ \A u, v \in Uploads : v < u /\ at[u] # "new" => at[v] # "new"
  /\ \A u \in Uploads : Heard(u)

(* A step that begins and cancels nothing.                                 *)
LEMMA HeardKept ==
  ASSUME HeardInv, UNCHANGED <<asked, aborted>>, orphaned \subseteq orphaned',
         \A u \in Uploads : at'[u] = "new" <=> at[u] = "new",
         \A u \in Uploads : at'[u] \in Unmerging => at[u] \in Unmerging,
         \A u \in Uploads : controller = u /\ at'[u] \in Unmerging => controller' = u \/ u \in orphaned'
  PROVE  HeardInv'
  BY DEF HeardInv, Heard, Newest, GivenUp

(* The end of an upload takes the controller of no other in silence.       *)
LEMMA HeardContinues ==
  ASSUME UploadInv, HeardInv, NEW u \in Uploads, Continues(u)
  PROVE  HeardInv'
<1> USE UploadAssumption DEF UploadInv, UploadType, Stages, Kinds, Unmerging, DropController, dialog, history
<1>1. CASE Initialized(u)
  BY <1>1, HeardKept DEF Initialized, Fails
<1>2. CASE ChunkSettles(u)
  BY <1>2, HeardKept DEF ChunkSettles, Fails
<1>3. CASE Retry(u)
  BY <1>3, HeardKept DEF Retry
<1>4. CASE PauseEnds(u)
  BY <1>4, HeardKept DEF PauseEnds
<1>5. CASE MergeSettles(u)
  BY <1>5, HeardKept DEF MergeSettles, Fails
<1>6. CASE Cancelled(u)
  BY <1>6, HeardKept DEF Cancelled
<1>7. CASE Dismiss(u)
  BY <1>7, HeardKept DEF Dismiss
<1>8. CASE Forget(u)
  BY <1>8, HeardKept DEF Forget
<1>9. CASE Leave(u)
  BY <1>9, HeardKept DEF Leave, Started
<1>10. QED
  BY <1>1, <1>2, <1>3, <1>4, <1>5, <1>6, <1>7, <1>8, <1>9 DEF Continues

(* A cancel aborts the upload it is about when it finds its controller.    *)
LEMMA HeardCancel == ASSUME UploadInv, HeardInv, Cancel PROVE HeardInv'
<1> USE UploadAssumption DEF UploadInv, UploadType
<1>1. orphaned' = orphaned /\ asked' = asked \cup {u \in Uploads : Newest(u) /\ at[u] \in Unmerging}
  BY DEF Cancel
<1>2. /\ \A u \in Uploads : at'[u] = "new" <=> at[u] = "new"
      /\ \A u \in Uploads : at'[u] \in Unmerging => at[u] \in Unmerging
      /\ \A u \in Uploads : controller = u /\ at'[u] \in Unmerging => controller' = u
  BY DEF Cancel, Unmerging
<1>3. ASSUME NEW u \in Uploads, GivenUp(u) \/ (controller = u /\ at[u] \in Unmerging) PROVE GivenUp(u)'
  <2>1. u # None
    BY DEF Uploads
  <2>2. GivenUp(u) => at[u] \in {"pause", "cancel", "done"}
    BY DEF UploadSound
  <2>3. CASE controller = u /\ at[u] \notin {"cancel", "shown", "closing"}
    <3>1. aborted' = [aborted EXCEPT ![u] = at[u]] /\ at[u] \in {"init", "chunk", "wait", "merge", "pause"}
      BY <2>1, <2>3 DEF Cancel
    <3>2. at[u] # "merge"
      BY <1>3, <2>2 DEF Unmerging
    <3>3. aborted'[u] = at[u] /\ at[u] \in Unmerging /\ at[u] # None
      BY <3>1, <3>2, <1>3 DEF Unmerging
    <3>4. QED
      BY <3>3 DEF GivenUp, Unmerging
  <2>4. CASE ~(controller = u /\ at[u] \notin {"cancel", "shown", "closing"})
    BY <1>3, <2>1, <2>4 DEF Cancel, GivenUp, Unmerging
  <2>5. QED
    BY <2>3, <2>4
<1>4. ASSUME NEW u \in Uploads PROVE Newest(u)' <=> Newest(u)
  BY <1>2 DEF Newest
<1>5. ASSUME NEW u \in Uploads PROVE Heard(u)'
  BY <1>1, <1>2, <1>3, <1>4 DEF HeardInv, Heard
<1>6. QED
  BY <1>2, <1>5 DEF HeardInv

LEMMA HeardInitInv == UploadInit => HeardInv
  BY DEF UploadInit, HeardInv, Heard, Newest

(* Every step keeps it.                                                    *)
LEMMA HeardNextInv == UploadInv /\ HeardInv /\ [UploadNext]_uvars => HeardInv'
<1> SUFFICES ASSUME UploadInv, HeardInv, [UploadNext]_uvars PROVE HeardInv'
  OBVIOUS
<1>1. CASE UNCHANGED uvars
  BY <1>1, HeardKept DEF uvars, dialog, client, history
<1>2. CASE Open \/ Close \/ Restart
  BY <1>2, HeardKept DEF Open, Close, Restart, dialog, client, history
<1>3. CASE Cancel
  BY <1>3, HeardCancel
<1>4. ASSUME NEW u \in Uploads, Select(u) PROVE HeardInv'
  <2>1. /\ controller' = u /\ UNCHANGED <<asked, aborted, orphaned>>
        /\ at' = [at EXCEPT ![u] = "init"] /\ \A v \in Uploads : v < u => at[v] # "new"
        /\ at[u] = "new"
    BY <1>4 DEF Select, history
  <2>2. /\ at'[u] = "init" /\ \A v \in Uploads : v # u => at'[v] = at[v]
    BY <2>1 DEF UploadInv, UploadType
  <2>3. \A v, w \in Uploads : w < v /\ at'[v] # "new" => at'[w] # "new"
    BY <2>1, <2>2 DEF HeardInv
  <2>4. \A v \in Uploads : Newest(v)' => v = u
    BY <2>1, <2>2 DEF HeardInv, Newest, Uploads
  <2>5. \A v \in Uploads : GivenUp(v)' <=> GivenUp(v)
    BY <2>1 DEF GivenUp
  <2>6. QED
    BY <2>1, <2>3, <2>4, <2>5 DEF HeardInv, Heard
<1>5. ASSUME NEW u \in Uploads, Serve(u) \/ Finalize(u) \/ Expire(u) \/ Lose(u) \/ Progress(u) PROVE HeardInv'
  BY <1>5, HeardKept DEF Serve, Finalize, Expire, Lose, Progress, dialog, client, history
<1>6. ASSUME NEW u \in Uploads, Continues(u) PROVE HeardInv'
  BY <1>6, HeardContinues
<1>7. ASSUME NEW r \in strays, ServeStray(r) PROVE HeardInv'
  BY <1>7, HeardKept DEF ServeStray, dialog, client, history
<1>8. QED
  BY <1>1, <1>2, <1>3, <1>4, <1>5, <1>6, <1>7 DEF UploadNext

-----------------------------------------------------------------------------
(* Only the finalizer, which stages it, and a restart take an archive that *)
(* is being put together.                                                  *)
LEMMA TakenByFinalizer ==
  ASSUME UploadInv, [UploadNext]_uvars, NEW u \in Uploads,
         store[u] = "finalizing", store'[u] = "none"
  PROVE  (u \in staged' /\ ~lock /\ lock') \/ Restart
<1> USE DEF UploadInv, UploadType
<1>1. ASSUME NEW v \in Uploads, Serve(v) PROVE FALSE
  <2>1. at[v] \in Kinds /\ part[v] \in Parts
    BY <1>1 DEF Serve
  <2>2. QED
    BY <1>1, <2>1, StoredKeeps DEF Serve
<1>2. ASSUME NEW r \in strays, ServeStray(r) PROVE FALSE
  <2>1. r.up \in Uploads /\ r.kind \in Kinds /\ r.part \in Parts
    BY DEF Messages
  <2>2. QED
    BY <1>2, <2>1, StoredKeeps DEF ServeStray
<1>3. ASSUME NEW v \in Uploads, Finalize(v) PROVE u \in staged' /\ ~lock /\ lock'
  BY <1>3 DEF Finalize
<1>4. ASSUME NEW v \in Uploads, Expire(v) PROVE FALSE
  BY <1>4 DEF Expire
<1>5. CASE Restart
  BY <1>5
<1>6. CASE UNCHANGED store
  BY <1>6
<1>7. CASE Open \/ Close \/ Cancel
  BY <1>6, <1>7 DEF Open, Close, Cancel, panel
<1>8. ASSUME NEW v \in Uploads, Select(v) \/ Lose(v) \/ Progress(v) PROVE FALSE
  BY <1>6, <1>8 DEF Select, Lose, Progress, panel
<1>9. ASSUME NEW v \in Uploads, Continues(v) PROVE FALSE
  BY <1>6, <1>9 DEF Continues, Initialized, ChunkSettles, Retry, PauseEnds, MergeSettles, Cancelled, Dismiss,
     Forget, Leave, panel
<1>10. QED
  BY <1>1, <1>2, <1>3, <1>4, <1>5, <1>6, <1>7, <1>8, <1>9 DEF UploadNext, uvars, panel

(* archiveUpload.ts:242-341, site.tsx:152-162, chunk.go:204-238: a backup  *)
(* is staged of every upload the dialog calls completed; of none whose     *)
(* signal was aborted, or that the administrator cancelled, before its     *)
(* merge, unless an earlier upload's end had dropped its controller; and   *)
(* only the finalizer, which stages it, and a restart take an archive that *)
(* is being put together.                                                  *)
THEOREM UploadTellsTruth == UploadSpec => DialogTellsTruth
<1>1. UploadInv /\ HeardInv => CancelledIsNotApplied /\ CompletedIsStaged
  BY DEF UploadInv, UploadType, UploadSound, Unmerged, GivenUp, HeardInv, Heard, CancelledIsNotApplied,
         CompletedIsStaged
<1>2. UploadInv /\ [UploadNext]_uvars
        => [\A u \in Uploads : store[u] = "finalizing" /\ store'[u] = "none" =>
              (u \in staged' /\ ~lock /\ lock') \/ Restart]_uvars
  BY TakenByFinalizer
<1>3. QED
  BY <1>1, <1>2, UploadInitInv, UploadNextInv, HeardInitInv, HeardNextInv, PTL
     DEF UploadSpec, DialogTellsTruth, ArchiveStaysPut
=============================================================================
