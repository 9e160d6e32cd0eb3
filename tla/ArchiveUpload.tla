----------------------------- MODULE ArchiveUpload -----------------------------
(***************************************************************************)
(* Restoring a backup: the dialog of the site settings page, or of the     *)
(* installer, the upload that sends the archive in chunks, and the store   *)
(* on the panel that puts them together and stages the result for the next *)
(* start.                                                                  *)
(*                                                                         *)
(* An upload outlives its dialog: cancelled, it still tells the panel, and *)
(* only then does its page hear of it, when the dialog may be showing the  *)
(* next one.  A request that was given up may still reach the panel.       *)
(***************************************************************************)
EXTENDS Integers, FiniteSets

CONSTANTS
  None,
  Chunks,      \* chunks of an archive
  MaxTries,    \* maxChunkAttempts
  MaxSessions, \* MaxSessionsPerOwner
  MaxUploads, MaxLost, MaxRestarts \* bounds: files chosen, requests or answers
               \* lost, restarts of the panel

ASSUME UploadAssumption ==
  /\ Chunks \in Nat \ {0} /\ MaxTries \in Nat \ {0} /\ MaxSessions \in Nat
  /\ None \notin Nat \cup {"init", "chunk", "wait", "pause"}
  /\ MaxUploads \in Nat /\ MaxLost \in Nat /\ MaxRestarts \in Nat

Uploads == 1..MaxUploads
Parts   == 0..Chunks - 1

VARIABLES
  page,                   \* which of the two pages
  shown, controller, open, \* restoreState, restoreController, restoreOpen
  at, req, part, try,     \* each upload: its step, its request, its chunk
  known, aborted,         \* upload_id received; the step at which its signal
                          \* was aborted
  asked,                  \* history: uploads the administrator cancelled
                          \* before they asked for the merge
  orphaned,               \* history: uploads whose controller was dropped at
                          \* the end of an earlier one (site.tsx:152)
  strays,                 \* requests given up that may still arrive
  store, have, staged, lock, \* the panel: sessions, chunks, archives staged,
                          \* the restore lock
  lost, restarts

dialog == <<page, shown, controller, open>>
client == <<at, req, part, try, known, aborted>>
history == <<asked, orphaned>>
panel  == <<store, have, staged, lock>>
uvars  == <<dialog, client, history, strays, panel, lost, restarts>>

Started(u) == at[u] \notin {"new", "done"}
Active     == shown # None /\ shown # "failed"   \* isUploadStageActive
CanCancel  == shown \in {"preparing", "uploading"}

Request(u, k) == [up |-> u, kind |-> k, part |-> part[u]]

(* Steps before the merge, and the upload the dialog is about.             *)
Unmerging == {"init", "chunk", "wait", "pause"}
Newest(u) == at[u] # "new" /\ \A v \in Uploads : v > u => at[v] = "new"

(* The controller is a ref that every upload clears at its end, whoever    *)
(* put it there.                                                           *)
DropController(u) ==
  /\ controller' = None
  /\ orphaned' = orphaned \cup ({controller} \ {None, u})

(* What of an upload's current request is still on its way.                *)
OnItsWay(u) == IF req[u] = "sent" /\ store[u] # "finalizing" THEN {Request(u, at[u])} ELSE {}

-----------------------------------------------------------------------------
(* The dialog.                                                             *)

Open ==
  /\ ~open /\ open' = TRUE
  /\ UNCHANGED <<page, shown, controller, client, history, strays, panel, lost, restarts>>

Close ==
  /\ open /\ ~Active /\ open' = FALSE /\ shown' = None
  /\ UNCHANGED <<page, controller, client, history, strays, panel, lost, restarts>>

(* Choosing a file starts its upload.                                      *)
Select(u) ==
  /\ open /\ ~Active
  /\ at[u] = "new" /\ \A v \in Uploads : v < u => at[v] # "new"
  /\ shown' = "preparing" /\ controller' = u
  /\ at' = [at EXCEPT ![u] = "init"] /\ req' = [req EXCEPT ![u] = "sent"]
  /\ UNCHANGED <<page, open, part, try, known, aborted, history, strays, panel, lost, restarts>>

(* The page hears of an upload that ended badly: the site page keeps what  *)
(* is shown after a failure, the installer does not.                       *)
CaughtAlways(failed) == shown' = shown

Caught(failed) == shown' = IF failed /\ page = "site" THEN shown ELSE None

(* cancelRestore aborts the upload the page has the controller of, if any; *)
(* one that is waiting out the last progress notices later.                *)
Cancel ==
  /\ open /\ CanCancel /\ open' = FALSE /\ shown' = None
  /\ asked' = asked \cup {u \in Uploads : Newest(u) /\ at[u] \in Unmerging}
  /\ LET u == controller IN
     IF u = None \/ (u # None /\ at[u] \in {"cancel", "shown", "closing"})
     THEN UNCHANGED <<controller, at, req, aborted, strays>>
     ELSE /\ aborted' = [aborted EXCEPT ![u] = at[u]]
          /\ strays' = strays \cup OnItsWay(u)
          /\ \/ /\ at[u] = "init" /\ controller' = None
                /\ at' = [at EXCEPT ![u] = "done"] /\ req' = [req EXCEPT ![u] = "none"]
             \/ /\ at[u] \in {"chunk", "wait", "merge"} /\ UNCHANGED controller
                /\ at' = [at EXCEPT ![u] = "cancel"] /\ req' = [req EXCEPT ![u] = "sent"]
             \/ at[u] = "pause" /\ UNCHANGED <<at, req, controller>>
  /\ UNCHANGED <<page, part, try, known, orphaned, panel, lost, restarts>>

-----------------------------------------------------------------------------
(* The panel.  It answers, or only changes, as the request is still        *)
(* awaited or not.                                                         *)

Sessions == {u \in Uploads : store[u] # "none"}

Withdrawn(u) ==
  /\ store[u] # "finalizing"
  /\ store' = [store EXCEPT ![u] = "none"] /\ have' = [have EXCEPT ![u] = {}]

Stored(u, k, p) ==
  CASE k = "init" ->
         /\ Cardinality(Sessions) < MaxSessions
         /\ store' = [store EXCEPT ![u] = "open"] /\ UNCHANGED have
    [] k = "chunk" ->
         /\ store[u] = "open"
         /\ have' = [have EXCEPT ![u] = @ \cup {p}] /\ UNCHANGED store
    [] k = "merge" ->
         /\ store[u] = "open" /\ have[u] = Parts
         /\ store' = [store EXCEPT ![u] = "finalizing"] /\ UNCHANGED have
    [] k = "cancel" -> Withdrawn(u)

Refused(u, k) ==
  CASE k = "init"   -> Cardinality(Sessions) >= MaxSessions
    [] k = "chunk"  -> store[u] # "open"
    [] k = "merge"  -> store[u] # "open" \/ have[u] # Parts
    [] k = "cancel" -> store[u] = "finalizing"

Serve(u) ==
  /\ req[u] = "sent" /\ ~(at[u] = "merge" /\ store[u] = "finalizing")
  /\ \/ /\ Stored(u, at[u], part[u])
        /\ req' = IF at[u] = "merge" THEN req ELSE [req EXCEPT ![u] = "ok"]
     \/ /\ Refused(u, at[u])
        /\ req' = [req EXCEPT ![u] = "refused"] /\ UNCHANGED <<store, have>>
  /\ UNCHANGED <<dialog, at, part, try, known, aborted, history, strays, staged, lock, lost, restarts>>

ServeStray(r) ==
  /\ strays' = strays \ {r}
  /\ \/ Stored(r.up, r.kind, r.part)
     \/ Refused(r.up, r.kind) /\ UNCHANGED <<store, have>>
  /\ UNCHANGED <<dialog, client, history, staged, lock, lost, restarts>>

(* The finalizer stages the archive and keeps the restore lock until the   *)
(* panel restarts; or it fails, and the session is back.                   *)
Finalize(u) ==
  /\ store[u] = "finalizing"
  /\ \/ /\ ~lock /\ lock' = TRUE /\ staged' = staged \cup {u}
        /\ store' = [store EXCEPT ![u] = "none"] /\ have' = [have EXCEPT ![u] = {}]
        /\ req' = [req EXCEPT ![u] = IF at[u] = "merge" /\ @ = "sent" THEN "ok" ELSE @]
     \/ /\ store' = [store EXCEPT ![u] = "open"]
        /\ req' = [req EXCEPT ![u] = IF at[u] = "merge" /\ @ = "sent" THEN "refused" ELSE @]
        /\ UNCHANGED <<have, staged, lock>>
  /\ UNCHANGED <<dialog, at, part, try, known, aborted, history, strays, lost, restarts>>

(* A day without a request; the sessions of a browser that went on do not  *)
(* wait that long.                                                         *)
Expire(u) ==
  /\ store[u] = "open" /\ at[u] = "done"
  /\ store' = [store EXCEPT ![u] = "none"] /\ have' = [have EXCEPT ![u] = {}]
  /\ UNCHANGED <<dialog, client, history, strays, staged, lock, lost, restarts>>

(* Interrupted sessions are removed at the start.                          *)
Restart ==
  /\ lock \/ restarts < MaxRestarts
  /\ restarts' = IF lock THEN restarts ELSE restarts + 1
  /\ store' = [u \in Uploads |-> "none"] /\ have' = [u \in Uploads |-> {}] /\ lock' = FALSE
  /\ req' = [u \in Uploads |-> IF at[u] = "merge" /\ store[u] = "finalizing" /\ req[u] = "sent"
                                 THEN "lost" ELSE req[u]]
  /\ UNCHANGED <<dialog, at, part, try, known, aborted, history, strays, staged, lost>>

Lose(u) ==
  /\ req[u] \in {"sent", "ok", "refused"} /\ lost < MaxLost /\ lost' = lost + 1
  /\ req' = [req EXCEPT ![u] = "lost"] /\ strays' = strays \cup OnItsWay(u)
  /\ UNCHANGED <<dialog, at, part, try, known, aborted, history, panel, restarts>>

-----------------------------------------------------------------------------
(* uploadArchive.                                                          *)

(* Its catch: the failure is shown and the panel told, if there is a       *)
(* session to tell it of.                                                  *)
Fails(u) ==
  /\ at' = [at EXCEPT ![u] = IF known[u] THEN "cancel" ELSE "done"]
  /\ req' = [req EXCEPT ![u] = IF known[u] THEN "sent" ELSE "none"]
  /\ shown' = IF known[u] \/ page = "site" THEN "failed" ELSE None
  /\ IF known[u] THEN UNCHANGED <<controller, orphaned>> ELSE DropController(u)

Initialized(u) ==
  /\ at[u] = "init"
  /\ \/ /\ req[u] = "ok" /\ known' = [known EXCEPT ![u] = TRUE]
        /\ at' = [at EXCEPT ![u] = "chunk"] /\ req' = [req EXCEPT ![u] = "sent"]
        /\ shown' = "uploading" /\ UNCHANGED <<controller, orphaned>>
     \/ req[u] \in {"refused", "lost"} /\ Fails(u) /\ UNCHANGED known
  /\ UNCHANGED <<page, open, part, try, aborted, asked, strays, panel, lost, restarts>>

Progress(u) ==
  /\ at[u] = "chunk" /\ req[u] = "sent" /\ shown' = "uploading"
  /\ UNCHANGED <<page, controller, open, client, history, strays, panel, lost, restarts>>

(* The next chunk, a last look at the full bar, or the same chunk again    *)
(* after a pause; a refusal is final.                                      *)
ChunkSettles(u) ==
  /\ at[u] = "chunk"
  /\ \/ /\ req[u] = "ok" /\ shown' = "uploading" /\ try' = [try EXCEPT ![u] = 1]
        /\ \/ /\ part[u] + 1 < Chunks /\ part' = [part EXCEPT ![u] = @ + 1]
              /\ req' = [req EXCEPT ![u] = "sent"] /\ UNCHANGED at
           \/ /\ part[u] + 1 = Chunks /\ UNCHANGED part
              /\ at' = [at EXCEPT ![u] = "pause"] /\ req' = [req EXCEPT ![u] = "none"]
        /\ UNCHANGED <<controller, orphaned>>
     \/ /\ req[u] = "lost" /\ try[u] < MaxTries
        /\ at' = [at EXCEPT ![u] = "wait"] /\ req' = [req EXCEPT ![u] = "none"]
        /\ UNCHANGED <<shown, controller, orphaned, part, try>>
     \/ /\ req[u] = "refused" \/ (req[u] = "lost" /\ try[u] >= MaxTries)
        /\ Fails(u) /\ UNCHANGED <<part, try>>
  /\ UNCHANGED <<page, open, known, aborted, asked, strays, panel, lost, restarts>>

Retry(u) ==
  /\ at[u] = "wait" /\ try' = [try EXCEPT ![u] = @ + 1]
  /\ at' = [at EXCEPT ![u] = "chunk"] /\ req' = [req EXCEPT ![u] = "sent"]
  /\ UNCHANGED <<dialog, part, known, aborted, history, strays, panel, lost, restarts>>

MergeUnasked(u) ==
  /\ at[u] = "pause" /\ shown' = "processing"
  /\ at' = [at EXCEPT ![u] = "merge"]
  /\ req' = [req EXCEPT ![u] = "sent"]
  /\ UNCHANGED <<page, controller, open, part, try, known, aborted, history, strays, panel, lost, restarts>>

(* Aborted meanwhile, the merge is announced but not asked for.            *)
PauseEnds(u) ==
  /\ at[u] = "pause" /\ shown' = "processing"
  /\ at' = [at EXCEPT ![u] = IF aborted[u] # None THEN "cancel" ELSE "merge"]
  /\ req' = [req EXCEPT ![u] = "sent"]
  /\ UNCHANGED <<page, controller, open, part, try, known, aborted, history, strays, panel, lost, restarts>>

MergeSettles(u) ==
  /\ at[u] = "merge"
  /\ \/ /\ req[u] = "ok" /\ shown' = "completed"
        /\ at' = [at EXCEPT ![u] = "shown"] /\ req' = [req EXCEPT ![u] = "none"]
        /\ IF page = "install" THEN DropController(u) ELSE UNCHANGED <<controller, orphaned>>
     \/ req[u] \in {"refused", "lost"} /\ Fails(u)
  /\ UNCHANGED <<page, open, part, try, known, aborted, asked, strays, panel, lost, restarts>>

(* cancelUpload, whatever becomes of it.                                   *)
Cancelled(u) ==
  /\ at[u] = "cancel" /\ req[u] # "sent"
  /\ at' = [at EXCEPT ![u] = "done"] /\ req' = [req EXCEPT ![u] = "none"]
  /\ Caught(aborted[u] = None) /\ DropController(u)
  /\ UNCHANGED <<page, open, part, try, known, aborted, asked, strays, panel, lost, restarts>>

(* After a success the site page closes the dialog and then forgets; the   *)
(* installer leaves for the panel, and every request of it is given up.    *)
Dismiss(u) ==
  /\ at[u] = "shown" /\ page = "site"
  /\ at' = [at EXCEPT ![u] = "closing"] /\ open' = FALSE
  /\ UNCHANGED <<page, shown, controller, req, part, try, known, aborted, history, strays,
                 panel, lost, restarts>>

Forget(u) ==
  /\ at[u] = "closing"
  /\ at' = [at EXCEPT ![u] = "done"] /\ shown' = None /\ DropController(u)
  /\ UNCHANGED <<page, open, req, part, try, known, aborted, asked, strays, panel, lost, restarts>>

Leave(u) ==
  /\ at[u] = "shown" /\ page = "install" /\ page' = "site"
  /\ at' = [v \in Uploads |-> IF Started(v) THEN "done" ELSE at[v]]
  /\ req' = [v \in Uploads |-> "none"]
  /\ strays' = strays \cup UNION {OnItsWay(v) : v \in Uploads}
  /\ shown' = None /\ DropController(u) /\ open' = FALSE
  /\ UNCHANGED <<part, try, known, aborted, asked, panel, lost, restarts>>

UploadInit ==
  /\ page \in {"site", "install"} /\ shown = None /\ controller = None /\ open = FALSE
  /\ at = [u \in Uploads |-> "new"] /\ req = [u \in Uploads |-> "none"]
  /\ part = [u \in Uploads |-> 0] /\ try = [u \in Uploads |-> 1]
  /\ known = [u \in Uploads |-> FALSE] /\ aborted = [u \in Uploads |-> None]
  /\ asked = {} /\ orphaned = {}
  /\ strays = {} /\ store = [u \in Uploads |-> "none"] /\ have = [u \in Uploads |-> {}]
  /\ staged = {} /\ lock = FALSE /\ lost = 0 /\ restarts = 0

Continues(u) ==
  \/ Initialized(u) \/ ChunkSettles(u) \/ Retry(u) \/ PauseEnds(u) \/ MergeSettles(u)
  \/ Cancelled(u) \/ Dismiss(u) \/ Forget(u) \/ Leave(u)

UploadNext ==
  \/ Open \/ Close \/ Cancel \/ Restart
  \/ \E u \in Uploads : \/ Select(u) \/ Serve(u) \/ Finalize(u) \/ Expire(u) \/ Lose(u)
                        \/ Progress(u) \/ Continues(u)
  \/ \E r \in strays : ServeStray(r)

(* Requests are served or lost, answers and timers handled.                *)
UploadFairness ==
  \A u \in Uploads : WF_uvars(Serve(u)) /\ WF_uvars(Finalize(u)) /\ WF_uvars(Continues(u))

UploadSpec == UploadInit /\ [][UploadNext]_uvars /\ UploadFairness

-----------------------------------------------------------------------------

(* Of no upload that was cancelled before it asked for the merge a backup  *)
(* is staged, even when the last chunk was shown as sent: neither of one   *)
(* whose signal was aborted, nor of one whose cancel found no controller,  *)
(* unless an earlier upload's end had dropped that controller              *)
(* (archiveUpload.ts:242-341; site.tsx:152-162).                           *)
CancelledIsNotApplied ==
  \A u \in staged : aborted[u] \in {None, "merge"} /\ (u \in asked => u \in orphaned)

(* A backup is staged of every upload the dialog calls completed.          *)
CompletedIsStaged == \A u \in Uploads : at[u] \in {"shown", "closing"} => u \in staged

(* What is being finalized stays where it is: no cancel of a browser that  *)
(* gave up on the answer and no expiry takes the archive from under the    *)
(* finalizer (chunk.go:204-238), only a restart of the panel does.         *)
ArchiveStaysPut ==
  [][\A u \in Uploads : store[u] = "finalizing" /\ store'[u] = "none" =>
       (u \in staged' /\ ~lock /\ lock') \/ Restart]_uvars

(* Cancelled, completed or under way: what the dialog says holds.          *)
DialogTellsTruth == [](CancelledIsNotApplied /\ CompletedIsStaged) /\ ArchiveStaysPut

(* The dialog does not stay busy with an upload that is over.              *)
DialogReleases == Active ~> ~Active
=============================================================================
