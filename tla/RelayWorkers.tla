----------------------------- MODULE RelayWorkers -----------------------------
(***************************************************************************)
(* The worker life cycle of relay.Manager (internal/relay/manager.go): the *)
(* map m.workers of at most one handle per channel, the goroutine behind   *)
(* every handle (workerLoop for ingest, transmuxLoop for transmux), the    *)
(* locked operations StartWorker, StopWorker, StopAll and releaseWorker,   *)
(* and the channel row those goroutines write with SetWorkerStatus and     *)
(* SetSourceStatus.                                                        *)
(*                                                                         *)
(* The module is open: the callers of the manager and the other writers of *)
(* the row (HTTP handlers, operators, node reports) are actions that may   *)
(* happen at any time.  ControlPlane replaces them by the real handlers.   *)
(*                                                                         *)
(* One action is one critical section of m.mu, one database statement or   *)
(* one blocking call of a goroutine; between two of them every other       *)
(* goroutine may run.  Durations are abstracted: a timer or a fetch may    *)
(* end at any moment.  Any statement may fail: the goroutines discard its  *)
(* error, or log it, and go on.                                            *)
(*                                                                         *)
(* A definition commented "Mutant" changes the one that follows it the way *)
(* a plausible bug would; no specification uses it.                        *)
(***************************************************************************)
EXTENDS Naturals

CONSTANTS
  Channels,     \* channel ids; an id names one row for ever (uuid)
  Handles,      \* *workerHandle values; bounds the goroutines alive at once
  NoHandle,     \* nil: the map has no entry
  Configs,      \* what an operator can save in a row: mode, url, headers...
  NoConfig,     \* no snapshot
  NoChannel,    \* an idle handle belongs to no channel
  Mode          \* the mode column of a configuration

Modes == {"proxy", "ingest", "transmux"}
WorkerModes == {"ingest", "transmux"}

ASSUME RelayWorkersAssumption ==
  /\ NoHandle \notin Handles
  /\ NoConfig \notin Configs
  /\ NoChannel \notin Channels
  /\ Mode \in [Configs -> Modes]

VARIABLES
  workers,      \* m.workers
  pc,           \* where the goroutine of a handle is
  chan,         \* the channel a handle was claimed for
  cfg,          \* the row snapshot its goroutine works from
  booted,       \* handles whose parent is the signal context of main
  cancelled,    \* handles whose own cancel function was called
  rootDown,     \* the signal context of main is done
  status,       \* column status, with the row's life before and after
  workerStatus, \* column worker_status
  leftover      \* rows that a killed process or a failed last statement left
                \* as they were (history variable)

goroutines == <<pc, chan, cfg, booted, cancelled>>
row == <<status, workerStatus>>
vars == <<workers, goroutines, rootDown, row, leftover>>

RowStatus == {"active", "disabled", "source_error"}
NoRow == {"uncreated", "deleted"}
WorkerStatus == {"stopped", "running", "error"}

\* The goroutine states of workerLoop and of transmuxLoop, up to the deferred
\* releaseWorker, in the order the code reaches them.
IngestSteps == {"fetch", "fetched", "rewritten", "published", "failed", "flag", "wait"}
TransmuxSteps == {"mkdir", "top", "spawn", "spawned", "ffmpeg", "down", "exited", "backoff"}
Working == {"claimed", "begin"} \cup IngestSteps \cup TransmuxSteps
Owning == Working \cup {"release"}     \* has not yet run releaseWorker
Live == Owning \cup {"final"}
PCs == Live \cup {"idle"}

TypeOK ==
  /\ workers \in [Channels -> Handles \cup {NoHandle}]
  /\ pc \in [Handles -> PCs]
  /\ chan \in [Handles -> Channels \cup {NoChannel}]
  /\ cfg \in [Handles -> Configs \cup {NoConfig}]
  /\ booted \in SUBSET Handles
  /\ cancelled \in SUBSET Handles
  /\ rootDown \in BOOLEAN
  /\ status \in [Channels -> RowStatus \cup NoRow]
  /\ workerStatus \in [Channels -> WorkerStatus]
  /\ leftover \in SUBSET Channels

-----------------------------------------------------------------------------
(* Store.SetWorkerStatus and Store.SetSourceStatus: unconditional updates,   *)
(* which touch nothing once the row is gone.  The columns that no decision   *)
(* reads (last_error, last_source_status, the timestamps) are left out.      *)

Exists(c) == status[c] \in RowStatus

SetWorkerStatus(c, ws) ==
  /\ workerStatus' = IF Exists(c) THEN [workerStatus EXCEPT ![c] = ws] ELSE workerStatus
  /\ UNCHANGED status

\* Mutant: the value goes to the wrong column.
SetSourceStatusInWorkerColumn(c, failed) ==
  /\ workerStatus' = IF Exists(c)
                     THEN [workerStatus EXCEPT ![c] = IF failed THEN "source_error" ELSE "active"]
                     ELSE workerStatus
  /\ UNCHANGED status

SetSourceStatus(c, failed) ==
  /\ status' = IF Exists(c)
               THEN [status EXCEPT ![c] = IF failed THEN "source_error" ELSE "active"]
               ELSE status
  /\ UNCHANGED workerStatus

\* Mutant: the loops watch the parent's context instead of their own.
DoneByParentOnly(h) == h \in booted /\ rootDown

\* ctx.Done() of a worker: its own cancel was called, or its parent is done.
Done(h) == h \in cancelled \/ (h \in booted /\ rootDown)

-----------------------------------------------------------------------------
(* The manager's operations                                                  *)

\* Mutant: StartWorker that does not look whether an entry exists.
StartWorkerUnchecked(c, snapStatus, k, boot, h) ==
  /\ snapStatus = "active"
  /\ Mode[k] \in WorkerModes
  /\ pc[h] = "idle"
  /\ workers' = [workers EXCEPT ![c] = h]
  /\ pc' = [pc EXCEPT ![h] = "claimed"]
  /\ chan' = [chan EXCEPT ![h] = c]
  /\ cfg' = [cfg EXCEPT ![h] = k]
  /\ booted' = IF boot THEN booted \cup {h} ELSE booted
  /\ UNCHANGED <<cancelled, rootDown, row, leftover>>

\* StartWorker, up to m.mu.Unlock: channel is the caller's snapshot of the row.
StartWorker(c, snapStatus, k, boot, h) ==
  /\ snapStatus = "active"
  /\ Mode[k] \in WorkerModes
  /\ workers[c] = NoHandle
  /\ pc[h] = "idle"
  /\ workers' = [workers EXCEPT ![c] = h]
  /\ pc' = [pc EXCEPT ![h] = "claimed"]
  /\ chan' = [chan EXCEPT ![h] = c]
  /\ cfg' = [cfg EXCEPT ![h] = k]
  /\ booted' = IF boot THEN booted \cup {h} ELSE booted
  /\ UNCHANGED <<cancelled, rootDown, row, leftover>>

\* The calls of StartWorker that return without claiming anything.
StartIsNoop(c, snapStatus, k) ==
  snapStatus # "active" \/ Mode[k] \notin WorkerModes \/ workers[c] # NoHandle

\* Mutant: StopWorker that leaves the entry to the goroutine.
StopWorkerKeepingEntry(c) ==
  /\ workers[c] # NoHandle
  /\ cancelled' = cancelled \cup {workers[c]}
  /\ UNCHANGED <<workers, pc, chan, cfg, booted, rootDown, row, leftover>>

\* Mutant: StopWorker that forgets to call cancel.
StopWorkerWithoutCancel(c) ==
  /\ workers[c] # NoHandle
  /\ workers' = [workers EXCEPT ![c] = NoHandle]
  /\ UNCHANGED <<goroutines, rootDown, row, leftover>>

StopWorker(c) ==
  /\ workers[c] # NoHandle
  /\ cancelled' = cancelled \cup {workers[c]}
  /\ workers' = [workers EXCEPT ![c] = NoHandle]
  /\ UNCHANGED <<pc, chan, cfg, booted, rootDown, row, leftover>>

StopAll ==
  /\ \E c \in Channels : workers[c] # NoHandle
  /\ cancelled' = cancelled \cup {h \in Handles : \E c \in Channels : workers[c] = h}
  /\ workers' = [c \in Channels |-> NoHandle]
  /\ UNCHANGED <<pc, chan, cfg, booted, rootDown, row, leftover>>

-----------------------------------------------------------------------------
(* The goroutine of a handle                                                 *)

Goto(h, from, to) ==
  /\ pc[h] = from
  /\ pc' = [pc EXCEPT ![h] = to]
  /\ UNCHANGED <<workers, chan, cfg, booted, cancelled, rootDown, leftover>>

GotoQuietly(h, from, to) == Goto(h, from, to) /\ UNCHANGED row

\* The error of the statement is discarded: the goroutine goes on all the same.
GotoMarking(h, from, to, ws) ==
  /\ Goto(h, from, to)
  /\ SetWorkerStatus(chan[h], ws) \/ UNCHANGED row

GotoFlagging(h, from, to, failed) ==
  /\ Goto(h, from, to)
  /\ SetSourceStatus(chan[h], failed) \/ UNCHANGED row

\* StartWorker after the unlock: the status is written with the parent's context,
\* so the statement fails once the parent is done; then `go` starts the loop.
MarkRunning(h) ==
  IF h \in booted /\ rootDown
  THEN GotoQuietly(h, "claimed", "begin")
  ELSE GotoMarking(h, "claimed", "begin", "running")

Begin(h) ==
  GotoMarking(h, "begin", IF Mode[cfg[h]] = "transmux" THEN "mkdir" ELSE "fetch",
              "running")

\* runIngestCycle: the playlist is fetched with the worker's context...
FetchOk(h) == ~Done(h) /\ GotoQuietly(h, "fetch", "fetched")
FetchFail(h) == GotoQuietly(h, "fetch", "failed")

\* ...and so is the statement that records the success.
RecordSource(h) ==
  IF Done(h) THEN GotoQuietly(h, "fetched", "rewritten")
             ELSE GotoFlagging(h, "fetched", "rewritten", FALSE)

RewriteFail(h) == GotoQuietly(h, "rewritten", "failed")

PublishPlaylist(h) == GotoQuietly(h, "rewritten", "published")

\* Mutant: a good cycle does not write the status again.
MarkCycleOkSilently(h) == GotoQuietly(h, "published", "wait")

\* workerLoop, after the cycle: two statements on an error, one on success, all
\* with context.Background().
MarkCycleOk(h) == GotoMarking(h, "published", "wait", "running")
MarkCycleFailed(h) == GotoMarking(h, "failed", "flag", "error")
FlagSource(h) == GotoFlagging(h, "flag", "wait", TRUE)

\* The select that ends a round: at entry only ctx.Done() can be ready, so the
\* timer wins only while the context is alive.
Poll(h) == ~Done(h) /\ GotoQuietly(h, "wait", "fetch")
LeaveWait(h) == Done(h) /\ GotoQuietly(h, "wait", "release")

MkdirOk(h) == GotoQuietly(h, "mkdir", "top")
MkdirFail(h) == GotoMarking(h, "mkdir", "release", "error")
LeaveTop(h) == Done(h) /\ GotoQuietly(h, "top", "release")
PassTop(h) == ~Done(h) /\ GotoQuietly(h, "top", "spawn")
SpawnOk(h) == ~Done(h) /\ GotoQuietly(h, "spawn", "spawned")
MarkSpawned(h) == GotoMarking(h, "spawned", "ffmpeg", "running")
\* cmd.Start also fails when the context was cancelled since the test at the top.
SpawnFail(h) == GotoQuietly(h, "spawn", "down")
FfmpegExit(h) == ~Done(h) /\ GotoQuietly(h, "ffmpeg", "down")
FfmpegKilled(h) == Done(h) /\ GotoQuietly(h, "ffmpeg", "release")
MarkDown(h) == GotoMarking(h, "down", "exited", "error")
\* The failures have lasted longer than SOURCE_ERROR_AFTER_SECONDS.
AutoDisable(h) == GotoFlagging(h, "exited", "release", TRUE)
Backoff(h) == GotoQuietly(h, "exited", "backoff")
Retry(h) == ~Done(h) /\ GotoQuietly(h, "backoff", "top")
LeaveBackoff(h) == Done(h) /\ GotoQuietly(h, "backoff", "release")

\* Mutant: releaseWorker that does not compare handles.
ReleaseAnyWorker(h) ==
  /\ pc[h] = "release"
  /\ pc' = [pc EXCEPT ![h] = "final"]
  /\ workers' = [workers EXCEPT ![chan[h]] = NoHandle]
  /\ UNCHANGED <<chan, cfg, booted, cancelled, rootDown, row, leftover>>

\* The deferred function of both loops: releaseWorker, then the last statement.
ReleaseWorker(h) ==
  /\ pc[h] = "release"
  /\ pc' = [pc EXCEPT ![h] = "final"]
  /\ workers' = IF workers[chan[h]] = h
                THEN [workers EXCEPT ![chan[h]] = NoHandle]
                ELSE workers
  /\ UNCHANGED <<chan, cfg, booted, cancelled, rootDown, row, leftover>>

\* Mutant: the last statement uses the worker's own context, and so fails with it.
MarkStoppedWithOwnContext(h) ==
  /\ pc[h] = "final"
  /\ IF Done(h) THEN UNCHANGED row ELSE SetWorkerStatus(chan[h], "stopped")
  /\ leftover' = leftover \ {chan[h]}
  /\ pc' = [pc EXCEPT ![h] = "idle"]
  /\ chan' = [chan EXCEPT ![h] = NoChannel]
  /\ cfg' = [cfg EXCEPT ![h] = NoConfig]
  /\ booted' = booted \ {h}
  /\ cancelled' = cancelled \ {h}
  /\ UNCHANGED <<workers, rootDown>>

\* The error of the last statement is discarded too; the row stays as it was.
MarkStopped(h) ==
  /\ pc[h] = "final"
  /\ \/ SetWorkerStatus(chan[h], "stopped") /\ leftover' = leftover \ {chan[h]}
     \/ UNCHANGED row /\ leftover' = leftover \cup {chan[h]}
  /\ pc' = [pc EXCEPT ![h] = "idle"]
  /\ chan' = [chan EXCEPT ![h] = NoChannel]
  /\ cfg' = [cfg EXCEPT ![h] = NoConfig]
  /\ booted' = booted \ {h}
  /\ cancelled' = cancelled \ {h}
  /\ UNCHANGED <<workers, rootDown>>

-----------------------------------------------------------------------------
(* The rest of the program: other writers of the row, playback, the process  *)

\* POST, PATCH and DELETE on a channel; the id of a deleted row never returns.
CreateRow(c, st) ==
  /\ status[c] = "uncreated"
  /\ status' = [status EXCEPT ![c] = st]
  /\ UNCHANGED <<workers, goroutines, rootDown, workerStatus, leftover>>

UpdateRow(c, st) ==
  /\ Exists(c)
  /\ status' = [status EXCEPT ![c] = st]
  /\ UNCHANGED <<workers, goroutines, rootDown, workerStatus, leftover>>

DeleteRow(c) ==
  /\ Exists(c)
  /\ status' = [status EXCEPT ![c] = "deleted"]
  /\ UNCHANGED <<workers, goroutines, rootDown, workerStatus, leftover>>

\* The statement of POST /channels/{id}/worker/stop, after StopWorker.
HandlerMarksStopped(c) ==
  /\ SetWorkerStatus(c, "stopped")
  /\ UNCHANGED <<workers, goroutines, rootDown, leftover>>

\* ServePlaylist of a proxy-mode channel: flag the source.
PlaybackFlags(c, failed) ==
  /\ SetSourceStatus(c, failed)
  /\ UNCHANGED <<workers, goroutines, rootDown, leftover>>

\* SIGINT or SIGTERM ends the context of main, the parent of booted workers.
Signal ==
  /\ ~rootDown
  /\ rootDown' = TRUE
  /\ UNCHANGED <<workers, goroutines, row, leftover>>

\* The process ends, by a crash or because main returned without waiting for the
\* goroutines it cancelled, and a new one starts: only the rows survive.
Restart ==
  /\ workers' = [c \in Channels |-> NoHandle]
  /\ pc' = [h \in Handles |-> "idle"]
  /\ chan' = [h \in Handles |-> NoChannel]
  /\ cfg' = [h \in Handles |-> NoConfig]
  /\ booted' = {}
  /\ cancelled' = {}
  /\ rootDown' = FALSE
  /\ leftover' = leftover \cup {c \in Channels : \E h \in Handles : chan[h] = c}
  /\ UNCHANGED row

-----------------------------------------------------------------------------
Init ==
  /\ workers = [c \in Channels |-> NoHandle]
  /\ pc = [h \in Handles |-> "idle"]
  /\ chan = [h \in Handles |-> NoChannel]
  /\ cfg = [h \in Handles |-> NoConfig]
  /\ booted = {}
  /\ cancelled = {}
  /\ rootDown = FALSE
  /\ status \in [Channels -> {"uncreated", "active"}]
  /\ workerStatus = [c \in Channels |-> "stopped"]
  /\ leftover = {}

Launch(h) == MarkRunning(h) \/ Begin(h)

IngestStep(h) ==
  \/ FetchOk(h) \/ FetchFail(h) \/ RecordSource(h) \/ RewriteFail(h)
  \/ PublishPlaylist(h) \/ MarkCycleOk(h) \/ MarkCycleFailed(h) \/ FlagSource(h)
  \/ Poll(h) \/ LeaveWait(h)

TransmuxStep(h) ==
  \/ MkdirOk(h) \/ MkdirFail(h) \/ LeaveTop(h) \/ PassTop(h) \/ SpawnOk(h)
  \/ MarkSpawned(h) \/ SpawnFail(h) \/ MarkDown(h) \/ FfmpegKilled(h) \/ AutoDisable(h) \/ Backoff(h) \/ Retry(h) \/ LeaveBackoff(h)

Deferred(h) == ReleaseWorker(h) \/ MarkStopped(h)

\* What the goroutine of h does by itself; ffmpeg may instead run for ever.
GoroutineStep(h) == Launch(h) \/ IngestStep(h) \/ TransmuxStep(h) \/ Deferred(h)

ManagerCall ==
  \/ \E c \in Channels, k \in Configs, boot \in BOOLEAN, h \in Handles :
        StartWorker(c, "active", k, boot, h)
  \/ \E c \in Channels : StopWorker(c)
  \/ StopAll

RowWrite ==
  \/ \E c \in Channels, st \in RowStatus : CreateRow(c, st) \/ UpdateRow(c, st)
  \/ \E c \in Channels : DeleteRow(c) \/ HandlerMarksStopped(c)

Playback == \E c \in Channels, failed \in BOOLEAN : PlaybackFlags(c, failed)

Next ==
  \/ \E h \in Handles : GoroutineStep(h) \/ FfmpegExit(h)
  \/ ManagerCall
  \/ RowWrite
  \/ Playback
  \/ Signal
  \/ Restart

\* Go schedules every runnable goroutine; a fetch ends by the client's timeout,
\* a statement by the database's answer, a cancelled ffmpeg by SIGKILL.  Of the
\* statements that end the cycles of a worker, not every one fails for ever.
CycleIsRecorded(h) ==
  /\ MarkCycleOk(h) \/ MarkCycleFailed(h)
  /\ Exists(chan[h]) => workerStatus'[chan[h]] # "stopped"

Fairness ==
  \A h \in Handles : WF_vars(GoroutineStep(h)) /\ SF_vars(CycleIsRecorded(h))

Spec == Init /\ [][Next]_vars
FairSpec == Spec /\ Fairness

-----------------------------------------------------------------------------
(* Safety                                                                    *)

\* A worker is active while its goroutine works and nobody has cancelled it.
Active(h) == pc[h] \in Owning /\ h \notin cancelled

\* m.workers and the goroutines agree: an entry is an active worker of that very
\* channel, so WorkerRunning never reports a worker that has gone...
EntryIsActive ==
  \A c \in Channels :
    workers[c] # NoHandle => Active(workers[c]) /\ chan[workers[c]] = c

\* ...and an active worker has an entry, so StopWorker can always reach it.
ActiveHasEntry ==
  \A h \in Handles : Active(h) => chan[h] \in Channels /\ workers[chan[h]] = h

\* PRD 10.2.3, "Tidak memulai worker duplikat untuk channel yang sama": two active
\* workers of one channel never exist, whatever restarts and late exits interleave.
AtMostOneActive ==
  \A g, h \in Handles : Active(g) /\ Active(h) /\ chan[g] = chan[h] => g = h

\* Every goroutine's last statement is SetWorkerStatus("stopped"), whatever ended it:
\* a channel that no goroutine serves has a row that says so, unless the process was
\* killed under its goroutine, or the last statement itself failed (its error is
\* discarded, manager.go:430 and 906) and none has succeeded since.
IdleMeansStopped ==
  \A c \in Channels \ leftover :
    Exists(c) /\ (\A h \in Handles : chan[h] # c) => workerStatus[c] = "stopped"

\* releaseWorker (manager.go:169): the entry of a channel goes away only when the
\* worker it names was cancelled, is itself returning, or died with the process;
\* and a step never replaces one worker by another.
EntryLeavesWithItsWorker ==
  [][\A c \in Channels :
       workers[c] # NoHandle /\ workers'[c] # workers[c] =>
         /\ workers'[c] = NoHandle
         /\ pc'[workers[c]] \in {"final", "idle"} \/ workers[c] \in cancelled']_vars

-----------------------------------------------------------------------------
(* Liveness                                                                  *)

\* StopWorker only cancels; the goroutine it cancels always comes to its end.
CancelledWorkerEnds ==
  \A h \in Handles : h \in cancelled ~> pc[h] = "idle"

\* PRD 10.2.4, "Menampilkan status worker di dashboard (running/stopped/error)":
\* a channel that keeps its ingest worker for ever is not shown as stopped for ever
\* (while the database takes a cycle's statement again and again).
RunningIsShown ==
  \A c \in Channels :
    (<>[](Exists(c) /\ workers[c] # NoHandle /\ Mode[cfg[workers[c]]] = "ingest"))
      => []<>(workerStatus[c] # "stopped")

-----------------------------------------------------------------------------
(* The manager implements a lock per channel.                                *)

\* The active worker of c, found without looking at m.workers.
Owner(c) ==
  IF \E h \in Handles : Active(h) /\ chan[h] = c
  THEN CHOOSE h \in Handles : Active(h) /\ chan[h] = c
  ELSE NoHandle

Slot == INSTANCE WorkerSlot
          WITH Workers <- Handles, None <- NoHandle, owner <- [c \in Channels |-> Owner(c)]

\* What WorkerSlot promises holds of the goroutines that really are at work.
ImplementsSlot == Slot!Spec

=============================================================================
