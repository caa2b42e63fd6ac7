------------------------------ MODULE NodeReports ------------------------------
(***************************************************************************)
(* How what a node's workers do reaches the control plane: memStore of     *)
(* internal/nodeagent/memstore.go, which the workers write instead of the  *)
(* database, flushReports and shutdown of agent.go, and handleNodeReport   *)
(* of httpapi/nodes.go.  A post may be lost before, during or after the    *)
(* handler's statements, the agent may give up on one that is still being  *)
(* handled, and the node is interrupted or killed at any step.             *)
(*                                                                         *)
(* When workers start and stop is the agent's business (NodeSync): here    *)
(* they may at any time.  They are ingest workers (workerLoop), one write  *)
(* to memStore per step.  memStore ignores contexts.                       *)
(*                                                                         *)
(* A definition commented "Mutant" changes the one that follows it the way *)
(* a plausible bug would; no specification uses it.                        *)
(***************************************************************************)
EXTENDS Naturals

CONSTANTS
  Channels,     \* channel ids
  Handles,      \* worker goroutines alive at once on the node
  NoHandle,     \* no entry in m.workers
  NoChannel,    \* an idle handle belongs to no channel
  MaxFailures   \* bound: how often the cycles of a channel fail

ASSUME NodeReportsAssumption ==
  /\ NoHandle \notin Handles
  /\ NoChannel \notin Channels
  /\ MaxFailures \in Nat

VARIABLES
  workers,      \* m.workers of the node
  pc,           \* where the goroutine of a handle is
  chan,         \* the channel of a handle
  cancelled,    \* handles whose cancel function was called
  statuses,     \* memStore.statuses
  metrics,      \* memStore.metrics: worker_errors per channel
  agent,        \* where the agent's goroutine is
  ctxDone,      \* the signal context of the node is done
  postStatuses, \* what a handler of POST /node/report has still to write: statuses
  postMetrics,  \* ...and metrics
  status,       \* the rows of the control plane: column status
  workerStatus, \* column worker_status
  errors,       \* channel_metrics.worker_errors
  failures      \* cycles of a channel that failed, ever (history variable)

goroutines == <<workers, pc, chan, cancelled>>
memStore == <<statuses, metrics>>
post == <<postStatuses, postMetrics>>
rows == <<status, workerStatus, errors>>
node == <<agent, ctxDone>>
vars == <<goroutines, memStore, node, post, rows, failures>>

AgentSteps == {"idle", "posting", "stopped", "lastPost", "exiting"}
WorkerSteps == {"idle", "fetch", "fetched", "failed", "flagged", "wait", "final"}
WorkerStatus == {"running", "error", "stopped"}

\* A statusReport: none, or the last worker status ("" if none since the last drain),
\* whether LastError is set, and the last source status, if any.
Report == [ws : WorkerStatus \cup {""}, err : BOOLEAN, src : {"none", "ok", "failed"}]
NoReport == [ws |-> "", err |-> FALSE, src |-> "none"]
NoReports == [c \in Channels |-> NoReport]
NoMetrics == [c \in Channels |-> 0]

ReportsTypeOK ==
  /\ workers \in [Channels -> Handles \cup {NoHandle}]
  /\ pc \in [Handles -> WorkerSteps]
  /\ chan \in [Handles -> Channels \cup {NoChannel}]
  /\ cancelled \in SUBSET Handles
  /\ statuses \in [Channels -> Report]
  /\ metrics \in [Channels -> Nat]
  /\ agent \in AgentSteps
  /\ ctxDone \in BOOLEAN
  /\ postStatuses \in [Channels -> Report]
  /\ postMetrics \in [Channels -> Nat]
  /\ status \in [Channels -> {"active", "source_error"}]
  /\ workerStatus \in [Channels -> WorkerStatus]
  /\ errors \in [Channels -> Nat]
  /\ failures \in [Channels -> Nat]

-----------------------------------------------------------------------------
(* memStore                                                                  *)

SetWorkerStatus(c, ws, failed) ==
  /\ statuses' = [statuses EXCEPT ![c] = [ws |-> ws, err |-> failed, src |-> statuses[c].src]]
  /\ UNCHANGED metrics

\* A good fetch (errMessage nil) leaves an earlier LastError as it is.
SetSourceStatus(c, src) ==
  /\ statuses' = [statuses EXCEPT ![c] =
       [ws |-> statuses[c].ws, err |-> src = "failed" \/ statuses[c].err, src |-> src]]
  /\ UNCHANGED metrics

IncrementMetric(c) ==
  /\ metrics' = [metrics EXCEPT ![c] = @ + 1]
  /\ UNCHANGED statuses

-----------------------------------------------------------------------------
(* The workers                                                               *)

Done(h) == h \in cancelled \/ ctxDone

\* StartWorker marks the worker as running, and workerLoop does so again.
StartWorker(c, h) ==
  /\ agent = "idle"
  /\ workers[c] = NoHandle
  /\ pc[h] = "idle"
  /\ workers' = [workers EXCEPT ![c] = h]
  /\ pc' = [pc EXCEPT ![h] = "fetch"]
  /\ chan' = [chan EXCEPT ![h] = c]
  /\ SetWorkerStatus(c, "running", FALSE)
  /\ UNCHANGED <<cancelled, node, post, rows, failures>>

StopWorker(c) ==
  /\ agent = "idle"
  /\ workers[c] # NoHandle
  /\ cancelled' = cancelled \cup {workers[c]}
  /\ workers' = [workers EXCEPT ![c] = NoHandle]
  /\ UNCHANGED <<pc, chan, memStore, node, post, rows, failures>>

Goto(h, from, to) ==
  /\ pc[h] = from
  /\ pc' = [pc EXCEPT ![h] = to]
  /\ UNCHANGED <<chan, cancelled, node, post, rows>>

\* The fetch may have ended just before the context did.
FetchOk(h) ==
  /\ Goto(h, "fetch", "fetched")
  /\ SetSourceStatus(chan[h], "ok")
  /\ UNCHANGED <<workers, failures>>

\* Mutant: a good cycle does not write the worker status.
MarkCycleOkSilently(h) ==
  /\ Goto(h, "fetched", "wait")
  /\ UNCHANGED <<workers, memStore, failures>>

MarkCycleOk(h) ==
  /\ Goto(h, "fetched", "wait")
  /\ SetWorkerStatus(chan[h], "running", FALSE)
  /\ UNCHANGED <<workers, failures>>

\* The fetch failed, or RewritePlaylist did after it.
MarkCycleFailed(h) ==
  /\ Goto(h, "fetch", "failed") \/ Goto(h, "fetched", "failed")
  /\ failures[chan[h]] < MaxFailures
  /\ SetWorkerStatus(chan[h], "error", TRUE)
  /\ failures' = [failures EXCEPT ![chan[h]] = @ + 1]
  /\ UNCHANGED workers

FlagSource(h) ==
  /\ Goto(h, "failed", "flagged")
  /\ SetSourceStatus(chan[h], "failed")
  /\ UNCHANGED <<workers, failures>>

CountError(h) ==
  /\ Goto(h, "flagged", "wait")
  /\ IncrementMetric(chan[h])
  /\ UNCHANGED <<workers, failures>>

Poll(h) ==
  /\ ~Done(h)
  /\ Goto(h, "wait", "fetch")
  /\ UNCHANGED <<workers, memStore, failures>>

\* The loop returns: releaseWorker removes the entry only if it names this handle.
ReleaseWorker(h) ==
  /\ Done(h)
  /\ Goto(h, "wait", "final")
  /\ workers' = [c \in Channels |-> IF workers[c] = h THEN NoHandle ELSE workers[c]]
  /\ UNCHANGED <<memStore, failures>>

MarkStopped(h) ==
  /\ pc[h] = "final"
  /\ SetWorkerStatus(chan[h], "stopped", FALSE)
  /\ pc' = [pc EXCEPT ![h] = "idle"]
  /\ chan' = [chan EXCEPT ![h] = NoChannel]
  /\ cancelled' = cancelled \ {h}
  /\ UNCHANGED <<workers, node, post, rows, failures>>

WorkerStep(h) ==
  \/ FetchOk(h) \/ MarkCycleOk(h) \/ MarkCycleFailed(h) \/ FlagSource(h)
  \/ CountError(h) \/ Poll(h) \/ ReleaseWorker(h) \/ MarkStopped(h)

-----------------------------------------------------------------------------
(* flushReports and handleNodeReport                                         *)

Nothing == statuses = NoReports /\ metrics = NoMetrics

\* Mutant: the reports are read but not cleared.
FlushKeeping(from, to, unsent) ==
  /\ agent = from
  /\ post = <<NoReports, NoMetrics>>
  /\ agent' = IF Nothing THEN unsent ELSE to
  /\ postStatuses' = statuses
  /\ postMetrics' = metrics
  /\ UNCHANGED <<goroutines, memStore, ctxDone, rows, failures>>

\* DrainReports, under memStore's lock, then the POST.  Bound: the control plane
\* handles one post of this node at a time.
Flush(from, to, unsent) ==
  /\ agent = from
  /\ post = <<NoReports, NoMetrics>>
  /\ agent' = IF Nothing THEN unsent ELSE to
  /\ postStatuses' = statuses
  /\ postMetrics' = metrics
  /\ statuses' = NoReports
  /\ metrics' = NoMetrics
  /\ UNCHANGED <<goroutines, ctxDone, rows, failures>>

FlushReports == ~ctxDone /\ Flush("idle", "posting", "idle")

\* Mutant: the handler does not look whether a worker status came along.
WriteWorkerStatusAlways(c) ==
  /\ postStatuses[c] # NoReport
  /\ workerStatus' = [workerStatus EXCEPT ![c] = postStatuses[c].ws]
  /\ postStatuses' = [postStatuses EXCEPT ![c] =
       [ws |-> "", err |-> postStatuses[c].err, src |-> postStatuses[c].src]]
  /\ UNCHANGED <<goroutines, memStore, node, postMetrics, status, errors, failures>>

\* The handler: per channel the worker status, if one came along...
WriteWorkerStatus(c) ==
  /\ postStatuses[c].ws # ""
  /\ workerStatus' = [workerStatus EXCEPT ![c] = postStatuses[c].ws]
  /\ postStatuses' = [postStatuses EXCEPT ![c] =
       IF postStatuses[c].src = "none"
       THEN NoReport
       ELSE [ws |-> "", err |-> postStatuses[c].err, src |-> postStatuses[c].src]]
  /\ UNCHANGED <<goroutines, memStore, node, postMetrics, status, errors, failures>>

\* ...then the source status, an error if a LastError came along...
WriteSourceStatus(c) ==
  /\ postStatuses[c].ws = "" /\ postStatuses[c].src # "none"
  /\ status' = [status EXCEPT ![c] = IF postStatuses[c].err THEN "source_error" ELSE "active"]
  /\ postStatuses' = [postStatuses EXCEPT ![c] = NoReport]
  /\ UNCHANGED <<goroutines, memStore, node, postMetrics, workerStatus, errors, failures>>

\* ...and when all statuses are written, the metrics.
WriteMetric(c) ==
  /\ postStatuses = NoReports
  /\ postMetrics[c] # 0
  /\ errors' = [errors EXCEPT ![c] = @ + postMetrics[c]]
  /\ postMetrics' = [postMetrics EXCEPT ![c] = 0]
  /\ UNCHANGED <<goroutines, memStore, node, postStatuses, status, workerStatus, failures>>

HandlerWrites(c) == WriteWorkerStatus(c) \/ WriteSourceStatus(c) \/ WriteMetric(c)

\* The request is lost, or the statements fail, which the handler does not notice.
PostLost ==
  /\ post # <<NoReports, NoMetrics>>
  /\ postStatuses' = NoReports
  /\ postMetrics' = NoMetrics
  /\ UNCHANGED <<goroutines, memStore, node, rows, failures>>

AfterPost == IF agent = "posting" THEN "idle" ELSE "exiting"

\* The answer, an error or the timeout: the agent goes on, and does not look back.
PostReturns ==
  /\ agent \in {"posting", "lastPost"}
  /\ agent' = AfterPost
  /\ UNCHANGED <<goroutines, memStore, ctxDone, post, rows, failures>>

-----------------------------------------------------------------------------
(* Shutdown, crash and boot of the node                                      *)

Interrupt ==
  /\ ~ctxDone
  /\ ctxDone' = TRUE
  /\ UNCHANGED <<goroutines, memStore, agent, post, rows, failures>>

\* shutdown: StopAll, which waits for nobody, then the last flush.
Shutdown ==
  /\ agent = "idle" /\ ctxDone
  /\ agent' = "stopped"
  /\ cancelled' = cancelled \cup {h \in Handles : \E c \in Channels : workers[c] = h}
  /\ workers' = [c \in Channels |-> NoHandle]
  /\ UNCHANGED <<pc, chan, memStore, ctxDone, post, rows, failures>>

LastFlush == Flush("stopped", "lastPost", "exiting")

\* A new process; a post that is under way is not called back.
Boot ==
  /\ agent' = "idle"
  /\ ctxDone' = FALSE
  /\ workers' = [c \in Channels |-> NoHandle]
  /\ pc' = [h \in Handles |-> "idle"]
  /\ chan' = [h \in Handles |-> NoChannel]
  /\ cancelled' = {}
  /\ statuses' = NoReports
  /\ metrics' = NoMetrics
  /\ UNCHANGED <<post, rows, failures>>

Exit == agent = "exiting" /\ Boot
Crash == Boot

-----------------------------------------------------------------------------
ReportsInit ==
  /\ workers = [c \in Channels |-> NoHandle]
  /\ pc = [h \in Handles |-> "idle"]
  /\ chan = [h \in Handles |-> NoChannel]
  /\ cancelled = {}
  /\ statuses = NoReports /\ metrics = NoMetrics
  /\ agent = "idle"
  /\ ctxDone = FALSE
  /\ postStatuses = NoReports /\ postMetrics = NoMetrics
  /\ status = [c \in Channels |-> "active"]
  /\ workerStatus = [c \in Channels |-> "stopped"]
  /\ errors = NoMetrics
  /\ failures = NoMetrics

Stopping == Shutdown \/ LastFlush \/ Exit

ReportsNext ==
  \/ \E c \in Channels : StopWorker(c) \/ \E h \in Handles : StartWorker(c, h)
  \/ \E h \in Handles : WorkerStep(h)
  \/ FlushReports
  \/ \E c \in Channels : HandlerWrites(c)
  \/ PostLost \/ PostReturns
  \/ Interrupt \/ Stopping \/ Crash

\* Go schedules the workers; the report ticker never stops, and posts that are tried
\* for ever arrive for ever (SF on the handler's first statement).
ReportsFairness ==
  /\ \A h \in Handles : WF_vars(WorkerStep(h))
  /\ SF_vars(FlushReports)
  /\ WF_vars(PostReturns \/ Stopping)
  /\ \A c \in Channels : SF_vars(WriteWorkerStatus(c)) /\ WF_vars(HandlerWrites(c))

ReportsSpec == ReportsInit /\ [][ReportsNext]_vars
ReportsFairSpec == ReportsSpec /\ ReportsFairness

-----------------------------------------------------------------------------
(* Properties                                                                *)

\* README, metrics are "di-buffer di node lalu di-flush": a failure is counted at most
\* once, on the node, on the way or in the database, although posts are lost, time out
\* while they are handled, and processes die.
CountedAtMostOnce ==
  \A c \in Channels : metrics[c] + postMetrics[c] + errors[c] <= failures[c]

\* README, "sehingga dashboard tetap menampilkan kondisi real-time": a worker that
\* keeps running is not shown as stopped for ever, whatever reports were lost and
\* whenever the 'stopped' of the one before it arrived.
RunningIsReported ==
  \A c \in Channels : <>[](workers[c] # NoHandle) => []<>(workerStatus[c] # "stopped")

================================================================================
