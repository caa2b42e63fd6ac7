------------------------------- MODULE NodeSync -------------------------------
(***************************************************************************)
(* Which workers a remote node runs (internal/nodeagent/agent.go and the   *)
(* channel maps of memstore.go; handleNodeConfig of httpapi/nodes.go).     *)
(* The agent is one goroutine: it polls the channels assigned to its node, *)
(* compares them with those it knows, and starts and stops workers.  The   *)
(* rows change under its feet, polls are lost or answered wrongly, the     *)
(* node is interrupted or killed at any step, and its own row may be       *)
(* deleted while it runs.                                                  *)
(*                                                                         *)
(* The node's relay.Manager appears as what RelayWorkersProofs shows of it *)
(* (WorkerSlot): one slot per channel.  What workers report is NodeReports.*)
(*                                                                         *)
(* A definition commented "Mutant" changes the one that follows it the way *)
(* a plausible bug would; no specification uses it.                        *)
(***************************************************************************)
EXTENDS Naturals

CONSTANTS
  Channels,     \* channel ids
  Configs,      \* what an operator can save in a row
  NoConfig,     \* the channel is not in the map
  Mode,         \* the mode column of a configuration
  Here,         \* configurations whose node_id is this node
  Unbound,      \* a configuration with its node_id set to null
  MaxRestarts   \* bound: how often the node is interrupted or killed

Modes == {"proxy", "ingest", "transmux"}
WorkerModes == {"ingest", "transmux"}

ASSUME NodeSyncAssumption ==
  /\ NoConfig \notin Configs
  /\ Mode \in [Configs -> Modes]
  /\ Here \subseteq Configs
  /\ Unbound \in [Configs -> Configs \ Here]
  /\ \A k \in Configs : Mode[Unbound[k]] = Mode[k]
  /\ MaxRestarts \in Nat

VARIABLES
  status,       \* the rows of the control plane: column status, or "deleted"
  config,       \* their configuration columns
  deleted,      \* the row of the node itself is gone
  agent,        \* where the agent's goroutine is
  answer,       \* the channels of the answer it got to GET /node/config
  known,        \* memStore.byID
  toStop,       \* channels it has still to stop, from the last Replace
  toStart,      \* channels it has still to start
  ctxDone,      \* the signal context of the node is done
  running,      \* m.workers: the snapshot the worker of a channel works from
  restarts      \* counts to MaxRestarts

rows == <<status, config, deleted>>
work == <<toStop, toStart>>
vars == <<rows, agent, answer, known, work, ctxDone, running, restarts>>

SavedStatus == {"active", "disabled"}
RowStatus == SavedStatus \cup {"source_error"}
AgentSteps == {"idle", "asked", "answered", "applying", "stopped"}

\* A map from channel ids to channels, as memStore.byID.
ChannelMap == [Channels -> Configs \cup {NoConfig}]
Nothing == [c \in Channels |-> NoConfig]

NodeTypeOK ==
  /\ status \in [Channels -> RowStatus \cup {"deleted"}]
  /\ config \in [Channels -> Configs]
  /\ deleted \in BOOLEAN
  /\ agent \in AgentSteps
  /\ answer \in ChannelMap
  /\ known \in ChannelMap
  /\ toStop \in SUBSET Channels
  /\ toStart \in SUBSET Channels
  /\ ctxDone \in BOOLEAN
  /\ running \in ChannelMap
  /\ restarts \in 0..MaxRestarts

Exists(c) == status[c] \in RowStatus
Runs(c) == running[c] # NoConfig

-----------------------------------------------------------------------------
(* Other writers of the rows                                                 *)

\* A node_id must be that of a row of nodes.
Patch(c, st, k) ==
  /\ Exists(c)
  /\ k \in Here => ~deleted
  /\ status' = [status EXCEPT ![c] = st]
  /\ config' = [config EXCEPT ![c] = k]
  /\ UNCHANGED <<deleted, agent, answer, known, work, ctxDone, running, restarts>>

Delete(c) ==
  /\ Exists(c)
  /\ status' = [status EXCEPT ![c] = "deleted"]
  /\ UNCHANGED <<config, deleted, agent, answer, known, work, ctxDone, running, restarts>>

\* Mutant: the worker status of a report goes to the wrong column.
FlagWithWorkerStatus(c, st) ==
  /\ Exists(c)
  /\ status' = [status EXCEPT ![c] = IF st = "active" THEN "running" ELSE "error"]
  /\ UNCHANGED <<config, deleted, agent, answer, known, work, ctxDone, running, restarts>>

\* A report of this node, late or not, or a worker elsewhere flags the source.
Flag(c, st) ==
  /\ Exists(c)
  /\ status' = [status EXCEPT ![c] = st]
  /\ UNCHANGED <<config, deleted, agent, answer, known, work, ctxDone, running, restarts>>

\* DeleteNode, or the deletion of its owner: with the row goes the node_id of its
\* channels (on delete set null).  The process of the node is not told.
DeleteNode ==
  /\ ~deleted
  /\ deleted' = TRUE
  /\ config' = [c \in Channels |-> IF config[c] \in Here THEN Unbound[config[c]] ELSE config[c]]
  /\ UNCHANGED <<status, agent, answer, known, work, ctxDone, running, restarts>>

-----------------------------------------------------------------------------
(* syncConfig: GET /node/config, Replace, StopWorker and StartWorker         *)

\* ListChannelsForNode.
Assigned(c) == status[c] = "active" /\ config[c] \in Here

AskConfig ==
  /\ agent = "idle" /\ ~ctxDone
  /\ agent' = "asked"
  /\ UNCHANGED <<rows, answer, known, work, ctxDone, running, restarts>>

\* authenticateNode finds the node by the id in its key: without a row, 401.
AnswerConfig(channels) ==
  /\ agent = "asked" /\ ~deleted
  /\ agent' = "answered"
  /\ answer' = channels
  /\ UNCHANGED <<rows, known, work, ctxDone, running, restarts>>

AnswerAssigned ==
  AnswerConfig([c \in Channels |-> IF Assigned(c) THEN config[c] ELSE NoConfig])

\* The query fails: the answer is still 200, without channels.
AnswerWithoutChannels == AnswerConfig(Nothing)

\* No answer, not 200 (as every answer to a deleted node), not readable, or, on the
\* first one, no port to listen on.  What the node runs it goes on running.  The GET
\* changes nothing, so a lost answer is a lost request.
SyncFails ==
  /\ agent = "asked"
  /\ agent' = "idle"
  /\ UNCHANGED <<rows, answer, known, work, ctxDone, running, restarts>>

\* Mutant: a channel missing from the answer stays in the map.
ReplaceKeepingRemoved ==
  /\ agent = "answered"
  /\ agent' = "applying"
  /\ known' = [c \in Channels |-> IF answer[c] # NoConfig THEN answer[c] ELSE known[c]]
  /\ toStop' = {}
  /\ toStart' = {c \in Channels : known[c] = NoConfig /\ answer[c] # NoConfig}
  /\ answer' = Nothing
  /\ UNCHANGED <<rows, ctxDone, running, restarts>>

\* memStore.Replace: added and removed compare ids only.
Replace ==
  /\ agent = "answered"
  /\ agent' = "applying"
  /\ known' = answer
  /\ toStop' = {c \in Channels : known[c] # NoConfig /\ answer[c] = NoConfig}
  /\ toStart' = {c \in Channels : known[c] = NoConfig /\ answer[c] # NoConfig}
  /\ answer' = Nothing
  /\ UNCHANGED <<rows, ctxDone, running, restarts>>

\* Mutant: a removed channel is only purged.
PurgeRemoved(c) ==
  /\ agent = "applying" /\ c \in toStop
  /\ toStop' = toStop \ {c}
  /\ UNCHANGED <<rows, agent, answer, known, toStart, ctxDone, running, restarts>>

\* StopWorker for a removed channel.
StopRemoved(c) ==
  /\ agent = "applying" /\ c \in toStop
  /\ toStop' = toStop \ {c}
  /\ running' = [running EXCEPT ![c] = NoConfig]
  /\ UNCHANGED <<rows, agent, answer, known, toStart, ctxDone, restarts>>

\* StartWorker for an added channel of a worker mode; the answer held active rows only.
StartAdded(c) ==
  /\ agent = "applying" /\ toStop = {} /\ c \in toStart
  /\ toStart' = toStart \ {c}
  /\ running' = IF Mode[known[c]] \in WorkerModes /\ ~Runs(c)
                THEN [running EXCEPT ![c] = known[c]]
                ELSE running
  /\ UNCHANGED <<rows, agent, answer, known, toStop, ctxDone, restarts>>

Synced ==
  /\ agent = "applying" /\ toStop = {} /\ toStart = {}
  /\ agent' = "idle"
  /\ UNCHANGED <<rows, answer, known, work, ctxDone, running, restarts>>

-----------------------------------------------------------------------------
(* Workers that return, and the life of the node's process                   *)

\* Every loop returns once its parent, the agent's context, is done; transmuxLoop
\* also when it has no directory or ffmpeg has failed for too long.
WorkerReturns(c) ==
  /\ Runs(c)
  /\ ctxDone \/ Mode[running[c]] = "transmux"
  /\ running' = [running EXCEPT ![c] = NoConfig]
  /\ UNCHANGED <<rows, agent, answer, known, work, ctxDone, restarts>>

Interrupt ==
  /\ ~ctxDone /\ restarts < MaxRestarts
  /\ ctxDone' = TRUE
  /\ restarts' = restarts + 1
  /\ UNCHANGED <<rows, agent, answer, known, work, running>>

\* shutdown: StopAll; what follows (Shutdown of the server, a last report) ends.
Shutdown ==
  /\ agent = "idle" /\ ctxDone
  /\ agent' = "stopped"
  /\ running' = Nothing
  /\ UNCHANGED <<rows, answer, known, work, ctxDone, restarts>>

\* Mutant: the new process starts what the old one knew.
BootWithKnown ==
  /\ agent' = "idle"
  /\ ctxDone' = FALSE
  /\ answer' = Nothing /\ toStop' = {} /\ toStart' = {}
  /\ running' = Nothing
  /\ UNCHANGED <<rows, known>>

\* A new process: everything the node kept in memory is gone.
Boot ==
  /\ agent' = "idle"
  /\ ctxDone' = FALSE
  /\ answer' = Nothing /\ known' = Nothing /\ toStop' = {} /\ toStart' = {}
  /\ running' = Nothing
  /\ UNCHANGED rows

Exit == agent = "stopped" /\ Boot /\ UNCHANGED restarts
Crash == restarts < MaxRestarts /\ restarts' = restarts + 1 /\ Boot

-----------------------------------------------------------------------------
NodeInit ==
  /\ status \in [Channels -> RowStatus]
  /\ config \in [Channels -> Configs]
  /\ deleted = FALSE
  /\ agent = "idle"
  /\ answer = Nothing /\ known = Nothing /\ toStop = {} /\ toStart = {}
  /\ ctxDone = FALSE
  /\ running = Nothing
  /\ restarts = 0

RowWrite ==
  \/ DeleteNode
  \/ \E c \in Channels :
       \/ \E st \in SavedStatus, k \in Configs : Patch(c, st, k)
       \/ Delete(c)
       \/ \E st \in {"active", "source_error"} : Flag(c, st)

Sync ==
  \/ AskConfig \/ AnswerAssigned \/ AnswerWithoutChannels \/ SyncFails \/ Replace \/ Synced
  \/ \E c \in Channels : StopRemoved(c) \/ StartAdded(c)

NodeNext ==
  \/ RowWrite
  \/ Sync
  \/ \E c \in Channels : WorkerReturns(c)
  \/ Interrupt \/ Shutdown \/ Exit \/ Crash

\* The poll ticker never stops and every request ends (the client has a timeout of
\* 20 s); polls of a node that has a row get through again and again, with a database
\* that answers (nothing is assumed of those of a deleted node, which never do); the
\* agent goes on applying what it got.
NodeFairness ==
  /\ WF_vars(Sync)
  /\ SF_vars(AnswerAssigned)
  /\ WF_vars(Shutdown) /\ WF_vars(Exit)

NodeSpec == NodeInit /\ [][NodeNext]_vars
NodeFairSpec == NodeSpec /\ NodeFairness

-----------------------------------------------------------------------------
(* Properties                                                                *)

\* PRD 10.6.6, "node agent hanya menjalankan channel miliknya": between two syncs the
\* node runs workers only for channels it knows, however lost and empty answers,
\* interrupts and crashes fell between the steps of the one before.
OnlyKnownRuns == agent = "idle" => \A c \in Channels : Runs(c) => known[c] # NoConfig

\* README, "Channel hilang dari assignment -> StopWorker + purge cache lokal": a
\* channel that stays away from a node is in the end not run there, although a poll
\* answered just before may start it just after.  A node whose own row is deleted is
\* excepted: it is refused every poll and runs on with the channels it last knew.
UnassignedEnds ==
  \A c \in Channels : <>[](~Assigned(c) /\ ~deleted) => <>[]~Runs(c)

\* README, "Channel baru -> node otomatis StartWorker": a channel that is an ingest
\* channel all along and stays assigned runs again after any lost poll, answer without
\* channels, interrupt or crash.
AssignedRuns ==
  \A c \in Channels :
    ([](Mode[config[c]] = "ingest") /\ <>[]Assigned(c)) => []<>Runs(c)

\* PRD 10.2.2, "Menghentikan worker saat channel ... mode diganti": a node that knows
\* a channel as a proxy channel runs no worker for it between two syncs.
StopsOnModeChange ==
  agent = "idle" => \A c \in Channels : Runs(c) => Mode[known[c]] # "proxy"

=============================================================================
