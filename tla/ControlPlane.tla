----------------------------- MODULE ControlPlane -----------------------------
(***************************************************************************)
(* The control-plane process: RelayWorkers with the callers it really has. *)
(* Concurrent HTTP handlers (channels, channelByID and handleChannelRecord *)
(* of internal/httpapi/server.go, ServePlaylist of relay/manager.go) run   *)
(* one statement or one locked section at a time and act on snapshots they *)
(* read earlier; main (cmd/api/main.go) boots the workers of the active    *)
(* rows, serves, and shuts down.                                           *)
(*                                                                         *)
(* A configuration stands for the columns an operator saves together;      *)
(* Pinned are those with a node_id.  A channel keeps its slug, so the maps *)
(* keyed by slug are indexed by channel.                                   *)
(***************************************************************************)
EXTENDS RelayWorkers

CONSTANTS
  Requests,       \* requests in flight at once
  Operations,     \* the operations clients send
  SavedStatus,    \* the statuses operators save
  Pinned,         \* configurations with a node_id
  MayDisconnect   \* whether a client may go away in the middle of a request

AllOperations == {"create", "patch", "delete", "start", "stop", "purge", "play"}

ASSUME ControlPlaneAssumption ==
  /\ Operations \subseteq AllOperations
  /\ SavedStatus \subseteq RowStatus
  /\ Pinned \subseteq Configs
  /\ MayDisconnect \in BOOLEAN

VARIABLES
  config,     \* the configuration columns of a row
  playlists,  \* m.playlists: the configuration the body was fetched with
  phase,      \* where main is
  todo,       \* channels StartActiveWorkers has still to start
  req,        \* the requests in flight
  unanswered  \* history: channels whose last PATCH committed without an answer

outside == <<config, playlists, phase, todo, unanswered, req>>
allVars == <<vars, outside>>

\* "warned": the query of StartActiveWorkers failed, and main has only logged it.
Phases == {"booting", "warned", "serving", "signalled", "draining"}
Steps == {"none", "begin", "halt", "launch", "purge", "erase", "mark", "pull", "store"}

\* A request: what it does, the step it takes next, and the row as it last read it.
Request(op, at, c, st, k) == [op |-> op, at |-> at, chan |-> c, st |-> st, cfg |-> k]
NoRequest == Request("none", "none", NoChannel, "none", NoConfig)

ControlTypeOK ==
  /\ config \in [Channels -> Configs]
  /\ playlists \in [Channels -> Configs \cup {NoConfig}]
  /\ phase \in Phases
  /\ todo \in SUBSET Channels
  /\ req \in [Requests ->
       [op : AllOperations \cup {"none"}, at : Steps, chan : Channels \cup {NoChannel},
        st : RowStatus \cup {"none"}, cfg : Configs \cup {NoConfig}]]

-----------------------------------------------------------------------------
(* Handlers: how a request moves                                             *)

AtStep(r, op, at) == req[r].op = op /\ req[r].at = at

Continue(r, at) == req' = [req EXCEPT ![r].at = at]

\* Mutant: two columns of the row are scanned in the wrong order.
ContinueWithSwapped(r, at, st, k) ==
  req' = [req EXCEPT ![r] = Request(req[r].op, at, req[r].chan, k, st)]

\* The handler keeps what the database returned: GetChannel, UpdateChannel...
ContinueWith(r, at, st, k) ==
  req' = [req EXCEPT ![r] = Request(req[r].op, at, req[r].chan, st, k)]

Respond(r) == req' = [req EXCEPT ![r] = NoRequest]

NoWorkerChange == UNCHANGED vars

Submit(r, op, c) ==
  /\ phase \in {"serving", "signalled"}
  /\ req[r] = NoRequest
  /\ req' = [req EXCEPT ![r] = Request(op, "begin", c, "none", NoConfig)]
  /\ NoWorkerChange
  /\ UNCHANGED <<config, playlists, phase, todo, unanswered>>

\* GetChannel at the start of a handler: a missing row answers 404; DELETE, stop and
\* purge use nothing of the row but its slug.
FindRow(r, op, at) ==
  /\ AtStep(r, op, "begin")
  /\ IF Exists(req[r].chan) THEN Continue(r, at) ELSE Respond(r)
  /\ NoWorkerChange
  /\ UNCHANGED <<config, playlists, phase, todo, unanswered>>

\* worker/start keeps the row for StartWorker.
ReadRow(r) ==
  /\ AtStep(r, "start", "begin")
  /\ LET c == req[r].chan
     IN  IF Exists(c) THEN ContinueWith(r, "launch", status[c], config[c]) ELSE Respond(r)
  /\ NoWorkerChange
  /\ UNCHANGED <<config, playlists, phase, todo, unanswered>>

\* The test POST and PATCH make before they call StartWorker.
RunsHere(st, k) == k \notin Pinned /\ Mode[k] \in WorkerModes /\ st = "active"

-----------------------------------------------------------------------------
(* POST, PATCH and DELETE                                                    *)

CreateChannel(r, st, k) ==
  /\ AtStep(r, "create", "begin")
  /\ LET c == req[r].chan
     IN  IF status[c] = "uncreated"
         THEN /\ CreateRow(c, st)
              /\ config' = [config EXCEPT ![c] = k]
              /\ IF RunsHere(st, k) THEN ContinueWith(r, "launch", st, k) ELSE Respond(r)
         ELSE NoWorkerChange /\ Respond(r) /\ UNCHANGED config
  /\ UNCHANGED <<playlists, phase, todo, unanswered>>

UpdateChannel(r, st, k) ==
  /\ AtStep(r, "patch", "begin")
  /\ LET c == req[r].chan
     IN  IF Exists(c)
         THEN /\ UpdateRow(c, st)
              /\ unanswered' = unanswered \ {c}
              /\ config' = [config EXCEPT ![c] = k]
              /\ ContinueWith(r, "halt", st, k)
         ELSE NoWorkerChange /\ Respond(r) /\ UNCHANGED <<config, unanswered>>
  /\ UNCHANGED <<playlists, phase, todo>>

\* What a handler does after its call of StopWorker.
AfterHalt(r) ==
  CASE req[r].op = "patch" /\ RunsHere(req[r].st, req[r].cfg) -> Continue(r, "launch")
    [] req[r].op \in {"delete", "stop"} -> Continue(r, "purge")
    [] OTHER -> Respond(r)

\* Mutant: the handlers do not call StopWorker.
HandlerSkipsStop(r) ==
  /\ req[r].at = "halt"
  /\ NoWorkerChange
  /\ AfterHalt(r)
  /\ UNCHANGED <<config, playlists, phase, todo, unanswered>>

\* Mutant: PATCH stops the worker only when it starts another.
HandlerStopsToRestart(r) ==
  /\ req[r].at = "halt"
  /\ IF /\ workers[req[r].chan] # NoHandle
        /\ req[r].op = "patch" => RunsHere(req[r].st, req[r].cfg)
     THEN StopWorker(req[r].chan)
     ELSE NoWorkerChange
  /\ AfterHalt(r)
  /\ UNCHANGED <<config, playlists, phase, todo, unanswered>>

HandlerStops(r) ==
  /\ req[r].at = "halt"
  /\ IF workers[req[r].chan] # NoHandle THEN StopWorker(req[r].chan) ELSE NoWorkerChange
  /\ AfterHalt(r)
  /\ UNCHANGED <<config, playlists, phase, todo, unanswered>>

\* StartWorker(s.rootCtx, channel): rootCtx is never done.
HandlerStarts(r) ==
  /\ req[r].at = "launch"
  /\ LET c == req[r].chan
         st == req[r].st
         k == req[r].cfg
     IN  \/ \E h \in Handles : StartWorker(c, st, k, FALSE, h)
         \/ StartIsNoop(c, st, k) /\ NoWorkerChange
  /\ Respond(r)
  /\ UNCHANGED <<config, playlists, phase, todo, unanswered>>

\* PurgeChannel: the in-memory playlist goes; files and R2 objects are elsewhere.
PurgeChannel(r) ==
  /\ req[r].at = "purge"
  /\ playlists' = [playlists EXCEPT ![req[r].chan] = NoConfig]
  /\ CASE req[r].op = "delete" -> Continue(r, "erase")
       [] req[r].op = "stop" -> Continue(r, "mark")
       [] OTHER -> Respond(r)
  /\ NoWorkerChange
  /\ UNCHANGED <<config, phase, todo, unanswered>>

DeleteChannel(r) ==
  /\ req[r].at = "erase"
  /\ IF Exists(req[r].chan) THEN DeleteRow(req[r].chan) ELSE NoWorkerChange
  /\ Respond(r)
  /\ UNCHANGED <<config, playlists, phase, todo, unanswered>>

\* POST worker/stop ends with a statement of its own.
MarkRowStopped(r) ==
  /\ req[r].at = "mark"
  /\ HandlerMarksStopped(req[r].chan)
  /\ Respond(r)
  /\ UNCHANGED <<config, playlists, phase, todo, unanswered>>

-----------------------------------------------------------------------------
(* GET /proxy/{slug}/index.m3u8 of a proxy-mode channel, and lost clients    *)

\* ServePlaylist: refused when disabled; a body that has not expired is served.
\* The proxy path stores bodies for playlist_ttl_seconds, ingest for 24 hours.
MayHaveExpired(c) == playlists[c] # NoConfig => Mode[playlists[c]] # "ingest"

LookUpPlaylist(r) ==
  /\ AtStep(r, "play", "begin")
  /\ LET c == req[r].chan
     IN  IF /\ Exists(c)
            /\ status[c] \in {"active", "source_error"}
            /\ Mode[config[c]] = "proxy"
         THEN \/ playlists[c] # NoConfig /\ Respond(r)
              \/ MayHaveExpired(c) /\ ContinueWith(r, "pull", "none", config[c])
         ELSE Respond(r)
  /\ NoWorkerChange
  /\ UNCHANGED <<config, playlists, phase, todo, unanswered>>

PullFails(r) ==
  /\ req[r].at = "pull"
  /\ PlaybackFlags(req[r].chan, TRUE)
  /\ Respond(r)
  /\ UNCHANGED <<config, playlists, phase, todo, unanswered>>

PullSucceeds(r) ==
  /\ req[r].at = "pull"
  /\ PlaybackFlags(req[r].chan, FALSE)
  /\ Continue(r, "store")
  /\ UNCHANGED <<config, playlists, phase, todo, unanswered>>

\* The client has gone between the fetch and the statement: only the flag is lost.
PullUnrecorded(r) ==
  /\ MayDisconnect
  /\ req[r].at = "pull"
  /\ Continue(r, "store")
  /\ NoWorkerChange
  /\ UNCHANGED <<config, playlists, phase, todo, unanswered>>

\* RewritePlaylist refuses the body.
PullUnreadable(r) ==
  /\ req[r].at = "store"
  /\ Respond(r)
  /\ NoWorkerChange
  /\ UNCHANGED <<config, playlists, phase, todo, unanswered>>

StorePlaylist(r) ==
  /\ req[r].at = "store"
  /\ playlists' = [playlists EXCEPT ![req[r].chan] = req[r].cfg]
  /\ Respond(r)
  /\ NoWorkerChange
  /\ UNCHANGED <<config, phase, todo, unanswered>>

\* The client goes away: the statements that use r.Context() fail, the calls into
\* the manager still happen.
Disconnect(r) ==
  /\ MayDisconnect
  /\ req[r].at \in {"begin", "pull", "mark", "erase"}
  /\ Respond(r)
  /\ NoWorkerChange
  /\ UNCHANGED <<config, playlists, phase, todo, unanswered>>

\* The UPDATE of a PATCH commits, but the client is gone before the answer: the
\* handler sees an error and returns without touching the worker.
UpdateWithoutAnswer(r, st, k) ==
  /\ MayDisconnect
  /\ AtStep(r, "patch", "begin")
  /\ Exists(req[r].chan)
  /\ UpdateRow(req[r].chan, st)
  /\ config' = [config EXCEPT ![req[r].chan] = k]
  /\ unanswered' = unanswered \cup {req[r].chan}
  /\ Respond(r)
  /\ UNCHANGED <<playlists, phase, todo>>

HandlerStep(r) ==
  \/ \E st \in SavedStatus, k \in Configs :
        CreateChannel(r, st, k) \/ UpdateChannel(r, st, k) \/ UpdateWithoutAnswer(r, st, k)
  \/ FindRow(r, "delete", "halt") \/ FindRow(r, "stop", "halt")
  \/ FindRow(r, "purge", "purge") \/ ReadRow(r)
  \/ HandlerStops(r) \/ HandlerStarts(r) \/ PurgeChannel(r) \/ DeleteChannel(r)
  \/ MarkRowStopped(r)
  \/ LookUpPlaylist(r) \/ PullFails(r) \/ PullSucceeds(r) \/ PullUnrecorded(r)
  \/ PullUnreadable(r) \/ StorePlaylist(r)
  \/ Disconnect(r)

-----------------------------------------------------------------------------
(* Workers and main                                                          *)

\* A goroutine step; the one that ends a cycle well stores the playlist.
WorkerStep(h) ==
  /\ GoroutineStep(h) \/ FfmpegExit(h)
  /\ playlists' = IF pc[h] = "rewritten" /\ pc'[h] = "published"
                  THEN [playlists EXCEPT ![chan[h]] = cfg[h]]
                  ELSE playlists
  /\ UNCHANGED <<config, phase, todo, unanswered, req>>

\* Mutant: only what was running when the last process ended.
ActiveRunningChannels ==
  {c \in Channels : RunsHere(status[c], config[c]) /\ workerStatus[c] = "running"}

\* ActiveWorkerChannels: active rows of a worker mode that are not pinned.
ActiveWorkerChannels == {c \in Channels : RunsHere(status[c], config[c])}

\* The query of StartActiveWorkers, which may fail.
QueryFailed == phase' = "warned" /\ todo' = {}
QueryAnswered == phase' = "booting" /\ todo' = ActiveWorkerChannels

\* StartWorker returns after its statement: the boot runs one call at a time.
PreviousStartReturned == \A h \in booted : pc[h] # "claimed"

\* StartActiveWorkers, one StartWorker after the other, before anything is served.
BootStarts(c) ==
  /\ phase = "booting" /\ PreviousStartReturned
  /\ c \in todo
  /\ \E h \in Handles : StartWorker(c, "active", config[c], TRUE, h)
  /\ todo' = todo \ {c}
  /\ UNCHANGED <<config, playlists, phase, unanswered, req>>

\* main listens after the boot, also after one that started nothing (main.go:55-57).
Listen ==
  /\ phase \in {"booting", "warned"} /\ PreviousStartReturned
  /\ todo = {}
  /\ phase' = "serving"
  /\ NoWorkerChange
  /\ UNCHANGED <<config, playlists, todo, unanswered, req>>

\* SIGTERM, also during the boot, whose loop goes on with the cancelled context.
Terminate ==
  /\ phase \in {"booting", "warned", "serving"}
  /\ Signal
  /\ phase' = IF phase = "serving" THEN "signalled" ELSE phase
  /\ UNCHANGED <<config, playlists, todo, unanswered, req>>

\* main, on <-ctx.Done(): StopAll, then server.Shutdown takes no new request.
ShutDown ==
  /\ rootDown /\ phase \in {"serving", "signalled"}
  /\ IF \E c \in Channels : workers[c] # NoHandle THEN StopAll ELSE NoWorkerChange
  /\ phase' = "draining"
  /\ UNCHANGED <<config, playlists, todo, unanswered, req>>

\* The process dies anywhere, or main returns; the next one reads the rows, or fails to.
Reboot ==
  /\ Restart
  /\ playlists' = [c \in Channels |-> NoConfig]
  /\ QueryAnswered \/ QueryFailed
  /\ req' = [r \in Requests |-> NoRequest]
  /\ unanswered' = {}
  /\ UNCHANGED config

-----------------------------------------------------------------------------
ControlInit ==
  /\ Init
  /\ config \in [Channels -> Configs]
  /\ playlists = [c \in Channels |-> NoConfig]
  /\ \/ phase = "booting" /\ todo = ActiveWorkerChannels
     \/ phase = "warned" /\ todo = {}
  /\ req = [r \in Requests |-> NoRequest]
  /\ unanswered = {}

ControlNext ==
  \/ \E h \in Handles : WorkerStep(h)
  \/ \E r \in Requests, op \in Operations, c \in Channels : Submit(r, op, c)
  \/ \E r \in Requests : HandlerStep(r)
  \/ \E c \in Channels : BootStarts(c)
  \/ Listen
  \/ Terminate
  \/ ShutDown
  \/ Reboot

\* As in RelayWorkers; besides, net/http runs every handler to its end and main
\* goes on booting.
ControlFairness ==
  /\ \A h \in Handles : WF_allVars(WorkerStep(h) /\ GoroutineStep(h))
  /\ \A r \in Requests : WF_allVars(HandlerStep(r))
  /\ \A c \in Channels : WF_allVars(BootStarts(c))
  /\ WF_allVars(Listen)

ControlSpec == ControlInit /\ [][ControlNext]_allVars
ControlFairSpec == ControlSpec /\ ControlFairness

-----------------------------------------------------------------------------
(* Properties                                                                *)

\* Nothing is on its way: no handler runs, and every goroutine owns its entry.
Quiescent ==
  /\ phase = "serving"
  /\ \A r \in Requests : req[r] = NoRequest
  /\ \A h \in Handles : pc[h] # "idle" => Active(h)

\* PRD 10.2.2, "Menghentikan worker saat channel dinonaktifkan, dihapus, atau mode
\* diganti": once nothing is on its way, a worker that runs has a row that is
\* neither deleted nor disabled.  A PATCH that committed for a client that had gone
\* (unanswered) is the exception: its handler never gets to StopWorker.
NoWorkerForDeadRow ==
  Quiescent => \A c \in Channels \ unanswered :
    workers[c] # NoHandle => status[c] \in {"active", "source_error"}

\* ...and works from the configuration the row has now, not from an earlier one.
WorkerRunsRowConfig ==
  Quiescent => \A c \in Channels \ unanswered :
    workers[c] # NoHandle => cfg[workers[c]] = config[c]

\* PRD 10.1.4, "Mengaktifkan atau menonaktifkan channel": a channel the operator has
\* disabled becomes active by an operator's PATCH alone.
DisabledStaysDisabled ==
  [][\A c \in Channels :
       status[c] = "disabled" /\ Exists(c)' /\ status'[c] # "disabled" =>
         \E r \in Requests : AtStep(r, "patch", "begin") /\ req[r].chan = c]_allVars

\* PRD 9.1, playlist TTL of the proxy mode "1-3 detik": while nothing writes it, a
\* proxy-mode channel holds no body that lives for a day.
ProxyBodyIsShortLived ==
  Quiescent => \A c \in Channels :
    (Exists(c) /\ Mode[config[c]] = "proxy" /\ workers[c] = NoHandle) =>
      MayHaveExpired(c)

\* PRD 10.2.1, "Menjalankan worker (transmux/ingest) saat channel mode bukan proxy dan
\* status=active": once the boot has read the active rows, the server does not listen
\* before every ingest one of the control plane has its worker again, whatever the last
\* process left behind.  A boot whose query failed is the exception (phase "warned"):
\* main logs a warning and listens without any worker.
BootResumesActive ==
  [][phase = "booting" /\ phase' = "serving" /\ ~rootDown =>
       \A c \in Channels :
         RunsHere(status[c], config[c]) /\ Mode[config[c]] = "ingest" =>
           workers[c] # NoHandle]_allVars

\* The handlers, main and the goroutines together are a behaviour of RelayWorkers,
\* so everything proved of it holds of the control plane.
ImplementsWorkers == Spec

=============================================================================
