-------------------------- MODULE ControlPlaneProofs --------------------------
(***************************************************************************)
(* The control plane is a behaviour of RelayWorkers, for every number of   *)
(* channels, requests and configurations, disconnecting clients included.  *)
(* What RelayWorkersProofs shows of any callers therefore holds of the     *)
(* handlers and of main.                                                   *)
(*                                                                         *)
(* Two invariants more are about what a worker was started from.  BootInv: *)
(* while main boots nobody stops a worker, and an active ingest row has    *)
(* its worker or is still to be started.  RowInv, if the requests for a    *)
(* channel do not overlap: a worker that no longer fits its row belongs to *)
(* a PATCH that will stop it next (WorkerFits); for a start to keep that,  *)
(* what a handler starts from is what the row holds (SnapshotIsFresh), and *)
(* a row that is about to go has no worker (StoppedBeforeErase).           *)
(***************************************************************************)
EXTENDS ControlPlane, RelayWorkersProofs

\* A request that runs has a channel, and the snapshot it may start a worker from.
RequestInv ==
  \A r \in Requests :
    /\ req[r].at # "none" => req[r].chan \in Channels
    /\ req[r].op = "patch" /\ req[r].at = "halt" => req[r].cfg \in Configs
    /\ req[r].at \in {"launch", "store", "pull"} => req[r].cfg \in Configs

ControlInv == ControlTypeOK /\ RequestInv

\* The shape of all steps of one request, as far as the request itself goes.
Advances(r) ==
  \E op \in AllOperations \cup {"none"}, at \in Steps, c \in Channels \cup {NoChannel},
     st \in RowStatus \cup {"none"}, k \in Configs \cup {NoConfig} :
    /\ req' = [req EXCEPT ![r] = [op |-> op, at |-> at, chan |-> c, st |-> st, cfg |-> k]]
    /\ at # "none" => c \in Channels
    /\ op = "patch" /\ at = "halt" => k \in Configs
    /\ at \in {"launch", "store", "pull"} => k \in Configs

\* A request that moves keeps its type and its snapshot.
LEMMA AdvancesKeepsRequests ==
  ASSUME ControlInv, NEW r \in Requests, Advances(r)
  PROVE  /\ RequestInv'
         /\ req' \in [Requests ->
              [op : AllOperations \cup {"none"}, at : Steps, chan : Channels \cup {NoChannel},
               st : RowStatus \cup {"none"}, cfg : Configs \cup {NoConfig}]]
<1> PICK op \in AllOperations \cup {"none"}, at \in Steps, c \in Channels \cup {NoChannel},
         st \in RowStatus \cup {"none"}, k \in Configs \cup {NoConfig} :
      /\ req' = [req EXCEPT ![r] = [op |-> op, at |-> at, chan |-> c, st |-> st, cfg |-> k]]
      /\ at # "none" => c \in Channels
      /\ op = "patch" /\ at = "halt" => k \in Configs
      /\ at \in {"launch", "store", "pull"} => k \in Configs
  BY DEF Advances
<1> DEFINE new == [op |-> op, at |-> at, chan |-> c, st |-> st, cfg |-> k]
<1>1. req' = [req EXCEPT ![r] = new] /\ req \in [Requests -> 
              [op : AllOperations \cup {"none"}, at : Steps, chan : Channels \cup {NoChannel},
               st : RowStatus \cup {"none"}, cfg : Configs \cup {NoConfig}]]
  BY DEF ControlInv, ControlTypeOK
<1>2. new \in [op : AllOperations \cup {"none"}, at : Steps, chan : Channels \cup {NoChannel},
               st : RowStatus \cup {"none"}, cfg : Configs \cup {NoConfig}]
  OBVIOUS
<1>3. \A q \in Requests : req'[q] = IF q = r THEN new ELSE req[q]
  BY <1>1
<1>4. RequestInv'
  BY <1>3 DEF RequestInv, ControlInv
<1> QED BY <1>1, <1>2, <1>4

-----------------------------------------------------------------------------
(* The handlers                                                              *)

\* The four ways a handler changes its own request.
LEMMA WaysToAdvance ==
  ASSUME ControlInv, NEW r \in Requests
  PROVE  /\ Respond(r) => Advances(r)
         /\ \A at \in Steps \ {"launch", "store", "pull", "none"} :
              req[r].chan \in Channels /\ req[r].op # "patch" /\ Continue(r, at) => Advances(r)
         /\ \A at \in Steps :
              req[r].chan \in Channels /\ req[r].cfg \in Configs /\ Continue(r, at)
                => Advances(r)
         /\ \A at \in Steps, st \in RowStatus \cup {"none"}, k \in Configs :
              req[r].chan \in Channels /\ ContinueWith(r, at, st, k) => Advances(r)
<1>r. req[r] \in [op : AllOperations \cup {"none"}, at : Steps, chan : Channels \cup {NoChannel},
                 st : RowStatus \cup {"none"}, cfg : Configs \cup {NoConfig}]
  BY DEF ControlInv, ControlTypeOK
<1>1. /\ req[r] = [op |-> req[r].op, at |-> req[r].at, chan |-> req[r].chan,
                   st |-> req[r].st, cfg |-> req[r].cfg]
      /\ req[r].op \in AllOperations \cup {"none"} /\ req[r].at \in Steps
      /\ req[r].chan \in Channels \cup {NoChannel}
      /\ req[r].st \in RowStatus \cup {"none"} /\ req[r].cfg \in Configs \cup {NoConfig}
      /\ req \in [Requests ->
           [op : AllOperations \cup {"none"}, at : Steps, chan : Channels \cup {NoChannel},
            st : RowStatus \cup {"none"}, cfg : Configs \cup {NoConfig}]]
  BY DEF ControlInv, ControlTypeOK
<1> DEFINE Fits(op, at, c, st, k) ==
      /\ req' = [req EXCEPT ![r] = [op |-> op, at |-> at, chan |-> c, st |-> st, cfg |-> k]]
      /\ at # "none" => c \in Channels
      /\ op = "patch" /\ at = "halt" => k \in Configs
      /\ at \in {"launch", "store", "pull"} => k \in Configs
<1>0. \A op \in AllOperations \cup {"none"}, at \in Steps, c \in Channels \cup {NoChannel},
        st \in RowStatus \cup {"none"}, k \in Configs \cup {NoConfig} :
        Fits(op, at, c, st, k) => Advances(r)
  BY DEF Advances
<1>2. Respond(r) => Advances(r)
  <2>1. ASSUME Respond(r) PROVE Fits("none", "none", NoChannel, "none", NoConfig)
    BY <2>1 DEF Respond, NoRequest, Request
  <2> HIDE DEF Fits
  <2> QED BY <2>1, <1>0 DEF Steps
<1>3. ASSUME NEW at \in Steps, req[r].chan \in Channels, Continue(r, at),
             req[r].cfg \in Configs \/ (req[r].op # "patch" /\ at \notin {"launch", "store", "pull"})
      PROVE  Advances(r)
  <2>1. req' = [req EXCEPT ![r] = [op |-> req[r].op, at |-> at, chan |-> req[r].chan,
                                   st |-> req[r].st, cfg |-> req[r].cfg]]
    <3>1. req' = [req EXCEPT ![r] = [req[r] EXCEPT !.at = at]]
      BY <1>3 DEF Continue
    <3>2. [req[r] EXCEPT !.at = at]
            = [op |-> req[r].op, at |-> at, chan |-> req[r].chan, st |-> req[r].st,
               cfg |-> req[r].cfg]
      BY <1>r
    <3> QED BY <3>1, <3>2
  <2>2. Fits(req[r].op, at, req[r].chan, req[r].st, req[r].cfg)
    BY <1>3, <2>1
  <2> HIDE DEF Fits
  <2> QED BY <1>0, <1>1, <2>2
<1>4. ASSUME NEW at \in Steps, NEW st \in RowStatus \cup {"none"}, NEW k \in Configs,
             req[r].chan \in Channels, ContinueWith(r, at, st, k)
      PROVE  Advances(r)
  <2>1. req' = [req EXCEPT ![r] = [op |-> req[r].op, at |-> at, chan |-> req[r].chan,
                                   st |-> st, cfg |-> k]]
    BY <1>4 DEF ContinueWith, Request
  <2>2. Fits(req[r].op, at, req[r].chan, st, k)
    BY <1>4, <2>1
  <2> HIDE DEF Fits
  <2> QED BY <1>0, <1>1, <1>4, <2>2
<1> QED BY <1>2, <1>3, <1>4

\* Every step of a handler moves its own request, writes well-typed configurations
\* and bodies, and is for RelayWorkers one of its own steps or none at all.
LEMMA HandlerShape ==
  ASSUME ControlInv, NEW r \in Requests, HandlerStep(r)
  PROVE  /\ Advances(r)
         /\ config' \in [Channels -> Configs]
         /\ playlists' \in [Channels -> Configs \cup {NoConfig}]
         /\ UNCHANGED <<phase, todo>>
         /\ [Next]_vars
<1> DEFINE c == req[r].chan
           Fine == /\ Advances(r)
                   /\ config' \in [Channels -> Configs]
                   /\ playlists' \in [Channels -> Configs \cup {NoConfig}]
                   /\ UNCHANGED <<phase, todo>>
                   /\ [Next]_vars
<1> USE DEF NoWorkerChange
<1>1. /\ req[r].at # "none" => c \in Channels
      /\ req[r].op = "patch" /\ req[r].at = "halt" => req[r].cfg \in Configs
      /\ req[r].at \in {"launch", "store", "pull"} => req[r].cfg \in Configs
      /\ config \in [Channels -> Configs]
      /\ playlists \in [Channels -> Configs \cup {NoConfig}]
      /\ SavedStatus \subseteq RowStatus
  BY ControlPlaneAssumption DEF ControlInv, RequestInv, ControlTypeOK
<1>2. ASSUME NEW st \in SavedStatus, NEW k \in Configs, CreateChannel(r, st, k) PROVE Fine
  <2>1. c \in Channels
    BY <1>1, <1>2 DEF CreateChannel, AtStep
  <2>2. Advances(r)
    BY <1>1, <1>2, <2>1, WaysToAdvance DEF CreateChannel, Steps
  <2>3. [Next]_vars
    BY <1>1, <1>2, <2>1 DEF CreateChannel, Next, RowWrite
  <2> QED BY <1>1, <1>2, <2>2, <2>3 DEF CreateChannel
<1>3. ASSUME NEW st \in SavedStatus, NEW k \in Configs,
             UpdateChannel(r, st, k) \/ UpdateWithoutAnswer(r, st, k)
      PROVE  Fine
  <2>1. c \in Channels
    BY <1>1, <1>3 DEF UpdateChannel, UpdateWithoutAnswer, AtStep
  <2>2. Advances(r)
    BY <1>1, <1>3, <2>1, WaysToAdvance DEF UpdateChannel, UpdateWithoutAnswer, Steps
  <2>3. [Next]_vars
    BY <1>1, <1>3, <2>1 DEF UpdateChannel, UpdateWithoutAnswer, Next, RowWrite
  <2> QED BY <1>1, <1>3, <2>2, <2>3 DEF UpdateChannel, UpdateWithoutAnswer
<1>4. ASSUME NEW op \in {"delete", "stop", "purge"}, NEW at \in {"halt", "purge"},
             FindRow(r, op, at)
      PROVE  Fine
  <2>1. c \in Channels /\ req[r].op # "patch"
    BY <1>1, <1>4 DEF FindRow, AtStep
  <2>2. Advances(r)
    BY <1>4, <2>1, WaysToAdvance DEF FindRow, Steps
  <2> QED BY <1>1, <1>4, <2>2 DEF FindRow
<1>5. CASE ReadRow(r)
  <2>1. c \in Channels
    BY <1>1, <1>5 DEF ReadRow, AtStep
  <2>2. Exists(c) => status[c] \in RowStatus \cup {"none"} /\ config[c] \in Configs
    BY <1>1, <2>1 DEF Exists
  <2>3. Advances(r)
    BY <1>5, <2>1, <2>2, WaysToAdvance DEF ReadRow, Steps
  <2> QED BY <1>1, <1>5, <2>3 DEF ReadRow
<1>6. CASE HandlerStops(r)
  <2>1. c \in Channels
    BY <1>1, <1>6 DEF HandlerStops
  <2>2. Advances(r)
    BY <1>1, <1>6, <2>1, WaysToAdvance DEF HandlerStops, AfterHalt, Steps
  <2>3. [Next]_vars
    BY <1>6, <2>1 DEF HandlerStops, Next, ManagerCall
  <2> QED BY <1>1, <1>6, <2>2, <2>3 DEF HandlerStops
<1>7. CASE HandlerStarts(r)
  <2>1. c \in Channels /\ req[r].cfg \in Configs
    BY <1>1, <1>7 DEF HandlerStarts
  <2>2. CASE \E h \in Handles : StartWorker(c, req[r].st, req[r].cfg, FALSE, h)
    <3>1. \E h \in Handles : StartWorker(c, "active", req[r].cfg, FALSE, h)
      BY <2>2 DEF StartWorker
    <3>2. ManagerCall
      BY <2>1, <3>1 DEF ManagerCall
    <3> QED BY <1>1, <1>7, <3>2, WaysToAdvance DEF HandlerStarts, Next
  <2>3. CASE UNCHANGED vars
    BY <1>1, <1>7, <2>3, WaysToAdvance DEF HandlerStarts
  <2> QED BY <1>7, <2>2, <2>3 DEF HandlerStarts
<1>8. CASE PurgeChannel(r)
  <2>1. c \in Channels
    BY <1>1, <1>8 DEF PurgeChannel
  <2>2. Advances(r)
    BY <1>8, <2>1, WaysToAdvance DEF PurgeChannel, Steps
  <2> QED BY <1>1, <1>8, <2>2 DEF PurgeChannel
<1>9. CASE DeleteChannel(r)
  <2>1. c \in Channels
    BY <1>1, <1>9 DEF DeleteChannel
  <2>2. [Next]_vars
    BY <1>9, <2>1 DEF DeleteChannel, Next, RowWrite
  <2> QED BY <1>1, <1>9, <2>2, WaysToAdvance DEF DeleteChannel
<1>10. CASE MarkRowStopped(r)
  <2>1. c \in Channels
    BY <1>1, <1>10 DEF MarkRowStopped
  <2>2. [Next]_vars
    BY <1>10, <2>1 DEF MarkRowStopped, Next, RowWrite
  <2> QED BY <1>1, <1>10, <2>2, WaysToAdvance DEF MarkRowStopped
<1>11. CASE LookUpPlaylist(r)
  <2>1. c \in Channels /\ config[c] \in Configs
    BY <1>1, <1>11 DEF LookUpPlaylist, AtStep
  <2>2. Advances(r)
    BY <1>11, <2>1, WaysToAdvance DEF LookUpPlaylist, Steps
  <2> QED BY <1>1, <1>11, <2>2 DEF LookUpPlaylist
<1>12. CASE PullFails(r) \/ PullSucceeds(r)
  <2>1. c \in Channels /\ req[r].cfg \in Configs
    BY <1>1, <1>12 DEF PullFails, PullSucceeds
  <2>2. Advances(r)
    BY <1>12, <2>1, WaysToAdvance DEF PullFails, PullSucceeds, Steps
  <2>3. [Next]_vars
    BY <1>12, <2>1 DEF PullFails, PullSucceeds, Next, Playback
  <2> QED BY <1>1, <1>12, <2>2, <2>3 DEF PullFails, PullSucceeds
<1>13. CASE StorePlaylist(r) \/ PullUnreadable(r) \/ Disconnect(r)
  BY <1>1, <1>13, WaysToAdvance DEF StorePlaylist, PullUnreadable, Disconnect
<1>14. CASE PullUnrecorded(r)
  <2>1. c \in Channels /\ req[r].cfg \in Configs
    BY <1>1, <1>14 DEF PullUnrecorded
  <2>2. Advances(r)
    BY <1>14, <2>1, WaysToAdvance DEF PullUnrecorded, Steps
  <2> QED BY <1>1, <1>14, <2>2 DEF PullUnrecorded
<1> QED
  BY <1>2, <1>3, <1>4, <1>5, <1>6, <1>7, <1>8, <1>9, <1>10, <1>11, <1>12, <1>13, <1>14
     DEF HandlerStep

-----------------------------------------------------------------------------
(* The whole process                                                         *)

\* The control plane starts in one of RelayWorkers' initial states.
LEMMA ControlInitInv == ControlInit => Init /\ ControlInv
<1> SUFFICES ASSUME ControlInit PROVE Init /\ ControlInv
  OBVIOUS
<1>1. ControlTypeOK
  BY DEF ControlInit, ControlTypeOK, ActiveWorkerChannels, NoRequest, Request, Phases, Steps
<1>2. RequestInv
  BY DEF ControlInit, RequestInv, NoRequest, Request
<1> QED BY <1>1, <1>2 DEF ControlInit, ControlInv

\* One step per action of the control plane: each keeps the invariant and is, for
\* the manager and the rows, a step of RelayWorkers or a stutter.
LEMMA ControlStep ==
  TypeOK /\ ControlInv /\ [ControlNext]_allVars => ControlInv' /\ [Next]_vars
<1> SUFFICES ASSUME TypeOK, ControlInv, [ControlNext]_allVars
             PROVE  ControlInv' /\ [Next]_vars
  OBVIOUS
<1> USE DEF NoWorkerChange
<1>1. /\ config \in [Channels -> Configs]
      /\ playlists \in [Channels -> Configs \cup {NoConfig}]
      /\ phase \in Phases /\ todo \in SUBSET Channels
  BY DEF ControlInv, ControlTypeOK
<1>2. ASSUME UNCHANGED req, config' \in [Channels -> Configs],
             playlists' \in [Channels -> Configs \cup {NoConfig}],
             phase' \in Phases, todo' \in SUBSET Channels
      PROVE  ControlInv'
  BY <1>2 DEF ControlInv, ControlTypeOK, RequestInv
<1>3. ASSUME NEW h \in Handles, WorkerStep(h) PROVE ControlInv' /\ [Next]_vars
  <2>1. cfg[h] \in Configs \cup {NoConfig}
    BY DEF TypeOK
  <2>2. playlists' \in [Channels -> Configs \cup {NoConfig}]
    BY <1>1, <1>3, <2>1 DEF WorkerStep
  <2>3. ControlInv'
    BY <1>1, <1>2, <1>3, <2>2 DEF WorkerStep
  <2> QED BY <1>3, <2>3 DEF WorkerStep, Next
<1>4. ASSUME NEW r \in Requests, NEW op \in Operations, NEW c \in Channels, Submit(r, op, c)
      PROVE  ControlInv' /\ [Next]_vars
  <2>1. op \in AllOperations
    BY ControlPlaneAssumption
  <2>2. Advances(r)
    BY <1>4, <2>1 DEF Submit, Request, Advances, Steps
  <2> QED BY <1>1, <1>4, <2>2, AdvancesKeepsRequests DEF Submit, ControlInv, ControlTypeOK
<1>5. ASSUME NEW r \in Requests, HandlerStep(r) PROVE ControlInv' /\ [Next]_vars
  BY <1>1, <1>5, HandlerShape, AdvancesKeepsRequests DEF ControlInv, ControlTypeOK
<1>6. ASSUME NEW c \in Channels, BootStarts(c) PROVE ControlInv' /\ [Next]_vars
  <2>1. ControlInv'
    BY <1>1, <1>2, <1>6 DEF BootStarts
  <2>2. \E h \in Handles : StartWorker(c, "active", config[c], TRUE, h) /\ config[c] \in Configs
    BY <1>1, <1>6 DEF BootStarts
  <2> QED BY <2>1, <2>2 DEF Next, ManagerCall
<1>7. CASE Listen
  BY <1>1, <1>2, <1>7 DEF Listen, Phases
<1>8. CASE Terminate
  BY <1>1, <1>2, <1>8 DEF Terminate, Phases, Next
<1>9. CASE ShutDown
  BY <1>1, <1>2, <1>9 DEF ShutDown, Phases, Next, ManagerCall
<1>10. CASE Reboot
  <2>1. config' \in [Channels -> Configs]
        /\ playlists' \in [Channels -> Configs \cup {NoConfig}]
        /\ phase' \in Phases /\ todo' \in SUBSET Channels
        /\ req' = [r \in Requests |-> NoRequest]
    BY <1>1, <1>10 DEF Reboot, QueryAnswered, QueryFailed, Phases, ActiveWorkerChannels
  <2>2. ControlInv'
    BY <2>1 DEF ControlInv, ControlTypeOK, RequestInv, NoRequest, Request, Steps
  <2> QED BY <1>10, <2>2 DEF Reboot, Next
<1>11. CASE UNCHANGED allVars
  BY <1>1, <1>2, <1>11 DEF allVars, outside
<1> QED
  BY <1>3, <1>4, <1>5, <1>6, <1>7, <1>8, <1>9, <1>10, <1>11 DEF ControlNext

\* The invariants of both levels hold together.
LEMMA ControlInvariant == ControlSpec => [](IInv /\ ControlInv)
<1>1. ControlInit => IInv /\ ControlInv
  BY ControlInitInv, InitIInv
<1>2. IInv /\ ControlInv /\ [ControlNext]_allVars => IInv' /\ ControlInv'
  BY ControlStep, StepIInv DEF IInv
<1> QED BY <1>1, <1>2, PTL DEF ControlSpec

\* Rows, bodies and the snapshots that requests carry keep their types.
THEOREM ControlTypeCorrect == ControlSpec => []ControlTypeOK
<1>1. ControlInv => ControlTypeOK
  BY DEF ControlInv
<1> QED BY <1>1, ControlInvariant, PTL

\* Every step of a handler, of main or of a goroutine is a step of RelayWorkers.
THEOREM ControlPlaneImplementsWorkers == ControlSpec => ImplementsWorkers
<1>1. ControlInit => Init
  BY ControlInitInv
<1>2. IInv /\ ControlInv /\ [ControlNext]_allVars => [Next]_vars
  BY ControlStep DEF IInv
<1> QED BY <1>1, <1>2, ControlInvariant, PTL DEF ControlSpec, ImplementsWorkers, Spec

-----------------------------------------------------------------------------
(* One client of a channel at a time: definitions                            *)

\* r is being handled, and is for c.
Handled(c, r) == req[r].at # "none" /\ req[r].chan = c

\* A client waits for the answer before it sends the next request for a channel.
Serialised == \A c \in Channels : \A r, s \in Requests : Handled(c, r) /\ Handled(c, s) => r = s

Playable(c) == status[c] \in {"active", "source_error"}

\* The PATCH has changed the row and will stop the worker next.
BeforeHalt(r) == req[r].op = "patch" /\ req[r].at = "halt"

\* A worker that does not fit its row is about to be stopped.
Suits(c) == workers[c] # NoHandle => Playable(c) /\ cfg[workers[c]] = config[c]
WorkerFits ==
  \A c \in Channels \ unanswered :
    Suits(c) \/ \E r \in Requests : BeforeHalt(r) /\ req[r].chan = c

\* What a handler will start a worker from is what the row holds.
SnapshotIsFresh ==
  \A r \in Requests : BeforeHalt(r) \/ req[r].at = "launch" =>
    req[r].cfg = config[req[r].chan] /\ (req[r].st = "active" => Playable(req[r].chan))

\* DELETE has stopped the worker before it deletes the row.
StoppedBeforeErase ==
  \A r \in Requests :
    req[r].at = "erase" \/ (req[r].op = "delete" /\ req[r].at = "purge") =>
      workers[req[r].chan] = NoHandle

\* During the boot nothing is served, and every start is of an active row.
BootIsQuiet ==
  phase = "booting" =>
    /\ \A r \in Requests : req[r].at = "none"
    /\ \A c \in todo : Playable(c)

RowInv == WorkerFits /\ SnapshotIsFresh /\ StoppedBeforeErase

\* During the boot no worker has been stopped, and the goroutines have the rows'
\* configurations; an ingest worker is still in its loop.
BootedWorks ==
  phase = "booting" =>
    /\ cancelled = {}
    /\ \A h \in Handles : pc[h] # "idle" => cfg[h] = config[chan[h]]
    /\ ~rootDown => \A h \in Handles :
         pc[h] # "idle" /\ Mode[cfg[h]] = "ingest" => pc[h] \in {"claimed", "begin"} \cup IngestSteps

\* Every active ingest row has its worker or will be started.
Resumes(c) == RunsHere(status[c], config[c]) /\ Mode[config[c]] = "ingest"
BootResumes ==
  phase = "booting" /\ ~rootDown =>
    \A c \in Channels : Resumes(c) => c \in todo \/ workers[c] # NoHandle

BootInv == BootIsQuiet /\ BootedWorks /\ BootResumes

\* What a goroutine's step does to the registry, the rows and the other goroutines.
LEMMA GoroutineRespects ==
  ASSUME IInv, NEW h \in Handles, GoroutineStep(h) \/ FfmpegExit(h)
  PROVE  /\ cancelled' \subseteq cancelled /\ rootDown' = rootDown
         /\ \A c \in Channels :
              /\ workers'[c] # workers[c] =>
                   workers'[c] = NoHandle /\ workers[c] = h /\ pc[h] = "release"
              /\ workers'[c] # NoHandle => cfg'[workers[c]] = cfg[workers[c]]
              /\ Playable(c) => status'[c] \in {"active", "source_error"}
              /\ status'[c] # status[c] =>
                   chan[h] = c /\ pc[h] \in Owning /\ workers'[c] = workers[c]
         /\ \A g \in Handles : pc'[g] # "idle" =>
              pc[g] # "idle" /\ chan'[g] = chan[g] /\ cfg'[g] = cfg[g] /\ (g # h => pc'[g] = pc[g])
<1> USE RelayWorkersAssumption
    DEF PCs, Live, Owning, Working, IngestSteps, TransmuxSteps
<1>0. TypeOK /\ EntryIsActive
  BY DEF IInv
<1>1. CASE Walk(h)
  <2>1. /\ pc[h] \in Working /\ RowStatement(chan[h])
        /\ UNCHANGED <<workers, chan, cfg, booted, cancelled, rootDown, leftover>>
    BY <1>0, <1>1, WalkShape
  <2>2. PICK to \in Owning : pc' = [pc EXCEPT ![h] = to]
    BY <1>0, <1>1, WalkShape
  <2>3. \A g \in Handles : pc'[g] # "idle" => pc[g] # "idle" /\ (g # h => pc'[g] = pc[g])
    BY <1>0, <2>1, <2>2 DEF TypeOK
  <2>4. \A c \in Channels :
          /\ Playable(c) => status'[c] \in {"active", "source_error"}
          /\ status'[c] # status[c] => chan[h] = c
    BY <2>1 DEF RowStatement, Playable, Exists, RowStatus
  <2> QED BY <2>1, <2>3, <2>4
<1>2. CASE ReleaseWorker(h)
  <2>1. /\ pc[h] = "release" /\ pc' = [pc EXCEPT ![h] = "final"]
        /\ workers' = IF workers[chan[h]] = h
                      THEN [workers EXCEPT ![chan[h]] = NoHandle] ELSE workers
        /\ UNCHANGED <<chan, cfg, cancelled, rootDown, status>>
    BY <1>2 DEF ReleaseWorker, row
  <2>2. \A g \in Handles : pc'[g] # "idle" => pc[g] # "idle" /\ (g # h => pc'[g] = pc[g])
    BY <1>0, <2>1 DEF TypeOK
  <2>3. \A c \in Channels :
          workers'[c] # workers[c] => workers'[c] = NoHandle /\ workers[c] = h
    BY <1>0, <2>1 DEF TypeOK
  <2> QED BY <2>1, <2>2, <2>3 DEF Playable
<1>3. CASE MarkStopped(h)
  <2>1. /\ pc[h] = "final" /\ pc' = [pc EXCEPT ![h] = "idle"]
        /\ chan' = [chan EXCEPT ![h] = NoChannel] /\ cfg' = [cfg EXCEPT ![h] = NoConfig]
        /\ cancelled' = cancelled \ {h}
        /\ UNCHANGED <<workers, rootDown, status>>
    BY <1>3 DEF MarkStopped, SetWorkerStatus, row
  <2>2. \A g \in Handles : pc'[g] # "idle" =>
          pc[g] # "idle" /\ chan'[g] = chan[g] /\ cfg'[g] = cfg[g] /\ pc'[g] = pc[g]
    BY <1>0, <2>1 DEF TypeOK
  <2>3. \A c \in Channels : workers[c] # NoHandle => workers[c] \in Handles \ {h}
    BY <1>0, <2>1 DEF TypeOK, EntryIsActive, Active
  <2>4. \A c \in Channels : workers'[c] # NoHandle => cfg'[workers[c]] = cfg[workers[c]]
    BY <1>0, <2>1, <2>3 DEF TypeOK
  <2> QED BY <2>1, <2>2, <2>4 DEF Playable
<1> QED BY <1>1, <1>2, <1>3 DEF GoroutineStep, Deferred, Walk

\* An ingest goroutine that is not cancelled stays in its loop.
LEMMA IngestGoesOn ==
  ASSUME TypeOK, NEW h \in Handles, GoroutineStep(h) \/ FfmpegExit(h), ~Done(h),
         Mode[cfg[h]] = "ingest", pc[h] \in {"claimed", "begin"} \cup IngestSteps
  PROVE  pc'[h] \in {"claimed", "begin"} \cup IngestSteps
<1> USE DEF IngestSteps
<1>0. \A to : pc' = [pc EXCEPT ![h] = to] => pc'[h] = to
  BY DEF TypeOK
<1>1. CASE Launch(h)
  BY <1>0, <1>1 DEF Launch, MarkRunning, Begin, GotoQuietly, GotoMarking, Goto
<1>2. CASE IngestStep(h)
  <2>1. CASE FetchOk(h) \/ FetchFail(h) \/ RewriteFail(h) \/ PublishPlaylist(h) \/ Poll(h)
    BY <1>0, <2>1 DEF FetchOk, FetchFail, RewriteFail, PublishPlaylist, Poll, GotoQuietly, Goto
  <2>2. CASE RecordSource(h) \/ MarkCycleOk(h) \/ MarkCycleFailed(h) \/ FlagSource(h)
    BY <1>0, <2>2 DEF RecordSource, MarkCycleOk, MarkCycleFailed, FlagSource, GotoQuietly,
                      GotoMarking, GotoFlagging, Goto
  <2>3. CASE LeaveWait(h)
    BY <2>3 DEF LeaveWait
  <2> QED BY <1>2, <2>1, <2>2, <2>3 DEF IngestStep
<1>3. CASE TransmuxStep(h) \/ FfmpegExit(h)
  BY <1>3 DEF TransmuxStep, FfmpegExit, MkdirOk, MkdirFail, LeaveTop, PassTop, SpawnOk,
              MarkSpawned, SpawnFail, MarkDown, FfmpegKilled, AutoDisable, Backoff, Retry,
              LeaveBackoff, GotoQuietly, GotoMarking, GotoFlagging, Goto
<1>4. CASE Deferred(h)
  BY <1>4 DEF Deferred, ReleaseWorker, MarkStopped
<1> QED BY <1>1, <1>2, <1>3, <1>4 DEF GoroutineStep

\* A handler moves a request that runs, and main does not move meanwhile.
LEMMA HandlerRuns ==
  ASSUME ControlInv, NEW r \in Requests, HandlerStep(r)
  PROVE  /\ req[r].at # "none" /\ req[r].chan \in Channels
         /\ \A q \in Requests \ {r} : req'[q] = req[q]
         /\ req'[r].at # "none" => req'[r].chan = req[r].chan
<1>1. req[r].at # "none"
  BY DEF HandlerStep, CreateChannel, UpdateChannel, UpdateWithoutAnswer, FindRow, ReadRow,
         HandlerStops, HandlerStarts, PurgeChannel, DeleteChannel, MarkRowStopped,
         LookUpPlaylist, PullFails, PullSucceeds, PullUnrecorded, PullUnreadable,
         StorePlaylist, Disconnect, AtStep
<1>2. req \in [Requests ->
        [op : AllOperations \cup {"none"}, at : Steps, chan : Channels \cup {NoChannel},
         st : RowStatus \cup {"none"}, cfg : Configs \cup {NoConfig}]]
  BY DEF ControlInv, ControlTypeOK
<1>3. \/ Respond(r)
      \/ \E at \in Steps : Continue(r, at)
      \/ \E at \in Steps : \E st, k : ContinueWith(r, at, st, k)
  <2>1. CASE \E st \in SavedStatus, k \in Configs :
               CreateChannel(r, st, k) \/ UpdateChannel(r, st, k) \/ UpdateWithoutAnswer(r, st, k)
    BY <2>1 DEF CreateChannel, UpdateChannel, UpdateWithoutAnswer, Steps
  <2>2. CASE FindRow(r, "delete", "halt") \/ FindRow(r, "stop", "halt")
               \/ FindRow(r, "purge", "purge") \/ ReadRow(r)
    BY <2>2 DEF FindRow, ReadRow, Steps
  <2>3. CASE HandlerStops(r)
    BY <2>3 DEF HandlerStops, AfterHalt, Steps
  <2>4. CASE HandlerStarts(r) \/ PurgeChannel(r) \/ DeleteChannel(r) \/ MarkRowStopped(r)
    BY <2>4 DEF HandlerStarts, PurgeChannel, DeleteChannel, MarkRowStopped, Steps
  <2>5. CASE \/ LookUpPlaylist(r) \/ PullFails(r) \/ PullSucceeds(r) \/ PullUnrecorded(r)
             \/ PullUnreadable(r) \/ StorePlaylist(r) \/ Disconnect(r)
    BY <2>5 DEF LookUpPlaylist, PullFails, PullSucceeds, PullUnrecorded, PullUnreadable,
                StorePlaylist, Disconnect, Steps
  <2> QED BY <2>1, <2>2, <2>3, <2>4, <2>5 DEF HandlerStep
<1>4. CASE Respond(r)
  BY <1>1, <1>2, <1>4 DEF Respond, NoRequest, Request, ControlInv, RequestInv
<1>5. CASE \E at \in Steps : Continue(r, at)
  <2>1. PICK at \in Steps : req' = [req EXCEPT ![r].at = at]
    BY <1>5 DEF Continue
  <2>2. req'[r].chan = req[r].chan /\ \A q \in Requests \ {r} : req'[q] = req[q]
    BY <1>2, <2>1
  <2> QED BY <1>1, <2>2 DEF ControlInv, RequestInv
<1>6. CASE \E at \in Steps : \E st, k : ContinueWith(r, at, st, k)
  <2>0. PICK at \in Steps : \E st, k : ContinueWith(r, at, st, k)
    BY <1>6
  <2>1. PICK st, k : ContinueWith(r, at, st, k)
    BY <2>0
  <2>2. req' = [req EXCEPT ![r] = [op |-> req[r].op, at |-> at, chan |-> req[r].chan,
                                   st |-> st, cfg |-> k]]
    BY <2>1 DEF ContinueWith, Request
  <2>3. req'[r].chan = req[r].chan /\ \A q \in Requests \ {r} : req'[q] = req[q]
    BY <1>2, <2>2
  <2> QED BY <1>1, <2>3 DEF ControlInv, RequestInv
<1> QED BY <1>3, <1>4, <1>5, <1>6

\* What StartWorker does for any of its callers: it gives an idle goroutine to c.
Claims(c, k, h) ==
  /\ workers[c] = NoHandle /\ pc[h] = "idle"
  /\ workers' = [workers EXCEPT ![c] = h] /\ pc' = [pc EXCEPT ![h] = "claimed"]
  /\ chan' = [chan EXCEPT ![h] = c] /\ cfg' = [cfg EXCEPT ![h] = k]
  /\ UNCHANGED <<cancelled, rootDown, status>>

LEMMA ClaimsGive ==
  ASSUME IInv, NEW c \in Channels, NEW k \in Configs, NEW h \in Handles, Claims(c, k, h)
  PROVE  /\ workers[c] = NoHandle /\ workers'[c] = h /\ cfg'[h] = k /\ chan'[h] = c
         /\ pc'[h] = "claimed"
         /\ \A d \in Channels \ {c} :
              workers'[d] = workers[d] /\ (workers[d] # NoHandle => cfg'[workers[d]] = cfg[workers[d]])
         /\ \A g \in Handles \ {h} : pc'[g] = pc[g] /\ chan'[g] = chan[g] /\ cfg'[g] = cfg[g]
         /\ UNCHANGED <<cancelled, rootDown, status>>
<1> USE RelayWorkersAssumption DEF PCs, Live, Owning, Working, IngestSteps, TransmuxSteps
<1>1. /\ pc[h] = "idle" /\ workers[c] = NoHandle
      /\ workers' = [workers EXCEPT ![c] = h] /\ pc' = [pc EXCEPT ![h] = "claimed"]
      /\ chan' = [chan EXCEPT ![h] = c] /\ cfg' = [cfg EXCEPT ![h] = k]
      /\ UNCHANGED <<cancelled, rootDown, status>>
  BY DEF Claims
<1>2. TypeOK /\ \A d \in Channels : workers[d] # NoHandle => workers[d] \in Handles \ {h}
  BY <1>1 DEF IInv, TypeOK, EntryIsActive, Active
<1>3. /\ workers'[c] = h /\ cfg'[h] = k /\ chan'[h] = c /\ pc'[h] = "claimed"
      /\ \A g \in Handles \ {h} : pc'[g] = pc[g] /\ chan'[g] = chan[g] /\ cfg'[g] = cfg[g]
      /\ \A d \in Channels \ {c} : workers'[d] = workers[d]
  BY <1>1, <1>2 DEF TypeOK
<1> QED BY <1>1, <1>2, <1>3

-----------------------------------------------------------------------------
(* The boot: proofs                                                          *)

LEMMA InitBoot == ControlInit => BootInv
  BY RelayWorkersAssumption
     DEF ControlInit, Init, BootInv, BootIsQuiet, BootedWorks, BootResumes, Resumes,
         ActiveWorkerChannels, RunsHere, Playable, NoRequest, Request

LEMMA StepBoot == IInv /\ ControlInv /\ BootInv /\ [ControlNext]_allVars => BootInv'
<1> SUFFICES ASSUME IInv, ControlInv, BootInv, [ControlNext]_allVars PROVE BootInv'
  OBVIOUS
<1> USE DEF NoWorkerChange
<1>0. TypeOK /\ BootIsQuiet /\ BootedWorks /\ BootResumes
  BY DEF IInv, BootInv
<1>1. ASSUME NEW h \in Handles, WorkerStep(h) PROVE BootInv'
  <2>1. /\ GoroutineStep(h) \/ FfmpegExit(h)
        /\ UNCHANGED <<config, phase, todo, req>>
    BY <1>1 DEF WorkerStep
  <2> SUFFICES ASSUME phase = "booting" PROVE BootInv'
    BY <2>1 DEF BootInv, BootIsQuiet, BootedWorks, BootResumes
  <2>2. /\ cancelled' \subseteq cancelled /\ rootDown' = rootDown
        /\ \A c \in Channels :
             /\ workers'[c] # workers[c] =>
                  workers'[c] = NoHandle /\ workers[c] = h /\ pc[h] = "release"
             /\ Playable(c) => status'[c] \in {"active", "source_error"}
             /\ status'[c] # status[c] =>
                  chan[h] = c /\ pc[h] \in Owning /\ workers'[c] = workers[c]
        /\ \A g \in Handles : pc'[g] # "idle" =>
             pc[g] # "idle" /\ chan'[g] = chan[g] /\ cfg'[g] = cfg[g] /\ (g # h => pc'[g] = pc[g])
    BY <2>1, GoroutineRespects
  <2>3. cancelled = {} /\ \A g \in Handles : pc[g] # "idle" => cfg[g] = config[chan[g]]
    BY <1>0 DEF BootedWorks
  <2>4. BootIsQuiet'
    BY <1>0, <2>1, <2>2 DEF BootIsQuiet, Playable, ControlInv, ControlTypeOK
  <2>5. ASSUME ~rootDown, NEW g \in Handles, pc'[g] # "idle", Mode[cfg'[g]] = "ingest"
        PROVE  pc'[g] \in {"claimed", "begin"} \cup IngestSteps
    <3>1. pc[g] # "idle" /\ Mode[cfg[g]] = "ingest" /\ (g # h => pc'[g] = pc[g])
      BY <2>2, <2>5
    <3>2. pc[g] \in {"claimed", "begin"} \cup IngestSteps
      BY <1>0, <2>5, <3>1 DEF BootedWorks
    <3>3. CASE g = h
      <4>1. ~Done(h)
        BY <2>3, <2>5 DEF Done
      <4> QED BY <1>0, <2>1, <3>1, <3>2, <3>3, <4>1, IngestGoesOn
    <3> QED BY <3>1, <3>2, <3>3
  <2>6. BootedWorks'
    BY <2>1, <2>2, <2>3, <2>5 DEF BootedWorks
  <2>7. ASSUME ~rootDown, NEW c \in Channels, RunsHere(status'[c], config[c]),
               Mode[config[c]] = "ingest", c \notin todo
        PROVE  workers'[c] # NoHandle
    <3>1. CASE status'[c] = status[c]
      <4>1. workers[c] # NoHandle
        BY <1>0, <2>7, <3>1 DEF BootResumes, Resumes
      <4>2. ASSUME workers[c] = h, pc[h] = "release" PROVE FALSE
        <5>1. chan[h] = c
          BY <4>1, <4>2 DEF IInv, EntryIsActive
        <5>2. cfg[h] = config[c]
          BY <2>3, <4>2, <5>1
        <5> QED BY <1>0, <2>7, <4>2, <5>2 DEF BootedWorks, IngestSteps
      <4> QED BY <2>2, <4>1, <4>2
    <3>2. CASE status'[c] # status[c]
      <4>1. Active(h) /\ chan[h] = c /\ workers'[c] = workers[c]
        BY <2>2, <2>3, <3>2 DEF Active
      <4>2. workers[c] = h
        BY <4>1 DEF IInv, ActiveHasEntry
      <4> QED BY <4>1, <4>2, RelayWorkersAssumption
    <3> QED BY <3>1, <3>2
  <2>8. BootResumes'
    BY <2>1, <2>2, <2>7 DEF BootResumes, Resumes
  <2> QED BY <2>4, <2>6, <2>8 DEF BootInv
<1>2. ASSUME phase \in {"serving", "signalled", "draining"}, phase' # "booting" PROVE BootInv'
  BY <1>2 DEF BootInv, BootIsQuiet, BootedWorks, BootResumes
<1>3. ASSUME NEW r \in Requests, NEW op \in Operations, NEW c \in Channels, Submit(r, op, c)
      PROVE  BootInv'
  BY <1>2, <1>3 DEF Submit
<1>4. ASSUME NEW r \in Requests, HandlerStep(r) PROVE BootInv'
  <2>1. phase' = phase /\ phase # "booting"
    BY <1>0, <1>4, HandlerRuns, HandlerShape DEF BootIsQuiet
  <2> QED BY <2>1 DEF BootInv, BootIsQuiet, BootedWorks, BootResumes
<1>5. ASSUME NEW c \in Channels, BootStarts(c) PROVE BootInv'
  <2>1. PICK h \in Handles : StartWorker(c, "active", config[c], TRUE, h)
    BY <1>5 DEF BootStarts
  <2>2. /\ phase = "booting" /\ todo' = todo \ {c}
        /\ UNCHANGED <<config, phase, req>>
    BY <1>5 DEF BootStarts
  <2>3. PICK k \in Configs : k = config[c]
    BY DEF ControlInv, ControlTypeOK
  <2>4. /\ workers'[c] = h /\ cfg'[h] = k /\ chan'[h] = c /\ pc'[h] = "claimed"
        /\ \A d \in Channels \ {c} : workers'[d] = workers[d]
        /\ \A g \in Handles \ {h} : pc'[g] = pc[g] /\ chan'[g] = chan[g] /\ cfg'[g] = cfg[g]
        /\ UNCHANGED <<cancelled, rootDown, status>>
    <3>1. Claims(c, k, h)
      BY <2>1, <2>3 DEF StartWorker, Claims, row
    <3> QED BY <3>1, ClaimsGive
  <2>5. BootIsQuiet'
    BY <1>0, <2>2, <2>4 DEF BootIsQuiet, Playable
  <2>6. BootedWorks'
    BY <1>0, <2>2, <2>3, <2>4 DEF BootedWorks
  <2>7. BootResumes'
    BY <1>0, <2>2, <2>4, RelayWorkersAssumption DEF BootResumes, Resumes
  <2> QED BY <2>5, <2>6, <2>7 DEF BootInv
<1>6. CASE Listen \/ ShutDown
  BY <1>6 DEF Listen, ShutDown, BootInv, BootIsQuiet, BootedWorks, BootResumes
<1>7. CASE Terminate
  <2>1. /\ rootDown' /\ UNCHANGED <<workers, pc, chan, cfg, cancelled, status>>
        /\ UNCHANGED <<config, todo, req>> /\ (phase' = "booting" => phase = "booting")
    BY <1>7 DEF Terminate, Signal, goroutines, row
  <2> QED BY <1>0, <2>1 DEF BootInv, BootIsQuiet, BootedWorks, BootResumes, Playable
<1>8. CASE Reboot
  <2>1. /\ pc' = [h \in Handles |-> "idle"] /\ cancelled' = {}
        /\ status' = status /\ config' = config
        /\ phase' = "booting" => todo' = ActiveWorkerChannels
        /\ req' = [r \in Requests |-> NoRequest]
    BY <1>8 DEF Reboot, Restart, row, QueryAnswered, QueryFailed
  <2>2. BootIsQuiet'
    BY <2>1 DEF BootIsQuiet, NoRequest, Request, ActiveWorkerChannels, RunsHere, Playable
  <2>3. BootedWorks'
    BY <2>1 DEF BootedWorks
  <2>4. BootResumes'
    BY <2>1 DEF BootResumes, Resumes, ActiveWorkerChannels
  <2> QED BY <2>2, <2>3, <2>4 DEF BootInv
<1>9. CASE UNCHANGED allVars
  BY <1>0, <1>9 DEF allVars, outside, vars, goroutines, row, BootInv, BootIsQuiet,
                    BootedWorks, BootResumes, Resumes, Playable
<1> QED
  BY <1>1, <1>3, <1>4, <1>5, <1>6, <1>7, <1>8, <1>9 DEF ControlNext

-----------------------------------------------------------------------------
(* One client of a channel at a time: proofs                                 *)

\* A request that asks nothing of the invariant.
Idles(r) ==
  ~BeforeHalt(r) /\ req[r].at \notin {"launch", "erase"} /\ (req[r].op = "delete" => req[r].at # "purge")

\* No configuration is saved, no worker starts and no row dies.
LEMMA RowsRest ==
  ASSUME RowInv, UNCHANGED <<config, unanswered>>,
         \A q \in Requests : req'[q] = req[q] \/ (~BeforeHalt(q) /\ Idles(q)'),
         \A c \in Channels :
           /\ workers'[c] = workers[c] \/ workers'[c] = NoHandle
           /\ workers'[c] # NoHandle => cfg'[workers[c]] = cfg[workers[c]]
           /\ Playable(c) => status'[c] \in {"active", "source_error"},
         \A q \in Requests :
           BeforeHalt(q) \/ req[q].at \in {"launch", "erase", "purge"} => req[q].chan \in Channels
  PROVE  RowInv'
<1>1. WorkerFits'
  <2> SUFFICES ASSUME NEW c \in Channels \ unanswered
               PROVE  Suits(c)' \/ \E r \in Requests : BeforeHalt(r)' /\ req'[r].chan = c
    BY DEF WorkerFits
  <2>1. CASE Suits(c)
    <3>1. workers'[c] # NoHandle => /\ status'[c] \in {"active", "source_error"}
                                    /\ workers'[c] = workers[c] /\ cfg'[workers[c]] = config'[c]
      BY <2>1 DEF Suits
    <3> QED BY <3>1 DEF Suits, Playable
  <2>2. ASSUME NEW r \in Requests, BeforeHalt(r), req[r].chan = c
        PROVE  BeforeHalt(r)' /\ req'[r].chan = c
    BY <2>2 DEF BeforeHalt
  <2> QED BY <2>1, <2>2 DEF RowInv, WorkerFits
<1>2. SnapshotIsFresh'
  BY DEF RowInv, SnapshotIsFresh, BeforeHalt, Idles, Playable
<1>3. StoppedBeforeErase'
  BY DEF RowInv, StoppedBeforeErase, Idles
<1> QED BY <1>1, <1>2, <1>3 DEF RowInv

\* One request and its channel move; no other request is being handled for it.
LEMMA OneChannelMoves ==
  ASSUME ControlInv, Serialised, RowInv, NEW r \in Requests, NEW c \in Channels,
         Handled(c, r),
         \A q \in Requests \ {r} : req'[q] = req[q],
         \A d \in Channels \ {c} :
           /\ workers'[d] = workers[d] /\ (workers[d] # NoHandle => cfg'[workers[d]] = cfg[workers[d]])
           /\ status'[d] = status[d] /\ config'[d] = config[d]
           /\ d \in unanswered <=> d \in unanswered',
         req'[r].at # "none" => req'[r].chan = c,
         c \in unanswered' \/ Suits(c)' \/ BeforeHalt(r)',
         BeforeHalt(r)' \/ req'[r].at = "launch" =>
           req'[r].cfg = config'[c] /\ (req'[r].st = "active" => Playable(c)'),
         req'[r].at = "erase" \/ (req'[r].op = "delete" /\ req'[r].at = "purge") =>
           workers'[c] = NoHandle
  PROVE  RowInv'
<1>1. \A q \in Requests \ {r} : req[q].at # "none" => req[q].chan \in Channels \ {c}
  BY DEF Serialised, Handled, ControlInv, RequestInv
<1>2. WorkerFits'
  <2> SUFFICES ASSUME NEW d \in Channels, d \notin unanswered'
               PROVE  Suits(d)' \/ \E q \in Requests : BeforeHalt(q)' /\ req'[q].chan = d
    BY DEF WorkerFits
  <2>1. CASE d = c
    BY <2>1 DEF BeforeHalt
  <2>2. CASE d # c
    <3>1. CASE Suits(d)
      BY <2>2, <3>1 DEF Suits, Playable
    <3>2. ASSUME NEW q \in Requests, BeforeHalt(q), req[q].chan = d
          PROVE  BeforeHalt(q)' /\ req'[q].chan = d
      BY <2>2, <3>2 DEF BeforeHalt, Handled
    <3> QED BY <2>2, <3>1, <3>2 DEF RowInv, WorkerFits
  <2> QED BY <2>1, <2>2
<1>3. SnapshotIsFresh'
  <2> SUFFICES ASSUME NEW q \in Requests, BeforeHalt(q)' \/ req'[q].at = "launch"
               PROVE  /\ req'[q].cfg = config'[req'[q].chan]
                      /\ req'[q].st = "active" => Playable(req[q].chan)'
    BY DEF SnapshotIsFresh
  <2>1. CASE q = r
    BY <2>1 DEF BeforeHalt
  <2>2. CASE q # r
    <3>1. req'[q] = req[q] /\ req[q].chan \in Channels \ {c}
      BY <1>1, <2>2 DEF BeforeHalt
    <3> QED BY <3>1 DEF RowInv, SnapshotIsFresh, BeforeHalt, Playable
  <2> QED BY <2>1, <2>2
<1>4. StoppedBeforeErase'
  <2> SUFFICES ASSUME NEW q \in Requests,
                      req'[q].at = "erase" \/ (req'[q].op = "delete" /\ req'[q].at = "purge")
               PROVE  workers'[req'[q].chan] = NoHandle
    BY DEF StoppedBeforeErase
  <2>1. CASE q = r
    BY <2>1
  <2>2. CASE q # r
    <3>1. req'[q] = req[q] /\ req[q].chan \in Channels \ {c}
      BY <1>1, <2>2
    <3> QED BY <3>1 DEF RowInv, StoppedBeforeErase
  <2> QED BY <2>1, <2>2
<1> QED BY <1>2, <1>3, <1>4 DEF RowInv

\* The handler steps that neither save, start nor delete.
LEMMA QuietHandlerKeepsRows ==
  ASSUME ControlInv, Serialised, RowInv, NEW r \in Requests,
         \/ FindRow(r, "delete", "halt") \/ FindRow(r, "stop", "halt")
         \/ FindRow(r, "purge", "purge") \/ MarkRowStopped(r)
         \/ LookUpPlaylist(r) \/ PullFails(r) \/ PullSucceeds(r) \/ PullUnrecorded(r)
         \/ PullUnreadable(r) \/ StorePlaylist(r) \/ Disconnect(r), TypeOK
  PROVE  RowInv'
<1> USE DEF NoWorkerChange
<1>1. req \in [Requests ->
        [op : AllOperations \cup {"none"}, at : Steps, chan : Channels \cup {NoChannel},
         st : RowStatus \cup {"none"}, cfg : Configs \cup {NoConfig}]]
  BY DEF ControlInv, ControlTypeOK
<1>2. ASSUME Respond(r) PROVE \A q \in Requests : q # r => req'[q] = req[q]
  BY <1>1, <1>2 DEF Respond
<1>3. ASSUME Respond(r) PROVE Idles(r)'
  BY <1>1, <1>3 DEF Respond, NoRequest, Request, Idles, BeforeHalt
<1>4. ASSUME NEW at \in {"halt", "purge", "store"}, Continue(r, at),
             at = "halt" => req[r].op \in {"delete", "stop"}, at = "purge" => req[r].op = "purge"
      PROVE  Idles(r)' /\ \A q \in Requests : q # r => req'[q] = req[q]
  <2>1. req' = [req EXCEPT ![r].at = at]
    BY <1>4 DEF Continue
  <2>2. req'[r].at = at /\ req'[r].op = req[r].op
    BY <1>1, <2>1
  <2>3. \A q \in Requests : q # r => req'[q] = req[q]
    BY <1>1, <2>1
  <2> QED BY <1>4, <2>2, <2>3 DEF Idles, BeforeHalt
<1>5. ASSUME NEW k, ContinueWith(r, "pull", "none", k)
      PROVE  Idles(r)' /\ \A q \in Requests : q # r => req'[q] = req[q]
  BY <1>1, <1>5 DEF ContinueWith, Request, Idles, BeforeHalt
<1>6. /\ ~BeforeHalt(r) /\ Idles(r)' /\ \A q \in Requests : q # r => req'[q] = req[q]
      /\ UNCHANGED <<config, unanswered>>
      /\ UNCHANGED <<workers, goroutines>>
      /\ \A c \in Channels : Playable(c) => status'[c] \in {"active", "source_error"}
  <2>1. CASE \E op \in {"delete", "stop"} : FindRow(r, op, "halt")
    BY <1>2, <1>3, <1>4, <2>1 DEF FindRow, AtStep, BeforeHalt, vars, row, Playable
  <2>2. CASE FindRow(r, "purge", "purge")
    BY <1>2, <1>3, <1>4, <2>2 DEF FindRow, AtStep, BeforeHalt, vars, row, Playable
  <2>3. CASE MarkRowStopped(r)
    BY <1>2, <1>3, <2>3 DEF MarkRowStopped, BeforeHalt, HandlerMarksStopped, SetWorkerStatus, Playable
  <2>4. CASE LookUpPlaylist(r)
    BY <1>2, <1>3, <1>5, <2>4 DEF LookUpPlaylist, AtStep, BeforeHalt, vars, row, Playable
  <2>5. CASE PullFails(r) \/ PullSucceeds(r)
    <3>1. \A c \in Channels : Playable(c) => status'[c] \in {"active", "source_error"}
      BY <2>5 DEF PullFails, PullSucceeds, PlaybackFlags, SetSourceStatus, Playable, TypeOK
    <3> QED BY <1>2, <1>3, <1>4, <2>5, <3>1 DEF PullFails, PullSucceeds, BeforeHalt, PlaybackFlags
  <2>6. CASE PullUnrecorded(r)
    BY <1>4, <2>6 DEF PullUnrecorded, BeforeHalt, vars, row, Playable
  <2>7. CASE PullUnreadable(r) \/ StorePlaylist(r) \/ Disconnect(r)
    BY <1>2, <1>3, <2>7 DEF PullUnreadable, StorePlaylist, Disconnect, BeforeHalt, vars, row, Playable
  <2> QED BY <2>1, <2>2, <2>3, <2>4, <2>5, <2>6, <2>7
<1>7. workers' = workers /\ cfg' = cfg
  BY <1>6 DEF goroutines
<1>8. \A q \in Requests :
        BeforeHalt(q) \/ req[q].at \in {"launch", "erase", "purge"} => req[q].chan \in Channels
  BY DEF BeforeHalt, ControlInv, RequestInv
<1>9. \A q \in Requests : req'[q] = req[q] \/ (~BeforeHalt(q) /\ Idles(q)')
  BY <1>6
<1> QED BY <1>6, <1>7, <1>8, <1>9, RowsRest

\* The others.
LEMMA HandlerKeepsRows ==
  ASSUME IInv, ControlInv, Serialised, RowInv, NEW r \in Requests, HandlerStep(r)
  PROVE  RowInv'
<1> USE DEF NoWorkerChange
<1>c. PICK c \in Channels : c = req[r].chan
  BY HandlerRuns
<1>0. /\ req[r].at # "none" /\ c \in Channels
      /\ \A q \in Requests \ {r} : req'[q] = req[q]
      /\ req'[r].at # "none" => req'[r].chan = c
      /\ Handled(c, r) /\ TypeOK
  BY <1>c, HandlerRuns DEF Handled, IInv
<1>1. /\ req \in [Requests ->
           [op : AllOperations \cup {"none"}, at : Steps, chan : Channels \cup {NoChannel},
            st : RowStatus \cup {"none"}, cfg : Configs \cup {NoConfig}]]
      /\ config \in [Channels -> Configs]
  BY DEF ControlInv, ControlTypeOK
<1>t. status \in [Channels -> RowStatus \cup NoRow] /\ workers \in [Channels -> Handles \cup {NoHandle}]
  BY <1>0 DEF TypeOK
<1>2. ASSUME Respond(r) PROVE req'[r].at = "none" /\ ~BeforeHalt(r)'
  BY <1>1, <1>2 DEF Respond, NoRequest, Request, BeforeHalt
<1>3. ASSUME NEW at, Continue(r, at)
      PROVE  req'[r].at = at /\ req'[r].op = req[r].op /\ req'[r].cfg = req[r].cfg /\ req'[r].st = req[r].st
  BY <1>1, <1>3 DEF Continue
<1>4. ASSUME NEW at, NEW st, NEW k, ContinueWith(r, at, st, k)
      PROVE  req'[r].at = at /\ req'[r].op = req[r].op /\ req'[r].cfg = k /\ req'[r].st = st
  BY <1>1, <1>4 DEF ContinueWith, Request
\* Unless it is about to stop the worker, the worker fits.
<1>5. c \in unanswered \/ Suits(c) \/ BeforeHalt(r)
  <2>1. ASSUME NEW q \in Requests, BeforeHalt(q), req[q].chan = c PROVE q = r
    BY <1>0, <2>1 DEF Serialised, Handled, BeforeHalt
  <2> QED BY <1>0, <2>1 DEF RowInv, WorkerFits
<1>6. ASSUME UNCHANGED <<workers, cfg, unanswered>>,
             \A d \in Channels \ {c} : status'[d] = status[d] /\ config'[d] = config[d]
      PROVE  \A d \in Channels \ {c} :
               /\ workers'[d] = workers[d] /\ (workers[d] # NoHandle => cfg'[workers[d]] = cfg[workers[d]])
               /\ status'[d] = status[d] /\ config'[d] = config[d]
               /\ d \in unanswered <=> d \in unanswered'
  BY <1>6
<1>7. ASSUME NEW st \in SavedStatus, NEW k \in Configs, CreateChannel(r, st, k) PROVE RowInv'
  <2>1. /\ req[r].at = "begin" /\ req[r].op = "create" /\ ~BeforeHalt(r)
        /\ UNCHANGED <<workers, cfg, unanswered>>
    BY <1>7 DEF CreateChannel, AtStep, BeforeHalt, CreateRow, goroutines, vars
  <2>2. CASE status[c] = "uncreated"
    <3>1. /\ status' = [status EXCEPT ![c] = st] /\ config' = [config EXCEPT ![c] = k]
          /\ IF RunsHere(st, k) THEN ContinueWith(r, "launch", st, k) ELSE Respond(r)
      BY <1>c, <1>7, <2>2 DEF CreateChannel, CreateRow
    <3>2. /\ status'[c] = st /\ config'[c] = k
          /\ \A d \in Channels \ {c} : status'[d] = status[d] /\ config'[d] = config[d]
      BY <1>0, <1>1, <1>t, <3>1
    <3>3. c \in unanswered \/ workers[c] = NoHandle
      BY <1>5, <2>1, <2>2 DEF Suits, Playable
    <3>4. c \in unanswered' \/ Suits(c)'
      BY <2>1, <3>3 DEF Suits
    <3>5. \/ req'[r].at = "none"
          \/ /\ req'[r].at = "launch" /\ req'[r].cfg = k
             /\ req'[r].st = st /\ st = "active"
      BY <1>2, <1>4, <3>1 DEF RunsHere
    <3> QED BY <1>0, <1>6, <2>1, <3>2, <3>4, <3>5, OneChannelMoves DEF BeforeHalt, Playable
  <2>3. CASE status[c] # "uncreated"
    <3>1. UNCHANGED <<status, config>> /\ Respond(r)
      BY <1>c, <1>7, <2>3 DEF CreateChannel, vars, row
    <3>2. c \in unanswered' \/ Suits(c)'
      BY <1>5, <2>1, <3>1 DEF Suits, Playable
    <3> QED BY <1>0, <1>2, <1>6, <2>1, <3>1, <3>2, OneChannelMoves
  <2> QED BY <2>2, <2>3
<1>8. ASSUME NEW st \in SavedStatus, NEW k \in Configs,
             UpdateChannel(r, st, k) \/ UpdateWithoutAnswer(r, st, k)
      PROVE RowInv'
  <2>1. /\ req[r].at = "begin" /\ req[r].op = "patch" /\ ~BeforeHalt(r)
        /\ UNCHANGED <<workers, cfg>>
    BY <1>8 DEF UpdateChannel, UpdateWithoutAnswer, AtStep, BeforeHalt, UpdateRow, goroutines, vars
  <2>2. CASE Exists(c) /\ UpdateChannel(r, st, k)
    <3>1. /\ status' = [status EXCEPT ![c] = st] /\ config' = [config EXCEPT ![c] = k]
          /\ unanswered' = unanswered \ {c} /\ ContinueWith(r, "halt", st, k)
      BY <1>c, <2>2 DEF UpdateChannel, UpdateRow
    <3>2. /\ status'[c] = st /\ config'[c] = k
          /\ \A d \in Channels \ {c} :
               /\ workers'[d] = workers[d] /\ (workers[d] # NoHandle => cfg'[workers[d]] = cfg[workers[d]])
               /\ status'[d] = status[d] /\ config'[d] = config[d]
               /\ d \in unanswered <=> d \in unanswered'
      BY <1>0, <1>1, <1>t, <2>1, <3>1
    <3>3. req'[r].at = "halt" /\ req'[r].op = "patch" /\ req'[r].cfg = k /\ req'[r].st = st
      BY <1>4, <2>1, <3>1
    <3> QED BY <1>0, <3>2, <3>3, OneChannelMoves DEF BeforeHalt, Playable
  <2>3. CASE UpdateWithoutAnswer(r, st, k)
    <3>1. /\ status' = [status EXCEPT ![c] = st] /\ config' = [config EXCEPT ![c] = k]
          /\ unanswered' = unanswered \cup {c} /\ Respond(r)
      BY <1>c, <2>3 DEF UpdateWithoutAnswer, UpdateRow
    <3>2. /\ \A d \in Channels \ {c} :
               /\ workers'[d] = workers[d] /\ (workers[d] # NoHandle => cfg'[workers[d]] = cfg[workers[d]])
               /\ status'[d] = status[d] /\ config'[d] = config[d]
               /\ d \in unanswered <=> d \in unanswered'
      BY <1>0, <1>1, <1>t, <2>1, <3>1
    <3> QED BY <1>0, <1>2, <3>1, <3>2, OneChannelMoves
  <2>4. CASE ~Exists(c) /\ UpdateChannel(r, st, k)
    <3>1. UNCHANGED <<status, config, unanswered>> /\ Respond(r)
      BY <1>c, <2>4 DEF UpdateChannel, vars, row
    <3>2. c \in unanswered' \/ Suits(c)'
      BY <1>5, <2>1, <3>1 DEF Suits, Playable
    <3> QED BY <1>0, <1>2, <1>6, <2>1, <3>1, <3>2, OneChannelMoves
  <2> QED BY <1>8, <2>2, <2>3, <2>4
<1>9. CASE ReadRow(r)
  <2>1. /\ req[r].at = "begin" /\ req[r].op = "start" /\ ~BeforeHalt(r)
        /\ UNCHANGED <<workers, cfg, unanswered, status, config>>
        /\ IF Exists(c) THEN ContinueWith(r, "launch", status[c], config[c]) ELSE Respond(r)
    BY <1>c, <1>9 DEF ReadRow, AtStep, BeforeHalt, vars, row, goroutines
  <2>2. c \in unanswered' \/ Suits(c)'
    BY <1>5, <2>1 DEF Suits, Playable
  <2>3. \/ req'[r].at = "none"
        \/ req'[r].at = "launch" /\ req'[r].cfg = config[c] /\ req'[r].st = status[c]
    BY <1>2, <1>4, <2>1
  <2> QED BY <1>0, <1>6, <2>1, <2>2, <2>3, OneChannelMoves DEF BeforeHalt, Playable
<1>10. CASE HandlerStops(r)
  <2>1. /\ req[r].at = "halt" /\ UNCHANGED <<cfg, unanswered, status, config>>
        /\ workers' = [workers EXCEPT ![c] = NoHandle] \/ (workers[c] = NoHandle /\ workers' = workers)
        /\ AfterHalt(r)
    BY <1>c, <1>10 DEF HandlerStops, StopWorker, vars, row, goroutines
  <2>2. /\ workers'[c] = NoHandle
        /\ \A d \in Channels \ {c} :
             /\ workers'[d] = workers[d] /\ (workers[d] # NoHandle => cfg'[workers[d]] = cfg[workers[d]])
             /\ status'[d] = status[d] /\ config'[d] = config[d]
             /\ d \in unanswered <=> d \in unanswered'
    BY <1>0, <1>t, <2>1
  <2>3. Suits(c)'
    BY <2>2 DEF Suits
  <2>4. \/ req'[r].at \in {"none", "purge"}
        \/ /\ req'[r].at = "launch" /\ req[r].op = "patch"
           /\ req'[r].cfg = req[r].cfg /\ req'[r].st = req[r].st
    BY <1>2, <1>3, <2>1 DEF AfterHalt
  <2>5. req[r].op = "patch" =>
          req[r].cfg = config'[c] /\ (req[r].st = "active" => Playable(c)')
    BY <1>c, <2>1 DEF RowInv, SnapshotIsFresh, BeforeHalt, Playable
  <2> QED BY <1>0, <2>2, <2>3, <2>4, <2>5, OneChannelMoves DEF BeforeHalt
<1>11. CASE HandlerStarts(r)
  <2>1. /\ req[r].at = "launch" /\ ~BeforeHalt(r) /\ Respond(r)
        /\ req[r].cfg \in Configs /\ UNCHANGED <<unanswered, config>>
        /\ req[r].cfg = config[c] /\ (req[r].st = "active" => Playable(c))
    BY <1>c, <1>11 DEF HandlerStarts, BeforeHalt, ControlInv, RequestInv, RowInv, SnapshotIsFresh
  <2>2. CASE \E h \in Handles : StartWorker(c, req[r].st, req[r].cfg, FALSE, h)
    <3>1. PICK h \in Handles, k \in Configs : k = req[r].cfg /\ Claims(c, k, h) /\ req[r].st = "active"
      BY <2>1, <2>2 DEF StartWorker, Claims, row
    <3>2. /\ workers'[c] = h /\ cfg'[h] = k
          /\ \A d \in Channels \ {c} :
               workers'[d] = workers[d] /\ (workers[d] # NoHandle => cfg'[workers[d]] = cfg[workers[d]])
          /\ UNCHANGED status
      BY <1>0, <3>1, ClaimsGive
    <3>3. Suits(c)'
      BY <2>1, <3>1, <3>2 DEF Suits, Playable
    <3> QED BY <1>0, <1>2, <2>1, <3>2, <3>3, OneChannelMoves
  <2>3. CASE UNCHANGED vars
    <3>1. UNCHANGED <<workers, cfg, status>>
      BY <2>3 DEF vars, goroutines, row
    <3>2. c \in unanswered' \/ Suits(c)'
      BY <1>5, <2>1, <3>1 DEF Suits, Playable
    <3> QED BY <1>0, <1>2, <1>6, <2>1, <3>1, <3>2, OneChannelMoves
  <2> QED BY <1>c, <1>11, <2>2, <2>3 DEF HandlerStarts
<1>12. CASE PurgeChannel(r)
  <2>1. /\ req[r].at = "purge" /\ ~BeforeHalt(r)
        /\ UNCHANGED <<workers, cfg, unanswered, status, config>>
    BY <1>12 DEF PurgeChannel, BeforeHalt, vars, row, goroutines
  <2>2. c \in unanswered' \/ Suits(c)'
    BY <1>5, <2>1 DEF Suits, Playable
  <2>3. req'[r].at \in {"none", "mark"} \/ (req'[r].at = "erase" /\ req[r].op = "delete")
    BY <1>2, <1>3, <1>12 DEF PurgeChannel
  <2>4. req[r].op = "delete" => workers'[c] = NoHandle
    BY <1>c, <2>1 DEF RowInv, StoppedBeforeErase
  <2> QED BY <1>0, <1>6, <2>1, <2>2, <2>3, <2>4, OneChannelMoves DEF BeforeHalt
<1>13. CASE DeleteChannel(r)
  <2>1. /\ req[r].at = "erase" /\ ~BeforeHalt(r) /\ Respond(r)
        /\ UNCHANGED <<workers, cfg, unanswered, config>>
        /\ status' = [status EXCEPT ![c] = "deleted"] \/ status' = status
    BY <1>c, <1>13 DEF DeleteChannel, DeleteRow, BeforeHalt, vars, row, goroutines
  <2>2. Suits(c)'
    BY <1>c, <2>1 DEF RowInv, StoppedBeforeErase, Suits
  <2>3. \A d \in Channels \ {c} : status'[d] = status[d] /\ config'[d] = config[d]
    BY <1>t, <2>1
  <2> QED BY <1>0, <1>2, <1>6, <2>1, <2>2, <2>3, OneChannelMoves
<1> QED
  BY <1>0, <1>7, <1>8, <1>9, <1>10, <1>11, <1>12, <1>13, QuietHandlerKeepsRows DEF HandlerStep

LEMMA InitRows == ControlInit => RowInv
  BY RelayWorkersAssumption
     DEF ControlInit, Init, RowInv, WorkerFits, Suits, SnapshotIsFresh, StoppedBeforeErase,
         BeforeHalt, NoRequest, Request

LEMMA StepRows ==
  IInv /\ ControlInv /\ BootInv /\ Serialised /\ RowInv /\ [ControlNext]_allVars => RowInv'
<1> SUFFICES ASSUME IInv, ControlInv, BootInv, Serialised, RowInv, [ControlNext]_allVars
             PROVE  RowInv'
  OBVIOUS
<1> USE DEF NoWorkerChange
<1>0. \A q \in Requests :
        BeforeHalt(q) \/ req[q].at \in {"launch", "erase", "purge"} => req[q].chan \in Channels
  BY DEF BeforeHalt, ControlInv, RequestInv
<1>1. ASSUME NEW h \in Handles, WorkerStep(h) PROVE RowInv'
  <2>1. /\ GoroutineStep(h) \/ FfmpegExit(h)
        /\ UNCHANGED <<config, unanswered, req>>
    BY <1>1 DEF WorkerStep
  <2>2. \A c \in Channels :
          /\ workers'[c] = workers[c] \/ workers'[c] = NoHandle
          /\ workers'[c] # NoHandle => cfg'[workers[c]] = cfg[workers[c]]
          /\ Playable(c) => status'[c] \in {"active", "source_error"}
    BY <2>1, GoroutineRespects
  <2> QED BY <1>0, <2>1, <2>2, RowsRest
<1>2. ASSUME UNCHANGED <<config, unanswered, cfg, status>>,
             \A q \in Requests : req'[q] = req[q] \/ (~BeforeHalt(q) /\ Idles(q)'),
             \A c \in Channels : workers'[c] = workers[c] \/ workers'[c] = NoHandle
      PROVE  RowInv'
  <2>1. \A c \in Channels :
          /\ workers'[c] # NoHandle => cfg'[workers[c]] = cfg[workers[c]]
          /\ Playable(c) => status'[c] \in {"active", "source_error"}
    BY <1>2 DEF Playable
  <2> QED BY <1>0, <1>2, <2>1, RowsRest
<1>3. ASSUME NEW r \in Requests, NEW op \in Operations, NEW c \in Channels, Submit(r, op, c)
      PROVE  RowInv'
  <2>1. /\ req[r] = NoRequest
        /\ req' = [req EXCEPT ![r] = Request(op, "begin", c, "none", NoConfig)]
        /\ UNCHANGED <<workers, cfg, status, config, unanswered>>
    BY <1>3 DEF Submit, vars, row, goroutines
  <2>2. req'[r].at = "begin" /\ \A q \in Requests \ {r} : req'[q] = req[q]
    BY <2>1 DEF ControlInv, ControlTypeOK, Request
  <2>3. ~BeforeHalt(r) /\ Idles(r)'
    BY <2>1, <2>2 DEF BeforeHalt, Idles, NoRequest, Request
  <2> QED BY <1>2, <2>1, <2>2, <2>3
<1>4. ASSUME NEW r \in Requests, HandlerStep(r) PROVE RowInv'
  BY <1>4, HandlerKeepsRows
<1>5. ASSUME NEW c \in Channels, BootStarts(c) PROVE RowInv'
  <2>1. PICK h \in Handles, k \in Configs : k = config[c] /\ Claims(c, k, h)
    BY <1>5 DEF BootStarts, StartWorker, Claims, row, ControlInv, ControlTypeOK
  <2>2. /\ UNCHANGED <<config, unanswered, req>> /\ Playable(c)
        /\ \A r \in Requests : req[r].at = "none"
    BY <1>5 DEF BootStarts, BootInv, BootIsQuiet
  <2>3. /\ workers'[c] = h /\ cfg'[h] = k /\ status' = status
        /\ \A d \in Channels \ {c} :
             workers'[d] = workers[d] /\ (workers[d] # NoHandle => cfg'[workers[d]] = cfg[workers[d]])
    BY <2>1, ClaimsGive
  <2>4. \A d \in Channels \ unanswered : Suits(d)
    BY <2>2 DEF RowInv, WorkerFits, BeforeHalt
  <2>5. WorkerFits'
    BY <2>1, <2>2, <2>3, <2>4 DEF WorkerFits, Suits, Playable
  <2>6. SnapshotIsFresh' /\ StoppedBeforeErase'
    BY <2>2 DEF SnapshotIsFresh, StoppedBeforeErase, BeforeHalt
  <2> QED BY <2>5, <2>6 DEF RowInv
<1>6. CASE Listen \/ Terminate
  BY <1>2, <1>6 DEF Listen, Terminate, Signal, vars, row, goroutines
<1>7. CASE ShutDown
  BY <1>2, <1>7 DEF ShutDown, StopAll, vars, row, goroutines
<1>8. CASE Reboot
  <2>1. /\ workers' = [c \in Channels |-> NoHandle] /\ unanswered' = {}
        /\ req' = [r \in Requests |-> NoRequest]
    BY <1>8 DEF Reboot, Restart
  <2> QED BY <2>1 DEF RowInv, WorkerFits, Suits, SnapshotIsFresh, StoppedBeforeErase,
                      BeforeHalt, NoRequest, Request
<1>9. CASE UNCHANGED allVars
  BY <1>2, <1>9 DEF allVars, outside, vars, row, goroutines
<1> QED
  BY <1>1, <1>3, <1>4, <1>5, <1>6, <1>7, <1>8, <1>9 DEF ControlNext

LEMMA BootInvariant == ControlSpec => []BootInv
  BY InitBoot, StepBoot, ControlInvariant, PTL DEF ControlSpec

LEMMA RowInvariant == ControlSpec /\ []Serialised => []RowInv
  BY InitRows, StepRows, BootInvariant, ControlInvariant, PTL DEF ControlSpec

-----------------------------------------------------------------------------
\* StartActiveWorkers (cmd/api main): the server does not listen before every active
\* ingest row has its worker; nothing stops a worker meanwhile but a signal.
THEOREM BootStartsEveryActiveRow == ControlSpec => BootResumesActive
<1> DEFINE Resumed ==
      phase = "booting" /\ phase' = "serving" /\ ~rootDown =>
        \A c \in Channels :
          RunsHere(status[c], config[c]) /\ Mode[config[c]] = "ingest" => workers[c] # NoHandle
<1>1. IInv /\ ControlInv /\ BootInv /\ [ControlNext]_allVars => [Resumed]_allVars
  <2> SUFFICES ASSUME ControlInv, BootInv, ControlNext, phase = "booting", phase' = "serving", ~rootDown,
                      NEW c \in Channels, RunsHere(status[c], config[c]),
                      Mode[config[c]] = "ingest"
               PROVE  workers[c] # NoHandle
    OBVIOUS
  <2>1. todo = {}
    <3>1. ASSUME NEW r \in Requests, HandlerStep(r) PROVE phase' = phase
      BY <3>1, HandlerShape
    <3> QED BY <3>1 DEF ControlNext, WorkerStep, Submit, BootStarts, Listen, Terminate,
                        ShutDown, Reboot, QueryAnswered, QueryFailed
  <2> QED BY <2>1 DEF BootInv, BootResumes, Resumes
<1> HIDE DEF Resumed
<1>2. ControlSpec => [][Resumed]_allVars
  BY <1>1, BootInvariant, ControlInvariant, PTL DEF ControlSpec
<1> QED BY <1>2 DEF BootResumesActive, Resumed

\* While the requests for a channel come one after the other, whatever is requested for
\* the others, a worker that runs when nothing is on its way has a row that is neither
\* deleted nor disabled.  (With a start that overlaps a DELETE it need not.)
THEOREM OneClientLeavesNoOrphan == ControlSpec /\ []Serialised => []NoWorkerForDeadRow
<1>1. RowInv => NoWorkerForDeadRow
  <2> SUFFICES ASSUME RowInv, Quiescent, NEW c \in Channels \ unanswered, workers[c] # NoHandle
               PROVE  Playable(c)
    BY DEF NoWorkerForDeadRow, Playable
  <2>1. \A r \in Requests : ~BeforeHalt(r)
    BY DEF Quiescent, BeforeHalt, NoRequest, Request
  <2> QED BY <2>1 DEF RowInv, WorkerFits, Suits
<1> QED BY <1>1, RowInvariant, PTL

\* ...and works from the configuration that the row has now.
THEOREM OneClientLeavesNoStaleWorker == ControlSpec /\ []Serialised => []WorkerRunsRowConfig
<1>1. RowInv => WorkerRunsRowConfig
  <2> SUFFICES ASSUME RowInv, Quiescent, NEW c \in Channels \ unanswered, workers[c] # NoHandle
               PROVE  cfg[workers[c]] = config[c]
    BY DEF WorkerRunsRowConfig
  <2>1. \A r \in Requests : ~BeforeHalt(r)
    BY DEF Quiescent, BeforeHalt, NoRequest, Request
  <2> QED BY <2>1 DEF RowInv, WorkerFits, Suits
<1> QED BY <1>1, RowInvariant, PTL

=============================================================================
