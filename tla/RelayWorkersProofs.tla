-------------------------- MODULE RelayWorkersProofs --------------------------
(***************************************************************************)
(* RelayWorkers for every set of channels, handles and configurations.     *)
(*                                                                         *)
(* The argument: EntryIsActive and ActiveHasEntry together are inductive   *)
(* once it is known that a goroutine that runs has a channel.  They make   *)
(* m.workers the inverse of "the active worker of a channel", from which   *)
(* AtMostOneActive, the action property and the refinement of WorkerSlot   *)
(* follow.                                                                 *)
(***************************************************************************)
EXTENDS RelayWorkers, TLAPS

LiveHasChannel == \A h \in Handles : pc[h] # "idle" => chan[h] \in Channels

IdleIsFresh ==
  \A h \in Handles : pc[h] = "idle" => h \notin cancelled /\ chan[h] = NoChannel

IInv == TypeOK /\ LiveHasChannel /\ IdleIsFresh /\ EntryIsActive /\ ActiveHasEntry

\* The steps that leave the manager and its goroutines alone.
OnlyRows == RowWrite \/ Playback

\* The steps of a goroutine before its deferred function.
Walk(h) == Launch(h) \/ IngestStep(h) \/ TransmuxStep(h) \/ FfmpegExit(h)

\* A goroutine's row statement on channel c: typed, never to disabled, and without
\* effect on a missing row.
RowStatement(c) ==
  /\ status' \in [Channels -> RowStatus \cup NoRow]
  /\ workerStatus' \in [Channels -> WorkerStatus]
  /\ \A d \in Channels : d # c \/ ~Exists(d) =>
        status'[d] = status[d] /\ workerStatus'[d] = workerStatus[d]
  /\ \A d \in Channels : Exists(d) => status'[d] \in {status[d], "active", "source_error"}

USE DEF PCs, Live, Owning, Working, IngestSteps, TransmuxSteps

-----------------------------------------------------------------------------
\* SetWorkerStatus writes a legal row, and only the row it names.
LEMMA SetWorkerStatusRow ==
  ASSUME TypeOK, NEW c, NEW ws \in WorkerStatus, SetWorkerStatus(c, ws)
  PROVE  RowStatement(c)
  BY DEF TypeOK, SetWorkerStatus, RowStatement, Exists

\* So does SetSourceStatus.
LEMMA SetSourceStatusRow ==
  ASSUME TypeOK, NEW c, NEW failed \in BOOLEAN, SetSourceStatus(c, failed)
  PROVE  RowStatement(c)
  BY DEF TypeOK, SetSourceStatus, RowStatement, Exists, RowStatus

\* A step that leaves the rows alone is a row statement too.
LEMMA NoRowStatement ==
  ASSUME TypeOK, NEW c, UNCHANGED row
  PROVE  RowStatement(c)
  BY DEF TypeOK, RowStatement, Exists, row

\* What every step of a goroutine before its deferred function has in common.
LEMMA WalkShape ==
  ASSUME TypeOK, NEW h \in Handles, Walk(h)
  PROVE  /\ pc[h] \in Working
         /\ \E to \in Owning : pc' = [pc EXCEPT ![h] = to]
         /\ UNCHANGED <<workers, chan, cfg, booted, cancelled, rootDown, leftover>>
         /\ RowStatement(chan[h])
<1> DEFINE Shape(from, to) == Goto(h, from, to) /\ RowStatement(chan[h])
<1>1. \A from \in Working, to \in Owning : Shape(from, to) =>
        /\ pc[h] \in Working
        /\ \E p \in Owning : pc' = [pc EXCEPT ![h] = p]
        /\ UNCHANGED <<workers, chan, cfg, booted, cancelled, rootDown, leftover>>
        /\ RowStatement(chan[h])
  BY DEF Goto
<1>2. \A from, to : GotoQuietly(h, from, to) => Shape(from, to)
  BY NoRowStatement DEF GotoQuietly
<1>3. \A from, to : \A ws \in WorkerStatus : GotoMarking(h, from, to, ws) => Shape(from, to)
  BY SetWorkerStatusRow, NoRowStatement DEF GotoMarking
<1>4. \A from, to : \A e \in BOOLEAN : GotoFlagging(h, from, to, e) => Shape(from, to)
  BY SetSourceStatusRow, NoRowStatement DEF GotoFlagging
<1>5. {"running", "error"} \subseteq WorkerStatus
  BY DEF WorkerStatus
<1> SUFFICES \E from \in Working, to \in Owning : Shape(from, to)
  BY <1>1
<1> HIDE DEF Shape
<1>6. CASE Launch(h)
  <2>1. CASE MarkRunning(h)
    <3>1. Shape("claimed", "begin")
      BY <1>2, <1>3, <1>5, <2>1 DEF MarkRunning
    <3> QED BY <3>1
  <2>2. CASE Begin(h)
    <3>1. \E to \in {"mkdir", "fetch"} : GotoMarking(h, "begin", to, "running")
      BY <2>2 DEF Begin
    <3> QED BY <3>1, <1>3, <1>5
  <2> QED BY <1>6, <2>1, <2>2 DEF Launch
<1>7. CASE IngestStep(h)
  <2>1. CASE FetchOk(h) \/ FetchFail(h) \/ RewriteFail(h) \/ PublishPlaylist(h)
             \/ Poll(h) \/ LeaveWait(h)
    BY <2>1, <1>2 DEF FetchOk, FetchFail, RewriteFail, PublishPlaylist, Poll, LeaveWait
  <2>2. CASE RecordSource(h)
    <3>1. Shape("fetched", "rewritten")
      BY <2>2, <1>2, <1>4 DEF RecordSource
    <3> QED BY <3>1
  <2>3. CASE MarkCycleOk(h) \/ MarkCycleFailed(h)
    BY <2>3, <1>3, <1>5 DEF MarkCycleOk, MarkCycleFailed
  <2>4. CASE FlagSource(h)
    BY <2>4, <1>4 DEF FlagSource
  <2> QED BY <1>7, <2>1, <2>2, <2>3, <2>4 DEF IngestStep
<1>8. CASE TransmuxStep(h) \/ FfmpegExit(h)
  <2>1. CASE MkdirOk(h) \/ LeaveTop(h) \/ PassTop(h) \/ SpawnOk(h) \/ SpawnFail(h)
             \/ FfmpegExit(h) \/ FfmpegKilled(h) \/ Backoff(h) \/ Retry(h) \/ LeaveBackoff(h)
    BY <2>1, <1>2 DEF MkdirOk, LeaveTop, PassTop, SpawnOk, SpawnFail, FfmpegExit,
                      FfmpegKilled, Backoff, Retry, LeaveBackoff
  <2>2. CASE MkdirFail(h) \/ MarkSpawned(h) \/ MarkDown(h)
    BY <2>2, <1>3, <1>5 DEF MkdirFail, MarkSpawned, MarkDown
  <2>3. CASE AutoDisable(h)
    BY <2>3, <1>4 DEF AutoDisable
  <2> QED BY <1>8, <2>1, <2>2, <2>3 DEF TransmuxStep
<1> QED BY <1>6, <1>7, <1>8 DEF Walk

\* What the row statements of the handlers and of playback have in common.
LEMMA OnlyRowsShape ==
  ASSUME TypeOK, OnlyRows
  PROVE  /\ UNCHANGED <<workers, pc, chan, cfg, booted, cancelled, rootDown, leftover>>
         /\ status' \in [Channels -> RowStatus \cup NoRow]
         /\ workerStatus' \in [Channels -> WorkerStatus]
         /\ \A c \in Channels :
              /\ status'[c] = "uncreated" => status[c] = "uncreated"
              /\ workerStatus'[c] = workerStatus[c] \/ workerStatus'[c] = "stopped"
              /\ Exists(c)' => Exists(c) \/ status[c] = "uncreated"
<1>1. CASE \E c \in Channels, st \in RowStatus : CreateRow(c, st) \/ UpdateRow(c, st)
  BY <1>1 DEF CreateRow, UpdateRow, TypeOK, Exists, RowStatus, NoRow, goroutines
<1>2. CASE \E c \in Channels : DeleteRow(c)
  BY <1>2 DEF DeleteRow, TypeOK, Exists, RowStatus, NoRow, goroutines
<1>3. CASE \E c \in Channels : HandlerMarksStopped(c)
  BY <1>3 DEF HandlerMarksStopped, SetWorkerStatus, TypeOK, Exists, RowStatus, NoRow,
              WorkerStatus, goroutines
<1>4. CASE \E c \in Channels, failed \in BOOLEAN : PlaybackFlags(c, failed)
  BY <1>4 DEF PlaybackFlags, SetSourceStatus, TypeOK, Exists, RowStatus, NoRow, goroutines
<1> QED BY <1>1, <1>2, <1>3, <1>4 DEF OnlyRows, RowWrite, Playback

\* Next, by the shape of its steps.
LEMMA NextCases ==
  ASSUME Next
  PROVE  \/ \E h \in Handles : Walk(h) \/ ReleaseWorker(h) \/ MarkStopped(h)
         \/ \E c \in Channels, k \in Configs, boot \in BOOLEAN, h \in Handles :
              StartWorker(c, "active", k, boot, h)
         \/ \E c \in Channels : StopWorker(c)
         \/ StopAll \/ OnlyRows \/ Signal \/ Restart
  BY DEF Next, GoroutineStep, Deferred, Walk, ManagerCall, OnlyRows

-----------------------------------------------------------------------------
\* The initial states satisfy the inductive invariant.
LEMMA InitIInv == Init => IInv
<1> SUFFICES ASSUME Init PROVE IInv
  OBVIOUS
<1>1. status \in [Channels -> RowStatus \cup NoRow]
  BY DEF Init, RowStatus, NoRow
<1>2. TypeOK
  BY <1>1 DEF Init, TypeOK, WorkerStatus
<1>3. LiveHasChannel /\ IdleIsFresh /\ EntryIsActive /\ ActiveHasEntry
  BY DEF Init, LiveHasChannel, IdleIsFresh, EntryIsActive, ActiveHasEntry, Active
<1> QED BY <1>2, <1>3 DEF IInv

\* One step per kind of action, as NextCases lists them.
LEMMA StepIInv == IInv /\ [Next]_vars => IInv'
<1> SUFFICES ASSUME IInv, [Next]_vars PROVE IInv'
  OBVIOUS
<1> USE RelayWorkersAssumption
<1>1. ASSUME NEW h \in Handles, Walk(h) PROVE IInv'
  <2>1. /\ pc[h] \in Working
        /\ UNCHANGED <<workers, chan, cfg, booted, cancelled, rootDown, leftover>>
        /\ RowStatement(chan[h])
    BY <1>1, WalkShape DEF IInv
  <2>2. PICK to \in Owning : pc' = [pc EXCEPT ![h] = to]
    BY <1>1, WalkShape DEF IInv
  <2>3. TypeOK'
    BY <2>1, <2>2 DEF IInv, TypeOK, RowStatement
  <2>4. LiveHasChannel' /\ IdleIsFresh'
    BY <2>1, <2>2 DEF IInv, TypeOK, LiveHasChannel, IdleIsFresh
  <2>5. \A g \in Handles : Active(g)' <=> Active(g)
    BY <2>1, <2>2 DEF IInv, TypeOK, Active
  <2>6. EntryIsActive' /\ ActiveHasEntry'
    BY <2>1, <2>5 DEF IInv, TypeOK, EntryIsActive, ActiveHasEntry
  <2> QED BY <2>3, <2>4, <2>6 DEF IInv
<1>2. ASSUME NEW h \in Handles, ReleaseWorker(h) PROVE IInv'
  <2>1. TypeOK'
    BY <1>2 DEF IInv, TypeOK, ReleaseWorker, row
  <2>2. LiveHasChannel' /\ IdleIsFresh'
    BY <1>2 DEF IInv, TypeOK, LiveHasChannel, IdleIsFresh, ReleaseWorker
  <2>3. chan[h] \in Channels /\ ~Active(h)' /\ \A g \in Handles \ {h} : Active(g)' <=> Active(g)
    BY <1>2 DEF IInv, TypeOK, LiveHasChannel, ReleaseWorker, Active
  <2>4. EntryIsActive' /\ ActiveHasEntry'
    BY <1>2, <2>3 DEF IInv, TypeOK, EntryIsActive, ActiveHasEntry, ReleaseWorker
  <2> QED BY <2>1, <2>2, <2>4 DEF IInv
<1>3. ASSUME NEW h \in Handles, MarkStopped(h) PROVE IInv'
  <2>1. RowStatement(chan[h])
    BY <1>3, SetWorkerStatusRow, NoRowStatement DEF MarkStopped, IInv, WorkerStatus
  <2>2. TypeOK'
    <3>1. leftover' \in SUBSET Channels
      BY <1>3 DEF IInv, TypeOK, LiveHasChannel, MarkStopped
    <3> QED BY <1>3, <2>1, <3>1 DEF IInv, TypeOK, MarkStopped, RowStatement
  <2>3. LiveHasChannel' /\ IdleIsFresh'
    BY <1>3 DEF IInv, TypeOK, LiveHasChannel, IdleIsFresh, MarkStopped
  <2>4. ~Active(h) /\ \A g \in Handles : Active(g)' <=> Active(g)
    BY <1>3 DEF IInv, TypeOK, MarkStopped, Active
  <2>5. EntryIsActive' /\ ActiveHasEntry'
    BY <1>3, <2>4 DEF IInv, TypeOK, EntryIsActive, ActiveHasEntry, MarkStopped
  <2> QED BY <2>2, <2>3, <2>5 DEF IInv
<1>4. ASSUME NEW c \in Channels, NEW k \in Configs, NEW boot \in BOOLEAN, NEW h \in Handles,
             StartWorker(c, "active", k, boot, h)
      PROVE  IInv'
  <2>1. TypeOK'
    BY <1>4 DEF IInv, TypeOK, StartWorker, row
  <2>2. LiveHasChannel' /\ IdleIsFresh'
    BY <1>4 DEF IInv, TypeOK, LiveHasChannel, IdleIsFresh, StartWorker
  <2>3. Active(h)' /\ ~Active(h) /\ \A g \in Handles \ {h} : Active(g)' <=> Active(g)
    BY <1>4 DEF IInv, TypeOK, IdleIsFresh, StartWorker, Active
  <2>4. EntryIsActive'
    BY <1>4, <2>3 DEF IInv, TypeOK, EntryIsActive, StartWorker
  <2>5. ActiveHasEntry'
    BY <1>4, <2>3 DEF IInv, TypeOK, ActiveHasEntry, StartWorker
  <2> QED BY <2>1, <2>2, <2>4, <2>5 DEF IInv
<1>5. ASSUME NEW c \in Channels, StopWorker(c) PROVE IInv'
  <2>1. TypeOK' /\ LiveHasChannel'
    BY <1>5 DEF IInv, TypeOK, LiveHasChannel, StopWorker, row
  <2>2. IdleIsFresh'
    BY <1>5 DEF IInv, TypeOK, IdleIsFresh, EntryIsActive, Active, StopWorker
  <2>3. \A g \in Handles : Active(g)' <=> Active(g) /\ g # workers[c]
    BY <1>5 DEF IInv, TypeOK, StopWorker, Active
  <2>4. EntryIsActive'
    BY <1>5, <2>3 DEF IInv, TypeOK, EntryIsActive, StopWorker
  <2>5. ActiveHasEntry'
    BY <1>5, <2>3 DEF IInv, TypeOK, ActiveHasEntry, StopWorker
  <2> QED BY <2>1, <2>2, <2>4, <2>5 DEF IInv
<1>6. CASE StopAll
  <2>1. TypeOK' /\ LiveHasChannel'
    BY <1>6 DEF IInv, TypeOK, LiveHasChannel, StopAll, row
  <2>2. IdleIsFresh'
    BY <1>6 DEF IInv, TypeOK, IdleIsFresh, EntryIsActive, Active, StopAll
  <2>3. \A g \in Handles : ~Active(g)'
    BY <1>6 DEF IInv, TypeOK, ActiveHasEntry, StopAll, Active
  <2>4. EntryIsActive' /\ ActiveHasEntry'
    BY <1>6, <2>3 DEF EntryIsActive, ActiveHasEntry, StopAll
  <2> QED BY <2>1, <2>2, <2>4 DEF IInv
<1>7. CASE OnlyRows
  BY <1>7, OnlyRowsShape DEF IInv, TypeOK, LiveHasChannel, IdleIsFresh, EntryIsActive,
                             ActiveHasEntry, Active
<1>8. CASE Signal
  BY <1>8 DEF Signal, IInv, TypeOK, LiveHasChannel, IdleIsFresh, EntryIsActive,
              ActiveHasEntry, Active, row, goroutines
<1>9. CASE Restart
  BY <1>9 DEF Restart, IInv, TypeOK, LiveHasChannel, IdleIsFresh, EntryIsActive,
              ActiveHasEntry, Active, row
<1>10. CASE UNCHANGED vars
  BY <1>10 DEF vars, row, goroutines, IInv, TypeOK, LiveHasChannel, IdleIsFresh,
               EntryIsActive, ActiveHasEntry, Active
<1> QED
  BY <1>1, <1>2, <1>3, <1>4, <1>5, <1>6, <1>7, <1>8, <1>9, <1>10, NextCases

\* The inductive invariant holds of every reachable state.
THEOREM InvariantHolds == Spec => []IInv
  BY InitIInv, StepIInv, PTL DEF Spec

\* Every variable of the manager and of the rows keeps its type.
THEOREM TypeCorrect == Spec => []TypeOK
<1>1. IInv => TypeOK
  BY DEF IInv
<1> QED BY <1>1, InvariantHolds, PTL

\* m.workers names exactly the active workers: an entry is an active worker of
\* its channel, and an active worker has an entry.
THEOREM RegistryIsExact == Spec => [](EntryIsActive /\ ActiveHasEntry)
<1>1. IInv => EntryIsActive /\ ActiveHasEntry
  BY DEF IInv
<1> QED BY <1>1, InvariantHolds, PTL

\* A worker nobody has cancelled is in m.workers, so StopWorker and StopAll reach it.
THEOREM ActiveIsReachable == Spec => []ActiveHasEntry
<1>1. IInv => ActiveHasEntry
  BY DEF IInv
<1> QED BY <1>1, InvariantHolds, PTL

\* Two workers nobody has cancelled never serve the same channel: both would be
\* the entry of that channel.
THEOREM NoDuplicateWorker == Spec => []AtMostOneActive
<1>1. IInv => AtMostOneActive
  BY DEF IInv, AtMostOneActive, ActiveHasEntry
<1> QED BY <1>1, InvariantHolds, PTL

-----------------------------------------------------------------------------
\* An entry never changes hands: it goes away, and only with the worker it names.
THEOREM NoHandover == Spec => EntryLeavesWithItsWorker
<1> DEFINE Leaves ==
      \A c \in Channels :
        workers[c] # NoHandle /\ workers'[c] # workers[c] =>
          /\ workers'[c] = NoHandle
          /\ pc'[workers[c]] \in {"final", "idle"} \/ workers[c] \in cancelled'
<1>1. IInv /\ [Next]_vars => Leaves
  <2> SUFFICES ASSUME IInv, [Next]_vars PROVE Leaves
    OBVIOUS
  <2>1. ASSUME NEW h \in Handles, Walk(h) PROVE Leaves
    BY <2>1, WalkShape DEF IInv
  <2>2. ASSUME NEW h \in Handles, ReleaseWorker(h) PROVE Leaves
    BY <2>2 DEF ReleaseWorker, IInv, TypeOK
  <2>3. ASSUME NEW h \in Handles, MarkStopped(h) PROVE Leaves
    BY <2>3 DEF MarkStopped
  <2>4. ASSUME NEW c \in Channels, NEW k \in Configs, NEW boot \in BOOLEAN,
               NEW h \in Handles, StartWorker(c, "active", k, boot, h)
        PROVE  Leaves
    BY <2>4 DEF StartWorker, IInv, TypeOK
  <2>5. ASSUME NEW c \in Channels, StopWorker(c) PROVE Leaves
    BY <2>5 DEF StopWorker, IInv, TypeOK
  <2>6. CASE StopAll
    BY <2>6 DEF StopAll, IInv, TypeOK
  <2>7. CASE OnlyRows
    BY <2>7, OnlyRowsShape DEF IInv
  <2>8. CASE Signal \/ UNCHANGED vars
    BY <2>8 DEF Signal, vars
  <2>9. CASE Restart
    BY <2>9 DEF Restart, IInv, TypeOK
  <2> QED BY <2>1, <2>2, <2>3, <2>4, <2>5, <2>6, <2>7, <2>8, <2>9, NextCases
<1>2. IInv /\ [Next]_vars => [Leaves]_vars
  BY <1>1
<1> QED BY <1>2, InvariantHolds, PTL DEF Spec, EntryLeavesWithItsWorker

-----------------------------------------------------------------------------
(* A row that has not been created yet still has the default worker status.  *)

UncreatedIsStopped ==
  \A c \in Channels : status[c] = "uncreated" => workerStatus[c] = "stopped"

Unserved(c) == \A h \in Handles : chan[h] # c

StoppedInv == UncreatedIsStopped /\ IdleMeansStopped

\* Both are preserved: no step serves a channel less without its last statement.
LEMMA StepStoppedInv == IInv /\ StoppedInv /\ [Next]_vars => StoppedInv'
<1> SUFFICES ASSUME IInv, StoppedInv, [Next]_vars PROVE StoppedInv'
  OBVIOUS
<1> USE RelayWorkersAssumption
<1>1. ASSUME NEW h \in Handles, Walk(h) PROVE StoppedInv'
  <2>1. chan[h] \in Channels /\ UNCHANGED <<chan, leftover>> /\ RowStatement(chan[h])
    BY <1>1, WalkShape DEF IInv, LiveHasChannel
  <2>2. ASSUME NEW c \in Channels, status'[c] = "uncreated" PROVE workerStatus'[c] = "stopped"
    BY <2>1, <2>2 DEF RowStatement, StoppedInv, UncreatedIsStopped, Exists, IInv, TypeOK,
                      RowStatus, NoRow
  <2>3. ASSUME NEW c \in Channels \ leftover, Exists(c)', Unserved(c)
        PROVE  workerStatus'[c] = "stopped"
    BY <2>1, <2>3 DEF RowStatement, StoppedInv, IdleMeansStopped, Exists, Unserved
  <2> QED BY <2>1, <2>2, <2>3 DEF StoppedInv, UncreatedIsStopped, IdleMeansStopped, Unserved
<1>2. ASSUME NEW h \in Handles, ReleaseWorker(h) PROVE StoppedInv'
  BY <1>2 DEF ReleaseWorker, row, StoppedInv, UncreatedIsStopped, IdleMeansStopped, Exists
<1>3. ASSUME NEW h \in Handles, MarkStopped(h) PROVE StoppedInv'
  <2>1. chan[h] \in Channels /\ RowStatement(chan[h])
    BY <1>3, SetWorkerStatusRow, NoRowStatement
       DEF MarkStopped, IInv, LiveHasChannel, WorkerStatus
  <2>2. UncreatedIsStopped'
    BY <1>3, <2>1 DEF MarkStopped, SetWorkerStatus, row, StoppedInv, UncreatedIsStopped, IInv,
                      TypeOK
  <2>3. ASSUME NEW c \in Channels \ leftover', Exists(c)', Unserved(c)'
        PROVE  workerStatus'[c] = "stopped"
    <3>1. CASE c = chan[h]
      BY <1>3, <2>3, <3>1 DEF MarkStopped, SetWorkerStatus, Exists, IInv, TypeOK
    <3>2. CASE c # chan[h]
      <4>1. c \notin leftover /\ Unserved(c) /\ Exists(c) /\ workerStatus'[c] = workerStatus[c]
        BY <1>3, <2>1, <2>3, <3>2 DEF MarkStopped, SetWorkerStatus, row, Unserved, Exists,
                                      IInv, TypeOK
      <4> QED BY <4>1 DEF StoppedInv, IdleMeansStopped, Unserved
    <3> QED BY <3>1, <3>2
  <2> QED BY <2>2, <2>3 DEF StoppedInv, IdleMeansStopped, Unserved
<1>4. ASSUME NEW c \in Channels, NEW k \in Configs, NEW boot \in BOOLEAN, NEW h \in Handles,
             StartWorker(c, "active", k, boot, h)
      PROVE  StoppedInv'
  <2>1. ASSUME NEW d \in Channels, Unserved(d)' PROVE Unserved(d)
    <3>1. pc[h] = "idle" /\ d # c
      BY <1>4, <2>1 DEF StartWorker, Unserved, IInv, TypeOK
    <3>2. ASSUME NEW g \in Handles, chan[g] = d PROVE FALSE
      <4>1. CASE g # h
        BY <1>4, <2>1, <3>2, <4>1 DEF StartWorker, Unserved, IInv, TypeOK
      <4>2. CASE g = h
        BY <3>1, <3>2, <4>2 DEF IInv, IdleIsFresh
      <4> QED BY <4>1, <4>2
    <3> QED BY <3>2 DEF Unserved
  <2> QED BY <1>4, <2>1 DEF StartWorker, row, StoppedInv, UncreatedIsStopped, IdleMeansStopped,
                            Exists, Unserved
<1>5. ASSUME NEW c \in Channels, StopWorker(c) PROVE StoppedInv'
  BY <1>5 DEF StopWorker, row, StoppedInv, UncreatedIsStopped, IdleMeansStopped, Exists
<1>6. CASE StopAll
  BY <1>6 DEF StopAll, row, StoppedInv, UncreatedIsStopped, IdleMeansStopped, Exists
<1>7. CASE OnlyRows
  BY <1>7, OnlyRowsShape DEF IInv, StoppedInv, UncreatedIsStopped, IdleMeansStopped
<1>8. CASE Signal \/ UNCHANGED vars
  BY <1>8 DEF Signal, vars, row, goroutines, StoppedInv, UncreatedIsStopped,
              IdleMeansStopped, Exists
<1>9. CASE Restart
  BY <1>9 DEF Restart, row, StoppedInv, UncreatedIsStopped, IdleMeansStopped, Exists
<1> QED
  BY <1>1, <1>2, <1>3, <1>4, <1>5, <1>6, <1>7, <1>8, <1>9, NextCases

\* A channel no goroutine serves is shown as stopped, unless a killed process or a failed
\* last statement left its row as it was: whatever starts, stops and late exits
\* interleave, the last statement of the last goroutine decides.
THEOREM IdleRowsAreStopped == Spec => []IdleMeansStopped
<1>1. Init => StoppedInv
  BY DEF Init, StoppedInv, UncreatedIsStopped, IdleMeansStopped
<1>2. StoppedInv => IdleMeansStopped
  BY DEF StoppedInv
<1> QED BY <1>1, <1>2, StepStoppedInv, InvariantHolds, PTL DEF Spec

-----------------------------------------------------------------------------
(* Every step of the manager is a step of WorkerSlot on the active workers.  *)

\* The refinement mapping reads the goroutines, and finds what m.workers says.
LEMMA OwnerIsEntry ==
  ASSUME IInv, NEW c \in Channels
  PROVE  Owner(c) = workers[c]
<1> USE RelayWorkersAssumption
<1>1. CASE workers[c] = NoHandle
  <2>1. ~ \E h \in Handles : Active(h) /\ chan[h] = c
    BY <1>1 DEF IInv, ActiveHasEntry
  <2> QED BY <1>1, <2>1 DEF Owner
<1>2. CASE workers[c] # NoHandle
  <2>1. workers[c] \in Handles /\ Active(workers[c]) /\ chan[workers[c]] = c
    BY <1>2 DEF IInv, TypeOK, EntryIsActive
  <2>2. \A h \in Handles : Active(h) /\ chan[h] = c => h = workers[c]
    BY DEF IInv, ActiveHasEntry
  <2>3. Owner(c) = CHOOSE h \in Handles : Active(h) /\ chan[h] = c
    BY <2>1 DEF Owner
  <2> QED BY <2>1, <2>2, <2>3
<1> QED BY <1>1, <1>2

\* So the mapped variable of WorkerSlot is m.workers itself.
LEMMA OwnersAreEntries == IInv => [c \in Channels |-> Owner(c)] = workers
<1> SUFFICES ASSUME IInv PROVE [c \in Channels |-> Owner(c)] = workers
  OBVIOUS
<1>1. [c \in Channels |-> Owner(c)] = [c \in Channels |-> workers[c]]
  BY OwnerIsEntry
<1> QED BY <1>1 DEF IInv, TypeOK

\* WorkerSlot's step relation, read on m.workers.
SlotStep ==
  \/ \E c \in Channels, w \in Handles :
       /\ workers[c] = NoHandle
       /\ \A d \in Channels : workers[d] # w
       /\ workers' = [workers EXCEPT ![c] = w]
  \/ \E freed \in SUBSET Channels :
       workers' = [c \in Channels |-> IF c \in freed THEN NoHandle ELSE workers[c]]
  \/ UNCHANGED workers

\* Claims acquire; StopWorker, StopAll, releaseWorker and a restart give up.
LEMMA StepIsSlotStep == IInv /\ [Next]_vars => SlotStep
<1> SUFFICES ASSUME IInv, [Next]_vars PROVE SlotStep
  OBVIOUS
<1> USE RelayWorkersAssumption
<1> DEFINE Freed(s) == [c \in Channels |-> IF c \in s THEN NoHandle ELSE workers[c]]
<1>1. ASSUME NEW s \in SUBSET Channels, workers' = Freed(s) PROVE SlotStep
  BY <1>1 DEF SlotStep
<1>2. ASSUME NEW h \in Handles, Walk(h) \/ MarkStopped(h) PROVE SlotStep
  BY <1>2, WalkShape DEF IInv, MarkStopped, SlotStep
<1>3. ASSUME NEW h \in Handles, ReleaseWorker(h) PROVE SlotStep
  <2>1. CASE workers[chan[h]] = h
    <3>1. chan[h] \in Channels /\ workers' = Freed({chan[h]})
      BY <1>3, <2>1 DEF ReleaseWorker, IInv, TypeOK, LiveHasChannel
    <3> QED BY <3>1, <1>1
  <2>2. CASE workers[chan[h]] # h
    BY <1>3, <2>2 DEF ReleaseWorker, SlotStep
  <2> QED BY <2>1, <2>2
<1>4. ASSUME NEW c \in Channels, NEW k \in Configs, NEW boot \in BOOLEAN, NEW h \in Handles,
             StartWorker(c, "active", k, boot, h)
      PROVE  SlotStep
  <2>1. \A d \in Channels : workers[d] # h
    BY <1>4 DEF StartWorker, IInv, EntryIsActive, Active
  <2> QED BY <1>4, <2>1 DEF StartWorker, SlotStep
<1>5. ASSUME NEW c \in Channels, StopWorker(c) PROVE SlotStep
  <2>1. workers' = Freed({c})
    BY <1>5 DEF StopWorker, IInv, TypeOK
  <2> QED BY <2>1, <1>1
<1>6. CASE StopAll \/ Restart
  <2>1. workers' = Freed(Channels)
    BY <1>6 DEF StopAll, Restart
  <2> QED BY <2>1, <1>1
<1>7. CASE OnlyRows \/ Signal \/ UNCHANGED vars
  BY <1>7, OnlyRowsShape DEF IInv, Signal, vars, SlotStep
<1> QED BY <1>2, <1>3, <1>4, <1>5, <1>6, <1>7, NextCases

\* relay.Manager implements WorkerSlot: what m.workers, the handles and their
\* cancel functions do is a lock per channel.
THEOREM ManagerImplementsSlot == Spec => ImplementsSlot
<1> DEFINE own == [c \in Channels |-> Owner(c)]
<1>1. Init => own = [c \in Channels |-> NoHandle]
  <2>1. Init => workers = [c \in Channels |-> NoHandle]
    BY DEF Init
  <2> QED BY <2>1, InitIInv, OwnersAreEntries
<1>2. IInv => own = workers
  BY OwnersAreEntries
<1>3. own = workers /\ own' = workers' /\ SlotStep => [Slot!Next]_own
  BY DEF SlotStep, Slot!Next, Slot!Acquire, Slot!GiveUp
<1>4. (IInv => own = workers)'
  BY <1>2, PTL
<1>5. IInv /\ IInv' /\ [Next]_vars => [Slot!Next]_own
  BY <1>2, <1>3, <1>4, StepIsSlotStep
<1> QED BY <1>1, <1>5, InvariantHolds, PTL DEF Spec, ImplementsSlot, Slot!Spec, Slot!Init

=============================================================================
