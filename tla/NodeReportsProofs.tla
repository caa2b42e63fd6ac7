--------------------------- MODULE NodeReportsProofs ---------------------------
(***************************************************************************)
(* NodeReports for every set of channels and workers.                      *)
(*                                                                         *)
(* The argument for CountedAtMostOnce: between a failed cycle and the      *)
(* counting of it the worker holds the failure, and what the workers hold, *)
(* memStore keeps, a post carries and the database has is no more than     *)
(* what ever failed.  A drain moves a number, a lost post or a crash drops *)
(* one, and nothing doubles it.                                            *)
(***************************************************************************)
EXTENDS NodeReports, FiniteSetTheorems, TLAPS

\* The workers of c between a failed cycle and CountError.
InFlight(c) == {h \in Handles : pc[h] \in {"failed", "flagged"} /\ chan[h] = c}

LiveHasChannel == \A h \in Handles : pc[h] # "idle" => chan[h] \in Channels

TypeInv == ReportsTypeOK /\ LiveHasChannel

CountInv ==
  \A c \in Channels :
    /\ IsFiniteSet(InFlight(c))
    /\ metrics[c] + postMetrics[c] + errors[c] + Cardinality(InFlight(c)) <= failures[c]

USE NodeReportsAssumption DEF WorkerSteps, WorkerStatus, AgentSteps

-----------------------------------------------------------------------------
\* Nothing to report is a report.
LEMMA NothingTyped == NoReport \in Report /\ NoReports \in [Channels -> Report] /\ NoMetrics \in [Channels -> Nat]
  BY DEF NoReport, NoReports, NoMetrics, Report

\* memStore's setters keep a report a report.
LEMMA SettersTyped ==
  ASSUME TypeInv, NEW c \in Channels
  PROVE  /\ \A ws \in WorkerStatus, failed \in BOOLEAN :
              SetWorkerStatus(c, ws, failed) => statuses' \in [Channels -> Report] /\ UNCHANGED metrics
         /\ \A src \in {"ok", "failed"} :
              SetSourceStatus(c, src) => statuses' \in [Channels -> Report] /\ UNCHANGED metrics
<1> USE DEF TypeInv, ReportsTypeOK
<1>1. \A ws \in WorkerStatus, failed \in BOOLEAN :
        [ws |-> ws, err |-> failed, src |-> statuses[c].src] \in Report
  BY DEF Report
<1>2. \A src \in {"ok", "failed"} :
        [ws |-> statuses[c].ws, err |-> src = "failed" \/ statuses[c].err, src |-> src] \in Report
  BY DEF Report
<1> QED BY <1>1, <1>2 DEF SetWorkerStatus, SetSourceStatus

LEMMA InitTyped == ReportsInit => TypeInv
<1> SUFFICES ASSUME ReportsInit PROVE TypeInv
  OBVIOUS
<1>1. /\ statuses \in [Channels -> Report] /\ postStatuses \in [Channels -> Report]
      /\ metrics \in [Channels -> Nat] /\ postMetrics \in [Channels -> Nat]
      /\ errors \in [Channels -> Nat] /\ failures \in [Channels -> Nat]
  BY NothingTyped DEF ReportsInit
<1> QED BY <1>1 DEF ReportsInit, TypeInv, ReportsTypeOK, LiveHasChannel

\* The workers and the calls that start and stop them.
LEMMA WorkersTyped ==
  ASSUME TypeInv, \/ \E c \in Channels : StopWorker(c) \/ \E h \in Handles : StartWorker(c, h)
                  \/ \E h \in Handles : WorkerStep(h)
  PROVE  TypeInv'
<1> USE DEF TypeInv, ReportsTypeOK, LiveHasChannel, post, rows, node, memStore, goroutines
<1>1. ASSUME NEW c \in Channels, StopWorker(c) PROVE TypeInv'
  BY <1>1 DEF StopWorker
<1>2. ASSUME NEW c \in Channels, NEW h \in Handles, StartWorker(c, h) PROVE TypeInv'
  <2>1. statuses' \in [Channels -> Report] /\ UNCHANGED metrics
    BY <1>2, SettersTyped DEF StartWorker
  <2> QED BY <1>2, <2>1 DEF StartWorker
<1>3. ASSUME NEW h \in Handles, WorkerStep(h) PROVE TypeInv'
  <2>0. pc[h] # "idle" => chan[h] \in Channels
    OBVIOUS
  <2> USE DEF Goto
  <2>1. CASE FetchOk(h)
    <3>1. statuses' \in [Channels -> Report] /\ UNCHANGED metrics
      BY <2>0, <2>1, SettersTyped DEF FetchOk
    <3> QED BY <2>1, <3>1 DEF FetchOk
  <2>2. CASE MarkCycleOk(h)
    <3>1. statuses' \in [Channels -> Report] /\ UNCHANGED metrics
      BY <2>0, <2>2, SettersTyped DEF MarkCycleOk
    <3> QED BY <2>2, <3>1 DEF MarkCycleOk
  <2>3. CASE MarkCycleFailed(h)
    <3>1. statuses' \in [Channels -> Report] /\ UNCHANGED metrics
      BY <2>0, <2>3, SettersTyped DEF MarkCycleFailed
    <3>2. failures' \in [Channels -> Nat]
      BY <2>0, <2>3 DEF MarkCycleFailed
    <3> QED BY <2>3, <3>1, <3>2 DEF MarkCycleFailed
  <2>4. CASE FlagSource(h)
    <3>1. statuses' \in [Channels -> Report] /\ UNCHANGED metrics
      BY <2>0, <2>4, SettersTyped DEF FlagSource
    <3> QED BY <2>4, <3>1 DEF FlagSource
  <2>5. CASE CountError(h)
    BY <2>0, <2>5 DEF CountError, IncrementMetric
  <2>6. CASE Poll(h) \/ ReleaseWorker(h)
    BY <2>6 DEF Poll, ReleaseWorker
  <2>7. CASE MarkStopped(h)
    <3>1. statuses' \in [Channels -> Report] /\ UNCHANGED metrics
      BY <2>0, <2>7, SettersTyped DEF MarkStopped
    <3> QED BY <2>7, <3>1 DEF MarkStopped
  <2> QED BY <1>3, <2>1, <2>2, <2>3, <2>4, <2>5, <2>6, <2>7 DEF WorkerStep
<1> QED BY <1>1, <1>2, <1>3

\* The agent's posts and the handler that takes them.
LEMMA PostsTyped ==
  ASSUME TypeInv,
         \/ FlushReports \/ LastFlush \/ PostLost \/ PostReturns
         \/ \E c \in Channels : HandlerWrites(c)
  PROVE  TypeInv'
<1> USE NothingTyped DEF TypeInv, ReportsTypeOK, LiveHasChannel, post, rows, node, memStore, goroutines
<1>1. CASE FlushReports \/ LastFlush
  BY <1>1 DEF FlushReports, LastFlush, Flush
<1>2. CASE PostLost \/ PostReturns
  BY <1>2 DEF PostLost, PostReturns, AfterPost
<1>3. ASSUME NEW c \in Channels, WriteWorkerStatus(c) PROVE TypeInv'
  <2>1. workerStatus' \in [Channels -> WorkerStatus]
    BY <1>3 DEF WriteWorkerStatus, Report
  <2>2. [ws |-> "", err |-> postStatuses[c].err, src |-> postStatuses[c].src] \in Report
    BY DEF Report
  <2>3. postStatuses' \in [Channels -> Report]
    BY <1>3, <2>2 DEF WriteWorkerStatus
  <2> QED BY <1>3, <2>1, <2>3 DEF WriteWorkerStatus
<1>4. ASSUME NEW c \in Channels, WriteSourceStatus(c) PROVE TypeInv'
  <2>1. postStatuses' \in [Channels -> Report] /\ status' \in [Channels -> {"active", "source_error"}]
    BY <1>4 DEF WriteSourceStatus
  <2> QED BY <1>4, <2>1 DEF WriteSourceStatus
<1>5. ASSUME NEW c \in Channels, WriteMetric(c) PROVE TypeInv'
  <2>1. errors' \in [Channels -> Nat] /\ postMetrics' \in [Channels -> Nat]
    BY <1>5 DEF WriteMetric
  <2> QED BY <1>5, <2>1 DEF WriteMetric
<1> QED BY <1>1, <1>2, <1>3, <1>4, <1>5 DEF HandlerWrites

LEMMA NextTyped == TypeInv /\ [ReportsNext]_vars => TypeInv'
<1> SUFFICES ASSUME TypeInv, [ReportsNext]_vars PROVE TypeInv'
  OBVIOUS
<1> USE DEF TypeInv, ReportsTypeOK, LiveHasChannel, post, rows, node, memStore, goroutines
<1>1. CASE Interrupt \/ Shutdown \/ UNCHANGED vars
  BY <1>1 DEF Interrupt, Shutdown, vars
<1>2. CASE Boot
  BY <1>2, NothingTyped DEF Boot
<1> QED BY <1>1, <1>2, WorkersTyped, PostsTyped DEF ReportsNext, Stopping, Exit, Crash

\* memStore, a post and the rows keep their types: a report that was written in parts is
\* a report, and no counter is negative.
THEOREM ReportsTypeCorrect == ReportsSpec => []ReportsTypeOK
<1>1. TypeInv => ReportsTypeOK
  BY DEF TypeInv
<1> QED BY <1>1, InitTyped, NextTyped, PTL DEF ReportsSpec

-----------------------------------------------------------------------------
\* What workers hold is held on, unless a cycle fails or is counted.
LEMMA HoldersStay ==
  ASSUME CountInv, TypeInv, UNCHANGED failures,
         \A h \in Handles : (pc[h] \in {"failed", "flagged"} \/ pc'[h] \in {"failed", "flagged"}) =>
           /\ pc[h] \in {"failed", "flagged"} /\ pc'[h] \in {"failed", "flagged"}
           /\ chan'[h] = chan[h],
         \A c \in Channels :
           /\ metrics'[c] \in Nat /\ postMetrics'[c] \in Nat /\ errors'[c] \in Nat
           /\ metrics'[c] + postMetrics'[c] + errors'[c] <= metrics[c] + postMetrics[c] + errors[c]
  PROVE  CountInv'
<1> SUFFICES ASSUME NEW c \in Channels
             PROVE  /\ IsFiniteSet(InFlight(c)')
                    /\ metrics'[c] + postMetrics'[c] + errors'[c] + Cardinality(InFlight(c)')
                         <= failures'[c]
  BY DEF CountInv
<1>1. InFlight(c)' = InFlight(c)
  BY DEF InFlight
<1>2. IsFiniteSet(InFlight(c)) /\ Cardinality(InFlight(c)) \in Nat
  BY FS_CardinalityType DEF CountInv
<1> QED BY <1>1, <1>2 DEF CountInv, TypeInv, ReportsTypeOK

\* A worker whose cycle fails takes the failure up; CountError hands it on; a crash drops
\* what the workers and memStore had.
LEMMA NextCounts == TypeInv /\ CountInv /\ [ReportsNext]_vars => CountInv'
<1> SUFFICES ASSUME TypeInv, CountInv, [ReportsNext]_vars PROVE CountInv'
  OBVIOUS
<1>0. TypeInv'
  BY NextTyped
<1>1. \A c \in Channels : IsFiniteSet(InFlight(c)) /\ Cardinality(InFlight(c)) \in Nat
  BY FS_CardinalityType DEF CountInv
<1> USE DEF TypeInv, ReportsTypeOK, LiveHasChannel
<1>2. ASSUME NEW h \in Handles, MarkCycleFailed(h) PROVE CountInv'
  <2>1. PICK c \in Channels : c = chan[h]
    BY <1>2 DEF MarkCycleFailed, Goto
  <2>2. /\ UNCHANGED <<metrics, postMetrics, errors, chan>>
        /\ failures' = [failures EXCEPT ![c] = failures[c] + 1]
    BY <1>2, <2>1 DEF MarkCycleFailed, Goto, SetWorkerStatus, post, rows
  <2>3. ASSUME NEW d \in Channels, d # c PROVE InFlight(d)' = InFlight(d)
    BY <1>2, <2>1, <2>2, <2>3 DEF MarkCycleFailed, Goto, InFlight
  <2>4. InFlight(c)' = InFlight(c) \cup {h} /\ h \notin InFlight(c)
    BY <1>2, <2>1, <2>2 DEF MarkCycleFailed, Goto, InFlight
  <2>5. IsFiniteSet(InFlight(c)') /\ Cardinality(InFlight(c)') = Cardinality(InFlight(c)) + 1
    <3>1. IsFiniteSet(InFlight(c))
      BY <1>1
    <3> HIDE DEF InFlight
    <3> QED BY <2>4, <3>1, FS_AddElement
  <2> QED BY <1>1, <2>2, <2>3, <2>5 DEF CountInv
<1>3. ASSUME NEW h \in Handles, CountError(h) PROVE CountInv'
  <2>1. PICK c \in Channels : c = chan[h]
    BY <1>3 DEF CountError, Goto
  <2>2. /\ UNCHANGED <<failures, postMetrics, errors, chan>>
        /\ metrics' = [metrics EXCEPT ![c] = metrics[c] + 1]
    BY <1>3, <2>1 DEF CountError, Goto, IncrementMetric, post, rows
  <2>3. ASSUME NEW d \in Channels, d # c PROVE InFlight(d)' = InFlight(d)
    BY <1>3, <2>1, <2>2, <2>3 DEF CountError, Goto, InFlight
  <2>4. InFlight(c)' = InFlight(c) \ {h} /\ h \in InFlight(c)
    BY <1>3, <2>1, <2>2 DEF CountError, Goto, InFlight
  <2>5. IsFiniteSet(InFlight(c)') /\ Cardinality(InFlight(c)') = Cardinality(InFlight(c)) - 1
    <3>1. IsFiniteSet(InFlight(c))
      BY <1>1
    <3> HIDE DEF InFlight
    <3> QED BY <2>4, <3>1, FS_RemoveElement
  <2> QED BY <1>1, <2>2, <2>3, <2>5 DEF CountInv
<1>4. ASSUME NEW h \in Handles, WorkerStep(h), ~MarkCycleFailed(h), ~CountError(h)
      PROVE  CountInv'
  <2>1. UNCHANGED <<failures, metrics, postMetrics, errors>>
    BY <1>4 DEF WorkerStep, FetchOk, MarkCycleOk, FlagSource, Poll, ReleaseWorker, MarkStopped,
                Goto, SetSourceStatus, SetWorkerStatus, memStore, post, rows
  <2>2. \A g \in Handles :
          (pc[g] \in {"failed", "flagged"} \/ pc'[g] \in {"failed", "flagged"}) =>
            /\ pc[g] \in {"failed", "flagged"} /\ pc'[g] \in {"failed", "flagged"}
            /\ chan'[g] = chan[g]
    BY <1>4 DEF WorkerStep, FetchOk, MarkCycleOk, FlagSource, Poll, ReleaseWorker, MarkStopped,
                Goto
  <2> QED BY <1>0, <2>1, <2>2, HoldersStay
<1>5. ASSUME NEW c \in Channels, NEW h \in Handles, StartWorker(c, h) PROVE CountInv'
  <2>1. UNCHANGED <<failures, metrics, postMetrics, errors>>
    BY <1>5 DEF StartWorker, SetWorkerStatus, post, rows
  <2>2. \A g \in Handles :
          (pc[g] \in {"failed", "flagged"} \/ pc'[g] \in {"failed", "flagged"}) =>
            /\ pc[g] \in {"failed", "flagged"} /\ pc'[g] \in {"failed", "flagged"}
            /\ chan'[g] = chan[g]
    BY <1>5 DEF StartWorker
  <2> QED BY <1>0, <2>1, <2>2, HoldersStay
<1>6. CASE \/ FlushReports \/ LastFlush \/ PostLost \/ \E c \in Channels : HandlerWrites(c)
  <2>1. UNCHANGED <<pc, chan, failures>>
    BY <1>6 DEF FlushReports, LastFlush, Flush, PostLost, HandlerWrites, WriteWorkerStatus,
                WriteSourceStatus, WriteMetric, goroutines
  <2>2. ASSUME NEW c \in Channels
        PROVE  metrics'[c] + postMetrics'[c] + errors'[c] <= metrics[c] + postMetrics[c] + errors[c]
    <3>1. CASE FlushReports \/ LastFlush
      BY <3>1 DEF FlushReports, LastFlush, Flush, post, rows, NoMetrics
    <3>2. CASE PostLost
      BY <3>2 DEF PostLost, NoMetrics, rows, memStore
    <3>3. CASE \E d \in Channels : HandlerWrites(d)
      <4>1. PICK d \in Channels : HandlerWrites(d)
        BY <3>3
      <4>2. CASE WriteMetric(d)
        <5>1. UNCHANGED metrics /\ errors' = [errors EXCEPT ![d] = errors[d] + postMetrics[d]]
              /\ postMetrics' = [postMetrics EXCEPT ![d] = 0]
          BY <4>2 DEF WriteMetric, memStore
        <5>2. /\ errors'[d] = errors[d] + postMetrics[d] /\ postMetrics'[d] = 0
              /\ c # d => errors'[c] = errors[c] /\ postMetrics'[c] = postMetrics[c]
          BY <5>1
        <5>3. \A e \in Channels : metrics[e] \in Nat /\ postMetrics[e] \in Nat /\ errors[e] \in Nat
          OBVIOUS
        <5>4. metrics'[c] = metrics[c]
          BY <5>1
        <5>5. CASE c = d
          BY <5>2, <5>3, <5>4, <5>5
        <5>6. CASE c # d
          BY <5>2, <5>3, <5>4, <5>6
        <5> QED BY <5>5, <5>6
      <4>3. CASE WriteWorkerStatus(d) \/ WriteSourceStatus(d)
        <5>1. UNCHANGED <<metrics, postMetrics, errors>>
          BY <4>3 DEF WriteWorkerStatus, WriteSourceStatus, memStore
        <5> QED BY <5>1
      <4> QED BY <4>1, <4>2, <4>3 DEF HandlerWrites
    <3> QED BY <1>6, <3>1, <3>2, <3>3
  <2> QED BY <1>0, <2>1, <2>2, HoldersStay
<1>7. CASE Boot
  <2>1. UNCHANGED <<postMetrics, errors, failures>> /\ \A c \in Channels : metrics'[c] = 0
    BY <1>7 DEF Boot, post, rows, NoMetrics
  <2>2. \A c \in Channels : InFlight(c)' = {}
    BY <1>7 DEF Boot, InFlight
  <2>3. IsFiniteSet({}) /\ Cardinality({}) = 0
    BY FS_EmptySet
  <2>4. \A c \in Channels : IsFiniteSet(InFlight(c)') /\ Cardinality(InFlight(c)') = 0
    BY <2>2, <2>3
  <2> QED BY <1>1, <2>1, <2>4 DEF CountInv
<1>8. CASE UNCHANGED <<pc, chan, metrics, postMetrics, errors, failures>>
  BY <1>0, <1>8, HoldersStay
<1>9. CASE \/ UNCHANGED vars \/ PostReturns \/ Interrupt \/ Shutdown
           \/ \E c \in Channels : StopWorker(c)
  BY <1>8, <1>9 DEF vars, PostReturns, Interrupt, Shutdown, StopWorker, goroutines, memStore,
                    post, rows
<1> QED BY <1>2, <1>3, <1>4, <1>5, <1>6, <1>7, <1>9
        DEF ReportsNext, Stopping, Exit, Crash

\* A failed cycle is counted at most once, for any number of workers: wherever posts are
\* lost, answered late or handled after the agent gave up, and whenever the node dies.
THEOREM FailuresAreNotCountedTwice == ReportsSpec => []CountedAtMostOnce
<1>1. ReportsInit => CountInv
  <2> SUFFICES ASSUME ReportsInit PROVE CountInv
    OBVIOUS
  <2> USE DEF CountInv
  <2> TAKE c \in Channels
  <2>1. metrics[c] = 0 /\ postMetrics[c] = 0 /\ errors[c] = 0 /\ failures[c] = 0
    BY DEF ReportsInit, NoMetrics
  <2>2. InFlight(c) = {}
    BY DEF ReportsInit, InFlight
  <2>3. IsFiniteSet(InFlight(c)) /\ Cardinality(InFlight(c)) = 0
    BY <2>2, FS_EmptySet
  <2>4. metrics[c] + postMetrics[c] + errors[c] + Cardinality(InFlight(c)) = 0
    BY <2>1, <2>3
  <2> QED BY <2>1, <2>3, <2>4
<1>2. TypeInv /\ CountInv => CountedAtMostOnce
  <2> SUFFICES ASSUME TypeInv, CountInv, NEW c \in Channels
               PROVE  metrics[c] + postMetrics[c] + errors[c] <= failures[c]
    BY DEF CountedAtMostOnce
  <2>1. Cardinality(InFlight(c)) \in Nat
    BY FS_CardinalityType DEF CountInv
  <2> QED BY <2>1 DEF CountInv, TypeInv, ReportsTypeOK
<1> QED BY <1>1, <1>2, InitTyped, NextTyped, NextCounts, PTL DEF ReportsSpec

================================================================================
