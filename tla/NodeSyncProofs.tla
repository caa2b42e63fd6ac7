---------------------------- MODULE NodeSyncProofs ----------------------------
(* Safety of NodeSync for every set of channels and configurations and any    *)
(* number of restarts.                                                        *)
EXTENDS NodeSync, TLAPS

\* What holds between any two steps of the agent: outside a sync nothing is left to
\* do, what is to be started is known, and a worker of an unknown channel is one the
\* sync in progress is about to stop.
LoopsAreOver == agent # "applying" => toStop = {} /\ toStart = {}
StartsAreKnown == \A c \in toStart : known[c] # NoConfig
WorkersAreKnown == \A c \in Channels : Runs(c) => known[c] # NoConfig \/ c \in toStop

NodeInv == NodeTypeOK /\ LoopsAreOver /\ StartsAreKnown /\ WorkersAreKnown

\* A node that has just been created, or booted, runs and knows nothing.
LEMMA NodeInitInv == NodeInit => NodeInv
<1> SUFFICES ASSUME NodeInit PROVE NodeInv
  OBVIOUS
<1>1. restarts \in 0..MaxRestarts
  BY NodeSyncAssumption DEF NodeInit
<1>2. NodeTypeOK
  BY <1>1 DEF NodeInit, NodeTypeOK, Nothing, ChannelMap, AgentSteps
<1> QED
  BY <1>2 DEF NodeInit, NodeInv, LoopsAreOver, StartsAreKnown, WorkersAreKnown, Runs, Nothing

\* Writers of the rows do not reach into the node.
LEMMA RowWriteInv == NodeInv /\ RowWrite => NodeInv'
<1> SUFFICES ASSUME NodeInv, RowWrite PROVE NodeInv'
  OBVIOUS
<1>1. /\ status' \in [Channels -> RowStatus \cup {"deleted"}]
      /\ config' \in [Channels -> Configs]
      /\ deleted' \in BOOLEAN
  <2>1. CASE DeleteNode
    BY <2>1, NodeSyncAssumption DEF NodeInv, NodeTypeOK, DeleteNode
  <2>2. CASE \E c \in Channels :
               \/ \E st \in SavedStatus, k \in Configs : Patch(c, st, k)
               \/ Delete(c)
               \/ \E st \in {"active", "source_error"} : Flag(c, st)
    BY <2>2 DEF NodeInv, NodeTypeOK, Patch, Delete, Flag, RowStatus, SavedStatus
  <2> QED
    BY <2>1, <2>2 DEF RowWrite
<1>2. UNCHANGED <<agent, answer, known, work, ctxDone, running, restarts>>
  BY DEF RowWrite, DeleteNode, Patch, Delete, Flag
<1> QED
  BY <1>1, <1>2
  DEF NodeInv, NodeTypeOK, LoopsAreOver, StartsAreKnown, WorkersAreKnown, Runs, work

\* A sync keeps the invariant at each of its steps.
LEMMA SyncInv == NodeInv /\ Sync => NodeInv'
<1> SUFFICES ASSUME NodeInv, Sync PROVE NodeInv'
  OBVIOUS
<1> USE DEF NodeInv, NodeTypeOK, LoopsAreOver, StartsAreKnown, WorkersAreKnown, Runs,
            AgentSteps, ChannelMap, rows, work
<1>1. CASE AskConfig
  BY <1>1 DEF AskConfig
<1>2. CASE AnswerAssigned
  <2>1. [c \in Channels |-> IF Assigned(c) THEN config[c] ELSE NoConfig] \in ChannelMap
    BY DEF Assigned
  <2> QED
    BY <1>2, <2>1 DEF AnswerAssigned, AnswerConfig
<1>3. CASE AnswerWithoutChannels
  BY <1>3 DEF AnswerWithoutChannels, AnswerConfig, Nothing
<1>4. CASE SyncFails
  BY <1>4 DEF SyncFails
<1>5. CASE Replace
  <2>1. /\ agent' = "applying" /\ known' = answer /\ answer' = Nothing
        /\ toStop' = {c \in Channels : known[c] # NoConfig /\ answer[c] = NoConfig}
        /\ toStart' = {c \in Channels : known[c] = NoConfig /\ answer[c] # NoConfig}
        /\ running' = running /\ toStop = {} /\ toStart = {}
        /\ UNCHANGED <<rows, ctxDone, restarts>>
    BY <1>5 DEF Replace
  <2>2. NodeTypeOK'
    BY <2>1 DEF Nothing
  <2>3. WorkersAreKnown'
    BY <2>1
  <2> QED
    BY <2>1, <2>2, <2>3
<1>6. CASE Synced
  BY <1>6 DEF Synced
<1>7. ASSUME NEW c \in Channels, StopRemoved(c) PROVE NodeInv'
  <2>1. /\ agent' = agent /\ agent = "applying" /\ known' = known /\ answer' = answer
        /\ toStop' = toStop \ {c} /\ toStart' = toStart
        /\ running' = [running EXCEPT ![c] = NoConfig]
        /\ UNCHANGED <<rows, ctxDone, restarts>>
    BY <1>7 DEF StopRemoved
  <2>2. NodeTypeOK'
    BY <2>1
  <2> QED
    BY <2>1, <2>2
<1>8. ASSUME NEW c \in Channels, StartAdded(c) PROVE NodeInv'
  <2>1. /\ agent' = agent /\ agent = "applying" /\ known' = known /\ answer' = answer
        /\ c \in toStart /\ toStop' = toStop /\ toStart' = toStart \ {c}
        /\ running' = running \/ running' = [running EXCEPT ![c] = known[c]]
        /\ UNCHANGED <<rows, ctxDone, restarts>>
    BY <1>8 DEF StartAdded
  <2>2. NodeTypeOK'
    BY <2>1
  <2>3. WorkersAreKnown'
    BY <2>1
  <2> QED
    BY <2>1, <2>2, <2>3
<1> QED
  BY <1>1, <1>2, <1>3, <1>4, <1>5, <1>6, <1>7, <1>8 DEF Sync

\* Workers that return and processes that end take workers away only.
LEMMA LifeInv ==
  ASSUME NodeInv,
         (\E c \in Channels : WorkerReturns(c)) \/ Interrupt \/ Shutdown \/ Exit \/ Crash
  PROVE  NodeInv'
<1> USE NodeSyncAssumption
    DEF NodeInv, NodeTypeOK, LoopsAreOver, StartsAreKnown, WorkersAreKnown, Runs,
        AgentSteps, ChannelMap, rows, work
<1>1. ASSUME NEW c \in Channels, WorkerReturns(c) PROVE NodeInv'
  BY <1>1 DEF WorkerReturns
<1>2. CASE Interrupt
  BY <1>2 DEF Interrupt
<1>3. CASE Shutdown
  BY <1>3 DEF Shutdown, Nothing
<1>4. CASE Exit
  BY <1>4 DEF Exit, Boot, Nothing
<1>5. CASE Crash
  <2>1. restarts' \in 0..MaxRestarts
    BY <1>5 DEF Crash
  <2>2. NodeTypeOK'
    BY <1>5, <2>1 DEF Crash, Boot, Nothing
  <2> QED
    BY <1>5, <2>2 DEF Crash, Boot, Nothing
<1> QED
  BY <1>1, <1>2, <1>3, <1>4, <1>5

\* The invariant of the agent and its node.
THEOREM NodeInvariant == NodeSpec => []NodeInv
<1>1. NodeInv /\ UNCHANGED vars => NodeInv'
  BY DEF NodeInv, NodeTypeOK, LoopsAreOver, StartsAreKnown, WorkersAreKnown, Runs,
         vars, rows, work
<1>2. NodeInv /\ [NodeNext]_vars => NodeInv'
  BY <1>1, RowWriteInv, SyncInv, LifeInv DEF NodeNext
<1> QED
  BY NodeInitInv, <1>2, PTL DEF NodeSpec

\* Every variable of the node and of the rows keeps its type.
THEOREM NodeTypeCorrect == NodeSpec => []NodeTypeOK
BY NodeInvariant, PTL DEF NodeInv

\* Between two syncs the node runs workers only for the channels it knows: whatever
\* polls are lost, however long the lists, wherever the process is killed.
THEOREM NodeRunsOnlyKnown == NodeSpec => []OnlyKnownRuns
<1>1. NodeInv => OnlyKnownRuns
  BY DEF NodeInv, LoopsAreOver, WorkersAreKnown, OnlyKnownRuns
<1> QED
  BY <1>1, NodeInvariant, PTL

=============================================================================
