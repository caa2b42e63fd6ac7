\* A stale goroutine beside its successor; no symmetry, as liveness needs.
SPECIFICATION FairSpec
CONSTANTS
  Channels = {c1}
  h1 = h1
  h2 = h2
  Handles = {h1, h2}
  NoHandle = NoHandle
  kIngest = kIngest
  kTransmux = kTransmux
  Configs = {kIngest, kTransmux}
  NoConfig = NoConfig
  NoChannel = NoChannel
  Mode <- MCMode
CONSTRAINT TransmuxIsAlone
INVARIANTS TypeOK EntryIsActive ActiveHasEntry AtMostOneActive 
PROPERTIES EntryLeavesWithItsWorker ImplementsSlot CancelledWorkerEnds RunningIsShown
