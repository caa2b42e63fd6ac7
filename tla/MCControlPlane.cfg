\* One client after the other, all operations; clients that go away, crashes at every
\* step.
SPECIFICATION ControlSpec
CONSTANTS
  Channels = {c1}
  h1 = h1
  h2 = h2
  Handles = {h1, h2}
  NoHandle = NoHandle
  kIngest = kIngest
  kTransmux = kTransmux
  kProxy = kProxy
  kPinned = kPinned
  Configs = {kIngest, kProxy}
  NoConfig = NoConfig
  NoChannel = NoChannel
  Mode <- MCModeOfConfigs
  Requests = {r1}
  Operations = {"create", "patch", "delete", "start", "stop", "purge", "play"}
  SavedStatus = {"active", "disabled"}
  Pinned = {}
  MayDisconnect = TRUE
VIEW Seen
SYMMETRY HandleSymmetry
INVARIANTS ControlTypeOK NoWorkerForDeadRow WorkerRunsRowConfig
PROPERTIES BootResumesActive
