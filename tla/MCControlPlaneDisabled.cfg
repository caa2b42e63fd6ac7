\* One operator disables an ingest channel.
SPECIFICATION ControlSpec
CONSTANTS
  Channels = {c1}
  h1 = h1
  h2 = h2
  Handles = {h1, h2}
  NoHandle = NoHandle
  kIngest = kIngest
  kTransmux = kTransmux
  kProxy = kProxy
  kPinned = kPinned
  Configs = {kIngest}
  NoConfig = NoConfig
  NoChannel = NoChannel
  Mode <- MCModeOfConfigs
  Requests = {r1}
  Operations = {"patch"}
  SavedStatus = {"active", "disabled"}
  Pinned = {}
  MayDisconnect = FALSE
SYMMETRY HandleSymmetry
PROPERTY DisabledStaysDisabled
