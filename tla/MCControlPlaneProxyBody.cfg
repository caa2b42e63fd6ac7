\* One operator turns an ingest channel into a proxy channel.
SPECIFICATION ControlSpec
CONSTANTS
  Channels = {c1}
  h1 = h1
  h2 = h2
  Handles = {h1, h2}
  NoHandle = NoHandle
  kIngest = kIngest
  kTransmux = kTransmux
  kProxy = kProxy
  kPinned = kPinned
  Configs = {kIngest, kProxy}
  NoConfig = NoConfig
  NoChannel = NoChannel
  Mode <- MCModeOfConfigs
  Requests = {r1}
  Operations = {"patch"}
  SavedStatus = {"active", "disabled"}
  Pinned = {}
  MayDisconnect = FALSE
SYMMETRY HandleSymmetry
INVARIANT ProxyBodyIsShortLived
