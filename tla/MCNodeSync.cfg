\* A channel that operators change, move to and from the node; the node may be deleted;
\* two crashes or interrupts.
SPECIFICATION NodeFairSpec
CONSTANTS
  Channels = {c1}
  kIngest = kIngest
  kTransmux = kTransmux
  kProxy = kProxy
  kIngestAway = kIngestAway
  kTransmuxAway = kTransmuxAway
  kProxyAway = kProxyAway
  Configs = {kIngest, kTransmux, kProxy, kIngestAway, kTransmuxAway, kProxyAway}
  NoConfig = NoConfig
  Mode <- ModeOfConfigs
  Unbound <- UnboundConfigs
  Here = {kIngest, kTransmux, kProxy}
  MaxRestarts = 2
INVARIANTS NodeTypeOK OnlyKnownRuns
PROPERTIES UnassignedEnds AssignedRuns
