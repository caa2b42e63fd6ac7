\* A channel on the node changes from ingest to proxy.
SPECIFICATION NodeSpec
CONSTANTS
  Channels = {c1}
  kIngest = kIngest
  kTransmux = kTransmux
  kProxy = kProxy
  kIngestAway = kIngestAway
  kTransmuxAway = kTransmuxAway
  kProxyAway = kProxyAway
  Configs = {kIngest, kProxy, kIngestAway, kProxyAway}
  NoConfig = NoConfig
  Mode <- ModeOfConfigs
  Unbound <- UnboundConfigs
  Here = {kIngest, kProxy}
  MaxRestarts = 0
INVARIANT StopsOnModeChange
