\* A window of 20 units, runs that are healthy after four and sleeps of 1, 2, 4, 8.
SPECIFICATION TimedSpec
CONSTANTS
  Channels = {c1}
  Handles = {h1}
  NoHandle = NoHandle
  kTransmux = kTransmux
  Configs = {kTransmux}
  NoConfig = NoConfig
  NoChannel = NoChannel
  Mode <- MCMode
  Healthy = 4
  SourceErrorAfter = 20
  FirstBackoff = 1
  MaxBackoff = 8
  Horizon = 36
  NoTime = NoTime
INVARIANT BrokenIsDisabled
PROPERTIES BlipsAreForgiven StoppedLoopEnds
