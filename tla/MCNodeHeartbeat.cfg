\* The default periods and timeout; jobs of more than 5 s, and a heartbeat passed over more
\* than twice in a row, are what OneFailureIsForgiven excepts.
SPECIFICATION HeartbeatSpec
CONSTANTS
  Period <- MCPeriod
  Interval = 6
  Answer = 1
  Timeout = 4
  Unlucky = 2
INVARIANTS SilentIsOffline
PROPERTIES OneFailureIsForgiven
