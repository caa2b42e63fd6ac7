\* One channel, a stale worker beside its successor, posts lost and late, crashes anywhere.
SPECIFICATION ReportsFairSpec
CONSTANTS
  Channels = {c1}
  h1 = h1
  h2 = h2
  Handles = {h1, h2}
  NoHandle = NoHandle
  NoChannel = NoChannel
  MaxFailures = 1
INVARIANTS ReportsTypeOK CountedAtMostOnce
PROPERTIES RunningIsReported
