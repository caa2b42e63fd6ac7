\* One segment in the cache, or a window of two segments out of three.
SPECIFICATION DeliverySpec
CONSTANTS
  ref = ref
  Rows <- MCRows
  Refs = {ref}
  Keys <- MCKeys
  NoKey = NoKey
  Uploads = {u1}
  Clients = {TRUE, FALSE}
  Inodes = {i1, i2, i3}
  NoInode = NoInode
  Blocks = 2
  Fetchers = {f1, f2}
  Viewers = {v1, v2}
  MaxSegment = 3
  ListSize = 2
  Threshold = 1
CONSTRAINTS UnsyncedHasClient ExceptionsApart
SYMMETRY CacheSymmetry
\* A call on a nil client ends the process.
CHECK_DEADLOCK FALSE
INVARIANTS DeliveryTypeOK OneUpstreamRequest PublishedIsWhole HolesAreFilled TmpHasWriter
  ReadyIsThere SharedIsWhole NilIsNotCalled NumbersNeverGoBack
