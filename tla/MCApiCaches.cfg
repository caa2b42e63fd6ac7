\* One token and three requests; one entry, two readers and two writers.
SPECIFICATION ApiSpec
CONSTANTS
  Tokens = {t1}
  Requests = {r1, r2, r3}
  Passwords = {p1, p2}
  CacheFor = 2
  MaxAnswer = 1
  Values = {Empty, v1, v2}
  Empty = Empty
  Readers = {q1, q2}
  Writers = {w1, w2}
  None = None
  KeepFor = 2
  MaxLookup = 1
CONSTRAINTS OtherRests ExceptionsApart
SYMMETRY ApiSymmetry
INVARIANTS ApiTypeOK LogoutWins OldPasswordIsOut InvalidationWins NothingStaleForLong
