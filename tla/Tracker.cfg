SPECIFICATION FairSpec
CONSTANTS
  Servers = {s1, s2, s3}
  Scan = Scan
  Concurrency = 2
  MaxTokens = 2
INVARIANTS
  TypeOK
  CacheIsNewerThanRejections
PROPERTIES
  PollsDoNotOverlap
  ServesAtomically
  RejectionsEnd
  PollsRecur
  CancelStops
