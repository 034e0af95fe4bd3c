SPECIFICATION Spec
CONSTANTS
  a1 = a1
  f1 = f1
  v1 = v1
  Accounts <- MCAccounts
  Friends <- MCFriends
  Sources <- MCSources
  Values <- MCValues
  Replies <- MCReplies
  Callers = {c1}
  Loop = loop
  Batch = 1
  Staleness = {0, 1}
  MaxAge = 0
  CollectTimeout = 1
  WriteTimeout = 1
  MaxTime = 1
  MaxAnswers = 3
INVARIANTS
  TypeOK
  LoneRunsAreFaithful
  EdgesAreWitnessed
PROPERTIES
  RepeatsNeedOverlap
  KnownIsKept
