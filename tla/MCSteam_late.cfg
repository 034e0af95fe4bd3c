SPECIFICATION Spec
CONSTANTS
  a1 = a1
  f1 = f1
  v1 = v1
  Accounts <- MCAccounts
  Friends <- MCFriends
  Sources <- MCSources
  Values <- MCValues
  Replies <- MCReplies
  Callers = {c1}
  Loop = loop
  Batch = 1
  Staleness = {0, 1}
  MaxAge = 0
  CollectTimeout = 2
  WriteTimeout = 1
  MaxTime = 2
  MaxAnswers = 2
INVARIANT DossiersArrive
