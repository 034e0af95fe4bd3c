SPECIFICATION FairSpec
CONSTANTS
  Servers = {s1, s2}
  Players = {p1, p2}
  Limit = 1
  MaxEvents = 2
  MaxCrashes = 2
INVARIANTS
  TypeOK
  NotificationsAreNews
PROPERTIES
  DeliversInOrder
  DueIsNotified
