SPECIFICATION USpec
CONSTANTS
  Players = {p1}
  AbsentConfirmations = 2
  MaxGap = 2
  MaxTime = 4
  MaxDrop = 3
INVARIANTS
  TypeOK
  SessionsDisjoint
  AbsencesAreObserved
  SightingsAreCovered
  OutboxMatchesSessions
  PlaceCountsEarlierArrivals
  QueueResultIsOfLastAbsence
  OneAnswerAfterDrop
PROPERTIES
  ClosedIsFinal
  SeenRejoinIsFlagged
  ImplementsVisits
