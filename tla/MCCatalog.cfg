SPECIFICATION Spec
CONSTANTS
  r1 = r1
  r2 = r2
  r3 = r3
  a1 = a1
  a2 = a2
  a3 = a3
  Nowhere = nowhere
  Rooms = {r1, r2}
  Addresses = {a1, a2}
  AutoMax = 1
  FirstRecords <- NoRecords
  MaxServers = 2
  MaxTime = 1
  MaxMoves = 2
  MaxRestarts = 1
SYMMETRY Symmetry
INVARIANTS
  TypeOK
  MergesLeadToOlder
  OneRecordPerRoom
PROPERTIES
  SeenSurvivesScan
  RulesBoundTracking
