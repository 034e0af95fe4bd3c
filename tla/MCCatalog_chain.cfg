SPECIFICATION Spec
CONSTANTS
  r1 = r1
  r2 = r2
  r3 = r3
  a1 = a1
  a2 = a2
  a3 = a3
  Nowhere = nowhere
  Rooms = {r1, r2, r3}
  Addresses = {a1, a2, a3}
  AutoMax = 0
  FirstRecords <- ThreeRecords
  MaxServers = 3
  MaxTime = 0
  MaxMoves = 0
  MaxRestarts = 0
INVARIANT NoChains
