SPECIFICATION Spec
CONSTANTS
  Servers = {s1, s2}
  Players = {p1}
  Limit = 2
  MaxEvents = 3
  MaxCrashes = 1
INVARIANT NoEventSkipped
