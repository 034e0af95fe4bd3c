SPECIFICATION USpec
CONSTANTS
  Players = {p1}
  AbsentConfirmations = 2
  MaxGap = 2
  MaxTime = 4
  MaxDrop = 3

INVARIANT QueueJoinIsRecognised
