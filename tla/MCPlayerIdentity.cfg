SPECIFICATION Spec
CONSTANTS
  Servers = {s1, s2}
  Players = {p1}
  Nicks = {A, B}
  Touch = 1
  MaxTime = 3
  MaxRenames = 2
SYMMETRY Symmetry
INVARIANTS
  TypeOK
  MarksAreRecent
  RefsAreRows
  NicknamesAreKept
PROPERTY ChangesAreAnnounced
