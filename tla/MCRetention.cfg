SPECIFICATION Spec
CONSTANTS
  Tables <- MCTables
  Kinds <- MCKinds
  TableOf <- MCTableOf
  Rollups <- MCRollups
  Reads <- MCReads
  Period <- MCPeriod
  Overlap <- MCOverlap
  ClosedOnly <- MCClosedOnly
  Keep <- MCKeep
  Steps <- MCSteps
  MaxDelay = 1
  MaxSilence = 2
  MaxTime = 10
INVARIANTS
  TypeOK
  RollupsOutliveRows
PROPERTY RecountsOnlyAdd
