SPECIFICATION MigrationSpec
CONSTANTS
  c1 = c1
  c2 = c2
  c3 = c3
  Callers <- ThreeCallers
  NewColumns <- ThreeColumns
INVARIANTS MigrationInv ReadyIsComplete FailureNeedsRival SomebodyGetsThrough
CHECK_DEADLOCK FALSE
