CONSTANTS
  Top = 4
  Base = 1
  End = 3
  Size = 3
  Container <- MCContainer
  StampCells <- MCStamps
  EditCells <- MCEdits
  BlankCells <- MCBlank
  MaxStamps = 2
  MaxFaults = 1
SPECIFICATION Spec
CHECK_DEADLOCK FALSE
INVARIANTS
  RerunNotRefused
