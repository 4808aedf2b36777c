CONSTANTS
  Top = 4
  Base = 1
  End = 3
  Size = 3
  Container <- MCContainer
  StampCells <- MCStamps
  EditCells <- MCEdits
  BlankCells <- MCBlank
  MaxStamps = 2
  MaxFaults = 2
SPECIFICATION Spec
CHECK_DEADLOCK FALSE
INVARIANTS
  ErasesWhatIsKnown
  LabHoldsWhatIsThere
  RestartsWhole
  BesideThePlan
  RerunAccepted
