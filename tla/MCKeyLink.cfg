CONSTANTS
  h885 = h885
  h785 = h785
  Undefined = Undefined
  NoRemote = NoRemote
  Remotes = {h885, h785}
  Known = {h885}
  Codes = {1, 2}
  VERSION_ATTEMPTS = 2
  Replugs = TRUE
  MaxPresses = 3
  MaxLinks = 2
  MaxFaults = 3
SPECIFICATION Spec
INVARIANTS
  OwnAddresses
PROPERTIES
  ReportsEachPressOnce
  LetsGo
