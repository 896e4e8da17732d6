SPECIFICATION Spec
CONSTANTS
  TableSize = 2
  NTlb = 2
  Asids = {1}
  RootOf <- OwnRoots
  Tables = {8, 10}
  ReadOnlyTables = {10}
  InitPtes <- AccessedPtes
  PteInputs <- NoInputs
  plat_enable_dirty_update = TRUE
INVARIANT
  NoInternalError
CHECK_DEADLOCK FALSE
