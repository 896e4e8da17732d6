SPECIFICATION Spec
CONSTANTS
  TableSize = 2
  NTlb = 2
  Asids = {1, 2}
  RootOf <- OwnRoots
  Tables = {8, 9, 10}
  ReadOnlyTables = {}
  InitPtes <- SharedPtes
  PteInputs <- SharedInputs
  plat_enable_dirty_update = TRUE
INVARIANTS
  TypeOK
  TlbTransparent
  DirtyRecorded
CHECK_DEADLOCK FALSE
