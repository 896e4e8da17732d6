SPECIFICATION Spec
CONSTANTS
  NEntries = 2
  PerReg = 1
  sys_pmp_count = 2
  Grains = {0, 1, 2}
  PmpaddrBits = 3
  XlenBits = 5
  CfgInputs <- CfgValues
  Addrs = {0, 6, 12, 26}
  Widths = {4, 8}
  AccessTypes = {"Read"}
INVARIANTS
  TypeOK
  CheckIsSpecified
PROPERTIES
  LockedEntryFrozen
  LockedPrefixDecides
