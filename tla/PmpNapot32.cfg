SPECIFICATION Spec
CONSTANTS
  NEntries = 2
  PerReg = 1
  sys_pmp_count = 2
  Grains = {0}
  PmpaddrBits = 4
  XlenBits = 4
  CfgInputs <- CfgFew
  Addrs <- EveryAddr
  Widths = {1, 4, 8}
  AccessTypes = {"Read"}
INVARIANT
  CheckIsSpecified
