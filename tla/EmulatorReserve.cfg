SPECIFICATION ESpec
CONSTANTS
  HalfRange = 2
  xlen32 = FALSE
  rv_insns_per_tick = 3
  InsnLimits = {0, 1, 2}
  WordBits = 30
  RamSize = 3
  CmdLines <- RvfiCmdLines
  ProgramInsns <- Program
  ClientInsns <- LrSc
  MaxCommands = 3
  MaxInFlight = 2
INVARIANT
  RepliesMatch
CHECK_DEADLOCK FALSE
