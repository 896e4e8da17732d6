SPECIFICATION ESpec
CONSTANTS
  HalfRange = 2
  xlen32 = FALSE
  rv_insns_per_tick = 3
  InsnLimits = {0, 1, 2}
  WordBits = 30
  RamSize = 3
  CmdLines <- AllCmdLines
  ProgramInsns <- Program
  ClientInsns <- Commands
  MaxCommands = 3
  MaxInFlight = 2
INVARIANTS
  TypeOK
  TimerSound
  TimerNotOverdue
  InstretAsSpecified
  RunningIsConfigured
  ZeroMeansAgreed
  RepliesMatch
PROPERTIES
  SignatureIsFinal
  CommandsServed
  TimerFires
CHECK_DEADLOCK FALSE
