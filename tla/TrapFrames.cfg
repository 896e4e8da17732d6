SPECIFICATION FSpec
CONSTANTS
  NWords = 1
  sys_enable_rvc = TRUE
  sys_enable_writable_misa = TRUE
  Lines <- TwoLines
  Faults <- SomeFaults
  MstatusInputs <- FrameMstatus
  SstatusInputs <- FrameSstatus
  IntrInputs <- IntrValues
  MedelegInputs <- MedelegValues
  TvecInputs <- ReservedTvec
INVARIANTS
  TypeOK
  FrameHeld
  MPRVOnlyInMachine
  PCAligned
  MachineInterruptsUnmaskable
  DispatchLegal
PROPERTY
  ReturnRestoresContext
  PrivilegeDropsOnlyByXret
  MachineStateIsolated
