SPECIFICATION LiveRemoteSpec
CONSTANTS
  Revs = {"0", "1", "2"}
  NoRev = NoRev
  Factory = "0"
  EnvKind = "uboot"
  EnvFaults = {}
  LocalRevs = {}
  HubRevs = {"1", "2"}
  RevNum <- MCRevNum
  RemoteControl = TRUE
  KeepFactory = FALSE
  MaxRetries = 1
  Ops = {"RUN_GC"}
  Broken = {"1"}
  IoFaults = FALSE
PROPERTIES StagedIsResolved
