SPECIFICATION Spec
CONSTANTS
  Revs = {"0", "1"}
  NoRev = NoRev
  Factory = "0"
  EnvKind = "grub"
  EnvFaults = {}
  LocalRevs = {}
  HubRevs = {"1"}
  RevNum <- MCRevNum
  RemoteControl = TRUE
  KeepFactory = TRUE
  MaxRetries = 1
  Ops = {}
  Broken = {"1"}
  IoFaults = FALSE
PROPERTIES FailedIsNotTried
