SPECIFICATION Spec
CONSTANTS
  Revs = {"0", "1", "locals/a"}
  NoRev = NoRev
  Factory = "0"
  EnvKind = "grub"
  EnvFaults = {"err"}
  LocalRevs = {"locals/a"}
  HubRevs = {"1"}
  RevNum <- MCRevNum
  RemoteControl = TRUE
  KeepFactory = TRUE
  MaxRetries = 1
  Ops = {"REBOOT_DEVICE", "POWEROFF_DEVICE", "LOCAL_RUN", "MAKE_FACTORY", "RUN_GC", "PUT_STEP"}
  Broken = {"0", "1"}
  IoFaults = TRUE
INVARIANTS TypeOK InstalledIsTried BootedIsRollbackPoint
PROPERTIES Refinement DoneIsRollbackPoint RollbackPointKept
