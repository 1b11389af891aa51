SPECIFICATION LiveSpec
CONSTANTS
  UserKeys = {"log.level", "gc.threshold"}
  PlatKeys = {"log.level"}
  ConfKeys = {"log.level", "gc.threshold"}
  CredKeys = {"log.level"}
  Values = {"big", "empty"}
  BigValues = {"big"}
  Empty = "empty"
  None = None
  DevKeys = {"online", "storage"}
  SysKeys = {"online"}
  DevValues = {1, 2}
  FragLen <- MCFragLen
  BufSize = 7
  FactoryFiles = 2
  MaxChanges = 2
  MaxFaults = 2
INVARIANTS FilesShowUserMeta OverrideInForce UploadedMeansInCloud FactoryMarkMeansSent
PROPERTIES CloudReachesDevice DevMetaReachesCloud
CHECK_DEADLOCK FALSE
