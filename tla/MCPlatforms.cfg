SPECIFICATION LiveSpec
CONSTANTS
  Plats = {1, 2, 3}
  NoPlat = NoPlat
  Files = {"bsp", "one", "two", "config", "three"}
  Owner <- MCOwner
  Revs = {"first", "changed", "fewer", "deleted", "data", "data changed", "unset", "root", "bsp"}
  PlatsOf <- MCPlatsOf
  Conf <- MCConf
  Content <- MCContent
  Absent = Absent
  Rounds = 2
INVARIANTS RunsNoOldFile RunsOnVolumes OneLogger StoppedBeforeReplaced
PROPERTIES StartOrder UnchangedIsKept StopEnds
