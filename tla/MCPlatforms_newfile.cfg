SPECIFICATION Spec
CONSTANTS
  Plats = {1, 2, 3}
  NoPlat = NoPlat
  Files = {"bsp", "one", "two", "config", "three"}
  Owner <- MCOwner
  Revs = {"first", "fewer"}
  PlatsOf <- MCPlatsOf
  Conf <- MCConf
  Content <- MCContent
  Absent = Absent
  Rounds = 2
INVARIANTS RunsRevision
