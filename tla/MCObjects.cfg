SPECIFICATION FairSpec
CONSTANTS
  Revs <- MCRevs
  Factory = "0"
  LocalRevs = {"locals/a"}
  Atoi <- MCAtoi
  Objs = {"o1", "o2", "o3"}
  ObjsOf <- MCObjsOf
  BindObjs = {"o3"}
  JsonsOf <- MCJsonsOf
  KeepFactory = FALSE
  Together <- MCTogether
  Repeats = {"disk", "object", "step"}
  None = None
INVARIANTS StaysBootable InstalledIsComplete CloudKnows
PROPERTIES StepIsDealtWith
