SPECIFICATION Spec
CONSTANTS
  Revs = {"0", "1", "2"}
  NoRev = NoRev
  Factory = "0"
  EnvFaults = {"err", "lost"}
PROPERTIES AtomicOrErased CommittedIsKept
