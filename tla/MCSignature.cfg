SPECIFICATION Spec
CONSTANTS
  Inputs <- MCInputs
  Modes = {"disabled", "lenient", "strict"}
  SigKeys <- MCSigKeys
  Glob <- MCGlob
  Under <- MCUnder
INVARIANTS VerdictIsRight
