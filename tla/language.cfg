SPECIFICATION Spec
CONSTANTS
  StructDefs <- MCStructs
  EnumDefs <- MCEnums
  Interfaces <- MCInterfaces
  MaxDepth = 3
  Strings <- MCStrings
  Programs <- MCPrograms
  Builds <- MCBuilds
  Inputs <- MCInputs
  Jumps = "statements"
INVARIANTS
  OneDepthPerInstruction
  ErrorSetsAreTrue
PROPERTIES
  RunsAsWritten
CHECK_DEADLOCK FALSE
