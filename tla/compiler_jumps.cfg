SPECIFICATION Spec
CONSTANTS
  StructDefs <- MCStructs
  EnumDefs <- MCEnums
  Interfaces <- MCInterfaces
  MaxDepth = 3
  Strings <- MCStrings
  Programs <- MCPrograms
  Builds <- MCBuilds
  Inputs <- MCInputs
  Jumps = "anywhere"
INVARIANTS
  OneDepthPerInstruction
CHECK_DEADLOCK FALSE
