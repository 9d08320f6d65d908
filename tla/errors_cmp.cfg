SPECIFICATION Spec
CONSTANTS
  StructDefs <- MCStructs
  EnumDefs <- MCEnums
  Interfaces <- MCInterfaces
  MaxDepth = 3
  Strings <- MCStrings
  Programs <- CmpPrograms
  Builds <- MCBuilds
  Inputs <- MCInputs
  Jumps = "statements"
INVARIANTS
  ErrorSetsAreTrue
CHECK_DEADLOCK FALSE
