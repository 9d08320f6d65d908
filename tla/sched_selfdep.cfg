CONSTANTS
  MaxTasks = 3
  MaxScopes = 2
  MaxParks = 0
  MayPanic = FALSE
  PanicsInTeardown = FALSE
SPECIFICATION Spec
INVARIANT ReportedDependencyIsReal
