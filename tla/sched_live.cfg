CONSTANTS
  MaxTasks = 3
  MaxScopes = 2
  MaxParks = 2
  MayPanic = TRUE
  PanicsInTeardown = TRUE
SPECIFICATION FairSpec
PROPERTIES ScopesExit  ExitedScopeIsForgotten 
