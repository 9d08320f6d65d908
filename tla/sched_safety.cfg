CONSTANTS
  MaxTasks = 3
  MaxScopes = 2
  MaxParks = 2
  MayPanic = TRUE
  PanicsInTeardown = FALSE
SPECIFICATION Spec
INVARIANTS StartedInOnePlace OpenersAreBelow NoSilentFailure RethrowsEarliest NeverStuck NothingOutlivesItsScope
PROPERTY TreeSpec
