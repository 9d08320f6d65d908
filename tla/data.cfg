CONSTANTS
  c1 = c1
  c2 = c2
  Cells = {c1, c2}
  MaxLen = 3
  MaxRoots = 12
  MaxPressure = 8
  CELL_BYTES = 1
  SLOT_BYTES = 1
  GROWTH_FACTOR = 2
  MARK_AMORTIZATION = 4
  floor_bytes = 2
  k1 = k1
  k2 = k2
  k3 = k3
  Keys = {k1, k2, k3}
  Projectable = {k1, k2}
  Values = {1, 2}
  a = a
  b = b
  Handles = {a, b}
  MaxLiteral = 2
  MaxEntries = 3
  Enums <- MCEnums
  Scrutinees <- MCScrutinees
  MaxArms = 3
  Disks <- MCDisks
  Overlays <- MCOverlays
  Entry <- MCEntry
  Links <- MCLinks
  Aliases <- MCAliases
  SearchPath <- MCSearchPath
  MAX_IMPORT_DEPTH = 2
  Names = {"a", "b", "f", "g", "h", "x", "y", "m", "std", "panics"}
  TypeNames = {"A", "P", "Self"}
  Literals = {"1"}
  Sources <- MCSources
  PreludeValues = {"h"}
  PreludeTypes = {"A"}
  PreludeInterfaces = {"A"}
  STD_MODULES = {"f"}
  PANIC_UNION <- MCPanics
  NATIVE_ERRORS <- MCNativeErrors
  Programs <- MCPrograms
  ImportTargets <- MCLoaded
SPECIFICATION DataSpec
INVARIANTS FootprintBounded LookupsAreExact MissingCasesAreExact LoadIsExact FormattingIsStable NamesAreLexical
PROPERTY DictionarySpec
CHECK_DEADLOCK FALSE
