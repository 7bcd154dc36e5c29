SPECIFICATION Spec
SYMMETRY MCSymmetry
CONSTANTS
  Procs = {p1, p2}
  Packs <- MCPacks
  FirstFiles <- MCFirstFiles
  BuiltinPack <- MCBuiltin
  Displays <- MCDisplays
  Predicates = {"serial"}
  ControlIds = {"PICTURE_MODE", "BRIGHTNESS", "INPUT"}
  SchemaVersion = 1
  MaxProfiles = 3
  MaxControls = 2
  FileMax = 4
  MaxCalls = 3
  MaxCrashes = 1
  None = None
INVARIANTS TypeOK SavedFileIsWhole SavedStoreReloads WriteNeedsValidation ResolutionIsMostTrusted
PROPERTY SaveIsAtomic
CHECK_DEADLOCK FALSE
