SPECIFICATION MCSpec
CONSTANTS
  Names = {"twice", "module", "bare", "ghost"}
  RpgModules = {"combat"}
  HasSchema = {"twice", "module"}
  HasFactory = {"module"}
  MaxCalls = 2
  ClientCalls = {1}
  MaxLogFailures = 1
  ToolErrors = {"INVALID_ARGUMENT", "none"}
  KeyFiles = {"forgekit_rpg"}
  MaxEdits = 1
  MaxUnread = 1
  Catalogs <- SomeCatalogs
INVARIANTS
  ServerTypeOK AnswerTells LogTells BridgeKeepsOrder
PROPERTIES
  AnswerFinal ExposureHolds EverybodyAnswered LicensesFollow
CHECK_DEADLOCK FALSE
