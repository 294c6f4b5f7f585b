SPECIFICATION MCSpec
CONSTANTS
  Servers = {"s1", "s2"}
  CommandLines <- SomeCommandLines
  RangeEnd = 2
  MaxRequests = 1
  Traces = {"t", "u"}
  LogDays = 3
  MaxLines = 3
  LOOKBACK = 2
  MAX_ENTRIES = 2
  WINDOW = 3
  Durations = {0, 1, 2}
  Writers = {"w1", "w2", "w3"}
  Processes = {"p1", "p2", "p3"}
  MaxIoErrors = 1
  SectionNames <- SomeSections
  KeyNames <- SomeKeys
  Refused <- NoKeys
  Values = {1, 2, 3}
  Misread <- SomeMisread
  FirstSources <- SomeSources
  Patches <- SomePatches
  MaxUpdates = 2
  Dirs <- SomeDirs
  ModuleDirs = {"forgekit_rpg"}
  ModuleIds = {"rpg"}
  Versions <- SomeVersions
  MaxChecks = 2
  MaxChanges = 1
  DocLines <- SomeDocLines
  OldDocs <- SomeDocs
  CodeFiles = {"x.ts"}
  ContextFiles = {"doc.md"}
  Mappings <- SomeMappings
  MaxAdded = 1
  MaxRemoved = 2
  Spellings <- SomeSpellings
  Unusual <- UnusualSpellings
  Beginnings <- SomeBeginnings
  MaxTokens = 3
  MaxRuns = 2
  MaxUserHooks = 2
  MaxFailures = 1
  PING_INTERVAL = 2
  MAX_MISSED = 3
  MaxPings = 6
  Scenes = {"first", "second"}
  Props = {"p"}
  SetTo = {0, 1}
  TxIds = {"t1", "t2"}
  MaxEditorSteps = 5
INVARIANTS
  WorkbenchTypeOK PortsServed OptionsMeanWhatTheySay FilesKept
  CompatibilityTold HooksGuard ArgumentsArrive ParsesTheGrammar
PROPERTIES
  SettingsHold ObservationsTrue EditorKeepsBooks ShutdownEnds
CHECK_DEADLOCK FALSE
