SPECIFICATION FilesSpec
CONSTANTS
  Writers = {"w1", "w2"}
  Processes = {"p1"}
  MaxIoErrors = 0
INVARIANT SettingsFileWhole
CHECK_DEADLOCK FALSE
