CONSTANTS
  Settings = {"old", "new"}
  MaxVersion = 2
  Absent = Absent
  NoSettings = NoSettings
SPECIFICATION Spec
INVARIANTS
  TypeOK
  SettingsKept
PROPERTIES
  FreshImage
  RunsOrLost
