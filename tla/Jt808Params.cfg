\* Two settings and two crashes: a setting after a torn file, and a crash again.
\* The system may stop: main is aborted, or two threads are in SetToFile.
SPECIFICATION Spec
CONSTANTS
  Lists <- MCLists
  Layout <- MCLayout
  BadPorts = {1}
  MaxSets = 2
  MaxCrashes = 2
  None = None
INVARIANTS TypeOK SettingIsKept
PROPERTIES SavedIsAll AbortHasCause RequestIsAnswered
CHECK_DEADLOCK FALSE
