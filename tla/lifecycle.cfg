SPECIFICATION SystemSpec
CONSTANTS
  Threads = {t1, t2}
  MaxAgents = 3
  MaxCalls = 3
  Script <- ShortScript
  MaxActivity = 1
  MaxReports = 3
  CallsBefore = 1
SYMMETRY AnyThread
INVARIANTS SystemTypeOK ReturnedIsRunning CrashNeedsSecondStart CountersAddUp
