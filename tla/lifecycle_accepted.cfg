SPECIFICATION SystemSpec
CONSTANTS
  Threads = {t1}
  MaxAgents = 2
  MaxCalls = 4
  Script <- ShortScript
  MaxActivity = 0
  MaxReports = 0
  CallsBefore = 0
INVARIANTS AcceptedIsReported
