SPECIFICATION FairSpec
CONSTANTS
  r1 = r1
  r2 = r2
  Recorders = {r1, r2}
  Readers = {reader, tester}
  Names = {"seg"}
  Duration <- TwoDurations
  ReservoirSize = 1
  MaxNodes = 2
  MaxCalls <- ThreeThenOne
  MaxReports = 1
  MaxOperations = 4
INVARIANTS TypeOK ReservoirBound FoundIsLive FoundAreReported PanicNeedsRace TakesWhatItMarks
 
