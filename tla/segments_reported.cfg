SPECIFICATION Spec
CONSTANTS
  r1 = r1
  r2 = r2
  Recorders = {r1, r2}
  Readers = {reader}
  Names = {"seg"}
  Duration <- SameDuration
  ReservoirSize = 1
  MaxNodes = 2
  MaxCalls <- TwoThenOne
  MaxReports = 1
  MaxOperations = 3
INVARIANT EverySampleReported
