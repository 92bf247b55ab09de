SPECIFICATION Spec
CONSTANTS
  r1 = r1
  r2 = r2
  m1 = m1
  m2 = m2
  m3 = m3
  Recorders = {r1, r2}
  Groups = {"group"}
  Frames <- OneFrame
  Messages = {m1, m2, m3}
  Other = other
  MaxMessages = 1
  MaxNodes = 9
  MaxCalls <- TwoThenOne
  MaxReports = 1
SYMMETRY AnyMessage
INVARIANTS TypeOK MessagesBounded MeasurementsAddUp FoundAreReported
