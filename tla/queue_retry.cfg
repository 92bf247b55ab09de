SPECIFICATION Spec
CONSTANTS
  a1 = a1
  p1 = p1
  Adders = {a1}
  Pushers = {p1}
  Ticker = ticker
  TTL = 1
  LabelStrings = 4
  HistoLabels = 4
  UploadMayFail = TRUE
  MaxMessages <- TwoAdds
  MaxClock = 2
INVARIANTS TypeOK EachMessageOnce OrderKept BackoffBounded
PROPERTIES ExpiresTheStale ImplementsContract
