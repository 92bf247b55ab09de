SPECIFICATION Spec
CONSTANTS
  a1 = a1
  p1 = p1
  Adders = {a1}
  Pushers = {}
  Ticker = ticker
  TTL = 1
  LabelStrings = 4
  HistoLabels = 4
  UploadMayFail = FALSE
  MaxMessages <- OnlyAdds
  MaxClock = 1
PROPERTY UploadedOrKept
