SPECIFICATION FairSpec
CONSTANTS
  a1 = a1
  p1 = p1
  Adders = {a1}
  Pushers = {p1}
  Ticker = ticker
  TTL = 1
  LabelStrings = 4
  HistoLabels = 4
  UploadMayFail = FALSE
  MaxMessages <- TwoEach
  MaxClock = 2
INVARIANT OnePushPerBatch
PROPERTIES QueueDrains PushIsObserved
