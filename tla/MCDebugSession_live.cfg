CONSTANTS
  Ids = {s1, s2, s3}
  Others = {s2}
  Calls = {c1, c2}
  PollGenerations = 3
  RetryBudget = 1
  None = None
SPECIFICATION CaptureLiveSpec
INVARIANTS CaptureTypeOK OrderlyPage
PROPERTIES PollingKept WatchedCapturesEnd
