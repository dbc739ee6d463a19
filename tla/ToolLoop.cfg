SPECIFICATION FairSpec
CONSTANTS
  Apis <- BothApis
  MaxIterations = 4
  MaxAttempts = 2
  Deadline = 12
  Reserve = 3
  Durations <- ShortOrLong
  ToolTimes <- QuickOrSlow
  SdkRetries = 2
  Backoffs <- OneBackoff
  Waits <- OneWait
  Starts <- EarlyOrLate
  Cap = 6
  Sizes <- SmallOrLarge
  MaxCalls = 2
INVARIANTS
  TypeOK
  WellFormedRequests
  OneBreakpoint
  RequestFits
  ReturnsLastWord
  FinalizeOverrun
PROPERTY TurnEnds
