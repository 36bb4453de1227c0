SPECIFICATION FairSpec
CONSTANTS
  ReadLimit = 5
  EmptyReads = 2
  MaxExchanges = 2
  MaxWaiting = 2
  MaxIncoming = 1
  Refused = Refused
  NotAFrame = NotAFrame
CHECK_DEADLOCK FALSE
INVARIANTS
  LineTypeOK
  DamageIsNoticed
  LongWritesReadBack
PROPERTIES
  ImplementsExchanges
  CleanExchangesSucceed
  ExchangesEnd
