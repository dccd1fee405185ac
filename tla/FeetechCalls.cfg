SPECIFICATION FtsFairSpec
CONSTANTS
  FTS_MAX_PKT = 14
  FTS_RXBUF_SIZE = 20
  Calls <- SomeCalls
  Reading <- ServoReading
  MaxCalls = 2
  MaxFaults = 1
INVARIANTS
  OwnReadings
  SoundCallSucceeds
PROPERTIES
  DriverReturns
