SPECIFICATION MbFairSpec
CONSTANTS
  Clients = {a, b, c}
  Mortal = {a, b}
  Stoppable = {}
  WRITE_TICKS = 1
  POLL_TICKS = 2
  STUCK_TICKS = 4
  DELAY_TICKS = 2
INVARIANTS
  OneWriter
  ServedAsSent
  OwnAnswerOnce
PROPERTIES
  LockRecovered
  CallReturns
