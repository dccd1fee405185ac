SPECIFICATION LifeSpec
CONSTANTS
  MaxStarts = 2
  MaxAsked = 2
  Calls = {ctl}
  Bridges = {bridge}
  Privileged <- Root
  CrashAt <- Anywhere
INVARIANTS
  OneInstance
  Reachable
PROPERTIES
  ComesUp
  BridgeFollows
  NoReplay
  CallsAnswered
