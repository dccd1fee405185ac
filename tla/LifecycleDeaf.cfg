SPECIFICATION LifeSpec
CONSTANTS
  MaxStarts = 2
  MaxAsked = 2
  Calls = {ctl}
  Bridges = {bridge}
  Privileged <- Root
  CrashAt <- Anywhere
PROPERTIES
  BridgeAnswered
