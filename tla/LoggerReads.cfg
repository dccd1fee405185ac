SPECIFICATION LogSpec
CONSTANTS
  Clients = {log}
  logger = log
  CycleWord = w1
  Words = {w1, w2, w3}
  Modulus = 4
  max_tries = 3
  MaxPub = 5
INVARIANTS
  LogAccounts
  NeverTorn
PROPERTIES
  ImplementsSnapshot
  ReadReturns
