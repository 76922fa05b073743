SPECIFICATION SpecBridge
CONSTANTS
  NoOwner = NoOwner
  o1 = o1
  o2 = o2
  s1 = s1
  s2 = s2
  v1 = v1
  v2 = v2
  Owners = {o1, o2}
  Subs = {s1, s2}
  Vaults = {v1, v2}
  Norm = "norm"
  Spellings = {"norm", "raw"}
  U = 2
  MinPortal = 2
  Settings <- BridgeSettings
  Amounts18 = {2}
  AmountsE8 = {1}
  TicketLog = 1
  MaxDepositE8 = 2
  ForeignSupply = 2
INVARIANTS
  GlobalPeg
PROPERTY PathsInBridge
