SPECIFICATION Spec
CONSTANTS
  NoPin = NoPin
  NoHash = NoHash
  NoOwner = NoOwner
  NoAddress = NoAddress
  Addresses = {"A", "B"}
  o1 = o1
  o2 = o2
  Owners = {o1, o2}
  Headers <- MCHeaders
  Windows <- MCWindows
  Mined <- MCMined
  Pins <- MCPins
  MaxHeaders = 2
  MinConfirmations = 1
  MinConfs = {0, 1}
  AllowBootstrap = TRUE
  AllowRebootstrap = FALSE
  Pool = "pool"
  Worlds <- MCWorlds
  Settings <- TwiceSettings
SYMMETRY OwnerSymmetry
INVARIANT CreditedOnce
