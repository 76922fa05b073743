SPECIFICATION Spec
CONSTANTS
  NoPin = NoPin
  NoHash = NoHash
  Headers <- MCHeaders
  Windows <- MCWindows
  Mined <- MCMined
  Pins <- MCPins
  MaxHeaders = 2
  MinConfirmations = 1
  MinConfs = {0, 1}
  AllowBootstrap = TRUE
  AllowRebootstrap = FALSE
  Reverting = {FALSE}
PROPERTY FinalByRecordedPin
