SPECIFICATION Spec
CONSTANTS
  U = 2
  MinPortal = 3
  o1 = o1
  o2 = o2
  Owners = {o1, o2}
  Amounts18 = {1, 2, 3}
  AmountsE8 = {1, 2}
  TicketLog = 2
  MaxDepositE8 = 2
  ForeignSupply = 0
SYMMETRY OwnerSymmetry
PROPERTY PortalBurnPays
