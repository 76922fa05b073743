SPECIFICATION Spec
CHECK_DEADLOCK FALSE
CONSTANTS
  NoOwner = NoOwner
  Owners = {"o1", "o2"}
  EthVaultAddresses = {"v1", "v2"}
  LockAmounts = {1, 2}
  MaxLockedWei = 3
  NoAddress = NoAddress
  Addresses = {"o1", "o2"}
  Registrants = {"o1", "o2"}
  SubAddresses = {"o1", "o2"}
  Indexes = {0, 1}
  Registrations <- RegistrationChoices
  Tokens = {"CTSI"}
  DepositAmounts = {1}
  WithdrawAmounts <- WithdrawChoices
  MaxDeposited = 3
INVARIANTS
  WethCovered
  LockBooksAgree
  InventoryBacked
  BoundIsListed
PROPERTIES
  AnswersAreOwn
  InputsAnswered
