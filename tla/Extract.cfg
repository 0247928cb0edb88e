SPECIFICATION Spec
CHECK_DEADLOCK FALSE
CONSTANTS
  k1 = k1
  k2 = k2
  k3 = k3
  System = System
  Token = Token
  Other = Other
  None = None
  Key = {k1, k2, k3}
  Program = {System, Token, Other}
  Lengths = 2
  Transactions <- MCTransactions
INVARIANTS StoresTheTransfer IndexIsSafe
