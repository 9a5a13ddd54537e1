\* Each of the three stores, in four scopes.
CONSTANTS
  u1 = u1
  Anonymous = Anonymous
  Nil = Nil
  EmptyObject = "{}"
  Values = {"data"}
  StoreKinds = {"gorm", "memory", "mock"}
  ActionNames = {"SEND", "CLOSE"}
  Ints <- MCInts
  IntWidth = 8
  DefaultLimit = 100
  Scopes <- MCScopes
SPECIFICATION Spec
INVARIANTS
  StoresAnswerAlike
  PagingSkipsNothing
  PaginationDescribesThePage
