\* An Apply that panics.
CONSTANTS
  Processes = {p1}
  N = 2
  TransactionalDDL = TRUE
  Panicking = {2}
  Reversible = {}
SPECIFICATION Spec
INVARIANT
  ReturnedMeansAllRan
