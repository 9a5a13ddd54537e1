\* Two processes start at once, roll the second migration back, die and start again,
\* over three migrations, the last of which may panic.
CONSTANTS
  Processes = {p1, p2}
  N = 3
  TransactionalDDL = TRUE
  Panicking = {3}
  Reversible = {2, 3}
SPECIFICATION Spec
INVARIANTS
  TypeOK
  RecordedIsRun
  RecordedInOrder
  ReturnedMeansMigrated
PROPERTY
  MigrateEnds
