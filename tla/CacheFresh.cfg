CONSTANTS
  File = {f1, f2, f3}
  Content = {a, b}
  Broken = broken
  Empty = empty
  Missing = missing
  Limit <- Limits
  Default = 3
  Providers = {"always", "whenUncached", "ifChanged"}
SYMMETRY Symmetry
SPECIFICATION Spec
INVARIANTS TypeOK SizeIsCount WithinLimit
PROPERTIES EvictsOnlyWhenFull OldestLeaveFirst Current
CHECK_DEADLOCK FALSE
