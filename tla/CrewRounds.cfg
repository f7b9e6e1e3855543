CONSTANTS
  a = a
  b = b
  c = c
  Id = {a, b, c}
  Ref = {"steady", "shaky"}
  Node = {"rest", "work"}
  Bs = {0, 1}
  Message <- Messages
  Emission <- Said
  Start <- Starts
  Fresh <- First
  Everyone = everyone
  Unusable = unusable
  NoMachines = noMachines
  ErrorText = errorText
  Empty = empty
  Threw = threw
  Most = 4
  MaxMachines = 2
  Lookup <- Lookups
  Walk <- Walks
SPECIFICATION Spec
INVARIANTS TypeOK Routed SaidIsEmitted
PROPERTIES CrewKept Delivered Implements
