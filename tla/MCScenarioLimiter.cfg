SPECIFICATION Spec
CONSTANTS
  Client = {c1, c2}
  Window = 3
  GlobalLimit = 3
  ClientLimit = 2
  Skew = 1
  MaxStamp = 6
SYMMETRY Clients
INVARIANTS
  LimitedUpToSkew
PROPERTIES
  RefusedOnlyWhenSpent
