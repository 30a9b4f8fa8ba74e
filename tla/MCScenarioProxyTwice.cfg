SPECIFICATION Spec
CONSTANTS
  live = live
  hosted = hosted
  again = again
  c1 = c1
  c2 = c2
  Click = {live, hosted}
  Client = {c1, c2}
  From <- MCFrom
  Hosted = {hosted}
  Replaying = {}
  ReadyAttempts = 2
  HostedAttempts = 1
  Window = 2
  GlobalLimit = 1
  ClientLimit = 1
  Skew = 1
  MaxTime = 0
INVARIANTS
  OneOrderPerClick
CHECK_DEADLOCK FALSE
