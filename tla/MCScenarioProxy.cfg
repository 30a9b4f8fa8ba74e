SPECIFICATION FairSpec
CONSTANTS
  live = live
  hosted = hosted
  again = again
  c1 = c1
  c2 = c2
  Click = {live, hosted, again}
  Client = {c1, c2}
  From <- MCFrom
  Hosted = {hosted, again}
  Replaying = {again}
  ReadyAttempts = 2
  HostedAttempts = 1
  Window = 2
  GlobalLimit = 2
  ClientLimit = 2
  Skew = 1
  MaxTime = 2
INVARIANTS
  LiveDecisionsHappened
  HostedClicksRunOnce
  AnswersStand
  RunsAreBudgeted
PROPERTIES
  ClicksEnd
CHECK_DEADLOCK FALSE
