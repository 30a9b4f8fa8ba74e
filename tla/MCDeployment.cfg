SPECIFICATION FairSpec
CONSTANTS
  MicrosPerMinor = 10000
  MaxAmountMinor = 100000
  ManagedResources = {"seattle", "portland"}
  ManagedCategory = "electrical"
  ManagedCurrency = "USD"
  CeilingMinor = 500000
  ReceiverId = "receiver"
  WorkOrderScope = "work_order:create"
  DefaultResource = "seattle"
  SecondResource = "portland"
  DefaultMax = 50000
  SecondMax = 20000
  Amount = 42000
  Excess = 50100
  Modest = 15000
  Validity = 2
  TrustedRoot = "root"
  StatusLifetime = 1
  Warn = 2
  GateAttempts = 1
  WatchAttempts = 2
  MaxTime = 2
  MaxIssues = 2
  MaxLists = 3
INVARIANTS
  MeetsContract
  OnlyRevokedSlips
  GatedIssueStaysDenied
  WatchedAuthorityLasts
  FactsExplainAnswers
  WalkthroughIllustrates
PROPERTIES
  ObserversEnd
CHECK_DEADLOCK FALSE
