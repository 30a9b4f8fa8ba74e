SPECIFICATION FairServiceSpec
CONSTANTS
  MicrosPerMinor = 10
  MaxAmountMinor = 5
  ManagedResources = {"seattle"}
  ManagedCategory = "electrical"
  ManagedCurrency = "USD"
  CeilingMinor = 4
  ReceiverId = "receiver"
  WorkOrderScope = "work_order:create"
  Thread = {f1, f2}
  f1 = f1
  f2 = f2
  Script <- MCScript
  Caller = {"c1", "c2"}
  Agent = {"a1", "a2"}
  Subject <- MCSubject
  Action <- MCAction
  Certificate <- MCCertificate
  Presentation <- MCPresentation
  Challenge = {ch1, ch2}
  Reference = {ref1, ref2}
  Ttl = 1
  MaxEntries = 2
  Revocable = {}
  TrustedRoot = "root"
  ChallengeLifetime = 1
  StatusLifetime = 4
  FutureSkew = 0
  MaxTime = 1
  MaxLists = 1
  MaxRestarts = 1
  NoThread = NoThread
  NoChallenge = NoChallenge
  NoGrant = NoGrant
  NoCall = NoCall
  NoEntry = NoEntry
  NoReference = NoReference
  NoBundle = NoBundle
INVARIANTS
  AnswersAgreeWithOrders
  HonestFlowsAreNotRefused
PROPERTIES
  FlowsEnd
