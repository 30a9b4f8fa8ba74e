SPECIFICATION Spec
CONSTANTS
  MicrosPerMinor = 10
  MaxAmountMinor = 5
  ManagedResources = {"seattle", "portland"}
  ManagedCategory = "electrical"
  ManagedCurrency = "USD"
  CeilingMinor = 4
  ReceiverId = "receiver"
  WorkOrderScope = "work_order:create"
  Thread = {t1}
  Caller = {"c1"}
  Agent = {"a1", "a2"}
  Subject <- SoloSubject
  Action <- SoloActions
  Certificate <- MCCertificate
  Presentation <- SoloProofs
  Challenge = {ch1, ch2}
  Revocable = {}
  TrustedRoot = "root"
  ChallengeLifetime = 1
  StatusLifetime = 4
  FutureSkew = 0
  MaxTime = 1
  MaxLists = 1
  MaxRestarts = 0
  NoThread = NoThread
  NoChallenge = NoChallenge
  NoGrant = NoGrant
  NoCall = NoCall
SYMMETRY Challenges
INVARIANTS
  RequestHeldUntilGrantEnds
