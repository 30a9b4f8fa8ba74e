SPECIFICATION FairSpec
CONSTANTS
  Runtimes <- MCRuntimes
  MaxIssue = 2
  MaxFaults = 3
  Garbled = Garbled
INVARIANTS
  MaterialIsOfOneIssue
  DoneMeansRotated
PROPERTIES
  DigestsFollowVolumes
  RotationRecovers
CHECK_DEADLOCK FALSE
