SPECIFICATION FairSpec
CONSTANTS
  s1 = s1
  s2 = s2
  s3 = s3
  NoEvent = NoEvent
  Stations <- ThreeStations
  Initial <- TwoStations
  L = 3
  MaxSlots = 1
  MaxQueued = 2
INVARIANTS
  TypeOK
  OneAttemptPending
  Suppressed
  OncePerPeriod
  ElectionInv
PROPERTIES
  BeaconsGoOn
