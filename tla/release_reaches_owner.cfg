SPECIFICATION Spec
CONSTANTS
  Domains = {2, 3}
  ApDomains = {}
  AdhocDomains = {2, 3}
  DiscoveryDomain = 0
  MaxRetries = 1
  MaxFrames = 1
  RadioMayStall = FALSE
INVARIANT ReleaseReachesOwner
CHECK_DEADLOCK FALSE
