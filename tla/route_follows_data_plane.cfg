SPECIFICATION Spec
CONSTANTS
  Domains = {3}
  ApDomains = {}
  AdhocDomains = {3}
  DiscoveryDomain = 0
  MaxRetries = 1
  MaxFrames = 1
  RadioMayStall = FALSE
INVARIANT RouteFollowsDataPlane
CHECK_DEADLOCK FALSE
