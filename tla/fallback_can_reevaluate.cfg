SPECIFICATION Spec
CONSTANTS
  Domains = {1, 2}
  ApDomains = {1, 2}
  AdhocDomains = {1, 2}
  DiscoveryDomain = 0
  MaxRetries = 1
  MaxFrames = 1
  RadioMayStall = FALSE
INVARIANT FallbackCanReevaluate
CHECK_DEADLOCK FALSE
