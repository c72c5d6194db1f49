SPECIFICATION Spec
CONSTANTS
  Domains = {1, 3}
  ApDomains = {1}
  AdhocDomains = {3}
  DiscoveryDomain = 3
  MaxRetries = 1
  MaxFrames = 1
  RadioMayStall = FALSE
PROPERTY ControlSocketKept
CHECK_DEADLOCK FALSE
