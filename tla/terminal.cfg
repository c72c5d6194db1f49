SPECIFICATION FairSpec
CONSTANTS
  Domains = {1, 2, 3}
  ApDomains = {1, 2}
  AdhocDomains = {3}
  DiscoveryDomain = 3
  MaxRetries = 1
  MaxFrames = 1
  RadioMayStall = FALSE
INVARIANTS
  TypeOK
  EngineInv
  AddressMatchesContext
  JoinedWithoutAddressRetries
  HandoverIsDriven
PROPERTIES
  ImplementsSoftHandover
  HandoverEnds
  HandoverHasDeadline
CHECK_DEADLOCK FALSE
