SPECIFICATION Spec
CONSTANTS
  c1 = c1
  c2 = c2
  s1 = s1
  d1 = d1
  d2 = d2
  a1 = a1
  a2 = a2
  NoIp = NoIp
  NoMac = NoMac
  Away = Away
  Clients <- TwoClients
  StaMacs = {s1}
  Domains <- TwoDomains
  Pool <- TwoAddresses
  KeyedWith <- OneKeyed
  MaxRetries = 1
  MaxTx <- TxBounds
INVARIANTS
  TypeOK
  PoolPartition
  HolderIsLeased
  LeaseInv
  RefusedOnlyWhenFull
PROPERTIES
  ContractKept
CONSTRAINTS
  AtMostTwoFrames
  SecondStaysInFirstDomain
CHECK_DEADLOCK FALSE
