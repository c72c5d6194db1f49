SPECIFICATION Spec
CONSTANTS
  ap = ap
  peer = peer
  DefaultSsid = DefaultSsid
  NoNet = NoNet
  Nets <- TwoNets
  AdhocNets = {peer}
  OwnSsid = peer
  Lifetime = 4
  Ttt = 2
  MinTtt = 1
  MaxTtt = 3
  Required = 2
  Dwell = 5
  Period = 2
  First = 3
  MaxChains = 2
INVARIANTS
  TypeOK
  GuardMatchesHistory
  SwitchIsEarned
  NoPingPong
  DecisionInv
