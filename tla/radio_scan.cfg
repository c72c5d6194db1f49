SPECIFICATION FairSpec
CONSTANTS
  a = a
  c = c
  None = None
  Off = Off
  Domains <- TwoDomains
  ChannelOf <- ChannelsOfTwo
  Discovery = c
  NChannels = 3
  HopTime = 1
  RescanTime = 1
  RestoreTime = 1
  RescanPeriod = 4
  ScanPeriod = 2
  ListenTime = 2
  Dwell = 7
INVARIANTS
  TypeOK
  HomeBetweenScans
  AwayOnlyToListen
  NoChannelTwice
  ScannedBeforeLeaving
  ScanInv
PROPERTIES
  RescansGoOn
  DiscoveryGoesOn
