SPECIFICATION FairSpec
CONSTANTS
  a = a
  b = b
  h = h
  NoConfig = NoConfig
  On = On
  Baseline = Baseline
  Configs <- TwoConfigs
  VpnConfigs <- OnlyA
  Ipv6Configs <- OnlyB
  DhcpConfigs <- OnlyA
  DnsConfigs <- OnlyB
  XdpConfigs <- OnlyA
  ScheduledConfigs <- OnlyB
  Hosts <- Nothing
  Retention = 1
  MaxFaults = 2
  MaxRuns = 2
  PendingAtBoot = TRUE
  Obsolete = TRUE
  Interleaved <- RollbackOnly
INVARIANTS
  ForwardingFiltered
PROPERTIES
  RunEnds
