SPECIFICATION Spec
CONSTANTS
  a = a
  b = b
  h = h
  NoConfig = NoConfig
  On = On
  Baseline = Baseline
  Configs <- TwoConfigs
  VpnConfigs <- OnlyA
  Ipv6Configs <- OnlyB
  DhcpConfigs <- OnlyA
  DnsConfigs <- OnlyB
  XdpConfigs <- OnlyA
  ScheduledConfigs <- OnlyB
  Hosts <- OneHost
  Retention = 2
  MaxFaults = 2
  MaxRuns = 2
  PendingAtBoot = TRUE
  Obsolete = FALSE
  Interleaved <- Nothing
INVARIANT
  BootedIsFiltered
CHECK_DEADLOCK FALSE
