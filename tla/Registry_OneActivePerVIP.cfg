SPECIFICATION RegistrySpec
CONSTANTS
  d1 = d1  d2 = d2  d3 = d3  d4 = d4  home = home  flat = flat
  Devices <- MCDevices
  VIPs <- MCVIPs
  NoVIP = NoVIP  NoDevice = NoDevice
  Key <- Distinct
  Name <- Shared
  Android = {}
  Default = {home}
  Legacy = {}
  Assigned <- AllFlat
  OfflineAge = 2
  CleanupAge = 3
  MaxPeers = 0
INVARIANT OneActivePerVIP
