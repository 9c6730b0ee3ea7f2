SPECIFICATION RegistrySpec
CONSTANTS
  d1 = d1  d2 = d2  d3 = d3  d4 = d4  home = home  flat = flat
  Devices <- MCDevices
  VIPs <- MCVIPs
  NoVIP = NoVIP  NoDevice = NoDevice
  Key <- Shared
  Name <- Distinct
  Android = {d3, d4}
  Default = {}
  Legacy = {home}
  Assigned <- AllFlat
  OfflineAge = 1
  CleanupAge = 2
  MaxPeers = 3
INVARIANTS RegistryTypeOK OneActivePerVIP
PROPERTIES ActiveNotDisplaced ActiveKeepsVIP
SYMMETRY Symmetry
