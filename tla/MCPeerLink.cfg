SPECIFICATION Spec
CONSTANTS
  NoPeer = NoPeer
  Idle = Idle
  Same = Same
  Nets = {"udp", "in", "relay", "dead"}
  Recent = 1
  Fresh = 2
  Stale = 2
  Confirmed = 2
  Expiry = 3
  PingEvery = 3
  ProbesToDoubt = 1
  Overtaking = 1
INVARIANT OfflineHasNoPath
CHECK_DEADLOCK FALSE
PROPERTY BeaconKeepsLivePath
PROPERTY NoLastingBlackhole
PROPERTY DeadPeerNotDirect
