SPECIFICATION Spec
CONSTANTS
  NoPeer = NoPeer
  Idle = Idle
  Same = Same
  Nets = {"udp", "relay", "dead"}
  Recent = 1
  Fresh = 2
  Stale = 2
  Confirmed = 2
  Expiry = 3
  PingEvery = 3
  ProbesToDoubt = 1
  Overtaking = 1
PROPERTY NoGhostP2P
CHECK_DEADLOCK FALSE
