SPECIFICATION Spec
CONSTANTS
  Devices = {d1, d2}
  Links = {l1, l2}
  Quota = 1
  NoLink = NoLink
INVARIANTS TableIsRight QuotaBounded
PROPERTIES ServerStops RelayReturns
