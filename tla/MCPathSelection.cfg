SPECIFICATION PathSpec
CONSTANTS
  Wan = {wan}
  Cgnat = {cg}
  V6 = {six}
  Private = {}
  NoAddr = NoAddr
  MaxLatency = 2
INVARIANTS PathTypeOK
PROPERTIES LivePathKept NeverToSilentPath
