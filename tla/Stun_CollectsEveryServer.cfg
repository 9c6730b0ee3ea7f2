CONSTANTS
  IPs = {wan1, wan2}
  Servers = {s1, s2, s3}
  Callers = {c1, c2}
  NoIP = NoIP
  MaxTx = 2
  MaxGen = 2
  MaxTokens = 1
SYMMETRY Symmetry
SPECIFICATION StunSpec
PROPERTY CollectsEveryServer
CHECK_DEADLOCK FALSE
