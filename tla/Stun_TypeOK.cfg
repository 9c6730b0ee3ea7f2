CONSTANTS
  IPs = {wan1, wan2}
  Servers = {s1, s2}
  Callers = {c1, c2}
  NoIP = NoIP
  MaxTx = 3
  MaxGen = 2
  MaxTokens = 1
SYMMETRY Symmetry
SPECIFICATION StunSpec
INVARIANT StunTypeOK
