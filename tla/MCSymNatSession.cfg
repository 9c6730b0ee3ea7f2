SPECIFICATION Spec
CONSTANTS
  Peers = {p1, p2}
  MaxHops = 2
  Notifies = TRUE
INVARIANTS EstablishedPeersKept AtMostOneHopAfterWinner SuccessIsReturned
PROPERTY SessionsEnd
