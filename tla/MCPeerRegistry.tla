--------------------------- MODULE MCPeerRegistry ---------------------------
(* Instances of PeerRegistry: four devices, of which d1 and d2 may share a *)
(* key and d3 and d4 may be of the Android kind.  Only equality of keys    *)
(* matters, so d1 and d2 are symmetric, and d3 and d4.                     *)
EXTENDS PeerRegistry, TLC

CONSTANTS d1, d2, d3, d4, home, flat

MCDevices == {d1, d2, d3, d4}
MCVIPs == {home, flat}

Distinct == [d \in MCDevices |-> d]
Shared == [d \in MCDevices |-> IF d = d2 THEN d1 ELSE d]
Symmetry == Permutations({d1, d2}) \union Permutations({d3, d4})
AllFlat == [d \in MCDevices |-> flat]
=============================================================================
