---------------------------- MODULE MCStunMapping ---------------------------
(* StunMapping for TLC: uplinks, servers and callers are interchangeable.  *)
EXTENDS StunMapping, TLC

Symmetry == Permutations(IPs) \union Permutations(Servers)
              \union Permutations(Callers)
=============================================================================
