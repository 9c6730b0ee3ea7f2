---------------------------- MODULE PeerRegistry ----------------------------
(***************************************************************************)
(* internal/peer/registry.go: which peers the registry knows, which of     *)
(* them owns which virtual address, and what Upsert does when a beacon's   *)
(* address or key is already another entry's.  r.mu makes every operation  *)
(* one step.  Ages count in units of which OfflineAge make the offline     *)
(* threshold; a beacon is stale by "more than three seconds" when it is a  *)
(* unit older.  What MergeFrom does to the transport state of a peer       *)
(* (direct, TCP, relay) is not modelled here.                              *)
(*                                                                         *)
(* A definition that nothing below uses is a fault the code could have had *)
(* in the definition it stands before.                                     *)
(***************************************************************************)
EXTENDS Naturals, FiniteSets, Functions

CONSTANTS Devices, VIPs, NoDevice, NoVIP,
          Key, Name,      \* each device's public key and device name
          Android,        \* devices whose ID begins with "Android-"
          Default,        \* addresses ending in .1 or .0
          Legacy,         \* addresses in 100.64.200.x
          Assigned,       \* the address the hash of each device's ID gives
          OfflineAge,     \* constants.PeerOfflineThreshold
          CleanupAge,     \* constants.PeerCleanupInterval
          MaxPeers        \* maxPeers, 0 for no limit

ASSUME RegistryAssumption ==
  /\ NoDevice \notin Devices /\ NoVIP \notin VIPs
  /\ Default \subseteq VIPs /\ Legacy \subseteq VIPs
  /\ Assigned \in [Devices -> VIPs \ Default]
  /\ OfflineAge \in Nat /\ CleanupAge \in Nat /\ OfflineAge <= CleanupAge
  /\ MaxPeers \in Nat

VARIABLES
  peers,   \* r.peers
  last     \* history: what the last Upsert was given and how it ended

registryVars == <<peers, last>>

Ages == 0 .. CleanupAge
Peer == [vip : VIPs \union {NoVIP}, age : Ages, online : BOOLEAN, filter : BOOLEAN]
Known == DOMAIN peers

NoCall == [end |-> "none", id |-> NoDevice]

RegistryInit == peers = <<>> /\ last = NoCall

With(f, d, p) == [e \in DOMAIN f \union {d} |-> IF e = d THEN p ELSE f[e]]
Without(f, ds) == [e \in DOMAIN f \ ds |-> f[e]]

-----------------------------------------------------------------------------
(* existing.MergeFrom(newer) enriches newer, and makes it online and seen  *)
(* now.                                                                    *)
KeepsVIP(old, new) ==
  old.vip # NoVIP /\ (new.vip = NoVIP \/ (new.vip \in Legacy /\ old.vip \notin Legacy))

MergeFrom(old, new) ==
  [new EXCEPT !.vip = IF KeepsVIP(old, new) THEN old.vip ELSE new.vip,
              !.filter = new.filter \/ old.filter,
              !.online = TRUE, !.age = 0]

-----------------------------------------------------------------------------
(* Upsert's loop over the other entries.  It works on                      *)
(*   p      the peer given, which the loop may change,                     *)
(*   vip    the address it looks for,                                      *)
(*   table  the entries, which the loop may change too,                    *)
(*   evict  the entries to delete,                                         *)
(*   drop   whether the loop returned from Upsert.                         *)

IsActive(e) == e.online /\ e.age < OfflineAge

(* The beacon is older than the entry.                                     *)
Outdated(w, e) == e.age < w.p.age

SameKey(d, e) == Key[d] = Key[e]
SameName(d, e) == Name[d] = Name[e]
SameType(d, e) == SameName(d, e) \/ {d, e} \subseteq Android
SameIdentity(d, e) == SameKey(d, e) \/ SameType(d, e)

Drop(w) == [w EXCEPT !.drop = TRUE]
Evict(w, e) == [w EXCEPT !.evict = @ \union {e}]

(* p.MergeFrom(existing): it is existing that is enriched.                 *)
Migrate(w, e) ==
  [w EXCEPT !.table[e] = MergeFrom(w.p, w.table[e]), !.evict = @ \union {e}]

Reassign(w, d) ==
  [w EXCEPT !.p.vip = Assigned[d], !.vip = Assigned[d]]

KeepsClaim(w, e) == w
StripsOwner(w, e) == [w EXCEPT !.table[e].vip = NoVIP]
Displace(w, e) == Evict(w, e)
(* The newcomer loses its claim; both are marked IPConflict.               *)
Strip(w, e) == [w EXCEPT !.p.vip = NoVIP]

SameAddress(w, d, e) ==
  IF SameIdentity(d, e)
    THEN IF Outdated(w, w.table[e]) THEN Drop(w) ELSE Migrate(w, e)
  ELSE IF ~IsActive(w.table[e]) THEN Evict(w, e)
  ELSE IF Outdated(w, w.table[e]) THEN Drop(w)
  ELSE IF w.vip \in Default THEN Reassign(w, d) ELSE Strip(w, e)

SameKeyOnly(w, d, e) ==
  IF SameName(d, e) THEN Migrate(w, e)
  ELSE IF IsActive(w.table[e]) THEN w ELSE Evict(w, e)

Meet(w, d, e) ==
  IF w.drop THEN w
  ELSE IF w.vip # NoVIP /\ w.table[e].vip = w.vip THEN SameAddress(w, d, e)
  ELSE IF SameKey(d, e) THEN SameKeyOnly(w, d, e)
  ELSE w

Start(p) ==
  [p |-> p, vip |-> p.vip, table |-> peers, evict |-> {}, drop |-> FALSE]

(* What the loop works on after each of its n rounds.                      *)
Rounds(p, d, order, n) ==
  LET w[i \in 0 .. n] == IF i = 0 THEN Start(p) ELSE Meet(w[i - 1], d, order[i])
  IN  w

Others(d) == Known \ {d}

Loop(p, d, order) ==
  Rounds(p, d, order, Cardinality(Others(d)))[Cardinality(Others(d))]

-----------------------------------------------------------------------------
(* The entry with the earliest LastSeen goes when the table is too long.   *)
Unlimited(t) == {t}
Limited(t) ==
  IF MaxPeers = 0 \/ Cardinality(DOMAIN t) <= MaxPeers THEN {t}
  ELSE {Without(t, {d}) : d \in {e \in DOMAIN t :
                                   \A f \in DOMAIN t : t[f].age <= t[e].age}}

Stored(w, d) ==
  LET rest == Without(w.table, w.evict)
  IN  With(rest, d, IF d \in DOMAIN rest THEN MergeFrom(rest[d], w.p) ELSE w.p)

(* The loop meets the other entries in any order.  An Upsert of the very   *)
(* object that is in the table changes it even when it returns early.      *)
Upsert(d, p, again) ==
  \E order \in Bijection(1 .. Cardinality(Others(d)), Others(d)) :
    LET w == Loop(p, d, order)
    IN  /\ last' = [end |-> IF w.drop THEN "dropped" ELSE "stored", id |-> d]
        /\ peers' \in IF ~w.drop THEN Limited(Stored(w, d))
                      ELSE IF again THEN {With(w.table, d, w.p)} ELSE {w.table}

(* A beacon from signaling: LastSeen is its timestamp, and it is online    *)
(* unless that is too old.  Older ones are ignored by the engine.          *)
Beacon(d) ==
  \E vip \in VIPs \union {NoVIP}, age \in Ages \ {CleanupAge} :
    Upsert(d, [vip |-> vip, age |-> age, online |-> age < OfflineAge,
               filter |-> FALSE], FALSE)

(* The engine also changes an entry it got from Get and upserts that.      *)
Refresh(d) == d \in Known /\ Upsert(d, peers[d], TRUE)

-----------------------------------------------------------------------------
Change(f) == peers' = f /\ last' = NoCall

(* The first relayed packet of a peer creates its replay filter.           *)
GetReplayFilter(d) ==
  /\ d \in Known
  /\ Change([peers EXCEPT ![d].filter = TRUE])

MarkDeviceOffline(d) ==
  /\ d \in Known
  /\ Change([peers EXCEPT ![d].online = FALSE])

MarkOffline ==
  Change([d \in Known |-> IF peers[d].age >= OfflineAge
                          THEN [peers[d] EXCEPT !.online = FALSE] ELSE peers[d]])

Cleanup == Change(Without(peers, {d \in Known : peers[d].age = CleanupAge}))

ClearAll == Change(<<>>)

Delete(d) == d \in Known /\ Change(Without(peers, {d}))

TimePasses ==
  Change([d \in Known |-> IF peers[d].age < CleanupAge
                          THEN [peers[d] EXCEPT !.age = @ + 1] ELSE peers[d]])

RegistryNext ==
  \/ \E d \in Devices :
       \/ Beacon(d) \/ Refresh(d)
       \/ GetReplayFilter(d) \/ MarkDeviceOffline(d) \/ Delete(d)
  \/ MarkOffline \/ Cleanup \/ ClearAll \/ TimePasses

RegistrySpec == RegistryInit /\ [][RegistryNext]_registryVars

-----------------------------------------------------------------------------
(* Properties                                                              *)

RegistryTypeOK ==
  /\ Known \subseteq Devices
  /\ \A d \in Known : peers[d] \in Peer
  /\ last \in [end : {"none", "stored", "dropped"}, id : Devices \union {NoDevice}]
  /\ MaxPeers > 0 => Cardinality(Known) <= MaxPeers

(* "One virtual address may belong to one active node only" (registry.go:  *)
(* 598): no order of beacons, refreshes, timeouts and evictions leaves two *)
(* active entries with one address.                                        *)
OneActivePerVIP ==
  \A d, e \in Known :
    d # e /\ IsActive(peers[d]) /\ IsActive(peers[e])
      => peers[d].vip = NoVIP \/ peers[d].vip # peers[e].vip

(* "An unknown node with another key cannot displace an active node": an   *)
(* Upsert removes an active entry only for a device of the same key, name  *)
(* or kind, or to make room in a table that is full.                       *)
ActiveNotDisplaced ==
  [][\A d \in Known :
       /\ IsActive(peers[d])
       /\ last'.end \in {"stored", "dropped"}
       /\ d \notin DOMAIN peers'
       => \/ SameIdentity(d, last'.id)
          \/ MaxPeers > 0 /\ Cardinality(DOMAIN peers') = MaxPeers]_registryVars

(* An active entry keeps its address, whatever devices of another identity *)
(* claim: only beacons of the entry's own node change it.                  *)
ActiveKeepsVIP ==
  [][\A d \in Known \intersect DOMAIN peers' :
       /\ IsActive(peers[d])
       /\ peers[d].vip # NoVIP
       /\ last'.id = NoDevice \/ ~SameIdentity(d, last'.id)
       => peers'[d].vip = peers[d].vip]_registryVars
=============================================================================
