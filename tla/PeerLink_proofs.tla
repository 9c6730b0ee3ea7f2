-------------------------- MODULE PeerLink_proofs --------------------------
(***************************************************************************)
(* Theorems about PeerLink: its types, that an offline peer has no direct  *)
(* path, and that no beacon takes a live one.                              *)
(***************************************************************************)
EXTENDS PeerLink, TLAPS

LEMMA Thresholds ==
  /\ Recent \in Nat /\ Fresh \in Nat /\ Stale \in Nat /\ Confirmed \in Nat /\ Expiry \in Nat
  /\ Stale < Expiry /\ Old = Expiry + 1 /\ Never = Expiry + 2
  /\ PingEvery \in Nat /\ ProbesToDoubt \in Nat /\ ProbesToDoubt > 0
  /\ Overtaking \in Nat /\ Idle # Same
BY LinkAssumption DEF LinkAssumption, Old, Never

(* What MergeFrom makes of two entries is an entry, and an online one.     *)
LEMMA MergeType ==
  ASSUME NEW o \in Peer, NEW n \in Peer
  PROVE  MergeFrom(o, n) \in Peer /\ MergeFrom(o, n).online
<1> DEFINE m == Inherit(o, n)
           k == KeepOrCut(o, m)
           g == Guarantee(o, m, k)
<1>1. m \in Peer
  BY DEF Inherit, Peer
<1>2. k \in Peer
  BY <1>1 DEF KeepOrCut, Peer, Labels
<1>3. g \in Peer
  <2> HIDE DEF m, k
  <2> QED BY <1>2 DEF Guarantee, Peer, Labels
<1>4. Completed(o, g) \in Peer /\ Completed(o, g).online
  <2> HIDE DEF g
  <2> DEFINE t == g.tcp \/ o.tcp
             c == IF Moved(o, g) \/ o.seen > Recent THEN 0
                  ELSE IF g.probes = 0 THEN o.probes ELSE g.probes
  <2>1. t \in BOOLEAN
    OBVIOUS
  <2>2. c \in 0 .. ProbesToDoubt
    BY <1>3, Thresholds DEF Peer
  <2>3. 0 \in Ages
    BY Thresholds DEF Ages
  <2>4. Completed(o, g) = [g EXCEPT !.tcp = t, !.probes = c, !.online = TRUE, !.seen = 0]
    BY DEF Completed
  <2> HIDE DEF t, c
  <2> QED BY <1>3, <2>1, <2>2, <2>3, <2>4 DEF Peer
<1> QED BY <1>4 DEF MergeFrom

(* An entry that is offline has no direct path.  The inductive invariant   *)
(* says it of the object a ping holds as well: that may be stored again.   *)
Clean(p) == ~p.online => ~p.direct /\ ~p.tcp
CleanPeer == {p \in Peer : Clean(p)}

Inv ==
  /\ entry \in CleanPeer \union {NoPeer}
  /\ held \in CleanPeer \union {Idle, Same}
  /\ held = Same => Known
  /\ timer \in 0 .. PingEvery
  /\ conn \in BOOLEAN /\ net \in Nets
  /\ after \in 0 .. Overtaking

(* What Inv says of the two variables a step stores objects in.            *)
Objects ==
  /\ entry \in CleanPeer \union {NoPeer}
  /\ held \in CleanPeer \union {Idle, Same}
  /\ held = Same => Known

LEMMA MergeIsClean ==
  ASSUME NEW o \in Peer, NEW n \in Peer
  PROVE  MergeFrom(o, n) \in CleanPeer
BY MergeType DEF CleanPeer, Clean

LEMMA TouchKeepsObjects ==
  ASSUME Inv, Known, NEW n \in Peer, Touch(n)
  PROVE  Objects'
BY MergeIsClean, NullAssumption DEF Inv, Objects, Touch, Known, CleanPeer

LEMMA StoreKeepsObjects ==
  ASSUME Inv, NEW n \in CleanPeer, Store(n)
  PROVE  Objects'
<1>1. CASE Known
  <2>1. entry \in Peer
    BY <1>1 DEF Inv, Known, CleanPeer
  <2> QED BY <1>1, <2>1, MergeIsClean, NullAssumption DEF Inv, Objects, Store, Known, CleanPeer
<1>2. CASE ~Known
  BY <1>2, NullAssumption DEF Inv, Objects, Store, Known, CleanPeer
<1> QED BY <1>1, <1>2

LEMMA UpsertKeepsObjects ==
  ASSUME Inv, NEW n \in CleanPeer, Upsert(n)
  PROVE  Objects'
<1>1. CASE Known
  <2>1. entry \in Peer /\ n \in Peer
    BY <1>1 DEF Inv, Known, CleanPeer
  <2> QED BY <1>1, <2>1, MergeIsClean, NullAssumption, Thresholds
          DEF Inv, Objects, Upsert, Known, CleanPeer
<1>2. CASE ~Known
  BY <1>2, NullAssumption, Thresholds DEF Inv, Objects, Upsert, Known, CleanPeer
<1> QED BY <1>1, <1>2

LEMMA AgeTypes ==
  /\ 0 \in Ages /\ Old \in Ages /\ 0 \in 0 .. ProbesToDoubt
  /\ \A a \in Ages : Aged(a) \in Ages
  /\ \A a \in Ages \union {Never} : Aged(a) \in Ages \union {Never}
BY Thresholds DEF Ages, Aged

LEMMA BeaconIsClean ==
  ASSUME Inv, NEW addr \in Addresses
  PROVE  Preserved(addr) \in CleanPeer /\ Late(Preserved(addr)) \in CleanPeer
<1>1. FromScratch(addr) \in Peer /\ FromScratch(addr).online
  BY AgeTypes, Thresholds DEF FromScratch, Peer, Labels
<1>2. Preserved(addr) \in Peer /\ Preserved(addr).online
  <2>1. CASE ~Known
    BY <1>1, <2>1 DEF Preserved
  <2>2. CASE Known
    <3> DEFINE tcp == entry.via = "tcp" \/ conn
               d == tcp \/ (~EndpointDead(entry, addr) /\ entry.direct
                              /\ IsBilateralP2P(entry, Recent))
    <3>1. entry \in Peer /\ conn \in BOOLEAN
      BY <2>2 DEF Inv, Known, CleanPeer
    <3>2. tcp \in BOOLEAN /\ d \in BOOLEAN /\ (tcp \/ entry.tcp) \in BOOLEAN
      OBVIOUS
    <3>3. Preserved(addr) =
            [FromScratch(addr) EXCEPT
               !.direct = d, !.tcp = tcp \/ entry.tcp,
               !.via = IF tcp THEN "tcp" ELSE entry.via,
               !.dseen = entry.dseen, !.bseen = entry.bseen]
      BY <2>2 DEF Preserved
    <3> HIDE DEF d, tcp
    <3> DEFINE t == tcp \/ entry.tcp
    <3>4. t \in BOOLEAN
      BY <3>2
    <3>5. Preserved(addr) =
            [FromScratch(addr) EXCEPT
               !.direct = d, !.tcp = t,
               !.via = IF tcp THEN "tcp" ELSE entry.via,
               !.dseen = entry.dseen, !.bseen = entry.bseen]
      BY <3>3
    <3> HIDE DEF t
    <3> QED BY <1>1, <3>1, <3>2, <3>4, <3>5 DEF Peer, Labels
  <2> QED BY <2>1, <2>2
<1>3. Late(Preserved(addr)) \in CleanPeer
  BY <1>2, AgeTypes DEF Late, Peer, Labels, CleanPeer, Clean
<1> QED BY <1>2, <1>3 DEF CleanPeer, Clean

LEMMA SignKeepsObjects ==
  ASSUME Inv
  PROVE  /\ \A measured \in BOOLEAN : Pong(measured) => Objects'
         /\ \A tcp, copy \in BOOLEAN : InboundPacket(tcp, copy) => Objects'
         /\ PathFound => Objects'
         /\ PeerUp => Objects'
<1>1. ASSUME Known PROVE entry \in Peer
  BY <1>1 DEF Inv, Known, CleanPeer
<1>2. ASSUME NEW measured \in BOOLEAN, Pong(measured) PROVE Objects'
  <2> DEFINE n == [entry EXCEPT !.direct = TRUE, !.dseen = 0, !.bseen = 0, !.probes = 0,
                                !.via = IF measured \/ @ = "relay" THEN "udp" ELSE @]
  <2>1. Known /\ Touch(n)
    BY <1>2 DEF Pong
  <2> DEFINE v == IF measured \/ entry.via = "relay" THEN "udp" ELSE entry.via
  <2>a. entry \in Peer
    BY <1>1, <2>1
  <2>b. v \in Labels
    BY <2>a DEF Peer, Labels
  <2>c. n = [entry EXCEPT !.direct = TRUE, !.dseen = 0, !.bseen = 0, !.probes = 0,
                          !.via = v]
    OBVIOUS
  <2> HIDE DEF n, v
  <2>2. n \in Peer
    BY <2>a, <2>b, <2>c, AgeTypes DEF Peer
  <2> QED BY <2>1, <2>2, TouchKeepsObjects
<1>3. ASSUME NEW tcp \in BOOLEAN, NEW copy \in BOOLEAN, InboundPacket(tcp, copy)
      PROVE  Objects'
  <2> DEFINE n == HeardFrom(entry, tcp)
  <2>1. Known /\ (Touch(n) \/ Store(n))
    BY <1>3 DEF InboundPacket
  <2> DEFINE v == IF tcp THEN "tcp"
                  ELSE IF entry.via \in {"relay", "mesh"} THEN "udp" ELSE entry.via
  <2>a. entry \in Peer
    BY <1>1, <2>1
  <2>b. v \in Labels
    BY <2>a DEF Peer, Labels
  <2>c. n = [entry EXCEPT !.direct = TRUE, !.via = v, !.online = TRUE, !.seen = 0,
                          !.dseen = 0, !.bseen = 0, !.probes = 0]
    BY DEF HeardFrom
  <2> HIDE DEF n, v
  <2>2. n \in CleanPeer
    BY <2>a, <2>b, <2>c, AgeTypes DEF Peer, CleanPeer, Clean
  <2>3. n \in Peer
    BY <2>2 DEF CleanPeer
  <2> QED BY <2>1, <2>2, <2>3, TouchKeepsObjects, StoreKeepsObjects
<1>4. ASSUME PathFound PROVE Objects'
  <2> DEFINE n == [entry EXCEPT !.direct = TRUE, !.dseen = 0]
  <2>1. Known /\ Touch(n)
    BY <1>4 DEF PathFound
  <2>2. n \in Peer
    BY <1>1, <2>1, AgeTypes DEF Peer
  <2> HIDE DEF n
  <2> QED BY <2>1, <2>2, TouchKeepsObjects
<1>5. ASSUME PeerUp PROVE Objects'
  <2> DEFINE n == [entry EXCEPT !.direct = TRUE, !.tcp = TRUE, !.via = "tcp",
                                !.dseen = 0, !.bseen = 0, !.probes = 0]
  <2>1. CASE Known
    <3>1. Touch(n)
      BY <1>5, <2>1 DEF PeerUp
    <3>a. entry \in Peer
      BY <1>1, <2>1
    <3>2. n \in Peer
      BY <3>a, AgeTypes DEF Peer, Labels
    <3> HIDE DEF n
    <3> QED BY <2>1, <3>1, <3>2, TouchKeepsObjects
  <2>2. CASE ~Known
    BY <1>5, <2>2 DEF PeerUp, Inv, Objects, Known
  <2> QED BY <2>1, <2>2
<1> QED BY <1>2, <1>3, <1>4, <1>5

LEMMA LeastType ==
  ASSUME NEW a \in 0 .. ProbesToDoubt, NEW b \in Nat
  PROVE  Least(a + b, ProbesToDoubt) \in 0 .. ProbesToDoubt
BY Thresholds DEF Least

LEMMA SenderKeepsObjects ==
  ASSUME Inv, PublishProbes \/ Send
  PROVE  Objects'
<1>1. entry \in Peer /\ Clean(entry)
  BY DEF Inv, Known, CleanPeer, PublishProbes, Send
<1>2. CASE PublishProbes
  <2>1. PICK n \in 1 .. ProbesToDoubt :
          entry' = [entry EXCEPT !.probes = Least(@ + n, ProbesToDoubt)]
    BY <1>2 DEF PublishProbes
  <2>2. Least(entry.probes + n, ProbesToDoubt) \in 0 .. ProbesToDoubt
    BY <1>1, LeastType DEF Peer
  <2>3. entry' \in CleanPeer
    BY <1>1, <2>1, <2>2 DEF Peer, CleanPeer, Clean
  <2> QED BY <1>2, <2>3, NullAssumption DEF PublishProbes, Objects, Inv, Known, CleanPeer
<1>3. CASE Send
  <2>1. PICK sent \in BOOLEAN :
          \/ \E via \in {"mesh", entry.via} \union IF sent THEN {} ELSE {"other", "relay"} :
               entry' = [entry EXCEPT !.via = via]
          \/ entry' \in {Relabel(entry), MergeFrom(Relabel(entry), Relabel(entry))}
    BY <1>3 DEF Send
  <2>2. \A via \in Labels : [entry EXCEPT !.via = via] \in CleanPeer
    BY <1>1 DEF Peer, CleanPeer, Clean
  <2>3. entry.via \in Labels /\ {"mesh", "other", "relay", "tcp", "udp"} \subseteq Labels
    BY <1>1 DEF Peer, Labels
  <2>4. entry \in CleanPeer
    BY <1>1 DEF CleanPeer
  <2>5. Relabel(entry) \in CleanPeer
    BY <2>2, <2>3, <2>4 DEF Relabel
  <2>6. Relabel(entry) \in Peer
    BY <2>5 DEF CleanPeer
  <2>7. entry' \in CleanPeer
    BY <2>1, <2>2, <2>3, <2>5, <2>6, MergeIsClean
  <2> QED BY <1>3, <2>7, NullAssumption DEF Send, Objects, Inv, Known, CleanPeer
<1> QED BY <1>2, <1>3

LEMMA PingKeepsObjects ==
  ASSUME Inv, PingEnds
  PROVE  Objects'
<1>1. Pinged \in CleanPeer
  BY DEF PingEnds, PingAnswered, PingFailed, Pinged, Inv, Known
<1>2. Pinged \in Peer /\ Clean(Pinged)
  BY <1>1 DEF CleanPeer
<1>3. CASE PingAnswered
  <2>1. PICK via \in Selected(Pinged) :
          Upsert([Pinged EXCEPT !.probes = 0, !.dseen = 0,
                                !.bseen = IF Pinged.direct \/ Pinged.via = "udp" THEN 0 ELSE @,
                                !.via = via])
    BY <1>3 DEF PingAnswered
  <2>2. via \in Labels
    BY DEF Selected, Labels
  <2> DEFINE n == [Pinged EXCEPT !.probes = 0, !.dseen = 0,
                     !.bseen = IF Pinged.direct \/ Pinged.via = "udp" THEN 0 ELSE @,
                     !.via = via]
  <2> DEFINE b == IF Pinged.direct \/ Pinged.via = "udp" THEN 0 ELSE Pinged.bseen
  <2>3. b \in Ages \union {Never}
    BY <1>2, AgeTypes DEF Peer
  <2>4. n = [Pinged EXCEPT !.probes = 0, !.dseen = 0, !.bseen = b, !.via = via]
    OBVIOUS
  <2>5. Upsert(n)
    BY <2>1
  <2> HIDE DEF n, b
  <2>6. n \in CleanPeer
    BY <1>2, <2>2, <2>3, <2>4, AgeTypes DEF Peer, CleanPeer, Clean
  <2> QED BY <2>5, <2>6, UpsertKeepsObjects
<1>4. CASE PingFailed
  <2> DEFINE q == [Pinged EXCEPT !.probes = Least(@ + 1, ProbesToDoubt)]
  <2>1. PICK lossy \in BOOLEAN : \E p \in FallBack(q, lossy) : Upsert(p)
    BY <1>4 DEF PingFailed
  <2>2. Least(Pinged.probes + 1, ProbesToDoubt) \in 0 .. ProbesToDoubt
    BY <1>2, LeastType DEF Peer
  <2>3. q \in CleanPeer
    BY <1>2, <2>2 DEF Peer, CleanPeer, Clean
  <2> HIDE DEF q
  <2>4. \A p \in FallBack(q, lossy) : p \in CleanPeer
    <3>1. q \in Peer /\ Clean(q)
      BY <2>3 DEF CleanPeer
    <3>2. \A via \in {"other", "relay"} :
            [q EXCEPT !.direct = FALSE, !.via = via] \in CleanPeer
      BY <3>1 DEF Peer, CleanPeer, Clean, Labels
    <3> QED BY <2>3, <3>2 DEF FallBack
  <2> QED BY <2>1, <2>4, UpsertKeepsObjects
<1> QED BY <1>3, <1>4 DEF PingEnds

LEMMA LifeKeepsObjects ==
  ASSUME Inv
  PROVE  /\ (\E addr \in Addresses, late \in BOOLEAN : Beacon(addr, late)) => Objects'
         /\ (\E addr \in Addresses : Rendezvous(addr)) => Objects'
         /\ Leave \/ Cleanup \/ PingRound => Objects'
         /\ StreamEnds \/ NetChanges => Objects'
         /\ MarkOffline => Objects'
         /\ TimePasses => Objects'
<1>1. ASSUME NEW addr \in Addresses, NEW late \in BOOLEAN, Beacon(addr, late)
      PROVE  Objects'
  <2>1. Store(IF late THEN Late(Preserved(addr)) ELSE Preserved(addr))
    BY <1>1 DEF Beacon
  <2> QED BY <2>1, BeaconIsClean, StoreKeepsObjects
<1>2. ASSUME Leave \/ Cleanup \/ PingRound PROVE Objects'
  BY <1>2, NullAssumption, Thresholds
     DEF Leave, Cleanup, PingRound, Inv, Objects, Known, CleanPeer
<1>3. ASSUME StreamEnds \/ NetChanges PROVE Objects'
  BY <1>3 DEF StreamEnds, NetChanges, Inv, Objects, Known
<1>4. ASSUME MarkOffline PROVE Objects'
  <2>1. entry \in Peer
    BY <1>4 DEF MarkOffline, Inv, Known, CleanPeer
  <2>2. Offline(entry) \in CleanPeer
    BY <2>1 DEF Offline, Peer, Labels, CleanPeer, Clean
  <2> QED BY <1>4, <2>2, NullAssumption DEF MarkOffline, Inv, Objects, Known, CleanPeer
<1>5. ASSUME TimePasses PROVE Objects'
  <2>1. CASE Known
    <3>1. entry \in Peer /\ Clean(entry)
      BY <2>1 DEF Inv, Known, CleanPeer
    <3>2. entry' = [entry EXCEPT !.seen = Aged(@), !.dseen = Aged(@), !.bseen = Aged(@)]
      BY <1>5, <2>1 DEF TimePasses
    <3>3. Aged(entry.seen) \in Ages /\ Aged(entry.dseen) \in Ages \union {Never}
            /\ Aged(entry.bseen) \in Ages \union {Never}
      BY <3>1, AgeTypes DEF Peer
    <3>4. entry' \in CleanPeer
      BY <3>1, <3>2, <3>3 DEF Peer, CleanPeer, Clean
    <3> QED BY <1>5, <3>4, NullAssumption DEF TimePasses, Inv, Objects, Known, CleanPeer
  <2>2. CASE ~Known
    BY <1>5, <2>2 DEF TimePasses, Inv, Objects, Known
  <2> QED BY <2>1, <2>2
<1>6. ASSUME NEW addr \in Addresses, Rendezvous(addr) PROVE Objects'
  <2> DEFINE n == [entry EXCEPT !.addr = addr]
  <2>1. Known /\ Touch(n)
    BY <1>6 DEF Rendezvous
  <2>2. n \in Peer
    BY <2>1 DEF Inv, Known, CleanPeer, Peer
  <2> HIDE DEF n
  <2> QED BY <2>1, <2>2, TouchKeepsObjects
<1> QED BY <1>1, <1>2, <1>3, <1>4, <1>5, <1>6

LEMMA InitInv == Init => Inv
<1> SUFFICES ASSUME Init PROVE Inv
  OBVIOUS
<1>1. timer \in 0 .. PingEvery /\ after \in 0 .. Overtaking
  BY Thresholds DEF Init
<1>2. held = Same => Known
  BY Thresholds DEF Init
<1> QED BY <1>1, <1>2 DEF Init, Inv

LEMMA EventKeepsObjects ==
  ASSUME Inv, Event
  PROVE  Objects'
BY SignKeepsObjects, SenderKeepsObjects, LifeKeepsObjects DEF Event

(* The rest of Inv: no step leaves the ranges of the other variables.      *)
LEMMA NextInv ==
  ASSUME Inv, [Next]_vars
  PROVE  Inv'
<1>1. CASE PingOver
  <2>1. Objects'
    BY <1>1, PingKeepsObjects DEF PingOver
  <2>2. UNCHANGED <<timer, conn, net>> /\ after' = 0
    BY <1>1 DEF PingOver, PingEnds, PingAnswered, PingFailed
  <2> QED BY <2>1, <2>2, Thresholds DEF Inv, Objects
<1>2. CASE Event /\ Counted
  <2>1. Objects'
    BY <1>2, EventKeepsObjects
  <2>2. timer' \in 0 .. PingEvery
    <3>1. \/ UNCHANGED timer
          \/ timer' = PingEvery
          \/ timer > 0 /\ timer' = timer - 1
      BY <1>2 DEF Event, Beacon, Rendezvous, Leave, Pong, InboundPacket, PathFound, PeerUp, StreamEnds,
         PublishProbes, Send, PingRound, MarkOffline, Cleanup, TimePasses, NetChanges
    <3> QED BY <3>1, Thresholds DEF Inv
  <2>3. conn' \in BOOLEAN
    BY <1>2 DEF Event, Beacon, Rendezvous, Leave, Pong, InboundPacket, PathFound, PeerUp, StreamEnds,
       PublishProbes, Send, PingRound, MarkOffline, Cleanup, TimePasses, NetChanges, Inv
  <2>4. net' \in Nets
    BY <1>2, LinkAssumption DEF LinkAssumption, Event, Beacon, Rendezvous, Leave, Pong, InboundPacket, PathFound, PeerUp, StreamEnds,
       PublishProbes, Send, PingRound, MarkOffline, Cleanup, TimePasses, NetChanges, Inv
  <2>5. after' \in 0 .. Overtaking
    BY <1>2, Thresholds DEF Counted, Inv
  <2> QED BY <2>1, <2>2, <2>3, <2>4, <2>5 DEF Inv, Objects
<1>3. CASE UNCHANGED vars
  BY <1>3 DEF vars, Inv, Known
<1> QED BY <1>1, <1>2, <1>3 DEF Next

(* Every entry and every object a ping holds is well formed, in every      *)
(* order of beacons, packets, pings and timers.                            *)
THEOREM TypeCorrect == Spec => []TypeOK
<1>1. Inv => TypeOK
  BY DEF Inv, TypeOK, CleanPeer
<1> QED BY <1>1, InitInv, NextInv, PTL DEF Spec

(* An offline peer has no direct path, also when an object that a ping     *)
(* held since before the peer went offline is stored again.                *)
THEOREM OfflineIsRelayed == Spec => []OfflineHasNoPath
<1>1. Inv => OfflineHasNoPath
  BY DEF Inv, OfflineHasNoPath, CleanPeer, Clean, Known
<1> QED BY <1>1, InitInv, NextInv, PTL DEF Spec

(* What makes BeaconKeepsLivePath true: MergeFrom keeps the direct path of *)
(* a live entry, whatever the beacon's object says of it.                  *)
LEMMA MergeKeepsLivePath ==
  ASSUME NEW o \in Peer, NEW n \in Peer,
         o.direct, o.dseen <= Stale, o.bseen <= Expiry,
         n.dseen = o.dseen, n.bseen = o.bseen
  PROVE  MergeFrom(o, n).direct
<1> DEFINE m == Inherit(o, n)
           k == KeepOrCut(o, m)
           g == Guarantee(o, m, k)
<1>1. m \in Peer /\ m.dseen = o.dseen /\ m.bseen = o.bseen
  BY DEF Inherit, Peer
<1>2. o.dseen \in Nat /\ o.bseen \in Nat
  BY Thresholds DEF Peer, Ages
<1>3. ~STUNChanged(o, m) /\ ~Expired(o)
  BY <1>2, Thresholds DEF STUNChanged, Expired
<1> HIDE DEF m
<1>4. k \in Peer /\ k.direct /\ k.dseen = o.dseen /\ k.bseen = o.bseen
  BY <1>1, <1>3 DEF KeepOrCut, Peer
<1> HIDE DEF k
<1>5. ~Unfounded(o, k)
  BY <1>2, <1>4, Thresholds DEF Unfounded
<1>6. g \in Peer /\ g.direct
  BY <1>4, <1>5 DEF Guarantee, Peer, Labels
<1> HIDE DEF g
<1>7. Completed(o, g).direct
  BY <1>6 DEF Completed, Peer
<1> QED BY <1>7 DEF MergeFrom, m, k, g

(* No beacon, however late and with whatever address, takes the direct     *)
(* path from a peer that was heard and confirmed lately.                   *)
THEOREM BeaconsKeepLivePaths == Spec => BeaconKeepsLivePath
<1>1. ASSUME Inv, LivePath, Beacons
      PROVE  entry'.direct
  <2>1. entry \in Peer /\ Known
    BY <1>1 DEF LivePath, Inv, Known, CleanPeer
  <2>2. PICK addr \in Addresses, late \in BOOLEAN : Beacon(addr, late)
    BY <1>1 DEF Beacons
  <2> DEFINE n == IF late THEN Late(Preserved(addr)) ELSE Preserved(addr)
  <2>3. n \in Peer
    BY <1>1, BeaconIsClean DEF CleanPeer
  <2>4. Preserved(addr).dseen = entry.dseen /\ Preserved(addr).bseen = entry.bseen
    BY <2>1 DEF Preserved, FromScratch
  <2>5. Preserved(addr) \in Peer
    BY <1>1, BeaconIsClean DEF CleanPeer
  <2>6. n.dseen = entry.dseen /\ n.bseen = entry.bseen
    BY <2>4, <2>5 DEF Late, Peer
  <2>7. Store(n)
    BY <2>2 DEF Beacon
  <2> HIDE DEF n
  <2>8. entry' = MergeFrom(entry, n)
    BY <2>1, <2>7 DEF Store
  <2> QED BY <1>1, <2>1, <2>3, <2>6, <2>8, MergeKeepsLivePath DEF LivePath
<1>2. Inv /\ [Next]_vars => [LivePath /\ Beacons => entry'.direct]_vars
  BY <1>1
<1> QED BY <1>2, InitInv, NextInv, PTL DEF Spec, BeaconKeepsLivePath

-----------------------------------------------------------------------------
(* A path that answers nobody grows old                                    *)

(* The peer's packets get no answer: it is gone, or only relays reach it   *)
(* and the sender does not use them.                                       *)
Unanswered ==
  Known /\ ~conn /\ (net = "dead" \/ (net = "relay" /\ ~NeedsRelay(entry)))

(* While that is so, the ages by which a dead path is told from a live one *)
(* only grow, whatever beacons, labels and pings that fail are merged into *)
(* the entry. A ping that holds an object the entry is no more is the only *)
(* one that may turn them back.                                            *)
SilenceAges ==
  Unanswered /\ held \in {Idle, Same} /\ Known' /\ ~conn' =>
    entry'.dseen >= entry.dseen /\ entry'.bseen >= entry.bseen

AgesOf(p, q) == p.dseen = q.dseen /\ p.bseen = q.bseen

(* MergeFrom confirms nothing that neither of its objects has confirmed.   *)
LEMMA MergeKeepsAges ==
  ASSUME NEW o \in Peer, NEW n \in Peer, AgesOf(n, o)
  PROVE  AgesOf(MergeFrom(o, n), o)
<1> DEFINE m == Inherit(o, n)
           k == KeepOrCut(o, m)
           g == Guarantee(o, m, k)
<1>1. m \in Peer /\ AgesOf(m, o)
  BY DEF Inherit, Peer, AgesOf
<1> HIDE DEF m
<1>2. k \in Peer /\ AgesOf(k, o)
  BY <1>1 DEF KeepOrCut, Peer, Labels, AgesOf
<1> HIDE DEF k
<1>3. g \in Peer /\ AgesOf(g, o)
  BY <1>2 DEF Guarantee, Peer, Labels, AgesOf
<1> HIDE DEF g
<1>4. AgesOf(Completed(o, g), o)
  BY <1>3 DEF Completed, Peer, AgesOf
<1> QED BY <1>4 DEF MergeFrom, m, k, g

(* Storing an object that knows what the entry knows.                      *)
LEMMA TouchKeepsAges ==
  ASSUME Inv, Known, NEW n \in Peer, AgesOf(n, entry), Touch(n) \/ Store(n)
  PROVE  AgesOf(entry', entry)
<1>1. entry \in Peer
  BY DEF Inv, Known, CleanPeer
<1>2. n \in Peer /\ AgesOf(n, n)
  BY DEF AgesOf
<1>3. CASE Touch(n)
  BY <1>2, <1>3, MergeKeepsAges DEF Touch, AgesOf
<1>4. CASE Store(n)
  BY <1>1, <1>4, MergeKeepsAges DEF Store
<1> QED BY <1>3, <1>4

(* A ping that fails leaves the ages of the object it held.                *)
LEMMA FailureKeepsAges ==
  ASSUME Inv, Known, held = Same, PingFailed
  PROVE  AgesOf(entry', entry)
<1>1. entry \in Peer /\ Pinged = entry
  BY DEF Inv, Known, CleanPeer, Pinged
<1> DEFINE q == [entry EXCEPT !.probes = Least(@ + 1, ProbesToDoubt)]
<1>2. PICK lossy \in BOOLEAN : \E p \in FallBack(q, lossy) : Upsert(p)
  BY <1>1 DEF PingFailed
<1>3. Least(entry.probes + 1, ProbesToDoubt) \in 0 .. ProbesToDoubt
  BY <1>1, LeastType DEF Peer
<1>4. q \in Peer /\ AgesOf(q, entry)
  BY <1>1, <1>3 DEF Peer, AgesOf
<1> HIDE DEF q
<1>5. \A p \in FallBack(q, lossy) : p \in Peer /\ AgesOf(p, entry)
  <2>1. \A via \in {"other", "relay"} :
          LET r == [q EXCEPT !.direct = FALSE, !.via = via]
          IN  r \in Peer /\ AgesOf(r, entry)
    BY <1>4 DEF Peer, Labels, AgesOf
  <2> QED BY <1>4, <2>1 DEF FallBack
<1>6. PICK p \in Peer : AgesOf(p, entry) /\ Upsert(p)
  BY <1>2, <1>5
<1>7. entry' = MergeFrom(p, p) /\ AgesOf(p, p)
  BY <1>6 DEF Upsert, AgesOf
<1> QED BY <1>6, <1>7, MergeKeepsAges DEF AgesOf

(* The sender's labels and the probes of publishLoop.                      *)
LEMMA SenderKeepsAges ==
  ASSUME Inv, Known, PublishProbes \/ Send
  PROVE  AgesOf(entry', entry)
<1>1. entry \in Peer
  BY DEF Inv, Known, CleanPeer
<1>2. CASE PublishProbes
  BY <1>1, <1>2 DEF PublishProbes, Peer, AgesOf
<1>3. CASE Send
  <2>1. \A via \in Labels : /\ [entry EXCEPT !.via = via] \in Peer
                            /\ AgesOf([entry EXCEPT !.via = via], entry)
    BY <1>1 DEF Peer, AgesOf
  <2>2. entry.via \in Labels /\ {"mesh", "other", "relay", "tcp", "udp"} \subseteq Labels
    BY <1>1 DEF Peer, Labels
  <2>3. Relabel(entry) \in Peer /\ AgesOf(Relabel(entry), entry)
    BY <1>1, <2>1, <2>2 DEF Relabel, AgesOf
  <2>4. AgesOf(MergeFrom(Relabel(entry), Relabel(entry)), entry)
    BY <2>3, MergeKeepsAges DEF AgesOf
  <2>5. \/ \E via \in Labels : entry' = [entry EXCEPT !.via = via]
        \/ entry' \in {Relabel(entry), MergeFrom(Relabel(entry), Relabel(entry))}
    BY <1>3, <2>2 DEF Send
  <2> QED BY <2>1, <2>3, <2>4, <2>5
<1> QED BY <1>2, <1>3

LEMMA BeaconKeepsAges ==
  ASSUME Inv, Known, NEW addr \in Addresses, NEW late \in BOOLEAN, Beacon(addr, late)
  PROVE  AgesOf(entry', entry)
<1> DEFINE n == IF late THEN Late(Preserved(addr)) ELSE Preserved(addr)
<1>1. Preserved(addr) \in Peer /\ n \in Peer
  BY BeaconIsClean DEF CleanPeer
<1>2. AgesOf(Preserved(addr), entry)
  BY DEF Preserved, FromScratch, AgesOf
<1>3. AgesOf(n, entry)
  BY <1>1, <1>2 DEF Late, Peer, AgesOf
<1>4. Store(n)
  BY DEF Beacon
<1> HIDE DEF n
<1> QED BY <1>1, <1>3, <1>4, TouchKeepsAges

LEMMA RendezvousKeepsAges ==
  ASSUME Inv, Known, NEW addr \in Addresses, Rendezvous(addr)
  PROVE  AgesOf(entry', entry)
<1> DEFINE n == [entry EXCEPT !.addr = addr]
<1>1. n \in Peer /\ AgesOf(n, entry)
  BY DEF Inv, Known, CleanPeer, Peer, AgesOf
<1>2. Touch(n)
  BY DEF Rendezvous
<1> HIDE DEF n
<1> QED BY <1>1, <1>2, TouchKeepsAges

(* A dead path is not mistaken for a live one again: no step before the    *)
(* peer is heard makes it younger, so that the thresholds of MergeFrom and *)
(* of the ping loop are reached. On this the two liveness properties rest. *)
THEOREM SilentPathsAge == Spec => [][SilenceAges]_vars
<1>1. ASSUME Inv, [Next]_vars PROVE SilenceAges
  <2> SUFFICES ASSUME Unanswered, held \in {Idle, Same}, Known', ~conn'
               PROVE  entry'.dseen >= entry.dseen /\ entry'.bseen >= entry.bseen
    BY DEF SilenceAges
  <2>1. entry \in Peer /\ Known /\ ~conn /\ net \in {"dead", "relay"}
    BY <1>1 DEF Unanswered, Inv, Known, CleanPeer
  <2>2. entry.dseen \in Nat /\ entry.bseen \in Nat
    BY <2>1, Thresholds DEF Peer, Ages
  <2>3. ASSUME AgesOf(entry', entry)
        PROVE  entry'.dseen >= entry.dseen /\ entry'.bseen >= entry.bseen
    BY <2>2, <2>3 DEF AgesOf
  <2>4. ASSUME PingEnds PROVE AgesOf(entry', entry)
    <3>1. ~Reachable(entry)
      BY <2>1 DEF Unanswered, Reachable
    <3>2. PingFailed /\ held = Same
      BY <2>1, <2>4, <3>1 DEF PingEnds, PingAnswered, PingFailed
    <3> QED BY <1>1, <2>1, <3>2, FailureKeepsAges
  <2>5. ASSUME NEW addr \in Addresses, NEW late \in BOOLEAN, Beacon(addr, late)
        PROVE  AgesOf(entry', entry)
    BY <1>1, <2>1, <2>5, BeaconKeepsAges
  <2>a. ASSUME NEW addr \in Addresses, Rendezvous(addr) PROVE AgesOf(entry', entry)
    BY <1>1, <2>1, <2>a, RendezvousKeepsAges
  <2>6. ASSUME PublishProbes \/ Send PROVE AgesOf(entry', entry)
    BY <1>1, <2>1, <2>6, SenderKeepsAges
  <2>7. ASSUME TimePasses
        PROVE  entry'.dseen >= entry.dseen /\ entry'.bseen >= entry.bseen
    <3>1. entry' = [entry EXCEPT !.seen = Aged(@), !.dseen = Aged(@), !.bseen = Aged(@)]
      BY <2>1, <2>7 DEF TimePasses
    <3>2. entry'.dseen = Aged(entry.dseen) /\ entry'.bseen = Aged(entry.bseen)
      BY <2>1, <3>1 DEF Peer
    <3> QED BY <2>2, <3>2 DEF Aged
  <2>8. ASSUME MarkOffline PROVE AgesOf(entry', entry)
    BY <2>1, <2>8 DEF MarkOffline, Offline, Peer, AgesOf
  <2>9. ~Leave /\ ~Cleanup
    BY DEF Leave, Cleanup, Known
  <2>10. ~PathFound /\ ~PeerUp /\ \A measured \in BOOLEAN : ~Pong(measured)
    BY <2>1 DEF PathFound, PeerUp, Pong
  <2>11. \A tcp, copy \in BOOLEAN : ~InboundPacket(tcp, copy)
    BY <2>1 DEF InboundPacket
  <2>12. ASSUME StreamEnds \/ PingRound \/ NetChanges \/ UNCHANGED vars
         PROVE  AgesOf(entry', entry)
    BY <2>12 DEF StreamEnds, PingRound, NetChanges, vars, AgesOf
  <2> QED BY <1>1, <2>3, <2>4, <2>5, <2>a, <2>6, <2>7, <2>8, <2>9, <2>10, <2>11, <2>12
          DEF Next, PingOver, Event
<1> QED BY <1>1, InitInv, NextInv, PTL DEF Spec
=============================================================================
