------------------------------ MODULE PeerLink ------------------------------
(***************************************************************************)
(* What a node believes about its path to one peer, and what that belief   *)
(* does to the peer's packets: MergeFrom and MarkOffline of                *)
(* internal/peer/registry.go and everything in cmd/natbypass/engine.go     *)
(* that changes the entry's transport state: beacons, pongs, inbound       *)
(* packets, path switches, TCP streams, the sender's own labels and the    *)
(* ping loop.                                                              *)
(*                                                                         *)
(* Get and List hand out the registry's own object.  A beacon stores a new *)
(* one, so a ping that waits for its answer may hold an object that is the *)
(* entry no more, and stores that over the newer one when it is done.      *)
(*                                                                         *)
(* A definition that nothing below uses is a fault the code could have had *)
(* in the definition it stands before.                                     *)
(***************************************************************************)
EXTENDS Naturals

CONSTANTS NoPeer,     \* the registry has no entry for the peer
          Idle, Same, \* no ping is out; one is, and it holds the entry itself
          Nets,       \* the states the network between the peers may be in
          (* Ages, in one unit of time: 15, 25, 30, 35 and 45 seconds.      *)
          Recent, Fresh, Stale, Confirmed, Expiry,
          PingEvery,     \* constants.ICMPPingInterval, 45 seconds
          ProbesToDoubt, \* ProbeCount is compared with 4; counted up to here
          Overtaking     \* bound: events while a ping holds an old object

ASSUME LinkAssumption ==
  /\ Recent \in Nat /\ Fresh \in Nat /\ Stale \in Nat /\ Confirmed \in Nat
  /\ Expiry \in Nat /\ PingEvery \in Nat \ {0}
  /\ Recent < Fresh /\ Fresh <= Stale /\ Stale <= Confirmed /\ Confirmed < Expiry
  /\ ProbesToDoubt \in Nat \ {0} /\ Overtaking \in Nat
  /\ "dead" \in Nets /\ Nets \subseteq {"udp", "in", "relay", "dead"}
  /\ Idle # Same

VARIABLES
  entry,  \* the registry's entry
  held,   \* the object of the ping that is out
  timer,  \* time until the ping loop's next round
  conn,   \* tcpDirectMgr.HasConn
  net,    \* which paths carry packets: UDP and the relays, UDP inwards and the
          \* relays, the relays, none
  after   \* events since the object of the ping is the entry no more

vars == <<entry, held, timer, conn, net, after>>

(* An age of Old is more than every threshold; a time that was never set   *)
(* is older than that, as Go's zero time is.                               *)
Old   == Expiry + 1
Never == Old + 1
Ages  == 0 .. Old
Addresses == {"a", "b"}    \* the STUN address the peer announced
Labels == {"tcp", "udp", "relay", "mesh", "other", "offline"}    \* Transport

Peer == [online : BOOLEAN, direct : BOOLEAN, tcp : BOOLEAN, via : Labels,
         addr : Addresses,
         seen : Ages, dseen : Ages \union {Never}, bseen : Ages \union {Never},
         probes : 0 .. ProbesToDoubt]

ASSUME NullAssumption == NoPeer \notin Peer /\ Idle \notin Peer /\ Same \notin Peer

Init ==
  /\ entry = NoPeer /\ held = Idle /\ timer = PingEvery
  /\ conn = FALSE /\ net \in Nets /\ after = 0

Known == entry # NoPeer
Least(a, b) == IF a < b THEN a ELSE b

IsTCP(p) == p.tcp \/ p.via = "tcp"
(* The grace period of a peer that was never confirmed is shorter than a   *)
(* unit of time and left out.                                              *)
IsBilateralP2P(p, age) ==
  IsTCP(p) \/ (p.direct /\ p.bseen # Never /\ p.bseen <= age)

-----------------------------------------------------------------------------
(* Peer.MergeFrom: o is the entry, n the object given to Upsert, and the   *)
(* result is what becomes of n.                                            *)

UDPExpired(o) ==
  o.direct /\ ~IsTCP(o) /\ (o.dseen > Expiry \/ (o.bseen # Never /\ o.bseen > Expiry))
Expired(o) ==
  o.direct /\ (o.dseen > Expiry \/ (~IsTCP(o) /\ o.bseen # Never /\ o.bseen > Expiry))

Moved(o, n) == n.addr # o.addr
MovedAtOnce(o, n) == Moved(o, n)
STUNChanged(o, n) == Moved(o, n) /\ o.dseen > Stale

(* What the entry knew and the new object does not say.                    *)
Inherit(o, n) ==
  [n EXCEPT !.dseen = IF @ = Never THEN o.dseen ELSE @,
            !.bseen = IF @ = Never THEN o.bseen ELSE @]

KeepOrCut(o, n) ==
  IF STUNChanged(o, n) \/ Expired(o)
    THEN [n EXCEPT !.direct = FALSE, !.via = "relay"]
    ELSE [n EXCEPT !.direct = @ \/ o.direct, !.tcp = @ \/ o.tcp]

(* "A peer CANNOT have DirectP2P = true if ..."                            *)
Unfounded(o, m) ==
  \/ m.dseen = Never
  \/ o.probes >= ProbesToDoubt /\ m.dseen > Stale
  \/ m.bseen # Never /\ m.bseen > Expiry

(* m is n so far; whether n is TCP was decided before it was changed.      *)
Guarantee(o, n, m) ==
  IF IsTCP(n) THEN m
  ELSE IF IsTCP(o)
    THEN IF m.via = "relay" THEN [m EXCEPT !.via = o.via, !.tcp = TRUE, !.direct = TRUE]
         ELSE m
  ELSE IF Unfounded(o, m) THEN [m EXCEPT !.direct = FALSE, !.via = "relay"]
  ELSE m

Completed(o, m) ==
  [m EXCEPT !.tcp = @ \/ o.tcp,
            !.probes = IF Moved(o, m) \/ o.seen > Recent THEN 0
                       ELSE IF @ = 0 THEN o.probes ELSE @,
            !.online = TRUE, !.seen = 0]

MergeFrom(o, n) ==
  LET m == Inherit(o, n) IN Completed(o, Guarantee(o, m, KeepOrCut(o, m)))

(* Upsert of an object that is not the entry: a ping that held the entry   *)
(* goes on with the object the entry was.                                  *)
Store(n) ==
  /\ entry' = IF Known THEN MergeFrom(entry, n) ELSE n
  /\ held' = IF held = Same THEN entry ELSE held

(* Upsert of the entry itself, changed to n.                               *)
Touch(n) == entry' = MergeFrom(n, n) /\ UNCHANGED held

-----------------------------------------------------------------------------
(* receiveLoop.  A late beacon is one whose timestamp is more than 45      *)
(* seconds old: the peer is not online by it.                              *)

(* The peer moved, or no packet of its came directly for 30 seconds: the   *)
(* old endpoint is dead.                                                   *)
EndpointDead(o, addr) ==
  addr # o.addr \/ (o.dseen > Stale /\ ~o.tcp)

FromScratch(addr) ==
  [online |-> TRUE, direct |-> FALSE, tcp |-> FALSE, via |-> "relay", addr |-> addr,
   seen |-> 0, dseen |-> Never, bseen |-> Never, probes |-> 0]

Preserved(addr) ==
  IF ~Known THEN FromScratch(addr)
  ELSE LET tcp == entry.via = "tcp" \/ conn IN
    [FromScratch(addr) EXCEPT
       !.direct = tcp \/ (~EndpointDead(entry, addr) /\ entry.direct
                            /\ IsBilateralP2P(entry, Recent)),
       !.tcp = tcp \/ entry.tcp,
       !.via = IF tcp THEN "tcp" ELSE entry.via,
       !.dseen = entry.dseen, !.bseen = entry.bseen]

Late(n) ==
  [n EXCEPT !.direct = FALSE, !.tcp = FALSE, !.via = "offline",
            !.online = FALSE, !.seen = Old]

Beacon(addr, late) ==
  /\ net # "dead"
  /\ Store(IF late THEN Late(Preserved(addr)) ELSE Preserved(addr))
  /\ UNCHANGED <<timer, conn, net>>

(* A Rendezvous signal sets the address in the entry itself, so that Upsert *)
(* sees no change of address.                                              *)
Rendezvous(addr) ==
  /\ Known /\ net # "dead"
  /\ Touch([entry EXCEPT !.addr = addr])
  /\ UNCHANGED <<timer, conn, net>>

(* A Leave beacon: the entry goes, the ping that holds it goes on.         *)
Leave ==
  /\ Known /\ net # "dead"
  /\ entry' = NoPeer
  /\ held' = IF held = Same THEN entry ELSE held
  /\ net' = "dead" /\ conn' = FALSE
  /\ UNCHANGED timer

-----------------------------------------------------------------------------
(* Signs of a direct path.                                                 *)

(* onPingResult: a PONG with its round-trip time, or a peer's own PING.    *)
Pong(measured) ==
  /\ Known
  /\ net = "udp" \/ (net = "in" /\ ~measured)
  /\ Touch([entry EXCEPT !.direct = TRUE, !.dseen = 0, !.bseen = 0, !.probes = 0,
                         !.via = IF measured \/ @ = "relay" THEN "udp" ELSE @])
  /\ UNCHANGED <<timer, conn, net>>

(* onInboundPacket, for a packet that came straight from the peer.  One    *)
(* matched by its address only is upserted as a copy.                      *)
HeardFrom(p, tcp) ==
  [p EXCEPT !.direct = TRUE,
            !.via = IF tcp THEN "tcp" ELSE IF @ \in {"relay", "mesh"} THEN "udp" ELSE @,
            !.online = TRUE, !.seen = 0, !.dseen = 0, !.bseen = 0, !.probes = 0]

InboundPacket(tcp, copy) ==
  /\ Known
  /\ IF tcp THEN conn ELSE net \in {"udp", "in"}
  /\ IF copy THEN Store(HeardFrom(entry, tcp)) ELSE Touch(HeardFrom(entry, tcp))
  /\ UNCHANGED <<timer, conn, net>>

(* MagicSock's path callback for UDP, and the winner of a symmetric-NAT    *)
(* session: direct, but not yet bilateral.                                 *)
PathFound ==
  /\ Known /\ net = "udp"
  /\ Touch([entry EXCEPT !.direct = TRUE, !.dseen = 0])
  /\ UNCHANGED <<timer, conn, net>>

(* OnPeerUp of the TCP manager, and MagicSock's callback for a TCP path.   *)
PeerUp ==
  /\ net # "dead" /\ conn' = TRUE
  /\ IF Known
       THEN Touch([entry EXCEPT !.direct = TRUE, !.tcp = TRUE, !.via = "tcp",
                                !.dseen = 0, !.bseen = 0, !.probes = 0])
       ELSE UNCHANGED <<entry, held>>
  /\ UNCHANGED <<timer, net>>

(* A stream's end is the TCP manager's own affair: nobody tells the entry. *)
StreamEnds ==
  /\ conn /\ conn' = FALSE
  /\ UNCHANGED <<entry, held, timer, net>>

(* publishLoop probes the peers that are not direct, several times each.   *)
PublishProbes ==
  /\ Known /\ ~entry.direct
  /\ \E n \in 1 .. ProbesToDoubt :
       entry' = [entry EXCEPT !.probes = Least(@ + n, ProbesToDoubt)]
  /\ UNCHANGED <<held, timer, conn, net>>

-----------------------------------------------------------------------------
(* The sender's decision for each packet to the peer.                      *)

Bilateral(p) == IsBilateralP2P(p, Confirmed)

(* The packet goes to a relay as well unless its path is verified.  It is  *)
(* sent over UDP in any case, and sent says that the socket took it.       *)
Verified(p, sent) == conn \/ (sent /\ p.direct /\ Bilateral(p))
NeedsRelay(p) == ~Verified(p, TRUE)

(* The sender labels the entry without Upsert: mesh, or, if nothing else   *)
(* was sent, TCP relay or MQTT.  Over a verified path it takes a relay     *)
(* label back, and upserts the entry every 15 seconds.                     *)
Relabel(p) ==
  IF p.via \in {"mesh", "relay"}
    THEN [p EXCEPT !.via = IF conn THEN "tcp" ELSE "udp"] ELSE p

Send ==
  /\ Known
  /\ \E sent \in BOOLEAN :
       \/ /\ ~Verified(entry, sent)
          /\ \E via \in {"mesh", entry.via} \union IF sent THEN {} ELSE {"other", "relay"} :
               entry' = [entry EXCEPT !.via = via]
       \/ /\ Verified(entry, sent) /\ entry.direct /\ Bilateral(entry)
          /\ entry' \in {Relabel(entry), MergeFrom(Relabel(entry), Relabel(entry))}
  /\ UNCHANGED <<held, timer, conn, net>>

-----------------------------------------------------------------------------
(* The ping loop.  Its ping is a packet like others: it takes the routes   *)
(* the sender gives it.                                                    *)

Pingable(p) == p.online /\ (p.dseen = Never \/ p.dseen >= Stale)

PingRound ==
  /\ timer = 0 /\ held = Idle
  /\ timer' = PingEvery
  /\ held' = IF Known /\ Pingable(entry) THEN Same ELSE Idle
  /\ UNCHANGED <<entry, conn, net>>

Upsert(n) ==
  /\ entry' = IF ~Known THEN n
              ELSE IF held = Same THEN MergeFrom(n, n) ELSE MergeFrom(entry, n)
  /\ held' = Idle

Pinged == IF held = Same THEN entry ELSE held

(* The answer may come by any route that works.                            *)
Reachable(p) ==
  conn \/ net = "udp" \/ (NeedsRelay(p) /\ net # "dead")

(* The transport selector's labels: ShadowTLS, AWG and QUIC, WSS.          *)
Selected(p) ==
  IF conn THEN (IF p.direct THEN {"tcp", "other"} ELSE {"tcp"}) ELSE {"other"}

PingAnswered ==
  /\ held # Idle
  /\ Reachable(IF Known THEN entry ELSE Pinged)
  /\ \E via \in Selected(Pinged) :
       Upsert([Pinged EXCEPT !.probes = 0, !.dseen = 0,
                             !.bseen = IF Pinged.direct \/ Pinged.via = "udp" THEN 0 ELSE @,
                             !.via = via])
  /\ UNCHANGED <<timer, conn, net>>

(* Four drops in a row, or ten probes with half of them lost, are lossy.   *)
ShouldFallback(p, lossy) ==
  /\ p.dseen = Never \/ p.dseen >= Fresh
  /\ \/ lossy
     \/ p.dseen # Never /\ p.dseen > Expiry
     \/ p.bseen # Never /\ p.bseen > Expiry

FallBack(p, lossy) ==
  IF ShouldFallback(p, lossy) /\ p.via # "tcp" /\ ~conn
    THEN {[p EXCEPT !.direct = FALSE, !.via = via] : via \in {"other", "relay"}}
    ELSE {p}

PingFailed ==
  /\ held # Idle
  /\ \E lossy \in BOOLEAN :
       \E p \in FallBack([Pinged EXCEPT !.probes = Least(@ + 1, ProbesToDoubt)], lossy) :
         Upsert(p)
  /\ UNCHANGED <<timer, conn, net>>

-----------------------------------------------------------------------------
(* The registry's monitor; time; the network.                              *)

Silent(p) == p.seen > Expiry
StreamKept(p) == [p EXCEPT !.online = FALSE, !.direct = FALSE, !.via = "offline"]
Offline(p) ==
  [p EXCEPT !.online = FALSE, !.direct = FALSE, !.tcp = FALSE, !.via = "offline"]
MarkOffline ==
  /\ Known /\ Silent(entry) /\ (entry.online \/ entry.via # "offline")
  /\ entry' = Offline(entry)
  /\ UNCHANGED <<held, timer, conn, net>>

Cleanup ==
  /\ Known /\ Silent(entry) /\ ~entry.online
  /\ entry' = NoPeer
  /\ held' = IF held = Same THEN entry ELSE held
  /\ UNCHANGED <<timer, conn, net>>

Aged(a) == IF a < Old THEN a + 1 ELSE a

(* A ping takes less than a unit of time.                                  *)
TimePasses ==
  /\ timer > 0 /\ held = Idle
  /\ timer' = timer - 1
  /\ entry' = IF ~Known THEN entry
              ELSE [entry EXCEPT !.seen = Aged(@), !.dseen = Aged(@), !.bseen = Aged(@)]
  /\ UNCHANGED <<held, conn, net>>

NetChanges ==
  /\ net' \in Nets /\ (net' = "dead" => ~conn)
  /\ UNCHANGED <<entry, held, timer, conn>>

PingEnds == PingAnswered \/ PingFailed

Event ==
  \/ \E addr \in Addresses, late \in BOOLEAN : Beacon(addr, late)
  \/ \E addr \in Addresses : Rendezvous(addr)
  \/ Leave
  \/ \E measured \in BOOLEAN : Pong(measured)
  \/ \E tcp, copy \in BOOLEAN : InboundPacket(tcp, copy)
  \/ PathFound \/ PeerUp \/ StreamEnds \/ PublishProbes \/ Send
  \/ PingRound \/ MarkOffline \/ Cleanup \/ TimePasses \/ NetChanges

Detached == held \notin {Idle, Same}
Counted ==
  /\ Detached => after < Overtaking
  /\ after' = IF Detached' THEN IF Detached THEN after + 1 ELSE 0 ELSE 0
PingOver == PingEnds /\ after' = 0

Next == PingOver \/ (Event /\ Counted)

(* Timers fire and pings end; nothing is assumed of peers and the network. *)
Fairness ==
  /\ WF_vars(TimePasses /\ Counted) /\ WF_vars(PingRound /\ Counted)
  /\ WF_vars(MarkOffline /\ Counted) /\ WF_vars(PingOver)

Spec == Init /\ [][Next]_vars /\ Fairness

-----------------------------------------------------------------------------
(* Properties                                                              *)

TypeOK ==
  /\ entry \in Peer \union {NoPeer}
  /\ held \in Peer \union {Idle, Same}
  /\ held = Same => Known
  /\ timer \in 0 .. PingEvery
  /\ conn \in BOOLEAN /\ net \in Nets
  /\ after \in 0 .. Overtaking

(* No direct path is left with a peer that is offline, by whatever way its *)
(* entry came to be offline and whatever was stored since.                 *)
OfflineHasNoPath == Known /\ ~entry.online => ~entry.direct /\ ~entry.tcp

(* "Do NOT drop an active healthy direct connection": no beacon takes the  *)
(* direct path from a peer that was heard directly in the last 30 seconds  *)
(* and confirmed in the last 45, whatever address the beacon brings and    *)
(* however late it is.                                                     *)
Beacons == \E addr \in Addresses, late \in BOOLEAN : Beacon(addr, late)
LivePath ==
  Known /\ entry.direct /\ entry.dseen <= Stale /\ entry.bseen <= Expiry
BeaconKeepsLivePath == [][LivePath /\ Beacons => entry'.direct]_vars

(* A peer that only relays reach is not cut off for good: again and again  *)
(* its packets go to a relay, whatever the entry was when the direct path  *)
(* died and however beacons, pings and labels follow each other.           *)
RelayOnly == Known /\ net = "relay" /\ ~conn
NoLastingBlackhole ==
  <>[]RelayOnly => []<>(Known /\ NeedsRelay(entry))

(* A peer that is gone does not stay direct.                               *)
Gone == net = "dead" /\ ~conn
DeadPeerNotDirect ==
  <>[]Gone => <>[](~Known \/ ~entry.direct)

(* A relay's answers do not keep up a direct path that is dead ("ghost     *)
(* P2P that stops probes forever").                                        *)
NoGhostP2P == <>[]RelayOnly => <>[](~Known \/ ~entry.direct)
=============================================================================
