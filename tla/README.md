# NatBypass in TLA+

A verification project for [NatBypass](../src/README.md), a peer-to-peer mesh
VPN written in Go. The program finds its external address with STUN, punches
holes through NATs over UDP, keeps direct TCP streams as a fallback, chooses the
best path to each peer, and finds peers through signaling channels. The modules
here model the parts whose correctness depends on *interleavings*: goroutines
that outlive the socket they were started for, answers that arrive after the
question has changed, two peers that dial each other at once, beacons that come
late, two parties that change the same kernel routes. TLC checks them on small
instances; TLAPS proves every invariant and action property that a passing run
checks for every value of the constants.

- [How to run](#how-to-run)
- [Inventory](#inventory)
- [Modules](#modules)
- [Runs](#runs)
- [What the runs found](#what-the-runs-found)
- [Proofs](#proofs)
- [Abstractions, bounds and fairness](#abstractions-bounds-and-fairness)
- [Not modelled](#not-modelled)
- [Plan](#plan)

## How to run

    tlc -workers 2 -config MCTcpDirect.cfg TcpDirect     # one run
    tlapm DirectPaths_proofs.tla                         # one module's proofs

`PROJECT.json` lists every run with its module and configuration. The
configurations called `MC*.cfg` pass; the others each check one statement of the
code's own comments, which TLC finds violated (see
[below](#what-the-runs-found)). One of those, `Link_NoGhostP2P.cfg`, is a run of
`PROJECT.json`; the rest are run by hand.

## Inventory

Paths are under `src/`. "Shared" is what ties a component to others.

| Component | State | Operations | Hard part | What makes it correct |
|---|---|---|---|---|
| Replay filter, `internal/crypto/replay.go` | ring of words, highest number | ValidateAndAccept, Reset | arithmetic of the ring at its edges; any arrival order | no number twice, no fresh number lost |
| UDP puncher: socket, `internal/network/puncher.go` | `conn`, `connID`, `ctx` | readLoop, StartKeepAliveLoop, HopPort, ResetSocket, Close | loops of earlier sockets still running when the socket changes | no socket leaks, an open one is read, Close ends the loops |
| UDP puncher: STUN, same file | mapped IP and port, votes, pending transactions | DiscoverMappedAddress, handleSTUNMessage, Invalidate… | answers late, repeated, of several uplinks, across hops | the mapping is one that a server reported for this socket |
| UDP puncher: probing, same file | probe maps, pacer, DPI counters | SendHolePunch…, dispatchPacket | timing and packet formats | not modelled |
| Symmetric-NAT session, `internal/network/sym_nat_session.go` | winner, context, round | Run, NotifySuccess, Launch… | sessions share the socket every connected peer depends on | connected peers keep their mapping; the winner is returned; sessions end |
| Direct TCP, `internal/network/tcpholepunch.go` | streams, dials in progress, backoffs | ConnectPeerForce, acceptLoop, RegisterConn, Close | simultaneous dials of two peers, crossing closes | table and readers agree; half-open streams heal |
| MagicSock paths, `internal/network/magicsock.go` | candidates with health, active path | Register…, RecordProbeSuccess/Failure | long sequences of registrations and answers | a live path is kept; a silent one is never chosen |
| MagicSock TCP fallback, same file | attempted flags, counts | RecordProbeAttempt, triggerTCPFallback | a goroutine's late result against RemovePeer | planned |
| Peer registry, `internal/peer/registry.go` | peers by device ID | Upsert, MarkOffline, Cleanup, … | beacons out of order; two IDs, one node; a map's random order | one active owner per virtual address; the first keeps it |
| Peer link, `internal/peer/registry.go` (MergeFrom) and `cmd/natbypass/engine.go` | transport flags and ages of an entry | beacons, packets, pings, sender, MarkOffline, Cleanup | eight goroutines change one entry; pings keep an object for seconds | a live path is not cut; a dead one is given up |
| Exit-node routing, `engine.go`, `internal/webui/server.go`, `internal/tunnel/routing_linux.go` | kernel routes, selection in file and memory, failures | watchdog, two handlers, sender's bypass | three parties run route commands without a common lock; reads before the lock | no host route into the tunnel stays but by an overtaking; no blackhole; deselecting restores |
| Signaling manager, `internal/signaling/manager.go` | current channel, breakers, counts | Send, SwitchTo, SwitchToBroker | concurrent Sends between critical sections, channels renamed | a working channel is used; no later Send leads away from the user's choice |
| TCP relay, `internal/relay/tcp_relay.go`, `engine.go` | connections by device, quota; the client | Connect, handleClient, Close | dials given up that register late; handlers that end late; Close in two steps | an entry is the served connection; Close ends all; the relay comes back |
| Transport switcher, `internal/network/transport_switcher.go` | mode and three flags | Evaluate, overrides | flags and mode stored one by one | planned |
| UDP and WebSocket relays, `internal/relay/` | table of addresses | loops | ages | not modelled |
| Ratchet, `internal/crypto/ratchet.go` | chains, replay window | Encrypt, Decrypt, RotateEpoch | the window is checked and marked in two critical sections | planned |
| Engine, `cmd/natbypass/engine.go` | everything above | one goroutine per concern | composition | the parts named above; start-up, commands and diagnostics are not modelled |
| Tunnel, WireGuard, DNS, DHT, transports, Web interface, updater, configuration, diagnostics, GUI, mobile bridge, tools | | | | not modelled; reasons in `PROJECT.json` |

How they interact. The **engine** owns one puncher, one MagicSock, one registry
and one TCP manager. Signaling beacons reach it and become `registry.Upsert` and
`magicSock.RegisterPeerWithTopology`. Its probing loop sends hole punches for
peers without a direct path; after eight probes it launches a **symmetric-NAT
session**, which calls the puncher's `HopPort` and `DiscoverMappedAddress`; a
PONG calls back into MagicSock (`RecordProbeSuccess`) and adds a keepalive
target, which `HasActiveDirectTargets` reports to later sessions. Every 200
unanswered probes MagicSock asks the **TCP manager** to dial. Relayed packets
are checked by the **replay filter** hanging on the registry's entry of the peer.
The **peer link** is the part of that entry that every goroutine of the engine
changes and that the sender reads to choose between the direct path, the direct
stream and the relays; the **TCP relay** is what it falls back on, and beacons
travel over the **signaling manager**'s channels. The **exit-node watchdog** reads
the registry's ages and the configuration the **Web interface** writes.
Shared state is guarded by one mutex per object; what crosses two critical
sections is what these modules are about.

`PROJECT.json` lists the hazards found in the code, each at its line, with the
properties that speak about it.

## Modules

`MCX` modules hold definitions for TLC. `X_proofs` extends `X`; three proof modules
extend two components that belong together, which is why StunMapping, PathSelection
and PeerRegistry call their formulas StunInit, PathNext, RegistrySpec and so on:

| Proof module | Components |
|---|---|
| `ReplayFilter_proofs` | ReplayFilter, ReplayWindow |
| `PuncherSocket_proofs` | PuncherSocket |
| `NatTraversal_proofs` | StunMapping, SymNatSession |
| `DirectPaths_proofs` | PathSelection, TcpDirect |
| `Addresses_proofs` | PeerRegistry, ExitRouting |
| `PeerLink_proofs` | PeerLink |
| `FallbackManager_proofs` | FallbackManager |
| `TcpRelay_proofs` | TcpRelay |

Within a module, a definition that nothing uses is a plausible fault of the
definition it stands before; the `mutants` of `PROJECT.json` put it in that
definition's place and name the property that then fails.

**ReplayFilter** (`replay.go`). `initialized`, `highestSeq` and `bitmap` are the
fields; a word is the set of its bits that are set. `First`, `Newer`, `Late` and
`Reject` are the branches of ValidateAndAccept, `Advanced` the clearing loop.
`accepted` and `call` are history. **ReplayWindow** is what the filter promises,
without a bitmap; `ImplementsWindow` is the refinement. The window the code
really implements is exact up to `(Words - 1) * Bits` numbers, one word less
than documented.

**PuncherSocket** (`puncher.go`). `conn`, `open`, `connID`, `ctx`, `dead` stand for
`p.conn`, the sockets not closed, `p.connID`, `p.ctx` and the cancelled contexts.
A read loop moves through `start` (getConn), `verify` (context and generation
checks), `read` (blocked in ReadFromUDP) and `dispatch`; a keepalive loop through
`arm`, `wait` and `send`. HopPort and ResetSocket hold `p.mu` and are one step
each; Close is two, because it takes no lock around them.

**StunMapping** (`puncher.go`). One step per critical section of DiscoverMappedAddress:
`Check` (cache, capture of the socket), `Request` (drain, record, send), `TakeToken`,
`Finish`; `Receive` is the network, `Handle` is handleSTUNMessage: the answer finds no
transaction, or takes it and has no usable address, or takes it and is counted. A port
is named by the socket generation and the IP that gave it, so that a mixed or outdated
pair can be told.

**SymNatSession** (`sym_nat_session.go`, and the launch in `engine.go`).
`session[p]` is the goroutine running Run with the context and handle it shares;
`targets` is `keepAliveTargets`; `broken` records peers whose NAT mapping a hop
destroyed. `Notifies` says whether anybody calls NotifySuccess: the engine drops
the handle, the doc comment of Launch expects the call, and both are checked.

**TcpDirect** (`tcpholepunch.go`). Two managers, symmetric. `conns`, `connecting`,
`backoff` are the maps' entries for the other peer; `dial[d]` is a call of
ConnectPeerForce; `end[c][n]` is peer n's end of stream c: `shake`, `answered`
(a server that has sent its identifier), `read` (a reader goroutine runs), `shut`
(closed under its reader), `gone`, and `lost` where nobody attends the stream from
the beginning. `MeetsDial` is what the simultaneous open ends in where both calls get
one stream, over the temporary listener or not; that listener may also accept a dial
whose connection its call then does not take (`AcceptedInVain`), and a call that took
what its listener accepted may see its own dial connect after all
(`ConnectsInVain`): streams that only one side reads. One that neither reads changes
nothing here and is left out.

**PathSelection** (`magicsock.go`). One peer's PeerRouteState under its mutex. A
candidate has a priority, a smoothed latency, an age in units of five seconds and
a count of failures. RecordProbeFailure has no caller outside tests at present;
its behaviour is modelled all the same.

**PeerRegistry** (`registry.go`). `Loop` applies Upsert's loop body to the other
entries in an arbitrary order, as Go's map iteration does, and carries the peer
given, the address sought, the table, the entries to delete and an early return;
`Rounds` is what it carries after each round, a recursive function of their number.
`Meet` and the operators above it are the branches of the body.

**PeerLink** (`registry.go`, `engine.go`, `selector.go`). What one node holds of one
peer. `entry` is the stored entry, reduced to what its transport decisions read; ages
are in units of about 15 seconds, capped at `Old`, and `Never` is a time that was
never set. `held` is the ping loop's own object, or Same while that is the entry
itself: taken before the ping, changed by its outcome and stored over the entry
seconds later (`PingRound`, `PingAnswered`, `PingFailed`). `MergeFrom` is composed of
its branches (`Inherit`, `KeepOrCut`, `Guarantee`); the handlers are named after
engine.go's, `Rendezvous` among them, which gives the entry the address of the
signal and upserts it. `net` says what the network carries now.

**ExitRouting** (`engine.go`, `server.go`, `routing_linux.go`). `file` and `cfg` are
the two copies of the selection; `routes` and `bypass` are the kernel's, where
`bypass` is the host route to one peer's present address. `job[c]` is the command
that caller c, the watchdog, a request or the sender, comes to next in a function of
routing_linux.go: `ReadGateway` and `AddHostRoute` are the two halves of
BypassEndpoint, before and under linuxBypassedMu; `AddRoute`, `DeleteRoute` and
`DeleteHostRoutes` the commands of Enable- and DisableExitNodeRouting. The watchdog
reads (`Tick`), takes its lock and decides (`Act`), runs the commands and remembers
(`Done`). A request to the Web interface decides (`Select`, `ToggleOn`, `ToggleOff`),
runs its commands, then `Save`, then `SetConfig`. `Send` begins a BypassEndpoint.

**FallbackManager** (`manager.go`, `mqtt.go`). A Send goes through `pick` (one
critical section: skip or choose), `io` (no lock) and `worked` or `failed` (the
second critical section). Everything is kept by a channel's *name*, and
`ReconnectWithBroker` changes the name. `chosen` and `earlier` are history: the
broker the user chose, while nothing from before has led elsewhere, and the Sends
under way since before that choice.

**TcpRelay** (`tcp_relay.go`, `engine.go`). `handler[l]` is the goroutine of
connection l: `accepted`, `handshake`, then the rounds `loop`, `read`, `packet`,
`count`, and `leaving` before its deferred calls. `serverEnd` and `clientEnd` are
the ends not closed, `broken` the links that carry nothing. `Close` and `Sweep` are
the two halves of the server's Close.

## Runs

| Run | Instance | States | What it shows |
|---|---|---|---|
| `replay_filter` | 3 words of 2 bits, numbers 0..13 | 330,953 | no number twice within a ring of words; refines ReplayWindow |
| `puncher_socket` | 3 readers, 2 keepalive loops, 2 replacements | 264,591 | no leak, no deaf socket, Close ends all loops |
| `stun_mapping` | 2 uplinks, 2 servers, 2 callers, 3 requests, 2 sockets | 2,743,881 | pair whole or absent, mapped IP not outvoted |
| `sym_nat_session` | 2 peers, 2 rounds, NotifySuccess called | 500,038 | established peers kept, one hop after the winner at most, winner returned, sessions end |
| `tcp_direct` | 2 peers, 2 dials | 117,539 | table and readers agree, half-open streams heal, dial entries go, Close is final |
| `path_selection` | 3 addresses of 3 classes, latencies 0..2 | 913,662 | a live path is kept, no switch to a silent one, the active address is a candidate |
| `registry` | 4 devices, 2 of one key and 2 of the Android kind, 2 addresses, a table of 3 | 51,232 | one active owner per address; strangers neither displace nor rob it; the limit holds |
| `peer_link` | one peer, 2 addresses, ages in 4 steps, 4 states of the network | 614,496 | a beacon, however late, cuts no live path; no blackhole lasts; a dead peer does not stay direct; offline means without a path |
| `peer_link_ghost` | the same | | violated, see below |
| `exit_routing` | 2 peers, 1 request at a time, 2 failures | 708,456 | a host route into the tunnel is left behind only by an overtaking; deselecting restores; a dead exit is given up and one that returns is used |
| `signaling_manager` | 2 MQTT channels, one unknown broker, 2 Sends, 2 failures | 255,852 | every channel is met; no Send that begins later leads away from the user's broker; a channel that recovers is used |
| `tcp_relay` | 2 devices, 2 links, a quota of 1 | 530,928 | the entry is the served connection; the quota holds but for packets under way; Close stops all; the relay returns |

`stun_mapping` and `registry` use symmetry (uplinks, servers and callers;
devices of one identity), with safety properties only. Deadlock is checked, except
where the system may stop: after Close (`puncher_socket`, `tcp_direct`) and when a
bound is used up (`peer_link`: Overtaking; the two `Stun_` configurations that end in a
counterexample).

Each module has its type invariant, which is a theorem; PathSelection and
PeerRegistry check it in their run as well, because theirs says more than types, and
`Stun_TypeOK.cfg` checks StunMapping's.

Why the bounds are enough:

- *Replay filter.* Three words are the fewest in which the window's newest,
  oldest and a middle word differ; 14 numbers are two laps of the ring and more.
  The proofs cover every size.
- *Puncher.* Two replacements put three generations side by side, so that a loop
  of the first may skip the second; three readers allow one of each. The proofs
  cover any number.
- *StunMapping.* Three requests are needed for one uplink to be outvoted and then
  to catch up; two sockets for an answer to cross a hop.
- *SymNatSession.* Two sessions suffice for one to hop under the other's peer.
  The proofs cover any number.
- *TcpDirect.* Two dials give crossing dials, simultaneous open, a replacement
  and a redial after a break. The proofs of the invariants cover any number;
  healing is checked with two only.
- *PathSelection.* One address of each priority class that behaves differently.
- *PeerRegistry.* Strangers and devices of one identity in one table of three:
  an owner, a claimant, an entry the loop meets before or after, and an eviction
  by the limit. No two devices have one name and no address is a default one in
  the passing run: with either, `Registry_OneActivePerVIP.cfg` shows the address
  owned twice.
- *PeerLink.* The thresholds 15, 25, 30, 35 and 45 seconds are ordered as in the
  code, in steps of about 15 seconds: 25 and 30 coincide with 35, which the
  properties do not tell apart; the proofs have them apart. Overtaking = 1: one
  event while a ping holds an object that is no longer the entry. Two addresses
  are as many as a comparison of old and new needs.
- *ExitRouting.* Two peers give a change of exit node and a peer that is not the
  exit; one request at a time, see below. Two failures in place of the code's three
  have a first, which only counts, and a last; the configurations run by hand have
  three. The proofs cover any number of peers and failures; those of the invariants
  any number of requests at once, too.
- *FallbackManager.* Two Sends interleave in every way; two channels are the
  fewest with a fallback. A breaker that two failures open, in place of the code's
  three, has a failure that does not open it and one that does. The proofs cover any
  number.
- *TcpRelay.* Two connections are an old and a new one of one device, or one of
  each device. A quota of one packet is reached, and exceeded by the other
  connection, at once. The proofs cover any number.

## What the runs found

Each of these checks one sentence of the code's own comments and ends in a
counterexample. All were met while modelling. The first is the run
`peer_link_ghost`; the others are run by hand with the configuration named.

| Configuration (module) | The code says | What happens |
|---|---|---|
| `Link_NoGhostP2P` (PeerLink) | do not promote to DirectP2P here, otherwise we create a "ghost P2P" that stops probes forever (`engine.go:2075`, `2078`) | a ping that a relay answered sets LastDirectSeen and, for a direct peer, LastBilateralSeen (`engine.go:2082`): the dead path looks confirmed again every 45 seconds |
| `Replay_NoDuplicateInWindow` (MCReplayFilter) | a duplicate returns false (`replay.go:39`) | the window is as long as the ring, so its oldest word shares a slot with the newest: after 1 and 2048, number 1 is accepted again (`replay.go:80`); RFC 6479 keeps a word spare for this |
| `Puncher_OldLoopsExit` (PuncherSocket) | the old readLoop must exit immediately (`puncher.go:2154`); the old keepalive goroutine is already dead (`puncher.go:2494`) | a loop that is busy during a hop fetches the new socket and generation (`puncher.go:2143`), or re-reads `p.ctx` (`puncher.go:1654`), and stays: one more loop per such hop |
| `Stun_DiscoversNewMapping` (MCStunMapping) | the discovery tells the new port (`sym_nat_session.go:101`) | HopPort keeps the old mapping, and the cache answers with it (`puncher.go:688`) |
| `Sym_SessionRunsItsCourse` (SymNatSession) | a session has 15 seconds (`engine.go:1964`) | the deferred cancel of the function that launches it ends it at once (`engine.go:1966`) |
| `Registry_OneActivePerVIP` (MCPeerRegistry) | one active node per address (`registry.go:598`) | the address assigned by hash is not compared with entries already passed (`registry.go:664`); and a beacon dropped as outdated has already merged its address into an entry of its identity met before |
| `Exit_NoLastingBlackhole` (ExitRouting) | if the exit node fails three checks the default routes are disabled (`engine.go:813`) | routes the Web interface installed for an exit that is down stay: the watchdog counts failures only while it is active itself (`engine.go:928`) |
| `Exit_BypassIsPhysical` (ExitRouting) | bypass routes lead through the physical gateway, to prevent loops when exit routing is active (`routing_linux.go:624`) | the gateway is asked for by the route to 8.8.8.8, which is in the tunnel then: a bypass added by the sender (`engine.go:1492`) leads into the tunnel. OnlyOvertakenStray says how far that goes |
| `Exit_NoStrayBypass` (ExitRouting) | DisableExitNodeRouting removes the bypass routes (`routing_linux.go:723`) | the sender reads the gateway while it is the tunnel's (`routing_linux.go:627`), a removal runs to its end, and the sender then adds the host route (`routing_linux.go:652`): it stays in the tunnel when no traffic goes there |
| `Stun_CollectsEveryServer` (MCStunMapping) | wait 150 ms for the answers of the other servers, for a majority (`puncher.go:738`); the IP with the most votes among the responding servers (`puncher.go:1984`) | all servers get one transaction, which the first answer deletes (`puncher.go:323`): the others are dropped, and a request has one vote |
| `Fallback_ChoiceStays` (FallbackManager) | SwitchToBroker makes the broker's channel the current one (`manager.go:273`) | a Send under way since before makes the channel it succeeded with current again (`manager.go:145`), though the chosen broker works |
| `Fallback_StaysAlive` (FallbackManager) | UpdateMQTTBroker switches the active broker (`manager.go:309`) | the reconnection renames the channel, `m.statuses` has no entry of that name, and the next Send through it dereferences nil (`manager.go:134`) |

Noted in the same code while modelling, and kept by the models, without a run of
their own:

- the same shared slot makes the filter drop a fresh number one window after a
  late one (`replay.go:88`);
- ResetSocket keeps the votes, so the next answer may pair an earlier IP with its
  own port (`puncher.go:1997`);
- HasActiveDirectTargets is asked once, before the first round: a peer that
  connects later loses its mapping to the next hop (`sym_nat_session.go:78`);
  EstablishedPeersKept speaks of the others;
- after three failures RecordProbeFailure takes the first live candidate the map
  yields, not "the best" (`magicsock.go:400`);
- `p.MergeFrom(existing)` enriches the entry that is then deleted, so the replay
  filter of a reconnecting peer is lost (`registry.go:617`), and MergeFrom makes
  a known peer seen now however old the beacon is (`registry.go:484`).

In the peer link:

- a ping that fails upserts the entry all the same, and MergeFrom makes it online
  and seen now (`engine.go:2105`, `registry.go:484`);
- the ping loop's Upsert may overwrite what a beacon stored during the ping;
- over a path that carries one way only, inbound packets keep the entry direct and
  bilateral, so the peer's packets go where they do not arrive: NoLastingBlackhole
  speaks of peers that only relays reach;
- DirectTCP is never cleared while the entry lives, and a late beacon leaves
  Transport "offline" on a known peer that MergeFrom makes online;
- relays are used whenever the direct path is not verified, though the comment at
  the sender says "ONLY if" there is none;
- `activeSymSessions` is deleted from without its mutex, and `currentAdaptEpoch`
  read without its lock.

In exit-node routing:

- two concurrent handlers of the Web interface can leave the selection empty with
  routes installed, or a healthy exit selected without routes: they change routes,
  file and copy in different orders. The passing run has one request at a time;
- a request bypasses the new exit's addresses only (`server.go:2841`), so that until
  the sender has added their own host routes, the packets to other peers' addresses
  follow the tunnel's routes;
- resolv.conf is written when an exit is enabled without systemd or NetworkManager
  and never restored (`routing_linux.go:707`, `714`);
- the settings handlers load, change and save the file, and can lose a selection.

In the signaling manager: SwitchTo does not clear the breaker; broadcasts, which are
most payloads, update no status; a status may say Available while its breaker is open.

In the TCP relay: the handler of a dial the client gave up registers late and closes
the connection in use, which RelayReturns shows to heal; RelayedBytes is reset only
when a quota is set (`tcp_relay.go:104`, `139`); a frame cut off by the write deadline
of three seconds leaves the stream out of step, and the error is ignored
(`tcp_relay.go:295`); peers that chose different relays lose their packets while the
sender counts them as sent (`engine.go:1657`).

## Proofs

Theorems have the form `Spec => []Inv` or `Spec => [][A]_vars` (one is a refinement,
one a fact about an operator) and rest on the module's ASSUME only, but for three
about the registry and three about exit routing, which name their hypotheses. An
invariant is seldom inductive alone; the strengthenings are these.

Liveness is out of the prover's reach, but what a liveness property rests on is often
an invariant or an action property: the thing waited for cannot be refused, the thing
to be got rid of cannot be renewed, or a bounded number goes down. These *safety
cores* are theorems for any number of actors; that the rest follows by fairness is
what TLC checks on the instance.

| Liveness property | Theorem on which it rests | Left to fairness |
|---|---|---|
| ShutdownEndsLoops | CloseLeavesNothing, EndedLoopsStayEnded | a loop reaches its next look at the context |
| SessionsEnd | SessionsRunOut | a session takes its steps |
| DialEntryGoes | EntriesHaveCalls | the call leaves |
| HalfOpenHeals | HalfOpenEndsCanGoOn, NoOrphanStream | the other end takes its step |
| CloseIsFinal | StreamsEndForGood | the handshakes under way end |
| NoLastingBlackhole, DeadPeerNotDirect | SilentPathsAge | time passes; pings are not overtaken for ever |
| DeselectRestores | LeftoversRemembered, RememberedInstalled, OneLookSettles | the watchdog ticks |
| RecoversExit | OneLookSettles | the watchdog ticks after the peer's return |
| ServerStops | ClosedTableEmpties, ClosedForGood | handlers take their steps |

**ReplayFilter_proofs.** `IInv` joins TypeOK, HighestIsTop (the newest number is
the maximum of those accepted), AcceptedIsMarked (a number accepted within the
window has its bit set) and MarkIsExplained (a bit set in a live word was set for
a number of that word, or of the word one ring before it). The arithmetic is in
the lemmas `Split` to `OneRingApart`: numbers within `(Words-1)*Bits` of the
newest lie in words with distinct slots. From it follow `NoNearDuplicateHolds`
and `Refinement`, whose step lemma maps each branch to Accept, Drop or Forget.

**PuncherSocket_proofs.** SocketIsServed needs three facts about loops under way:
CtxAlive (before Close, the current context is not cancelled), FetchedTogether (a
loop whose generation is current fetched the current socket and context, because
getConn reads all three under one lock) and NoneAhead (no loop knows a future
generation). With them a loop about to check its generation either passes on to
the current socket or is not needed. `NoLeakedSocket` and `AlwaysServed` follow.
For Close, Cancelled says that the context stays cancelled between its two steps;
`CloseLeavesNothing` (no socket is open after it) and `EndedLoopsStayEnded` follow,
both but for a hop that overtakes Close.

**NatTraversal_proofs**, StunMapping. `StunInv` keeps an account of the requests.
Accounted: what is in the transaction table was sent, a request an answer was counted
to, which happens at most once, is not in the table any more, and no IP has more votes
than requests were answered, which bounds the votes. AnswersAreSent: the answer a read
loop holds is to a request that was sent, so that the port it brings is never the empty
one; SocketsCaptured: a call about to send has captured a socket. PairTogether and
MappedIsBestVoted need each other's steps only where an answer is counted (HandleStep);
all other steps leave the mapping, forget it, or forget the votes (OtherSteps). TLC
checked StunInv on the instance of `stun_mapping` before. `PortsAreReported` says where
a mapped port comes from: a request that left a socket the puncher had, and whose answer
was counted. It needs SentFromThePast: requests and captured sockets are of generations
up to the present one.

**NatTraversal_proofs**, SymNatSession. HopsAreCovered: while a session may still hop,
every connected peer is a newcomer. It holds because a session decides to hop only
when there are no targets, and every later target is recorded as a newcomer.
`EstablishedKept` follows. OneHopAfterWinner needs that a session past its check at
the top of a round hops once before it comes back to it; WinnerIsReturned that the
winner is stored before the context is cancelled. `SessionsRunOut` gives the variant:
three steps for each round left and one to four for the step in the round.

**DirectPaths_proofs**, PathSelection. PathTypeOK, with the active path among the
candidates, is inductive as it stands. One lemma for each operation says what it
leaves (Registered, Answered, Failed): which candidates change, and under which
condition the active path does. LivePathStays and NeverToSilent compare the state
before and after by these lemmas alone. `FreshPathsAreOrdered` says that the
comparison of two paths (Beats) is a strict order among paths heard just now, and
`AnswersDoNotFlap` that a switch is therefore not undone by the same answers.

**DirectPaths_proofs**, TcpDirect. TableIsRead and NoOrphanStream need StreamsAreNew
(a stream whose number is not dialled yet has no ends), CheckedIsFresh (a stream a
call is about to hand to its handshake is on nobody's table) and TwinsAreApart (the
two calls that met in one stream are of different peers). Each step of a call, a
handshake, a reader and Close then keeps table and readers together. On the same
invariant rest `EntriesHaveCalls` (an entry in connecting has its call),
`StreamsEndForGood` (the life of an end, Later, has no way back) and
`HalfOpenEndsCanGoOn`, for which HandshakeInv adds that nobody registers a stream
before the server has sent its identifier, and that only the server waits after that.

**Addresses_proofs**, PeerRegistry. What Upsert does depends on the order in which it
meets the other entries, so the proofs are about its loop: Sound (the types, which
entries may be evicted and which may have changed) and Owners (no address has moved
between entries, and an entry met and not evicted has another address than the peer
given) hold after any number of rounds. MeetSound and MeetOwners are the rounds,
LoopSound the induction over their number. The library states induction for an
operator the provers cannot instantiate; NaturalsByInduction states it for a set of
naturals, from the well-foundedness of `<`. Outcome then sums up an Upsert for the
specification's steps. The results:

- `ActiveStays` and `ActiveKeepsAddress`, without any hypothesis: strangers neither
  displace an active entry nor change its address.
- `OneEntryPerAddress`: no two entries, active or not, hold one address, where devices
  of one key differ in name (NamesTellApart). The addresses Upsert itself draws for a
  device that came with a default one (Drawn) are excepted: it does not look whether
  they are taken.
- `OneActiveOwner`: OneActivePerVIP, with no default addresses. Both hypotheses hold
  in the run `registry`; without them the property is false, as
  `Registry_OneActivePerVIP.cfg` shows. TLC checked SoleOwner with default addresses
  as well, on three devices, before it was proved.
- `AddressStaysWithNode`, under NamesTellApart: the address of an active entry comes
  to another entry only by that entry's own beacon, and only if both are one node.

**Addresses_proofs**, ExitRouting. `Inv` is TypeOK, JobsOK (which commands a caller
may be at, by what the watchdog or the request has decided), FailuresOK (with
GivenUpIsInactive) and StrayOK: a host route into the tunnel, and a gateway read that
will make one, stem from a time when the question for the gateway led into the tunnel;
when it does not any more, some caller is on its way to delete the host routes, or has
done so and left the mark "overtaken" on what others had read. One lemma for each
command shows StrayOK to stay, CallStep that a caller which enters a function changes
nothing about it, and `StrayIsOvertaken` is what it says of the kernel. OneRequestInv
is about requests that do not overlap (OneAtATime). It accounts for each of the
tunnel's routes by the command that is still to add or to delete it (YetToAdd,
YetToDelete), so that the watchdog's commands and the request's may fall between each
other: what is left of an exit is the watchdog's or about to go (LeftoversOK,
UninstallsOK), and what it remembers or installs is there or about to come
(RememberedOK, InstallsOK). From it follow `LeftoversRemembered`,
`RememberedInstalled` and `OneLookSettles`: when a look of the watchdog ends and the
request has run its commands, no routes are left if nothing is selected, and those of
a healthy peer are there. The hypothesis is not idle: two requests that overlap can
leave the file and the shared copy with different selections.

**PeerLink_proofs.** `Inv` joins TypeOK, OfflineHasNoPath and the same of the object
a ping holds: it was an entry, and changes like one. MergeIsClean is the reason
stores keep it: whatever is merged comes out online. Every handler then has a lemma
that entry and object stay clean. `BeaconsKeepLivePaths` rests on MergeKeepsLivePath,
for thresholds in any order the ASSUME allows. `SilentPathsAge` rests on
MergeKeepsAges: merging two objects confirms nothing that neither has confirmed, so
only a packet of the peer, or an object a ping held while the entry was replaced, makes
a path younger. TLC has a counterexample without that exception, for Overtaking = 4: an
object from before the entry was made anew replaces "never heard" with its own age.

**FallbackManager_proofs.** The lemma Wraps is the arithmetic: i consecutive indices
modulo N are i different ones. `Inv` says of each Send which channels it has met as a
function of its start and its round, and of a choice that holds (Held) that every
Send begun since is at the chosen channel, where it started, because that one has no
breaker and works. A Send from before the choice ends it when it leads elsewhere or
opens the breaker, so that `ChoiceIsKept` is about the others.

**TcpRelay_proofs.** `Table` joins the two halves of TableIsRight with Waiting (an
unregistered handler's connection is open); `Room` says that the count and the
packets checked but not yet counted stay below the bound together. Drained is about
a swept table: whoever is past the top of its loop has lost its connection, because
what was registered and open was in the table. `ClosedTableEmpties` and
`ClosedForGood` follow.

Type correctness is proved for every module, and so is every invariant and action
property that a passing run checks. Checked by TLC and not proved: the liveness
properties (ShutdownEndsLoops, SessionsEnd, HalfOpenHeals, DialEntryGoes,
CloseIsFinal, NoLastingBlackhole, DeadPeerNotDirect, DeselectRestores,
GivesUpOnDeadExit, RecoversExit, RecoveredChannelIsUsed, ServerStops, RelayReturns),
since fairness and ENABLED are out of the prover's reach. RECURSIVE operators are too;
no module uses one.

## Abstractions, bounds and fairness

*Atomicity.* A critical section is one step; what a goroutine does between two is
not joined to either. A `go` statement that is executed unconditionally after an
unlock is part of the step before it: the goroutine's own first step is separate.
Handle in StunMapping joins the consumption of a transaction, the vote and the
token, which the code does in three short sections; callers may finish between
any two answers, so no result is lost by it. ExitRouting has no lock to go by:
there every command of a caller that another one can tell apart is a step, and so
are the question for the gateway and the critical section of linuxBypassedMu.

*Data.* Packets, ports, keys and names are model values or small records.
Latencies are small numbers; the moving average is any number between its
arguments. Ages are counted in units of the thresholds the code compares them
with. In PeerRegistry every device has a key and a name.

*History variables* (`late`, `born` in the loops, `gen` in the callers, `counted`,
`outdated`, `broken`, `newcomers`, `accepted`, `call`, `last`, `met`, `chosen`,
`earlier`, and the mark "overtaken" in ExitRouting) never enable or disable a step.

*Bounds* are constants used in guards: Readers, Keepers, MaxHops (PuncherSocket),
MaxTx, MaxGen (StunMapping), MaxDials, MaxLatency. SymNatSession's MaxHops,
StunMapping's MaxTokens, PeerRegistry's MaxPeers, FallbackManager's Threshold and
ExitRouting's MaxFailures are constants of the code. Overtaking (PeerLink) and Links
(TcpRelay) are bounds; HasLink keeps the latter out of RelayReturns.

*PeerLink.* The endpoint is known to both, loss is a choice (`lossy`), the selector's
hold of 15 seconds and the five seconds of grace of a fresh peer are shorter than a
unit and left out.

*ExitRouting.* The gateway of the tunnel's routes does not matter, because the tunnel
has no link layer and the sender looks the selection up (`engine.go:1440`). Of these
routes those of 0.0.0.0/1 and 8.8.8.8 are modelled one by one, because the question
for the gateway reads them; those of 128.0.0.0/1 and 1.1.1.1 are added and deleted
between the two and read by nothing. DisableExitNodeRouting first deletes the routes
by their gateway and then by their destination alone: the second pass is modelled,
which deletes whatever the first does. Host routes are those of one peer, and the
handler that answers for the state of the tunnel and drops a revoked exit
(`server.go:4116`) is left out. A node the registry does not know is one the watchdog
gave up; that it leaves and is selected anew within one tick is left out. Failures of
commands and of config.Save are ignored by the code too.

*FallbackManager.* Broadcasts change no state and are left out. *TcpRelay.* The
client's end of a dead link is dropped at once, and the conditions for metered
networks and batteries, which the engine never sets, are left out.

*Fairness* is what Go's scheduler gives: a goroutine that can run does (weak
fairness of its steps). A select with two ready cases picks either, so a
keepalive loop sees its cancelled context eventually (strong fairness of CtxDone).
Dials and handshakes have deadlines, so they end. Tickers fire. Packets, hops, new
dials, Close, cancellations, clicks and the return of a peer or a network are never
assumed to come.

## Not modelled

IPv6 sockets, probing and pacing, packet formats, ShadowTLS beyond who answers whom,
endpoints and latencies of the peer link, and the components `PROJECT.json` marks so
with their reasons: mostly wrappers of operating-system commands, one-shot queries,
formats, and the user interfaces, which are the larger part of the repository
(`cmd/natbypass-gui`, `webui`, the mobile bridges and the copies of the engine they
carry). `cmd/natbypass-cli/engine.go` is `cmd/natbypass/engine.go` but for two names;
what is said of one holds of the other.

## Plan

Done, in the order of importance to a working mesh: ReplayFilter, PuncherSocket,
StunMapping, SymNatSession, TcpDirect, PathSelection, PeerRegistry, PeerLink,
ExitRouting, FallbackManager, TcpRelay.

Next modules:

1. **TcpFallback**: triggerTCPFallback and RemovePeer with TcpDirect's interface;
   every threshold without a stream leads to another attempt (`magicsock.go:562`
   keeps tcpAttempted set).
2. **TransportSwitcher**: flags belong to the mode, under concurrent Evaluate and
   overrides; then TcpRelay takes its mode from it.
3. **Coordinators**: the load of a coordinator is read in FindBestCoordinator and
   incremented later (`registry.go:1113`).
4. **RatchetSession**: Decrypt in two critical sections, several receivers, epochs;
   ReplayWindow as abstract specification, for at-most-once delivery.
5. Compositions: StunMapping with SymNatSession over PuncherSocket; PeerLink with
   TcpDirect in place of its `conn`; PeerRegistry with PathSelection.
6. Candidates after that: web sessions, updater replacement, DHT requests.

Next proofs: the cores of the remaining liveness properties (GivesUpOnDeadExit,
RecoveredChannelIsUsed, RelayReturns) and the refinements that the compositions will
state.
