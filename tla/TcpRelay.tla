------------------------------ MODULE TcpRelay ------------------------------
(***************************************************************************)
(* The relay over TCP 443 (internal/relay/tcp_relay.go): a server that     *)
(* keeps one connection per device, and the engines of the devices, which  *)
(* dial it whenever the transport mode asks for it and their client is not *)
(* connected (ensureDesktopTCPRelay, engine.go).                           *)
(*                                                                         *)
(* Every connection has a handler of its own in the server; connsMu covers *)
(* the registration and the removal only.  A dial that the client has      *)
(* given up is still in the hands of its handler.  The quota is counted in *)
(* packets.  What a forwarded packet does at its destination is left out,  *)
(* and so are keepalives, which only make the client notice a dead link.   *)
(***************************************************************************)
EXTENDS Integers, FiniteSets

CONSTANTS Devices,  \* the devices that use this relay
          Links,    \* TCP connections that may exist at once; a closed one is reused
          Quota,    \* packets forwarded in a day before the server refuses
          NoLink    \* nil

ASSUME QuotaAssumption == Quota \in Nat \ {0}
ASSUME LinksAssumption == IsFiniteSet(Links)
ASSUME NoLinkAssumption == NoLink \notin Links

VARIABLES conns,       \* the server's connection of each device
          closed,      \* how far Close is: "no", "flag" before the sweep, "swept"
          activeDate,  \* "today", or "past" when midnight has gone by unnoticed
          dailyBytes,  \* packets counted since activeDate
          handler,     \* the step of each connection's handler
          owner,       \* the device that dialed it
          serverEnd,   \* connections the server has not closed
          clientEnd,   \* connections the client has not closed
          broken,      \* connections over which nothing arrives any more
          client,      \* the connection of each engine's tcpRelayClient
          connected,   \* the devices whose client is connected
          dialing,     \* the connection of each engine's Connect under way
          mode         \* the devices whose transport mode is tcp_relay

server == <<conns, closed, activeDate, dailyBytes>>
device == <<client, connected, dialing, mode>>
vars == <<server, handler, owner, serverEnd, clientEnd, broken, device>>

\* The steps of handleClient once the connection is registered.
Serving == {"loop", "read", "packet", "count", "leaving"}
\* It has returned: before the registration, or after it.
Ended == {"refused", "gone"}
Steps == Serving \cup {"accepted", "handshake"} \cup Ended

TypeOK ==
    /\ conns \in [Devices -> Links \cup {NoLink}]
    /\ closed \in {"no", "flag", "swept"}
    /\ activeDate \in {"today", "past"}
    /\ dailyBytes \in Nat
    /\ handler \in [Links -> Steps]
    /\ owner \in [Links -> Devices]
    /\ serverEnd \subseteq {l \in Links : handler[l] \notin Ended}
    /\ clientEnd \subseteq Links
    /\ broken \subseteq Links
    /\ client \in [Devices -> Links \cup {NoLink}]
    /\ connected \subseteq Devices
    /\ dialing \in [Devices -> Links \cup {NoLink}]
    /\ mode \subseteq Devices

Init ==
    /\ conns = [d \in Devices |-> NoLink]
    /\ closed = "no"
    /\ activeDate = "today"
    /\ dailyBytes = 0
    /\ handler = [l \in Links |-> "gone"]
    /\ owner \in [Links -> Devices]
    /\ serverEnd = {}
    /\ clientEnd = {}
    /\ broken = {}
    /\ client = [d \in Devices |-> NoLink]
    /\ connected = {}
    /\ dialing = [d \in Devices |-> NoLink]
    /\ mode = {}

----------------------------------------------------------------------------
(* The device: a tick of its engine dials, and Connect runs until the      *)
(* acknowledgement, a refusal or a timeout.                                *)

Free(l) == handler[l] \in Ended /\ l \notin clientEnd

Dial(d, l) ==
    /\ d \in mode \ connected
    /\ dialing[d] = NoLink
    /\ closed = "no"
    /\ Free(l)
    /\ handler' = [handler EXCEPT ![l] = "accepted"]
    /\ owner' = [owner EXCEPT ![l] = d]
    /\ serverEnd' = serverEnd \cup {l}
    /\ clientEnd' = clientEnd \cup {l}
    /\ broken' = broken \ {l}
    /\ dialing' = [dialing EXCEPT ![d] = l]
    /\ UNCHANGED <<server, client, connected, mode>>

\* PREG_OK has been read, perhaps after the server closed the connection again.
\* The engine closes its former client and keeps the new one.
ConnectOK(d) ==
    /\ dialing[d] # NoLink
    /\ handler[dialing[d]] \in Serving \cup {"gone"}
    /\ clientEnd' = clientEnd \ {client[d]}
    /\ client' = [client EXCEPT ![d] = dialing[d]]
    /\ connected' = connected \cup {d}
    /\ dialing' = [dialing EXCEPT ![d] = NoLink]
    /\ UNCHANGED <<server, handler, owner, serverEnd, broken, mode>>

ConnectFails(d) ==
    /\ dialing[d] # NoLink
    /\ clientEnd' = clientEnd \ {dialing[d]}
    /\ dialing' = [dialing EXCEPT ![d] = NoLink]
    /\ UNCHANGED <<server, handler, owner, serverEnd, broken, client, connected, mode>>

Refused(d) ==
    /\ dialing[d] # NoLink
    /\ handler[dialing[d]] = "refused" \/ dialing[d] \in broken
    /\ ConnectFails(d)

\* The deadline passed: the server was slow, and may still register the device.
TimesOut(d) == ConnectFails(d)

\* Mutant: the end of the read loop is not recorded.
StaysConnected(d) == connected

Disconnected(d) == connected \ {d}

\* readLoop meets an error; a link that carries nothing any more is noticed by
\* the keepalives that are not acknowledged.  The client closes its end when it
\* is replaced, but nobody can see that any more and the link is dropped at once.
ReadLoopEnds(d) ==
    /\ d \in connected
    /\ client[d] \notin serverEnd \/ client[d] \in broken
    /\ connected' = Disconnected(d)
    /\ clientEnd' = clientEnd \ {client[d]}
    /\ client' = [client EXCEPT ![d] = NoLink]
    /\ UNCHANGED <<server, handler, owner, serverEnd, broken, dialing, mode>>

----------------------------------------------------------------------------
(* The server: checkResourceConstraints, handleClient and Close.           *)

\* Bytes counted, once a new day has been noticed.
Used == IF activeDate = "past" THEN 0 ELSE dailyBytes

Checked ==
    /\ activeDate' = "today"
    /\ dailyBytes' = Used

Go(l, step) == handler' = [handler EXCEPT ![l] = step]

\* defer conn.Close()
Finished(l) == serverEnd \ {l}

Admit(l) ==
    /\ handler[l] = "accepted"
    /\ Checked
    /\ IF Used < Quota
       THEN Go(l, "handshake") /\ UNCHANGED serverEnd
       ELSE Go(l, "refused") /\ serverEnd' = Finished(l)
    /\ UNCHANGED <<conns, closed, owner, clientEnd, broken, device>>

\* The line has been read, even if the client has closed its end since.  An
\* earlier connection of the device is closed.
Register(l) ==
    LET d == owner[l] IN
    /\ handler[l] = "handshake"
    /\ serverEnd' = serverEnd \ ({conns[d]} \ {l})
    /\ conns' = [conns EXCEPT ![d] = l]
    /\ Go(l, "loop")
    /\ UNCHANGED <<closed, activeDate, dailyBytes, owner, clientEnd, broken, device>>

\* No line within five seconds.
GiveUp(l) ==
    /\ handler[l] = "handshake"
    /\ l \in broken \/ l \notin clientEnd
    /\ Go(l, "refused")
    /\ serverEnd' = Finished(l)
    /\ UNCHANGED <<server, owner, clientEnd, broken, device>>

\* Mutant: the loop relies on Close closing the connections it finds.
NotAsked == FALSE

Stopping == closed # "no"

Loop(l) ==
    /\ handler[l] = "loop"
    /\ Go(l, IF Stopping THEN "leaving" ELSE "read")
    /\ UNCHANGED <<server, owner, serverEnd, clientEnd, broken, device>>

Receive(l) ==
    /\ handler[l] = "read"
    /\ l \in serverEnd \ broken
    /\ client[owner[l]] = l
    /\ Go(l, "packet")
    /\ UNCHANGED <<server, owner, serverEnd, clientEnd, broken, device>>

\* End of file, or the server's own end has been closed by another handler.
ReadEnds(l) ==
    /\ handler[l] = "read"
    /\ l \notin serverEnd \/ (l \notin clientEnd /\ l \notin broken)
    /\ Go(l, "leaving")
    /\ UNCHANGED <<server, owner, serverEnd, clientEnd, broken, device>>

\* A broken link: the server has no deadline for reading and may never see it.
ReadBreaks(l) ==
    /\ handler[l] = "read"
    /\ l \in broken
    /\ Go(l, "leaving")
    /\ UNCHANGED <<server, owner, serverEnd, clientEnd, broken, device>>

\* Mutant: the quota is checked at the registration only.
AlwaysAllowed == TRUE

Allowed == Used < Quota

\* The conditions are checked for every packet.
Validate(l) ==
    /\ handler[l] = "packet"
    /\ Checked
    /\ Go(l, IF Allowed THEN "count" ELSE "leaving")
    /\ UNCHANGED <<conns, closed, owner, serverEnd, clientEnd, broken, device>>

\* Counted and forwarded, some time after the check.
Count(l) ==
    /\ handler[l] = "count"
    /\ dailyBytes' = dailyBytes + 1
    /\ Go(l, "loop")
    /\ UNCHANGED <<conns, closed, activeDate, owner, serverEnd, clientEnd, broken, device>>

\* Mutant: the entry is removed whoever has it now.
RemovedAnyway(l) == [conns EXCEPT ![owner[l]] = NoLink]

\* The entry is removed unless a later connection has taken it.
Removed(l) == [conns EXCEPT ![owner[l]] = IF @ = l THEN NoLink ELSE @]

\* The deferred calls of handleClient.
Leave(l) ==
    /\ handler[l] = "leaving"
    /\ conns' = Removed(l)
    /\ serverEnd' = Finished(l)
    /\ Go(l, "gone")
    /\ UNCHANGED <<closed, activeDate, dailyBytes, owner, clientEnd, broken, device>>

\* Close stops the listener; handlers of accepted connections still run.
Close ==
    /\ closed = "no"
    /\ closed' = "flag"
    /\ UNCHANGED <<conns, activeDate, dailyBytes, handler, owner, serverEnd, clientEnd, broken,
                   device>>

Sweep ==
    /\ closed = "flag"
    /\ closed' = "swept"
    /\ serverEnd' = serverEnd \ {conns[d] : d \in Devices}
    /\ conns' = [d \in Devices |-> NoLink]
    /\ UNCHANGED <<activeDate, dailyBytes, handler, owner, clientEnd, broken, device>>

----------------------------------------------------------------------------
(* The network, the calendar and the transport mode.                       *)

Break(l) ==
    /\ l \notin broken
    /\ l \in serverEnd \cap clientEnd
    /\ broken' = broken \cup {l}
    /\ UNCHANGED <<server, handler, owner, serverEnd, clientEnd, device>>

Midnight ==
    /\ activeDate' = "past"
    /\ UNCHANGED <<conns, closed, dailyBytes, handler, owner, serverEnd, clientEnd, broken, device>>

\* The client is kept when the mode changes.
ModeChanges(d) ==
    /\ mode' = IF d \in mode THEN mode \ {d} ELSE mode \cup {d}
    /\ UNCHANGED <<server, handler, owner, serverEnd, clientEnd, broken, client, connected, dialing>>

Handle(l) == Admit(l) \/ Register(l) \/ GiveUp(l) \/ Loop(l) \/ ReadEnds(l) \/ Validate(l)
                \/ Count(l) \/ Leave(l)

Engine(d) == ConnectOK(d) \/ Refused(d) \/ ReadLoopEnds(d) \/ \E l \in Links : Dial(d, l)

Next ==
    \/ \E l \in Links : Handle(l) \/ Receive(l) \/ ReadBreaks(l) \/ Break(l)
    \/ \E d \in Devices : Engine(d) \/ TimesOut(d) \/ ModeChanges(d)
    \/ Close \/ Sweep \/ Midnight

\* Goroutines run; nothing makes a device send, a link break or a day end.
Fairness ==
    /\ \A l \in Links : WF_vars(Handle(l))
    /\ \A d \in Devices : WF_vars(Engine(d))
    /\ WF_vars(Sweep)

Spec == Init /\ [][Next]_vars /\ Fairness

----------------------------------------------------------------------------
(* Properties.                                                             *)

\* A registered connection that the server has not closed is the one packets for
\* its device are sent on: the end of an earlier one does not take the entry away
\* (tcp_relay.go:200-206).
RegisteredIsReachable ==
    \A l \in Links : handler[l] \in Serving /\ l \in serverEnd => conns[owner[l]] = l

\* Packets for a device are sent on a connection of that device whose handler
\* still runs.
EntryIsServed ==
    \A d \in Devices : conns[d] # NoLink =>
        /\ owner[conns[d]] = d
        /\ handler[conns[d]] \in Serving
        /\ conns[d] \in serverEnd

\* The table of connections is right: each open registered connection has its
\* entry, and each entry its open connection, in whatever order the handlers of
\* one device's connections begin and end.
TableIsRight == RegisteredIsReachable /\ EntryIsServed

\* Packets that were checked together may exceed the quota, by less than one for
\* each connection (tcp_relay.go:253-257).
QuotaBounded == dailyBytes < Quota + Cardinality(Links)

\* After Close every handler ends and no entry stays, also when a handler
\* registers its device after the sweep.
ServerStops ==
    closed # "no" ~> [](conns = [d \in Devices |-> NoLink] /\ serverEnd = {})

\* Links, the bound on connections, does not keep the device from dialing.
HasLink(d) == d \in connected \/ dialing[d] # NoLink \/ \E l \in Links : Free(l)

\* Once links hold and nothing times out, a device that wants the relay and is not
\* over the quota ends up registered, whatever late handlers of earlier dials do.
RelayReturns ==
    \A d \in Devices :
        /\ <>[](d \in mode /\ closed = "no" /\ Used < Quota /\ HasLink(d))
        /\ <>[][\A l \in Links, e \in Devices : ~Break(l) /\ ~TimesOut(e)]_vars
        => <>[](d \in connected /\ conns[d] = client[d])
=============================================================================
