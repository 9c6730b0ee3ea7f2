--------------------------- MODULE TcpRelay_proofs ---------------------------
(***************************************************************************)
(* Proofs about the TCP relay, for any number of devices and connections.  *)
(* The entries of conns and the open connections determine each other, and *)
(* a handler whose packet has been checked but not counted has room kept   *)
(* for it under the bound on the quota.                                    *)
(***************************************************************************)
EXTENDS TcpRelay, FiniteSetTheorems, TLAPS

\* Until it registers, a handler's connection is open.
Waiting == \A l \in Links : handler[l] \in {"accepted", "handshake"} => l \in serverEnd

Counting == {l \in Links : handler[l] = "count"}

\* Every packet that was checked may still be counted.
Room == dailyBytes + Cardinality(Counting) < Quota + Cardinality(Links)

Table == Waiting /\ RegisteredIsReachable /\ EntryIsServed

Inv == TypeOK /\ Table /\ Room

----------------------------------------------------------------------------
(* Counting.                                                               *)

LEMMA CountingSize ==
    /\ IsFiniteSet(Counting) /\ IsFiniteSet(Counting')
    /\ Cardinality(Links) \in Nat
    /\ Cardinality(Counting) \in 0..Cardinality(Links)
    /\ Cardinality(Counting') \in 0..Cardinality(Links)
<1>1. Counting \subseteq Links /\ Counting' \subseteq Links
  BY DEF Counting
<1> QED BY <1>1, LinksAssumption, FS_Subset, FS_CardinalityType

\* Room stays when nothing is added to either part.
LEMMA RoomStays ==
    ASSUME Inv, dailyBytes' \in Nat, dailyBytes' <= dailyBytes, Counting' \subseteq Counting
    PROVE  Room'
<1>1. Cardinality(Counting') <= Cardinality(Counting)
  BY CountingSize, FS_Subset
<1> QED BY <1>1, CountingSize, QuotaAssumption DEF Inv, TypeOK, Room

\* A check leaves as much room as any packets need.
LEMMA RoomMade ==
    ASSUME Inv, dailyBytes' \in Nat, dailyBytes' < Quota
    PROVE  Room'
  BY CountingSize, QuotaAssumption DEF Room

LEMMA CheckedLess ==
    ASSUME TypeOK, Checked
    PROVE  /\ activeDate' = "today"
           /\ dailyBytes' \in Nat /\ dailyBytes' <= dailyBytes /\ dailyBytes' = Used
  BY DEF TypeOK, Checked, Used

----------------------------------------------------------------------------
LEMMA InitInv == Init => Inv
<1> SUFFICES ASSUME Init PROVE Inv
  OBVIOUS
<1>1. TypeOK /\ Table
  BY DEF Init, TypeOK, Steps, Ended, Serving, Table, Waiting, RegisteredIsReachable,
         EntryIsServed
<1>2. Room
  <2>1. Counting = {}
    BY DEF Init, Counting
  <2> QED BY <2>1, CountingSize, FS_EmptySet, QuotaAssumption DEF Init, Room
<1> QED BY <1>1, <1>2 DEF Inv

\* Steps of a device.
LEMMA DeviceInv ==
    ASSUME Inv, NEW d \in Devices,
           \/ \E l \in Links : Dial(d, l)
           \/ ConnectOK(d) \/ ConnectFails(d) \/ ReadLoopEnds(d) \/ ModeChanges(d)
    PROVE  Inv'
<1>1. ASSUME NEW l \in Links, Dial(d, l) PROVE Inv'
  <2>1. TypeOK'
    BY <1>1 DEF Inv, TypeOK, Dial, server, Steps, Ended
  <2>2. Table'
    BY <1>1 DEF Inv, TypeOK, Table, Waiting, RegisteredIsReachable, EntryIsServed,
                Dial, Free, server, Serving, Ended
  <2>3. Counting' \subseteq Counting
    BY <1>1 DEF Inv, TypeOK, Counting, Dial
  <2>4. Room'
    BY <1>1, <2>3, RoomStays DEF Dial, server, Inv, TypeOK
  <2> QED BY <2>1, <2>2, <2>4 DEF Inv
<1>2. CASE ConnectOK(d) \/ ConnectFails(d) \/ ReadLoopEnds(d) \/ ModeChanges(d)
  <2>1. UNCHANGED <<conns, closed, activeDate, dailyBytes, handler, owner, serverEnd, broken>>
    BY <1>2 DEF ConnectOK, ConnectFails, ReadLoopEnds, ModeChanges, server
  <2>2. TypeOK'
    BY <1>2, <2>1 DEF Inv, TypeOK, ConnectOK, ConnectFails, ReadLoopEnds, ModeChanges,
                     Disconnected
  <2>3. Table' /\ Room'
    BY <2>1 DEF Inv, Table, Waiting, RegisteredIsReachable, EntryIsServed, Room, Counting
  <2> QED BY <2>2, <2>3 DEF Inv
<1> QED BY <1>1, <1>2

\* Steps of a handler that end neither the connection nor its registration.
LEMMA MovesOn ==
    ASSUME Inv, NEW l \in Links, NEW s \in Steps, Go(l, s),
           \/ handler[l] \in Serving /\ s \in Serving
           \/ handler[l] = "accepted" /\ s = "handshake",
           UNCHANGED <<conns, closed, owner, serverEnd, clientEnd, broken, device>>,
           activeDate' \in {"today", "past"}, dailyBytes' \in Nat
    PROVE  TypeOK' /\ Table'
<1>1. handler' = [handler EXCEPT ![l] = s]
  BY DEF Go
<1>2. s \notin Ended
  BY DEF Serving, Ended
<1>3. TypeOK'
  BY <1>1, <1>2 DEF Inv, TypeOK, device
<1>4. Table'
  BY <1>1 DEF Inv, TypeOK, Table, Waiting, RegisteredIsReachable, EntryIsServed, Serving
<1> QED BY <1>3, <1>4

\* A connection that is not registered is closed.
LEMMA TurnedAway ==
    ASSUME Inv, NEW l \in Links, handler[l] \in {"accepted", "handshake"},
           Go(l, "refused"), serverEnd' = Finished(l),
           UNCHANGED <<conns, closed, owner, clientEnd, broken, device>>,
           activeDate' \in {"today", "past"}, dailyBytes' \in Nat
    PROVE  TypeOK' /\ Table'
<1>1. TypeOK'
  BY DEF Inv, TypeOK, device, Go, Finished, Steps, Ended
<1>2. Table'
  BY DEF Inv, TypeOK, Table, Waiting, RegisteredIsReachable, EntryIsServed, Serving, Go,
         Finished
<1> QED BY <1>1, <1>2

\* Steps of a handler that is not counting.
LEMMA NoMoreCounting ==
    ASSUME Inv, NEW l \in Links, NEW s \in Steps, Go(l, s), s # "count"
    PROVE  Counting' \subseteq Counting
  BY DEF Inv, TypeOK, Go, Counting

LEMMA AdmitInv == ASSUME Inv, NEW l \in Links, Admit(l) PROVE Inv'
<1>1. /\ activeDate' = "today" /\ dailyBytes' \in Nat /\ dailyBytes' <= dailyBytes
  BY CheckedLess DEF Inv, Admit
<1>2. CASE Used < Quota
  <2>1. TypeOK' /\ Table'
    BY <1>1, <1>2, MovesOn DEF Admit, Steps
  <2>2. Counting' \subseteq Counting
    BY <1>2, NoMoreCounting DEF Admit, Steps
  <2> QED BY <1>1, <2>1, <2>2, RoomStays DEF Inv
<1>3. CASE ~(Used < Quota)
  <2>1. TypeOK' /\ Table'
    BY <1>1, <1>3, TurnedAway DEF Admit
  <2>2. Counting' \subseteq Counting
    BY <1>3, NoMoreCounting DEF Admit, Steps, Ended
  <2> QED BY <1>1, <2>1, <2>2, RoomStays DEF Inv
<1> QED BY <1>2, <1>3

LEMMA RegisterInv == ASSUME Inv, NEW l \in Links, Register(l) PROVE Inv'
<1> DEFINE d == owner[l]
<1>1. d \in Devices /\ conns[d] # l /\ l \in serverEnd
  <2>1. d \in Devices /\ handler[l] = "handshake"
    BY DEF Inv, TypeOK, Register
  <2>2. handler[l] \notin Serving
    BY <2>1 DEF Serving
  <2>3. conns[d] # l
    BY <2>1, <2>2, NoLinkAssumption DEF Inv, Table, EntryIsServed
  <2>4. l \in serverEnd
    BY <2>1 DEF Inv, Table, Waiting
  <2> QED BY <2>1, <2>3, <2>4
<1>2. /\ conns' = [conns EXCEPT ![d] = l]
      /\ handler' = [handler EXCEPT ![l] = "loop"]
      /\ serverEnd' = serverEnd \ {conns[d]}
      /\ UNCHANGED <<closed, activeDate, dailyBytes, owner, clientEnd, broken, device>>
  BY <1>1 DEF Register, Go
<1>3. handler[l] = "handshake"
  BY DEF Register
<1> HIDE DEF d
<1>4. TypeOK'
  BY <1>1, <1>2 DEF Inv, TypeOK, device, Steps, Serving, Ended
<1>5. owner[l] = d
  BY DEF d
<1>6. RegisteredIsReachable'
  <2> SUFFICES ASSUME NEW m \in Links, handler'[m] \in Serving, m \in serverEnd'
               PROVE  conns'[owner[m]] = m
    BY <1>2 DEF RegisteredIsReachable
  <2>1. CASE m = l
    BY <1>1, <1>2, <1>5, <2>1 DEF Inv, TypeOK
  <2>2. CASE m # l
    <3>1. conns[owner[m]] = m /\ m # conns[d]
      BY <1>2, <2>2 DEF Inv, TypeOK, Table, RegisteredIsReachable
    <3>2. owner[m] \in Devices /\ owner[m] # d
      BY <3>1 DEF Inv, TypeOK
    <3> QED BY <1>2, <3>1, <3>2 DEF Inv, TypeOK
  <2> QED BY <2>1, <2>2
<1>7. EntryIsServed'
  <2> SUFFICES ASSUME NEW e \in Devices, conns'[e] # NoLink
               PROVE  /\ owner[conns'[e]] = e
                      /\ handler'[conns'[e]] \in Serving
                      /\ conns'[e] \in serverEnd'
    BY <1>2 DEF EntryIsServed
  <2>1. CASE e = d
    BY <1>1, <1>2, <1>5, <2>1 DEF Inv, TypeOK, Serving
  <2>2. CASE e # d
    <3>1. conns'[e] = conns[e] /\ conns[e] \in Links
      BY <1>2, <2>2 DEF Inv, TypeOK
    <3>2. /\ owner[conns[e]] = e /\ handler[conns[e]] \in Serving /\ conns[e] \in serverEnd
      BY <3>1, NoLinkAssumption DEF Inv, Table, EntryIsServed
    <3>3. conns[e] # conns[d]
      BY <1>1, <2>2, <3>1, <3>2, NoLinkAssumption DEF Inv, Table, EntryIsServed
    <3>4. conns[e] # l
      BY <1>3, <3>2 DEF Serving
    <3> QED BY <1>2, <3>1, <3>2, <3>3, <3>4 DEF Inv, TypeOK
  <2> QED BY <2>1, <2>2
<1>8. Waiting'
  <2> SUFFICES ASSUME NEW m \in Links, handler'[m] \in {"accepted", "handshake"}
               PROVE  m \in serverEnd'
    BY DEF Waiting
  <2>1. m # l /\ handler[m] \in {"accepted", "handshake"}
    BY <1>2 DEF Inv, TypeOK
  <2>2. m \in serverEnd
    BY <2>1 DEF Inv, Table, Waiting
  <2>3. m # conns[d]
    BY <1>1, <2>1, NoLinkAssumption DEF Inv, Table, EntryIsServed, Serving
  <2> QED BY <1>2, <2>2, <2>3
<1>9. Room'
  <2>1. Counting' \subseteq Counting
    BY <1>2 DEF Inv, TypeOK, Counting
  <2> QED BY <1>2, <2>1, RoomStays DEF Inv, TypeOK
<1> QED BY <1>4, <1>6, <1>7, <1>8, <1>9 DEF Inv, Table

LEMMA GiveUpInv == ASSUME Inv, NEW l \in Links, GiveUp(l) PROVE Inv'
<1>1. TypeOK' /\ Table'
  BY TurnedAway DEF GiveUp, server, Inv, TypeOK
<1>2. Counting' \subseteq Counting
  BY NoMoreCounting DEF GiveUp, Steps, Ended
<1> QED BY <1>1, <1>2, RoomStays DEF GiveUp, server, Inv, TypeOK

\* Loop, Receive, ReadEnds, ReadBreaks.
LEMMA ReadInv ==
    ASSUME Inv, NEW l \in Links,
           Loop(l) \/ Receive(l) \/ ReadEnds(l) \/ ReadBreaks(l)
    PROVE  Inv'
<1>1. PICK s \in {"leaving", "read", "packet"} : Go(l, s)
  BY DEF Loop, Receive, ReadEnds, ReadBreaks
<1>2. /\ handler[l] \in Serving /\ s \in Serving /\ s \in Steps /\ s # "count"
      /\ UNCHANGED <<server, owner, serverEnd, clientEnd, broken, device>>
  BY DEF Loop, Receive, ReadEnds, ReadBreaks, Serving, Steps
<1>3. TypeOK' /\ Table'
  BY <1>1, <1>2, MovesOn DEF server, Inv, TypeOK
<1>4. Counting' \subseteq Counting
  BY <1>1, <1>2, NoMoreCounting
<1> QED BY <1>2, <1>3, <1>4, RoomStays DEF server, Inv, TypeOK

LEMMA ValidateInv == ASSUME Inv, NEW l \in Links, Validate(l) PROVE Inv'
<1>1. /\ activeDate' = "today" /\ dailyBytes' \in Nat /\ dailyBytes' <= dailyBytes
      /\ dailyBytes' = Used
  BY CheckedLess DEF Inv, Validate
<1>2. PICK s \in {"count", "leaving"} : Go(l, s) /\ (s = "count" => Used < Quota)
  BY DEF Validate, Allowed
<1>3. TypeOK' /\ Table'
  BY <1>1, <1>2, MovesOn DEF Validate, Serving, Steps
<1>4. CASE s = "count"
  BY <1>1, <1>2, <1>3, <1>4, RoomMade DEF Inv
<1>5. CASE s = "leaving"
  <2>1. Counting' \subseteq Counting
    BY <1>2, <1>5, NoMoreCounting DEF Serving, Steps
  <2> QED BY <1>1, <1>3, <2>1, RoomStays DEF Inv
<1> QED BY <1>2, <1>4, <1>5

LEMMA CountInv == ASSUME Inv, NEW l \in Links, Count(l) PROVE Inv'
<1>1. dailyBytes' = dailyBytes + 1 /\ dailyBytes' \in Nat
  BY DEF Count, Inv, TypeOK
<1>2. TypeOK' /\ Table'
  BY <1>1, MovesOn DEF Count, Serving, Steps, Inv, TypeOK
<1>3. Counting' = Counting \ {l} /\ l \in Counting
  BY DEF Count, Go, Counting, Inv, TypeOK
<1>4. Cardinality(Counting') = Cardinality(Counting) - 1
  BY <1>3, CountingSize, FS_RemoveElement
<1>5. Room'
  BY <1>1, <1>4, CountingSize, QuotaAssumption DEF Room, Inv, TypeOK
<1> QED BY <1>2, <1>5 DEF Inv

LEMMA LeaveInv == ASSUME Inv, NEW l \in Links, Leave(l) PROVE Inv'
<1> DEFINE d == owner[l]
<1>1. d \in Devices
  BY DEF Inv, TypeOK
<1>2. /\ conns' = [conns EXCEPT ![d] = IF conns[d] = l THEN NoLink ELSE conns[d]]
      /\ handler' = [handler EXCEPT ![l] = "gone"]
      /\ serverEnd' = serverEnd \ {l}
      /\ UNCHANGED <<closed, activeDate, dailyBytes, owner, clientEnd, broken, device>>
      /\ handler[l] = "leaving"
  BY <1>1 DEF Leave, Removed, Finished, Go, Inv, TypeOK
<1>3. owner[l] = d
  OBVIOUS
<1> HIDE DEF d
<1>4. TypeOK'
  BY <1>1, <1>2 DEF Inv, TypeOK, device, Steps, Ended
<1>5. \A e \in Devices : conns'[e] = IF conns[e] = l THEN NoLink ELSE conns[e]
  BY <1>1, <1>2, <1>3, NoLinkAssumption DEF Inv, TypeOK, Table, EntryIsServed
<1>6. \A m \in Links : m # l => handler'[m] = handler[m]
  BY <1>2 DEF Inv, TypeOK
<1>7. handler'[l] = "gone"
  BY <1>2 DEF Inv, TypeOK
<1>8. RegisteredIsReachable'
  BY <1>2, <1>5, <1>6 DEF Inv, TypeOK, Table, RegisteredIsReachable
<1>9. EntryIsServed'
  <2> SUFFICES ASSUME NEW e \in Devices, conns'[e] # NoLink
               PROVE  /\ owner[conns'[e]] = e
                      /\ handler'[conns'[e]] \in Serving
                      /\ conns'[e] \in serverEnd'
    BY <1>2 DEF EntryIsServed
  <2>1. conns'[e] = conns[e] /\ conns[e] # l /\ conns[e] \in Links
    BY <1>5 DEF Inv, TypeOK
  <2> QED BY <1>2, <1>6, <2>1, NoLinkAssumption DEF Inv, Table, EntryIsServed
<1>10. Waiting'
  BY <1>2, <1>6, <1>7 DEF Inv, Table, Waiting
<1>11. Room'
  <2>1. Counting' \subseteq Counting
    BY <1>6, <1>7 DEF Counting
  <2> QED BY <1>2, <2>1, RoomStays DEF Inv, TypeOK
<1> QED BY <1>4, <1>8, <1>9, <1>10, <1>11 DEF Inv, Table

\* Close, Sweep, Midnight, Break and stuttering.
LEMMA RestInv ==
    ASSUME Inv,
           Close \/ Sweep \/ Midnight \/ (\E l \in Links : Break(l)) \/ UNCHANGED vars
    PROVE  Inv'
<1>1. UNCHANGED <<dailyBytes, handler, owner>>
  BY DEF Close, Sweep, Midnight, Break, vars, server
<1>2. Room'
  BY <1>1 DEF Inv, Room, Counting
<1>3. TypeOK'
  BY DEF Inv, TypeOK, Close, Sweep, Midnight, Break, vars, server, device
<1>4. CASE Sweep
  <2>1. \A l \in Links : l \in serverEnd' =>
            l \in serverEnd /\ \A d \in Devices : conns[d] # l
    BY <1>4 DEF Sweep
  <2>2. RegisteredIsReachable'
    BY <1>1, <2>1 DEF Inv, TypeOK, Table, RegisteredIsReachable
  <2>3. EntryIsServed'
    BY <1>4 DEF Sweep, EntryIsServed
  <2>4. Waiting'
    BY <1>1, <1>4, NoLinkAssumption
    DEF Inv, TypeOK, Table, Waiting, EntryIsServed, Sweep, Serving
  <2> QED BY <1>2, <1>3, <2>2, <2>3, <2>4 DEF Inv, Table
<1>5. CASE ~Sweep
  <2>1. UNCHANGED <<conns, serverEnd>>
    BY <1>5 DEF Close, Midnight, Break, vars, server
  <2>2. Table'
    BY <1>1, <2>1 DEF Inv, Table, Waiting, RegisteredIsReachable, EntryIsServed
  <2> QED BY <1>2, <1>3, <2>2 DEF Inv
<1> QED BY <1>4, <1>5

LEMMA NextInv == Inv /\ [Next]_vars => Inv'
<1> SUFFICES ASSUME Inv, [Next]_vars PROVE Inv'
  OBVIOUS
<1>1. ASSUME NEW l \in Links, Handle(l) \/ Receive(l) \/ ReadBreaks(l) PROVE Inv'
  BY <1>1, AdmitInv, RegisterInv, GiveUpInv, ReadInv, ValidateInv, CountInv, LeaveInv
  DEF Handle
<1>2. ASSUME NEW d \in Devices, Engine(d) \/ TimesOut(d) \/ ModeChanges(d) PROVE Inv'
  BY <1>2, DeviceInv DEF Engine, Refused, TimesOut
<1> QED BY <1>1, <1>2, RestInv DEF Next

THEOREM Invariance == Spec => []Inv
  BY InitInv, NextInv, PTL DEF Spec

----------------------------------------------------------------------------
\* The variables keep their types, and a handler that has returned has closed its
\* connection.
THEOREM TypeCorrect == Spec => []TypeOK
<1>1. Inv => TypeOK
  BY DEF Inv
<1> QED BY <1>1, Invariance, PTL

\* Whatever connections of a device come and go, a registered one that is open is
\* the one packets for the device are sent on, and they are sent on no other.
THEOREM TableHolds == Spec => []TableIsRight
<1>1. Inv => TableIsRight
  BY DEF Inv, Table, TableIsRight
<1> QED BY <1>1, Invariance, PTL

\* The quota is exceeded by less than one packet for each connection.
THEOREM WithinQuota == Spec => []QuotaBounded
<1>1. Inv => QuotaBounded
  BY CountingSize, QuotaAssumption DEF Inv, TypeOK, Room, QuotaBounded
<1> QED BY <1>1, Invariance, PTL

----------------------------------------------------------------------------
(* After Close.                                                            *)

\* Once Close has swept the table, a handler that is not at the top of its loop or
\* past it has lost its connection, and reads no more from it.
Drained ==
    closed = "swept" =>
        \A l \in Links : handler[l] \in {"read", "packet", "count"} => l \notin serverEnd

\* An entry of the swept table is one a handler has made after the sweep, and that
\* handler finds out at the top of its loop.
LateEntriesGo ==
    closed = "swept" =>
        \A d \in Devices : conns[d] # NoLink => handler[conns[d]] \in {"loop", "leaving"}

\* A closed server does not read packets, nor does it open again.
NothingAfterClose ==
    closed = "swept" => closed' = "swept" /\ \A l \in Links : ~Receive(l)

\* Sweep itself: what is registered and open is in the table, so that none of it
\* is missed; a handler that registers later comes to the top of its loop first.
LEMMA DrainedStays == Inv /\ Drained /\ [Next]_vars => Drained'
<1> SUFFICES ASSUME Inv, Drained, [Next]_vars, closed' = "swept",
                    NEW l \in Links, handler'[l] \in {"read", "packet", "count"},
                    l \in serverEnd'
             PROVE  FALSE
  BY DEF Drained
<1>1. CASE Sweep
  <2>1. handler[l] \in Serving /\ l \in serverEnd /\ \A d \in Devices : conns[d] # l
    BY <1>1 DEF Sweep, Serving
  <2>2. conns[owner[l]] = l /\ owner[l] \in Devices
    BY <2>1 DEF Inv, TypeOK, Table, RegisteredIsReachable
  <2> QED BY <2>1, <2>2
<1>2. ASSUME closed = "swept", NEW m \in Links,
             Handle(m) \/ Receive(m) \/ ReadBreaks(m) \/ Break(m)
      PROVE  FALSE
  <2>1. l \in serverEnd
    BY <1>2 DEF Handle, Admit, Register, GiveUp, Loop, Receive, ReadEnds, ReadBreaks,
                Validate, Count, Leave, Break, Finished
  <2>2. handler[l] \notin {"read", "packet", "count"}
    BY <1>2, <2>1 DEF Drained
  <2>3. CASE Loop(m)
    BY <1>2, <2>2, <2>3 DEF Loop, Stopping, Go, Inv, TypeOK
  <2>4. CASE Admit(m) \/ Register(m) \/ GiveUp(m) \/ ReadEnds(m) \/ Leave(m) \/ ReadBreaks(m)
    BY <2>2, <2>4 DEF Admit, Register, GiveUp, ReadEnds, Leave, ReadBreaks, Go, Inv, TypeOK
  <2>5. CASE Receive(m) \/ Validate(m) \/ Count(m)
    BY <1>2, <2>1, <2>2, <2>5 DEF Receive, Validate, Count, Go, Inv, TypeOK, Drained
  <2>6. CASE Break(m)
    BY <2>2, <2>6 DEF Break
  <2> QED BY <1>2, <2>3, <2>4, <2>5, <2>6 DEF Handle
<1>3. CASE \E m \in Links : Handle(m) \/ Receive(m) \/ ReadBreaks(m) \/ Break(m)
  <2>1. closed = "swept"
    BY <1>3 DEF Handle, Admit, Register, GiveUp, Loop, Receive, ReadEnds, ReadBreaks,
                Validate, Count, Leave, Break, server
  <2> QED BY <1>2, <1>3, <2>1
<1>4. CASE \E d \in Devices : Engine(d) \/ TimesOut(d) \/ ModeChanges(d)
  <2>1. closed = "swept" /\ UNCHANGED <<handler, serverEnd>>
    BY <1>4 DEF Engine, Dial, ConnectOK, Refused, TimesOut, ConnectFails, ReadLoopEnds,
                ModeChanges, server
  <2> QED BY <2>1 DEF Drained
<1>5. CASE Close \/ Midnight \/ UNCHANGED vars
  <2>1. closed = "swept" /\ UNCHANGED <<handler, serverEnd>>
    BY <1>5 DEF Close, Midnight, vars, server
  <2> QED BY <2>1 DEF Drained
<1> QED BY <1>1, <1>3, <1>4, <1>5 DEF Next

LEMMA DrainedHolds == Spec => []Drained
<1>1. Init => Drained
  BY DEF Init, Drained
<1> QED BY <1>1, DrainedStays, Invariance, PTL DEF Spec

\* However late a handler registers its device, the entry it makes in a table that
\* Close has emptied belongs to a handler that ends at its next look at the flag
\* (tcp_relay.go:207-227): the safety core of ServerStops.
THEOREM ClosedTableEmpties == Spec => []LateEntriesGo
<1>1. Inv /\ Drained => LateEntriesGo
  <2> SUFFICES ASSUME Inv, Drained, closed = "swept", NEW d \in Devices, conns[d] # NoLink
               PROVE  handler[conns[d]] \in {"loop", "leaving"}
    BY DEF LateEntriesGo
  <2>1. /\ conns[d] \in Links /\ conns[d] \in serverEnd
        /\ handler[conns[d]] \in Serving
    BY DEF Inv, TypeOK, Table, EntryIsServed
  <2> QED BY <2>1 DEF Drained, Serving
<1> QED BY <1>1, Invariance, DrainedHolds, PTL

\* No handler takes another packet off its connection once Close has returned,
\* whatever step it had come to when Close was called.
THEOREM ClosedForGood == Spec => [][NothingAfterClose]_vars
<1>1. Inv /\ Drained /\ [Next]_vars => NothingAfterClose
  <2> SUFFICES ASSUME Inv, Drained, [Next]_vars, closed = "swept"
               PROVE  closed' = "swept" /\ \A l \in Links : ~Receive(l)
    BY DEF NothingAfterClose
  <2>1. \A l \in Links : ~Receive(l)
    BY DEF Drained, Receive
  <2>2. closed' = "swept"
    BY DEF Next, Handle, Admit, Register, GiveUp, Loop, Receive, ReadEnds, ReadBreaks,
           Validate, Count, Leave, Break, Engine, Dial, ConnectOK, Refused, TimesOut,
           ConnectFails, ReadLoopEnds, ModeChanges, Close, Sweep, Midnight, vars, server
  <2> QED BY <2>1, <2>2
<1> QED BY <1>1, Invariance, DrainedHolds, PTL DEF Spec
=============================================================================
