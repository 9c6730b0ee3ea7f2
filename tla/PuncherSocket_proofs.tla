------------------------ MODULE PuncherSocket_proofs ------------------------
(***************************************************************************)
(* For every number of hops and every pool of loops: the puncher leaks no  *)
(* socket, and while it runs its open socket always has a read loop that   *)
(* reads from it or will.                                                  *)
(***************************************************************************)
EXTENDS PuncherSocket, TLAPS

USE PuncherAssumption DEF PuncherAssumption

-----------------------------------------------------------------------------
(* Type correctness                                                        *)

(* No more sockets and contexts than generations.                          *)
Counted == conn <= connID + 1 /\ ctx <= connID + 1 /\ \A c \in dead : c <= ctx

TypeInv == TypeOK /\ Counted

(* A free slot, when there is one, is the slot of a loop that has ended.   *)
LEMMA SlotIdle ==
  ASSUME NEW pool, Idle(pool) # {}
  PROVE  Slot(pool) \in DOMAIN pool /\ pool[Slot(pool)].pc = "none"
<1>1. Slot(pool) \in Idle(pool)
  BY DEF Slot
<1> QED
  BY <1>1 DEF Idle

(* New goroutines are goroutines.                                          *)
LEMMA NewLoops ==
  /\ \A id \in 0 .. MaxHops : NewReader(id) \in ReadLoops /\ NewReader(id).pc = "start"
  /\ \A c \in 0 .. (MaxHops + 1) : NewKeeper(c) \in KeepLoops
  /\ NoReader \in ReadLoops /\ NoKeeper \in KeepLoops
  /\ NoReader.pc = "none" /\ NoKeeper.pc = "none"
<1>1. NoReader \in ReadLoops /\ NoReader.pc = "none"
  BY DEF NoReader, ReadLoops
<1>2. NoKeeper \in KeepLoops /\ NoKeeper.pc = "none"
  BY DEF NoKeeper, KeepLoops
<1>3. ASSUME NEW id \in 0 .. MaxHops
      PROVE  NewReader(id) \in ReadLoops /\ NewReader(id).pc = "start"
  BY <1>1 DEF NewReader, ReadLoops
<1>4. ASSUME NEW c \in 0 .. (MaxHops + 1) PROVE NewKeeper(c) \in KeepLoops
  BY <1>2 DEF NewKeeper, KeepLoops
<1> QED
  BY <1>1, <1>2, <1>3, <1>4

(* The first loops are started with the socket.                            *)
LEMMA TypeInit == Init => TypeInv
<1> SUFFICES ASSUME Init PROVE TypeInv
  OBVIOUS
<1>1. conn = 1 /\ open = {1} /\ connID = 0 /\ ctx = 1 /\ dead = {}
      /\ closer = "idle" /\ late = FALSE
  BY DEF Init
<1>2. reader \in [Readers -> ReadLoops]
  <2> DEFINE none == [g \in Readers |-> NoReader]
  <2>1. none \in [Readers -> ReadLoops] /\ NewReader(0) \in ReadLoops
    BY NewLoops
  <2>2. reader = [none EXCEPT ![Slot(none)] = NewReader(0)]
    BY DEF Init
  <2> HIDE DEF none
  <2> QED
    BY <2>1, <2>2
<1>3. keeper \in [Keepers -> KeepLoops]
  <2> DEFINE none == [g \in Keepers |-> NoKeeper]
  <2>1. none \in [Keepers -> KeepLoops] /\ NewKeeper(1) \in KeepLoops
    BY NewLoops
  <2>2. keeper = [none EXCEPT ![Slot(none)] = NewKeeper(1)]
    BY DEF Init
  <2> HIDE DEF none
  <2> QED
    BY <2>1, <2>2
<1>4. 1 \in 1 .. (MaxHops + 1) /\ 0 \in 0 .. MaxHops
  OBVIOUS
<1>5. open \subseteq 1 .. (MaxHops + 1) /\ dead \subseteq 1 .. (MaxHops + 1)
  BY <1>1, <1>4
<1>6. conn <= connID + 1 /\ ctx <= connID + 1 /\ \A c \in dead : c <= ctx
  BY <1>1
<1>7. closer \in {"idle", "cancelled", "done"} /\ late \in BOOLEAN
  BY <1>1
<1> QED
  BY <1>1, <1>2, <1>3, <1>4, <1>5, <1>6, <1>7 DEF TypeInv, TypeOK, Counted

(* Each step of a loop, a replacement or Close keeps the types.            *)
LEMMA TypeStep == TypeInv /\ [Next]_vars => TypeInv'
<1> SUFFICES ASSUME TypeInv, [Next]_vars PROVE TypeInv'
  OBVIOUS
<1> USE DEF TypeInv, TypeOK, Counted
<1>0. /\ \A r \in Readers : reader[r] \in ReadLoops
      /\ \A k \in Keepers : keeper[k] \in KeepLoops
  OBVIOUS
<1>1. CASE UNCHANGED vars
  BY <1>1 DEF vars, sockVars
<1>2. ASSUME NEW r \in Readers, NEW g \in ReadLoops,
             reader' = [reader EXCEPT ![r] = g],
             UNCHANGED <<sockVars, keeper, closer, late>>
      PROVE  TypeInv'
  BY <1>2 DEF sockVars
<1>3. ASSUME NEW k \in Keepers, NEW g \in KeepLoops,
             keeper' = [keeper EXCEPT ![k] = g],
             UNCHANGED <<sockVars, reader, closer, late>>
      PROVE  TypeInv'
  BY <1>3 DEF sockVars
<1>4. ASSUME NEW r \in Readers, ReadLoop(r) \/ ReadPacket(r) PROVE TypeInv'
  <2> DEFINE fetched == [reader[r] EXCEPT !.pc = "verify", !.sock = conn,
                                          !.id = connID, !.ctx = ctx]
             onward(z) == [reader[r] EXCEPT !.pc = "read", !.id = z, !.ctx = z]
             taken(z) == [reader[r] EXCEPT !.pc = "dispatch", !.sock = z]
             again == [reader[r] EXCEPT !.pc = "start"]
  <2>1. fetched \in ReadLoops
    <3>1. conn \in 0 .. (MaxHops + 1) /\ connID \in 0 .. MaxHops /\ ctx \in 0 .. (MaxHops + 1)
      OBVIOUS
    <3> HIDE DEF TypeInv, TypeOK, Counted
    <3> QED
      BY <1>0, <3>1 DEF ReadLoops
  <2>2. \A z \in 0 .. MaxHops : onward(z) \in ReadLoops /\ taken(z) \in ReadLoops
    <3> SUFFICES ASSUME NEW z \in 0 .. MaxHops
                 PROVE  onward(z) \in ReadLoops /\ taken(z) \in ReadLoops
      OBVIOUS
    <3>1. z \in 0 .. (MaxHops + 1)
      OBVIOUS
    <3> HIDE DEF TypeInv, TypeOK, Counted
    <3>2. onward(z) \in ReadLoops
      BY <1>0, <3>1 DEF ReadLoops
    <3>3. taken(z) \in ReadLoops
      BY <1>0, <3>1 DEF ReadLoops
    <3> QED
      BY <3>2, <3>3
  <2>3. 0 \in 0 .. MaxHops
    OBVIOUS
  <2>4. again \in ReadLoops /\ NoReader \in ReadLoops
    BY <1>0, NewLoops DEF ReadLoops
  <2>5. CASE Fetch(r)
    <3>1. reader' = [reader EXCEPT ![r] = fetched]
      BY <2>5 DEF Fetch
    <3> HIDE DEF fetched, TypeInv
    <3> QED
      BY <1>2, <2>1, <2>5, <3>1 DEF Fetch
  <2>6. CASE Verify(r)
    <3>1. \/ reader' = [reader EXCEPT ![r] = NoReader]
          \/ reader' = [reader EXCEPT ![r] = onward(0)]
      BY <2>6 DEF Verify
    <3>2. onward(0) \in ReadLoops
      BY <2>2, <2>3
    <3> HIDE DEF onward, TypeInv
    <3> QED
      BY <1>2, <2>4, <2>6, <3>1, <3>2 DEF Verify
  <2>7. CASE ReadClosed(r)
    BY <1>2, <2>4, <2>7 DEF ReadClosed
  <2>8. CASE ReadPacket(r)
    <3>1. reader' = [reader EXCEPT ![r] = taken(0)]
      BY <2>8 DEF ReadPacket
    <3>2. taken(0) \in ReadLoops
      BY <2>2, <2>3
    <3> HIDE DEF taken, TypeInv
    <3> QED
      BY <1>2, <2>8, <3>1, <3>2 DEF ReadPacket
  <2>9. CASE Dispatched(r)
    <3>1. reader' = [reader EXCEPT ![r] = again]
      BY <2>9 DEF Dispatched
    <3> HIDE DEF again, TypeInv
    <3> QED
      BY <1>2, <2>4, <2>9, <3>1 DEF Dispatched
  <2> QED
    BY <1>4, <2>5, <2>6, <2>7, <2>8, <2>9 DEF ReadLoop
<1>5. ASSUME NEW k \in Keepers, KeepLoop(k) \/ TimerFires(k) PROVE TypeInv'
  <2> DEFINE turn(pc, c) == [keeper[k] EXCEPT !.pc = pc, !.ctx = c]
  <2>1. \A pc \in {"arm", "wait", "send"}, c \in 0 .. (MaxHops + 1) :
          turn(pc, c) \in KeepLoops
    BY <1>0 DEF KeepLoops
  <2>2. NoKeeper \in KeepLoops /\ 0 \in 0 .. (MaxHops + 1) /\ ctx \in 0 .. (MaxHops + 1)
    BY NewLoops
  <2>3. \/ keeper' = [keeper EXCEPT ![k] = NoKeeper]
        \/ \E pc \in {"arm", "wait", "send"}, c \in 0 .. (MaxHops + 1) :
             keeper' = [keeper EXCEPT ![k] = turn(pc, c)]
    <3>1. CASE Arm(k)
      <4>1. keeper' = [keeper EXCEPT ![k] = turn("wait", ctx)]
        BY <3>1 DEF Arm
      <4> QED
        BY <2>2, <4>1
    <3>2. CASE CtxDone(k)
      BY <3>2 DEF CtxDone
    <3>3. CASE Sent(k)
      <4>1. keeper' = [keeper EXCEPT ![k] = turn("arm", 0)]
        BY <3>3 DEF Sent
      <4> QED
        BY <2>2, <4>1
    <3>4. CASE TimerFires(k)
      <4>1. PICK pc \in {"send", "arm"} : keeper' = [keeper EXCEPT ![k] = turn(pc, 0)]
        BY <3>4 DEF TimerFires
      <4> QED
        BY <2>2, <4>1
    <3> QED
      BY <1>5, <3>1, <3>2, <3>3, <3>4 DEF KeepLoop
  <2>4. UNCHANGED <<sockVars, reader, closer, late>>
    BY <1>5 DEF KeepLoop, Arm, CtxDone, Sent, TimerFires
  <2> HIDE DEF turn, TypeInv
  <2> QED
    BY <1>3, <2>1, <2>2, <2>3, <2>4
<1>6. ASSUME GoReadLoop, connID' \in 0 .. MaxHops PROVE reader' \in [Readers -> ReadLoops]
  BY <1>6, SlotIdle, NewLoops DEF GoReadLoop
<1>7. ASSUME GoKeepAlive, ctx' \in 0 .. (MaxHops + 1) PROVE keeper' \in [Keepers -> KeepLoops]
  BY <1>7, SlotIdle, NewLoops DEF GoKeepAlive
<1>8. CASE StartKeepAliveLoop
  BY <1>7, <1>8 DEF StartKeepAliveLoop, sockVars
<1>9. CASE HopPort
  <2>1. connID' \in 0 .. MaxHops /\ ctx' \in 1 .. (MaxHops + 1) /\ ctx' \in 0 .. (MaxHops + 1)
    BY <1>9 DEF HopPort
  <2>2. reader' \in [Readers -> ReadLoops] /\ keeper' \in [Keepers -> KeepLoops]
    BY <1>6, <1>7, <1>9, <2>1 DEF HopPort
  <2>3. /\ conn' \in 1 .. (MaxHops + 1) /\ open' \subseteq 1 .. (MaxHops + 1)
        /\ conn' <= connID' + 1
    <3>1. connID \in 0 .. MaxHops /\ connID < MaxHops /\ connID' = connID + 1
      BY <1>9 DEF HopPort
    <3>2. connID + 2 \in 1 .. (MaxHops + 1)
      BY <3>1
    <3>3. OldClosed \subseteq 1 .. (MaxHops + 1)
      BY DEF OldClosed
    <3>4. CASE conn' = connID + 2 /\ open' = OldClosed \union {connID + 2}
      BY <3>1, <3>2, <3>3, <3>4
    <3>5. CASE conn' = conn /\ open' = OldClosed
      BY <3>1, <3>3, <3>5
    <3> QED
      BY <1>9, <3>4, <3>5 DEF HopPort
  <2>4. dead' \subseteq 1 .. (MaxHops + 1) /\ \A c \in dead' : c <= ctx'
    BY <1>9 DEF HopPort
  <2>5. ctx' <= connID' + 1 /\ closer' \in {"idle", "cancelled", "done"} /\ late' \in BOOLEAN
    BY <1>9 DEF HopPort
  <2> QED
    BY <2>1, <2>2, <2>3, <2>4, <2>5
<1>10. CASE ResetSocket
  <2>1. connID' \in 0 .. MaxHops
    BY <1>10 DEF ResetSocket
  <2>2. reader' \in [Readers -> ReadLoops]
    BY <1>6, <1>10, <2>1 DEF ResetSocket
  <2> QED
    BY <1>10, <2>1, <2>2 DEF ResetSocket, OldClosed
<1>11. CASE CloseCancels
  BY <1>11 DEF CloseCancels
<1>12. CASE CloseSocket
  BY <1>12 DEF CloseSocket, OldClosed
<1> QED
  BY <1>1, <1>4, <1>5, <1>8, <1>9, <1>10, <1>11, <1>12 DEF Next

(* The variables always have their types.                                  *)
THEOREM TypeCorrect == Spec => []TypeOK
<1>1. TypeInv => TypeOK
  BY DEF TypeInv
<1> QED
  BY <1>1, TypeInit, TypeStep, PTL DEF Spec

-----------------------------------------------------------------------------
(* The open socket is served                                               *)

(* The context of a puncher that is not being closed is alive.             *)
CtxAlive == closer = "idle" => ctx \notin dead

(* A loop whose generation is the present one holds the present socket and *)
(* context: what getConn reads, it reads together.                         *)
FetchedTogether ==
  \A r \in Readers :
    reader[r].pc = "verify" /\ reader[r].id = connID
      => reader[r].ctx = ctx /\ reader[r].sock = conn

(* No loop is ahead of the puncher's generation.                           *)
NoneAhead == \A r \in Readers : reader[r].id <= connID

ServedInv ==
  /\ TypeInv /\ OnlyCurrentOpen /\ SocketIsServed
  /\ CtxAlive /\ FetchedTogether /\ NoneAhead

(* A step of one read loop that leaves it heading for the socket, or finds *)
(* it not heading there, leaves the socket served.                         *)
LEMMA OneLoop ==
  ASSUME ServedInv, NEW r \in Readers, NEW g \in ReadLoops,
         reader' = [reader EXCEPT ![r] = g],
         UNCHANGED <<sockVars, closer>>,
         closer = "idle" /\ conn \in open /\ Heading(reader[r]) => Heading(g),
         g.pc = "verify" /\ g.id = connID => g.ctx = ctx /\ g.sock = conn,
         g.id <= connID
  PROVE  (OnlyCurrentOpen /\ SocketIsServed /\ CtxAlive /\ FetchedTogether /\ NoneAhead)'
<1>1. reader \in [Readers -> ReadLoops]
  BY DEF ServedInv, TypeInv, TypeOK
<1>2. reader'[r] = g /\ \A q \in Readers \ {r} : reader'[q] = reader[q]
  BY <1>1
<1>3. OnlyCurrentOpen' /\ CtxAlive'
  BY DEF ServedInv, OnlyCurrentOpen, CtxAlive, sockVars
<1>4. FetchedTogether' /\ NoneAhead'
  BY <1>2 DEF ServedInv, FetchedTogether, NoneAhead, sockVars
<1>5. SocketIsServed'
  <2> SUFFICES ASSUME closer = "idle", conn \in open
               PROVE  \E q \in Readers : Heading(reader[q])'
    BY DEF SocketIsServed, sockVars
  <2>1. PICK q \in Readers : Heading(reader[q])
    BY DEF ServedInv, SocketIsServed
  <2>2. CASE q = r
    BY <1>2, <2>1, <2>2 DEF Heading, sockVars
  <2>3. CASE q # r
    BY <1>2, <2>1, <2>3 DEF Heading, sockVars
  <2> QED
    BY <2>2, <2>3
<1> QED
  BY <1>3, <1>4, <1>5

(* go p.readLoop() after a replacement serves the new socket: the loops of *)
(* the old one are behind the new generation.                              *)
LEMMA NewLoopServes ==
  ASSUME ServedInv, connID' \in 0 .. MaxHops, connID' > connID, GoReadLoop
  PROVE  (SocketIsServed /\ FetchedTogether /\ NoneAhead)'
<1>1. reader \in [Readers -> ReadLoops] /\ connID \in 0 .. MaxHops
  BY DEF ServedInv, TypeInv, TypeOK
<1>2. Slot(reader) \in Readers
  BY <1>1, SlotIdle DEF GoReadLoop
<1>3. PICK g \in ReadLoops : g = NewReader(connID') /\ g.pc = "start"
  BY NewLoops
<1>4. reader'[Slot(reader)] = g /\ \A q \in Readers \ {Slot(reader)} : reader'[q] = reader[q]
  BY <1>1, <1>2, <1>3 DEF GoReadLoop
<1>5. SocketIsServed'
  BY <1>2, <1>3, <1>4 DEF SocketIsServed, Heading
<1>6. g.id = 0
  BY <1>3 DEF NewReader, NoReader
<1>7. \A q \in Readers : reader[q].id \in 0 .. MaxHops /\ reader[q].id <= connID
  BY <1>1 DEF ReadLoops, ServedInv, NoneAhead
<1>8. NoneAhead' /\ \A q \in Readers : reader'[q].pc = "verify" => reader'[q].id # connID'
  BY <1>1, <1>3, <1>4, <1>6, <1>7 DEF NoneAhead
<1>9. FetchedTogether'
  BY <1>8 DEF FetchedTogether
<1> QED
  BY <1>5, <1>8, <1>9

(* The same when HopPort could not bind: the loops of the old socket are   *)
(* behind, and no socket is open.                                          *)
LEMMA OldLoopsBehind ==
  ASSUME ServedInv, connID' \in 0 .. MaxHops, connID' > connID, UNCHANGED reader
  PROVE  (FetchedTogether /\ NoneAhead)'
<1>1. reader \in [Readers -> ReadLoops] /\ connID \in 0 .. MaxHops
  BY DEF ServedInv, TypeInv, TypeOK
<1>2. \A q \in Readers : reader[q].id \in 0 .. MaxHops /\ reader[q].id <= connID
  BY <1>1 DEF ReadLoops, ServedInv, NoneAhead
<1> QED
  BY <1>1, <1>2 DEF FetchedTogether, NoneAhead

(* The first loop serves the first socket.                                 *)
LEMMA ServedInit == Init => ServedInv
<1> SUFFICES ASSUME Init PROVE ServedInv
  OBVIOUS
<1> DEFINE none == [g \in Readers |-> NoReader]
<1>1. conn = 1 /\ open = {1} /\ connID = 0 /\ ctx = 1 /\ dead = {} /\ closer = "idle"
  BY DEF Init
<1>2. Slot(none) \in Readers
  <2>1. Idle(none) = Readers
    BY NewLoops DEF Idle
  <2>2. PICK r \in Readers : TRUE
    OBVIOUS
  <2> HIDE DEF none
  <2> QED
    BY <2>1, <2>2 DEF Slot
<1>3. reader = [none EXCEPT ![Slot(none)] = NewReader(0)]
  BY DEF Init
<1>4. \A r \in Readers : reader[r] = NewReader(0) \/ reader[r] = NoReader
  BY <1>3
<1>5. reader[Slot(none)] = NewReader(0)
  BY <1>2, <1>3
<1>6. NewReader(0).pc = "start" /\ NoReader.pc = "none"
  BY NewLoops
<1>7. NewReader(0).id = 0 /\ NoReader.id = 0
  BY DEF NewReader, NoReader
<1>8. SocketIsServed
  BY <1>2, <1>5, <1>6 DEF SocketIsServed, Heading
<1>9. FetchedTogether /\ NoneAhead
  BY <1>1, <1>4, <1>6, <1>7 DEF FetchedTogether, NoneAhead
<1>10. OnlyCurrentOpen /\ CtxAlive
  BY <1>1 DEF OnlyCurrentOpen, CtxAlive
<1> QED
  BY <1>8, <1>9, <1>10, TypeInit DEF ServedInv

(* Each step keeps the open socket served.                                 *)
LEMMA ServedStep == ServedInv /\ [Next]_vars => ServedInv'
<1> SUFFICES ASSUME ServedInv, [Next]_vars
             PROVE  (OnlyCurrentOpen /\ SocketIsServed /\ CtxAlive /\ FetchedTogether /\ NoneAhead)'
  BY TypeStep DEF ServedInv
<1> DEFINE Goal == (OnlyCurrentOpen /\ SocketIsServed /\ CtxAlive /\ FetchedTogether /\ NoneAhead)'
<1>0. /\ reader \in [Readers -> ReadLoops] /\ connID \in 0 .. MaxHops
      /\ conn \in 1 .. (MaxHops + 1) /\ ctx \in 1 .. (MaxHops + 1)
      /\ \A c \in dead : c \in 1 .. (MaxHops + 1) /\ c <= ctx
  BY DEF ServedInv, TypeInv, TypeOK, Counted
<1>1. ASSUME UNCHANGED <<sockVars, reader, closer>> PROVE Goal
  BY <1>1 DEF sockVars, ServedInv, OnlyCurrentOpen, SocketIsServed, CtxAlive,
              FetchedTogether, NoneAhead, Heading
<1>2. ASSUME NEW r \in Readers, ReadLoop(r) \/ ReadPacket(r) PROVE Goal
  <2>0. NoReader \in ReadLoops /\ NoReader.pc = "none" /\ NoReader.id = 0
    BY NewLoops DEF NoReader
  <2>1. reader'[r] \in ReadLoops /\ reader' = [reader EXCEPT ![r] = reader'[r]]
    <3>1. reader' \in [Readers -> ReadLoops]
      BY TypeStep DEF ServedInv, TypeInv, TypeOK
    <3>2. \A q \in Readers \ {r} : reader'[q] = reader[q]
      BY <1>0, <1>2 DEF ReadLoop, Fetch, Verify, ReadClosed, ReadPacket, Dispatched
    <3> QED
      BY <1>0, <3>1, <3>2
  <2>2. UNCHANGED <<sockVars, closer>>
    BY <1>2 DEF ReadLoop, Fetch, Verify, ReadClosed, ReadPacket, Dispatched
  <2>3. closer = "idle" /\ conn \in open /\ Heading(reader[r]) => Heading(reader'[r])
    <3>1. CASE Fetch(r)
      BY <1>0, <3>1 DEF Fetch, Heading, ReadLoops
    <3>2. CASE Verify(r)
      <4> SUFFICES ASSUME closer = "idle", Heading(reader[r])
                   PROVE  Heading(reader'[r])
        OBVIOUS
      <4>1. reader[r].pc = "verify" /\ reader[r].id = connID
        BY <3>2 DEF Verify, Heading
      <4>2. reader[r].sock = conn /\ reader[r].ctx \notin dead
        BY <4>1 DEF ServedInv, FetchedTogether, CtxAlive
      <4>3. reader' = [reader EXCEPT ![r] = [@ EXCEPT !.pc = "read", !.id = 0, !.ctx = 0]]
        BY <3>2, <4>1, <4>2 DEF Verify
      <4>4. reader'[r].pc = "read" /\ reader'[r].sock = conn
        BY <1>0, <4>2, <4>3 DEF ReadLoops
      <4> QED
        BY <4>4 DEF Heading
    <3>3. CASE ReadClosed(r)
      BY <3>3 DEF ReadClosed, Heading
    <3>4. CASE ReadPacket(r)
      BY <1>0, <3>4 DEF ReadPacket, Heading, ReadLoops
    <3>5. CASE Dispatched(r)
      BY <1>0, <3>5 DEF Dispatched, Heading, ReadLoops
    <3> QED
      BY <1>2, <3>1, <3>2, <3>3, <3>4, <3>5 DEF ReadLoop
  <2>4. /\ reader'[r].pc = "verify" /\ reader'[r].id = connID
              => reader'[r].ctx = ctx /\ reader'[r].sock = conn
        /\ reader'[r].id <= connID
    <3>0. reader[r].id \in 0 .. MaxHops /\ reader[r].id <= connID
      BY <1>0 DEF ReadLoops, ServedInv, NoneAhead
    <3>1. CASE Fetch(r)
      BY <1>0, <3>1 DEF Fetch, ReadLoops
    <3>2. CASE Verify(r)
      BY <1>0, <2>0, <3>2 DEF Verify, ReadLoops
    <3>3. CASE ReadClosed(r)
      BY <1>0, <2>0, <3>3 DEF ReadClosed
    <3>4. CASE ReadPacket(r)
      BY <1>0, <3>0, <3>4 DEF ReadPacket, ReadLoops
    <3>5. CASE Dispatched(r)
      BY <1>0, <3>0, <3>5 DEF Dispatched, ReadLoops
    <3> QED
      BY <1>2, <3>1, <3>2, <3>3, <3>4, <3>5 DEF ReadLoop
  <2> QED
    BY <2>1, <2>2, <2>3, <2>4, OneLoop
<1>3. CASE HopPort
  <2>1. connID' \in 0 .. MaxHops /\ connID' > connID
    BY <1>0, <1>3 DEF HopPort
  <2>2. CtxAlive'
    BY <1>0, <1>3 DEF HopPort, ServedInv, CtxAlive
  <2>3. OldClosed = {}
    BY DEF OldClosed, ServedInv, OnlyCurrentOpen
  <2>4. CASE conn' = connID + 2 /\ open' = OldClosed \union {connID + 2} /\ GoReadLoop
    BY <2>1, <2>2, <2>3, <2>4, NewLoopServes DEF OnlyCurrentOpen
  <2>5. CASE open' = OldClosed /\ UNCHANGED reader
    BY <2>1, <2>2, <2>3, <2>5, OldLoopsBehind DEF OnlyCurrentOpen, SocketIsServed
  <2> QED
    BY <1>3, <2>4, <2>5 DEF HopPort
<1>4. CASE ResetSocket
  <2>1. connID' \in 0 .. MaxHops /\ connID' > connID
    BY <1>0, <1>4 DEF ResetSocket
  <2>2. OldClosed = {}
    BY DEF OldClosed, ServedInv, OnlyCurrentOpen
  <2> QED
    BY <1>4, <2>1, <2>2, NewLoopServes
    DEF ResetSocket, OnlyCurrentOpen, CtxAlive, ServedInv
<1>5. CASE CloseCancels
  BY <1>5 DEF CloseCancels, ServedInv, OnlyCurrentOpen, SocketIsServed, CtxAlive,
              FetchedTogether, NoneAhead
<1>6. CASE CloseSocket
  BY <1>6 DEF CloseSocket, OldClosed, ServedInv, OnlyCurrentOpen, SocketIsServed,
              CtxAlive, FetchedTogether, NoneAhead
<1>7. ASSUME NEW k \in Keepers, KeepLoop(k) \/ TimerFires(k) PROVE Goal
  BY <1>1, <1>7 DEF KeepLoop, Arm, CtxDone, Sent, TimerFires
<1>8. CASE StartKeepAliveLoop
  BY <1>1, <1>8 DEF StartKeepAliveLoop
<1>9. CASE UNCHANGED vars
  BY <1>1, <1>9 DEF vars
<1> QED
  BY <1>2, <1>3, <1>4, <1>5, <1>6, <1>7, <1>8, <1>9 DEF Next

(* No order of hops, resets and Close leaks a descriptor.                  *)
THEOREM NoLeakedSocket == Spec => []OnlyCurrentOpen
<1>1. ServedInv => OnlyCurrentOpen
  BY DEF ServedInv
<1> QED
  BY <1>1, ServedInit, ServedStep, PTL DEF Spec

(* While the puncher runs, its open socket always has a read loop, however *)
(* many hops and resets overtook the loops started before.                 *)
THEOREM AlwaysServed == Spec => []SocketIsServed
<1>1. ServedInv => SocketIsServed
  BY DEF ServedInv
<1> QED
  BY <1>1, ServedInit, ServedStep, PTL DEF Spec

-----------------------------------------------------------------------------
(* After Close: what ShutdownEndsLoops rests on                            *)

(* Once Close has returned, and unless a hop overtook it, no socket is     *)
(* open and the context that the keepalive loops arm with is cancelled.    *)
NothingOpens == closer = "done" /\ ~late => open = {} /\ ctx \in dead

(* The context stays cancelled between the two steps of Close.             *)
Cancelled == closer # "idle" /\ ~late => ctx \in dead

LEMMA ClosedStep ==
  OnlyCurrentOpen /\ Cancelled /\ NothingOpens /\ [Next]_vars
    => Cancelled' /\ NothingOpens'
<1> SUFFICES ASSUME OnlyCurrentOpen, Cancelled, NothingOpens, [Next]_vars
             PROVE  Cancelled' /\ NothingOpens'
  OBVIOUS
<1>1. ASSUME UNCHANGED <<sockVars, closer, late>>
      PROVE  Cancelled' /\ NothingOpens'
  BY <1>1 DEF sockVars, Cancelled, NothingOpens
<1>2. ASSUME closer' = closer, late' = (late \/ closer # "idle")
      PROVE  Cancelled' /\ NothingOpens'
  BY <1>2 DEF Cancelled, NothingOpens
<1>3. CASE CloseCancels
  BY <1>3 DEF CloseCancels, Cancelled, NothingOpens
<1>4. CASE CloseSocket
  BY <1>4 DEF CloseSocket, OldClosed, OnlyCurrentOpen, Cancelled, NothingOpens
<1>5. ASSUME NEW r \in Readers, ReadLoop(r) \/ ReadPacket(r)
      PROVE  Cancelled' /\ NothingOpens'
  BY <1>1, <1>5 DEF ReadLoop, Fetch, Verify, ReadClosed, ReadPacket, Dispatched
<1>6. ASSUME NEW k \in Keepers, KeepLoop(k) \/ TimerFires(k)
      PROVE  Cancelled' /\ NothingOpens'
  BY <1>1, <1>6 DEF KeepLoop, Arm, CtxDone, Sent, TimerFires
<1>7. CASE StartKeepAliveLoop
  BY <1>1, <1>7 DEF StartKeepAliveLoop
<1>8. CASE HopPort \/ ResetSocket
  BY <1>2, <1>8 DEF HopPort, ResetSocket
<1>9. CASE UNCHANGED vars
  BY <1>1, <1>9 DEF vars
<1> QED BY <1>3, <1>4, <1>5, <1>6, <1>7, <1>8, <1>9 DEF Next

(* Whatever hops, resets and loops Close came between: when it has ended   *)
(* before the next hop, nothing is left open, and no loop can wait again   *)
(* without being woken.                                                    *)
THEOREM CloseLeavesNothing == Spec => []NothingOpens
<1>1. Init => Cancelled /\ NothingOpens
  BY DEF Init, Cancelled, NothingOpens
<1> QED
  BY <1>1, ClosedStep, NoLeakedSocket, PTL DEF Spec

(* From the first step of Close on no loop is started, unless by a hop     *)
(* that overtakes it.                                                      *)
EndedStayEnded ==
  [][closer # "idle" /\ ~late'
       => Idle(reader) \subseteq Idle(reader)' /\ Idle(keeper) \subseteq Idle(keeper)'
    ]_vars

LEMMA EndedStep ==
  TypeOK /\ [Next]_vars
    => [closer # "idle" /\ ~late'
          => Idle(reader) \subseteq Idle(reader)' /\ Idle(keeper) \subseteq Idle(keeper)'
       ]_vars
<1> SUFFICES ASSUME TypeOK, Next, closer # "idle", ~late'
             PROVE  Idle(reader) \subseteq Idle(reader)' /\ Idle(keeper) \subseteq Idle(keeper)'
  OBVIOUS
<1> DEFINE Goal == Idle(reader) \subseteq Idle(reader)' /\ Idle(keeper) \subseteq Idle(keeper)'
<1>1. DOMAIN reader = Readers /\ DOMAIN keeper = Keepers
  BY DEF TypeOK
<1>2. ASSUME NEW r \in Readers, reader[r].pc # "none",
             \E g : reader' = [reader EXCEPT ![r] = g], UNCHANGED keeper
      PROVE  Goal
  BY <1>1, <1>2 DEF Idle
<1>3. ASSUME NEW k \in Keepers, keeper[k].pc # "none",
             \E g : keeper' = [keeper EXCEPT ![k] = g], UNCHANGED reader
      PROVE  Goal
  BY <1>1, <1>3 DEF Idle
<1>4. ASSUME NEW r \in Readers, ReadLoop(r) \/ ReadPacket(r) PROVE Goal
  <2>1. reader[r].pc # "none" /\ UNCHANGED keeper
    BY <1>4 DEF ReadLoop, Fetch, Verify, ReadClosed, ReadPacket, Dispatched
  <2>2. \E g : reader' = [reader EXCEPT ![r] = g]
    BY <1>4 DEF ReadLoop, Fetch, Verify, ReadClosed, ReadPacket, Dispatched
  <2> QED BY <1>2, <2>1, <2>2
<1>5. ASSUME NEW k \in Keepers, KeepLoop(k) \/ TimerFires(k) PROVE Goal
  <2>1. keeper[k].pc # "none" /\ UNCHANGED reader
    BY <1>5 DEF KeepLoop, Arm, CtxDone, Sent, TimerFires
  <2>2. \E g : keeper' = [keeper EXCEPT ![k] = g]
    BY <1>5 DEF KeepLoop, Arm, CtxDone, Sent, TimerFires
  <2> QED BY <1>3, <2>1, <2>2
<1>6. ASSUME UNCHANGED <<reader, keeper>> PROVE Goal
  BY <1>6 DEF Idle
<1>7. CASE CloseCancels \/ CloseSocket
  BY <1>6, <1>7 DEF CloseCancels, CloseSocket
<1>8. ~(StartKeepAliveLoop \/ HopPort \/ ResetSocket)
  BY DEF StartKeepAliveLoop, HopPort, ResetSocket
<1> QED BY <1>4, <1>5, <1>7, <1>8 DEF Next

(* The loops that have ended when Close begins, or while it runs, have     *)
(* ended for good.                                                         *)
THEOREM EndedLoopsStayEnded == Spec => EndedStayEnded
  BY EndedStep, TypeCorrect, PTL DEF Spec, EndedStayEnded
=============================================================================
