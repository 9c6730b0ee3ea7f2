--------------------------- MODULE PuncherSocket ----------------------------
(***************************************************************************)
(* The life of the puncher's IPv4 socket in internal/network/puncher.go:   *)
(* HopPort and ResetSocket replace it while read loops and keepalive loops *)
(* of earlier sockets are still running, and Close ends it.  p.mu makes    *)
(* each replacement one step; a goroutine started by it takes its own      *)
(* steps later.  The socket opened in generation n is number n + 1, and    *)
(* contexts are numbered in order of creation.                             *)
(*                                                                         *)
(* A definition that nothing below uses is a fault the code could have had *)
(* in the definition it stands before.                                     *)
(***************************************************************************)
EXTENDS Naturals, FiniteSets

CONSTANTS Readers,   \* bound: readLoop goroutines that may be alive at once
          Keepers,   \* bound: keepalive goroutines that may be alive at once
          MaxHops    \* bound: calls of HopPort and ResetSocket

ASSUME PuncherAssumption ==
  Readers # {} /\ Keepers # {} /\ MaxHops \in Nat

VARIABLES
  conn,      \* p.conn
  open,      \* sockets not closed
  connID,    \* p.connID
  ctx,       \* p.ctx
  dead,      \* cancelled contexts
  reader,    \* the readLoop goroutines
  keeper,    \* the goroutines of StartKeepAliveLoop
  closer,    \* how far Close has come
  late       \* history: the socket was replaced after Close had begun

sockVars == <<conn, open, connID, ctx, dead>>
vars == <<sockVars, reader, keeper, closer, late>>

NoReader == [pc |-> "none", sock |-> 0, id |-> 0, ctx |-> 0, born |-> 0]
NoKeeper == [pc |-> "none", ctx |-> 0, born |-> 0]

Idle(pool) == {g \in DOMAIN pool : pool[g].pc = "none"}

(* The slot a new goroutine takes: which one is free makes no difference.  *)
Slot(pool) == CHOOSE g \in Idle(pool) : TRUE
NewReader(id) == [NoReader EXCEPT !.pc = "start", !.born = id]
NewKeeper(c) == [NoKeeper EXCEPT !.pc = "arm", !.born = c]

Init ==
  /\ conn = 1 /\ open = {1} /\ connID = 0
  /\ ctx = 1 /\ dead = {}
  /\ LET none == [g \in Readers |-> NoReader]
     IN  reader = [none EXCEPT ![Slot(none)] = NewReader(0)]
  /\ LET none == [g \in Keepers |-> NoKeeper]
     IN  keeper = [none EXCEPT ![Slot(none)] = NewKeeper(1)]
  /\ closer = "idle" /\ late = FALSE

-----------------------------------------------------------------------------
(* readLoop                                                                *)

(* go p.readLoop()                                                         *)
NoReadLoop == UNCHANGED reader
GoReadLoop ==
  /\ Idle(reader) # {}
  /\ reader' = [reader EXCEPT ![Slot(reader)] = NewReader(connID')]

(* The first getConn of a round: socket, context and generation together.  *)
Fetch(r) ==
  /\ reader[r].pc = "start"
  /\ reader' = [reader EXCEPT ![r] =
                  [@ EXCEPT !.pc = "verify", !.sock = conn, !.id = connID,
                            !.ctx = ctx]]
  /\ UNCHANGED <<sockVars, keeper, closer, late>>

(* The context and the generation are checked before blocking in a read.   *)
Verify(r) ==
  /\ reader[r].pc = "verify"
  /\ reader' = [reader EXCEPT ![r] =
                  IF @.ctx \in dead \/ @.id # connID
                  THEN NoReader
                  ELSE [@ EXCEPT !.pc = "read", !.id = 0, !.ctx = 0]]
  /\ UNCHANGED <<sockVars, keeper, closer, late>>

(* ReadFromUDP on a closed socket fails and ends the loop.                 *)
ReadClosed(r) ==
  /\ reader[r].pc = "read"
  /\ reader[r].sock \notin open
  /\ reader' = [reader EXCEPT ![r] = NoReader]
  /\ UNCHANGED <<sockVars, keeper, closer, late>>

ReadPacket(r) ==
  /\ reader[r].pc = "read"
  /\ reader[r].sock \in open
  /\ reader' = [reader EXCEPT ![r].pc = "dispatch", ![r].sock = 0]
  /\ UNCHANGED <<sockVars, keeper, closer, late>>

(* dispatchPacket returns and the loop starts its next round.              *)
Dispatched(r) ==
  /\ reader[r].pc = "dispatch"
  /\ reader' = [reader EXCEPT ![r].pc = "start"]
  /\ UNCHANGED <<sockVars, keeper, closer, late>>

-----------------------------------------------------------------------------
(* StartKeepAliveLoop                                                      *)

GoKeepAlive ==
  /\ Idle(keeper) # {}
  /\ keeper' = [keeper EXCEPT ![Slot(keeper)] = NewKeeper(ctx')]

(* The select statement evaluates p.ctx.Done() anew in every round.        *)
Arm(k) ==
  /\ keeper[k].pc = "arm"
  /\ keeper' = [keeper EXCEPT ![k].pc = "wait", ![k].ctx = ctx]
  /\ UNCHANGED <<sockVars, reader, closer, late>>

DeafWake(k) ==
  /\ keeper[k].pc = "wait"
  /\ keeper[k].ctx \in dead
  /\ keeper' = [keeper EXCEPT ![k].pc = "send", ![k].ctx = 0]
  /\ UNCHANGED <<sockVars, reader, closer, late>>

CtxDone(k) ==
  /\ keeper[k].pc = "wait"
  /\ keeper[k].ctx \in dead
  /\ keeper' = [keeper EXCEPT ![k] = NoKeeper]
  /\ UNCHANGED <<sockVars, reader, closer, late>>

(* The timer fires: keepalives go out, unless probes are disabled.         *)
TimerFires(k) ==
  /\ keeper[k].pc = "wait"
  /\ \E pc \in {"send", "arm"} :
        keeper' = [keeper EXCEPT ![k].pc = pc, ![k].ctx = 0]
  /\ UNCHANGED <<sockVars, reader, closer, late>>

Sent(k) ==
  /\ keeper[k].pc = "send"
  /\ keeper' = [keeper EXCEPT ![k].pc = "arm", ![k].ctx = 0]
  /\ UNCHANGED <<sockVars, reader, closer, late>>

(* mobile/bridge.go calls StartKeepAliveLoop again for the exit peer of a  *)
(* running engine.                                                         *)
StartKeepAliveLoop ==
  /\ closer = "idle"
  /\ UNCHANGED ctx
  /\ GoKeepAlive
  /\ UNCHANGED <<sockVars, reader, closer, late>>

-----------------------------------------------------------------------------
(* Replacing and closing the socket                                        *)

(* The sockets left once the one in use has been closed.                   *)
OldKeptOpen == open
OldClosed == open \ {conn}

(* The bind of a new socket may fail: p.conn is then the closed old one,   *)
(* and no loop is started.                                                 *)
HopPort ==
  /\ connID < MaxHops
  /\ connID' = connID + 1
  /\ dead' = dead \union {ctx}
  /\ ctx' = ctx + 1
  /\ late' = (late \/ closer # "idle")
  /\ UNCHANGED closer
  /\ \/ /\ conn' = connID + 2
        /\ open' = OldClosed \union {connID + 2}
        /\ GoReadLoop
        /\ GoKeepAlive
     \/ /\ open' = OldClosed
        /\ UNCHANGED <<conn, reader, keeper>>

(* ResetSocket binds first: when no bind works the old socket stays.  The  *)
(* context is not replaced.                                                *)
ResetSocket ==
  /\ connID < MaxHops
  /\ connID' = connID + 1
  /\ conn' = connID + 2
  /\ open' = OldClosed \union {connID + 2}
  /\ late' = (late \/ closer # "idle")
  /\ GoReadLoop
  /\ UNCHANGED <<ctx, dead, keeper, closer>>

(* Close cancels the context it finds, then closes the socket it finds.    *)
CloseCancels ==
  /\ closer = "idle"
  /\ dead' = dead \union {ctx}
  /\ closer' = "cancelled"
  /\ UNCHANGED <<conn, open, connID, ctx, reader, keeper, late>>

CloseSocket ==
  /\ closer = "cancelled"
  /\ open' = OldClosed
  /\ closer' = "done"
  /\ UNCHANGED <<conn, connID, ctx, dead, reader, keeper, late>>

-----------------------------------------------------------------------------
ReadLoop(r) == Fetch(r) \/ Verify(r) \/ ReadClosed(r) \/ Dispatched(r)
KeepLoop(k) == Arm(k) \/ CtxDone(k) \/ Sent(k)

Next ==
  \/ \E r \in Readers : ReadLoop(r) \/ ReadPacket(r)
  \/ \E k \in Keepers : KeepLoop(k) \/ TimerFires(k)
  \/ StartKeepAliveLoop
  \/ HopPort \/ ResetSocket \/ CloseCancels \/ CloseSocket

(* A goroutine that can take a step takes one; timers fire.  A select with *)
(* both cases ready picks either, so a loop cannot ignore its cancelled    *)
(* context for ever: strong fairness of CtxDone.  Packets, hops and Close  *)
(* need not come.                                                          *)
Fairness ==
  /\ \A r \in Readers : WF_vars(ReadLoop(r))
  /\ \A k \in Keepers : WF_vars(KeepLoop(k)) /\ SF_vars(CtxDone(k))
  /\ WF_vars(CloseSocket)

Spec == Init /\ [][Next]_vars /\ Fairness

-----------------------------------------------------------------------------
(* Properties                                                              *)

ReadLoops == [pc : {"none", "start", "verify", "read", "dispatch"},
              sock : 0 .. (MaxHops + 1), id : 0 .. MaxHops,
              ctx : 0 .. (MaxHops + 1), born : 0 .. MaxHops]
KeepLoops == [pc : {"none", "arm", "wait", "send"},
              ctx : 0 .. (MaxHops + 1), born : 0 .. (MaxHops + 1)]

TypeOK ==
  /\ conn \in 1 .. (MaxHops + 1) /\ open \subseteq 1 .. (MaxHops + 1)
  /\ connID \in 0 .. MaxHops
  /\ ctx \in 1 .. (MaxHops + 1) /\ dead \subseteq 1 .. (MaxHops + 1)
  /\ reader \in [Readers -> ReadLoops]
  /\ keeper \in [Keepers -> KeepLoops]
  /\ closer \in {"idle", "cancelled", "done"} /\ late \in BOOLEAN

(* A socket that was replaced was closed: no descriptor is leaked by any   *)
(* order of hops, resets and Close.                                        *)
OnlyCurrentOpen == open \subseteq {conn}

(* While the puncher runs, its open socket is never deaf: some read loop   *)
(* blocks on it, or is on its way to it and will pass the generation check *)
(* whatever hops came in between.                                          *)
Heading(g) ==
  \/ g.pc \in {"start", "dispatch"}
  \/ g.pc = "verify" /\ g.id = connID
  \/ g.pc = "read" /\ g.sock = conn
SocketIsServed ==
  closer = "idle" /\ conn \in open => \E r \in Readers : Heading(reader[r])

(* Once Close has returned, and unless a hop overtook it, every loop ends. *)
ShutdownEndsLoops ==
  (closer = "done" /\ ~late)
     ~> (late \/ (Idle(reader) = Readers /\ Idle(keeper) = Keepers))

(* The generation check of readLoop, "if HopPort was called, the old       *)
(* readLoop must exit immediately" (puncher.go:2154), and the reason why   *)
(* HopPort starts a keepalive loop, the "old keepalive goroutine is        *)
(* already dead (it listened on the old cancelled ctx)" (puncher.go:2494): *)
(* no loop serves a socket or waits on a context younger than itself.      *)
OldLoopsExit ==
  /\ \A r \in Readers :
        reader[r].pc = "read" => reader[r].sock <= reader[r].born + 1
  /\ \A k \in Keepers :
        keeper[k].pc = "wait" => keeper[k].ctx = keeper[k].born
=============================================================================
