----------------------------- MODULE TcpDirect ------------------------------
(***************************************************************************)
(* Two TCPDirectManagers of internal/network/tcpholepunch.go, one on each  *)
(* of two peers, dialling each other: ConnectPeerForce, the handlers       *)
(* acceptLoop starts, the reader goroutine RegisterConn leaves behind and  *)
(* Close, with every stream that can exist between the two at once.        *)
(*                                                                         *)
(* A definition that nothing below uses is a fault the code could have had *)
(* in the definition it stands before.                                     *)
(***************************************************************************)
EXTENDS Naturals

CONSTANTS Nodes,     \* the two peers
          NoConn,    \* no entry in m.conns
          MaxDials   \* bound: calls of ConnectPeer that get past its checks

Dials == 1 .. MaxDials
Conns == Dials    \* the stream of a dial bears its number

ASSUME TcpAssumption ==
  /\ \E m, n \in Nodes : m # n /\ Nodes = {m, n}
  /\ MaxDials \in Nat
  /\ NoConn \notin Nodes \union 0 .. MaxDials

Other(n) == CHOOSE m \in Nodes : m # n

VARIABLES
  conns,       \* m.conns, for the other peer
  connecting,  \* m.connecting: no entry, an entry, one older than 25 seconds
  backoff,     \* an entry of m.dialBackoff lies in the future
  mgr,         \* how far Close has come
  dial,        \* the calls of ConnectPeerForce
  end,         \* each stream's end at each peer
  server,      \* the peer that plays the server in a stream's handshake
  told         \* streams on which the server has sent its identifier

tabVars == <<conns, connecting, backoff, mgr>>
netVars == <<end, server, told>>
vars == <<tabVars, dial, netVars>>

NoDial == [by |-> NoConn, pc |-> "none", conn |-> 0]

Init ==
  /\ conns = [n \in Nodes |-> NoConn]
  /\ connecting = [n \in Nodes |-> "no"]
  /\ backoff = [n \in Nodes |-> FALSE]
  /\ mgr = [n \in Nodes |-> "up"]
  /\ dial = [d \in Dials |-> NoDial]
  /\ end = [c \in Conns |-> [n \in Nodes |-> "none"]]
  /\ server = [c \in Conns |-> NoConn]
  /\ told = {}

HasConn(n) == conns[n] # NoConn
Goto(d, pc) == dial' = [dial EXCEPT ![d].pc = pc]

-----------------------------------------------------------------------------
(* ConnectPeerForce                                                        *)

(* A user's reconnect forces the dial through a backoff.                   *)
Start(d, n, force) ==
  /\ dial[d].pc = "none" /\ \A e \in 1 .. d - 1 : dial[e].pc # "none"
  /\ ~HasConn(n) /\ connecting[n] # "fresh" /\ (force \/ ~backoff[n])
  /\ connecting' = [connecting EXCEPT ![n] = "fresh"]
  /\ dial' = [dial EXCEPT ![d] = [by |-> n, pc |-> "dial", conn |-> 0]]
  /\ UNCHANGED <<conns, backoff, mgr, netVars>>

(* A stream begins, attended to at some of its ends, with s as its server. *)
Opens(c, attended, s) ==
  /\ end' = [end EXCEPT ![c] = [m \in Nodes |-> IF m \in attended THEN "shake" ELSE "lost"]]
  /\ server' = [server EXCEPT ![c] = s]

(* A dial is under way, and Close shuts the other peer's listener last.    *)
Reaches(n) == mgr[n] = "up" /\ mgr[Other(n)] # "down"

(* A dial reaches the other peer's listener.                               *)
Connects(d) ==
  /\ dial[d].pc = "dial" /\ Reaches(dial[d].by)
  /\ dial' = [dial EXCEPT ![d].pc = "check", ![d].conn = d]
  /\ Opens(d, Nodes, Other(dial[d].by))
  /\ UNCHANGED <<tabVars, told>>

(* Two dials from the listening ports meet, or d's reaches the temporary   *)
(* listener of e's call: one stream, taken by both calls, the handshake's  *)
(* tie-break deciding who is the server.                                   *)
MeetsDial(d, e) ==
  /\ dial[d].pc = "dial" /\ dial[e].pc = "dial"
  /\ dial[d].by # dial[e].by
  /\ \A n \in Nodes : mgr[n] = "up"
  /\ dial' = [dial EXCEPT ![d].pc = "check", ![d].conn = d,
                          ![e].pc = "check", ![e].conn = d]
  /\ \E n \in Nodes : Opens(d, Nodes, n)
  /\ UNCHANGED <<tabVars, told>>

(* A call's temporary listener accepts d's dial, but the call takes its    *)
(* own or gives up: nobody reads the connection or closes it.              *)
AcceptedInVain(d) ==
  LET n == dial[d].by IN
  /\ dial[d].pc = "dial" /\ Reaches(n)
  /\ \E e \in Dials : dial[e].by = Other(n) /\ dial[e].pc \in {"dial", "check"}
  /\ dial' = [dial EXCEPT ![d].pc = "check", ![d].conn = d]
  /\ Opens(d, {n}, Other(n))
  /\ UNCHANGED <<tabVars, told>>

(* The call has taken what its temporary listener accepted, and its own    *)
(* dial, which goes on until the call returns, connects after all.         *)
ConnectsInVain(d) ==
  LET n == dial[d].by IN
  /\ dial[d].pc \in {"check", "shake"} /\ dial[d].conn # d /\ Reaches(n)
  /\ \A m \in Nodes : end[d][m] = "none"
  /\ Opens(d, {Other(n)}, Other(n))
  /\ UNCHANGED <<tabVars, dial, told>>

(* Before each further way of dialling the table is looked at again.       *)
NoLongerNeeded(d) ==
  /\ dial[d].pc \in {"dial", "failed"} /\ HasConn(dial[d].by)
  /\ Goto(d, "leave")
  /\ UNCHANGED <<tabVars, netVars>>

EveryWayFails(d) ==
  /\ dial[d].pc = "dial"
  /\ Goto(d, "failed")
  /\ UNCHANGED <<tabVars, netVars>>

FailedAlone(d) ==
  /\ dial[d].pc = "failed" /\ ~HasConn(dial[d].by)
  /\ Goto(d, "penalty")
  /\ UNCHANGED <<tabVars, netVars>>

(* dialFailures only sets how long the backoff lasts.                      *)
BacksOff(d) ==
  /\ dial[d].pc = "penalty"
  /\ backoff' = [backoff EXCEPT ![dial[d].by] = TRUE]
  /\ Goto(d, "leave")
  /\ UNCHANGED <<conns, connecting, mgr, netVars>>

ReturnsAtOnce(d) ==
  LET n == dial[d].by IN
  /\ dial[d].pc = "check"
  /\ IF HasConn(n)
     THEN end' = [end EXCEPT ![dial[d].conn][n] = "gone"] /\ Goto(d, "left")
     ELSE UNCHANGED end /\ Goto(d, "shake")
  /\ UNCHANGED <<tabVars, server, told>>

(* The last look at the table before the handshake.                        *)
Check(d) ==
  LET n == dial[d].by IN
  /\ dial[d].pc = "check"
  /\ IF HasConn(n)
     THEN end' = [end EXCEPT ![dial[d].conn][n] = "gone"] /\ Goto(d, "leave")
     ELSE UNCHANGED end /\ Goto(d, "shake")
  /\ UNCHANGED <<tabVars, server, told>>

(* The deferred delete, whoever's entry it is by now.                      *)
Leave(d) ==
  /\ dial[d].pc = "leave"
  /\ connecting' = [connecting EXCEPT ![dial[d].by] = "no"]
  /\ Goto(d, "left")
  /\ UNCHANGED <<conns, backoff, mgr, netVars>>

(* A call that needs every timeout of its dials and its handshake takes    *)
(* more than 25 seconds.                                                   *)
Ages(n) ==
  /\ connecting[n] = "fresh"
  /\ \E d \in Dials : dial[d].by = n /\ dial[d].pc = "shake"
  /\ connecting' = [connecting EXCEPT ![n] = "stale"]
  /\ UNCHANGED <<conns, backoff, mgr, dial, netVars>>

(* Its time is up, or ResetDialBackoff is called.                          *)
BackoffEnds(n) ==
  /\ backoff[n]
  /\ backoff' = [backoff EXCEPT ![n] = FALSE]
  /\ UNCHANGED <<conns, connecting, mgr, dial, netVars>>

-----------------------------------------------------------------------------
(* The handshake, in ConnectPeerForce and in acceptLoop's handler          *)

(* The dial whose call works on this end, if the peer dialled the stream.  *)
DialOf(c, n) == {d \in Dials : dial[d].by = n /\ dial[d].conn = c}
AtWork(c, n) == \A d \in DialOf(c, n) : dial[d].pc = "shake"
CallReturns(c, n) ==
  dial' = [d \in Dials |->
             IF d \in DialOf(c, n) THEN [dial[d] EXCEPT !.pc = "leave"]
                                   ELSE dial[d]]

(* The server answers the client's identifier with its own.                *)
ServerAnswers(c, n) ==
  /\ server[c] = n /\ end[c][n] = "shake" /\ AtWork(c, n)
  /\ end[c][Other(n)] = "shake" /\ AtWork(c, Other(n))
  /\ end' = [end EXCEPT ![c][n] = "answered"]
  /\ told' = told \union {c}
  /\ UNCHANGED <<tabVars, dial, server>>

Agreed(c, n) ==
  IF server[c] = n THEN end[c][n] = "answered"
                   ELSE end[c][n] = "shake" /\ c \in told

OldClosed(n) ==
  IF HasConn(n) THEN [end EXCEPT ![conns[n]][n] = "shut"] ELSE end

(* RegisterConn closes the stream it replaces; its reader notices later.   *)
RegisterConn(c, n) ==
  /\ AtWork(c, n) /\ Agreed(c, n)
  /\ end' = [OldClosed(n) EXCEPT ![c][n] = "read"]
  /\ conns' = [conns EXCEPT ![n] = c]
  /\ backoff' = [backoff EXCEPT ![n] = FALSE]
  /\ CallReturns(c, n)
  /\ UNCHANGED <<connecting, mgr, server, told>>

(* A deadline passes or the other end is closed.                           *)
HandshakeFails(c, n) ==
  /\ end[c][n] \in {"shake", "answered"} /\ AtWork(c, n)
  /\ end' = [end EXCEPT ![c][n] = "gone"]
  /\ CallReturns(c, n)
  /\ UNCHANGED <<tabVars, server, told>>

-----------------------------------------------------------------------------
(* The reader goroutine                                                    *)

DeletedAnyway(c, n) == [conns EXCEPT ![n] = NoConn]
Deleted(c, n) == IF conns[n] = c THEN [conns EXCEPT ![n] = NoConn] ELSE conns

ReaderExits(c, n) ==
  /\ end[c][n] \in {"read", "shut"}
  /\ end' = [end EXCEPT ![c][n] = "gone"]
  /\ conns' = Deleted(c, n)
  /\ UNCHANGED <<connecting, backoff, mgr, dial, server, told>>

(* Its own end closed, the other end closed, or m.ctx done.                *)
MustExitDeaf(c, n) == end[c][n] = "shut" \/ mgr[n] # "up"
MustExitBlind(c, n) ==
  end[c][n] = "shut" \/ end[c][Other(n)] \in {"shut", "gone"}
MustExit(c, n) ==
  \/ end[c][n] = "shut"
  \/ end[c][Other(n)] \in {"shut", "gone"}
  \/ mgr[n] # "up"

ReaderEnds(c, n)  == MustExit(c, n) /\ ReaderExits(c, n)
(* A reset, a bad frame, three silent periods of 35 seconds.               *)
StreamBreaks(c, n) == ~MustExit(c, n) /\ ReaderExits(c, n)

-----------------------------------------------------------------------------
(* Close                                                                   *)

CloseCancels(n) ==
  /\ mgr[n] = "up"
  /\ mgr' = [mgr EXCEPT ![n] = "cancelled"]
  /\ UNCHANGED <<conns, connecting, backoff, dial, netVars>>

Kept(n) == conns
Emptied(n) == [conns EXCEPT ![n] = NoConn]

CloseStreams(n) ==
  /\ mgr[n] = "cancelled"
  /\ mgr' = [mgr EXCEPT ![n] = "down"]
  /\ end' = OldClosed(n)
  /\ conns' = Emptied(n)
  /\ UNCHANGED <<connecting, backoff, dial, server, told>>

-----------------------------------------------------------------------------
DialStep(d) ==
  \/ Connects(d) \/ AcceptedInVain(d)
  \/ \E e \in Dials : MeetsDial(d, e) \/ MeetsDial(e, d)
  \/ NoLongerNeeded(d) \/ EveryWayFails(d) \/ FailedAlone(d) \/ BacksOff(d)
  \/ Check(d) \/ Leave(d)

Shake(c, n) ==
  ServerAnswers(c, n) \/ RegisterConn(c, n) \/ HandshakeFails(c, n)

Next ==
  \/ \E d \in Dials : DialStep(d) \/ ConnectsInVain(d)
  \/ \E d \in Dials, n \in Nodes, force \in BOOLEAN : Start(d, n, force)
  \/ \E c \in Conns, n \in Nodes :
       Shake(c, n) \/ ReaderEnds(c, n) \/ StreamBreaks(c, n)
  \/ \E n \in Nodes : Ages(n) \/ BackoffEnds(n) \/ CloseCancels(n) \/ CloseStreams(n)

(* Dials and handshakes have deadlines, and the runtime runs a goroutine   *)
(* that can go on.  A new dial, a second connection, a broken stream,      *)
(* Close, and the end of a backoff need not come.                          *)
Fairness ==
  /\ \A d \in Dials : WF_vars(DialStep(d))
  /\ \A c \in Conns, n \in Nodes : WF_vars(Shake(c, n)) /\ WF_vars(ReaderEnds(c, n))
  /\ \A n \in Nodes : WF_vars(CloseStreams(n))

Spec == Init /\ [][Next]_vars /\ Fairness

-----------------------------------------------------------------------------
(* Properties                                                              *)

Ends == {"none", "lost", "shake", "answered", "read", "shut", "gone"}
Calls == [by : Nodes \union {NoConn}, conn : 0 .. MaxDials,
          pc : {"none", "dial", "failed", "penalty", "check",
                "shake", "leave", "left"}]

TypeOK ==
  /\ conns \in [Nodes -> Conns \union {NoConn}]
  /\ connecting \in [Nodes -> {"no", "fresh", "stale"}]
  /\ backoff \in [Nodes -> BOOLEAN]
  /\ mgr \in [Nodes -> {"up", "cancelled", "down"}]
  /\ dial \in [Dials -> Calls]
  /\ end \in [Conns -> [Nodes -> Ends]]
  /\ server \in [Conns -> Nodes \union {NoConn}]
  /\ told \subseteq Conns

(* The stream SendPacket finds in the table is open on this side and has   *)
(* its reader: no entry outlives the stream it names.                      *)
TableIsRead == \A n \in Nodes : HasConn(n) => end[conns[n]][n] = "read"

(* An open stream with a reader is in the table: no stream delivers        *)
(* packets that HasConn, ListConns and Close know nothing of.              *)
NoOrphanStream ==
  \A c \in Conns, n \in Nodes : end[c][n] = "read" => conns[n] = c

(* A stream registered on one side only does not stay so: the other side   *)
(* registers it too or this side drops it, whichever streams the two peers *)
(* open and close across each other in the meantime.                       *)
HalfOpenHeals ==
  \A c \in Conns, n \in Nodes :
    conns[n] = c ~> (conns[n] # c \/ conns[Other(n)] = c)

(* No call leaves its entry in connecting behind: the next dial is never   *)
(* refused for longer than a dial lasts.                                   *)
DialEntryGoes == \A n \in Nodes : connecting[n] = "fresh" ~> connecting[n] # "fresh"

(* After Close the table is empty for good, although handshakes under way  *)
(* when it was called still register their streams.                        *)
CloseIsFinal == \A n \in Nodes : mgr[n] = "down" ~> [](conns[n] = NoConn)
=============================================================================
