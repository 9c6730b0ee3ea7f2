--------------------------- MODULE SymNatSession ----------------------------
(***************************************************************************)
(* The symmetric-NAT punching sessions of internal/network/                *)
(* sym_nat_session.go as cmd/natbypass/engine.go launches them: one        *)
(* session per unreachable peer, several at a time, all hopping the one    *)
(* socket of the puncher that the connected peers depend on.               *)
(*                                                                         *)
(* A definition that nothing below uses is a fault the code could have had *)
(* in the definition it stands before.                                     *)
(***************************************************************************)
EXTENDS Naturals

CONSTANTS Peers,      \* peers a session may be launched for
          MaxHops,    \* SymmetricNATMaxHops, 5 in the code
          Notifies    \* whether anyone calls NotifySuccess: the engine drops
                      \* the session handle, the doc of Launch expects a call

ASSUME SessionAssumption == MaxHops \in Nat \ {0} /\ Notifies \in BOOLEAN

VARIABLES
  targets,   \* keepAliveTargets: peers connected through the socket
  session,   \* the Run goroutines and the contexts and handles they share
  broken,    \* history: targets whose NAT mapping a hop has destroyed
  newcomers  \* history: targets that connected while a session could hop

vars == <<targets, session, broken, newcomers>>

NoSession == [pc |-> "none", hop |-> 0, canHop |-> FALSE,
              why |-> "live",       \* who was first to cancel sessionCtx
              did |-> 0,            \* how many steps NotifySuccess has taken
              late |-> 0,           \* history: hops after the winner
              found |-> FALSE]      \* what Run returned

Init ==
  /\ targets \in SUBSET Peers
  /\ session = [p \in Peers |-> NoSession]
  /\ broken = {}
  /\ newcomers = {}

Goto(p, pc) == session' = [session EXCEPT ![p].pc = pc]

Running(p) == session[p].pc \notin {"none", "end"}

FirstToCancel(why, who) == IF why = "live" THEN who ELSE why

-----------------------------------------------------------------------------
(* The engine                                                              *)

(* One session per peer: activeSymSessions keeps the peer for 30 seconds,  *)
(* twice the session's timeout, so the last one has ended.                 *)
Launch(p) ==
  /\ ~Running(p)
  /\ p \notin targets
  /\ session' = [session EXCEPT ![p] = [NoSession EXCEPT !.pc = "setup"]]
  /\ UNCHANGED <<targets, broken, newcomers>>

(* LaunchSymmetricNATSession returns at once, and the deferred sCancel of  *)
(* the launching function cancels the session's context.                   *)
DeferredCancel(p) ==
  /\ Running(p)
  /\ session' = [session EXCEPT ![p].why = FirstToCancel(@, "defer")]
  /\ UNCHANGED <<targets, broken, newcomers>>

Timeout(p) ==
  /\ Running(p)
  /\ session' = [session EXCEPT ![p].why = FirstToCancel(@, "timeout")]
  /\ UNCHANGED <<targets, broken, newcomers>>

(* A PONG: the ping callback makes the peer's endpoint a keepalive target, *)
(* through the present socket.                                             *)
PeerConnects(p) ==
  /\ targets' = targets \union {p}
  /\ broken' = broken \ {p}
  /\ newcomers' = IF \E q \in Peers : Running(q) /\ session[q].canHop
                    THEN newcomers \union {p}
                    ELSE IF p \in targets THEN newcomers ELSE newcomers \ {p}
  /\ UNCHANGED session

PeerLeaves(p) ==
  /\ targets' = targets \ {p}
  /\ broken' = broken \ {p}
  /\ newcomers' = newcomers \ {p}
  /\ UNCHANGED session

-----------------------------------------------------------------------------
(* NotifySuccess: stopOnce lets one caller through, which records the      *)
(* winner, fills the channel and cancels; a session whose Run has not      *)
(* stored s.cancel yet is not cancelled.                                   *)

CancelsFirst == <<"cancel", "record", "send">>

NotifyOrder == <<"record", "send", "cancel">>

NextStep(p) == NotifyOrder[session[p].did + 1]
Winner(p) == \E i \in 1 .. session[p].did : NotifyOrder[i] = "record"

NotifySuccess(p) ==
  /\ Notifies
  /\ Running(p) /\ session[p].did < 3
  /\ session' = [session EXCEPT
       ![p].did = @ + 1,
       ![p].why = IF NextStep(p) = "cancel" /\ session[p].pc # "setup"
                    THEN FirstToCancel(@, "notify") ELSE @]
  /\ UNCHANGED <<targets, broken, newcomers>>

-----------------------------------------------------------------------------
(* Run                                                                     *)

(* A recorded winner and a cancelled context each end Run, which returns   *)
(* what is recorded by then; the channel is filled only after the record,  *)
(* so it adds nothing.                                                     *)
Stopped(p) == Winner(p) \/ session[p].why # "live"

Return(p) ==
  session' = [session EXCEPT ![p] = [@ EXCEPT !.pc = "end", !.canHop = FALSE,
                                       !.did = 0, !.found = Winner(p)]]

DecideBlindly == TRUE

(* The local NAT is symmetric; HasActiveDirectTargets is asked once,       *)
(* before the first hop.                                                   *)
MayHop == targets = {}

Setup(p) ==
  /\ session[p].pc = "setup"
  /\ session' = [session EXCEPT ![p].pc = "top", ![p].canHop = MayHop]
  /\ UNCHANGED <<targets, broken, newcomers>>

Unheeded(p) == FALSE

LastRound(p) == session[p].hop = MaxHops

(* What the select at the top of the round sees.                           *)
Heeded(p) == Stopped(p)

(* The port sweep, cut short by a cancelled context, changes no state: a   *)
(* round without a hop goes straight to its pause.                         *)
Top(p) ==
  /\ session[p].pc = "top"
  /\ IF LastRound(p) \/ Heeded(p) THEN Return(p)
     ELSE Goto(p, IF session[p].canHop THEN "hop" ELSE "pause")
  /\ UNCHANGED <<targets, broken, newcomers>>

(* `continue` goes through the loop's hop++.                               *)
SameRound(n) == n
NextRound(n) == n + 1

(* HopPort drops every mapping of the old socket; when it fails to bind    *)
(* the round is over, and the old socket is closed all the same.           *)
Hop(p) ==
  /\ session[p].pc = "hop"
  /\ \E failed \in BOOLEAN :
       session' = [session EXCEPT
                     ![p].pc = IF failed THEN "top" ELSE "pause",
                     ![p].hop = IF failed THEN NextRound(@) ELSE @,
                     ![p].late = IF Winner(p) THEN @ + 1 ELSE @]
  /\ broken' = targets
  /\ UNCHANGED <<targets, newcomers>>

(* The winner is looked at before the select; the timer may be chosen even *)
(* when the context or the channel is ready as well.                       *)
Pause(p) ==
  /\ session[p].pc = "pause"
  /\ \/ Stopped(p) /\ Return(p)
     \/ session' = [session EXCEPT ![p].pc = "top", ![p].hop = NextRound(@)]
  /\ UNCHANGED <<targets, broken, newcomers>>

-----------------------------------------------------------------------------
Run(p) == Setup(p) \/ Top(p) \/ Hop(p) \/ Pause(p)

Next ==
  \E p \in Peers :
    \/ Launch(p) \/ DeferredCancel(p) \/ Timeout(p)
    \/ PeerConnects(p) \/ PeerLeaves(p)
    \/ NotifySuccess(p)
    \/ Run(p)

(* A goroutine that can go on is scheduled: every wait inside Run is on a  *)
(* timer, a bounded HopPort or a bounded DiscoverMappedAddress.  Neither   *)
(* the timeout nor the cancellation is assumed to come.                    *)
Fairness == \A p \in Peers : WF_vars(Run(p))

Spec == Init /\ [][Next]_vars /\ Fairness

-----------------------------------------------------------------------------
(* Properties                                                              *)

Sessions ==
  [pc : {"none", "setup", "top", "hop", "pause", "end"},
   hop : 0 .. MaxHops, canHop : BOOLEAN,
   why : {"live", "defer", "timeout", "notify"},
   did : 0 .. 3, late : Nat, found : BOOLEAN]

TypeOK ==
  /\ targets \subseteq Peers
  /\ broken \subseteq targets
  /\ newcomers \subseteq targets
  /\ session \in [Peers -> Sessions]

(* A peer that was connected before any session decided to hop keeps its   *)
(* mapping through every session: only peers that connect while a hopping  *)
(* session is already under way can lose theirs.                           *)
EstablishedPeersKept == broken \subseteq newcomers

(* Once NotifySuccess has recorded the winner, a session hops at most once *)
(* more: the one hop it had already decided on when it looked.             *)
AtMostOneHopAfterWinner == \A p \in Peers : session[p].late <= 1

(* A session cancelled by its NotifySuccess, and by nothing else first,    *)
(* returns the winner: nobody sees the cancelled context before the recorded address.  *)
SuccessIsReturned ==
  \A p \in Peers :
    session[p].pc = "end" /\ session[p].why = "notify" => session[p].found

(* Every session ends, whether or not anything cancels it.                 *)
SessionsEnd == \A p \in Peers : Running(p) ~> session[p].pc = "end"

(* The engine gives a session 15 seconds and Run documents an empty result *)
(* as "timeout/context cancel": a session that found nobody has used its   *)
(* hops or its time.                                                       *)
SessionRunsItsCourse ==
  \A p \in Peers :
    session[p].pc = "end" /\ ~session[p].found =>
      session[p].hop = MaxHops \/ session[p].why = "timeout"
=============================================================================
