---------------------------- MODULE PathSelection ---------------------------
(***************************************************************************)
(* How internal/network/magicsock.go chooses the address packets for one   *)
(* peer are sent to: the candidates of a PeerRouteState, their priorities  *)
(* and round-trip times, and the switches between them.  pr.mu makes every *)
(* operation one step.  Time counts in periods of five seconds: a path is  *)
(* fresh until it is 5 seconds old, and dead from 10 seconds on.           *)
(*                                                                         *)
(* A definition that nothing below uses is a fault the code could have had *)
(* in the definition it stands before.                                     *)
(***************************************************************************)
EXTENDS Naturals

CONSTANTS Wan, Cgnat, V6, Private,  \* addresses, by what classifyAddress says
          NoAddr,                   \* ""
          MaxLatency                \* bound: round-trip times, 0 is unknown

Addrs == Wan \union Cgnat \union V6 \union Private

ASSUME PathAssumption == MaxLatency \in Nat /\ NoAddr \notin Addrs

Dead  == 2   \* last success more than 10 seconds ago
Never == 3   \* LastSuccess is zero

VARIABLES
  cand,      \* pr.Candidates
  active,    \* pr.ActiveEndpoint
  kind,      \* pr.ActiveType: "WAN", or anything else
  globalV6   \* HasGlobalIPv6

pathVars == <<cand, active, kind, globalV6>>

NoCand == [known |-> FALSE, priority |-> 5, latency |-> 0, age |-> Never,
           failures |-> 0]

PathInit ==
  /\ cand = [a \in Addrs |-> NoCand]
  /\ active = NoAddr /\ kind = "other"
  /\ globalV6 \in BOOLEAN

(* classifyAddress: a smaller number is a better path.                     *)
Priority(a) ==
  CASE a \in Cgnat -> 2
    [] a \in V6 -> IF globalV6 THEN 2 ELSE 5
    [] a \in Wan -> 3
    [] a \in Private -> 5

Kind(a) == IF a \in Wan THEN "WAN" ELSE "other"

Forgotten(c, as) == c

(* A new candidate for each address that has none.                         *)
Added(c, as) ==
  [a \in Addrs |-> IF a \in as /\ ~c[a].known
                   THEN [NoCand EXCEPT !.known = TRUE, !.priority = Priority(a)]
                   ELSE c[a]]

(* The active path is unconfirmed, or has failed since it last succeeded.  *)
ForgetsHealth(c) == TRUE
Unconfirmed(c) ==
  ~c[active].known \/ c[active].age = Never \/ c[active].failures > 0

-----------------------------------------------------------------------------
(* RegisterPeerEndpoints, through RegisterPeerWithTopology, which promotes *)
(* the local addresses of a peer behind the same router.  Each argument    *)
(* may be "".  An extra candidate is added and never chosen here, so a call *)
(* with one besides other arguments is two calls of the model.             *)
Optional(s) == s \union {NoAddr}

Register(stun, local, six, extra, promoted) ==
  LET c == Added(cand, {stun, local, six, extra} \ {NoAddr})
      useSix == six # NoAddr /\ globalV6
  IN  /\ cand' = [a \in Addrs |-> IF a \in promoted /\ c[a].known
                                  THEN [c[a] EXCEPT !.priority = 1] ELSE c[a]]
      /\ \/ /\ active = NoAddr
            /\ active' = IF useSix THEN six
                         ELSE IF stun # NoAddr THEN stun
                         ELSE IF local # NoAddr /\ Priority(local) < 5 THEN local
                         ELSE NoAddr
            /\ kind' = IF ~useSix /\ stun # NoAddr THEN "WAN"
                       ELSE IF active' = NoAddr THEN kind ELSE Kind(active')
         \/ /\ active # NoAddr /\ kind = "WAN" /\ useSix /\ Unconfirmed(c)
            /\ active' = six /\ kind' = "other"
         \/ /\ active # NoAddr /\ ~(kind = "WAN" /\ useSix /\ Unconfirmed(c))
            /\ UNCHANGED <<active, kind>>
      /\ UNCHANGED globalV6

RegisterPeerWithTopology ==
  \/ \E stun \in Optional(Wan), local \in Optional(Cgnat \union Private),
        six \in Optional(V6) :
       \/ Register(stun, local, six, NoAddr, {})
       \/ Register(stun, local, six, NoAddr, {local} \intersect Cgnat)
  \/ \E extra \in Addrs :
       \/ Register(NoAddr, NoAddr, NoAddr, extra, {})
       \/ Register(NoAddr, NoAddr, NoAddr, extra, {extra} \intersect Cgnat)

-----------------------------------------------------------------------------
(* The moving average of round-trip times lies between its arguments.      *)
Smoothed(old, rtt) ==
  IF old = 0 THEN {rtt}
  ELSE {l \in 0 .. MaxLatency : (old <= l /\ l <= rtt) \/ (rtt <= l /\ l <= old)}

Older(x, n) == x.age >= n

(* Auto-promote: new beats the active path cur.                            *)
Beats(new, cur) ==
  \/ new.priority < cur.priority
  \/ /\ new.priority = cur.priority
     /\ \/ new.latency > 0 /\ (cur.latency = 0 \/ new.latency < cur.latency)
        \/ Older(cur, 1)
  \/ /\ new.priority > cur.priority
     /\ Older(cur, Dead) /\ new.priority < 5

RecordProbeSuccess(a) ==
  LET c == Added(cand, {a}) IN
  \E l \in UNION {Smoothed(c[a].latency, r) : r \in 0 .. MaxLatency} :
    LET new == [c[a] EXCEPT !.age = 0, !.failures = 0, !.latency = l]
        switch == IF active = NoAddr \/ ~c[active].known THEN new.priority < 5
                  ELSE active # a /\ Beats(new, c[active])
    IN  /\ cand' = [c EXCEPT ![a] = new]
        /\ active' = IF switch THEN a ELSE active
        /\ kind' = IF switch THEN Kind(a) ELSE kind
        /\ UNCHANGED globalV6

(* Three failures in a row move the peer to another path that succeeded in *)
(* the last 10 seconds, the first that ranging over the map meets.         *)
AnyCandidate(c, a) == {b \in Addrs \ {a} : c[b].known}
Alternatives(c, a) == {b \in Addrs \ {a} : c[b].known /\ c[b].age < Dead}

RecordProbeFailure(a) ==
  LET failures == IF cand[a].failures < 3 THEN cand[a].failures + 1 ELSE 3 IN
  /\ cand[a].known
  /\ cand' = [cand EXCEPT ![a].failures = failures]
  /\ IF failures = 3 /\ active = a /\ Alternatives(cand, a) # {}
     THEN \E b \in Alternatives(cand, a) : active' = b /\ kind' = Kind(b)
     ELSE UNCHANGED <<active, kind>>
  /\ UNCHANGED globalV6

-----------------------------------------------------------------------------
FiveSecondsPass ==
  /\ cand' = [a \in Addrs |-> IF cand[a].age < Dead
                              THEN [cand[a] EXCEPT !.age = @ + 1] ELSE cand[a]]
  /\ UNCHANGED <<active, kind, globalV6>>

(* IPv6 connectivity comes and goes.                                       *)
V6Changes ==
  /\ globalV6' = ~globalV6
  /\ UNCHANGED <<cand, active, kind>>

PathNext ==
  \/ RegisterPeerWithTopology
  \/ \E a \in Addrs : RecordProbeSuccess(a) \/ RecordProbeFailure(a)
  \/ FiveSecondsPass \/ V6Changes

PathSpec == PathInit /\ [][PathNext]_pathVars

-----------------------------------------------------------------------------
(* Properties                                                              *)

(* Packets are only ever sent to an address that is among the candidates,  *)
(* so that its failures are counted and its age is seen.                   *)
ActiveIsCandidate == active # NoAddr => cand[active].known

PathTypeOK ==
  /\ cand \in [Addrs -> [known : BOOLEAN, priority : 1 .. 5, failures : 0 .. 3,
                         latency : 0 .. MaxLatency, age : 0 .. Never]]
  /\ active \in Addrs \union {NoAddr}
  /\ kind \in {"WAN", "other"} /\ globalV6 \in BOOLEAN
  /\ ActiveIsCandidate

Works(a) == cand[a].known /\ cand[a].age < Dead /\ cand[a].failures = 0

(* "ONLY switches if STUN WAN is DEAD": a path that answered within the    *)
(* last ten seconds and has not failed since is never left for one of      *)
(* lower priority, by no probe, no failure and no registration.            *)
LivePathKept ==
  [][active # NoAddr /\ Works(active) /\ active' # active
       => cand'[active'].priority <= cand'[active].priority]_pathVars

(* A path is left only for one that has answered or is unproven IPv6: once *)
(* chosen, a peer is never moved to an address known to be silent.         *)
NeverToSilentPath ==
  [][active # NoAddr /\ active' # active
       => active' \in V6 \/ cand'[active'].age < Dead]_pathVars
=============================================================================
