------------------------ MODULE DirectPaths_proofs -------------------------
(***************************************************************************)
(* Proofs about the direct paths to a peer: PathSelection, which chooses   *)
(* the UDP address among the candidates, for any addresses and any bound   *)
(* on round-trip times, and TcpDirect, two peers that dial each other, for *)
(* any number of dials.                                                    *)
(*                                                                         *)
(* PathTypeOK, which says too that the active path is a candidate, is      *)
(* inductive as it stands. In TcpDirect each peer's table of direct        *)
(* streams names exactly the streams whose reader goroutine is at work on  *)
(* its side.                                                               *)
(***************************************************************************)
EXTENDS PathSelection, TcpDirect, TLAPS

-----------------------------------------------------------------------------
(* The paths to one peer (magicsock.go)                                    *)

Cand == [known : BOOLEAN, priority : 1 .. 5, failures : 0 .. 3,
         latency : 0 .. MaxLatency, age : 0 .. Never]

LEMMA PriorityType ==
  ASSUME NEW a \in Addrs
  PROVE  Priority(a) \in 1 .. 5
BY DEF Priority, Addrs

(* Registering addresses makes them known and changes no candidate that    *)
(* was known.                                                              *)
LEMMA AddedCandidates ==
  ASSUME NEW c \in [Addrs -> Cand], NEW as
  PROVE  /\ Added(c, as) \in [Addrs -> Cand]
         /\ \A a \in Addrs : a \in as => Added(c, as)[a].known
         /\ \A a \in Addrs : c[a].known => Added(c, as)[a] = c[a]
<1>1. ASSUME NEW a \in Addrs
      PROVE  /\ [NoCand EXCEPT !.known = TRUE, !.priority = Priority(a)] \in Cand
             /\ [NoCand EXCEPT !.known = TRUE, !.priority = Priority(a)].known
  <2>1. Priority(a) \in 1 .. 5
    BY PriorityType
  <2>2. NoCand \in Cand
    BY PathAssumption DEF NoCand, Cand, Never
  <2> QED BY <2>1, <2>2 DEF Cand
<1>2. DOMAIN Added(c, as) = Addrs
  BY DEF Added
<1>3. \A a \in Addrs : Added(c, as)[a] =
        IF a \in as /\ ~c[a].known
          THEN [NoCand EXCEPT !.known = TRUE, !.priority = Priority(a)] ELSE c[a]
  BY DEF Added
<1>4. \A a \in Addrs : Added(c, as)[a] \in Cand
  BY <1>1, <1>3
<1>5. Added(c, as) \in [Addrs -> Cand]
  BY <1>4 DEF Added
<1> QED BY <1>1, <1>3, <1>5

LEMMA SmoothedType ==
  ASSUME NEW old \in 0 .. MaxLatency, NEW rtt \in 0 .. MaxLatency
  PROVE  Smoothed(old, rtt) \subseteq 0 .. MaxLatency
BY DEF Smoothed

(* The arguments that RegisterPeerWithTopology may pass on.                *)
Args(stun, local, six, extra, promoted) ==
  /\ stun \in Optional(Wan) /\ local \in Optional(Cgnat \union Private)
  /\ six \in Optional(V6) /\ extra \in Optional(Addrs) /\ promoted \subseteq Addrs

LEMMA RegisterCases ==
  RegisterPeerWithTopology =>
    \E stun, local, six, extra, promoted :
      Args(stun, local, six, extra, promoted) /\ Register(stun, local, six, extra, promoted)
<1> SUFFICES ASSUME RegisterPeerWithTopology
             PROVE  \E stun, local, six, extra, promoted :
                      /\ Args(stun, local, six, extra, promoted)
                      /\ Register(stun, local, six, extra, promoted)
  OBVIOUS
<1>1. CASE \E stun \in Optional(Wan), local \in Optional(Cgnat \union Private),
              six \in Optional(V6) :
             \/ Register(stun, local, six, NoAddr, {})
             \/ Register(stun, local, six, NoAddr, {local} \intersect Cgnat)
  <2>1. PICK stun \in Optional(Wan), local \in Optional(Cgnat \union Private),
             six \in Optional(V6) :
             \/ Register(stun, local, six, NoAddr, {})
             \/ Register(stun, local, six, NoAddr, {local} \intersect Cgnat)
    BY <1>1
  <2>2. /\ Args(stun, local, six, NoAddr, {})
        /\ Args(stun, local, six, NoAddr, {local} \intersect Cgnat)
    BY DEF Args, Optional, Addrs
  <2> QED BY <2>1, <2>2
<1>2. CASE \E extra \in Addrs :
             \/ Register(NoAddr, NoAddr, NoAddr, extra, {})
             \/ Register(NoAddr, NoAddr, NoAddr, extra, {extra} \intersect Cgnat)
  <2>1. PICK extra \in Addrs :
             \/ Register(NoAddr, NoAddr, NoAddr, extra, {})
             \/ Register(NoAddr, NoAddr, NoAddr, extra, {extra} \intersect Cgnat)
    BY <1>2
  <2>2. /\ Args(NoAddr, NoAddr, NoAddr, extra, {})
        /\ Args(NoAddr, NoAddr, NoAddr, extra, {extra} \intersect Cgnat)
    BY DEF Args, Optional, Addrs
  <2> QED BY <2>1, <2>2
<1> QED BY <1>1, <1>2 DEF RegisterPeerWithTopology

(* What a registration leaves: every argument is a candidate, candidates   *)
(* keep all but their priority, and the active path changes only when      *)
(* there was none or to IPv6 from one that is unconfirmed.                 *)
LEMMA Registered ==
  ASSUME PathTypeOK, RegisterPeerWithTopology
  PROVE  /\ cand' \in [Addrs -> Cand]
         /\ \A a \in Addrs : cand[a].known => cand'[a].known
         /\ active' # NoAddr => active' \in Addrs /\ cand'[active'].known
         /\ kind' \in {"WAN", "other"} /\ globalV6' = globalV6
         /\ active # NoAddr /\ active' # active
              => /\ active' \in V6
                 /\ cand[active].known => cand[active].age = Never \/ cand[active].failures > 0
<1>1. PICK stun, local, six, extra, promoted :
        Args(stun, local, six, extra, promoted) /\ Register(stun, local, six, extra, promoted)
  BY RegisterCases
<1> DEFINE as == {stun, local, six, extra} \ {NoAddr}
           c == Added(cand, as)
<1>2. cand \in [Addrs -> Cand]
  BY DEF PathTypeOK, Cand
<1>3. /\ c \in [Addrs -> Cand]
      /\ \A a \in Addrs : a \in as => c[a].known
      /\ \A a \in Addrs : cand[a].known => c[a] = cand[a]
  BY <1>2, AddedCandidates
<1>4. /\ cand' = [a \in Addrs |-> IF a \in promoted /\ c[a].known
                                  THEN [c[a] EXCEPT !.priority = 1] ELSE c[a]]
      /\ globalV6' = globalV6
  BY <1>1 DEF Register
<1>5. \/ /\ active = NoAddr /\ active' \in {six, stun, local, NoAddr}
         /\ kind' \in {"WAN", "other"}
      \/ /\ active # NoAddr /\ active' = six /\ six # NoAddr /\ kind' = "other"
         /\ Unconfirmed(c)
      \/ active # NoAddr /\ active' = active /\ kind' = kind
  <2>1. kind \in {"WAN", "other"} /\ Kind(active') \in {"WAN", "other"}
    BY DEF PathTypeOK, Kind
  <2> DEFINE useSix == six # NoAddr /\ globalV6
  <2>2. \/ /\ active = NoAddr
           /\ active' = IF useSix THEN six
                        ELSE IF stun # NoAddr THEN stun
                        ELSE IF local # NoAddr /\ Priority(local) < 5 THEN local
                        ELSE NoAddr
           /\ kind' = IF ~useSix /\ stun # NoAddr THEN "WAN"
                      ELSE IF active' = NoAddr THEN kind ELSE Kind(active')
        \/ /\ active # NoAddr /\ kind = "WAN" /\ useSix /\ Unconfirmed(c)
           /\ active' = six /\ kind' = "other"
        \/ active # NoAddr /\ active' = active /\ kind' = kind
    BY <1>1 DEF Register
  <2> HIDE DEF c
  <2>3. ASSUME active' = IF useSix THEN six
                         ELSE IF stun # NoAddr THEN stun
                         ELSE IF local # NoAddr /\ Priority(local) < 5 THEN local
                         ELSE NoAddr
        PROVE  active' \in {six, stun, local, NoAddr}
    BY <2>3
  <2>4. ASSUME kind' = IF ~useSix /\ stun # NoAddr THEN "WAN"
                       ELSE IF active' = NoAddr THEN kind ELSE Kind(active')
        PROVE  kind' \in {"WAN", "other"}
    BY <2>1, <2>4
  <2>5. useSix => six # NoAddr
    OBVIOUS
  <2> HIDE DEF useSix
  <2> QED BY <2>2, <2>3, <2>4, <2>5
<1> HIDE DEF c
<1>6. ASSUME NEW a \in Addrs
      PROVE  cand'[a] \in Cand /\ cand'[a].known = c[a].known
  BY <1>3, <1>4 DEF Cand
<1>7. cand' \in [Addrs -> Cand]
  BY <1>4, <1>6
<1>8. /\ stun # NoAddr => stun \in Addrs \intersect as
      /\ local # NoAddr => local \in Addrs \intersect as
      /\ six # NoAddr => six \in Addrs \intersect as /\ six \in V6
  BY <1>1 DEF Args, Optional, Addrs
<1>9. active # NoAddr => active \in Addrs /\ cand[active].known
  BY DEF PathTypeOK, ActiveIsCandidate
<1>10. active' # NoAddr => active' \in Addrs /\ cand'[active'].known
  BY <1>3, <1>5, <1>6, <1>8, <1>9
<1>11. active # NoAddr /\ active' # active
         => /\ active' \in V6
            /\ cand[active].known => cand[active].age = Never \/ cand[active].failures > 0
  BY <1>3, <1>5, <1>8, <1>9 DEF Unconfirmed
<1>12. kind' \in {"WAN", "other"}
  BY <1>5 DEF PathTypeOK
<1>13. \A a \in Addrs : cand[a].known => cand'[a].known
  BY <1>3, <1>6
<1> QED BY <1>4, <1>7, <1>10, <1>11, <1>12, <1>13

(* An answer makes the path that gave it fresh.                            *)
LEMMA FreshCandidate ==
  ASSUME NEW x \in Cand, NEW l \in 0 .. MaxLatency
  PROVE  LET new == [x EXCEPT !.age = 0, !.failures = 0, !.latency = l]
         IN  new \in Cand /\ new.known = x.known /\ new.age = 0
<1> DEFINE y == [x EXCEPT !.age = 0]
           z == [y EXCEPT !.failures = 0]
           new == [z EXCEPT !.latency = l]
<1>1. y \in Cand /\ y.known = x.known /\ y.age = 0
  BY DEF Cand, Never
<1> HIDE DEF y
<1>2. z \in Cand /\ z.known = x.known /\ z.age = 0
  BY <1>1 DEF Cand
<1> HIDE DEF z
<1>3. new \in Cand /\ new.known = x.known /\ new.age = 0
  BY <1>2 DEF Cand
<1> USE DEF y, z
<1> QED BY <1>3

(* What an answer leaves: the path that answered is fresh, the others are  *)
(* as they were, and only a path that beats the active one replaces it.    *)
LEMMA Answered ==
  ASSUME PathTypeOK, NEW a \in Addrs, RecordProbeSuccess(a)
  PROVE  /\ cand' \in [Addrs -> Cand]
         /\ \A b \in Addrs : cand[b].known => cand'[b].known
         /\ \A b \in Addrs \ {a} : cand[b].known => cand'[b] = cand[b]
         /\ cand'[a].known /\ cand'[a].age = 0
         /\ active' \in {active, a}
         /\ kind' \in {"WAN", "other"} /\ globalV6' = globalV6
         /\ active # NoAddr /\ active' # active => Beats(cand'[a], cand[active])
<1> DEFINE c == Added(cand, {a})
<1>1. cand \in [Addrs -> Cand] /\ (active # NoAddr => active \in Addrs /\ cand[active].known)
  BY DEF PathTypeOK, Cand, ActiveIsCandidate
<1>2. /\ c \in [Addrs -> Cand] /\ c[a].known
      /\ \A b \in Addrs : cand[b].known => c[b] = cand[b]
  BY <1>1, AddedCandidates
<1>3. PICK l \in UNION {Smoothed(c[a].latency, r) : r \in 0 .. MaxLatency} :
        LET new == [c[a] EXCEPT !.age = 0, !.failures = 0, !.latency = l]
            switch == IF active = NoAddr \/ ~c[active].known THEN new.priority < 5
                      ELSE active # a /\ Beats(new, c[active])
        IN  /\ cand' = [c EXCEPT ![a] = new]
            /\ active' = IF switch THEN a ELSE active
            /\ kind' = IF switch THEN Kind(a) ELSE kind
            /\ UNCHANGED globalV6
  BY DEF RecordProbeSuccess
<1> HIDE DEF c
<1> DEFINE new == [c[a] EXCEPT !.age = 0, !.failures = 0, !.latency = l]
<1>4. l \in 0 .. MaxLatency
  <2>1. PICK r \in 0 .. MaxLatency : l \in Smoothed(c[a].latency, r)
    BY <1>3
  <2>2. c[a].latency \in 0 .. MaxLatency
    BY <1>2 DEF Cand
  <2> QED BY <2>1, <2>2, SmoothedType
<1>5. new \in Cand /\ new.known /\ new.age = 0
  <2>1. c[a] \in Cand /\ c[a].known
    BY <1>2
  <2> QED BY <1>4, <2>1, FreshCandidate
<1>6. /\ cand' = [c EXCEPT ![a] = new] /\ globalV6' = globalV6
      /\ active' = active \/ active' = a
      /\ kind' = kind \/ kind' = Kind(a)
      /\ active # NoAddr /\ active' # active => ~c[active].known \/ Beats(new, c[active])
  BY <1>3
<1> HIDE DEF new
<1>7. cand'[a] = new /\ \A b \in Addrs \ {a} : cand'[b] = c[b]
  BY <1>2, <1>6
<1>8. cand' \in [Addrs -> Cand]
  BY <1>2, <1>5, <1>6
<1>9. kind' \in {"WAN", "other"}
  BY <1>6 DEF PathTypeOK, Kind
<1>10. \A b \in Addrs : cand[b].known => cand'[b].known
  BY <1>2, <1>5, <1>7
<1> QED BY <1>1, <1>2, <1>5, <1>6, <1>7, <1>8, <1>9, <1>10

(* What a failure leaves: only a path that has failed before is left, for  *)
(* one that answered lately.                                               *)
LEMMA Failed ==
  ASSUME PathTypeOK, NEW a \in Addrs, RecordProbeFailure(a)
  PROVE  /\ cand' \in [Addrs -> Cand]
         /\ \A b \in Addrs : cand[b].known => cand'[b].known
         /\ active' # active => /\ active' \in Addrs /\ active = a /\ cand[a].failures > 0
                                /\ cand'[active'].known /\ cand'[active'].age < Dead
         /\ kind' \in {"WAN", "other"} /\ globalV6' = globalV6
<1> DEFINE failures == IF cand[a].failures < 3 THEN cand[a].failures + 1 ELSE 3
<1>1. cand \in [Addrs -> Cand]
  BY DEF PathTypeOK, Cand
<1>2. /\ cand' = [cand EXCEPT ![a].failures = failures] /\ globalV6' = globalV6
      /\ \/ /\ failures = 3 /\ active = a
            /\ \E b \in Alternatives(cand, a) : active' = b /\ kind' = Kind(b)
         \/ active' = active /\ kind' = kind
  BY DEF RecordProbeFailure
<1>3. failures \in 0 .. 3 /\ (failures = 3 => cand[a].failures > 0)
  BY <1>1 DEF Cand
<1> HIDE DEF failures
<1>4. /\ cand' \in [Addrs -> Cand]
      /\ \A b \in Addrs : cand'[b].known = cand[b].known /\ cand'[b].age = cand[b].age
  BY <1>1, <1>2, <1>3 DEF Cand
<1>5. \A b \in Alternatives(cand, a) : b \in Addrs /\ cand[b].known /\ cand[b].age < Dead
                                      /\ Kind(b) \in {"WAN", "other"}
  BY DEF Alternatives, Kind
<1>6. kind \in {"WAN", "other"}
  BY DEF PathTypeOK
<1> QED BY <1>2, <1>3, <1>4, <1>5, <1>6

(* The candidates and the active path have their types, and the active     *)
(* path is one of the candidates.                                          *)
THEOREM PathTypeCorrect == PathSpec => []PathTypeOK
<1>1. PathInit => PathTypeOK
  <2>1. NoCand \in Cand
    BY PathAssumption DEF NoCand, Cand, Never
  <2> QED BY <2>1 DEF PathInit, PathTypeOK, ActiveIsCandidate, Cand
<1>2. PathTypeOK /\ [PathNext]_pathVars => PathTypeOK'
  <2> SUFFICES ASSUME PathTypeOK, [PathNext]_pathVars PROVE PathTypeOK'
    OBVIOUS
  <2>1. /\ cand \in [Addrs -> Cand] /\ kind \in {"WAN", "other"} /\ globalV6 \in BOOLEAN
        /\ active # NoAddr => active \in Addrs /\ cand[active].known
    BY DEF PathTypeOK, Cand, ActiveIsCandidate
  <2>2. SUFFICES /\ cand' \in [Addrs -> Cand] /\ globalV6' \in BOOLEAN
                 /\ kind' \in {"WAN", "other"}
                 /\ active' # NoAddr => active' \in Addrs /\ cand'[active'].known
    BY DEF PathTypeOK, Cand, ActiveIsCandidate
  <2>3. CASE RegisterPeerWithTopology
    BY <2>1, <2>3, Registered
  <2>4. ASSUME NEW a \in Addrs, RecordProbeSuccess(a)
        PROVE  /\ cand' \in [Addrs -> Cand] /\ globalV6' \in BOOLEAN
               /\ kind' \in {"WAN", "other"}
               /\ active' # NoAddr => active' \in Addrs /\ cand'[active'].known
    BY <2>1, <2>4, Answered
  <2>5. ASSUME NEW a \in Addrs, RecordProbeFailure(a)
        PROVE  /\ cand' \in [Addrs -> Cand] /\ globalV6' \in BOOLEAN
               /\ kind' \in {"WAN", "other"}
               /\ active' # NoAddr => active' \in Addrs /\ cand'[active'].known
    BY <2>1, <2>5, Failed
  <2>6. CASE FiveSecondsPass
    <3>1. /\ cand' \in [Addrs -> Cand]
          /\ \A a \in Addrs : cand'[a].known = cand[a].known
      BY <2>1, <2>6 DEF FiveSecondsPass, Cand, Dead, Never
    <3> QED BY <2>1, <2>6, <3>1 DEF FiveSecondsPass
  <2>7. CASE V6Changes
    BY <2>1, <2>7 DEF V6Changes
  <2>8. CASE UNCHANGED pathVars
    BY <2>1, <2>8 DEF pathVars
  <2> QED BY <2>3, <2>4, <2>5, <2>6, <2>7, <2>8 DEF PathNext
<1> QED BY <1>1, <1>2, PTL DEF PathSpec

(* A path that answered within the last ten seconds and has not failed     *)
(* since is never left for one of lower priority.                          *)
THEOREM LivePathStays == PathSpec => LivePathKept
<1>1. PathTypeOK /\ [PathNext]_pathVars
        => [active # NoAddr /\ Works(active) /\ active' # active
              => cand'[active'].priority <= cand'[active].priority]_pathVars
  <2> SUFFICES ASSUME PathTypeOK, PathNext, active # NoAddr, Works(active), active' # active
               PROVE  cand'[active'].priority <= cand'[active].priority
    OBVIOUS
  <2>1. /\ active \in Addrs /\ cand[active].known /\ cand[active].failures = 0
        /\ cand[active].age \in 0 .. 1 /\ cand[active] \in Cand
    BY DEF PathTypeOK, ActiveIsCandidate, Works, Cand, Dead, Never
  <2>2. ~RegisterPeerWithTopology
    BY <2>1, Registered DEF Never
  <2>3. ASSUME NEW a \in Addrs, RecordProbeFailure(a) PROVE FALSE
    BY <2>1, <2>3, Failed
  <2>4. ASSUME NEW a \in Addrs, RecordProbeSuccess(a)
        PROVE  cand'[active'].priority <= cand'[active].priority
    <3>1. active' = a /\ a # active /\ Beats(cand'[a], cand[active]) /\ cand'[active] = cand[active]
          /\ cand'[a] \in Cand
      BY <2>1, <2>4, Answered
    <3>2. ~Older(cand[active], Dead)
      BY <2>1 DEF Older, Dead
    <3> QED BY <2>1, <3>1, <3>2 DEF Beats, Cand
  <2> QED BY <2>2, <2>3, <2>4 DEF PathNext, FiveSecondsPass, V6Changes
<1> QED BY <1>1, PathTypeCorrect, PTL DEF PathSpec, LivePathKept

(* A path is left only for one that answered within the last ten seconds,  *)
(* or for an IPv6 address.                                                 *)
THEOREM NeverToSilent == PathSpec => NeverToSilentPath
<1>1. PathTypeOK /\ [PathNext]_pathVars
        => [active # NoAddr /\ active' # active
              => active' \in V6 \/ cand'[active'].age < Dead]_pathVars
  <2> SUFFICES ASSUME PathTypeOK, PathNext, active # NoAddr, active' # active
               PROVE  active' \in V6 \/ cand'[active'].age < Dead
    OBVIOUS
  <2>1. CASE RegisterPeerWithTopology
    BY <2>1, Registered
  <2>2. ASSUME NEW a \in Addrs, RecordProbeFailure(a)
        PROVE  cand'[active'].age < Dead
    BY <2>2, Failed
  <2>3. ASSUME NEW a \in Addrs, RecordProbeSuccess(a)
        PROVE  cand'[active'].age < Dead
    BY <2>3, Answered DEF Dead
  <2> QED BY <2>1, <2>2, <2>3 DEF PathNext, FiveSecondsPass, V6Changes
<1> QED BY <1>1, PathTypeCorrect, PTL DEF PathSpec, NeverToSilentPath

-----------------------------------------------------------------------------
(* Answers do not make the peer flap                                       *)

Fresh == {x \in Cand : x.age = 0}

(* Among paths that answered within the last five seconds the rule of      *)
(* auto-promotion is a strict order: there is no cycle of paths each of    *)
(* which beats the one before, whatever their kinds and round-trip times,  *)
(* unknown ones included.                                                  *)
THEOREM FreshPathsAreOrdered ==
  /\ \A x, y \in Fresh : Beats(x, y) => ~Beats(y, x)
  /\ \A x, y, z \in Fresh : Beats(x, y) /\ Beats(y, z) => Beats(x, z)
<1>1. \A x, y \in Fresh :
        Beats(x, y) <=> \/ x.priority < y.priority
                        \/ /\ x.priority = y.priority
                           /\ x.latency > 0 /\ (y.latency = 0 \/ x.latency < y.latency)
  BY DEF Fresh, Cand, Beats, Older, Dead
<1>2. \A x \in Fresh : x.priority \in Nat /\ x.latency \in Nat
  BY PathAssumption DEF Fresh, Cand
<1> QED BY <1>1, <1>2

(* While the active path is fresh an answer moves the peer only to a path  *)
(* that the old one cannot win back by the next answer, unless its own     *)
(* round-trip time has changed by then.                                    *)
NoFlapping ==
  [][\A a \in Addrs :
       /\ RecordProbeSuccess(a)
       /\ active # NoAddr /\ active' # active /\ cand[active].age = 0
       => ~Beats(cand'[active], cand'[active'])]_pathVars

(* Each move by an answer from a fresh path is to one that ranks above it. *)
THEOREM AnswersDoNotFlap == PathSpec => NoFlapping
<1>1. PathTypeOK /\ [PathNext]_pathVars
        => [\A a \in Addrs :
              /\ RecordProbeSuccess(a)
              /\ active # NoAddr /\ active' # active /\ cand[active].age = 0
              => ~Beats(cand'[active], cand'[active'])]_pathVars
  <2> SUFFICES ASSUME PathTypeOK, NEW a \in Addrs, RecordProbeSuccess(a),
                      active # NoAddr, active' # active, cand[active].age = 0
               PROVE  ~Beats(cand'[active], cand'[active'])
    OBVIOUS
  <2>1. /\ cand \in [Addrs -> Cand] /\ active \in Addrs /\ cand[active].known
    BY DEF PathTypeOK, Cand, ActiveIsCandidate
  <2>2. /\ cand' \in [Addrs -> Cand] /\ active' = a /\ cand'[a].age = 0
        /\ cand'[active] = cand[active] /\ Beats(cand'[a], cand[active])
    BY <2>1, Answered
  <2>3. cand'[a] \in Fresh /\ cand'[active] \in Fresh
    BY <2>1, <2>2 DEF Fresh
  <2> QED BY <2>2, <2>3, FreshPathsAreOrdered
<1> QED BY <1>1, PathTypeCorrect, PTL DEF PathSpec, NoFlapping

-----------------------------------------------------------------------------
(* Direct TCP streams                                                      *)

USE TcpAssumption DEF TcpAssumption

-----------------------------------------------------------------------------
(* Type correctness                                                        *)

(* Only a dial that nobody has begun has no peer behind it.                *)
Begun == \A d \in Dials : dial[d].pc # "none" => dial[d].by \in Nodes

TypeInv == TypeOK /\ Begun

(* The other peer is one of the two.                                       *)
LEMMA OtherPeer ==
  ASSUME NEW n \in Nodes
  PROVE  Other(n) \in Nodes /\ Other(n) # n
<1>1. \E m \in Nodes : m # n
  OBVIOUS
<1> QED
  BY <1>1 DEF Other

EndTable == [Conns -> [Nodes -> Ends]]

(* Changing one end of one stream changes no other.                        *)
LEMMA OneEnd ==
  ASSUME NEW e \in EndTable, NEW c \in Conns, NEW n \in Nodes, NEW x \in Ends
  PROVE  LET f == [e EXCEPT ![c][n] = x]
         IN  /\ f \in EndTable /\ f[c][n] = x
             /\ \A b \in Conns, m \in Nodes : b # c \/ m # n => f[b][m] = e[b][m]
  BY DEF EndTable

(* A new stream changes no other.                                          *)
LEMMA NewStream ==
  ASSUME end \in EndTable, NEW c \in Conns, NEW N, NEW s, Opens(c, N, s)
  PROVE  /\ end' \in EndTable
         /\ \A m \in Nodes : end'[c][m] = IF m \in N THEN "shake" ELSE "lost"
         /\ \A b \in Conns, m \in Nodes : b # c => end'[b][m] = end[b][m]
<1> DEFINE f == [m \in Nodes |-> IF m \in N THEN "shake" ELSE "lost"]
<1>1. f \in [Nodes -> Ends]
  BY DEF Ends
<1>2. end' = [end EXCEPT ![c] = f]
  BY DEF Opens
<1>3. \A m \in Nodes : f[m] = IF m \in N THEN "shake" ELSE "lost"
  OBVIOUS
<1> HIDE DEF f
<1>4. end' \in EndTable /\ end'[c] = f /\ \A b \in Conns : b # c => end'[b] = end[b]
  BY <1>1, <1>2 DEF EndTable
<1> QED
  BY <1>3, <1>4

(* RegisterConn and Close close the stream in the table, if there is one.  *)
LEMMA OldClosedEnds ==
  ASSUME TypeOK, NEW n \in Nodes
  PROVE  /\ OldClosed(n) \in EndTable
         /\ \A b \in Conns, m \in Nodes :
              OldClosed(n)[b][m] = IF m = n /\ conns[n] = b THEN "shut" ELSE end[b][m]
<1>1. end \in EndTable /\ "shut" \in Ends
  BY DEF TypeOK, EndTable, Ends
<1>2. conns[n] \in Conns \union {NoConn}
  BY DEF TypeOK
<1>3. CASE HasConn(n)
  <2>1. PICK c \in Conns : c = conns[n]
    BY <1>2, <1>3 DEF HasConn
  <2> DEFINE f == [end EXCEPT ![c][n] = "shut"]
  <2>2. OldClosed(n) = f
    BY <1>3, <2>1 DEF OldClosed
  <2>3. /\ f \in EndTable /\ f[c][n] = "shut"
        /\ \A b \in Conns, m \in Nodes : b # c \/ m # n => f[b][m] = end[b][m]
    BY <1>1, OneEnd
  <2> HIDE DEF f
  <2> QED
    BY <2>1, <2>2, <2>3
<1>4. CASE ~HasConn(n)
  BY <1>1, <1>4 DEF OldClosed, HasConn, Conns, Dials
<1> QED
  BY <1>3, <1>4

(* A call that moves on is still a call, of the same peer and stream.      *)
LEMMA CallMoves ==
  ASSUME NEW r \in Calls, NEW pc \in {"failed", "penalty", "shake", "leave", "left"}
  PROVE  LET q == [r EXCEPT !.pc = pc]
         IN  q \in Calls /\ q.pc = pc /\ q.by = r.by /\ q.conn = r.conn
  BY DEF Calls

(* So is a call whose stream connects.                                     *)
LEMMA CallConnects ==
  ASSUME NEW r \in Calls, NEW c \in 0 .. MaxDials
  PROVE  LET q == [r EXCEPT !.pc = "check", !.conn = c]
         IN  q \in Calls /\ q.pc = "check" /\ q.by = r.by /\ q.conn = c
  BY DEF Calls

(* A step of one call or of its handshake keeps the calls' types.          *)
Onward == {"failed", "penalty", "shake", "leave", "left"}
MovesOn ==
  /\ dial' \in [Dials -> Calls]
  /\ \A d \in Dials : /\ dial'[d].by = dial[d].by /\ dial'[d].conn = dial[d].conn
                      /\ \/ dial'[d].pc = dial[d].pc
                         \/ dial[d].pc # "none" /\ dial'[d].pc \in Onward

LEMMA GotoMoves ==
  ASSUME TypeOK, NEW d \in Dials, dial[d].pc # "none", NEW pc \in Onward, Goto(d, pc)
  PROVE  MovesOn /\ dial'[d].pc = pc
<1>1. dial \in [Dials -> Calls]
  BY DEF TypeOK
<1> DEFINE q == [dial[d] EXCEPT !.pc = pc]
<1>2. q \in Calls /\ q.pc = pc /\ q.by = dial[d].by /\ q.conn = dial[d].conn
  BY <1>1, CallMoves DEF Onward
<1>3. dial' = [dial EXCEPT ![d] = q]
  BY DEF Goto
<1> HIDE DEF q
<1> QED
  BY <1>1, <1>2, <1>3 DEF MovesOn

LEMMA ReturnMoves ==
  ASSUME TypeOK, NEW c \in Conns, NEW n \in Nodes, AtWork(c, n), CallReturns(c, n)
  PROVE  MovesOn /\ \A d \in DialOf(c, n) : dial'[d].pc = "leave"
<1>1. dial \in [Dials -> Calls]
  BY DEF TypeOK
<1> DEFINE q(d) == [dial[d] EXCEPT !.pc = "leave"]
<1>2. ASSUME NEW d \in Dials
      PROVE  /\ q(d) \in Calls /\ q(d).pc = "leave"
             /\ q(d).by = dial[d].by /\ q(d).conn = dial[d].conn
  BY <1>1, CallMoves
<1>3. dial' = [d \in Dials |-> IF d \in DialOf(c, n) THEN q(d) ELSE dial[d]]
  BY DEF CallReturns
<1>4. DialOf(c, n) \subseteq Dials
  BY DEF DialOf
<1> HIDE DEF q
<1>5. ASSUME NEW d \in Dials PROVE dial'[d] = IF d \in DialOf(c, n) THEN q(d) ELSE dial[d]
  BY <1>3
<1>6. dial' \in [Dials -> Calls]
  BY <1>1, <1>2, <1>3
<1>7. \A d \in DialOf(c, n) : dial[d].pc = "shake"
  BY DEF AtWork
<1> QED
  BY <1>2, <1>4, <1>5, <1>6, <1>7 DEF MovesOn, Onward

(* At the start nothing is dialled.                                        *)
LEMMA TypeInit == Init => TypeInv
<1> SUFFICES ASSUME Init PROVE TypeInv
  OBVIOUS
<1>1. NoDial \in Calls /\ NoDial.pc = "none"
  BY DEF NoDial, Calls
<1>2. dial \in [Dials -> Calls] /\ \A d \in Dials : dial[d].pc = "none"
  BY <1>1 DEF Init
<1>3. end \in [Conns -> [Nodes -> Ends]]
  BY DEF Init, Ends
<1> QED
  BY <1>2, <1>3 DEF Init, TypeInv, TypeOK, Begun

(* Each step keeps the types.                                              *)
LEMMA TypeStep == TypeInv /\ [Next]_vars => TypeInv'
<1> SUFFICES ASSUME TypeInv, [Next]_vars PROVE TypeInv'
  OBVIOUS
<1>0. /\ TypeOK /\ dial \in [Dials -> Calls] /\ end \in EndTable
      /\ conns \in [Nodes -> Conns \union {NoConn}]
      /\ connecting \in [Nodes -> {"no", "fresh", "stale"}]
      /\ backoff \in [Nodes -> BOOLEAN] /\ mgr \in [Nodes -> {"up", "cancelled", "down"}]
      /\ server \in [Conns -> Nodes \union {NoConn}] /\ told \subseteq Conns
  BY DEF TypeInv, TypeOK, EndTable
<1>1. \A d \in Dials : dial[d].pc # "none" => dial[d].by \in Nodes
  BY DEF TypeInv, Begun
<1> DEFINE DialOK == dial' \in [Dials -> Calls] /\ Begun'
           TabOK == /\ conns' \in [Nodes -> Conns \union {NoConn}]
                    /\ connecting' \in [Nodes -> {"no", "fresh", "stale"}]
                    /\ backoff' \in [Nodes -> BOOLEAN]
                    /\ mgr' \in [Nodes -> {"up", "cancelled", "down"}]
           NetOK == /\ end' \in EndTable
                    /\ server' \in [Conns -> Nodes \union {NoConn}]
                    /\ told' \subseteq Conns
<1>2. DialOK /\ TabOK /\ NetOK => TypeInv'
  BY DEF TypeInv, TypeOK, EndTable
<1>3. (UNCHANGED dial => DialOK) /\ (UNCHANGED tabVars => TabOK) /\ (UNCHANGED netVars => NetOK)
  BY <1>0, <1>1 DEF tabVars, netVars, Begun
<1>4. MovesOn => DialOK
  BY <1>0, <1>1 DEF MovesOn, Begun, Onward
<1> HIDE DEF DialOK, TabOK, NetOK
<1>5. ASSUME NEW d \in Dials, NEW n \in Nodes, NEW force \in BOOLEAN,
           Start(d, n, force) PROVE TypeInv'
  <2> DEFINE q == [by |-> n, pc |-> "dial", conn |-> 0]
  <2>1. q \in Calls /\ q.by \in Nodes
    BY DEF Calls
  <2>2. dial' = [dial EXCEPT ![d] = q]
    BY <1>5 DEF Start
  <2> HIDE DEF q
  <2>3. DialOK
    BY <1>0, <1>1, <2>1, <2>2 DEF DialOK, Begun
  <2>4. TabOK
    BY <1>0, <1>5 DEF TabOK, Start
  <2> QED
    BY <1>2, <1>3, <1>5, <2>3, <2>4 DEF Start
<1>6. ASSUME NEW d \in Dials, NEW c \in Dials
      PROVE  LET q == [dial[d] EXCEPT !.pc = "check", !.conn = c]
             IN  q \in Calls /\ q.pc = "check" /\ q.by = dial[d].by /\ q.conn = c
  <2>1. c \in 0 .. MaxDials
    BY DEF Dials
  <2> QED
    BY <1>0, <2>1, CallConnects
<1>7. ASSUME NEW d \in Dials, NEW N, NEW s \in Nodes, Opens(d, N, s), UNCHANGED told
      PROVE  NetOK
  <2>1. end' \in EndTable
    BY <1>0, <1>7, NewStream DEF Conns
  <2>2. server' \in [Conns -> Nodes \union {NoConn}]
    BY <1>0, <1>7 DEF Opens
  <2> QED
    BY <1>0, <1>7, <2>1, <2>2 DEF NetOK
<1>8. ASSUME NEW d \in Dials, Connects(d) \/ AcceptedInVain(d) PROVE TypeInv'
  <2> DEFINE q == [dial[d] EXCEPT !.pc = "check", !.conn = d]
  <2>1. q \in Calls /\ q.by = dial[d].by
    BY <1>6
  <2>2. dial' = [dial EXCEPT ![d] = q] /\ dial[d].pc = "dial"
    BY <1>8 DEF Connects, AcceptedInVain
  <2> HIDE DEF q
  <2>3. DialOK
    BY <1>0, <1>1, <2>1, <2>2 DEF DialOK, Begun
  <2>4. Other(dial[d].by) \in Nodes
    BY <1>1, <2>2, OtherPeer
  <2>5. \E N : Opens(d, N, Other(dial[d].by))
    BY <1>8 DEF Connects, AcceptedInVain
  <2>6. NetOK
    BY <1>7, <1>8, <2>4, <2>5 DEF Connects, AcceptedInVain
  <2> QED
    BY <1>2, <1>3, <1>8, <2>3, <2>6 DEF Connects, AcceptedInVain
<1>9. ASSUME NEW d \in Dials, NEW e \in Dials, MeetsDial(d, e) PROVE TypeInv'
  <2> DEFINE q == [dial[d] EXCEPT !.pc = "check", !.conn = d]
             s == [dial[e] EXCEPT !.pc = "check", !.conn = d]
  <2>1. q \in Calls /\ q.by = dial[d].by /\ s \in Calls /\ s.by = dial[e].by
    BY <1>6
  <2>2. d # e /\ dial[d].pc = "dial" /\ dial[e].pc = "dial"
    BY <1>9 DEF MeetsDial
  <2>3. dial' = [dial EXCEPT ![d] = q, ![e] = s]
    BY <1>0, <1>9, <2>2 DEF MeetsDial
  <2> HIDE DEF q, s
  <2>4. DialOK
    BY <1>0, <1>1, <2>1, <2>2, <2>3 DEF DialOK, Begun
  <2>5. NetOK
    BY <1>7, <1>9 DEF MeetsDial
  <2> QED
    BY <1>2, <1>3, <1>9, <2>4, <2>5 DEF MeetsDial
<1>a. ASSUME NEW d \in Dials, ConnectsInVain(d) PROVE TypeInv'
  <2>1. dial[d].by \in Nodes
    BY <1>1, <1>a DEF ConnectsInVain
  <2>2. NetOK
    BY <1>7, <1>a, <2>1, OtherPeer DEF ConnectsInVain
  <2> QED
    BY <1>2, <1>3, <1>a, <2>2 DEF ConnectsInVain
<1>10. ASSUME NEW d \in Dials, dial[d].pc # "none", NEW pc \in Onward, Goto(d, pc)
       PROVE  DialOK
  BY <1>0, <1>4, <1>10, GotoMoves
<1>11. {"failed", "penalty", "shake", "leave", "left"} \subseteq Onward
  BY DEF Onward
<1>12. ASSUME NEW d \in Dials,
              NoLongerNeeded(d) \/ EveryWayFails(d) \/ FailedAlone(d)
       PROVE  TypeInv'
  BY <1>2, <1>3, <1>10, <1>11, <1>12 DEF NoLongerNeeded, EveryWayFails, FailedAlone
<1>13. ASSUME NEW d \in Dials, BacksOff(d) PROVE TypeInv'
  <2>1. TabOK
    BY <1>0, <1>13 DEF TabOK, BacksOff
  <2> QED
    BY <1>2, <1>3, <1>10, <1>11, <1>13, <2>1 DEF BacksOff
<1>14. ASSUME NEW d \in Dials, Check(d) PROVE TypeInv'
  <2>1. DialOK
    BY <1>10, <1>11, <1>14 DEF Check
  <2>2. end' \in EndTable
    <3>1. CASE UNCHANGED end
      BY <1>0, <3>1
    <3>2. CASE end' = [end EXCEPT ![dial[d].conn][dial[d].by] = "gone"]
      BY <1>0, <3>2 DEF EndTable, Ends
    <3> QED
      BY <1>14, <3>1, <3>2 DEF Check
  <2>3. NetOK
    BY <1>0, <1>14, <2>2 DEF NetOK, Check
  <2> QED
    BY <1>2, <1>3, <1>14, <2>1, <2>3 DEF Check
<1>15. ASSUME NEW d \in Dials, Leave(d) PROVE TypeInv'
  <2>1. TabOK
    BY <1>0, <1>15 DEF TabOK, Leave
  <2> QED
    BY <1>2, <1>3, <1>10, <1>11, <1>15, <2>1 DEF Leave
<1>16. ASSUME NEW n \in Nodes, Ages(n) \/ BackoffEnds(n) \/ CloseCancels(n) PROVE TypeInv'
  <2>1. TabOK
    BY <1>0, <1>16 DEF TabOK, Ages, BackoffEnds, CloseCancels
  <2> QED
    BY <1>2, <1>3, <1>16, <2>1 DEF Ages, BackoffEnds, CloseCancels
<1>17. ASSUME NEW c \in Conns, NEW n \in Nodes, NEW x \in Ends, NEW e \in EndTable,
              end' = [e EXCEPT ![c][n] = x]
       PROVE  end' \in EndTable
  BY <1>17, OneEnd
<1>18. {"shake", "answered", "read", "shut", "gone"} \subseteq Ends
  BY DEF Ends
<1>19. ASSUME NEW c \in Conns, NEW n \in Nodes, ServerAnswers(c, n) PROVE TypeInv'
  <2>1. NetOK
    BY <1>0, <1>17, <1>18, <1>19 DEF NetOK, ServerAnswers
  <2> QED
    BY <1>2, <1>3, <1>19, <2>1 DEF ServerAnswers
<1>20. ASSUME NEW c \in Conns, NEW n \in Nodes, RegisterConn(c, n) PROVE TypeInv'
  <2>1. DialOK
    BY <1>0, <1>4, <1>20, ReturnMoves DEF RegisterConn
  <2>2. TabOK
    BY <1>0, <1>20 DEF TabOK, RegisterConn
  <2>3. NetOK
    <3>1. OldClosed(n) \in EndTable
      BY <1>0, OldClosedEnds
    <3>2. end' = [OldClosed(n) EXCEPT ![c][n] = "read"]
      BY <1>20 DEF RegisterConn
    <3>3. end' \in EndTable
      BY <1>17, <1>18, <3>1, <3>2
    <3> QED
      BY <1>0, <1>20, <3>3 DEF NetOK, RegisterConn
  <2> QED
    BY <1>2, <2>1, <2>2, <2>3
<1>21. ASSUME NEW c \in Conns, NEW n \in Nodes, HandshakeFails(c, n) PROVE TypeInv'
  <2>1. DialOK
    BY <1>0, <1>4, <1>21, ReturnMoves DEF HandshakeFails
  <2>2. NetOK
    BY <1>0, <1>17, <1>18, <1>21 DEF NetOK, HandshakeFails
  <2> QED
    BY <1>2, <1>3, <1>21, <2>1, <2>2 DEF HandshakeFails
<1>22. ASSUME NEW c \in Conns, NEW n \in Nodes, ReaderExits(c, n) PROVE TypeInv'
  <2>1. TabOK
    BY <1>0, <1>22 DEF TabOK, ReaderExits, Deleted
  <2>2. NetOK
    BY <1>0, <1>17, <1>18, <1>22 DEF NetOK, ReaderExits
  <2> QED
    BY <1>2, <1>3, <1>22, <2>1, <2>2 DEF ReaderExits
<1>23. ASSUME NEW n \in Nodes, CloseStreams(n) PROVE TypeInv'
  <2>1. TabOK
    BY <1>0, <1>23 DEF TabOK, CloseStreams, Emptied
  <2>2. NetOK
    BY <1>0, <1>23, OldClosedEnds DEF NetOK, CloseStreams
  <2> QED
    BY <1>2, <1>3, <1>23, <2>1, <2>2 DEF CloseStreams
<1>24. CASE UNCHANGED vars
  BY <1>2, <1>3, <1>24 DEF vars
<1> QED
  BY <1>5, <1>8, <1>9, <1>a, <1>12, <1>13, <1>14, <1>15, <1>16, <1>19, <1>20, <1>21,
     <1>22, <1>23, <1>24
  DEF Next, DialStep, Shake, ReaderEnds, StreamBreaks

(* The variables always have their types.                                  *)
THEOREM TypeCorrect == Spec => []TypeOK
<1>1. TypeInv => TypeOK
  BY DEF TypeInv
<1> QED
  BY <1>1, TypeInit, TypeStep, PTL DEF Spec

-----------------------------------------------------------------------------
(* The table and the readers                                               *)

Unconnected(d) == dial[d].pc \in {"none", "dial"}

(* The stream of a dial that has not connected does not exist yet, and no  *)
(* call works on a stream that does not.                                   *)
StreamsAreNew ==
  /\ \A d \in Dials : Unconnected(d) => \A n \in Nodes : end[d][n] = "none"
  /\ \A c \in Conns, n \in Nodes : end[c][n] = "none" => \A e \in Dials : dial[e].conn # c

(* A call that is about to look at the table a last time has a stream      *)
(* nobody on its side has touched.                                         *)
CheckedIsFresh ==
  \A d \in Dials : dial[d].pc = "check" =>
    dial[d].conn \in Conns /\ end[dial[d].conn][dial[d].by] = "shake"

(* Two calls work on one stream only when their dials met in it.           *)
TwinsAreApart ==
  \A d, e \in Dials : d # e /\ dial[d].conn = dial[e].conn /\ dial[d].conn # 0
                         => dial[d].by # dial[e].by

StreamInv ==
  /\ TypeInv /\ TableIsRead /\ NoOrphanStream
  /\ StreamsAreNew /\ CheckedIsFresh /\ TwinsAreApart

StreamGoal ==
  TableIsRead /\ NoOrphanStream /\ StreamsAreNew /\ CheckedIsFresh /\ TwinsAreApart

(* What the proofs below use of the types.                                 *)
LEMMA Shapes ==
  ASSUME TypeInv
  PROVE  /\ dial \in [Dials -> Calls] /\ end \in EndTable
         /\ conns \in [Nodes -> Conns \union {NoConn}]
         /\ \A d \in Dials : dial[d].pc # "none" => dial[d].by \in Nodes
         /\ Conns = Dials /\ NoConn \notin Conns /\ 0 \notin Dials
  BY DEF TypeInv, TypeOK, Begun, EndTable, Conns, Dials

(* A call that moves on, and nothing else.                                 *)
LEMMA CallsMove ==
  ASSUME StreamInv, MovesOn, UNCHANGED <<conns, end>>
  PROVE  StreamGoal'
<1>1. TableIsRead' /\ NoOrphanStream'
  BY DEF StreamInv, TableIsRead, NoOrphanStream, HasConn
<1>2. \A d \in Dials : /\ dial'[d].by = dial[d].by /\ dial'[d].conn = dial[d].conn
                      /\ (Unconnected(d)' => Unconnected(d))
                      /\ (dial'[d].pc = "check" => dial[d].pc = "check")
  BY DEF MovesOn, Onward, Unconnected
<1>3. StreamsAreNew' /\ CheckedIsFresh' /\ TwinsAreApart'
  BY <1>2 DEF StreamInv, StreamsAreNew, CheckedIsFresh, TwinsAreApart
<1> QED
  BY <1>1, <1>3 DEF StreamGoal

(* A handshake or a reader changes its own end of its own stream, closes   *)
(* the end the table names, and names in the table what it leaves reading. *)
LEMMA EndsMove ==
  ASSUME StreamInv, MovesOn \/ UNCHANGED dial, NEW c \in Conns, NEW n \in Nodes,
         end[c][n] # "none", end'[c][n] # "none",
         \A d \in DialOf(c, n) : dial'[d].pc # "check",
         \A b \in Conns, m \in Nodes :
           b # c \/ m # n =>
             (end'[b][m] = end[b][m] \/ (end[b][m] = "read" /\ end'[b][m] = "shut")),
         TableIsRead', NoOrphanStream'
  PROVE  StreamGoal'
<1>1. \A d \in Dials : /\ dial'[d].by = dial[d].by /\ dial'[d].conn = dial[d].conn
                      /\ (Unconnected(d)' => Unconnected(d))
                      /\ (dial'[d].pc = "check" => dial[d].pc = "check")
  BY DEF MovesOn, Onward, Unconnected
<1>2. /\ \A d \in Dials : dial[d].pc # "none" => dial[d].by \in Nodes
      /\ Conns = Dials
  BY Shapes DEF StreamInv
<1>3. StreamsAreNew'
  <2>1. \A b \in Conns, m \in Nodes : (end'[b][m] = "none") <=> (end[b][m] = "none")
    OBVIOUS
  <2> QED
    BY <1>1, <1>2, <2>1 DEF StreamInv, StreamsAreNew
<1>4. CheckedIsFresh'
  <2> SUFFICES ASSUME NEW d \in Dials, dial'[d].pc = "check"
               PROVE  dial[d].conn \in Conns /\ end'[dial[d].conn][dial[d].by] = "shake"
    BY <1>1 DEF CheckedIsFresh
  <2>1. dial[d].pc = "check"
    BY <1>1
  <2>2. /\ dial[d].conn \in Conns /\ dial[d].by \in Nodes
        /\ end[dial[d].conn][dial[d].by] = "shake"
    BY <1>2, <2>1 DEF StreamInv, CheckedIsFresh
  <2>3. dial[d].conn # c \/ dial[d].by # n
    BY DEF DialOf
  <2> QED
    BY <2>2, <2>3
<1>5. TwinsAreApart'
  BY <1>1 DEF StreamInv, TwinsAreApart
<1> QED
  BY <1>3, <1>4, <1>5 DEF StreamGoal

(* A stream comes into being for the calls that take it.                   *)
LEMMA StreamBegins ==
  ASSUME StreamInv, NEW c \in Conns, NEW D \in SUBSET Dials,
         \A m \in Nodes : end[c][m] = "none", Unconnected(c) => c \in D,
         NEW N, NEW s, Opens(c, N, s),
         \A d \in D : dial[d].pc = "dial" /\ dial[d].by \in N,
         \A d, e \in D : d # e => dial[d].by # dial[e].by,
         \A d \in Dials : dial'[d].by = dial[d].by,
         \A d \in D : dial'[d].pc = "check" /\ dial'[d].conn = c,
         \A d \in Dials \ D : dial'[d] = dial[d],
         UNCHANGED conns
  PROVE  StreamGoal'
<1>1. /\ end \in EndTable /\ conns \in [Nodes -> Conns \union {NoConn}]
      /\ \A d \in Dials : dial[d].pc # "none" => dial[d].by \in Nodes
      /\ Conns = Dials /\ NoConn \notin Conns /\ 0 \notin Dials
  BY Shapes DEF StreamInv
<1>2. /\ \A m \in Nodes : end'[c][m] = IF m \in N THEN "shake" ELSE "lost"
      /\ \A b \in Conns, m \in Nodes : b # c => end'[b][m] = end[b][m]
  BY <1>1, NewStream
<1>3. \A e \in Dials : dial[e].conn # c
  BY <1>1 DEF StreamInv, StreamsAreNew
<1>4. \A m \in Nodes : conns[m] # c
  BY <1>1, <1>3 DEF StreamInv, TableIsRead, HasConn
<1>5. TableIsRead'
  BY <1>1, <1>2, <1>4 DEF StreamInv, TableIsRead, HasConn
<1>6. NoOrphanStream'
  BY <1>2 DEF StreamInv, NoOrphanStream
<1>7. StreamsAreNew'
  <2>1. ASSUME NEW d \in Dials, Unconnected(d)'
        PROVE  \A n \in Nodes : end'[d][n] = "none"
    <3>1. d \notin D
      BY <2>1 DEF Unconnected
    <3>2. Unconnected(d) /\ d # c
      BY <2>1, <3>1 DEF Unconnected
    <3> QED
      BY <1>1, <1>2, <3>2 DEF StreamInv, StreamsAreNew
  <2>2. ASSUME NEW b \in Conns, NEW n \in Nodes, end'[b][n] = "none", NEW e \in Dials
        PROVE  dial'[e].conn # b
    <3>1. b # c /\ end[b][n] = "none"
      BY <1>2, <2>2
    <3> QED
      BY <3>1 DEF StreamInv, StreamsAreNew
  <2> QED
    BY <2>1, <2>2 DEF StreamsAreNew
<1>8. CheckedIsFresh'
  <2> SUFFICES ASSUME NEW d \in Dials, dial'[d].pc = "check"
               PROVE  dial'[d].conn \in Conns /\ end'[dial'[d].conn][dial[d].by] = "shake"
    BY DEF CheckedIsFresh
  <2>1. CASE d \in D
    BY <1>1, <1>2, <2>1
  <2>2. CASE d \notin D
    BY <1>1, <1>2, <2>2 DEF StreamInv, CheckedIsFresh
  <2> QED
    BY <2>1, <2>2
<1>9. TwinsAreApart'
  BY <1>3 DEF StreamInv, TwinsAreApart
<1> QED
  BY <1>5, <1>6, <1>7, <1>8, <1>9 DEF StreamGoal

(* Each step keeps the table and the readers together.                     *)
LEMMA StreamStep == StreamInv /\ [Next]_vars => StreamInv'
<1> SUFFICES ASSUME StreamInv, [Next]_vars PROVE StreamGoal'
  BY TypeStep DEF StreamInv, StreamGoal
<1>0. /\ TypeOK /\ dial \in [Dials -> Calls] /\ end \in EndTable
      /\ conns \in [Nodes -> Conns \union {NoConn}]
      /\ \A d \in Dials : dial[d].pc # "none" => dial[d].by \in Nodes
      /\ Conns = Dials /\ NoConn \notin Conns /\ 0 \notin Dials
  BY Shapes DEF StreamInv, TypeInv
<1>1. ASSUME UNCHANGED <<dial, conns, end>> PROVE StreamGoal'
  BY <1>1 DEF StreamInv, StreamGoal, TableIsRead, HasConn, NoOrphanStream,
              StreamsAreNew, Unconnected, CheckedIsFresh, TwinsAreApart
<1>2. ASSUME NEW d \in Dials, NEW pc \in Onward, dial[d].pc # "none", Goto(d, pc),
             UNCHANGED <<conns, end>>
      PROVE  StreamGoal'
  BY <1>0, <1>2, GotoMoves, CallsMove
<1>3. {"failed", "penalty", "shake", "leave", "left"} \subseteq Onward
  BY DEF Onward
<1>4. ASSUME NEW d \in Dials, NEW n \in Nodes, NEW force \in BOOLEAN,
           Start(d, n, force) PROVE StreamGoal'
  <2>1. /\ \A e \in Dials \ {d} : dial'[e] = dial[e]
        /\ dial'[d].pc = "dial" /\ dial'[d].conn = 0
        /\ Unconnected(d) /\ UNCHANGED <<conns, end>>
    BY <1>0, <1>4 DEF Start, Unconnected, tabVars, netVars
  <2> QED
    BY <1>0, <2>1
    DEF StreamInv, StreamGoal, TableIsRead, HasConn, NoOrphanStream,
        StreamsAreNew, Unconnected, CheckedIsFresh, TwinsAreApart
<1>5. ASSUME NEW d \in Dials, NEW c \in Dials
      PROVE  LET q == [dial[d] EXCEPT !.pc = "check", !.conn = c]
             IN  q \in Calls /\ q.pc = "check" /\ q.by = dial[d].by /\ q.conn = c
  <2>1. c \in 0 .. MaxDials
    BY DEF Dials
  <2> QED
    BY <1>0, <2>1, CallConnects
<1>6. ASSUME NEW d \in Dials, Connects(d) \/ AcceptedInVain(d) PROVE StreamGoal'
  <2> DEFINE q == [dial[d] EXCEPT !.pc = "check", !.conn = d]
  <2>1. q.pc = "check" /\ q.by = dial[d].by /\ q.conn = d
    BY <1>5
  <2>2. dial' = [dial EXCEPT ![d] = q]
    BY <1>6 DEF Connects, AcceptedInVain
  <2> HIDE DEF q
  <2>3. /\ \A e \in Dials : dial'[e].by = dial[e].by
        /\ \A e \in {d} : dial'[e].pc = "check" /\ dial'[e].conn = d
        /\ \A e \in Dials \ {d} : dial'[e] = dial[e]
    BY <1>0, <2>1, <2>2
  <2>4. Unconnected(d) /\ UNCHANGED conns /\ dial[d].pc = "dial"
    BY <1>6 DEF Connects, AcceptedInVain, Unconnected, tabVars
  <2>5. {d} \in SUBSET Dials /\ d \in Conns /\ dial[d].by \in Nodes
    BY <1>0, <2>4
  <2>6. \A m \in Nodes : end[d][m] = "none"
    BY <2>4 DEF StreamInv, StreamsAreNew
  <2>7. PICK N : Opens(d, N, Other(dial[d].by)) /\ dial[d].by \in N
    BY <1>6, <2>5 DEF Connects, AcceptedInVain
  <2>8. /\ \A f \in {d} : dial[f].pc = "dial" /\ dial[f].by \in N
        /\ \A f, g \in {d} : f # g => dial[f].by # dial[g].by
        /\ Unconnected(d) => d \in {d}
    BY <2>4, <2>7
  <2> QED
    BY <2>3, <2>4, <2>5, <2>6, <2>7, <2>8, StreamBegins
<1>7. ASSUME NEW d \in Dials, NEW e \in Dials, MeetsDial(d, e) PROVE StreamGoal'
  <2> DEFINE q == [dial[d] EXCEPT !.pc = "check", !.conn = d]
             s == [dial[e] EXCEPT !.pc = "check", !.conn = d]
  <2>1. /\ q.pc = "check" /\ q.by = dial[d].by /\ q.conn = d
        /\ s.pc = "check" /\ s.by = dial[e].by /\ s.conn = d
    BY <1>5
  <2>2. d # e /\ dial[d].pc = "dial" /\ dial[e].pc = "dial" /\ dial[d].by # dial[e].by
    BY <1>7 DEF MeetsDial
  <2>3. dial' = [dial EXCEPT ![d] = q, ![e] = s]
    BY <1>0, <1>7, <2>2 DEF MeetsDial
  <2> HIDE DEF q, s
  <2>4. /\ \A f \in Dials : dial'[f].by = dial[f].by
        /\ \A f \in {d, e} : dial'[f].pc = "check" /\ dial'[f].conn = d
        /\ \A f \in Dials \ {d, e} : dial'[f] = dial[f]
    BY <1>0, <2>1, <2>2, <2>3
  <2>5. Unconnected(d) /\ UNCHANGED conns
    BY <1>7 DEF MeetsDial, Unconnected, tabVars
  <2>6. {d, e} \in SUBSET Dials /\ d \in Conns /\ \A f \in {d, e} : dial[f].by \in Nodes
    BY <1>0, <2>2
  <2>7. \A m \in Nodes : end[d][m] = "none"
    BY <2>5 DEF StreamInv, StreamsAreNew
  <2>8. PICK n \in Nodes : Opens(d, Nodes, n)
    BY <1>7 DEF MeetsDial
  <2>9. /\ \A f \in {d, e} : dial[f].pc = "dial" /\ dial[f].by \in Nodes
        /\ \A f, g \in {d, e} : f # g => dial[f].by # dial[g].by
        /\ Unconnected(d) => d \in {d, e}
    BY <2>2, <2>6
  <2> QED
    BY <2>4, <2>5, <2>6, <2>7, <2>8, <2>9, StreamBegins
<1>b. ASSUME NEW d \in Dials, ConnectsInVain(d) PROVE StreamGoal'
  <2>1. /\ d \in Conns /\ {} \in SUBSET Dials /\ ~Unconnected(d)
        /\ \A m \in Nodes : end[d][m] = "none"
        /\ UNCHANGED <<dial, conns>>
    BY <1>0, <1>b DEF ConnectsInVain, Unconnected, tabVars
  <2>2. PICK N, s : Opens(d, N, s)
    BY <1>b DEF ConnectsInVain
  <2> QED
    BY <2>1, <2>2, StreamBegins
<1>8. ASSUME NEW d \in Dials,
             NoLongerNeeded(d) \/ EveryWayFails(d) \/ FailedAlone(d) \/ BacksOff(d) \/ Leave(d)
      PROVE  StreamGoal'
  BY <1>2, <1>3, <1>8
  DEF NoLongerNeeded, EveryWayFails, FailedAlone, BacksOff, Leave, tabVars, netVars
<1>9. ASSUME NEW d \in Dials, Check(d) PROVE StreamGoal'
  <2>1. CASE UNCHANGED end /\ Goto(d, "shake")
    BY <1>2, <1>3, <1>9, <2>1 DEF Check, tabVars
  <2>2. CASE end' = [end EXCEPT ![dial[d].conn][dial[d].by] = "gone"] /\ Goto(d, "leave")
    <3>1. PICK c \in Conns, n \in Nodes : c = dial[d].conn /\ n = dial[d].by
      BY <1>0, <1>9 DEF Check, StreamInv, CheckedIsFresh
    <3>2. end[c][n] = "shake"
      BY <1>9, <3>1 DEF Check, StreamInv, CheckedIsFresh
    <3>3. "gone" \in Ends
      BY DEF Ends
    <3>4. end'[c][n] = "gone" /\ \A b \in Conns, m \in Nodes :
                                   b # c \/ m # n => end'[b][m] = end[b][m]
      BY <1>0, <2>2, <3>1, <3>3, OneEnd
    <3>5. MovesOn /\ dial'[d].pc = "leave"
      BY <1>0, <1>3, <1>9, <2>2, GotoMoves DEF Check
    <3>6. \A e \in DialOf(c, n) : e = d
      BY <1>0, <3>1 DEF DialOf, StreamInv, TwinsAreApart
    <3>7. UNCHANGED conns
      BY <1>9 DEF Check, tabVars
    <3>8. TableIsRead'
      BY <1>0, <3>2, <3>4, <3>7 DEF StreamInv, TableIsRead, HasConn
    <3>9. NoOrphanStream'
      BY <3>4, <3>7 DEF StreamInv, NoOrphanStream
    <3> QED
      BY <3>2, <3>4, <3>5, <3>6, <3>8, <3>9, EndsMove
  <2> QED
    BY <1>9, <2>1, <2>2 DEF Check
<1>10. ASSUME NEW c \in Conns, NEW n \in Nodes, AtWork(c, n)
       PROVE  \A d \in DialOf(c, n) : d \in Dials /\ dial[d].pc = "shake"
  BY <1>10 DEF AtWork, DialOf
<1>11. {"shake", "answered", "read", "shut", "gone"} \subseteq Ends
  BY DEF Ends
<1>12. ASSUME NEW c \in Conns, NEW n \in Nodes, ServerAnswers(c, n) PROVE StreamGoal'
  <2>1. end'[c][n] = "answered" /\ \A b \in Conns, m \in Nodes :
                                      b # c \/ m # n => end'[b][m] = end[b][m]
    BY <1>0, <1>11, <1>12, OneEnd DEF ServerAnswers
  <2>2. end[c][n] = "shake" /\ UNCHANGED <<conns, dial>>
        /\ \A d \in DialOf(c, n) : dial'[d].pc # "check"
    BY <1>10, <1>12 DEF ServerAnswers, tabVars
  <2>3. TableIsRead'
    BY <1>0, <2>1, <2>2 DEF StreamInv, TableIsRead, HasConn
  <2>4. NoOrphanStream'
    BY <2>1, <2>2 DEF StreamInv, NoOrphanStream
  <2> QED
    BY <2>1, <2>2, <2>3, <2>4, EndsMove
<1>13. ASSUME NEW c \in Conns, NEW n \in Nodes, HandshakeFails(c, n) PROVE StreamGoal'
  <2>1. end'[c][n] = "gone" /\ \A b \in Conns, m \in Nodes :
                                  b # c \/ m # n => end'[b][m] = end[b][m]
    BY <1>0, <1>11, <1>13, OneEnd DEF HandshakeFails
  <2>2. end[c][n] \in {"shake", "answered"} /\ UNCHANGED conns
    BY <1>13 DEF HandshakeFails, tabVars
  <2>3. MovesOn /\ \A d \in DialOf(c, n) : dial'[d].pc # "check"
    BY <1>0, <1>13, ReturnMoves DEF HandshakeFails
  <2>4. TableIsRead'
    BY <1>0, <2>1, <2>2 DEF StreamInv, TableIsRead, HasConn
  <2>5. NoOrphanStream'
    BY <2>1, <2>2 DEF StreamInv, NoOrphanStream
  <2> QED
    BY <2>1, <2>2, <2>3, <2>4, <2>5, EndsMove
<1>14. ASSUME NEW c \in Conns, NEW n \in Nodes, RegisterConn(c, n) PROVE StreamGoal'
  <2>1. /\ OldClosed(n) \in EndTable
        /\ \A b \in Conns, m \in Nodes :
             OldClosed(n)[b][m] = IF m = n /\ conns[n] = b THEN "shut" ELSE end[b][m]
    BY <1>0, OldClosedEnds
  <2>2. end' = [OldClosed(n) EXCEPT ![c][n] = "read"]
    BY <1>14 DEF RegisterConn
  <2>3. /\ end'[c][n] = "read"
        /\ \A b \in Conns, m \in Nodes : b # c \/ m # n => end'[b][m] = OldClosed(n)[b][m]
    BY <1>11, <2>1, <2>2, OneEnd
  <2>4. end[c][n] \in {"shake", "answered"} /\ conns' = [conns EXCEPT ![n] = c]
    BY <1>14 DEF RegisterConn, Agreed
  <2>5. MovesOn /\ \A d \in DialOf(c, n) : dial'[d].pc # "check"
    BY <1>0, <1>14, ReturnMoves DEF RegisterConn
  <2>6. conns'[n] = c /\ \A m \in Nodes \ {n} : conns'[m] = conns[m]
    BY <1>0, <2>4
  <2>7. TableIsRead'
    BY <1>0, <2>1, <2>3, <2>6 DEF StreamInv, TableIsRead, HasConn
  <2>8. NoOrphanStream'
    BY <1>0, <2>1, <2>3, <2>6 DEF StreamInv, NoOrphanStream
  <2>9. \A b \in Conns, m \in Nodes :
          b # c \/ m # n =>
            (end'[b][m] = end[b][m] \/ (end[b][m] = "read" /\ end'[b][m] = "shut"))
    BY <1>0, <2>1, <2>3 DEF StreamInv, TableIsRead, HasConn
  <2> QED
    BY <2>3, <2>4, <2>5, <2>7, <2>8, <2>9, EndsMove
<1>15. ASSUME NEW c \in Conns, NEW n \in Nodes, ReaderExits(c, n) PROVE StreamGoal'
  <2>1. end'[c][n] = "gone" /\ \A b \in Conns, m \in Nodes :
                                  b # c \/ m # n => end'[b][m] = end[b][m]
    BY <1>0, <1>11, <1>15, OneEnd DEF ReaderExits
  <2>2. /\ end[c][n] \in {"read", "shut"} /\ UNCHANGED dial
        /\ conns' = IF conns[n] = c THEN [conns EXCEPT ![n] = NoConn] ELSE conns
    BY <1>15 DEF ReaderExits, Deleted
  <2>3. /\ conns'[n] = IF conns[n] = c THEN NoConn ELSE conns[n]
        /\ \A m \in Nodes \ {n} : conns'[m] = conns[m]
    BY <1>0, <2>2
  <2>4. \A d \in DialOf(c, n) : dial'[d].pc # "check"
    BY <2>2 DEF DialOf, StreamInv, CheckedIsFresh
  <2>5. TableIsRead'
    BY <1>0, <2>1, <2>3 DEF StreamInv, TableIsRead, HasConn
  <2>6. NoOrphanStream'
    BY <1>0, <2>1, <2>3 DEF StreamInv, NoOrphanStream
  <2> QED
    BY <2>1, <2>2, <2>4, <2>5, <2>6, EndsMove
<1>16. ASSUME NEW n \in Nodes, CloseStreams(n) PROVE StreamGoal'
  <2>1. /\ \A b \in Conns, m \in Nodes :
             end'[b][m] = IF m = n /\ conns[n] = b THEN "shut" ELSE end[b][m]
        /\ conns' = [conns EXCEPT ![n] = NoConn] /\ UNCHANGED dial
    BY <1>0, <1>16, OldClosedEnds DEF CloseStreams, Emptied
  <2>2. conns'[n] = NoConn /\ \A m \in Nodes \ {n} : conns'[m] = conns[m]
    BY <1>0, <2>1
  <2>3. TableIsRead'
    BY <1>0, <2>1, <2>2 DEF StreamInv, TableIsRead, HasConn
  <2>4. NoOrphanStream'
    BY <1>0, <2>1, <2>2 DEF StreamInv, NoOrphanStream
  <2>5. CASE HasConn(n)
    <3>1. PICK c \in Conns : c = conns[n]
      BY <1>0, <2>5 DEF HasConn
    <3>2. end[c][n] = "read"
      BY <2>5, <3>1 DEF StreamInv, TableIsRead
    <3>3. \A d \in DialOf(c, n) : dial'[d].pc # "check"
      BY <2>1, <3>2 DEF DialOf, StreamInv, CheckedIsFresh
    <3> QED
      BY <2>1, <2>3, <2>4, <3>1, <3>2, <3>3, EndsMove
  <2>6. CASE ~HasConn(n)
    <3>1. \A b \in Conns, m \in Nodes : end'[b][m] = end[b][m]
      BY <1>0, <2>1, <2>6 DEF HasConn
    <3> QED
      BY <1>0, <2>1, <2>3, <2>4, <3>1
      DEF StreamInv, StreamGoal, StreamsAreNew, Unconnected, CheckedIsFresh, TwinsAreApart
  <2> QED
    BY <2>5, <2>6
<1>17. ASSUME NEW n \in Nodes, Ages(n) \/ BackoffEnds(n) \/ CloseCancels(n) PROVE StreamGoal'
  BY <1>1, <1>17 DEF Ages, BackoffEnds, CloseCancels, netVars
<1>18. CASE UNCHANGED vars
  BY <1>1, <1>18 DEF vars, tabVars, netVars
<1> QED
  BY <1>4, <1>6, <1>7, <1>b, <1>8, <1>9, <1>12, <1>13, <1>14, <1>15, <1>16, <1>17, <1>18
  DEF Next, DialStep, Shake, ReaderEnds, StreamBreaks

LEMMA StreamInit == Init => StreamInv
<1> SUFFICES ASSUME Init PROVE StreamInv
  OBVIOUS
<1>1. \A d \in Dials : dial[d].pc = "none" /\ dial[d].conn = 0
  BY DEF Init, NoDial
<1>2. /\ \A n \in Nodes : conns[n] = NoConn
      /\ \A c \in Conns, n \in Nodes : end[c][n] = "none"
  BY DEF Init
<1>3. TypeInv
  BY TypeInit
<1>4. Conns = Dials /\ 0 \notin Dials
  BY DEF Conns, Dials
<1> QED
  BY <1>1, <1>2, <1>3, <1>4
  DEF StreamInv, TableIsRead, HasConn, NoOrphanStream, StreamsAreNew, CheckedIsFresh, TwinsAreApart

(* SendPacket never finds a stream in the table whose reader is gone.      *)
THEOREM TableNamesReaders == Spec => []TableIsRead
<1>1. StreamInv => TableIsRead
  BY DEF StreamInv
<1> QED
  BY <1>1, StreamInit, StreamStep, PTL DEF Spec

(* No stream is read without being in the table.                           *)
THEOREM ReadersAreNamed == Spec => []NoOrphanStream
<1>1. StreamInv => NoOrphanStream
  BY DEF StreamInv
<1> QED
  BY <1>1, StreamInit, StreamStep, PTL DEF Spec

-----------------------------------------------------------------------------
(* The entries that refuse a second dial                                   *)

UnderWay(d) == dial[d].pc \notin {"none", "left"}

(* An entry in connecting stands for a call of its node that has not left: *)
(* it has a deadline, and it removes the entry when it leaves. No order of *)
(* dials that fail, connect, meet or are overtaken leaves one without.     *)
EntryHasCall ==
  \A n \in Nodes : connecting[n] # "no" => \E d \in Dials : dial[d].by = n /\ UnderWay(d)

(* A step after which every call under way still is.                       *)
LEMMA CallsGoOn ==
  ASSUME EntryHasCall,
         \A n \in Nodes : connecting'[n] # "no" => connecting[n] # "no",
         \A d \in Dials : /\ dial'[d].by = dial[d].by
                          /\ UnderWay(d) => dial'[d].pc \notin {"none", "left"}
  PROVE  EntryHasCall'
  BY DEF EntryHasCall, UnderWay

(* The calls under way after one of them has moved on.                     *)
LEMMA OneMoves ==
  ASSUME TypeInv, NEW d \in Dials, NEW pc \in Onward \ {"left"}, Goto(d, pc)
  PROVE  \A e \in Dials : /\ dial'[e].by = dial[e].by
                          /\ UnderWay(e) => dial'[e].pc \notin {"none", "left"}
<1>1. dial \in [Dials -> Calls]
  BY Shapes
<1> DEFINE q == [dial[d] EXCEPT !.pc = pc]
<1>2. q.pc = pc /\ q.by = dial[d].by
  BY <1>1, CallMoves DEF Onward
<1>3. dial' = [dial EXCEPT ![d] = q]
  BY DEF Goto
<1> HIDE DEF q
<1> QED BY <1>1, <1>2, <1>3 DEF UnderWay, Onward

LEMMA EntryStep ==
  TypeInv /\ EntryHasCall /\ [Next]_vars => EntryHasCall'
<1> SUFFICES ASSUME TypeInv, EntryHasCall, [Next]_vars PROVE EntryHasCall'
  OBVIOUS
<1> DEFINE GoOn == \A e \in Dials : /\ dial'[e].by = dial[e].by
                                    /\ UnderWay(e) => dial'[e].pc \notin {"none", "left"}
           NoneNew == \A n \in Nodes : connecting'[n] # "no" => connecting[n] # "no"
<1>0. /\ TypeOK /\ dial \in [Dials -> Calls]
      /\ connecting \in [Nodes -> {"no", "fresh", "stale"}]
      /\ \A d \in Dials : dial[d].pc # "none" => dial[d].by \in Nodes
  BY DEF TypeInv, TypeOK, Begun
<1>1. GoOn /\ NoneNew => EntryHasCall'
  BY CallsGoOn
<1>2. /\ UNCHANGED dial => GoOn
      /\ UNCHANGED connecting => NoneNew
  BY DEF UnderWay
<1>3. ASSUME NEW d \in Dials, NEW n \in Nodes, NEW force \in BOOLEAN, Start(d, n, force)
      PROVE  EntryHasCall'
  <2>1. /\ dial' = [dial EXCEPT ![d] = [by |-> n, pc |-> "dial", conn |-> 0]]
        /\ connecting' = [connecting EXCEPT ![n] = "fresh"] /\ dial[d].pc = "none"
    BY <1>3 DEF Start
  <2>2. dial'[d].by = n /\ dial'[d].pc = "dial"
        /\ \A e \in Dials \ {d} : dial'[e] = dial[e]
    BY <1>0, <2>1
  <2>3. \A m \in Nodes \ {n} : connecting'[m] = connecting[m]
    BY <1>0, <2>1
  <2> SUFFICES ASSUME NEW m \in Nodes, connecting'[m] # "no"
               PROVE  \E e \in Dials : dial'[e].by = m /\ dial'[e].pc \notin {"none", "left"}
    BY DEF EntryHasCall, UnderWay
  <2>4. CASE m = n
    BY <2>2, <2>4
  <2>5. CASE m # n
    <3>1. PICK e \in Dials : dial[e].by = m /\ dial[e].pc \notin {"none", "left"}
      BY <2>3, <2>5 DEF EntryHasCall, UnderWay
    <3> QED BY <2>1, <2>2, <3>1
  <2> QED BY <2>4, <2>5
<1>4. ASSUME NEW d \in Dials, NEW c \in Dials
      PROVE  LET q == [dial[d] EXCEPT !.pc = "check", !.conn = c]
             IN  q.pc = "check" /\ q.by = dial[d].by
  <2>1. c \in 0 .. MaxDials
    BY DEF Dials
  <2> QED BY <1>0, <2>1, CallConnects
<1> HIDE DEF GoOn, NoneNew
<1>5. ASSUME NEW d \in Dials, Connects(d) \/ AcceptedInVain(d) PROVE EntryHasCall'
  <2> DEFINE q == [dial[d] EXCEPT !.pc = "check", !.conn = d]
  <2>1. q.pc = "check" /\ q.by = dial[d].by /\ dial' = [dial EXCEPT ![d] = q]
    BY <1>4, <1>5 DEF Connects, AcceptedInVain
  <2> HIDE DEF q
  <2>2. GoOn
    BY <1>0, <2>1 DEF GoOn, UnderWay
  <2> QED BY <1>1, <1>2, <1>5, <2>2 DEF Connects, AcceptedInVain, tabVars
<1>6. ASSUME NEW d \in Dials, NEW e \in Dials, MeetsDial(d, e) PROVE EntryHasCall'
  <2> DEFINE q == [dial[d] EXCEPT !.pc = "check", !.conn = d]
             s == [dial[e] EXCEPT !.pc = "check", !.conn = d]
  <2>1. q.pc = "check" /\ q.by = dial[d].by /\ s.pc = "check" /\ s.by = dial[e].by
    BY <1>4
  <2>2. d # e
    BY <1>6 DEF MeetsDial
  <2>3. dial' = [dial EXCEPT ![d] = q, ![e] = s]
    BY <1>0, <1>6, <2>2 DEF MeetsDial
  <2> HIDE DEF q, s
  <2>4. GoOn
    BY <1>0, <2>1, <2>2, <2>3 DEF GoOn, UnderWay
  <2> QED BY <1>1, <1>2, <1>6, <2>4 DEF MeetsDial, tabVars
<1>7. ASSUME NEW d \in Dials, NEW pc \in Onward \ {"left"}, Goto(d, pc) PROVE GoOn
  BY <1>7, OneMoves DEF GoOn
<1>8. {"failed", "penalty", "shake", "leave"} \subseteq Onward \ {"left"}
  BY DEF Onward
<1>9. ASSUME NEW d \in Dials,
             \/ NoLongerNeeded(d) \/ EveryWayFails(d) \/ FailedAlone(d)
             \/ BacksOff(d) \/ Check(d)
      PROVE  EntryHasCall'
  <2>1. \E pc \in {"failed", "penalty", "shake", "leave"} : Goto(d, pc)
    BY <1>9 DEF NoLongerNeeded, EveryWayFails, FailedAlone, BacksOff, Check
  <2>2. UNCHANGED connecting
    BY <1>9 DEF NoLongerNeeded, EveryWayFails, FailedAlone, BacksOff, Check, tabVars
  <2> QED BY <1>1, <1>2, <1>7, <1>8, <2>1, <2>2
<1>10. ASSUME NEW d \in Dials, Leave(d) PROVE EntryHasCall'
  <2>1. /\ dial[d].pc = "leave" /\ dial[d].by \in Nodes
        /\ connecting' = [connecting EXCEPT ![dial[d].by] = "no"]
        /\ \A e \in Dials \ {d} : dial'[e] = dial[e]
    BY <1>0, <1>10 DEF Leave, Goto
  <2> SUFFICES ASSUME NEW m \in Nodes, connecting'[m] # "no"
               PROVE  \E e \in Dials : dial'[e].by = m /\ dial'[e].pc \notin {"none", "left"}
    BY DEF EntryHasCall, UnderWay
  <2>2. m # dial[d].by /\ connecting[m] # "no"
    BY <1>0, <2>1
  <2>3. PICK e \in Dials : dial[e].by = m /\ dial[e].pc \notin {"none", "left"}
    BY <2>2 DEF EntryHasCall, UnderWay
  <2> QED BY <2>1, <2>2, <2>3
<1>11. ASSUME NEW n \in Nodes, Ages(n) PROVE EntryHasCall'
  <2>1. NoneNew /\ UNCHANGED dial
    BY <1>0, <1>11 DEF Ages, NoneNew
  <2> QED BY <1>1, <1>2, <2>1
<1>12. ASSUME UNCHANGED <<connecting, dial>> PROVE EntryHasCall'
  BY <1>1, <1>2, <1>12
<1>13. ASSUME NEW n \in Nodes, BackoffEnds(n) \/ CloseCancels(n) \/ CloseStreams(n)
       PROVE  EntryHasCall'
  BY <1>12, <1>13 DEF BackoffEnds, CloseCancels, CloseStreams
<1>a. ASSUME NEW d \in Dials, ConnectsInVain(d) PROVE EntryHasCall'
  BY <1>12, <1>a DEF ConnectsInVain, tabVars
<1>14. ASSUME NEW c \in Conns, NEW n \in Nodes,
              ServerAnswers(c, n) \/ ReaderExits(c, n)
       PROVE  EntryHasCall'
  BY <1>12, <1>14 DEF ServerAnswers, ReaderExits, tabVars
<1>15. ASSUME NEW c \in Conns, NEW n \in Nodes, RegisterConn(c, n) \/ HandshakeFails(c, n)
       PROVE  EntryHasCall'
  <2>1. AtWork(c, n) /\ CallReturns(c, n) /\ UNCHANGED connecting
    BY <1>15 DEF RegisterConn, HandshakeFails, tabVars
  <2>2. MovesOn /\ \A d \in DialOf(c, n) : dial'[d].pc = "leave"
    BY <1>0, <2>1, ReturnMoves
  <2>3. \A d \in Dials \ DialOf(c, n) : dial'[d] = dial[d]
    BY <2>1 DEF CallReturns
  <2>4. GoOn
    BY <2>2, <2>3 DEF GoOn, MovesOn, UnderWay
  <2> QED BY <1>1, <1>2, <2>1, <2>4
<1>16. CASE UNCHANGED vars
  BY <1>12, <1>16 DEF vars, tabVars
<1> QED
  BY <1>3, <1>5, <1>6, <1>9, <1>10, <1>11, <1>13, <1>a, <1>14, <1>15, <1>16
  DEF Next, DialStep, Shake, ReaderEnds, StreamBreaks

(* An entry in connecting always has the call that will remove it, on which *)
(* DialEntryGoes rests.                                                    *)
THEOREM EntriesHaveCalls == Spec => []EntryHasCall
<1>1. Init => TypeInv /\ EntryHasCall
  BY TypeInit DEF Init, EntryHasCall
<1>2. TypeInv /\ [Next]_vars => TypeInv'
  BY TypeStep
<1> QED BY <1>1, <1>2, EntryStep, PTL DEF Spec

-----------------------------------------------------------------------------
(* Streams come and go once                                                *)

(* What an end of a stream may be next.                                    *)
Later ==
  [none     |-> {"none", "shake", "lost"},
   lost     |-> {"lost"},
   shake    |-> {"shake", "answered", "read", "gone"},
   answered |-> {"answered", "read", "gone"},
   read     |-> {"read", "shut", "gone"},
   shut     |-> {"shut", "gone"},
   gone     |-> {"gone"}]

(* No end of a stream is registered twice or comes back, and once a peer's *)
(* Close has shut its listener no stream with it begins.                   *)
StreamsWindDown ==
  /\ \A c \in Conns, n \in Nodes : end'[c][n] \in Later[end[c][n]]
  /\ \A n \in Nodes : mgr[n] = "down" =>
       /\ mgr'[n] = "down"
       /\ \A c \in Conns, m \in Nodes : end[c][m] = "none" => end'[c][m] = "none"

(* An end that stays or moves along Later.                                 *)
LEMMA OneEndLater ==
  ASSUME TypeOK, NEW c \in Conns, NEW n \in Nodes, NEW x \in Ends \ {"none"},
         x \in Later[end[c][n]], end[c][n] # "none",
         end' = [end EXCEPT ![c][n] = x], UNCHANGED mgr
  PROVE  StreamsWindDown
<1>1. end \in EndTable
  BY DEF TypeOK, EndTable
<1>2. /\ end'[c][n] = x
      /\ \A b \in Conns, m \in Nodes : b # c \/ m # n => end'[b][m] = end[b][m]
  BY <1>1, OneEnd
<1>3. \A y \in Ends : y \in Later[y]
  BY DEF Ends, Later
<1> QED
  BY <1>1, <1>2, <1>3 DEF StreamsWindDown, EndTable

(* A stream that begins had no ends, and both peers' listeners are open.   *)
LEMMA BeginsOnce ==
  ASSUME TypeInv, NEW d \in Dials, \A m \in Nodes : end[d][m] = "none",
         \A n \in Nodes : mgr[n] # "down", NEW N, NEW s, Opens(d, N, s)
  PROVE  StreamsWindDown
<1>1. end \in EndTable /\ d \in Conns
  BY Shapes
<1>2. \A b \in Conns, m \in Nodes :
        end'[b][m] = IF b = d THEN (IF m \in N THEN "shake" ELSE "lost") ELSE end[b][m]
  BY <1>1, NewStream
<1>4. \A y \in Ends : y \in Later[y]
  BY DEF Ends, Later
<1>5. "shake" \in Later["none"] /\ "lost" \in Later["none"]
  BY DEF Later
<1> QED
  BY <1>1, <1>2, <1>4, <1>5 DEF StreamsWindDown, EndTable

LEMMA WindDownStep == StreamInv /\ [Next]_vars => StreamsWindDown
<1> SUFFICES ASSUME StreamInv, [Next]_vars PROVE StreamsWindDown
  OBVIOUS
<1>0. /\ TypeInv /\ TypeOK /\ end \in EndTable /\ conns \in [Nodes -> Conns \union {NoConn}]
      /\ \A d \in Dials : dial[d].pc # "none" => dial[d].by \in Nodes
      /\ mgr \in [Nodes -> {"up", "cancelled", "down"}]
  BY Shapes DEF StreamInv, TypeInv, TypeOK
<1>1. \A y \in Ends : y \in Later[y]
  BY DEF Ends, Later
<1>2. \A x \in {"shake", "answered", "read", "shut"} : x # "none" /\ "gone" \in Later[x]
  BY DEF Later
<1>3. "gone" \in Ends \ {"none"} /\ "answered" \in Ends \ {"none"}
  BY DEF Ends
<1>4. ASSUME UNCHANGED end, \A n \in Nodes : mgr[n] = "down" => mgr'[n] = "down"
      PROVE  StreamsWindDown
  BY <1>0, <1>1, <1>4 DEF StreamsWindDown, EndTable
<1>5. ASSUME NEW d \in Dials, Connects(d) \/ AcceptedInVain(d) \/ ConnectsInVain(d)
      PROVE  StreamsWindDown
  <2>1. dial[d].by \in Nodes /\ mgr[dial[d].by] = "up" /\ mgr[Other(dial[d].by)] # "down"
    BY <1>0, <1>5 DEF Connects, AcceptedInVain, ConnectsInVain, Reaches
  <2>2. \A n \in Nodes : n = dial[d].by \/ n = Other(dial[d].by)
    BY <2>1, OtherPeer, TcpAssumption
  <2>3. \A m \in Nodes : end[d][m] = "none"
    BY <1>5 DEF Connects, AcceptedInVain, ConnectsInVain, Unconnected, StreamInv, StreamsAreNew
  <2>4. PICK N, s : Opens(d, N, s)
    BY <1>5 DEF Connects, AcceptedInVain, ConnectsInVain
  <2> QED
    BY <1>0, <2>1, <2>2, <2>3, <2>4, BeginsOnce
<1>6. ASSUME NEW d \in Dials, NEW e \in Dials, MeetsDial(d, e) PROVE StreamsWindDown
  <2>1. \A m \in Nodes : end[d][m] = "none" /\ mgr[m] # "down"
    BY <1>6 DEF MeetsDial, Unconnected, StreamInv, StreamsAreNew
  <2>2. PICK n \in Nodes : Opens(d, Nodes, n)
    BY <1>6 DEF MeetsDial
  <2> QED
    BY <1>0, <2>1, <2>2, BeginsOnce
<1>7. ASSUME NEW d \in Dials, Check(d) PROVE StreamsWindDown
  <2>1. /\ dial[d].conn \in Conns /\ dial[d].by \in Nodes
        /\ end[dial[d].conn][dial[d].by] = "shake"
    BY <1>0, <1>7 DEF Check, StreamInv, CheckedIsFresh
  <2>2. UNCHANGED mgr
    BY <1>7 DEF Check, tabVars
  <2>3. CASE UNCHANGED end
    BY <1>4, <2>2, <2>3
  <2>4. CASE end' = [end EXCEPT ![dial[d].conn][dial[d].by] = "gone"]
    BY <1>0, <1>2, <1>3, <2>1, <2>2, <2>4, OneEndLater
  <2> QED
    BY <1>7, <2>3, <2>4 DEF Check
<1>8. ASSUME NEW c \in Conns, NEW n \in Nodes, ServerAnswers(c, n) PROVE StreamsWindDown
  <2>1. "answered" \in Later["shake"]
    BY DEF Later
  <2> QED
    BY <1>0, <1>3, <1>8, <2>1, OneEndLater DEF ServerAnswers, tabVars
<1>9. ASSUME NEW c \in Conns, NEW n \in Nodes, HandshakeFails(c, n) \/ ReaderExits(c, n)
      PROVE  StreamsWindDown
  <2>1. /\ end[c][n] \in {"shake", "answered", "read", "shut"}
        /\ end' = [end EXCEPT ![c][n] = "gone"] /\ UNCHANGED mgr
    BY <1>9 DEF HandshakeFails, ReaderExits, tabVars
  <2> QED
    BY <1>0, <1>2, <1>3, <2>1, OneEndLater
<1>10. \A n \in Nodes, b \in Conns, m \in Nodes :
         /\ OldClosed(n)[b][m] \in Later[end[b][m]]
         /\ end[b][m] = "none" => OldClosed(n)[b][m] = "none"
         /\ end[b][m] # "read" => OldClosed(n)[b][m] = end[b][m]
  <2> SUFFICES ASSUME NEW n \in Nodes, NEW b \in Conns, NEW m \in Nodes
               PROVE  \/ OldClosed(n)[b][m] = end[b][m]
                      \/ end[b][m] = "read" /\ OldClosed(n)[b][m] = "shut"
    BY <1>0, <1>1 DEF EndTable, Later
  <2>1. OldClosed(n)[b][m] = IF m = n /\ conns[n] = b THEN "shut" ELSE end[b][m]
    BY <1>0, OldClosedEnds
  <2>2. m = n /\ conns[n] = b => end[b][m] = "read"
    BY <1>0, Shapes DEF StreamInv, TableIsRead, HasConn
  <2> QED
    BY <2>1, <2>2
<1>11. ASSUME NEW c \in Conns, NEW n \in Nodes, RegisterConn(c, n) PROVE StreamsWindDown
  <2>1. end[c][n] \in {"shake", "answered"} /\ UNCHANGED mgr
    BY <1>11 DEF RegisterConn, Agreed
  <2>2. end' = [OldClosed(n) EXCEPT ![c][n] = "read"] /\ OldClosed(n) \in EndTable
    BY <1>0, <1>11, OldClosedEnds DEF RegisterConn
  <2>3. "read" \in Ends /\ \A x \in {"shake", "answered"} : x # "none" /\ "read" \in Later[x]
    BY DEF Ends, Later
  <2>4. /\ end'[c][n] = "read"
        /\ \A b \in Conns, m \in Nodes : b # c \/ m # n => end'[b][m] = OldClosed(n)[b][m]
    BY <2>2, <2>3, OneEnd
  <2> QED
    BY <1>10, <2>1, <2>3, <2>4 DEF StreamsWindDown
<1>12. ASSUME NEW n \in Nodes, CloseStreams(n) PROVE StreamsWindDown
  <2>1. end' = OldClosed(n) /\ \A m \in Nodes : mgr[m] = "down" => mgr'[m] = "down"
    BY <1>0, <1>12 DEF CloseStreams
  <2> QED
    BY <1>10, <2>1 DEF StreamsWindDown
<1>13. ASSUME NEW n \in Nodes, Ages(n) \/ BackoffEnds(n) \/ CloseCancels(n)
       PROVE  StreamsWindDown
  BY <1>0, <1>4, <1>13 DEF Ages, BackoffEnds, CloseCancels, netVars
<1>14. ASSUME NEW d \in Dials,
              \/ NoLongerNeeded(d) \/ EveryWayFails(d) \/ FailedAlone(d)
              \/ BacksOff(d) \/ Leave(d)
       PROVE  StreamsWindDown
  BY <1>4, <1>14
  DEF NoLongerNeeded, EveryWayFails, FailedAlone, BacksOff, Leave, tabVars, netVars
<1>15. ASSUME NEW d \in Dials, NEW n \in Nodes, NEW force \in BOOLEAN, Start(d, n, force)
       PROVE  StreamsWindDown
  BY <1>4, <1>15 DEF Start, netVars
<1>16. CASE UNCHANGED vars
  BY <1>4, <1>16 DEF vars, tabVars, netVars
<1> QED
  BY <1>5, <1>6, <1>7, <1>8, <1>9, <1>11, <1>12, <1>13, <1>14, <1>15, <1>16
  DEF Next, DialStep, Shake, ReaderEnds, StreamBreaks

(* An end of a stream is registered at most once, and a peer that has shut *)
(* its listener gets no new stream: after Close the handshakes under way   *)
(* are all that can still come into the table (tcpholepunch.go:789-803),   *)
(* on which CloseIsFinal rests.                                            *)
THEOREM StreamsEndForGood == Spec => [][StreamsWindDown]_vars
<1> QED
  BY StreamInit, StreamStep, WindDownStep, PTL DEF Spec

-----------------------------------------------------------------------------
(* Streams registered on one side only                                     *)

(* The server, and the server only, sends its identifier and waits for its *)
(* own registration; nobody registers a stream before it was sent.         *)
HandshakeInv ==
  \A c \in Conns :
    /\ \A n \in Nodes : end[c][n] = "answered" => server[c] = n
    /\ \A n \in Nodes : end[c][n] \in {"answered", "read", "shut"} => c \in told
    /\ c \in told => server[c] \in Nodes /\ end[c][server[c]] \notin {"none", "shake"}
    /\ c \in told => \A n \in Nodes : end[c][n] # "lost"
    /\ \A m, n \in Nodes : end[c][n] = "none" => end[c][m] = "none"

(* The other side of a registered stream has it too, has closed it, or     *)
(* holds what it needs to register it: it does not wait for a message.     *)
HalfOpenCanHeal ==
  \A c \in Conns, n \in Nodes : end[c][n] = "read" =>
    end[c][Other(n)] \in {"read", "shut", "gone"} \/ Agreed(c, Other(n))

(* Ends that close, and ends that are registered.                          *)
LEMMA EndsGoOn ==
  ASSUME TypeOK, HandshakeInv, UNCHANGED <<server, told>>,
         \A c \in Conns, n \in Nodes :
           \/ end'[c][n] = end[c][n]
           \/ end[c][n] # "none" /\ end'[c][n] = "gone"
           \/ end[c][n] = "read" /\ end'[c][n] = "shut"
           \/ Agreed(c, n) /\ end'[c][n] = "read"
  PROVE  HandshakeInv'
<1>1. \A c \in Conns, n \in Nodes : Agreed(c, n) => c \in told /\ end[c][n] # "none"
  BY DEF Agreed, HandshakeInv
<1>2. \A c \in Conns, n \in Nodes : (end'[c][n] = "none") <=> (end[c][n] = "none")
  BY <1>1
<1> SUFFICES ASSUME NEW c \in Conns
             PROVE  /\ \A n \in Nodes : end'[c][n] = "answered" => server[c] = n
                    /\ \A n \in Nodes : end'[c][n] \in {"answered", "read", "shut"} => c \in told
                    /\ c \in told =>
                         server[c] \in Nodes /\ end'[c][server[c]] \notin {"none", "shake"}
                    /\ c \in told => \A n \in Nodes : end'[c][n] # "lost"
                    /\ \A m, n \in Nodes : end'[c][n] = "none" => end'[c][m] = "none"
  BY DEF HandshakeInv
<1>3. \A n \in Nodes : end'[c][n] = "answered" => server[c] = n
  BY DEF HandshakeInv
<1>4. \A n \in Nodes : end'[c][n] \in {"answered", "read", "shut"} => c \in told
  BY <1>1 DEF HandshakeInv
<1>5. c \in told => server[c] \in Nodes /\ end'[c][server[c]] \notin {"none", "shake"}
  BY DEF HandshakeInv
<1>6. \A m, n \in Nodes : end'[c][n] = "none" => end'[c][m] = "none"
  BY <1>2 DEF HandshakeInv
<1>7. c \in told => \A n \in Nodes : end'[c][n] # "lost"
  BY DEF HandshakeInv
<1> QED
  BY <1>3, <1>4, <1>5, <1>6, <1>7

(* A stream begins at both ends, before the server has sent anything.      *)
LEMMA HandshakeBegins ==
  ASSUME TypeInv, HandshakeInv, NEW d \in Dials, \A m \in Nodes : end[d][m] = "none",
         NEW N, NEW s \in Nodes, Opens(d, N, s), UNCHANGED told
  PROVE  HandshakeInv'
<1>1. end \in EndTable /\ d \in Conns /\ server \in [Conns -> Nodes \union {NoConn}]
  BY Shapes DEF TypeInv, TypeOK
<1>2. \A b \in Conns, m \in Nodes :
        end'[b][m] = IF b = d THEN (IF m \in N THEN "shake" ELSE "lost") ELSE end[b][m]
  BY <1>1, NewStream
<1>3. \A b \in Conns : b # d => server'[b] = server[b]
  BY <1>1 DEF Opens
<1>4. d \notin told
  BY <1>1 DEF HandshakeInv
<1> QED
  BY <1>2, <1>3, <1>4 DEF HandshakeInv

LEMMA HandshakeStep == StreamInv /\ HandshakeInv /\ [Next]_vars => HandshakeInv'
<1> SUFFICES ASSUME StreamInv, HandshakeInv, [Next]_vars PROVE HandshakeInv'
  OBVIOUS
<1>0. /\ TypeInv /\ TypeOK /\ end \in EndTable
      /\ \A d \in Dials : dial[d].pc # "none" => dial[d].by \in Nodes
  BY Shapes DEF StreamInv, TypeInv
<1>a. "gone" \in Ends /\ "answered" \in Ends /\ "read" \in Ends
  BY DEF Ends
<1>1. ASSUME UNCHANGED netVars PROVE HandshakeInv'
  BY <1>0, <1>1, EndsGoOn DEF netVars
<1>2. ASSUME NEW c \in Conns, NEW n \in Nodes, end[c][n] # "none",
             end' = [end EXCEPT ![c][n] = "gone"], UNCHANGED <<server, told>>
      PROVE  HandshakeInv'
  <2>1. /\ end'[c][n] = "gone"
        /\ \A b \in Conns, m \in Nodes : b # c \/ m # n => end'[b][m] = end[b][m]
    BY <1>0, <1>2, <1>a, OneEnd
  <2> QED
    BY <1>0, <1>2, <2>1, EndsGoOn
<1>3. ASSUME NEW d \in Dials, Connects(d) \/ AcceptedInVain(d) \/ ConnectsInVain(d)
      PROVE  HandshakeInv'
  <2>1. dial[d].by \in Nodes /\ UNCHANGED told
    BY <1>0, <1>3 DEF Connects, AcceptedInVain, ConnectsInVain
  <2>2. \A m \in Nodes : end[d][m] = "none"
    BY <1>3 DEF Connects, AcceptedInVain, ConnectsInVain, Unconnected, StreamInv, StreamsAreNew
  <2>3. PICK N : Opens(d, N, Other(dial[d].by))
    BY <1>3 DEF Connects, AcceptedInVain, ConnectsInVain
  <2> QED
    BY <1>0, <2>1, <2>2, <2>3, OtherPeer, HandshakeBegins
<1>4. ASSUME NEW d \in Dials, NEW e \in Dials, MeetsDial(d, e) PROVE HandshakeInv'
  <2>1. UNCHANGED told /\ \A m \in Nodes : end[d][m] = "none"
    BY <1>4 DEF MeetsDial, Unconnected, StreamInv, StreamsAreNew
  <2>2. PICK n \in Nodes : Opens(d, Nodes, n)
    BY <1>4 DEF MeetsDial
  <2> QED
    BY <1>0, <2>1, <2>2, HandshakeBegins
<1>5. ASSUME NEW d \in Dials, Check(d) PROVE HandshakeInv'
  <2>1. /\ dial[d].conn \in Conns /\ dial[d].by \in Nodes
        /\ end[dial[d].conn][dial[d].by] = "shake"
    BY <1>0, <1>5 DEF Check, StreamInv, CheckedIsFresh
  <2>2. UNCHANGED <<server, told>>
    BY <1>5 DEF Check
  <2>3. CASE UNCHANGED end
    BY <1>1, <2>2, <2>3 DEF netVars
  <2>4. CASE end' = [end EXCEPT ![dial[d].conn][dial[d].by] = "gone"]
    BY <1>2, <2>1, <2>2, <2>4
  <2> QED
    BY <1>5, <2>3, <2>4 DEF Check
<1>6. ASSUME NEW c \in Conns, NEW n \in Nodes, ServerAnswers(c, n) PROVE HandshakeInv'
  <2>1. /\ server[c] = n /\ end[c][n] = "shake" /\ told' = told \union {c}
        /\ UNCHANGED server
        /\ end' = [end EXCEPT ![c][n] = "answered"]
    BY <1>6 DEF ServerAnswers
  <2>2. /\ end'[c][n] = "answered"
        /\ \A b \in Conns, m \in Nodes : b # c \/ m # n => end'[b][m] = end[b][m]
    BY <1>0, <1>a, <2>1, OneEnd
  <2>3. \A b \in Conns, m \in Nodes : (end'[b][m] = "none") <=> (end[b][m] = "none")
    BY <2>1, <2>2
  <2>4. \A b \in Conns, m \in Nodes : end'[b][m] = "answered" => server[b] = m
    BY <2>1, <2>2 DEF HandshakeInv
  <2>5. \A b \in Conns, m \in Nodes :
          end'[b][m] \in {"answered", "read", "shut"} => b \in told'
    BY <2>1, <2>2 DEF HandshakeInv
  <2>6. \A b \in Conns : b \in told' =>
          server[b] \in Nodes /\ end'[b][server[b]] \notin {"none", "shake"}
    BY <2>1, <2>2 DEF HandshakeInv
  <2>7. \A b \in Conns, k, m \in Nodes : end'[b][m] = "none" => end'[b][k] = "none"
    BY <2>3 DEF HandshakeInv
  <2>8. end[c][Other(n)] = "shake" /\ \A m \in Nodes : m = n \/ m = Other(n)
    BY <1>6, OtherPeer, TcpAssumption DEF ServerAnswers
  <2>9. \A b \in Conns : b \in told' => \A m \in Nodes : end'[b][m] # "lost"
    BY <2>1, <2>2, <2>8 DEF HandshakeInv
  <2> QED
    BY <2>1, <2>4, <2>5, <2>6, <2>7, <2>9 DEF HandshakeInv
<1>7. ASSUME NEW c \in Conns, NEW n \in Nodes, HandshakeFails(c, n) \/ ReaderExits(c, n)
      PROVE  HandshakeInv'
  BY <1>2, <1>7 DEF HandshakeFails, ReaderExits
<1>8. \A n \in Nodes, b \in Conns, m \in Nodes :
        \/ OldClosed(n)[b][m] = end[b][m]
        \/ end[b][m] = "read" /\ OldClosed(n)[b][m] = "shut"
  <2> SUFFICES ASSUME NEW n \in Nodes, NEW b \in Conns, NEW m \in Nodes
               PROVE  \/ OldClosed(n)[b][m] = end[b][m]
                      \/ end[b][m] = "read" /\ OldClosed(n)[b][m] = "shut"
    OBVIOUS
  <2>1. OldClosed(n)[b][m] = IF m = n /\ conns[n] = b THEN "shut" ELSE end[b][m]
    BY <1>0, OldClosedEnds
  <2>2. m = n /\ conns[n] = b => end[b][m] = "read"
    BY <1>0, Shapes DEF StreamInv, TableIsRead, HasConn
  <2> QED
    BY <2>1, <2>2
<1>9. ASSUME NEW c \in Conns, NEW n \in Nodes, RegisterConn(c, n) PROVE HandshakeInv'
  <2>1. Agreed(c, n) /\ UNCHANGED <<server, told>>
    BY <1>9 DEF RegisterConn
  <2>2. end' = [OldClosed(n) EXCEPT ![c][n] = "read"] /\ OldClosed(n) \in EndTable
    BY <1>0, <1>9, OldClosedEnds DEF RegisterConn
  <2>3. /\ end'[c][n] = "read"
        /\ \A b \in Conns, m \in Nodes : b # c \/ m # n => end'[b][m] = OldClosed(n)[b][m]
    BY <1>a, <2>2, OneEnd
  <2>4. \A b \in Conns, m \in Nodes :
          \/ end'[b][m] = end[b][m]
          \/ end[b][m] = "read" /\ end'[b][m] = "shut"
          \/ Agreed(b, m) /\ end'[b][m] = "read"
    BY <1>8, <2>1, <2>3
  <2> QED
    BY <1>0, <2>1, <2>4, EndsGoOn
<1>10. ASSUME NEW n \in Nodes, CloseStreams(n) PROVE HandshakeInv'
  BY <1>0, <1>8, <1>10, EndsGoOn DEF CloseStreams
<1>11. ASSUME NEW n \in Nodes, Ages(n) \/ BackoffEnds(n) \/ CloseCancels(n)
       PROVE  HandshakeInv'
  BY <1>1, <1>11 DEF Ages, BackoffEnds, CloseCancels
<1>12. ASSUME NEW d \in Dials,
              \/ NoLongerNeeded(d) \/ EveryWayFails(d) \/ FailedAlone(d)
              \/ BacksOff(d) \/ Leave(d)
       PROVE  HandshakeInv'
  BY <1>1, <1>12 DEF NoLongerNeeded, EveryWayFails, FailedAlone, BacksOff, Leave
<1>13. ASSUME NEW d \in Dials, NEW n \in Nodes, NEW force \in BOOLEAN, Start(d, n, force)
       PROVE  HandshakeInv'
  BY <1>1, <1>13 DEF Start
<1>14. CASE UNCHANGED vars
  BY <1>1, <1>14 DEF vars
<1> QED
  BY <1>3, <1>4, <1>5, <1>6, <1>7, <1>9, <1>10, <1>11, <1>12, <1>13, <1>14
  DEF Next, DialStep, Shake, ReaderEnds, StreamBreaks

(* A stream that one peer has registered waits for nothing to be           *)
(* registered by the other: its handshake there is complete or over, in    *)
(* whatever order the two peers' calls, handlers and Close ran, on which   *)
(* HalfOpenHeals rests (tcpholepunch.go:594, 628).                         *)
THEOREM HalfOpenEndsCanGoOn == Spec => []HalfOpenCanHeal
<1>1. Init => HandshakeInv
  BY DEF Init, HandshakeInv
<1>2. StreamInv /\ HandshakeInv => HalfOpenCanHeal
  <2> SUFFICES ASSUME StreamInv, HandshakeInv, NEW c \in Conns, NEW n \in Nodes,
                      end[c][n] = "read", end[c][Other(n)] \notin {"read", "shut", "gone"}
               PROVE  Agreed(c, Other(n))
    BY DEF HalfOpenCanHeal
  <2>1. Other(n) \in Nodes /\ Other(n) # n
    BY OtherPeer
  <2>2. end[c][Other(n)] \in Ends \ {"none", "lost"} /\ c \in told
    BY <2>1, Shapes DEF StreamInv, HandshakeInv, EndTable
  <2>3. CASE end[c][Other(n)] = "answered"
    BY <2>1, <2>3 DEF HandshakeInv, Agreed
  <2>4. CASE end[c][Other(n)] = "shake"
    BY <2>2, <2>4 DEF HandshakeInv, Agreed
  <2> QED
    BY <2>2, <2>3, <2>4 DEF Ends
<1> QED
  BY <1>1, <1>2, StreamInit, StreamStep, HandshakeStep, PTL DEF Spec
=============================================================================
