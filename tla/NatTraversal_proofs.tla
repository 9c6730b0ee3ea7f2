------------------------ MODULE NatTraversal_proofs ------------------------
(***************************************************************************)
(* Proofs about the two components that get a peer through a symmetric     *)
(* NAT: StunMapping, which learns the socket's external address, for any   *)
(* uplinks, servers, callers, requests and sockets, and SymNatSession,     *)
(* which hops ports, for every set of peers and every number of hops.      *)
(*                                                                         *)
(* StunInv adds to what the runs check the account of every request: where *)
(* it is in the table, whether an answer to it was counted, and that no IP *)
(* has more votes than requests were answered.                             *)
(***************************************************************************)
EXTENDS StunMapping, SymNatSession, FiniteSetTheorems, TLAPS

-----------------------------------------------------------------------------
(* What one socket's external address is (puncher.go)                      *)

(* The requests an answer to which has been counted.                       *)
Counted == {x \in Tx : counted[x] > 0}

(* A request is entered into the table once, when it is sent, and leaves   *)
(* it for good with the first answer: what has been counted is not pending *)
(* and no IP has more votes than requests were answered.                   *)
Accounted ==
  /\ counted \in [Tx -> 0 .. 1]
  /\ pending \subseteq DOMAIN sent
  /\ \A x \in Counted : x \in DOMAIN sent /\ x \notin pending
  /\ \A ip \in IPs : votes[ip] <= Cardinality(Counted)

(* An answer belongs to a request that was sent.                           *)
AnswersAreSent ==
  \A g \in Gens : hand[g] # NoAnswer => hand[g].tx \in DOMAIN sent

(* A request goes out of the socket its call has captured.                 *)
SocketsCaptured ==
  \A c \in Callers : caller[c].pc = "request" => caller[c].sock \in Gens

StunInv == /\ StunTypeOK /\ Accounted /\ AnswersAreSent /\ SocketsCaptured
           /\ PairTogether /\ MappedIsBestVoted

CallRecord == [pc : {"idle", "begin", "request", "wait", "collect"},
               gen : 0 .. MaxGen, sock : 0 .. MaxGen, tx : 0 .. MaxTx]

LEMMA IdleCall ==
  /\ Idle \in CallRecord
  /\ \A g \in Gens : [Idle EXCEPT !.pc = "begin", !.gen = g] \in CallRecord
<1>1. Idle \in CallRecord
  BY StunAssumption DEF Idle, CallRecord
<1>2. ASSUME NEW g \in Gens
      PROVE  [Idle EXCEPT !.pc = "begin", !.gen = g] \in CallRecord
  <2>1. g \in 0 .. MaxGen
    BY StunAssumption DEF Gens
  <2> DEFINE r == [Idle EXCEPT !.pc = "begin"]
  <2>2. r \in CallRecord
    BY <1>1 DEF CallRecord
  <2> HIDE DEF r
  <2>3. [r EXCEPT !.gen = g] \in CallRecord
    BY <2>1, <2>2 DEF CallRecord
  <2> QED BY <2>3 DEF r
<1> QED BY <1>1, <1>2

(* No IP has more votes than there are requests.                           *)
LEMMA CountedBound ==
  ASSUME counted \in [Tx -> 0 .. 1]
  PROVE  IsFiniteSet(Counted) /\ Cardinality(Counted) \in 0 .. MaxTx
<1>1. IsFiniteSet(Tx) /\ Cardinality(Tx) = MaxTx
  BY FS_Interval, StunAssumption DEF Tx
<1>2. Counted \subseteq Tx
  BY DEF Counted
<1>3. IsFiniteSet(Counted) /\ Cardinality(Counted) <= MaxTx
  BY <1>1, <1>2, FS_Subset
<1>4. Cardinality(Counted) \in Nat
  BY <1>3, FS_CardinalityType
<1> QED BY <1>3, <1>4, StunAssumption

(* The IPs with most votes: never none, and not outvoted.                  *)
LEMMA BestVoted ==
  ASSUME NEW v \in [IPs -> Nat], NEW ip \in Best(v)
  PROVE  /\ ip \in IPs /\ ip # NoIP
         /\ \A other \in IPs : v[other] <= v[ip]
BY StunAssumption DEF Best

(* A step of a call leaves the calls typed.                                *)
LEMMA CallsTyped ==
  ASSUME StunTypeOK, NEW c \in Callers,
         \/ Call(c) \/ ForceCall(c) \/ Check(c) \/ Request(c) \/ TakeToken(c) \/ Finish(c)
  PROVE  caller' \in [Callers -> CallRecord] /\ outdated' \in BOOLEAN
<1>1. caller \in [Callers -> CallRecord] /\ gen \in Gens /\ outdated \in BOOLEAN
  BY DEF StunTypeOK, CallRecord
<1>2. caller[c] \in CallRecord
  BY <1>1
<1>3. CASE Call(c) \/ ForceCall(c)
  <2>1. /\ caller' = [caller EXCEPT ![c] = [Idle EXCEPT !.pc = "begin", !.gen = gen]]
        /\ outdated' = outdated
    BY <1>3 DEF Call, ForceCall, history
  <2>2. [Idle EXCEPT !.pc = "begin", !.gen = gen] \in CallRecord
    BY <1>1, IdleCall
  <2> QED BY <1>1, <2>1, <2>2
<1>4. ASSUME NEW ok, ReturnMapping(c, ok)
      PROVE  caller' \in [Callers -> CallRecord] /\ outdated' \in BOOLEAN
  <2>1. caller' = [caller EXCEPT ![c] = Idle] /\ outdated' \in BOOLEAN
    BY <1>4 DEF ReturnMapping
  <2> QED BY <1>1, <2>1, IdleCall
<1>5. CASE Check(c)
  <2>1. CASE ReturnMapping(c, TRUE)
    BY <1>4, <2>1
  <2>2. CASE /\ caller' = [caller EXCEPT ![c].pc = "request", ![c].sock = gen]
             /\ UNCHANGED outdated
    <3>1. gen \in 0 .. MaxGen
      BY <1>1, StunAssumption DEF Gens
    <3>2. [caller[c] EXCEPT !.pc = "request"] \in CallRecord
      BY <1>2 DEF CallRecord
    <3> DEFINE r == [caller[c] EXCEPT !.pc = "request"]
    <3> HIDE DEF r
    <3>3. r \in CallRecord => [r EXCEPT !.sock = gen] \in CallRecord
      BY <3>1 DEF CallRecord
    <3>4. [caller[c] EXCEPT !.pc = "request", !.sock = gen] \in CallRecord
      BY <3>2, <3>3 DEF r
    <3>5. caller' = [caller EXCEPT ![c] = [caller[c] EXCEPT !.pc = "request", !.sock = gen]]
      BY <1>1, <2>2
    <3> QED BY <1>1, <2>2, <3>4, <3>5
  <2> QED BY <1>5, <2>1, <2>2 DEF Check
<1>6. CASE Request(c)
  <2> DEFINE x == Len(sent) + 1
             r == [caller[c] EXCEPT !.pc = "wait"]
             q == [r EXCEPT !.sock = 0]
  <2>1. /\ x \in Tx /\ outdated' = outdated
        /\ caller' = [caller EXCEPT ![c].pc = "wait", ![c].sock = 0, ![c].tx = x]
    BY <1>6 DEF Request, history
  <2>2. x \in 0 .. MaxTx /\ 0 \in 0 .. MaxGen
    BY <2>1, StunAssumption DEF Tx
  <2> HIDE DEF x
  <2>3. r \in CallRecord
    BY <1>2 DEF CallRecord
  <2> HIDE DEF r
  <2>4. q \in CallRecord
    BY <2>2, <2>3 DEF CallRecord
  <2> HIDE DEF q
  <2>5. [q EXCEPT !.tx = x] \in CallRecord
    BY <2>2, <2>4 DEF CallRecord
  <2>6. caller' = [caller EXCEPT ![c] = [q EXCEPT !.tx = x]]
    BY <1>1, <2>1 DEF q, r
  <2> QED BY <1>1, <2>1, <2>5, <2>6
<1>7. CASE TakeToken(c)
  <2>1. /\ caller' = [caller EXCEPT ![c].pc = "collect"]
        /\ outdated' = outdated
    BY <1>7 DEF TakeToken, history
  <2>2. [caller[c] EXCEPT !.pc = "collect"] \in CallRecord
    BY <1>2 DEF CallRecord
  <2>3. caller' = [caller EXCEPT ![c] = [caller[c] EXCEPT !.pc = "collect"]]
    BY <1>1, <2>1
  <2> QED BY <1>1, <2>1, <2>2, <2>3
<1>8. CASE Finish(c)
  BY <1>4, <1>8 DEF Finish
<1> QED BY <1>3, <1>5, <1>6, <1>7, <1>8

LEMMA FieldsOfCall ==
  ASSUME NEW r \in CallRecord
  PROVE  DOMAIN r = {"pc", "gen", "sock", "tx"}
BY DEF CallRecord

LEMMA CaptureStep ==
  ASSUME StunTypeOK, SocketsCaptured, NEW c \in Callers,
         \/ Call(c) \/ ForceCall(c) \/ Check(c) \/ Request(c) \/ TakeToken(c) \/ Finish(c)
  PROVE  /\ SocketsCaptured'
         /\ \A d \in Callers : caller'[d].pc = "request"
                                => caller'[d] = caller[d] \/ caller'[d].sock = gen
<1>1. caller \in [Callers -> CallRecord] /\ gen \in Gens
  BY DEF StunTypeOK, CallRecord
<1>2. SUFFICES /\ \A d \in Callers \ {c} : caller'[d] = caller[d]
               /\ caller'[c].pc = "request" => caller'[c].sock = gen
  BY <1>1 DEF SocketsCaptured
<1>3. ASSUME NEW r, caller' = [caller EXCEPT ![c] = r]
      PROVE  caller'[c] = r /\ \A d \in Callers \ {c} : caller'[d] = caller[d]
  BY <1>1, <1>3
<1>4. CASE Call(c) \/ ForceCall(c)
  <2>1. caller' = [caller EXCEPT ![c] = [Idle EXCEPT !.pc = "begin", !.gen = gen]]
    BY <1>4 DEF Call, ForceCall
  <2>2. "pc" \in DOMAIN Idle
    BY DEF Idle
  <2>3. [Idle EXCEPT !.pc = "begin", !.gen = gen].pc = "begin"
    BY <2>2
  <2> QED BY <1>3, <2>1, <2>3
<1>5. ASSUME NEW ok, ReturnMapping(c, ok)
      PROVE  /\ \A d \in Callers \ {c} : caller'[d] = caller[d]
             /\ caller'[c].pc # "request"
  <2>1. Idle.pc # "request"
    BY DEF Idle
  <2>2. caller' = [caller EXCEPT ![c] = Idle]
    BY <1>5 DEF ReturnMapping
  <2> QED BY <1>3, <2>1, <2>2
<1>6. CASE Check(c)
  <2>1. CASE ReturnMapping(c, TRUE)
    BY <1>5, <2>1
  <2>2. CASE caller' = [caller EXCEPT ![c].pc = "request", ![c].sock = gen]
    <3>1. caller' = [caller EXCEPT ![c] = [caller[c] EXCEPT !.pc = "request", !.sock = gen]]
      BY <1>1, <2>2
    <3>2. [caller[c] EXCEPT !.pc = "request", !.sock = gen].sock = gen
      <4>1. "sock" \in DOMAIN caller[c]
        BY <1>1, FieldsOfCall
      <4> QED BY <4>1
    <3> QED BY <1>1, <1>3, <3>1, <3>2
  <2> QED BY <1>6, <2>1, <2>2 DEF Check
<1>7. CASE Request(c)
  <2>1. caller' = [caller EXCEPT ![c].pc = "wait", ![c].sock = 0, ![c].tx = Len(sent) + 1]
    BY <1>7 DEF Request
  <2>2. caller' = [caller EXCEPT ![c] = [caller[c] EXCEPT !.pc = "wait", !.sock = 0,
                                                           !.tx = Len(sent) + 1]]
    BY <1>1, <2>1
  <2>3. [caller[c] EXCEPT !.pc = "wait", !.sock = 0, !.tx = Len(sent) + 1].pc = "wait"
    <3>1. "pc" \in DOMAIN caller[c]
      BY <1>1, FieldsOfCall
    <3> QED BY <3>1
  <2> QED BY <1>3, <2>2, <2>3
<1>8. CASE TakeToken(c)
  <2>1. caller' = [caller EXCEPT ![c].pc = "collect"]
    BY <1>8 DEF TakeToken
  <2>2. caller' = [caller EXCEPT ![c] = [caller[c] EXCEPT !.pc = "collect"]]
    BY <1>1, <2>1
  <2>3. [caller[c] EXCEPT !.pc = "collect"].pc = "collect"
    BY <1>1 DEF CallRecord
  <2> QED BY <1>3, <2>2, <2>3
<1>9. CASE Finish(c)
  BY <1>5, <1>9 DEF Finish
<1> QED BY <1>4, <1>6, <1>7, <1>8, <1>9

AnswerType == [tx : Tx, ip : IPs \union {NoIP}] \union {NoAnswer}

(* What a step does to the mapping when it counts no answer: nothing, or   *)
(* it forgets the mapping, the votes, or both.                             *)
Forgets ==
  /\ votes' \in {votes, NoVotes}
  /\ \/ UNCHANGED <<mappedIP, mappedPort>>
     \/ mappedIP' = NoIP /\ mappedPort' = NoPort

(* Every step but the sending of a request and the counting of an answer.  *)
LEMMA OtherSteps ==
  ASSUME StunInv, Forgets,
         gen' \in Gens, up' \in BOOLEAN, tokens' \in 0 .. MaxTokens,
         awaited' \in [Tx -> SUBSET Servers],
         caller' \in [Callers -> CallRecord], outdated' \in BOOLEAN, SocketsCaptured',
         hand' \in [Gens -> AnswerType],
         \A g \in Gens : hand'[g] # NoAnswer => hand'[g].tx \in DOMAIN sent,
         pending' \subseteq pending, UNCHANGED <<sent, counted>>
  PROVE  StunInv'
<1>1. /\ votes \in [IPs -> 0 .. MaxTx] /\ NoVotes \in [IPs -> 0 .. MaxTx]
      /\ \A ip \in IPs : NoVotes[ip] = 0
  BY StunAssumption DEF StunInv, StunTypeOK, NoVotes
<1>2. votes' \in [IPs -> 0 .. MaxTx] /\ \A ip \in IPs : votes'[ip] = votes[ip] \/ votes'[ip] = 0
  BY <1>1 DEF Forgets
<1>3. StunTypeOK'
  <2>1. /\ mappedIP' \in IPs \union {NoIP} /\ mappedPort' \in Port \union {NoPort}
        /\ pending' \subseteq Tx /\ sent' \in Seq(Gens) /\ DOMAIN counted' = Tx
    BY DEF StunInv, StunTypeOK, Forgets
  <2> QED BY <1>2, <2>1 DEF StunTypeOK, CallRecord, AnswerType
<1>4. Accounted'
  <2>1. Accounted /\ Counted' = Counted
    BY DEF StunInv, Counted
  <2>2. Cardinality(Counted) \in Nat
    BY <2>1, CountedBound DEF Accounted
  <2>3. ASSUME NEW ip \in IPs PROVE votes'[ip] <= Cardinality(Counted)
    BY <1>1, <1>2, <2>1, <2>2 DEF Accounted
  <2> QED BY <2>1, <2>3 DEF Accounted
<1>5. AnswersAreSent'
  BY DEF AnswersAreSent
<1>6. PairTogether'
  BY DEF StunInv, PairTogether, Forgets
<1>7. MappedIsBestVoted'
  <2>1. CASE mappedIP' = NoIP
    BY <2>1 DEF MappedIsBestVoted
  <2>2. CASE mappedIP' = mappedIP /\ mappedIP # NoIP
    <3>1. mappedIP \in IPs /\ MappedIsBestVoted
      BY <2>2 DEF StunInv, StunTypeOK
    <3>2. CASE votes' = votes
      BY <2>2, <3>1, <3>2 DEF MappedIsBestVoted
    <3>3. CASE votes' = NoVotes
      BY <1>1, <2>2, <3>1, <3>3 DEF MappedIsBestVoted
    <3> QED BY <3>2, <3>3 DEF Forgets
  <2> QED BY <2>1, <2>2 DEF Forgets
<1> QED BY <1>3, <1>4, <1>5, <1>6, <1>7 DEF StunInv

(* A request is entered into the table under a number of its own.          *)
LEMMA RequestStep ==
  ASSUME StunInv, NEW c \in Callers, Request(c)
  PROVE  StunInv'
<1> DEFINE x == Len(sent) + 1
<1>1. /\ x \in Tx /\ sent' = Append(sent, caller[c].sock)
      /\ pending' = pending \union {x} /\ tokens' = 0
      /\ awaited' = [awaited EXCEPT ![x] =
                       IF up /\ caller[c].sock = gen THEN Servers ELSE {}]
      /\ UNCHANGED <<gen, up, mappedIP, mappedPort, votes, hand, counted>>
  BY DEF Request, sockVars, mapVars, history
<1>2. caller' \in [Callers -> CallRecord] /\ outdated' \in BOOLEAN
  BY CallsTyped DEF StunInv
<1>3. sent \in Seq(Gens)
  BY DEF StunInv, StunTypeOK
<1>4. caller[c].sock \in Gens
  BY DEF StunInv, SocketsCaptured, Request
<1>5. /\ sent' \in Seq(Gens) /\ DOMAIN sent = 1 .. Len(sent) /\ Len(sent) \in Nat
      /\ DOMAIN sent' = DOMAIN sent \union {x} /\ x \notin DOMAIN sent
  BY <1>1, <1>3, <1>4
<1> HIDE DEF x
<1>6. counted[x] = 0 /\ Counted' = Counted
  <2>1. counted[x] \in 0 .. 1 /\ x \notin Counted
    BY <1>1, <1>5 DEF StunInv, Accounted
  <2> QED BY <1>1, <2>1 DEF Counted
<1>7. StunTypeOK'
  <2>1. /\ gen' \in Gens /\ up' \in BOOLEAN /\ votes' \in [IPs -> 0 .. MaxTx]
        /\ mappedIP' \in IPs \union {NoIP} /\ mappedPort' \in Port \union {NoPort}
        /\ hand' \in [Gens -> AnswerType] /\ DOMAIN counted' = Tx
    BY <1>1 DEF StunInv, StunTypeOK, AnswerType
  <2>2. pending' \subseteq Tx /\ tokens' \in 0 .. MaxTokens
    BY <1>1, StunAssumption DEF StunInv, StunTypeOK
  <2>3. awaited' \in [Tx -> SUBSET Servers]
    BY <1>1 DEF StunInv, StunTypeOK
  <2> QED BY <1>2, <1>5, <2>1, <2>2, <2>3 DEF StunTypeOK, CallRecord, AnswerType
<1>8. Accounted'
  BY <1>1, <1>5, <1>6 DEF StunInv, Accounted
<1>9. AnswersAreSent'
  BY <1>1, <1>5 DEF StunInv, AnswersAreSent
<1>10. SocketsCaptured'
  BY CaptureStep DEF StunInv
<1>11. PairTogether' /\ MappedIsBestVoted'
  BY <1>1 DEF StunInv, PairTogether, MappedIsBestVoted
<1> QED BY <1>7, <1>8, <1>9, <1>10, <1>11 DEF StunInv

LEMMA PortOfSocket ==
  ASSUME NEW g \in Gens, NEW ip \in IPs
  PROVE  [gen |-> g, ip |-> ip] \in Port \ {NoPort}
<1>1. g # 0
  BY DEF Gens
<1> QED BY <1>1 DEF Port, NoPort

(* An answer is counted when its request is in the table; it takes the     *)
(* request out, and the mapping follows the IP with most votes.            *)
LEMMA HandleStep ==
  ASSUME StunInv, NEW g \in Gens, Handle(g)
  PROVE  StunInv'
<1> DEFINE x == hand[g].tx
           ip == hand[g].ip
           port == [gen |-> sent[x], ip |-> ip]
<1>1. /\ hand[g] # NoAnswer
      /\ hand' = [hand EXCEPT ![g] = NoAnswer]
      /\ \/ /\ x \notin pending
            /\ UNCHANGED <<mapVars, pending, tokens, counted>>
         \/ /\ x \in pending /\ ip = NoIP
            /\ pending' = Consumed(x)
            /\ UNCHANGED <<mapVars, tokens, counted>>
         \/ /\ x \in pending /\ ip # NoIP
            /\ pending' = Consumed(x)
            /\ votes' = [votes EXCEPT ![ip] = @ + 1]
            /\ mappedIP' \in Best(votes')
            /\ mappedPort' = IF ip = mappedIP' \/ mappedPort = NoPort
                             THEN port ELSE mappedPort
            /\ tokens' = Notified(tokens)
            /\ counted' = [counted EXCEPT ![x] = @ + 1]
      /\ UNCHANGED <<sockVars, sent, awaited, caller, outdated>>
  BY DEF Handle
<1>2. /\ hand \in [Gens -> AnswerType] /\ caller \in [Callers -> CallRecord]
      /\ votes \in [IPs -> 0 .. MaxTx] /\ sent \in Seq(Gens)
      /\ mappedPort \in Port \union {NoPort}
      /\ gen \in Gens /\ up \in BOOLEAN /\ tokens \in 0 .. MaxTokens
      /\ awaited \in [Tx -> SUBSET Servers] /\ outdated \in BOOLEAN /\ pending \subseteq Tx
    BY DEF StunInv, StunTypeOK, AnswerType, CallRecord
<1>3. /\ hand' \in [Gens -> AnswerType] /\ hand'[g] = NoAnswer
      /\ \A h \in Gens \ {g} : hand'[h] = hand[h]
  BY <1>1, <1>2 DEF AnswerType
<1>4. /\ sent' = sent /\ AnswersAreSent'
      /\ caller' = caller /\ SocketsCaptured'
      /\ gen' = gen /\ up' = up /\ awaited' = awaited /\ outdated' = outdated
  BY <1>1, <1>3 DEF StunInv, AnswersAreSent, SocketsCaptured, sockVars
<1>5. x \in Tx /\ ip \in IPs \union {NoIP} /\ x \in DOMAIN sent
  BY <1>1, <1>2 DEF StunInv, AnswersAreSent, AnswerType
<1>6. ip # NoIP => port \in Port /\ port # NoPort
  <2>1. sent[x] \in Gens
    BY <1>2, <1>5
  <2> QED BY <1>5, <2>1, PortOfSocket
<1> HIDE DEF x, ip, port
<1>7. CASE UNCHANGED <<mapVars, tokens, counted>> /\ pending' \in {pending, Consumed(x)}
  <2>1. Forgets
    BY <1>7 DEF Forgets, mapVars
  <2>2. \A h \in Gens : hand'[h] # NoAnswer => hand'[h].tx \in DOMAIN sent
    BY <1>4 DEF AnswersAreSent
  <2>3. pending' \subseteq pending
    BY <1>7 DEF Consumed
  <2> QED BY <1>2, <1>3, <1>4, <1>7, <2>1, <2>2, <2>3, OtherSteps
<1>8. CASE /\ x \in pending /\ ip # NoIP
           /\ pending' = Consumed(x)
           /\ votes' = [votes EXCEPT ![ip] = @ + 1]
           /\ mappedIP' \in Best(votes')
           /\ mappedPort' = IF ip = mappedIP' \/ mappedPort = NoPort
                            THEN port ELSE mappedPort
           /\ tokens' = Notified(tokens)
           /\ counted' = [counted EXCEPT ![x] = @ + 1]
  <2>1. counted \in [Tx -> 0 .. 1] /\ x \notin Counted /\ counted[x] = 0
    BY <1>5, <1>8 DEF StunInv, Accounted, Counted
  <2>2. /\ counted' \in [Tx -> 0 .. 1] /\ counted'[x] = 1
        /\ \A y \in Tx \ {x} : counted'[y] = counted[y]
    BY <1>5, <1>8, <2>1
  <2>3. Counted' = Counted \union {x}
    BY <1>5, <2>2 DEF Counted
  <2>4. /\ IsFiniteSet(Counted) /\ Cardinality(Counted) \in Nat
        /\ Cardinality(Counted') = Cardinality(Counted) + 1
    BY <2>1, <2>3, CountedBound, FS_AddElement
  <2>5. Cardinality(Counted') \in 0 .. MaxTx
    <3>1. Cardinality(Counted \union {x}) <= MaxTx
      <4>1. IsFiniteSet(Tx) /\ Cardinality(Tx) = MaxTx
        BY FS_Interval, StunAssumption DEF Tx
      <4>2. Counted \union {x} \subseteq Tx
        BY <1>5 DEF Counted
      <4> QED BY <4>1, <4>2, FS_Subset
    <3> QED BY <2>3, <2>4, <3>1, StunAssumption
  <2>6. \A i \in IPs : votes'[i] \in Nat /\ votes'[i] <= Cardinality(Counted')
    <3>1. \A i \in IPs : votes[i] \in Nat /\ votes[i] <= Cardinality(Counted)
      BY <1>2 DEF StunInv, Accounted
    <3>2. \A i \in IPs : votes'[i] = votes[i] \/ votes'[i] = votes[i] + 1
      BY <1>2, <1>5, <1>8
    <3> QED BY <2>4, <3>1, <3>2
  <2>7. votes' \in [IPs -> 0 .. MaxTx] /\ votes' \in [IPs -> Nat]
    <3>1. \A i \in IPs : votes'[i] \in 0 .. MaxTx
      BY <2>4, <2>5, <2>6, StunAssumption
    <3>2. votes' = [i \in IPs |-> votes'[i]]
      BY <1>2, <1>8
    <3> QED BY <2>6, <3>1, <3>2
  <2>8. mappedIP' \in IPs /\ mappedIP' # NoIP /\ MappedIsBestVoted'
    BY <1>8, <2>7, BestVoted DEF MappedIsBestVoted
  <2>9. mappedPort' \in Port /\ mappedPort' # NoPort
    BY <1>2, <1>6, <1>8 DEF StunInv
  <2>10. tokens' \in 0 .. MaxTokens
    BY <1>2, <1>8, StunAssumption DEF Notified
  <2>11. pending' \subseteq pending /\ x \notin pending'
    BY <1>8 DEF Consumed
  <2>12. StunTypeOK'
    BY <1>2, <1>3, <1>4, <2>2, <2>7, <2>8, <2>9, <2>10, <2>11 DEF StunTypeOK, AnswerType, CallRecord
  <2>13. Accounted'
    <3>1. pending' \subseteq DOMAIN sent'
      BY <1>4, <2>11 DEF StunInv, Accounted
    <3>2. \A y \in Counted' : y \in DOMAIN sent' /\ y \notin pending'
      BY <1>4, <1>5, <2>3, <2>11 DEF StunInv, Accounted
    <3> QED BY <2>2, <2>6, <3>1, <3>2 DEF Accounted
  <2> QED BY <1>4, <2>8, <2>9, <2>12, <2>13 DEF StunInv, PairTogether
<1> QED BY <1>1, <1>7, <1>8 DEF Consumed

LEMMA StunStart == StunInit => StunInv
<1> SUFFICES ASSUME StunInit PROVE StunInv
  OBVIOUS
<1>1. Counted = {} /\ Cardinality({}) = 0
  BY FS_EmptySet DEF StunInit, Counted
<1>2. \A c \in Callers : caller[c] = Idle
  BY DEF StunInit
<1>3. SocketsCaptured
  BY <1>2 DEF SocketsCaptured, Idle
<1>4. StunTypeOK
  <2>1. caller \in [Callers -> CallRecord]
    BY IdleCall DEF StunInit
  <2>2. sent \in Seq(Gens) /\ 1 \in Gens /\ votes \in [IPs -> 0 .. MaxTx]
    BY StunAssumption DEF StunInit, NoVotes, Gens
  <2>3. /\ hand \in [Gens -> AnswerType] /\ awaited \in [Tx -> SUBSET Servers]
        /\ DOMAIN counted = Tx /\ tokens \in 0 .. MaxTokens
    BY StunAssumption DEF StunInit, AnswerType
  <2> QED BY <2>1, <2>2, <2>3 DEF StunInit, StunTypeOK, CallRecord, AnswerType
<1>5. Accounted
  <2>1. counted \in [Tx -> 0 .. 1] /\ \A ip \in IPs : votes[ip] = 0
    BY DEF StunInit, NoVotes
  <2> QED BY <1>1, <2>1 DEF Accounted, StunInit
<1> QED BY <1>3, <1>4, <1>5 DEF StunInit, StunInv, AnswersAreSent, PairTogether, MappedIsBestVoted

LEMMA StunStep == StunInv /\ [StunNext]_stunVars => StunInv'
<1> SUFFICES ASSUME StunInv, [StunNext]_stunVars PROVE StunInv'
  OBVIOUS
<1> USE DEF sockVars, mapVars, netVars, history
<1>1. /\ gen \in Gens /\ up \in BOOLEAN /\ tokens \in 0 .. MaxTokens
      /\ awaited \in [Tx -> SUBSET Servers] /\ hand \in [Gens -> AnswerType]
      /\ caller \in [Callers -> CallRecord] /\ outdated \in BOOLEAN
      /\ (\A g \in Gens : hand[g] # NoAnswer => hand[g].tx \in DOMAIN sent)
      /\ SocketsCaptured
  BY DEF StunInv, StunTypeOK, AnswersAreSent, CallRecord, AnswerType
<1>2. LoseAnswers => awaited' \in [Tx -> SUBSET Servers]
  BY DEF LoseAnswers
<1>3. gen < MaxGen /\ gen' = gen + 1 => gen' \in Gens
  BY <1>1, StunAssumption DEF Gens
<1>4. UNCHANGED caller => SocketsCaptured'
  BY <1>1 DEF SocketsCaptured
<1>5. ASSUME NEW c \in Callers, Call(c) \/ ForceCall(c) \/ Discover(c)
      PROVE  StunInv'
  <2>1. CASE Request(c)
    BY <2>1, RequestStep
  <2>2. CASE Call(c) \/ ForceCall(c) \/ Check(c) \/ TakeToken(c) \/ Finish(c)
    <3>1. caller' \in [Callers -> CallRecord] /\ outdated' \in BOOLEAN
      BY <2>2, CallsTyped DEF StunInv
    <3>2. SocketsCaptured'
      BY <2>2, CaptureStep DEF StunInv
    <3>3. Forgets /\ UNCHANGED <<gen, up, sent, pending, hand, awaited, counted>>
      BY <2>2 DEF Forgets, Call, ForceCall, Invalidate, Check, TakeToken, Finish
    <3>4. tokens' \in 0 .. MaxTokens
      <4>1. tokens' = tokens \/ (tokens > 0 /\ tokens' = tokens - 1)
        <5>1. TakeToken(c) => tokens > 0 /\ tokens' = tokens - 1
          BY DEF TakeToken
        <5>2. Call(c) \/ ForceCall(c) \/ Check(c) \/ Finish(c) => tokens' = tokens
          BY DEF Call, ForceCall, Check, Finish
        <5> QED BY <2>2, <5>1, <5>2
      <4> QED BY <1>1, <4>1, StunAssumption
    <3>5. /\ gen' \in Gens /\ up' \in BOOLEAN /\ awaited' \in [Tx -> SUBSET Servers]
          /\ hand' \in [Gens -> AnswerType] /\ pending' \subseteq pending
          /\ \A g \in Gens : hand'[g] # NoAnswer => hand'[g].tx \in DOMAIN sent
          /\ UNCHANGED <<sent, counted>>
      BY <1>1, <3>3
    <3> QED BY <3>1, <3>2, <3>3, <3>4, <3>5, OtherSteps
  <2> QED BY <1>5, <2>1, <2>2 DEF Discover
<1>6. ASSUME NEW x \in Tx, NEW s \in Servers, Receive(x, s)
      PROVE  StunInv'
  <2>1. PICK ip \in IPs \union {NoIP} : hand' = [hand EXCEPT ![gen] = [tx |-> x, ip |-> ip]]
    BY <1>6 DEF Receive
  <2>2. [tx |-> x, ip |-> ip] \in AnswerType
    BY DEF AnswerType
  <2>3. hand' \in [Gens -> AnswerType]
    BY <1>1, <2>1, <2>2
  <2>4. /\ x \in DOMAIN sent /\ awaited' = [awaited EXCEPT ![x] = @ \ {s}]
        /\ UNCHANGED <<gen, up, mappedIP, mappedPort, votes, sent, pending, tokens, caller,
                       counted, outdated>>
    BY <1>6 DEF Receive
  <2>5. \A g \in Gens : hand'[g] # NoAnswer => hand'[g].tx \in DOMAIN sent
    BY <1>1, <2>1, <2>4
  <2>6. awaited' \in [Tx -> SUBSET Servers]
    BY <1>1, <2>4
  <2> QED BY <1>1, <1>4, <2>3, <2>4, <2>5, <2>6, OtherSteps DEF Forgets
<1>7. ASSUME NEW g \in Gens, Handle(g) PROVE StunInv'
  BY <1>7, HandleStep
<1>8. ASSUME NEW x \in Tx, Expire(x) PROVE StunInv'
  BY <1>1, <1>4, <1>8, OtherSteps DEF Expire, Forgets
<1>9. CASE HopPort
  <2>1. PICK c \in Callers :
          caller' = [caller EXCEPT ![c] = [Idle EXCEPT !.pc = "begin", !.gen = gen']]
    BY <1>9 DEF HopPort
  <2>2. gen' \in Gens /\ up' \in BOOLEAN /\ awaited' \in [Tx -> SUBSET Servers]
    BY <1>2, <1>3, <1>9 DEF HopPort
  <2> DEFINE r == [Idle EXCEPT !.pc = "begin", !.gen = gen']
  <2>3. r \in CallRecord /\ r.pc # "request"
    <3>1. "pc" \in DOMAIN Idle
      BY DEF Idle
    <3>2. r.pc = "begin"
      BY <3>1
    <3> QED BY <2>2, <3>2, IdleCall
  <2> HIDE DEF r
  <2>4. caller' \in [Callers -> CallRecord]
    BY <1>1, <2>1, <2>3 DEF r
  <2>5. SocketsCaptured'
    <3>1. \A d \in Callers : caller'[d] = caller[d] \/ caller'[d] = r
      BY <1>1, <2>1 DEF r
    <3> QED BY <1>1, <2>3, <3>1 DEF SocketsCaptured
  <2>6. Forgets /\ UNCHANGED <<sent, pending, hand, tokens, counted, outdated>>
    BY <1>9 DEF HopPort, Forgets
  <2> QED BY <1>1, <2>2, <2>4, <2>5, <2>6, OtherSteps
<1>10. CASE HopPortFails
  BY <1>1, <1>2, <1>4, <1>10, OtherSteps DEF HopPortFails, Forgets
<1>11. CASE ResetSocket
  BY <1>1, <1>2, <1>3, <1>4, <1>11, OtherSteps DEF ResetSocket, ForgetMapping, Forgets
<1>12. CASE ResetSocketFails
  BY <1>1, <1>4, <1>12, OtherSteps DEF ResetSocketFails, ForgetMapping, Forgets
<1>13. CASE InvalidateMappedAddress
  BY <1>1, <1>4, <1>13, OtherSteps DEF InvalidateMappedAddress, Invalidate, Forgets
<1>14. CASE UNCHANGED stunVars
  BY <1>1, <1>4, <1>14, OtherSteps DEF stunVars, Forgets
<1> QED
  BY <1>5, <1>6, <1>7, <1>8, <1>9, <1>10, <1>11, <1>12, <1>13, <1>14 DEF StunNext

LEMMA StunInvariant == StunSpec => []StunInv
BY StunStart, StunStep, PTL DEF StunSpec

(* The calls, the tables and the mapping have their types; the votes stay  *)
(* below the number of requests.                                           *)
THEOREM StunTypeCorrect == StunSpec => []StunTypeOK
<1>1. StunInv => StunTypeOK
  BY DEF StunInv
<1> QED BY <1>1, StunInvariant, PTL

(* The external IP and port are known together or not at all, for any      *)
(* number of uplinks, servers, callers, requests and sockets.              *)
THEOREM PairStaysTogether == StunSpec => []PairTogether
<1>1. StunInv => PairTogether
  BY DEF StunInv
<1> QED BY <1>1, StunInvariant, PTL

(* No IP outvotes the one the puncher reports as its own.                  *)
THEOREM BestVotedIsMapped == StunSpec => []MappedIsBestVoted
<1>1. StunInv => MappedIsBestVoted
  BY DEF StunInv
<1> QED BY <1>1, StunInvariant, PTL

(* The mapped port is one that a server has reported for a socket of the   *)
(* puncher's: the answer was counted, and the request it answered had left *)
(* that socket.                                                            *)
PortWasReported ==
  mappedPort # NoPort =>
    /\ mappedPort.gen <= gen
    /\ \E x \in Tx \intersect DOMAIN sent : sent[x] = mappedPort.gen /\ counted[x] = 1

(* No request goes, or has gone, out of a socket still to come.            *)
SentFromThePast ==
  /\ \A c \in Callers : caller[c].pc = "request" => caller[c].sock <= gen
  /\ \A x \in DOMAIN sent : sent[x] <= gen

(* A step that counts no answer and sends no request.                      *)
LEMMA NothingReported ==
  ASSUME StunInv, SentFromThePast, PortWasReported,
         gen' \in {gen, gen + 1}, mappedPort' \in {mappedPort, NoPort},
         UNCHANGED <<sent, counted>>,
         \A d \in Callers : caller'[d].pc = "request"
                             => caller'[d] = caller[d] \/ caller'[d].sock = gen
  PROVE  SentFromThePast' /\ PortWasReported'
<1>1. /\ gen \in Nat /\ gen' \in Nat /\ gen <= gen'
      /\ \A c \in Callers : caller[c].pc = "request" => caller[c].sock \in Nat
      /\ \A x \in DOMAIN sent : sent[x] \in Nat
      /\ mappedPort # NoPort => mappedPort.gen \in Nat
  <2>1. gen \in Gens /\ sent \in Seq(Gens) /\ SocketsCaptured
        /\ mappedPort \in Port \union {NoPort}
    BY DEF StunInv, StunTypeOK
  <2>2. Gens \subseteq Nat
    BY DEF Gens
  <2>3. \A x \in DOMAIN sent : sent[x] \in Gens
    BY <2>1
  <2>4. mappedPort # NoPort => mappedPort.gen \in Gens
    BY <2>1 DEF Port
  <2>5. gen' \in Nat /\ gen <= gen'
    BY <2>1, <2>2
  <2> QED BY <2>1, <2>2, <2>3, <2>4, <2>5 DEF SocketsCaptured
<1>2. \A c \in Callers : caller'[c].pc = "request" => caller'[c].sock <= gen'
  BY <1>1 DEF SentFromThePast
<1>3. \A x \in DOMAIN sent : sent[x] <= gen'
  BY <1>1 DEF SentFromThePast
<1>4. PortWasReported'
  BY <1>1 DEF PortWasReported
<1> QED BY <1>2, <1>3, <1>4 DEF SentFromThePast

(* A request goes out of the socket captured before.                       *)
LEMMA RequestReports ==
  ASSUME StunInv, SentFromThePast, PortWasReported, NEW c \in Callers, Request(c)
  PROVE  SentFromThePast' /\ PortWasReported'
<1>1. /\ sent' = Append(sent, caller[c].sock) /\ caller[c].pc = "request"
      /\ UNCHANGED <<gen, mappedPort, counted>>
  BY DEF Request, sockVars, mapVars, history
<1>2. sent \in Seq(Gens) /\ caller[c].sock \in Gens
  BY <1>1 DEF StunInv, StunTypeOK, SocketsCaptured
<1>3. /\ DOMAIN sent' = DOMAIN sent \union {Len(sent) + 1}
      /\ Len(sent) + 1 \notin DOMAIN sent
      /\ sent'[Len(sent) + 1] = caller[c].sock
      /\ \A x \in DOMAIN sent : sent'[x] = sent[x]
  BY <1>1, <1>2
<1>4. \A d \in Callers : caller'[d].pc = "request"
                         => caller'[d] = caller[d] \/ caller'[d].sock = gen
  BY CaptureStep DEF StunInv
<1>5. gen <= gen
  BY DEF StunInv, StunTypeOK, Gens
<1>6. SentFromThePast'
  BY <1>1, <1>3, <1>4, <1>5 DEF SentFromThePast
<1>7. PortWasReported'
  BY <1>1, <1>3 DEF PortWasReported
<1> QED BY <1>6, <1>7

(* The answer that is counted is the report.                               *)
LEMMA HandleReports ==
  ASSUME StunInv, SentFromThePast, PortWasReported, NEW g \in Gens, Handle(g)
  PROVE  SentFromThePast' /\ PortWasReported'
<1> DEFINE x == hand[g].tx
           ip == hand[g].ip
           port == [gen |-> sent[x], ip |-> ip]
<1>1. /\ hand[g] # NoAnswer
      /\ \/ UNCHANGED <<mappedPort, counted>>
         \/ /\ x \in pending
            /\ mappedPort' \in {port, mappedPort}
            /\ counted' = [counted EXCEPT ![x] = @ + 1]
      /\ UNCHANGED <<gen, sent, caller>>
  BY DEF Handle, sockVars, mapVars
<1>2. x \in DOMAIN sent
  BY <1>1 DEF StunInv, AnswersAreSent
<1> HIDE DEF x, port
<1>3. SentFromThePast'
  BY <1>1 DEF SentFromThePast
<1>4. CASE UNCHANGED <<mappedPort, counted>>
  BY <1>1, <1>3, <1>4 DEF PortWasReported
<1>5. CASE /\ x \in pending
           /\ mappedPort' \in {port, mappedPort}
           /\ counted' = [counted EXCEPT ![x] = @ + 1]
  <2>1. counted \in [Tx -> 0 .. 1] /\ x \notin Counted /\ x \in Tx
    BY <1>5 DEF StunInv, StunTypeOK, Accounted
  <2>2. counted[x] = 0
    BY <2>1 DEF Counted
  <2>3. counted'[x] = 1 /\ \A y \in Tx \ {x} : counted'[y] = counted[y]
    BY <1>5, <2>1, <2>2
  <2>4. CASE mappedPort' = port
    <3>1. mappedPort'.gen = sent[x] /\ sent[x] <= gen
      BY <1>2, <2>4 DEF SentFromThePast, port
    <3> QED BY <1>1, <1>2, <1>3, <2>1, <2>3, <3>1 DEF PortWasReported
  <2>5. CASE mappedPort' = mappedPort
    <3>1. SUFFICES ASSUME mappedPort # NoPort PROVE PortWasReported'
      BY <1>3, <2>5 DEF PortWasReported
    <3>2. PICK y \in Tx \intersect DOMAIN sent : sent[y] = mappedPort.gen /\ counted[y] = 1
      BY <3>1 DEF PortWasReported
    <3>3. y \in Tx /\ y # x
      BY <2>2, <3>2
    <3>4. counted'[y] = 1
      BY <2>3, <3>2, <3>3
    <3> QED BY <1>1, <2>5, <3>1, <3>2, <3>4 DEF PortWasReported
  <2> QED BY <1>5, <2>4, <2>5
<1> QED BY <1>1, <1>3, <1>4, <1>5

LEMMA ReportedStep ==
  StunInv /\ SentFromThePast /\ PortWasReported /\ [StunNext]_stunVars
    => SentFromThePast' /\ PortWasReported'
<1> SUFFICES ASSUME StunInv, SentFromThePast, PortWasReported, [StunNext]_stunVars
             PROVE  SentFromThePast' /\ PortWasReported'
  OBVIOUS
<1> USE DEF sockVars, mapVars, netVars, history
<1>1. ASSUME NEW c \in Callers, Call(c) \/ ForceCall(c) \/ Discover(c)
      PROVE  SentFromThePast' /\ PortWasReported'
  <2>1. CASE Request(c)
    BY <2>1, RequestReports
  <2>2. CASE Call(c) \/ ForceCall(c) \/ Check(c) \/ TakeToken(c) \/ Finish(c)
    <3>1. \A d \in Callers : caller'[d].pc = "request"
                             => caller'[d] = caller[d] \/ caller'[d].sock = gen
      BY <2>2, CaptureStep DEF StunInv
    <3>2. UNCHANGED <<gen, sent, counted>> /\ mappedPort' \in {mappedPort, NoPort}
      BY <2>2 DEF Call, ForceCall, Invalidate, Check, TakeToken, Finish
    <3> QED BY <3>1, <3>2, NothingReported
  <2> QED BY <1>1, <2>1, <2>2 DEF Discover
<1>2. ASSUME NEW g \in Gens, Handle(g) PROVE SentFromThePast' /\ PortWasReported'
  BY <1>2, HandleReports
<1>3. CASE HopPort
  <2>1. PICK c \in Callers :
          caller' = [caller EXCEPT ![c] = [Idle EXCEPT !.pc = "begin", !.gen = gen']]
    BY <1>3 DEF HopPort
  <2>2. [Idle EXCEPT !.pc = "begin", !.gen = gen'].pc = "begin"
    BY DEF Idle
  <2>3. DOMAIN caller = Callers
    BY DEF StunInv, StunTypeOK
  <2>4. \A d \in Callers : caller'[d].pc = "request" => caller'[d] = caller[d]
    BY <2>1, <2>2, <2>3
  <2> QED BY <1>3, <2>4, NothingReported DEF HopPort
<1>4. ASSUME UNCHANGED <<sent, counted, caller>>, gen' \in {gen, gen + 1},
             mappedPort' \in {mappedPort, NoPort}
      PROVE  SentFromThePast' /\ PortWasReported'
  BY <1>4, NothingReported
<1>5. CASE \/ \E y \in Tx, s \in Servers : Receive(y, s)
           \/ \E y \in Tx : Expire(y)
           \/ HopPortFails \/ ResetSocket \/ ResetSocketFails \/ InvalidateMappedAddress
  BY <1>4, <1>5 DEF Receive, Expire, HopPortFails, ResetSocket, ResetSocketFails,
                    ForgetMapping, InvalidateMappedAddress, Invalidate
<1>6. CASE UNCHANGED stunVars
  BY <1>4, <1>6 DEF stunVars
<1> QED BY <1>1, <1>2, <1>3, <1>5, <1>6 DEF StunNext

(* Whatever answers, hops, resets and invalidations cross each other, the  *)
(* port the puncher tells its peers was given to one of its own sockets.   *)
THEOREM PortsAreReported == StunSpec => []PortWasReported
<1>1. StunInit => SentFromThePast /\ PortWasReported
  BY DEF StunInit, SentFromThePast, PortWasReported, Idle
<1> QED BY <1>1, ReportedStep, StunInvariant, PTL DEF StunSpec

-----------------------------------------------------------------------------
(* Sessions that hop ports                                                 *)

USE SessionAssumption DEF SessionAssumption

(* A round that sets out to hop or to wait is one of the MaxHops rounds:   *)
(* with it the type of a session is inductive.                             *)
RoundBounded(s) == s.pc \in {"hop", "pause"} => s.hop < MaxHops

TypeInv == TypeOK /\ \A p \in Peers : RoundBounded(session[p])

(* A step that changes one session keeps TypeInv when the new session is   *)
(* of the right type.                                                      *)
LEMMA OneSession ==
  ASSUME TypeInv, NEW p \in Peers, NEW s \in Sessions, RoundBounded(s),
         session' = [session EXCEPT ![p] = s]
  PROVE  /\ session' \in [Peers -> Sessions]
         /\ \A q \in Peers : RoundBounded(session'[q])
<1>1. session \in [Peers -> Sessions] /\ \A q \in Peers : RoundBounded(session[q])
  BY DEF TypeInv, TypeOK
<1>2. \A q \in Peers : session'[q] = IF q = p THEN s ELSE session[q]
  BY <1>1
<1> QED
  BY <1>1, <1>2

(* The initial states have their types, and nothing is under way.          *)
LEMMA TypeInit == Init => TypeInv
  BY DEF Init, TypeInv, TypeOK, RoundBounded, NoSession, Sessions

(* A session that has returned is a session, whatever its flags.           *)
LEMMA Returned ==
  ASSUME NEW s \in Sessions, NEW canHop \in BOOLEAN, NEW did \in 0 .. 3,
         NEW found \in BOOLEAN
  PROVE  LET r == [s EXCEPT !.pc = "end", !.canHop = canHop,
                            !.did = did, !.found = found]
         IN  r \in Sessions /\ RoundBounded(r)
  BY DEF Sessions, RoundBounded

(* Return keeps the types of the sessions.                                 *)
LEMMA ReturnType ==
  ASSUME TypeInv, NEW p \in Peers, Return(p)
  PROVE  /\ session' \in [Peers -> Sessions]
         /\ \A q \in Peers : RoundBounded(session'[q])
<1> DEFINE s == [session[p] EXCEPT !.pc = "end", !.canHop = FALSE,
                                   !.did = 0, !.found = Winner(p)]
<1>1. session[p] \in Sessions
  BY DEF TypeInv, TypeOK
<1>2. Winner(p) \in BOOLEAN /\ FALSE \in BOOLEAN /\ 0 \in 0 .. 3
  BY DEF Winner
<1>3. s \in Sessions /\ RoundBounded(s)
  BY <1>1, <1>2, Returned, Zenon
<1>4. session' = [session EXCEPT ![p] = s]
  BY DEF Return
<1> HIDE DEF s
<1> QED
  BY <1>3, <1>4, OneSession

(* Each step of the engine, of NotifySuccess and of Run keeps the types    *)
(* and the bound on rounds.                                                *)
LEMMA TypeStep == TypeInv /\ [Next]_vars => TypeInv'
<1> SUFFICES ASSUME TypeInv, [Next]_vars PROVE TypeInv'
  OBVIOUS
<1> DEFINE Typed == /\ session' \in [Peers -> Sessions]
                    /\ \A q \in Peers : RoundBounded(session'[q])
<1>0. ASSUME Typed, UNCHANGED <<targets, broken, newcomers>> PROVE TypeInv'
  BY <1>0 DEF TypeInv, TypeOK, RoundBounded
<1>1. CASE UNCHANGED vars
  BY <1>1 DEF vars, TypeInv, TypeOK, RoundBounded
<1>2. ASSUME NEW p \in Peers PROVE session[p] \in Sessions /\ RoundBounded(session[p])
  BY <1>2 DEF TypeInv, TypeOK
<1>3. ASSUME NEW p \in Peers, Launch(p) PROVE TypeInv'
  <2> DEFINE s == [NoSession EXCEPT !.pc = "setup"]
  <2>1. s \in Sessions /\ RoundBounded(s)
    <3>1. NoSession \in Sessions
      BY DEF NoSession, Sessions
    <3> QED
      BY <3>1 DEF Sessions, RoundBounded
  <2>2. session' = [session EXCEPT ![p] = s]
    BY <1>3 DEF Launch
  <2> HIDE DEF s
  <2> QED
    BY <1>0, <1>3, <2>1, <2>2, OneSession DEF Launch
<1>4. ASSUME NEW p \in Peers, NEW why \in {"defer", "timeout"},
             session' = [session EXCEPT ![p].why = FirstToCancel(@, why)],
             UNCHANGED <<targets, broken, newcomers>>
      PROVE  TypeInv'
  <2> DEFINE s == [session[p] EXCEPT !.why = FirstToCancel(@, why)]
  <2>1. s \in Sessions /\ RoundBounded(s)
    BY <1>2 DEF FirstToCancel, Sessions, RoundBounded
  <2>2. session' = [session EXCEPT ![p] = s]
    BY <1>4
  <2> QED
    BY <1>0, <1>4, <2>1, <2>2, OneSession
<1>5. ASSUME NEW p \in Peers, PeerConnects(p) PROVE TypeInv'
  BY <1>5 DEF PeerConnects, TypeInv, TypeOK, RoundBounded
<1>6. ASSUME NEW p \in Peers, PeerLeaves(p) PROVE TypeInv'
  BY <1>6 DEF PeerLeaves, TypeInv, TypeOK, RoundBounded
<1>7. ASSUME NEW p \in Peers, NotifySuccess(p) PROVE TypeInv'
  <2> DEFINE c == NextStep(p) = "cancel" /\ session[p].pc # "setup"
             w == IF c THEN FirstToCancel(session[p].why, "notify") ELSE session[p].why
             s == [session[p] EXCEPT !.did = @ + 1, !.why = w]
  <2>1. session[p].did \in 0 .. 2 /\ session[p].did + 1 \in 0 .. 3
    BY <1>2, <1>7 DEF NotifySuccess, Sessions
  <2>2. w \in {"live", "defer", "timeout", "notify"}
    BY <1>2 DEF Sessions, FirstToCancel
  <2>3. s \in Sessions /\ RoundBounded(s)
    <3> HIDE DEF w
    <3> QED
      BY <1>2, <2>1, <2>2 DEF Sessions, RoundBounded
  <2>4. session' = [session EXCEPT ![p] = s]
    BY <1>2, <1>7 DEF NotifySuccess, Sessions, TypeInv, TypeOK
  <2> QED
    BY <1>0, <1>7, <2>3, <2>4, OneSession DEF NotifySuccess
<1>8. ASSUME NEW p \in Peers, Setup(p) PROVE TypeInv'
  <2> DEFINE s == [session[p] EXCEPT !.pc = "top", !.canHop = MayHop]
  <2>1. MayHop \in BOOLEAN
    BY DEF MayHop
  <2>2. s \in Sessions /\ RoundBounded(s)
    BY <1>2, <2>1 DEF Sessions, RoundBounded
  <2>3. session' = [session EXCEPT ![p] = s]
    BY <1>2, <1>8 DEF Setup, TypeInv, TypeOK, Sessions
  <2> QED
    BY <1>0, <1>8, <2>2, <2>3, OneSession DEF Setup
<1>9. ASSUME NEW p \in Peers, Top(p) PROVE TypeInv'
  <2>1. CASE Return(p)
    BY <1>0, <1>9, <2>1, ReturnType DEF Top
  <2>2. CASE ~LastRound(p) /\ Goto(p, IF session[p].canHop THEN "hop" ELSE "pause")
    <3> DEFINE s == [session[p] EXCEPT !.pc = IF session[p].canHop THEN "hop" ELSE "pause"]
    <3>1. session[p].hop < MaxHops
      BY <1>2, <2>2 DEF LastRound, Sessions
    <3>2. s \in Sessions /\ RoundBounded(s)
      BY <1>2, <3>1 DEF Sessions, RoundBounded
    <3>3. session' = [session EXCEPT ![p] = s]
      BY <2>2 DEF Goto
    <3> QED
      BY <1>0, <1>9, <3>2, <3>3, OneSession DEF Top
  <2> QED
    BY <1>9, <2>1, <2>2 DEF Top
<1>10. ASSUME NEW p \in Peers, Hop(p) PROVE TypeInv'
  <2>1. PICK failed \in BOOLEAN :
          session' = [session EXCEPT
                     ![p].pc = IF failed THEN "top" ELSE "pause",
                     ![p].hop = IF failed THEN NextRound(@) ELSE @,
                     ![p].late = IF Winner(p) THEN @ + 1 ELSE @]
    BY <1>10 DEF Hop
  <2> DEFINE h == IF failed THEN session[p].hop + 1 ELSE session[p].hop
             l == IF Winner(p) THEN session[p].late + 1 ELSE session[p].late
             s == [session[p] EXCEPT !.pc = IF failed THEN "top" ELSE "pause",
                                     !.hop = h, !.late = l]
  <2>2. session[p].hop \in Nat /\ session[p].hop < MaxHops
    BY <1>2, <1>10 DEF Hop, Sessions, RoundBounded
  <2>3. h \in 0 .. MaxHops /\ (~failed => h < MaxHops) /\ l \in Nat
    BY <1>2, <2>2 DEF Sessions
  <2>4. s \in Sessions /\ RoundBounded(s)
    <3> HIDE DEF h, l
    <3> QED
      BY <1>2, <2>3 DEF Sessions, RoundBounded
  <2>5. session' = [session EXCEPT ![p] = s]
    BY <1>2, <2>1 DEF NextRound, TypeInv, TypeOK, Sessions
  <2>6. Typed
    <3> HIDE DEF s
    <3> QED
      BY <2>4, <2>5, OneSession
  <2> QED
    BY <1>10, <2>6 DEF Hop, TypeInv, TypeOK, RoundBounded
<1>11. ASSUME NEW p \in Peers, Pause(p) PROVE TypeInv'
  <2>1. CASE Return(p)
    BY <1>0, <1>11, <2>1, ReturnType DEF Pause
  <2>2. CASE session' = [session EXCEPT ![p].pc = "top", ![p].hop = NextRound(@)]
    <3> DEFINE s == [session[p] EXCEPT !.pc = "top", !.hop = session[p].hop + 1]
    <3>1. session[p].hop + 1 \in 0 .. MaxHops
      BY <1>2, <1>11 DEF Pause, Sessions, RoundBounded
    <3>2. s \in Sessions /\ RoundBounded(s)
      BY <1>2, <3>1 DEF Sessions, RoundBounded
    <3>3. session' = [session EXCEPT ![p] = s]
      BY <1>2, <2>2 DEF NextRound, TypeInv, TypeOK, Sessions
    <3> HIDE DEF s
    <3> QED
      BY <1>0, <1>11, <3>2, <3>3, OneSession DEF Pause
  <2> QED
    BY <1>11, <2>1, <2>2 DEF Pause
<1> QED
  BY <1>1, <1>3, <1>4, <1>5, <1>6, <1>7, <1>8, <1>9, <1>10, <1>11
  DEF Next, Run, DeferredCancel, Timeout

(* The variables always have their types: no session runs a round beyond   *)
(* SymmetricNATMaxHops.                                                    *)
THEOREM TypeCorrect == Spec => []TypeOK
<1>1. TypeInv => TypeOK
  BY DEF TypeInv
<1> QED
  BY <1>1, TypeInit, TypeStep, PTL DEF Spec

-----------------------------------------------------------------------------
(* Established peers keep their mapping                                    *)

(* A session may hop only when it found no target, so every target there   *)
(* is by then has connected since.                                         *)
MayBreak(p) == Running(p) /\ session[p].canHop

HopsAreCovered ==
  \A p \in Peers : /\ MayBreak(p) => targets \subseteq newcomers
                   /\ session[p].pc = "hop" => session[p].canHop

KeptInv == TypeInv /\ EstablishedPeersKept /\ HopsAreCovered

(* A step that makes no session a hopping one, and leaves the peers alone, *)
(* keeps what KeptInv says.                                                *)
LEMMA OthersCovered ==
  ASSUME KeptInv, NEW p \in Peers, UNCHANGED <<targets, broken, newcomers>>,
         \A q \in Peers \ {p} : session'[q] = session[q],
         session'[p].pc \notin {"none", "end"} /\ session'[p].canHop => MayBreak(p),
         session'[p].pc = "hop" => session'[p].canHop
  PROVE  EstablishedPeersKept' /\ HopsAreCovered'
  BY DEF KeptInv, EstablishedPeersKept, HopsAreCovered, MayBreak, Running

(* Each step keeps broken within newcomers.                                *)
LEMMA KeptStep == KeptInv /\ [Next]_vars => KeptInv'
<1> SUFFICES ASSUME KeptInv, [Next]_vars
             PROVE  EstablishedPeersKept' /\ HopsAreCovered'
  BY TypeStep DEF KeptInv
<1> DEFINE Goal == EstablishedPeersKept' /\ HopsAreCovered'
<1>0. session \in [Peers -> Sessions]
  BY DEF KeptInv, TypeInv, TypeOK
<1>1. CASE UNCHANGED vars
  BY <1>1 DEF vars, KeptInv, EstablishedPeersKept, HopsAreCovered, MayBreak, Running
<1>2. ASSUME NEW p \in Peers, Launch(p) PROVE Goal
  <2>1. session'[p].pc = "setup" /\ ~session'[p].canHop
    BY <1>0, <1>2 DEF Launch, NoSession
  <2> QED
    BY <1>0, <1>2, <2>1, OthersCovered DEF Launch
<1>3. ASSUME NEW p \in Peers, DeferredCancel(p) \/ Timeout(p) PROVE Goal
  <2>1. session'[p].pc = session[p].pc /\ session'[p].canHop = session[p].canHop
    BY <1>0, <1>3 DEF DeferredCancel, Timeout, Sessions
  <2>2. \A q \in Peers \ {p} : session'[q] = session[q]
    BY <1>0, <1>3 DEF DeferredCancel, Timeout
  <2> QED
    BY <1>3, <2>1, <2>2, OthersCovered
    DEF DeferredCancel, Timeout, KeptInv, HopsAreCovered, MayBreak, Running
<1>4. ASSUME NEW p \in Peers, PeerConnects(p) PROVE Goal
  BY <1>4 DEF PeerConnects, KeptInv, EstablishedPeersKept, HopsAreCovered, MayBreak, Running
<1>5. ASSUME NEW p \in Peers, PeerLeaves(p) PROVE Goal
  BY <1>5 DEF PeerLeaves, KeptInv, EstablishedPeersKept, HopsAreCovered, MayBreak, Running
<1>6. ASSUME NEW p \in Peers, NotifySuccess(p) PROVE Goal
  <2>1. session'[p].pc = session[p].pc /\ session'[p].canHop = session[p].canHop
    BY <1>0, <1>6 DEF NotifySuccess, Sessions
  <2>2. \A q \in Peers \ {p} : session'[q] = session[q]
    BY <1>0, <1>6 DEF NotifySuccess
  <2> QED
    BY <1>6, <2>1, <2>2, OthersCovered
    DEF NotifySuccess, KeptInv, HopsAreCovered, MayBreak, Running
<1>7. ASSUME NEW p \in Peers, Setup(p) PROVE Goal
  <2>1. session'[p].pc = "top" /\ (session'[p].canHop => targets = {})
    BY <1>0, <1>7 DEF Setup, MayHop, Sessions
  <2>2. \A q \in Peers \ {p} : session'[q] = session[q]
    BY <1>0, <1>7 DEF Setup
  <2> QED
    BY <1>7, <2>1, <2>2
    DEF Setup, KeptInv, EstablishedPeersKept, HopsAreCovered, MayBreak, Running
<1>8. ASSUME NEW p \in Peers, Return(p), UNCHANGED <<targets, broken, newcomers>>
      PROVE  Goal
  <2>1. session'[p].pc = "end"
    BY <1>0, <1>8 DEF Return, Sessions
  <2>2. \A q \in Peers \ {p} : session'[q] = session[q]
    BY <1>0, <1>8 DEF Return
  <2> QED
    BY <1>8, <2>1, <2>2, OthersCovered
<1>9. ASSUME NEW p \in Peers, Top(p) PROVE Goal
  <2>1. CASE Return(p)
    BY <1>8, <1>9, <2>1 DEF Top
  <2>2. CASE Goto(p, IF session[p].canHop THEN "hop" ELSE "pause")
    <3>1. /\ session'[p].canHop = session[p].canHop
          /\ session'[p].pc = IF session[p].canHop THEN "hop" ELSE "pause"
      BY <1>0, <2>2 DEF Goto, Sessions
    <3>2. \A q \in Peers \ {p} : session'[q] = session[q]
      BY <1>0, <2>2 DEF Goto
    <3> QED
      BY <1>9, <3>1, <3>2, OthersCovered DEF Top, MayBreak, Running
  <2> QED
    BY <1>9, <2>1, <2>2 DEF Top
<1>10. ASSUME NEW p \in Peers, Hop(p) PROVE Goal
  <2>1. /\ session'[p].canHop = session[p].canHop
        /\ session'[p].pc \in {"top", "pause"}
    BY <1>0, <1>10 DEF Hop, Sessions
  <2>2. \A q \in Peers \ {p} : session'[q] = session[q]
    BY <1>0, <1>10 DEF Hop
  <2>3. targets \subseteq newcomers
    BY <1>10 DEF Hop, KeptInv, HopsAreCovered, MayBreak, Running
  <2> QED
    BY <1>10, <2>1, <2>2, <2>3
    DEF Hop, KeptInv, EstablishedPeersKept, HopsAreCovered, MayBreak, Running
<1>11. ASSUME NEW p \in Peers, Pause(p) PROVE Goal
  <2>1. CASE Return(p)
    BY <1>8, <1>11, <2>1 DEF Pause
  <2>2. CASE session' = [session EXCEPT ![p].pc = "top", ![p].hop = NextRound(@)]
    <3>1. session'[p].canHop = session[p].canHop /\ session'[p].pc = "top"
      BY <1>0, <2>2 DEF Sessions
    <3>2. \A q \in Peers \ {p} : session'[q] = session[q]
      BY <1>0, <2>2
    <3> QED
      BY <1>11, <3>1, <3>2, OthersCovered DEF Pause, MayBreak, Running
  <2> QED
    BY <1>11, <2>1, <2>2 DEF Pause
<1> QED
  BY <1>1, <1>2, <1>3, <1>4, <1>5, <1>6, <1>7, <1>9, <1>10, <1>11 DEF Next, Run

(* No number of sessions, hopping as they like, breaks the mapping of a    *)
(* peer that was connected before the sessions decided to hop.             *)
THEOREM EstablishedKept == Spec => []EstablishedPeersKept
<1>1. Init => KeptInv
  <2>1. Init => EstablishedPeersKept /\ HopsAreCovered
    BY DEF Init, EstablishedPeersKept, HopsAreCovered, MayBreak, Running, NoSession
  <2> QED
    BY <2>1, TypeInit DEF KeptInv
<1>2. KeptInv => EstablishedPeersKept
  BY DEF KeptInv
<1> QED
  BY <1>1, <1>2, KeptStep, PTL DEF Spec

-----------------------------------------------------------------------------
(* What one session knows of its winner: a hop made after the record is    *)
(* the last one, and its own NotifySuccess has recorded before it cancels. *)
Honest(s) ==
  /\ s.late = 0 \/ (s.late = 1 /\ (s.pc = "end" \/ (s.pc \in {"top", "pause"} /\ s.did >= 1)))
  /\ s.why = "notify" => (s.pc = "end" /\ s.found = TRUE) \/ (s.pc # "end" /\ s.did = 3)

HonestInv == TypeInv /\ \A p \in Peers : Honest(session[p])

(* The address is recorded by the first step of NotifySuccess.             *)
LEMMA Recorded ==
  ASSUME TypeInv, NEW p \in Peers
  PROVE  Winner(p) <=> session[p].did >= 1
<1>1. session[p].did \in 0 .. 3
  BY DEF TypeInv, TypeOK, Sessions
<1> QED
  BY <1>1 DEF Winner, NotifyOrder

(* One session changes to an honest one.                                   *)
LEMMA OneHonest ==
  ASSUME HonestInv, NEW p \in Peers, NEW s, Honest(s),
         session' = [session EXCEPT ![p] = s]
  PROVE  \A q \in Peers : Honest(session'[q])
  BY DEF HonestInv, TypeInv, TypeOK

LEMMA HonestStep == HonestInv /\ [Next]_vars => HonestInv'
<1> SUFFICES ASSUME HonestInv, [Next]_vars PROVE \A q \in Peers : Honest(session'[q])
  BY TypeStep DEF HonestInv
<1>0. session \in [Peers -> Sessions] /\ \A q \in Peers : Honest(session[q])
  BY DEF HonestInv, TypeInv, TypeOK
<1>1. ASSUME NEW p \in Peers, Return(p), Stopped(p) \/ session[p].late = 0,
             Running(p)
      PROVE  \A q \in Peers : Honest(session'[q])
  <2> DEFINE s == [session[p] EXCEPT !.pc = "end", !.canHop = FALSE,
                                     !.did = 0, !.found = Winner(p)]
  <2>1. session' = [session EXCEPT ![p] = s]
    BY <1>1 DEF Return
  <2>2. s.pc = "end" /\ s.late = session[p].late /\ s.why = session[p].why
        /\ s.found = Winner(p)
    BY <1>0 DEF Sessions
  <2>3. session[p].pc # "end" /\ Honest(session[p])
    BY <1>0, <1>1 DEF Running
  <2>4. session[p].why = "notify" => Winner(p)
    BY <2>3, Recorded DEF Honest, HonestInv
  <2>5. session[p].why = "notify" => s.found = TRUE
    <3>1. Winner(p) \in BOOLEAN
      BY DEF Winner
    <3> QED
      BY <2>2, <2>4, <3>1
  <2> HIDE DEF s
  <2>6. Honest(s)
    BY <2>2, <2>3, <2>5 DEF Honest
  <2> QED
    BY <2>1, <2>6, OneHonest
<1>2. ASSUME NEW p \in Peers, Launch(p) PROVE \A q \in Peers : Honest(session'[q])
  <2> DEFINE s == [NoSession EXCEPT !.pc = "setup"]
  <2>1. session' = [session EXCEPT ![p] = s]
    BY <1>2 DEF Launch
  <2>2. Honest(s)
    BY DEF Honest, NoSession
  <2> HIDE DEF s
  <2> QED
    BY <2>1, <2>2, OneHonest
<1>3. ASSUME NEW p \in Peers, DeferredCancel(p) \/ Timeout(p)
      PROVE  \A q \in Peers : Honest(session'[q])
  BY <1>0, <1>3 DEF DeferredCancel, Timeout, FirstToCancel, Honest, Sessions, Running
<1>4. ASSUME NEW p \in Peers, NotifySuccess(p) PROVE \A q \in Peers : Honest(session'[q])
  <2>1. /\ session[p].did \in 0 .. 2 /\ session[p].pc # "end" /\ Honest(session[p])
        /\ session[p] \in Sessions
    BY <1>0, <1>4 DEF NotifySuccess, Running, Sessions
  <2>2. NextStep(p) = "cancel" => session[p].did = 2
    BY <2>1 DEF NextStep, NotifyOrder
  <2>3. /\ \A q \in Peers \ {p} : session'[q] = session[q]
        /\ session'[p].late = session[p].late /\ session'[p].pc = session[p].pc
        /\ session'[p].did = session[p].did + 1
        /\ session'[p].why = session[p].why
              \/ (session[p].did = 2 /\ session'[p].why \in {session[p].why, "notify"})
    BY <1>0, <1>4, <2>1, <2>2 DEF NotifySuccess, FirstToCancel, Sessions
  <2>4. Honest(session'[p])
    BY <2>1, <2>3 DEF Honest
  <2> QED
    BY <1>0, <2>3, <2>4
<1>5. ASSUME NEW p \in Peers, Setup(p) PROVE \A q \in Peers : Honest(session'[q])
  BY <1>0, <1>5 DEF Setup, Honest, Sessions
<1>6. ASSUME NEW p \in Peers, Top(p) PROVE \A q \in Peers : Honest(session'[q])
  <2>1. Running(p) /\ session[p].pc = "top" /\ Honest(session[p])
    BY <1>0, <1>6 DEF Top, Running
  <2>2. session[p].late = 0 \/ Winner(p)
    BY <2>1, Recorded DEF Honest, HonestInv
  <2>3. CASE Return(p)
    BY <1>1, <2>1, <2>2, <2>3 DEF Stopped
  <2>4. CASE ~Return(p)
    <3>1. ~Winner(p) /\ session[p].late = 0
      BY <1>6, <2>2, <2>4 DEF Top, Heeded, Stopped
    <3>2. PICK pc \in {"hop", "pause"} : session' = [session EXCEPT ![p].pc = pc]
      BY <1>6, <2>4 DEF Top, Goto
    <3> QED
      BY <1>0, <2>1, <3>1, <3>2 DEF Honest, Sessions
  <2> QED
    BY <2>3, <2>4
<1>7. ASSUME NEW p \in Peers, Hop(p) PROVE \A q \in Peers : Honest(session'[q])
  <2>1. session[p].pc = "hop" /\ Honest(session[p]) /\ session[p] \in Sessions
    BY <1>0, <1>7 DEF Hop
  <2>2. /\ \A q \in Peers \ {p} : session'[q] = session[q]
        /\ session'[p].pc \in {"top", "pause"}
        /\ session'[p].did = session[p].did /\ session'[p].why = session[p].why
        /\ session'[p].late = IF Winner(p) THEN session[p].late + 1 ELSE session[p].late
    BY <1>0, <1>7 DEF Hop, Sessions
  <2>3. Winner(p) => session[p].did >= 1
    BY Recorded DEF HonestInv
  <2>4. Honest(session'[p])
    BY <2>1, <2>2, <2>3 DEF Honest
  <2> QED
    BY <1>0, <2>2, <2>4
<1>8. ASSUME NEW p \in Peers, Pause(p) PROVE \A q \in Peers : Honest(session'[q])
  <2>1. CASE Stopped(p) /\ Return(p)
    BY <1>1, <1>8, <2>1 DEF Pause, Running
  <2>2. CASE session' = [session EXCEPT ![p].pc = "top", ![p].hop = NextRound(@)]
    BY <1>0, <1>8, <2>2 DEF Pause, Honest, Sessions
  <2> QED
    BY <1>8, <2>1, <2>2 DEF Pause
<1>9. CASE UNCHANGED session
  BY <1>0, <1>9
<1>10. ASSUME NEW p \in Peers, PeerConnects(p) \/ PeerLeaves(p) PROVE UNCHANGED session
  BY <1>10 DEF PeerConnects, PeerLeaves
<1> QED
  BY <1>2, <1>3, <1>4, <1>5, <1>6, <1>7, <1>8, <1>9, <1>10 DEF Next, Run, vars

LEMMA HonestHolds == Spec => []HonestInv
<1>1. Init => HonestInv
  BY TypeInit DEF Init, HonestInv, Honest, NoSession
<1> QED
  BY <1>1, HonestStep, PTL DEF Spec

(* A session hops at most once after its winner was recorded, whatever the *)
(* other sessions and the contexts do.                                     *)
THEOREM OneHopAfterWinner == Spec => []AtMostOneHopAfterWinner
<1>1. HonestInv => AtMostOneHopAfterWinner
  <2> SUFFICES ASSUME HonestInv, NEW p \in Peers PROVE session[p].late <= 1
    BY DEF AtMostOneHopAfterWinner
  <2>1. session[p].late \in {0, 1}
    BY DEF HonestInv, Honest
  <2> QED
    BY <2>1
<1> QED
  BY <1>1, HonestHolds, PTL

(* A session that NotifySuccess was the first to cancel returns the        *)
(* winner.                                                                 *)
THEOREM WinnerIsReturned == Spec => []SuccessIsReturned
<1>1. HonestInv => SuccessIsReturned
  BY DEF HonestInv, Honest, SuccessIsReturned
<1> QED
  BY <1>1, HonestHolds, PTL

-----------------------------------------------------------------------------
(* Sessions run out of rounds                                              *)

(* The steps of Run that a session has left, at most.                      *)
StepsLeft(s) ==
  CASE s.pc = "setup" -> 3 * MaxHops + 4
    [] s.pc = "top"   -> 3 * (MaxHops - s.hop) + 3
    [] s.pc = "hop"   -> 3 * (MaxHops - s.hop) + 2
    [] s.pc = "pause" -> 3 * (MaxHops - s.hop) + 1
    [] OTHER          -> 0

(* Each step of Run uses up one of those at least, a hop that fails to     *)
(* bind included, and nobody else gives a session any back while it runs.  *)
RoundsRunOut ==
  \A p \in Peers :
    /\ Run(p) => StepsLeft(session'[p]) < StepsLeft(session[p])
    /\ Running(p) => StepsLeft(session'[p]) <= StepsLeft(session[p])

LEMMA LeftBounded ==
  ASSUME NEW s \in Sessions
  PROVE  /\ StepsLeft(s) \in Nat
         /\ s.pc \notin {"none", "end"} => 0 < StepsLeft(s)
  BY DEF Sessions, StepsLeft

(* A session whose step and round are as before has as many steps left.    *)
LEMMA SameLeft ==
  ASSUME NEW s \in Sessions, NEW r \in Sessions, r.pc = s.pc, r.hop = s.hop
  PROVE  StepsLeft(r) = StepsLeft(s)
  BY DEF StepsLeft

(* A step of Run, for the session that takes it.                           *)
LEMMA RunUsesUp ==
  ASSUME TypeInv, TypeInv', NEW p \in Peers, Run(p)
  PROVE  StepsLeft(session'[p]) < StepsLeft(session[p])
<1>0. /\ session \in [Peers -> Sessions]
      /\ session[p] \in Sessions /\ session'[p] \in Sessions
      /\ session[p].hop \in Nat /\ session[p].hop <= MaxHops
      /\ session[p].pc \in {"hop", "pause"} => session[p].hop < MaxHops
  BY DEF TypeInv, TypeOK, Sessions, RoundBounded
<1>1. CASE Setup(p)
  <2>1. session'[p].pc = "top" /\ session'[p].hop = session[p].hop /\ session[p].pc = "setup"
    BY <1>0, <1>1 DEF Setup, Sessions
  <2> QED
    BY <1>0, <2>1 DEF StepsLeft
<1>2. ASSUME Return(p), Running(p) PROVE StepsLeft(session'[p]) < StepsLeft(session[p])
  <2>1. session'[p].pc = "end"
    BY <1>0, <1>2 DEF Return, Sessions
  <2>2. StepsLeft(session'[p]) = 0
    BY <2>1 DEF StepsLeft
  <2> QED
    BY <1>0, <1>2, <2>2, LeftBounded DEF Running
<1>3. CASE Top(p)
  <2>1. session[p].pc = "top" /\ Running(p)
    BY <1>3 DEF Top, Running
  <2>2. CASE Goto(p, IF session[p].canHop THEN "hop" ELSE "pause")
    <3>1. session'[p].pc \in {"hop", "pause"} /\ session'[p].hop = session[p].hop
      BY <1>0, <2>2 DEF Goto, Sessions
    <3> QED
      BY <1>0, <2>1, <3>1 DEF StepsLeft
  <2> QED
    BY <1>2, <1>3, <2>1, <2>2 DEF Top
<1>4. CASE Hop(p)
  <2>1. /\ session[p].pc = "hop"
        /\ \/ session'[p].pc = "top" /\ session'[p].hop = session[p].hop + 1
           \/ session'[p].pc = "pause" /\ session'[p].hop = session[p].hop
    BY <1>0, <1>4 DEF Hop, Sessions, NextRound
  <2> QED
    BY <1>0, <2>1 DEF StepsLeft
<1>5. CASE Pause(p)
  <2>1. session[p].pc = "pause" /\ Running(p)
    BY <1>5 DEF Pause, Running
  <2>2. CASE session' = [session EXCEPT ![p].pc = "top", ![p].hop = NextRound(@)]
    <3>1. session'[p].pc = "top" /\ session'[p].hop = session[p].hop + 1
      BY <1>0, <2>2 DEF NextRound, Sessions
    <3> QED
      BY <1>0, <2>1, <3>1 DEF StepsLeft
  <2> QED
    BY <1>2, <1>5, <2>1, <2>2 DEF Pause
<1> QED
  BY <1>1, <1>3, <1>4, <1>5 DEF Run

(* Everybody else's steps, while the session runs.                         *)
LEMMA OthersTakeNothing ==
  ASSUME TypeInv, TypeInv', [Next]_vars, NEW p \in Peers, Running(p), ~Run(p)
  PROVE  session'[p].pc = session[p].pc /\ session'[p].hop = session[p].hop
<1>0. session \in [Peers -> Sessions] /\ session[p] \in Sessions
  BY DEF TypeInv, TypeOK
<1>1. ASSUME UNCHANGED session PROVE session'[p] = session[p]
  BY <1>1
<1>2. ASSUME NEW q \in Peers, Run(q) PROVE session'[p] = session[p]
  BY <1>0, <1>2 DEF Run, Setup, Top, Hop, Pause, Return, Goto
<1>3. ASSUME NEW q \in Peers, Launch(q) PROVE session'[p] = session[p]
  BY <1>0, <1>3 DEF Launch
<1>4. ASSUME NEW q \in Peers, DeferredCancel(q) \/ Timeout(q) \/ NotifySuccess(q)
      PROVE  session'[p].pc = session[p].pc /\ session'[p].hop = session[p].hop
  BY <1>0, <1>4 DEF DeferredCancel, Timeout, NotifySuccess, Sessions
<1>5. ASSUME NEW q \in Peers, PeerConnects(q) \/ PeerLeaves(q) PROVE UNCHANGED session
  BY <1>5 DEF PeerConnects, PeerLeaves
<1> QED
  BY <1>1, <1>2, <1>3, <1>4, <1>5 DEF Next, vars

LEMMA RunOutStep == TypeInv /\ [Next]_vars => RoundsRunOut
<1> SUFFICES ASSUME TypeInv, [Next]_vars, NEW p \in Peers
             PROVE  /\ Run(p) => StepsLeft(session'[p]) < StepsLeft(session[p])
                    /\ Running(p) => StepsLeft(session'[p]) <= StepsLeft(session[p])
  BY DEF RoundsRunOut
<1>1. TypeInv'
  BY TypeStep
<1>2. session[p] \in Sessions /\ session'[p] \in Sessions
  BY <1>1 DEF TypeInv, TypeOK
<1>3. StepsLeft(session[p]) \in Nat /\ StepsLeft(session'[p]) \in Nat
  BY <1>2, LeftBounded
<1>4. CASE Run(p)
  BY <1>1, <1>3, <1>4, RunUsesUp
<1>5. CASE Running(p) /\ ~Run(p)
  BY <1>1, <1>2, <1>3, <1>5, OthersTakeNothing, SameLeft
<1> QED
  BY <1>4, <1>5

(* A session ends after finitely many steps of its own, whatever cancels,  *)
(* answers, failed hops and other sessions come between: with the          *)
(* scheduler's fairness, SessionsEnd (sym_nat_session.go).                 *)
THEOREM SessionsRunOut == Spec => [][RoundsRunOut]_vars
<1> QED
  BY TypeInit, TypeStep, RunOutStep, PTL DEF Spec
=============================================================================
