---------------------------- MODULE StunMapping -----------------------------
(***************************************************************************)
(* How internal/network/puncher.go learns its external address: callers of *)
(* DiscoverMappedAddress send one STUN request to several servers from the *)
(* puncher's socket, read loops hand the answers to handleSTUNMessage,     *)
(* which counts votes per IP, and HopPort, ResetSocket and                 *)
(* InvalidateMappedAddress replace the socket or forget the mapping in     *)
(* between.  A mapping is the external IP and port the NAT gave a socket,  *)
(* so a port is named by the socket generation and the IP it belongs to.   *)
(*                                                                         *)
(* A definition that nothing below uses is a fault the code could have had *)
(* in the definition it stands before.                                     *)
(***************************************************************************)
EXTENDS Naturals, Sequences

CONSTANTS IPs,       \* external addresses of the host's uplinks
          Servers,   \* STUN servers
          Callers,   \* goroutines calling DiscoverMappedAddress
          NoIP,      \* nil
          MaxTx,     \* bound: STUN requests sent
          MaxGen,    \* bound: sockets
          MaxTokens  \* capacity of stunRespCh, 8 in the code

ASSUME StunAssumption ==
  NoIP \notin IPs /\ MaxTx \in Nat /\ MaxGen \in Nat \ {0} /\ MaxTokens \in Nat

Tx   == 1 .. MaxTx
Gens == 1 .. MaxGen
Port == [gen : Gens, ip : IPs]
NoPort == [gen |-> 0, ip |-> NoIP]
NoAnswer == [tx |-> 0, ip |-> NoIP]

VARIABLES
  gen,        \* generation of p.conn
  up,         \* p.conn is open: a hop may fail to bind a new socket
  mappedIP, mappedPort,
  votes,      \* stunIPVotes
  sent,       \* for each request sent: the socket it went out of
  pending,    \* pendingSTUNTx
  tokens,     \* length of stunRespCh
  hand,       \* answer a read loop of each generation has read, not handled
  awaited,    \* server answers still to come, by request
  caller,     \* the calls of DiscoverMappedAddress
  counted,    \* history: votes cast by the answers to each request
  outdated    \* history: a call has returned the mapping of an older socket
              \* than the one in use when it began

sockVars == <<gen, up>>
mapVars == <<mappedIP, mappedPort, votes>>
netVars == <<sent, pending, hand, awaited>>
history == <<counted, outdated>>
stunVars == <<sockVars, mapVars, netVars, tokens, caller, history>>

NoVotes == [ip \in IPs |-> 0]
Idle == [pc |-> "idle", gen |-> 0, sock |-> 0, tx |-> 0]

StunInit ==
  /\ gen = 1 /\ up = TRUE
  /\ mappedIP = NoIP /\ mappedPort = NoPort /\ votes = NoVotes
  /\ sent = <<>> /\ pending = {} /\ tokens = 0
  /\ hand = [g \in Gens |-> NoAnswer]
  /\ awaited = [x \in Tx |-> {}]
  /\ caller = [c \in Callers |-> Idle]
  /\ counted = [x \in Tx |-> 0]
  /\ outdated = FALSE

-----------------------------------------------------------------------------
(* DiscoverMappedAddress                                                   *)

Mapped == mappedIP # NoIP /\ mappedPort # NoPort

ReturnMapping(c, ok) ==
  /\ caller' = [caller EXCEPT ![c] = Idle]
  /\ outdated' = (outdated \/ (ok /\ mappedPort.gen < caller[c].gen))

Call(c) ==
  /\ caller[c].pc = "idle"
  /\ caller' = [caller EXCEPT ![c] = [Idle EXCEPT !.pc = "begin", !.gen = gen]]
  /\ UNCHANGED <<sockVars, mapVars, netVars, tokens, history>>

(* ForceDiscoverMappedAddress: InvalidateMappedAddress, then the call.     *)
ForgetIPOnly ==
  /\ mappedIP' = NoIP /\ votes' = NoVotes
  /\ UNCHANGED mappedPort

Invalidate ==
  /\ mappedIP' = NoIP /\ mappedPort' = NoPort /\ votes' = NoVotes

ForceCall(c) ==
  /\ caller[c].pc = "idle"
  /\ Invalidate
  /\ caller' = [caller EXCEPT ![c] = [Idle EXCEPT !.pc = "begin", !.gen = gen]]
  /\ UNCHANGED <<sockVars, netVars, tokens, history>>

(* The cached mapping, if any, is the answer; else the socket is captured. *)
Check(c) ==
  /\ caller[c].pc = "begin"
  /\ \/ Mapped /\ ReturnMapping(c, TRUE)
     \/ /\ ~Mapped
        /\ caller' = [caller EXCEPT ![c].pc = "request", ![c].sock = gen]
        /\ UNCHANGED outdated
  /\ UNCHANGED <<sockVars, mapVars, netVars, tokens, counted>>

(* stunRespCh is drained, one transaction is recorded and the same request *)
(* goes to every server from the captured socket, if that is still open.   *)
Request(c) ==
  LET x == Len(sent) + 1
  IN  /\ caller[c].pc = "request"
      /\ x \in Tx
      /\ sent' = Append(sent, caller[c].sock)
      /\ pending' = pending \union {x}
      /\ awaited' = [awaited EXCEPT ![x] =
                       IF up /\ caller[c].sock = gen THEN Servers ELSE {}]
      /\ tokens' = 0
      /\ caller' = [caller EXCEPT ![c].pc = "wait", ![c].sock = 0,
                                 ![c].tx = x]
      /\ UNCHANGED <<sockVars, mapVars, hand, history>>

TakeToken(c) ==
  /\ caller[c].pc = "wait"
  /\ tokens > 0
  /\ tokens' = tokens - 1
  /\ caller' = [caller EXCEPT ![c].pc = "collect"]
  /\ UNCHANGED <<sockVars, mapVars, netVars, history>>

(* After the 150 ms of collecting, or the 1200 ms without an answer, the   *)
(* call returns the mapping it finds; a cancelled wait returns the error.  *)
Finish(c) ==
  /\ caller[c].pc \in {"wait", "collect"}
  /\ \/ ReturnMapping(c, Mapped)
     \/ caller[c].pc = "wait" /\ ReturnMapping(c, FALSE)
  /\ UNCHANGED <<sockVars, mapVars, netVars, tokens, counted>>

-----------------------------------------------------------------------------
(* Answers                                                                 *)

(* A server's answer reaches the read loop of the socket the request left, *)
(* while that socket is open.  Which uplink the request took decides the   *)
(* external IP; an answer without a usable address has NoIP.               *)
Receive(x, s) ==
  /\ x \in DOMAIN sent
  /\ s \in awaited[x]
  /\ sent[x] = gen
  /\ hand[gen] = NoAnswer
  /\ \E ip \in IPs \union {NoIP} : hand' = [hand EXCEPT ![gen] = [tx |-> x, ip |-> ip]]
  /\ awaited' = [awaited EXCEPT ![x] = @ \ {s}]
  /\ UNCHANGED <<sockVars, mapVars, sent, pending, tokens, caller, history>>

Asking(x) ==
  \E c \in Callers : caller[c].pc \in {"wait", "collect"} /\ caller[c].tx = x

(* The IPs with most votes; the loop over the map finds any of them.       *)
AnyVoted(v) == {ip \in IPs : v[ip] > 0}
Best(v) == {ip \in IPs : \A other \in IPs : v[ip] >= v[other]}

(* The entry is looked up, and deleted so that it serves no second answer. *)
Consumed(x) == pending \ {x}

(* The send on stunRespCh gives up when the channel is full.               *)
Notified(n) == IF n < MaxTokens THEN n + 1 ELSE n

(* handleSTUNMessage, run by the read loop of generation g, which may have *)
(* read the answer before its socket was replaced: the answer finds no     *)
(* entry, or takes it and has no address, or takes it and is counted.      *)
Handle(g) ==
  LET x == hand[g].tx
      ip == hand[g].ip
      port == [gen |-> sent[x], ip |-> ip]
  IN  /\ hand[g] # NoAnswer
      /\ hand' = [hand EXCEPT ![g] = NoAnswer]
      /\ \/ /\ x \notin pending
            /\ UNCHANGED <<mapVars, pending, tokens, counted>>
         \/ /\ x \in pending /\ ip = NoIP
            /\ pending' = Consumed(x)
            /\ UNCHANGED <<mapVars, tokens, counted>>
         \/ /\ x \in pending /\ ip # NoIP
            /\ pending' = Consumed(x)
            /\ votes' = [votes EXCEPT ![ip] = @ + 1]
            /\ mappedIP' \in Best(votes')
            /\ mappedPort' = IF ip = mappedIP' \/ mappedPort = NoPort
                             THEN port ELSE mappedPort
            /\ tokens' = Notified(tokens)
            /\ counted' = [counted EXCEPT ![x] = @ + 1]
      /\ UNCHANGED <<sockVars, sent, awaited, caller, outdated>>

(* Entries older than ten seconds, when no call waits for them any more.   *)
Expire(x) ==
  /\ x \in pending
  /\ ~Asking(x)
  /\ pending' = pending \ {x}
  /\ UNCHANGED <<sockVars, mapVars, sent, tokens, hand, awaited, caller, history>>

-----------------------------------------------------------------------------
(* The socket changes under the calls                                      *)

(* Answers still on their way to the old socket are lost.                  *)
LoseAnswers == awaited' = [x \in Tx |-> {}]

(* HopPort clears the votes, keeps the mapping, and starts a discovery.    *)
HopPort ==
  /\ gen < MaxGen
  /\ gen' = gen + 1 /\ up' = TRUE
  /\ LoseAnswers
  /\ votes' = NoVotes
  /\ \E c \in Callers :
        /\ caller[c].pc = "idle"
        /\ caller' = [caller EXCEPT ![c] =
                        [Idle EXCEPT !.pc = "begin", !.gen = gen']]
  /\ UNCHANGED <<mappedIP, mappedPort, sent, pending, hand, tokens, history>>

(* It has closed the old socket before it fails to bind a new one.         *)
HopPortFails ==
  /\ gen < MaxGen
  /\ up' = FALSE
  /\ LoseAnswers
  /\ UNCHANGED <<gen, mapVars, sent, pending, hand, tokens, caller, history>>

(* ResetSocket clears the mapping and keeps the votes; when it cannot bind *)
(* it has done no more than that.                                          *)
ForgetMapping == mappedIP' = NoIP /\ mappedPort' = NoPort /\ UNCHANGED votes

ResetSocket ==
  /\ ForgetMapping
  /\ gen < MaxGen
  /\ gen' = gen + 1 /\ up' = TRUE
  /\ LoseAnswers
  /\ UNCHANGED <<sent, pending, hand, tokens, caller, history>>

ResetSocketFails ==
  /\ ForgetMapping
  /\ UNCHANGED <<sockVars, netVars, tokens, caller, history>>

InvalidateMappedAddress ==
  /\ Invalidate
  /\ UNCHANGED <<sockVars, netVars, tokens, caller, history>>

-----------------------------------------------------------------------------
Discover(c) == Check(c) \/ Request(c) \/ TakeToken(c) \/ Finish(c)

StunNext ==
  \/ \E c \in Callers : Call(c) \/ ForceCall(c) \/ Discover(c)
  \/ \E x \in Tx, s \in Servers : Receive(x, s)
  \/ \E g \in Gens : Handle(g)
  \/ \E x \in Tx : Expire(x)
  \/ HopPort \/ HopPortFails \/ ResetSocket \/ ResetSocketFails
  \/ InvalidateMappedAddress

StunSpec == StunInit /\ [][StunNext]_stunVars

-----------------------------------------------------------------------------
(* Properties                                                              *)

StunTypeOK ==
  /\ gen \in Gens /\ up \in BOOLEAN
  /\ mappedIP \in IPs \union {NoIP} /\ mappedPort \in Port \union {NoPort}
  /\ votes \in [IPs -> 0 .. MaxTx] /\ sent \in Seq(Gens)
  /\ pending \subseteq Tx /\ tokens \in 0 .. MaxTokens
  /\ hand \in [Gens -> [tx : Tx, ip : IPs \union {NoIP}] \union {NoAnswer}]
  /\ awaited \in [Tx -> SUBSET Servers]
  /\ caller \in [Callers -> [pc : {"idle", "begin", "request", "wait", "collect"},
                             gen : 0 .. MaxGen, sock : 0 .. MaxGen,
                             tx : 0 .. MaxTx]]
  /\ DOMAIN counted = Tx /\ outdated \in BOOLEAN

(* The external IP and port are known together or not at all, whatever     *)
(* answers arrive around a hop, a reset or an invalidation.                *)
PairTogether == mappedIP = NoIP <=> mappedPort = NoPort

(* The mapped IP is one that no other IP outvotes, whatever invalidations, *)
(* hops and resets came between the votes: no minority uplink displaces    *)
(* it.                                                                     *)
MappedIsBestVoted ==
  mappedIP # NoIP => \A ip \in IPs : votes[ip] <= votes[mappedIP]

(* "On the first answer, wait 150 ms to collect the answers of the other   *)
(* STUN servers, to stabilise the majority of the votes" (puncher.go:      *)
(* 738-740, translated), and "the IP with the highest vote count among     *)
(* responding STUN servers" (1984): while a call waits for the answers to  *)
(* its request, the address that a server names is counted.                *)
CollectsEveryServer ==
  [][\A g \in Gens :
       LET answer == hand[g]
       IN  /\ answer # NoAnswer /\ hand'[g] = NoAnswer
           /\ answer.ip # NoIP /\ Asking(answer.tx)
           => votes'[answer.ip] = votes[answer.ip] + 1]_stunVars

(* "Step 2: Discover our new mapped address (tells us our new external     *)
(* port)" (sym_nat_session.go:101): a discovery begun on a socket does not *)
(* return the mapping of an older one.                                     *)
DiscoversNewMapping == ~outdated
=============================================================================
