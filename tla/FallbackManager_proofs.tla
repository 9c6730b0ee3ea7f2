----------------------- MODULE FallbackManager_proofs -----------------------
(***************************************************************************)
(* Proofs about FallbackManager, for every number of channels, concurrent  *)
(* Sends and broker addresses and for every threshold.                     *)
(*                                                                         *)
(* The user's choice stays because a Send that begins while it holds does  *)
(* so at the chosen channel, is still at it and can only have succeeded;   *)
(* a Send from before the choice ends it when it leads elsewhere.  A Send  *)
(* meets every channel because the channels it has met are those from the  *)
(* index it read to the one it is at, counted around the end.              *)
(***************************************************************************)
EXTENDS FallbackManager, TLAPS

\* Counting around the end of the channels.
LEMMA Wraps ==
    ASSUME NEW a \in 0..(2 * N - 1)
    PROVE  a % N = IF a < N THEN a ELSE a - N
<1> USE NAssumption
<1>1. CASE a < N
  BY <1>1
<1>2. CASE a >= N
  <2>1. a = N * 1 + (a - N) /\ a - N \in 0..N-1
    BY <1>2
  <2> QED BY <2>1, <1>2, Z3
<1> QED BY <1>1, <1>2

----------------------------------------------------------------------------
\* The rounds a Send has come to: all before the present one, and the present
\* one once it has picked its channel.
Rounds(c) ==
    CASE c.pc = "idle" -> {}
      [] c.pc = "pick" -> 0..c.i - 1
      [] c.pc \in {"io", "worked", "failed"} -> 0..c.i

\* What a Send is and has met.
Sound(c, m) ==
    /\ c.pc = "idle" => c = Idle
    /\ c.pc \in {"io", "worked", "failed"} => c.i < N
    /\ m = {(c.start + j) % N : j \in Rounds(c)}

\* A Send is at the chosen channel, where it began, and has not failed there.
AtChoice(c) == c.start = chosen /\ c.i = 0 /\ c.pc # "failed"

\* The choice holds, and every Send that began since is at it.
Held ==
    chosen # Nobody =>
        /\ currentIdx = chosen
        /\ chosen \in works
        /\ circuitBreaker[name[chosen]] = "absent"
        /\ \A s \in Sends \ earlier : send[s].pc # "idle" => AtChoice(send[s])

Inv ==
    /\ TypeOK
    /\ \A s \in Sends : Sound(send[s], met[s])
    /\ Held

\* The channel a Send is at is a channel.
LEMMA IndexIsChannel ==
    ASSUME TypeOK, NEW s \in Sends, send[s].i < N
    PROVE  /\ Index(s) \in Channels
           /\ send[s].i = 0 => Index(s) = send[s].start
<1>1. send[s].start \in 0..N-1 /\ send[s].i \in 0..N
  BY DEF TypeOK, Call, Channels
<1>2. send[s].start + send[s].i \in 0..(2 * N - 1)
  BY <1>1, NAssumption
<1> QED BY <1>1, <1>2, Wraps, NAssumption DEF Index, Channels

LEMMA CallFields ==
    ASSUME TypeOK, NEW s \in Sends
    PROVE  /\ send[s] \in Call
           /\ send[s].pc \in {"idle", "pick", "io", "worked", "failed"}
           /\ send[s].start \in Channels
           /\ send[s].i \in 0..N
           /\ send[s].name \in Names
  BY DEF TypeOK, Call

LEMMA InitInv == Init => Inv
<1> SUFFICES ASSUME Init PROVE Inv
  OBVIOUS
<1>1. 0 \in Channels /\ 0 \in 0..N /\ 0 \in 0..Threshold /\ Channels \subseteq Names
  BY NAssumption, ThresholdAssumption DEF Channels, Names
<1>2. Idle \in Call
  BY <1>1 DEF Idle, Call
<1>3. TypeOK
  BY <1>1, <1>2 DEF Init, TypeOK
<1>4. Sound(Idle, {})
  BY DEF Sound, Rounds, Idle
<1>5. Held
  BY DEF Init, Held
<1> QED BY <1>3, <1>4, <1>5 DEF Init, Inv

\* One Send changes: the others keep what was sound.
LEMMA OthersSound ==
    ASSUME Inv, NEW s \in Sends, NEW c \in Call, NEW m \in SUBSET Channels,
           send' = [send EXCEPT ![s] = c], met' = [met EXCEPT ![s] = m],
           Sound(c, m)
    PROVE  /\ send' \in [Sends -> Call]
           /\ met' \in [Sends -> SUBSET Channels]
           /\ \A r \in Sends : Sound(send'[r], met'[r])
  BY DEF Inv, TypeOK

----------------------------------------------------------------------------
(* The steps of a Send.                                                    *)

LEMMA BeginStep ==
    ASSUME Inv, NEW s \in Sends, Begin(s)
    PROVE  Inv'
<1> DEFINE c == [pc |-> "pick", start |-> currentIdx, i |-> 0, name |-> 0]
<1>1. send[s] = Idle /\ met[s] = {}
  BY DEF Inv, Sound, Rounds, Begin, Idle
<1>2. send' = [send EXCEPT ![s] = c] /\ met' = [met EXCEPT ![s] = {}]
  BY <1>1 DEF Begin, history, choice, Inv, TypeOK
<1>3. c \in Call
  BY NAssumption DEF Call, Inv, TypeOK, Names, Channels
<1>4. Sound(c, {})
  BY DEF Sound, Rounds
<1> HIDE DEF c
<1>5. /\ send' \in [Sends -> Call] /\ met' \in [Sends -> SUBSET Channels]
      /\ \A r \in Sends : Sound(send'[r], met'[r])
  BY <1>2, <1>3, <1>4, OthersSound
<1>6. TypeOK'
  BY <1>5 DEF Begin, history, choice, Inv, TypeOK
<1>7. Held'
  BY <1>2 DEF c, Begin, history, choice, Inv, TypeOK, Held, AtChoice
<1> QED BY <1>5, <1>6, <1>7 DEF Inv

\* A round more that has been met.
LEMMA OneMore ==
    ASSUME Inv, NEW s \in Sends, send[s].pc = "pick", send[s].i < N
    PROVE  met[s] \cup {Index(s)} = {(send[s].start + j) % N : j \in 0..send[s].i}
<1>1. send[s].i \in Nat
  BY CallFields, NAssumption DEF Inv
<1>2. met[s] = {(send[s].start + j) % N : j \in 0..send[s].i - 1}
  BY DEF Inv, Sound, Rounds
<1>3. 0..send[s].i = (0..send[s].i - 1) \cup {send[s].i}
  BY <1>1
<1> QED BY <1>2, <1>3 DEF Index

LEMMA SkipStep ==
    ASSUME Inv, NEW s \in Sends, Skip(s)
    PROVE  Inv'
<1> DEFINE c == [send[s] EXCEPT !.i = @ + 1]
           m == met[s] \cup {Index(s)}
<1>1. send[s].pc = "pick" /\ send[s].i < N /\ send[s].i \in 0..N
  BY CallFields DEF Skip, Inv
<1>2. send' = [send EXCEPT ![s] = c] /\ met' = [met EXCEPT ![s] = m]
  BY DEF Skip, Inv, TypeOK
<1>3. c \in Call /\ m \in SUBSET Channels
  BY <1>1, IndexIsChannel, CallFields, NAssumption DEF Call, Inv, TypeOK
<1>4. c.pc = "pick" /\ c.start = send[s].start /\ c.i = send[s].i + 1
  BY <1>1, CallFields DEF Call, Inv
<1>5. m = {(send[s].start + j) % N : j \in 0..send[s].i}
  BY <1>1, OneMore
<1> HIDE DEF c, m
<1>6. Sound(c, m)
  BY <1>1, <1>4, <1>5 DEF Sound, Rounds
<1>7. /\ send' \in [Sends -> Call] /\ met' \in [Sends -> SUBSET Channels]
      /\ \A r \in Sends : Sound(send'[r], met'[r])
  BY <1>2, <1>3, <1>6, OthersSound
<1>8. TypeOK'
  BY <1>7 DEF Skip, choice, Inv, TypeOK
<1>9. Held'
  <2>1. CASE chosen = Nobody
    BY <2>1 DEF Skip, choice, Held
  <2>2. CASE chosen # Nobody /\ s \in earlier
    <3>1. \A r \in Sends \ earlier : send'[r] = send[r]
      BY <1>2, <2>2 DEF Inv, TypeOK
    <3> QED BY <2>2, <3>1 DEF Skip, choice, Inv, Held, AtChoice
  <2>3. CASE chosen # Nobody /\ s \notin earlier
    <3>1. send[s].i = 0 /\ send[s].start = chosen /\ circuitBreaker[name[chosen]] = "absent"
      BY <1>1, <2>3 DEF Inv, Held, AtChoice
    <3>2. Index(s) = chosen
      BY <1>1, <3>1, IndexIsChannel DEF Inv
    <3> QED BY <3>1, <3>2 DEF Skip, Cooling
  <2> QED BY <2>1, <2>2, <2>3
<1> QED BY <1>7, <1>8, <1>9 DEF Inv

LEMMA PickStep ==
    ASSUME Inv, NEW s \in Sends, Pick(s)
    PROVE  Inv'
<1> DEFINE n == name[Index(s)]
           c == [send[s] EXCEPT !.pc = "io", !.name = n]
           m == met[s] \cup {Index(s)}
<1>1. send[s].pc = "pick" /\ send[s].i < N /\ send[s].i \in 0..N
  BY CallFields DEF Pick, Inv
<1>2. send' = [send EXCEPT ![s] = c] /\ met' = [met EXCEPT ![s] = m]
  BY DEF Pick, Inv, TypeOK
<1>3. Index(s) \in Channels /\ n \in Names
  BY <1>1, IndexIsChannel DEF Inv, TypeOK
<1>4. c \in Call /\ m \in SUBSET Channels
  BY <1>1, <1>3, CallFields DEF Call, Inv, TypeOK
<1>5. c.pc = "io" /\ c.start = send[s].start /\ c.i = send[s].i
  BY <1>1, CallFields DEF Call, Inv
<1>6. m = {(send[s].start + j) % N : j \in 0..send[s].i}
  BY <1>1, OneMore
<1>7. /\ circuitBreaker' \in [Names -> {"absent", "set", "old"}]
      /\ consecFailures' \in [Names -> 0..Threshold]
      /\ \A x \in Names : circuitBreaker[x] = "absent" => circuitBreaker'[x] = "absent"
  BY <1>3, ThresholdAssumption DEF Pick, Inv, TypeOK
<1>8. alive' \in BOOLEAN
  BY DEF Pick
<1> HIDE DEF c, m, n
<1>9. Sound(c, m)
  BY <1>1, <1>5, <1>6 DEF Sound, Rounds
<1>10. /\ send' \in [Sends -> Call] /\ met' \in [Sends -> SUBSET Channels]
       /\ \A r \in Sends : Sound(send'[r], met'[r])
  BY <1>2, <1>4, <1>9, OthersSound
<1>11. TypeOK'
  BY <1>7, <1>8, <1>10 DEF Pick, choice, Inv, TypeOK
<1>12. Held'
  <2>1. \A r \in Sends : /\ send'[r].pc # "idle" => send[r].pc # "idle"
                         /\ send'[r].start = send[r].start
                         /\ send'[r].i = send[r].i
                         /\ send'[r].pc = "failed" => send[r].pc = "failed"
    BY <1>1, <1>2, <1>5 DEF Inv, TypeOK
  <2>2. chosen # Nobody => name[chosen] \in Names
    BY DEF Inv, TypeOK
  <2> QED BY <2>1, <2>2, <1>7 DEF Pick, choice, Inv, Held, AtChoice
<1> QED BY <1>10, <1>11, <1>12 DEF Inv

LEMMA TransmitStep ==
    ASSUME Inv, NEW s \in Sends, Transmit(s)
    PROVE  Inv'
<1> DEFINE p == IF Index(s) \in works THEN "worked" ELSE "failed"
           c == [send[s] EXCEPT !.pc = p]
<1>1. send[s].pc = "io" /\ send[s].i < N /\ p \in {"worked", "failed"}
  BY DEF Transmit, Inv, Sound
<1>2. send' = [send EXCEPT ![s] = c] /\ met' = [met EXCEPT ![s] = met[s]]
  BY DEF Transmit, history, choice, Inv, TypeOK
<1>3. c \in Call /\ met[s] \in SUBSET Channels
  BY <1>1, CallFields DEF Call, Inv, TypeOK
<1>4. c.pc = p /\ c.start = send[s].start /\ c.i = send[s].i
  BY <1>1, CallFields DEF Call, Inv
<1>5. met[s] = {(send[s].start + j) % N : j \in 0..send[s].i}
  BY <1>1 DEF Inv, Sound, Rounds
<1>6. chosen # Nobody /\ s \notin earlier => p = "worked"
  <2>1. ASSUME chosen # Nobody, s \notin earlier PROVE Index(s) = chosen /\ chosen \in works
    BY <1>1, <2>1, IndexIsChannel DEF Inv, Held, AtChoice
  <2> QED BY <2>1
<1> HIDE DEF c, p
<1>7. Sound(c, met[s])
  BY <1>1, <1>4, <1>5 DEF Sound, Rounds
<1>8. /\ send' \in [Sends -> Call] /\ met' \in [Sends -> SUBSET Channels]
      /\ \A r \in Sends : Sound(send'[r], met'[r])
  BY <1>2, <1>3, <1>7, OthersSound
<1>9. TypeOK'
  BY <1>8 DEF Transmit, history, choice, Inv, TypeOK
<1>10. Held'
  <2>1. \A r \in Sends : /\ send'[r].pc # "idle" => send[r].pc # "idle"
                         /\ send'[r].start = send[r].start
                         /\ send'[r].i = send[r].i
                         /\ chosen # Nobody /\ r \notin earlier /\ send'[r].pc = "failed"
                              => send[r].pc = "failed"
    BY <1>1, <1>2, <1>4, <1>6 DEF Inv, TypeOK
  <2> QED BY <2>1 DEF Transmit, history, choice, Inv, Held, AtChoice
<1> QED BY <1>8, <1>9, <1>10 DEF Inv

\* A Send that returns.
LEMMA Returned ==
    ASSUME Inv, NEW s \in Sends,
           send' = [send EXCEPT ![s] = Idle], met' = [met EXCEPT ![s] = {}]
    PROVE  /\ send' \in [Sends -> Call]
           /\ met' \in [Sends -> SUBSET Channels]
           /\ \A r \in Sends : Sound(send'[r], met'[r])
           /\ \A r \in Sends : send'[r].pc # "idle" => send'[r] = send[r]
<1>1. Idle \in Call
  BY NAssumption DEF Idle, Call, Channels, Names
<1>2. Sound(Idle, {}) /\ Idle.pc = "idle"
  BY DEF Sound, Rounds, Idle
<1>3. \A r \in Sends : send'[r].pc # "idle" => send'[r] = send[r]
  BY <1>2 DEF Inv, TypeOK
<1> QED BY <1>1, <1>2, <1>3, OthersSound

LEMMA SucceedStep ==
    ASSUME Inv, NEW s \in Sends, Succeed(s)
    PROVE  Inv'
<1>1. send[s].pc = "worked" /\ send[s].i < N /\ send[s].name \in Names
  BY CallFields DEF Succeed, Inv, Sound
<1>2. /\ send' \in [Sends -> Call] /\ met' \in [Sends -> SUBSET Channels]
      /\ \A r \in Sends : Sound(send'[r], met'[r])
      /\ \A r \in Sends : send'[r].pc # "idle" => send'[r] = send[r]
  BY Returned DEF Succeed
<1>3. currentIdx' \in Channels
  BY <1>1, IndexIsChannel DEF Succeed, Found, Inv
<1>4. consecFailures' \in [Names -> 0..Threshold]
  BY <1>1, ThresholdAssumption DEF Succeed, Inv, TypeOK
<1>5. TypeOK'
  BY <1>2, <1>3, <1>4 DEF Succeed, Overtaken, Choose, Inv, TypeOK
<1>6. Held'
  <2>1. CASE s \in earlier /\ Found(s) # chosen
    BY <2>1 DEF Succeed, Overtaken, Held
  <2>2. CASE ~(s \in earlier /\ Found(s) # chosen)
    <3>1. chosen' = chosen /\ earlier' = earlier \ {s}
      BY <2>2 DEF Succeed, Choose
    <3>2. SUFFICES ASSUME chosen # Nobody PROVE Held'
      BY <3>1 DEF Held
    <3>3. currentIdx' = chosen
      <4>1. CASE s \in earlier
        BY <2>2, <4>1 DEF Succeed
      <4>2. CASE s \notin earlier
        BY <1>1, <3>2, <4>2, IndexIsChannel DEF Inv, Held, AtChoice, Succeed, Found
      <4> QED BY <4>1, <4>2
    <3>4. ASSUME NEW r \in Sends \ earlier', send'[r].pc # "idle"
          PROVE  /\ send'[r].start = chosen /\ send'[r].i = 0
                 /\ send'[r].pc # "failed"
      <4>1. send'[s].pc = "idle"
        BY DEF Succeed, Idle, Inv, TypeOK
      <4>2. r # s /\ r \notin earlier /\ send'[r] = send[r]
        BY <1>2, <3>1, <3>4, <4>1
      <4> QED BY <3>2, <3>4, <4>2 DEF Inv, Held, AtChoice
    <3> QED BY <3>1, <3>2, <3>3, <3>4 DEF Succeed, Inv, Held, AtChoice
  <2> QED BY <2>1, <2>2
<1> QED BY <1>2, <1>5, <1>6 DEF Inv

LEMMA FailStep ==
    ASSUME Inv, NEW s \in Sends, Fail(s)
    PROVE  Inv'
<1> DEFINE c == [send[s] EXCEPT !.pc = "pick", !.i = @ + 1]
<1>1. send[s].pc = "failed" /\ send[s].i < N /\ send[s].i \in 0..N /\ send[s].name \in Names
  BY CallFields DEF Fail, Inv, Sound
<1>2. send' = [send EXCEPT ![s] = c] /\ met' = [met EXCEPT ![s] = met[s]]
  BY DEF Fail, Inv, TypeOK
<1>3. c \in Call /\ met[s] \in SUBSET Channels
  <2>1. send[s].i + 1 \in 0..N
    BY <1>1, NAssumption
  <2> QED BY <2>1, CallFields DEF Call, Inv, TypeOK
<1>4. c.pc = "pick" /\ c.start = send[s].start /\ c.i = send[s].i + 1
  BY <1>1, CallFields DEF Call, Inv
<1>5. met[s] = {(send[s].start + j) % N : j \in 0..send[s].i}
  BY <1>1 DEF Inv, Sound, Rounds
<1> HIDE DEF c
<1>6. Sound(c, met[s])
  BY <1>1, <1>4, <1>5 DEF Sound, Rounds
<1>7. /\ send' \in [Sends -> Call] /\ met' \in [Sends -> SUBSET Channels]
      /\ \A r \in Sends : Sound(send'[r], met'[r])
  BY <1>2, <1>3, <1>6, OthersSound
<1>8. consecFailures' \in [Names -> 0..Threshold]
  <2>1. consecFailures[send[s].name] \in 0..Threshold
    BY <1>1 DEF Inv, TypeOK
  <2>2. (IF consecFailures[send[s].name] + 1 > Threshold
         THEN Threshold ELSE consecFailures[send[s].name] + 1) \in 0..Threshold
    BY <2>1, ThresholdAssumption
  <2> QED BY <2>2 DEF Fail, Inv, TypeOK
<1>9. circuitBreaker' \in [Names -> {"absent", "set", "old"}]
  BY <1>1 DEF Fail, Inv, TypeOK
<1>10. TypeOK'
  BY <1>7, <1>8, <1>9 DEF Fail, Overtaken, choice, Inv, TypeOK
<1> DEFINE opens == consecFailures[send[s].name] + 1 >= Threshold
           ends == s \in earlier /\ send[s].name = name[chosen] /\ opens
<1>11. Held'
  <2>1. CASE ends
    BY <2>1 DEF Fail, Overtaken, Held
  <2>2. CASE ~ends
    <3>1. UNCHANGED <<chosen, earlier>>
      BY <2>2 DEF Fail, choice
    <3>2. SUFFICES ASSUME chosen # Nobody PROVE Held'
      BY <3>1 DEF Held
    <3>3. s \in earlier
      BY <1>1, <3>2 DEF Inv, Held, AtChoice
    <3>4. circuitBreaker'[name[chosen]] = circuitBreaker[name[chosen]]
      <4>1. name[chosen] \in Names
        BY <3>2 DEF Inv, TypeOK
      <4>2. CASE send[s].name # name[chosen]
        BY <4>1, <4>2 DEF Fail, Inv, TypeOK
      <4>3. CASE ~opens
        BY <4>1, <4>3 DEF Fail, Inv, TypeOK
      <4> QED BY <2>2, <3>3, <4>2, <4>3
    <3>5. \A r \in Sends \ earlier : send'[r] = send[r]
      BY <1>2, <3>3 DEF Inv, TypeOK
    <3> QED BY <3>1, <3>2, <3>4, <3>5 DEF Fail, Inv, Held, AtChoice
  <2> QED BY <2>1, <2>2
<1> QED BY <1>7, <1>10, <1>11 DEF Inv

LEMMA ExhaustedStep ==
    ASSUME Inv, NEW s \in Sends, Exhausted(s)
    PROVE  Inv'
<1>1. /\ send' \in [Sends -> Call] /\ met' \in [Sends -> SUBSET Channels]
      /\ \A r \in Sends : Sound(send'[r], met'[r])
      /\ \A r \in Sends : send'[r].pc # "idle" => send'[r] = send[r]
  BY Returned DEF Exhausted
<1>2. TypeOK'
  BY <1>1 DEF Exhausted, Choose, Inv, TypeOK
<1>3. Held'
  <2>1. send'[s].pc = "idle"
    BY DEF Exhausted, Idle, Inv, TypeOK
  <2> QED BY <1>1, <2>1 DEF Exhausted, Choose, Inv, Held, AtChoice
<1> QED BY <1>1, <1>2, <1>3 DEF Inv

----------------------------------------------------------------------------
(* The user's commands, time and the network.                              *)

LEMMA OtherStep ==
    ASSUME Inv,
           \/ \E c \in Channels : SwitchTo(c) \/ SwitchToBroker(c) \/ ChannelChanges(c)
           \/ \E b \in Mqtt \cup Elsewhere, k \in BOOLEAN : ReconnectWithBroker(b, k)
           \/ \E n \in Names : CoolDown(n)
           \/ UNCHANGED vars
    PROVE  Inv'
<1>1. ASSUME NEW c \in Channels, SwitchTo(c) PROVE Inv'
  BY <1>1 DEF SwitchTo, Overtaken, Inv, TypeOK, Held
<1>2. ASSUME NEW c \in Channels, SwitchToBroker(c) PROVE Inv'
  <2>1. name[c] \in Names
    BY DEF Inv, TypeOK
  <2>2. /\ circuitBreaker' \in [Names -> {"absent", "set", "old"}]
        /\ consecFailures' \in [Names -> 0..Threshold]
        /\ circuitBreaker'[name[c]] = "absent"
    BY <1>2, <2>1, ThresholdAssumption DEF SwitchToBroker, Pardon, Inv, TypeOK
  <2>3. chosen' \in Channels \cup {Nobody} /\ earlier' \subseteq Sends
    BY <1>2 DEF SwitchToBroker, Choose, Overtaken
  <2>4. TypeOK'
    BY <1>2, <2>2, <2>3 DEF SwitchToBroker, Inv, TypeOK
  <2>5. Held'
    BY <1>2, <2>2 DEF SwitchToBroker, Choose, Overtaken, Held
  <2> QED BY <1>2, <2>4, <2>5 DEF SwitchToBroker, Inv
<1>3. ASSUME NEW c \in Channels, ChannelChanges(c) PROVE Inv'
  BY <1>3 DEF ChannelChanges, Overtaken, choice, program, Inv, TypeOK, Held, AtChoice
<1>4. ASSUME NEW b \in Mqtt \cup Elsewhere, NEW k \in BOOLEAN, ReconnectWithBroker(b, k)
      PROVE  Inv'
  <2>1. b \in Names
    BY MqttAssumption DEF Names, Channels
  <2>2. name' \in [Channels -> Names]
    BY <1>4, <2>1, MqttAssumption DEF ReconnectWithBroker, Inv, TypeOK, Channels
  <2>3. /\ circuitBreaker' \in [Names -> {"absent", "set", "old"}]
        /\ consecFailures' \in [Names -> 0..Threshold]
    <3>1. CASE k = TRUE
      <4>1. Pardon(b)
        BY <1>4, <3>1 DEF ReconnectWithBroker
      <4>2. 0 \in 0..Threshold
        BY ThresholdAssumption
      <4> QED BY <2>1, <4>1, <4>2 DEF Pardon, Inv, TypeOK
    <3>2. CASE k = FALSE
      <4>1. UNCHANGED <<circuitBreaker, consecFailures>>
        BY <1>4, <3>2 DEF ReconnectWithBroker
      <4> QED BY <4>1 DEF Inv, TypeOK
    <3> QED BY <3>1, <3>2
  <2>4. chosen' = Nobody /\ earlier' = {} /\ UNCHANGED <<currentIdx, send, alive, works, met>>
    BY <1>4 DEF ReconnectWithBroker, Overtaken
  <2>5. TypeOK'
    BY <2>2, <2>3, <2>4 DEF Inv, TypeOK
  <2>6. Held'
    BY <2>4 DEF Held
  <2> QED BY <2>4, <2>5, <2>6 DEF Inv
<1>5. ASSUME NEW n \in Names, CoolDown(n) PROVE Inv'
  <2>1. circuitBreaker' \in [Names -> {"absent", "set", "old"}]
        /\ \A x \in Names : circuitBreaker[x] = "absent" => circuitBreaker'[x] = "absent"
    BY <1>5 DEF CoolDown, Inv, TypeOK
  <2>2. chosen # Nobody => name[chosen] \in Names
    BY DEF Inv, TypeOK
  <2> QED BY <1>5, <2>1, <2>2 DEF CoolDown, history, choice, Inv, TypeOK, Held, AtChoice
<1>6. CASE UNCHANGED vars
  BY <1>6 DEF vars, program, history, choice, Inv, TypeOK, Held, AtChoice
<1> QED BY <1>1, <1>2, <1>3, <1>4, <1>5, <1>6

LEMMA NextInv == Inv /\ [Next]_vars => Inv'
  BY BeginStep, SkipStep, PickStep, TransmitStep, SucceedStep, FailStep,
     ExhaustedStep, OtherStep DEF Next, Step

THEOREM Invariance == Spec => []Inv
  BY InitInv, NextInv, PTL DEF Spec

----------------------------------------------------------------------------
\* The variables keep their types: in particular the current index is one of a
\* channel, and what is stored by name is stored by a known name.
THEOREM TypeCorrect == Spec => []TypeOK
<1>1. Inv => TypeOK
  BY DEF Inv
<1> QED BY <1>1, Invariance, PTL

\* The broker the user chose stays the current one as long as it works, until a Send
\* from before the choice succeeds elsewhere or has the last of the failures that open
\* its breaker: no later Send moves the manager away.
THEOREM ChoiceIsKept == Spec => []LaterSendsKeepChoice
<1>1. Inv => LaterSendsKeepChoice
  BY DEF Inv, Held, LaterSendsKeepChoice
<1> QED BY <1>1, Invariance, PTL

\* A Send that gives up has come to every channel.
THEOREM AllChannelsMet == Spec => []MeetsEveryChannel
<1>1. ASSUME Inv, NEW s \in Sends, send[s].pc = "pick", send[s].i = N
      PROVE  met[s] = Channels
  <2>1. send[s].start \in 0..N-1
    BY <1>1, CallFields DEF Inv, Channels
  <2>2. met[s] = {(send[s].start + j) % N : j \in 0..N-1}
    BY <1>1 DEF Inv, Sound, Rounds
  <2>3. ASSUME NEW c \in 0..N-1 PROVE \E j \in 0..N-1 : (send[s].start + j) % N = c
    <3>1. CASE c >= send[s].start
      <4>1. c - send[s].start \in 0..N-1 /\ send[s].start + (c - send[s].start) = c
        BY <2>1, <3>1, NAssumption
      <4>2. c \in 0..(2 * N - 1) /\ c < N
        BY NAssumption
      <4> QED BY <4>1, <4>2, Wraps
    <3>2. CASE c < send[s].start
      <4>1. /\ c - send[s].start + N \in 0..N-1
            /\ send[s].start + (c - send[s].start + N) = c + N
        BY <2>1, <3>2, NAssumption
      <4> DEFINE x == c + N
      <4>2. x \in 0..(2 * N - 1) /\ ~(x < N) /\ x - N = c
        BY NAssumption
      <4> HIDE DEF x
      <4>3. x % N = c
        BY <4>2, Wraps
      <4> DEFINE j == c - send[s].start + N
      <4>4. j \in 0..N-1 /\ send[s].start + j = x
        BY <4>1 DEF x
      <4> HIDE DEF j
      <4> QED BY <4>3, <4>4
    <3> QED BY <2>1, <3>1, <3>2, NAssumption
  <2>4. met[s] \subseteq Channels
    BY <1>1 DEF Inv, TypeOK
  <2> QED BY <2>2, <2>3, <2>4 DEF Channels
<1>2. Inv => MeetsEveryChannel
  BY <1>1 DEF MeetsEveryChannel
<1> QED BY <1>2, Invariance, PTL
=============================================================================
