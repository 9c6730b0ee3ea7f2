-------------------------- MODULE FallbackManager --------------------------
(***************************************************************************)
(* The signaling manager (internal/signaling/manager.go): Sends that try   *)
(* one channel after the other, starting with the one that worked last,    *)
(* and skip for twenty seconds a channel that failed three times in a row. *)
(*                                                                         *)
(* Sends run concurrently: m.mu is released during the network I/O, so     *)
(* each step below is one critical section of Send.  The breaker, the      *)
(* failures and the statuses are kept by the name of a channel, and the    *)
(* name of an MQTT channel is its broker's address: ReconnectWithBroker    *)
(* (mqtt.go) changes it.  A broadcast changes none of this state and is    *)
(* left out, as are availability and error texts, which nobody reads back. *)
(***************************************************************************)
EXTENDS Integers, FiniteSets

CONSTANTS N,          \* number of channels, 0..N-1 in the order of the configuration
          Mqtt,       \* the channels that are MQTT channels
          Elsewhere,  \* brokers that no channel is configured with
          Sends,      \* calls of Send that may run at once
          Threshold,  \* failures that open the breaker
          Nobody      \* no channel

ASSUME NAssumption == N \in Nat \ {0}
ASSUME MqttAssumption == Mqtt \subseteq 0..N-1
ASSUME ThresholdAssumption == Threshold \in Nat \ {0}
ASSUME ElsewhereAssumption == Elsewhere \cap (0..N-1) = {}
ASSUME NobodyAssumption == Nobody \notin 0..N-1

Channels == 0..N-1

\* A channel's name; the name it was configured with is its index.
Names == Channels \cup Elsewhere

VARIABLES currentIdx,      \* where the next Send starts
          consecFailures,  \* by name
          circuitBreaker,  \* by name: absent, set less than 20 seconds ago, older
          name,            \* by channel
          send,            \* the calls of Send
          works,           \* the channels that deliver now
          alive,           \* FALSE once the process has died of a nil pointer
          met,             \* history: the channels each Send has come to
          chosen,          \* history: the broker the user chose and nobody overtook
          earlier          \* history: the Sends under way since before that choice

program == <<currentIdx, consecFailures, circuitBreaker, name, send, alive>>
choice == <<chosen, earlier>>
history == <<met, choice>>
vars == <<program, works, history>>

\* A call of Send: its step, startIdx, the loop variable and the name it read.
Call == [pc : {"idle", "pick", "io", "worked", "failed"}, start : Channels, i : 0..N,
         name : Names]

Idle == [pc |-> "idle", start |-> 0, i |-> 0, name |-> 0]

TypeOK ==
    /\ currentIdx \in Channels
    /\ consecFailures \in [Names -> 0..Threshold]
    /\ circuitBreaker \in [Names -> {"absent", "set", "old"}]
    /\ name \in [Channels -> Names]
    /\ send \in [Sends -> Call]
    /\ works \subseteq Channels
    /\ alive \in BOOLEAN
    /\ met \in [Sends -> SUBSET Channels]
    /\ chosen \in Channels \cup {Nobody}
    /\ earlier \subseteq Sends

Init ==
    /\ currentIdx = 0
    /\ consecFailures = [n \in Names |-> 0]
    /\ circuitBreaker = [n \in Names |-> "absent"]
    /\ name = [c \in Channels |-> c]
    /\ send = [s \in Sends |-> Idle]
    /\ works = Channels
    /\ alive = TRUE
    /\ met = [s \in Sends |-> {}]
    /\ chosen = Nobody
    /\ earlier = {}

----------------------------------------------------------------------------
(* Send.                                                                   *)

Begin(s) ==
    /\ alive
    /\ send[s].pc = "idle"
    /\ send' = [send EXCEPT ![s] = [pc |-> "pick", start |-> currentIdx, i |-> 0, name |-> 0]]
    /\ UNCHANGED <<currentIdx, consecFailures, circuitBreaker, name, alive, works, history>>

\* Mutant: the loop starts from the shared index instead of the one it read.
IndexNow(s) == (currentIdx + send[s].i) % N

\* The channel of this round.
Index(s) == (send[s].start + send[s].i) % N

\* Mutant: a breaker is never removed.
CoolingForEver(n) == N > 1 /\ circuitBreaker[n] # "absent"

\* A channel is skipped while its breaker is recent, unless it is the only one.
Cooling(n) == N > 1 /\ circuitBreaker[n] = "set"

Skip(s) ==
    /\ alive
    /\ send[s].pc = "pick" /\ send[s].i < N
    /\ Cooling(name[Index(s)])
    /\ send' = [send EXCEPT ![s].i = @ + 1]
    /\ met' = [met EXCEPT ![s] = @ \cup {Index(s)}]
    /\ UNCHANGED <<currentIdx, consecFailures, circuitBreaker, name, alive, works, choice>>

\* A breaker that is old goes, with the failures that opened it.  The status of
\* the channel is looked up by its name and used without a check: the statuses
\* have the names of the configuration.
Pick(s) ==
    LET n == name[Index(s)] IN
    /\ alive
    /\ send[s].pc = "pick" /\ send[s].i < N
    /\ ~Cooling(n)
    /\ IF circuitBreaker[n] # "absent"
       THEN /\ circuitBreaker' = [circuitBreaker EXCEPT ![n] = "absent"]
            /\ consecFailures' = [consecFailures EXCEPT ![n] = 0]
       ELSE UNCHANGED <<circuitBreaker, consecFailures>>
    /\ alive' = (n \in Channels)
    /\ send' = [send EXCEPT ![s].pc = "io", ![s].name = n]
    /\ met' = [met EXCEPT ![s] = @ \cup {Index(s)}]
    /\ UNCHANGED <<currentIdx, name, works, choice>>

\* sendWithRetry, under no lock.
Transmit(s) ==
    /\ alive
    /\ send[s].pc = "io"
    /\ send' = [send EXCEPT ![s].pc = IF Index(s) \in works THEN "worked" ELSE "failed"]
    /\ UNCHANGED <<currentIdx, consecFailures, circuitBreaker, name, alive, works, history>>

\* History: the choice of a user is followed until a Send from before it has moved
\* the manager or opened the chosen broker's breaker again.
Overtaken == chosen' = Nobody /\ earlier' = {}
Choose(c, sends) == chosen' = c /\ earlier' = sends

\* The channel that worked becomes the current one.
Found(s) == Index(s)

Succeed(s) ==
    /\ alive
    /\ send[s].pc = "worked"
    /\ currentIdx' = Found(s)
    /\ consecFailures' = [consecFailures EXCEPT ![send[s].name] = 0]
    /\ send' = [send EXCEPT ![s] = Idle]
    /\ met' = [met EXCEPT ![s] = {}]
    /\ IF s \in earlier /\ Found(s) # chosen THEN Overtaken ELSE Choose(chosen, earlier \ {s})
    /\ UNCHANGED <<circuitBreaker, name, alive, works>>

\* The failure may be recorded long after the channel failed; the count above
\* the threshold is of no consequence and is capped.
Fail(s) ==
    LET n == send[s].name
        f == consecFailures[n] + 1
    IN
    /\ alive
    /\ send[s].pc = "failed"
    /\ consecFailures' = [consecFailures EXCEPT ![n] = IF f > Threshold THEN Threshold ELSE f]
    /\ circuitBreaker' = [circuitBreaker EXCEPT ![n] = IF f >= Threshold THEN "set" ELSE @]
    /\ send' = [send EXCEPT ![s].pc = "pick", ![s].i = @ + 1]
    /\ IF s \in earlier /\ n = name[chosen] /\ f >= Threshold
       THEN Overtaken ELSE UNCHANGED choice
    /\ UNCHANGED <<currentIdx, name, alive, works, met>>

\* "all signaling channels failed".
Exhausted(s) ==
    /\ alive
    /\ send[s].pc = "pick" /\ send[s].i = N
    /\ send' = [send EXCEPT ![s] = Idle]
    /\ met' = [met EXCEPT ![s] = {}]
    /\ Choose(chosen, earlier \ {s})
    /\ UNCHANGED <<currentIdx, consecFailures, circuitBreaker, name, alive, works>>

----------------------------------------------------------------------------
(* The user's commands, each under m.mu.                                   *)

SwitchTo(c) ==
    /\ alive
    /\ currentIdx' = c
    /\ Overtaken
    /\ UNCHANGED <<consecFailures, circuitBreaker, name, send, alive, works, met>>

\* Mutant: the channel keeps its breaker, as in SwitchTo.
BreakerStays(n) == UNCHANGED <<circuitBreaker, consecFailures>>

Pardon(n) ==
    /\ circuitBreaker' = [circuitBreaker EXCEPT ![n] = "absent"]
    /\ consecFailures' = [consecFailures EXCEPT ![n] = 0]

\* A channel has the address.
SwitchToBroker(c) ==
    /\ alive
    /\ c \in Mqtt
    /\ currentIdx' = c
    /\ Pardon(name[c])
    /\ IF c \in works THEN Choose(c, {s \in Sends : send[s].pc # "idle"}) ELSE Overtaken
    /\ UNCHANGED <<name, send, alive, works, met>>

\* No channel has it: the first MQTT channel is reconnected to it and renamed,
\* whether the connection comes about or not.
ReconnectWithBroker(b, connected) ==
    \E c \in Mqtt :
        /\ alive
        /\ \A d \in Mqtt : c <= d /\ name[d] # b
        /\ name' = [name EXCEPT ![c] = b]
        /\ IF connected THEN Pardon(b) ELSE UNCHANGED <<circuitBreaker, consecFailures>>
        /\ Overtaken
        /\ UNCHANGED <<currentIdx, send, alive, works, met>>

----------------------------------------------------------------------------
(* Time and the network.                                                   *)

\* Twenty seconds have passed.
CoolDown(n) ==
    /\ circuitBreaker[n] = "set"
    /\ circuitBreaker' = [circuitBreaker EXCEPT ![n] = "old"]
    /\ UNCHANGED <<currentIdx, consecFailures, name, send, alive, works, history>>

ChannelChanges(c) ==
    /\ works' = IF c \in works THEN works \ {c} ELSE works \cup {c}
    /\ IF c = chosen THEN Overtaken ELSE UNCHANGED choice
    /\ UNCHANGED <<program, met>>

Step(s) == Skip(s) \/ Pick(s) \/ Transmit(s) \/ Succeed(s) \/ Fail(s) \/ Exhausted(s)

Next ==
    \/ \E s \in Sends : Begin(s) \/ Step(s)
    \/ \E c \in Channels : SwitchTo(c) \/ SwitchToBroker(c) \/ ChannelChanges(c)
    \/ \E b \in Mqtt \cup Elsewhere, connected \in BOOLEAN : ReconnectWithBroker(b, connected)
    \/ \E n \in Names : CoolDown(n)

\* Time passes, and a Send that was begun goes on: each I/O has a timeout and
\* each critical section is short.
Fairness ==
    /\ \A s \in Sends : WF_vars(Step(s))
    /\ \A n \in Names : WF_vars(CoolDown(n))

Spec == Init /\ [][Next]_vars /\ Fairness

----------------------------------------------------------------------------
(* Properties.                                                             *)

\* A Send gives up only when it has come to every channel, even when other Sends
\* move the current index meanwhile (manager.go:116-124).
MeetsEveryChannel ==
    \A s \in Sends : send[s].pc = "pick" /\ send[s].i = N => met[s] = Channels

\* The broker the user chose stays the current one as long as it works: neither
\* its old failures nor a Send that begins after the choice moves the manager away
\* (manager.go:273-288).  Only a Send from before may: it may still succeed with
\* another channel, or be the one whose late failure opens the breaker again.
LaterSendsKeepChoice == chosen # Nobody => currentIdx = chosen

\* "switches the current active channel to the given broker's address"
\* (manager.go:273, translated): as long as that broker works, only another command
\* of the user leads away from it.
ChoiceStays ==
    [][chosen # Nobody /\ chosen \in works' /\ currentIdx' # chosen
         => \E c \in Channels : SwitchTo(c) \/ SwitchToBroker(c)]_vars

\* A channel that works again is found: in the end no Send fails although the
\* breaker of that channel was open and failures from before come late.
RecoveredChannelIsUsed ==
    \A c \in Channels :
        <>[](alive /\ c \in works) => <>[][\A s \in Sends : ~Exhausted(s)]_vars

\* "UpdateMQTTBroker switches the active broker" (manager.go:309): no Send after
\* it brings the process down.
StaysAlive == alive
============================================================================
