---------------------------- MODULE ExitRouting ----------------------------
(***************************************************************************)
(* Who decides where this node's internet traffic goes.                    *)
(*                                                                         *)
(* Two parties change the same kernel routes.  The engine's watchdog       *)
(* (engine.go) compares every five seconds the exit node selected in the   *)
(* shared configuration with what it remembers to have installed; the      *)
(* handlers of the web interface (server.go) install and remove routes at  *)
(* once and then write the configuration file and the shared copy.  No     *)
(* lock is common to them, and the functions of routing_linux.go that they *)
(* call are sequences of shell commands: whoever else runs may come        *)
(* between any two.  The sender (engine.go) is a third party, which adds   *)
(* host routes for the peers it sends to.                                  *)
(*                                                                         *)
(* An exit node stands for its virtual address.  Host routes to different  *)
(* addresses do not affect each other, so those of one peer are followed,  *)
(* Remote, which has one address at a time.  DNS settings and the engine's *)
(* shutdown are left out.                                                  *)
(***************************************************************************)
EXTENDS Integers, FiniteSets

CONSTANTS Nodes,       \* peers that can be selected as exit node
          Remote,      \* the one of them whose host route is followed
          Handlers,    \* requests to the web interface that may be served at once
          Watchdog,    \* the engine's goroutine that looks after the exit node
          Sender,      \* the engine's goroutine that sends the tunnel's packets
          NoNode,      \* the empty string: no exit node
          MaxFailures  \* failed checks before the watchdog gives an exit up

ASSUME NoNodeAssumption == NoNode \notin Nodes
ASSUME RemoteAssumption == Remote \in Nodes
ASSUME CallersAssumption ==
    Watchdog \notin Handlers /\ Sender \notin Handlers /\ Watchdog # Sender
ASSUME MaxFailuresAssumption == MaxFailures \in Nat \ {0}

VARIABLES file,     \* SelectedExitNode in the configuration file
          cfg,      \* SelectedExitNode in the copy the engine and the server share
          routes,   \* which of the tunnel's routes are in the kernel
          bypass,   \* the gateway of the host route to Remote's present address
          job,      \* for each caller: the next command of the function it is in
          up,       \* the peers that are online and were seen within 45 seconds
          exitRoutingActive, activeExitVIP, consecutiveFailures,
                    \* what the watchdog remembers, under exitRoutingMu
          pc, sel, healthy,
                    \* its step, and what it read before it took that lock
          web       \* for each request: its step and the selection it carries

memory == <<exitRoutingActive, activeExitVIP, consecutiveFailures>>
engine == <<memory, pc, sel, healthy>>
kernel == <<routes, bypass>>
vars == <<file, cfg, kernel, job, up, engine, web>>

Callers == Handlers \cup {Watchdog, Sender}
Selection == Nodes \cup {NoNode}

\* The routes of EnableExitNodeRouting that this code reads, 0.0.0.0/1 and that of
\* 8.8.8.8.  Those of 128.0.0.0/1 and 1.1.1.1 are added after the first and before
\* the second and deleted in the same order; nothing asks for them, and they are left
\* out.
Tunnel == {"lower", "resolver"}

\* The commands of BypassEndpoint, EnableExitNodeRouting and
\* DisableExitNodeRouting that others may come between.
Command == {"gateway", "host", "add_lower", "add_resolver",
            "delete_lower", "delete_resolver", "delete_hosts"}

\* What a host route leads to.  History: "overtaken" is a "tunnel" that a call read
\* before the host routes were last removed; nothing treats it differently.
HostGateway == {"none", "physical", "tunnel", "overtaken"}

Job == [next : Command \cup {"done"}, gateway : HostGateway]
Idle == [next |-> "done", gateway |-> "none"]

Request == [pc : {"idle", "save", "set"}, want : Selection]

TypeOK ==
    /\ file \in Selection
    /\ cfg \in Selection
    /\ routes \subseteq Tunnel
    /\ bypass \in HostGateway
    /\ job \in [Callers -> Job]
    /\ up \subseteq Nodes
    /\ exitRoutingActive \in BOOLEAN
    /\ activeExitVIP \in Selection
    /\ consecutiveFailures \in 0..MaxFailures
    /\ pc \in {"wait", "act", "busy"}
    /\ sel \in Selection
    /\ healthy \in BOOLEAN
    /\ web \in [Handlers -> Request]

\* The engine starts with the selection it loaded from the file and no routes.
Init ==
    /\ file \in Selection
    /\ cfg = file
    /\ routes = {}
    /\ bypass = "none"
    /\ job = [c \in Callers |-> Idle]
    /\ up = {}
    /\ exitRoutingActive = FALSE
    /\ activeExitVIP = NoNode
    /\ consecutiveFailures = 0
    /\ pc = "wait"
    /\ sel = NoNode
    /\ healthy = FALSE
    /\ web = [h \in Handlers |-> [pc |-> "idle", want |-> NoNode]]

----------------------------------------------------------------------------
(* The kernel's routes, one command at a time.  The tunnel has no link      *)
(* layer, so the gateway of its routes does not decide which peer gets a    *)
(* packet: the sender looks up the selection.                               *)

Free(c) == job[c].next = "done"

\* Caller c goes on to a command that needs no gateway.
Goto(c, command) == job' = [job EXCEPT ![c] = [Idle EXCEPT !.next = command]]

\* getPhysicalGatewayLinux asks for the route to 8.8.8.8, which goes through the
\* tunnel as long as its own route or that of the lower half is installed.
Gateway == IF "lower" \in routes \/ "resolver" \in routes THEN "tunnel" ELSE "physical"

\* What comes after a host route: the sender is done, the others go on with
\* EnableExitNodeRouting.
AfterBypass(c) == IF c = Sender THEN "done" ELSE "add_lower"

\* BypassEndpoint, first half: the gateway is asked for before linuxBypassedMu is
\* taken, and before names are looked up.
AskGateway(c) == job' = [job EXCEPT ![c] = [next |-> "host", gateway |-> Gateway]]

ReadGateway(c) ==
    /\ job[c].next = "gateway"
    /\ AskGateway(c)
    /\ UNCHANGED kernel

\* BypassEndpoint, second half: an address that has a host route keeps it.  The
\* route and the list of addresses change together, under linuxBypassedMu.
AddHostRoute(c) ==
    /\ job[c].next = "host"
    /\ bypass' = IF bypass = "none" THEN job[c].gateway ELSE bypass
    /\ Goto(c, AfterBypass(c))
    /\ UNCHANGED routes

\* EnableExitNodeRouting adds the routes ("ip route add" leaves a route that is
\* there already, and the error is ignored).
AddRoute(c) ==
    /\ \/ /\ job[c].next = "add_lower"
          /\ routes' = routes \cup {"lower"}
          /\ Goto(c, "add_resolver")
       \/ /\ job[c].next = "add_resolver"
          /\ routes' = routes \cup {"resolver"}
          /\ Goto(c, "done")
    /\ UNCHANGED bypass

\* DisableExitNodeRouting deletes the routes whatever their gateway is.
DeleteRoute(c) ==
    /\ \/ /\ job[c].next = "delete_lower"
          /\ routes' = routes \ {"lower"}
          /\ Goto(c, "delete_resolver")
       \/ /\ job[c].next = "delete_resolver"
          /\ routes' = routes \ {"resolver"}
          /\ Goto(c, "delete_hosts")
    /\ UNCHANGED bypass

\* Caller c has deleted the host routes, while others hold a gateway they read before.
Overtaking(c) ==
    job' = [d \in Callers |->
              IF d = c THEN Idle
              ELSE IF job[d].gateway = "tunnel" THEN [job[d] EXCEPT !.gateway = "overtaken"]
              ELSE job[d]]

\* Mutant: the list of addresses is emptied, and the kernel's routes stay.
BypassesStay(c) ==
    /\ job[c].next = "delete_hosts"
    /\ Overtaking(c)
    /\ UNCHANGED kernel

\* Then, under linuxBypassedMu, every host route that is on the list.
DeleteHostRoutes(c) ==
    /\ job[c].next = "delete_hosts"
    /\ bypass' = "none"
    /\ Overtaking(c)
    /\ UNCHANGED routes

\* A step of the function that caller c is in.
Run(c) ==
    /\ ReadGateway(c) \/ AddHostRoute(c) \/ AddRoute(c) \/ DeleteRoute(c) \/ DeleteHostRoutes(c)
    /\ UNCHANGED <<file, cfg, up, engine, web>>

\* The calls: EnableExitNodeRouting bypasses the addresses of ns first.
EnableExitNodeRouting(c, ns) == Goto(c, IF Remote \in ns THEN "gateway" ELSE "add_lower")
DisableExitNodeRouting(c) == Goto(c, "delete_lower")

----------------------------------------------------------------------------
(* The watchdog.                                                           *)

\* The ticker fires: the selection and the health of the selected peer are read
\* before the lock is taken.
Tick ==
    /\ pc = "wait"
    /\ pc' = "act"
    /\ sel' = cfg
    /\ healthy' = (cfg \in up)
    /\ UNCHANGED <<file, cfg, kernel, job, up, memory, web>>

\* This tick is over, and what was read for it is forgotten.
Wait ==
    /\ pc' = "wait"
    /\ sel' = NoNode
    /\ healthy' = FALSE
    /\ UNCHANGED job

\* The watchdog changes routes, and keeps the lock until that is done.
Busy == pc' = "busy" /\ UNCHANGED <<sel, healthy>>

\* Mutant: the watchdog forgets what it has installed, and removes nothing.
ForgottenOnly ==
    /\ sel = NoNode
    /\ Wait
    /\ exitRoutingActive' = FALSE
    /\ activeExitVIP' = NoNode
    /\ consecutiveFailures' = 0

\* Nothing is selected: what the watchdog has installed is removed.
Deselected ==
    /\ sel = NoNode
    /\ IF exitRoutingActive /\ activeExitVIP # NoNode
       THEN Busy /\ DisableExitNodeRouting(Watchdog)
       ELSE Wait
    /\ UNCHANGED memory

\* Mutant: only the remembered address is compared, not whether it is active.
ComparesAddress ==
    /\ sel # NoNode
    /\ healthy
    /\ consecutiveFailures' = 0
    /\ IF activeExitVIP # sel
       THEN Busy /\ EnableExitNodeRouting(Watchdog, Nodes)
       ELSE Wait
    /\ UNCHANGED <<exitRoutingActive, activeExitVIP>>

\* The selected peer is healthy: it becomes the exit node unless it is already.
\* The addresses of all peers are bypassed.
Healthy ==
    /\ sel # NoNode
    /\ healthy
    /\ consecutiveFailures' = 0
    /\ IF ~exitRoutingActive \/ activeExitVIP # sel
       THEN Busy /\ EnableExitNodeRouting(Watchdog, Nodes)
       ELSE Wait
    /\ UNCHANGED <<exitRoutingActive, activeExitVIP>>

\* Mutant: the failure that should be the last is not counted.
NeverLast(last) ==
    /\ consecutiveFailures' = IF last THEN consecutiveFailures ELSE consecutiveFailures + 1
    /\ Wait
    /\ UNCHANGED <<exitRoutingActive, activeExitVIP>>

\* A failed check is counted, and the last one removes the routes.
CountFailure(last) ==
    /\ consecutiveFailures' = consecutiveFailures + 1
    /\ IF last
       THEN Busy /\ DisableExitNodeRouting(Watchdog)
       ELSE Wait
    /\ UNCHANGED <<exitRoutingActive, activeExitVIP>>

\* The selected peer is down: that counts while the watchdog is active.
Unhealthy ==
    /\ sel # NoNode
    /\ ~healthy
    /\ IF exitRoutingActive
       THEN CountFailure(consecutiveFailures + 1 >= MaxFailures)
       ELSE Wait /\ UNCHANGED memory

\* The watchdog takes exitRoutingMu and decides.
Act ==
    /\ pc = "act"
    /\ Deselected \/ Healthy \/ Unhealthy
    /\ UNCHANGED <<file, cfg, kernel, up, web>>

\* What it remembers after the routes were changed.
Remember ==
    /\ exitRoutingActive' = (sel # NoNode /\ healthy)
    /\ activeExitVIP' = IF sel = NoNode \/ healthy THEN sel ELSE activeExitVIP
    /\ consecutiveFailures' = IF sel = NoNode THEN 0 ELSE consecutiveFailures

\* The commands have run, and exitRoutingMu is released.
Done ==
    /\ pc = "busy"
    /\ Free(Watchdog)
    /\ Remember
    /\ Wait
    /\ UNCHANGED <<file, cfg, kernel, up, web>>

----------------------------------------------------------------------------
(* The web interface.                                                      *)

\* A request to select n comes in: it changes the routes if it has to, and carries
\* the selection to the file and to the shared copy.
Serve(h, n) ==
    /\ web[h].pc = "idle"
    /\ web' = [web EXCEPT ![h] = [pc |-> "save", want |-> n]]
    /\ UNCHANGED <<file, cfg, kernel, up, engine>>

\* handleRoutingExitNode loads the file and changes the routes only when the
\* selection it brings is not the one in the file.  It bypasses the addresses of
\* the new exit node, not those of the other peers, and installs no routes for a
\* node that the registry does not know: one that has been silent for minutes, so
\* the watchdog neither holds it for active nor found it healthy in this tick (that
\* it says goodbye and is selected anew within one tick is left out).
Unknown(n) ==
    /\ n \in Nodes \ up
    /\ ~(exitRoutingActive /\ activeExitVIP = n)
    /\ ~(pc # "wait" /\ sel = n /\ healthy)

Select(h, new) ==
    /\ Serve(h, new)
    /\ \/ new # NoNode /\ new # file /\ EnableExitNodeRouting(h, {new})
       \/ new = NoNode /\ file # NoNode /\ DisableExitNodeRouting(h)
       \/ (new = file \/ Unknown(new)) /\ UNCHANGED job

\* handleRoutingExitNodeToggle with "enabled".
ToggleOn(h, n) == Serve(h, n) /\ EnableExitNodeRouting(h, {n})

\* handleRoutingExitNodeToggle without "enabled".
ToggleOff(h) == Serve(h, NoNode) /\ DisableExitNodeRouting(h)

\* config.Save, after the routes.
Save(h) ==
    /\ web[h].pc = "save"
    /\ Free(h)
    /\ file' = web[h].want
    /\ web' = [web EXCEPT ![h].pc = "set"]
    /\ UNCHANGED <<cfg, kernel, job, up, engine>>

\* The shared copy gets the selection of this request.
SetConfig(h) ==
    /\ web[h].pc = "set"
    /\ cfg' = web[h].want
    /\ web' = [web EXCEPT ![h] = [pc |-> "idle", want |-> NoNode]]
    /\ UNCHANGED <<file, kernel, job, up, engine>>

----------------------------------------------------------------------------
(* The sender and the peers.                                               *)

\* While an exit node is selected, each packet first bypasses its peer's address,
\* which begins with the question for the gateway.
Send ==
    /\ Free(Sender)
    /\ cfg # NoNode
    /\ AskGateway(Sender)
    /\ UNCHANGED <<file, cfg, kernel, up, engine, web>>

\* Remote moves to another address, to which no host route leads: calls under way
\* bypass the one it has left.
Roam ==
    /\ bypass' = "none"
    /\ job' = [c \in Callers |->
                 IF job[c].next \in {"gateway", "host"}
                 THEN [Idle EXCEPT !.next = AfterBypass(c)] ELSE job[c]]
    /\ UNCHANGED <<file, cfg, routes, up, engine, web>>

\* A peer is heard of again, or is not heard of for 45 seconds.
PeerChanges(n) ==
    /\ up' = IF n \in up THEN up \ {n} ELSE up \cup {n}
    /\ UNCHANGED <<file, cfg, kernel, job, engine, web>>

Next ==
    \/ Tick
    \/ Act
    \/ Done
    \/ \E c \in Callers : Run(c)
    \/ \E h \in Handlers : ToggleOff(h) \/ Save(h) \/ SetConfig(h)
    \/ \E h \in Handlers, s \in Selection : Select(h, s)
    \/ \E h \in Handlers, n \in Nodes : ToggleOn(h, n)
    \/ Send
    \/ Roam
    \/ \E n \in Nodes : PeerChanges(n)

\* The ticker goes on until the engine stops, commands end, and a request that was
\* accepted is served to its end: each of them has one step to take at a time.
\* Nothing makes a peer come or go, a packet be sent or a user click, and nothing
\* is asked of a sender that has begun.
Fairness ==
    /\ WF_vars(Tick \/ Act \/ Done \/ Run(Watchdog))
    /\ \A h \in Handlers : WF_vars(Run(h) \/ Save(h) \/ SetConfig(h))

Spec == Init /\ [][Next]_vars /\ Fairness

----------------------------------------------------------------------------
(* Properties.                                                             *)

\* No request is being served.
Quiet == \A h \in Handlers : web[h].pc = "idle"

\* An exit node that was given up is not counted as active once its routes are
\* removed, and the number of failures stops there, whatever the web interface does
\* meanwhile.
GivenUpIsInactive == consecutiveFailures = MaxFailures /\ pc # "busy" => ~exitRoutingActive

\* A call has begun to delete the routes, and the host routes are still there.
Removing(c) == job[c].next \in {"delete_resolver", "delete_hosts"}

\* While traffic uses the physical gateway a host route into the tunnel cuts its
\* peer off.  There is one only until a removal that has begun is finished, or
\* because that removal overtook a call which had asked for the gateway before and
\* adds the route after it ("overtaken"): nothing else leaves one behind, however
\* the watchdog, the web interface and the sender take turns.
OnlyOvertakenStray ==
    bypass = "tunnel" /\ Gateway = "physical" => \E c \in Callers : Removing(c)

\* What routing_linux.go:723 says of DisableExitNodeRouting, that it removes the
\* bypass routes: none is left into a tunnel that takes no traffic.
NoStrayBypass ==
    routes = {} /\ (\A c \in Callers : Free(c)) => bypass \notin {"tunnel", "overtaken"}

\* What routing_linux.go:624-625 says of BypassEndpoint: host routes go through
\* the physical gateway, to prevent loops while exit routing is active.
BypassIsPhysical == bypass \notin {"tunnel", "overtaken"}

\* Once the user has no exit node selected and leaves it so, the internet goes
\* through the physical gateway again and stays there (engine.go:843-849), even
\* when the watchdog installs the routes from a selection it had read before, and
\* however the commands of the two fall between each other.
DeselectRestores == <>[](cfg = NoNode /\ Quiet) => <>[](routes = {})

\* Blackhole recovery (engine.go:810-815): while the selected exit node that the
\* watchdog holds for active between two ticks is down, its routes are removed in
\* the end, unless the user makes another request.
GivesUpOnDeadExit ==
    \A n \in Nodes :
        (pc = "wait" /\ exitRoutingActive /\ cfg = n /\ n \notin up)
            ~> (routes = {} \/ cfg # n \/ n \in up \/ ~Quiet)

\* When the exit node recovers, its routing is enabled again (engine.go:815):
\* a selected exit node that stays up is active in the end, with all its routes
\* installed, whatever the web interface and the watchdog did to them before.
RecoversExit ==
    \A n \in Nodes :
        <>[](cfg = n /\ n \in up /\ Quiet)
            => <>[](exitRoutingActive /\ activeExitVIP = n /\ routes = Tunnel)

\* What engine.go:812-813 says of every selected exit node: when it fails its
\* checks the default routes are removed, to avoid a traffic blackhole, unless the
\* user makes another request.
NoLastingBlackhole ==
    \A n \in Nodes :
        (routes # {} /\ cfg = n /\ n \notin up)
            ~> (routes = {} \/ cfg # n \/ n \in up \/ ~Quiet)
============================================================================
