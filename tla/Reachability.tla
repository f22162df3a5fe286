---------------------------- MODULE Reachability ----------------------------
(***************************************************************************)
(* How a sender becomes reachable and stays so: the start of `send`        *)
(* (crates/cli/src/commands/send.rs and shared.rs), the registration       *)
(* upkeep of crates/network/src/discovery.rs, and the discovery commands   *)
(* and notices of crates/network/src/driver.rs.                            *)
(*                                                                         *)
(* Time is counted in ticks.  Dispatching to the whole set of nodes takes  *)
(* at most MaxDelay ticks, and so does a message on its way to a node.     *)
(* The discovery nodes and the swarm are external.                         *)
(***************************************************************************)
EXTENDS Naturals, Sequences, FiniteSets, Functions

CONSTANTS
  Nodes,           \* discovery nodes
  Relays,          \* relays
  Options,         \* the resolved options `send` may be given
  MaxFederated,    \* the 8 of take(8)
  EventCapacity,   \* event_capacity
  Ttl,             \* ttl_seconds, in ticks
  WaitTicks,       \* the ten seconds of both waits, in ticks
  MaxDelay,        \* longest dispatch and longest delivery, in ticks
  MaxNotices,      \* bound on other events
  MaxFaults        \* bound on refusals, losses and node restarts

Direct == <<"listener">>
Canonical == Relays                        \* the configured relay route
Runtime(r) == <<"runtime", r>>             \* the route the listener reports

renewal_delay_ttl(ttl) == ttl
renewal_delay(ttl) == IF (ttl * 2) \div 3 > 1 THEN (ttl * 2) \div 3 ELSE 1

ASSUME ReachabilityAssumption ==
  /\ EventCapacity \in Nat \ {0} /\ MaxFederated \in Nat \ {0}
  /\ WaitTicks \in Nat \ {0} /\ MaxDelay \in Nat /\ Ttl \in Nat
  /\ MaxNotices \in Nat /\ MaxFaults \in Nat
  /\ Options \subseteq [relay_only : BOOLEAN, require_relay : BOOLEAN,
                        relays : SUBSET Relays, nodes : Seq(Nodes)]
  /\ \A o \in Options : o.relay_only => o.require_relay  \* apply_send
  /\ Direct \notin Relays /\ \A r \in Relays : Runtime(r) \notin Relays

\* A registration lives longer than the wait for it, and than the dispatch and
\* the exchanges of a renewal.  ttl_seconds is at least 30, the wait takes 10
\* and the sleep 20: this is three delays of less than 10 seconds together.
ASSUME LifetimeAssumption ==
  /\ WaitTicks + 3 * MaxDelay < Ttl
  /\ (2 * Ttl) \div 3 + 3 * MaxDelay < Ttl

VARIABLES
  options,      \* relay_only, require_relay, relays and nodes of SendArgs
  phase,        \* where `send` is
  advertised,   \* ReachableNetwork::advertised
  pending,      \* reserve_relays: relays whose listen command was accepted
  reservations, \* reserve_relays: relays that reported a reservation
  listeners,    \* reserve_relays: relays that reported a listener
  failed,       \* wait_for_public_registration: nodes that refused
  todo,         \* nodes the current dispatch still has to reach
  dispatched,   \* nodes the current dispatch reached
  age,          \* ticks since that dispatch began
  timer,        \* ticks left in the current wait
  task,         \* maintain_registrations
  renew,        \* ticks left of its sleep
  cancelled,    \* its cancellation token
  events,       \* the driver's bounded event queue
  external,     \* swarm: the external addresses, the body of a registration
  wire,         \* external: node -> messages on their way to it
  lag,          \* external: node -> age of the exchange with it
  store,        \* external: node -> ticks left and addresses it lists
  withdrawn,    \* external: nodes that handled the unregister message
  faults,       \* external: <<node, "lost">> for a message refused or lost,
                \* <<node, "restart">> for a node that forgot its listings
  budget        \* notices and faults left

cli == <<advertised, pending, reservations, listeners, failed>>
upkeep == <<task, renew, cancelled>>
rounds == <<todo, dispatched, age>>
peers == <<wire, lag, store, withdrawn, faults>>
vars == <<options, phase, cli, rounds, timer, upkeep, events, external, peers,
          budget>>

Starting == {"start", "listener", "relays", "reserve", "announce", "register",
             "wait"}
Running == phase \notin {"stopped", "failed"}
Absent == [left |-> 0, addresses |-> {}]

Init ==
  /\ options \in Options
  /\ phase = "start"
  /\ advertised = {} /\ pending = {} /\ reservations = {} /\ listeners = {}
  /\ failed = {} /\ todo = {} /\ dispatched = {} /\ age = 0 /\ timer = 0
  /\ task = "none" /\ renew = 0 /\ cancelled = FALSE
  /\ events = <<>> /\ external = {}
  /\ wire = [n \in Nodes |-> <<>>] /\ lag = [n \in Nodes |-> 0]
  /\ store = [n \in Nodes |-> Absent]
  /\ withdrawn = {} /\ faults = {}
  /\ budget = [notices |-> MaxNotices, faults |-> MaxFaults]
-----------------------------------------------------------------------------
\* events.try_send: a full queue drops the event.  Once the share is served,
\* DirectSender::run reads the queue and discards every notice.
try_send(kind, of) ==
  events' = IF phase \in Starting /\ Len(events) < EventCapacity
              THEN Append(events, [kind |-> kind, of |-> of])
              ELSE events

\* The next event of the queue, if it is of this kind.
Received(kind) == Head(events).kind = kind
recv == events # <<>> /\ events' = Tail(events)

\* The command fails: RunningNetwork is dropped and aborts the driver, without
\* an unregister message.
Fail == phase' = "failed"

\* start_reachable_network up to its listen command.
StartListening ==
  /\ phase = "start"
  /\ phase' \in IF options.relay_only THEN {"relays"} ELSE {"listener", "failed"}
  /\ UNCHANGED <<options, cli, rounds, timer, upkeep, events, external, peers,
                 budget>>

\* wait_for_listener: every event but Listening is swallowed; no time limit.
wait_for_listener ==
  /\ phase = "listener"
  /\ recv
  /\ IF Received("Listening")
       THEN advertised' = {Head(events).of} /\ phase' = "relays"
       ELSE UNCHANGED <<advertised, phase>>
  /\ UNCHANGED <<options, pending, reservations, listeners, failed, rounds,
                 timer, upkeep, external, peers, budget>>

\* reserve_relays: one listen command per relay, any of which may be refused.
ListenOnRelays ==
  /\ phase = "relays"
  /\ phase' = "reserve"
  /\ pending' \in SUBSET options.relays
  /\ timer' = WaitTicks
  /\ UNCHANGED <<options, advertised, reservations, listeners, failed, rounds,
                 upkeep, events, external, peers, budget>>

ReservationsComplete ==
  Cardinality(listeners \cap reservations) >= Cardinality(pending)

\* reserve_relays: its loop takes one event.
reserve_relays ==
  /\ phase = "reserve" /\ ~ReservationsComplete /\ timer > 0
  /\ recv
  /\ LET e == Head(events)
     IN  /\ reservations' = reservations \cup
              IF e.kind = "RelayReservation" THEN {e.of} \cap pending ELSE {}
         /\ listeners' = listeners \cup
              IF e.kind = "Listening"
                THEN {r \in pending : e.of = Runtime(r)} ELSE {}
  /\ UNCHANGED <<options, phase, advertised, pending, failed, rounds, timer,
                 upkeep, external, peers, budget>>

Advertise_both(routes) == advertised \cup routes

\* A share that is relayed and registered does not advertise its listener.
Advertise(routes) ==
  IF routes # {} /\ options.nodes # <<>> THEN routes ELSE advertised \cup routes

\* reserve_relays ends; the rest of start_reachable_network.
RelaysReserved ==
  /\ phase = "reserve" /\ (ReservationsComplete \/ timer = 0)
  /\ LET routes == listeners \cap reservations
     IN  /\ external' = external \ {Runtime(r) : r \in routes}
         /\ advertised' = Advertise(routes)
         /\ IF (options.require_relay /\ routes = {}) \/ Advertise(routes) = {}
              THEN Fail ELSE phase' = "announce"
  /\ UNCHANGED <<options, pending, reservations, listeners, failed, rounds,
                 timer, upkeep, events, peers, budget>>
-----------------------------------------------------------------------------
\* The federated set of a dispatch: nodes.iter().take(8).
Federated ==
  {options.nodes[i] : i \in {j \in 1..Len(options.nodes) : j <= MaxFederated}}

BeginRound ==
  /\ todo' = Federated
  /\ dispatched' = {}
  /\ age' = 0

\* establish_public_reachability: the addresses are added to the swarm first.
Announce ==
  /\ phase = "announce"
  /\ IF options.nodes = <<>>
       THEN phase' = "serving" /\ UNCHANGED <<rounds, external>>
       ELSE /\ phase' = "register"
            /\ external' = external \cup advertised
            /\ BeginRound
  /\ UNCHANGED <<options, cli, timer, upkeep, events, peers, budget>>

\* provider.register(n): the name of the node does not resolve, or the command
\* reaches the driver, which hands libp2p a record of its external addresses.
register(n) ==
  /\ n \in todo /\ (phase = "register" \/ task = "register")
  /\ todo' = todo \ {n}
  /\ \/ /\ external # {}
        /\ wire' = [wire EXCEPT ![n] = Append(@, external)]
        /\ dispatched' = dispatched \cup {n}
        /\ UNCHANGED <<faults, budget>>
     \/ /\ budget.faults > 0
        /\ budget' = [budget EXCEPT !.faults = @ - 1]
        /\ faults' = faults \cup {<<n, "lost">>}
        /\ UNCHANGED <<dispatched, wire>>
  /\ UNCHANGED <<options, phase, cli, age, timer, upkeep, events, external, lag,
                 store, withdrawn>>

\* dispatch_registration returned to establish_public_reachability.
Dispatched ==
  /\ phase = "register" /\ todo = {}
  /\ IF dispatched = {} THEN Fail /\ UNCHANGED timer
                        ELSE phase' = "wait" /\ timer' = WaitTicks
  /\ UNCHANGED <<options, cli, rounds, upkeep, events, external, peers, budget>>

\* The share is ready: the code is printed and maintain_registrations spawned.
Ready ==
  /\ phase' = "serving"
  /\ task' = "register"
  /\ BeginRound

wait_for_public_registration_any ==
  /\ phase = "wait" /\ timer > 0
  /\ recv
  /\ IF Received("DiscoveryFailed") \/ Received("DiscoveryRegistered")
       THEN Ready
       ELSE UNCHANGED <<phase, task, rounds>>
  /\ UNCHANGED <<options, cli, timer, renew, cancelled, external, peers,
                 budget>>

\* wait_for_public_registration takes one event.
wait_for_public_registration ==
  /\ phase = "wait" /\ timer > 0
  /\ recv
  /\ LET refused == failed \cup
           IF Received("DiscoveryFailed") THEN {Head(events).of} ELSE {}
     IN  /\ failed' = refused
         /\ IF Received("DiscoveryRegistered") THEN Ready
            ELSE /\ IF Cardinality(refused) = Len(options.nodes) THEN Fail
                    ELSE UNCHANGED phase
                 /\ UNCHANGED <<task, rounds>>
  /\ UNCHANGED <<options, advertised, pending, reservations, listeners, timer,
                 renew, cancelled, external, peers, budget>>

WaitTimesOut_never == FALSE

\* The ten seconds are over.
WaitTimesOut ==
  /\ phase = "wait" /\ timer = 0
  /\ Fail
  /\ UNCHANGED <<options, cli, rounds, timer, upkeep, events, external, peers,
                 budget>>
-----------------------------------------------------------------------------
\* The service ended: stop_registration cancels the task and waits for it.
StopServing ==
  /\ phase = "serving"
  /\ phase' = "stopping"
  /\ cancelled' = TRUE
  /\ UNCHANGED <<options, cli, rounds, timer, task, renew, events, external,
                 peers, budget>>

\* maintain_registrations: a dispatch is over, the task sleeps.
Sleep ==
  /\ task = "register" /\ todo = {}
  /\ task' = "sleep"
  /\ renew' = renewal_delay(Ttl)
  /\ UNCHANGED <<options, phase, cli, rounds, timer, cancelled, events,
                 external, peers, budget>>

Renew_after_leaving ==
  /\ \/ task = "sleep" /\ renew = 0
     \/ task = "unregister" /\ todo = {}
  /\ task' = "register"
  /\ BeginRound
  /\ UNCHANGED <<options, phase, cli, timer, renew, cancelled, events, external,
                 peers, budget>>

\* Its sleep is over: everything is registered again.
Renew ==
  /\ task = "sleep" /\ renew = 0
  /\ task' = "register"
  /\ BeginRound
  /\ UNCHANGED <<options, phase, cli, timer, renew, cancelled, events, external,
                 peers, budget>>

\* Its sleep is cut short by the cancellation: everything is unregistered.
Leave ==
  /\ task = "sleep" /\ cancelled
  /\ task' = "unregister"
  /\ renew' = 0
  /\ BeginRound
  /\ UNCHANGED <<options, phase, cli, timer, cancelled, events, external, peers,
                 budget>>

\* provider.unregister(n); the message carries no record.
unregister(n) ==
  /\ task = "unregister" /\ n \in todo
  /\ todo' = todo \ {n}
  /\ wire' = [wire EXCEPT ![n] = Append(@, {})]
  /\ UNCHANGED <<options, phase, cli, dispatched, age, timer, upkeep, events,
                 external, lag, store, withdrawn, faults, budget>>

\* What libp2p may have written to a node of the messages to it.
Written(n) == {SubSeq(wire[n], 1, k) : k \in 0..Len(wire[n])}

\* The task ended, or never ran; running_network.stop ends the driver.  What
\* libp2p has not written by then is lost.
Stop ==
  /\ phase = "stopping"
  /\ task = "none" \/ (task = "unregister" /\ todo = {})
  /\ phase' = "stopped"
  /\ task' = "none"
  /\ wire' \in {w \in [Nodes -> UNION {Written(n) : n \in Nodes}] :
                 \A n \in Nodes : w[n] \in Written(n)}
  /\ UNCHANGED <<options, cli, rounds, timer, renew, cancelled, events,
                 external, lag, store, withdrawn, faults, budget>>
-----------------------------------------------------------------------------
\* External: the swarm reports a listener, the direct one or one on a relay
\* whose reservation it has; the latter is also an external address.
NewListenAddr ==
  /\ Running
  /\ \/ /\ phase = "listener"
        /\ try_send("Listening", Direct)
        /\ UNCHANGED external
     \/ \E r \in pending :
          /\ Runtime(r) \notin external /\ r \notin advertised
          /\ external' = external \cup {Runtime(r)}
          /\ try_send("Listening", Runtime(r))
  /\ UNCHANGED <<options, phase, cli, rounds, timer, upkeep, peers, budget>>

\* A relay accepts the reservation (handle_relay_event); or any other event.
handle_relay_event ==
  /\ Running
  /\ budget.notices > 0
  /\ budget' = [budget EXCEPT !.notices = @ - 1]
  /\ \/ \E r \in pending : try_send("RelayReservation", r)
     \/ try_send("Connected", Direct)
  /\ UNCHANGED <<options, phase, cli, rounds, timer, upkeep, external, peers>>

\* The answer of a node becomes an event while the driver runs.
handle_rendezvous_event(kind, n) ==
  IF Running THEN try_send(kind, n) ELSE UNCHANGED events

\* External: a node takes the next message.
NodeAccepts(n) ==
  /\ wire[n] # <<>>
  /\ wire' = [wire EXCEPT ![n] = Tail(@)]
  /\ lag' = [lag EXCEPT ![n] = 0]
  /\ IF Head(wire[n]) = {}
       THEN /\ store' = [store EXCEPT ![n] = Absent]
            /\ withdrawn' = withdrawn \cup {n}
            /\ UNCHANGED events
       ELSE /\ store' = [store EXCEPT ![n] = [left |-> Ttl,
                                              addresses |-> Head(wire[n])]]
            /\ handle_rendezvous_event("DiscoveryRegistered", n)
            /\ UNCHANGED withdrawn
  /\ UNCHANGED <<options, phase, cli, rounds, timer, upkeep, external,
                 faults, budget>>

\* External: a node refuses or never gets a message, or it restarts and
\* forgets what it listed.
NodeFails(n) ==
  /\ budget.faults > 0
  /\ budget' = [budget EXCEPT !.faults = @ - 1]
  /\ \/ /\ wire[n] # <<>>
        /\ faults' = faults \cup {<<n, "lost">>}
        /\ wire' = [wire EXCEPT ![n] = Tail(@)]
        /\ lag' = [lag EXCEPT ![n] = 0]
        /\ IF Head(wire[n]) = {} THEN UNCHANGED events
           ELSE handle_rendezvous_event("DiscoveryFailed", n)
        /\ UNCHANGED store
     \/ /\ faults' = faults \cup {<<n, "restart">>}
        /\ store' = [store EXCEPT ![n] = Absent]
        /\ UNCHANGED <<wire, lag, events>>
  /\ UNCHANGED <<options, phase, cli, rounds, timer, upkeep, external,
                 withdrawn>>

Less(x) == IF x > 0 THEN x - 1 ELSE 0

\* A tick.  Whoever has a step to take takes it within the tick.
Tick ==
  /\ \A n \in Nodes : wire[n] # <<>> => lag[n] < MaxDelay
  /\ IF todo # {} THEN age < MaxDelay
     ELSE phase # "register" /\ task # "register"
  /\ phase \notin {"start", "relays", "announce"}
  /\ task = "sleep" => renew > 0 /\ ~cancelled
  /\ phase \in {"reserve", "wait"} => timer > 0
  /\ lag' = [n \in Nodes |-> IF wire[n] # <<>> THEN lag[n] + 1 ELSE 0]
  /\ age' = IF todo # {} THEN age + 1 ELSE 0
  /\ store' = [n \in Nodes |->
                 IF store[n].left <= 1 THEN Absent
                 ELSE [store[n] EXCEPT !.left = @ - 1]]
  /\ timer' = Less(timer) /\ renew' = Less(renew)
  /\ UNCHANGED <<options, phase, cli, todo, dispatched, task, cancelled, events,
                 external, wire, withdrawn, faults, budget>>
-----------------------------------------------------------------------------
Command ==
  \/ StartListening \/ wait_for_listener \/ ListenOnRelays \/ reserve_relays
  \/ RelaysReserved \/ Announce \/ Dispatched \/ wait_for_public_registration
  \/ WaitTimesOut \/ Stop

Upkeep == Sleep \/ Renew \/ Leave \/ \E n \in Nodes : register(n) \/ unregister(n)

Next ==
  \/ Command \/ Upkeep \/ StopServing
  \/ NewListenAddr \/ handle_relay_event
  \/ \E n \in Nodes : NodeAccepts(n) \/ NodeFails(n)
  \/ Tick

Spec == Init /\ [][Next]_vars

\* The tasks are scheduled, a bound listener is reported, nodes answer what
\* reaches them and time passes.
FairSpec ==
  /\ Spec
  /\ WF_vars(Command) /\ WF_vars(Upkeep) /\ WF_vars(NewListenAddr)
  /\ WF_vars(Tick \/ \E n \in Nodes : NodeAccepts(n))
-----------------------------------------------------------------------------
\* When the code is printed for a share with discovery nodes, some node lists
\* the share under every address it advertises, unless that node has
\* restarted since: neither the ten-second wait nor a dropped or swallowed event
\* makes the code of an unlisted share appear (send.rs, emit_ready).
ReadyIsListed ==
  [][phase # "serving" /\ phase' = "serving" /\ options.nodes # <<>> =>
       \E n \in Nodes : \/ <<n, "restart">> \in faults
                        \/ /\ store[n].left > 0
                           /\ advertised \subseteq store[n].addresses]_vars

\* A node that answers stays listing the share for as long as it is served:
\* the renewal at two thirds of the lifetime leaves room for the dispatch and
\* the exchange (renewal_delay, maintain_registrations).
RenewedInTime ==
  [][phase = "serving" =>
       \A n \in Nodes :
         /\ store[n].left > 0
         /\ \A fault \in faults' : fault[1] # n
         => store'[n].left > 0]_vars

\* Once a node handled the unregister message it never lists the share again:
\* no renewal is dispatched behind it (maintain_registrations breaks out of its
\* loop, and stop_registration waits for it).
WithdrawnStaysGone == \A n \in withdrawn : store[n] = Absent

\* Only relay routes are published for a relay-only share, and a share that
\* got a relay does not publish its listener next to it, at any node and in
\* any message on its way (start_reachable_network).
RecordsRespectPrivacy ==
  \A n \in Nodes : \A record \in Range(wire[n]) \cup {store[n].addresses} :
    Direct \in record =>
      /\ ~options.relay_only
      /\ record \cap Canonical = {}

\* Becoming reachable ends, with the code printed or with a failure, and so
\* does stopping: no wait depends on an event that may have been dropped.
StartAndStopEnd ==
  /\ phase \in Starting ~> phase \in {"serving", "stopping", "stopped", "failed"}
  /\ phase = "stopping" ~> phase = "stopped"
=============================================================================
