----------------------------- MODULE NodeServer -----------------------------
(***************************************************************************)
(* The life of a node process: NodeServer (crates/node/src/relay.rs), the  *)
(* status it shares (telemetry.rs), the operations endpoint that reads it  *)
(* (operations.rs), and the command that owns both (main.rs).              *)
(*                                                                         *)
(* The swarm is external and polled by the node's own task, so an event    *)
(* and the change it reports are one step.  The discovery store appears as *)
(* the number of its registrations (RendezvousStore has the rest), and an  *)
(* event as one place in the bounded queue to the command.                 *)
(***************************************************************************)
EXTENDS Naturals, FiniteSets

CONSTANTS
  Listeners,      \* listen_addresses
  Connections,    \* transport connections peers may open
  Circuits,       \* circuits peers may open
  Total,          \* discovery_registrations_total
  EventCapacity,  \* event_capacity
  MaxRequests     \* bound on requests, repeated addresses and denials

NodeServerAssumption ==
  /\ IsFiniteSet(Listeners) /\ Listeners # {}
  /\ IsFiniteSet(Connections) /\ IsFiniteSet(Circuits)
  /\ Total \in Nat
  /\ EventCapacity \in Nat \ {0}
  /\ MaxRequests \in Nat

VARIABLES
  task,             \* where NodeServer::run_graceful is
  node_result,      \* what it returned
  cancelled,        \* the node's CancellationToken
  live, ready, draining, listeners_ready,      \* NodeStatus
  connections, reservations, circuits,         \* its gauges
  discovery_registrations,
  ready_listeners,
  registered,       \* discovery.len()
  lapsed,           \* how many of those are past their lifetime
  queue,            \* NodeEvents in the channel
  listener,         \* external: listener -> status
  open,             \* external: connections, by status
  reserved,         \* external: connections that hold a reservation
  circuit,          \* external: circuit -> status
  requests,         \* how many requests were made
  main,             \* where run_server_config is
  operations,       \* the operations task
  operations_finished,
  result            \* what the command returns

status == <<live, ready, draining, listeners_ready>>
readiness == <<ready, listeners_ready>>
gauges == <<connections, reservations, circuits, discovery_registrations>>
swarm == <<listener, open, reserved, circuit, requests>>
store == <<registered, lapsed>>
command == <<main, operations, operations_finished, result>>
vars == <<task, node_result, cancelled, status, gauges, ready_listeners,
          store, queue, swarm, command>>

Init ==
  /\ task = "starting"
  /\ node_result = "none"
  /\ cancelled = FALSE
  /\ live = FALSE /\ ready = FALSE /\ draining = FALSE /\ listeners_ready = 0
  /\ connections = 0 /\ reservations = 0 /\ circuits = 0
  /\ discovery_registrations = 0
  /\ ready_listeners = {}
  /\ registered = 0 /\ lapsed = 0
  /\ queue = 0
  /\ listener = [l \in Listeners |-> "none"]
  /\ open = [c \in Connections |-> "new"]
  /\ reserved = {}
  /\ circuit = [x \in Circuits |-> "new"]
  /\ requests = 0
  /\ main = "running"
  /\ operations \in {"serving", "disabled"}
  /\ operations_finished = FALSE
  /\ result = "none"
-----------------------------------------------------------------------------
(* NodeStatus *)

set_listeners_ready(n) ==
  /\ listeners_ready' = n
  /\ ready' = (n >= Cardinality(Listeners))

decrement(n) == IF n = 0 THEN 0 ELSE n - 1

\* n events, each offered to the channel and dropped when it is full.
emit(n) ==
  queue' = IF queue + n <= EventCapacity THEN queue + n ELSE EventCapacity
-----------------------------------------------------------------------------
(* run_loop, serve and drain *)

Ended(outcome) ==
  /\ task' = "ended"
  /\ node_result' = outcome
  /\ live' = FALSE /\ ready' = FALSE
  /\ UNCHANGED <<draining, listeners_ready>>

Start ==
  /\ task = "starting"
  /\ \/ /\ task' = "serving"
        /\ live' = TRUE
        /\ listener' = [l \in Listeners |-> "binding"]
        /\ UNCHANGED <<node_result, ready, draining, listeners_ready>>
     \/ /\ Ended("Listen")
        /\ UNCHANGED listener
  /\ UNCHANGED <<cancelled, gauges, ready_listeners, store, queue, open,
                 reserved, circuit, requests, command>>

begin_drain ==
  /\ task = "serving" /\ cancelled
  /\ task' = "draining"
  /\ draining' = TRUE /\ ready' = FALSE
  /\ listener' = [l \in Listeners |->
                    IF listener[l] = "closed" THEN "closed" ELSE "closing"]
  /\ UNCHANGED <<node_result, cancelled, live, listeners_ready, gauges,
                 ready_listeners, store, queue, open, reserved, circuit,
                 requests, command>>

Connected == {c \in Connections : open[c] = "open"}

DrainEnds_when_empty ==
  /\ task = "draining"
  /\ Connected = {}
  /\ Ended("ok")
  /\ UNCHANGED <<cancelled, gauges, ready_listeners, store, queue, swarm,
                 command>>

\* No peer is connected, or the deadline passed.
DrainEnds ==
  /\ task = "draining"
  /\ Ended("ok")
  /\ UNCHANGED <<cancelled, gauges, ready_listeners, store, queue, swarm,
                 command>>

\* The loop of drain returns before it handles anything once nobody is connected.
Serving == task = "serving" \/ (task = "draining" /\ Connected # {})

Kept == registered - lapsed

\* The 1 s timer, in both loops.
expire_discovery ==
  /\ registered' = Kept
  /\ lapsed' = 0
  /\ emit(lapsed)
  /\ discovery_registrations' = registered'
  /\ UNCHANGED <<readiness, connections, reservations, circuits,
                 ready_listeners, swarm>>
-----------------------------------------------------------------------------
(* handle_event *)

\* A listener has one event per interface, and one that was on its way before
\* remove_listener still arrives.
NewListenAddr(l) ==
  /\ \/ listener[l] = "binding" /\ UNCHANGED requests
     \/ /\ listener[l] \in {"listening", "closing"}
        /\ requests < MaxRequests
        /\ requests' = requests + 1
  /\ listener' = [listener EXCEPT ![l] = IF @ = "binding" THEN "listening" ELSE @]
  /\ ready_listeners' = ready_listeners \cup {l}
  /\ set_listeners_ready(Cardinality(ready_listeners'))
  /\ emit(1)
  /\ UNCHANGED <<gauges, store, open, reserved, circuit>>

ListenerClosed(l) ==
  /\ listener[l] \in {"binding", "listening", "closing"}
  /\ listener' = [listener EXCEPT ![l] = "closed"]
  /\ ready_listeners' = ready_listeners \ {l}
  /\ set_listeners_ready(Cardinality(ready_listeners'))
  /\ UNCHANGED <<gauges, store, queue, open, reserved, circuit, requests>>

ConnectionEstablished(c) ==
  /\ open[c] = "new"
  /\ open' = [open EXCEPT ![c] = "open"]
  /\ connections' = connections + 1
  /\ UNCHANGED <<readiness, reservations, circuits, discovery_registrations,
                 ready_listeners, store, queue, listener, reserved, circuit,
                 requests>>

\* The relay reports a reservation of the connection on its own, before or
\* after this event.
ConnectionClosed(c) ==
  /\ open[c] = "open"
  /\ open' = [open EXCEPT ![c] = "closed"]
  /\ connections' = decrement(connections)
  /\ UNCHANGED <<readiness, reservations, circuits, discovery_registrations,
                 ready_listeners, store, queue, listener, reserved, circuit,
                 requests>>

reservation_accepted_always(renewed) == reservations' = reservations + 1

reservation_accepted(renewed) ==
  reservations' = IF renewed THEN reservations ELSE reservations + 1

ReservationReqAccepted(c) ==
  /\ open[c] = "open"
  /\ requests < MaxRequests
  /\ requests' = requests + 1
  /\ reserved' = reserved \cup {c}
  /\ reservation_accepted(c \in reserved)
  /\ emit(1)
  /\ UNCHANGED <<readiness, connections, circuits, discovery_registrations,
                 ready_listeners, store, listener, open, circuit>>

\* ReservationClosed or ReservationTimedOut.
ReservationEnds(c) ==
  /\ c \in reserved
  /\ reserved' = reserved \ {c}
  /\ reservations' = decrement(reservations)
  /\ emit(1)
  /\ UNCHANGED <<readiness, connections, circuits, discovery_registrations,
                 ready_listeners, store, listener, open, circuit, requests>>

CircuitReqAccepted(x) ==
  /\ circuit[x] = "new"
  /\ circuit' = [circuit EXCEPT ![x] = "open"]
  /\ circuits' = circuits + 1
  /\ emit(1)
  /\ UNCHANGED <<readiness, connections, reservations,
                 discovery_registrations, ready_listeners, store, listener,
                 open, reserved, requests>>

CircuitClosed(x) ==
  /\ circuit[x] = "open"
  /\ circuit' = [circuit EXCEPT ![x] = "closed"]
  /\ circuits' = decrement(circuits)
  /\ emit(1)
  /\ UNCHANGED <<readiness, connections, reservations,
                 discovery_registrations, ready_listeners, store, listener,
                 open, reserved, requests>>

\* ReservationReqDenied or CircuitReqDenied: counted and reported.
RequestDenied ==
  /\ requests < MaxRequests
  /\ requests' = requests + 1
  /\ emit(1)
  /\ UNCHANGED <<readiness, gauges, ready_listeners, store, listener, open,
                 reserved, circuit>>

\* What a request may leave in the store after the expiry.
Afterwards ==
  [Register |-> {Kept} \cup (IF Kept < Total THEN {Kept + 1} ELSE {}),
   Unregister |-> {Kept} \cup (IF Kept > 0 THEN {Kept - 1} ELSE {}),
   Discover |-> {Kept}]

\* A response that cannot be sent leaves the gauge as it was; an Unregister has
\* no response.
handle_discovery_event(kind) ==
  /\ requests < MaxRequests
  /\ requests' = requests + 1
  /\ registered' \in Afterwards[kind]
  /\ lapsed' = 0
  /\ emit(lapsed + 1)
  /\ \/ discovery_registrations' = registered'
     \/ kind # "Unregister" /\ UNCHANGED discovery_registrations
  /\ UNCHANGED <<readiness, connections, reservations, circuits,
                 ready_listeners, listener, open, reserved, circuit>>

\* The lifetime of a registration runs out.
Lapse ==
  /\ lapsed < registered
  /\ lapsed' = lapsed + 1
  /\ UNCHANGED <<task, node_result, cancelled, status, gauges,
                 ready_listeners, registered, queue, swarm, command>>
-----------------------------------------------------------------------------
(* run_server_config *)

node == <<task, node_result, status, gauges, ready_listeners, store, swarm>>

\* SIGTERM or Ctrl+C, or no handler for them could be installed.
Shutdown ==
  /\ main = "running"
  /\ cancelled' = TRUE
  /\ main' = "await_node"
  /\ result' \in {"ok", "Configuration"}
  /\ UNCHANGED <<node, queue, operations, operations_finished>>

ServerEnded ==
  /\ main = "running"
  /\ task = "ended"
  /\ main' = "stop_operations"
  /\ result' = node_result
  /\ UNCHANGED <<node, cancelled, queue, operations, operations_finished>>

\* Before it is cancelled the endpoint only ends when accept fails.
OperationsEnded ==
  /\ main = "running"
  /\ operations = "failed"
  /\ cancelled' = TRUE
  /\ main' = "await_node"
  /\ operations_finished' = TRUE
  /\ result' = "Operations"
  /\ UNCHANGED <<node, queue, operations>>

PrintEvent ==
  /\ main = "running"
  /\ queue > 0
  /\ queue' = queue - 1
  /\ UNCHANGED <<node, cancelled, command>>

NodeJoined ==
  /\ main = "await_node"
  /\ task = "ended"
  /\ main' = "stop_operations"
  /\ result' = IF result = "ok" THEN node_result ELSE result
  /\ UNCHANGED <<node, cancelled, queue, operations, operations_finished>>

Exit ==
  /\ main = "stop_operations"
  /\ operations \in {"stopped", "failed"}
  /\ main' = "exited"
  /\ result' = IF operations = "failed" /\ ~operations_finished
               THEN "Operations" ELSE result
  /\ UNCHANGED <<node, cancelled, queue, operations, operations_finished>>

(* OperationsServer::run *)

OperationsFails ==
  /\ operations = "serving"
  /\ operations' = "failed"
  /\ UNCHANGED <<node, cancelled, queue, main,
                 operations_finished, result>>

\* operations_cancel is cancelled when the first loop of the command is left.
OperationsStops ==
  /\ operations \in {"serving", "disabled"}
  /\ main = "stop_operations"
  /\ operations' = "stopped"
  /\ UNCHANGED <<node, cancelled, queue, main,
                 operations_finished, result>>
-----------------------------------------------------------------------------
\* One turn of the loop of serve or of drain.
handle_event ==
  /\ Serving
  /\ \/ RequestDenied
     \/ \E l \in Listeners : NewListenAddr(l) \/ ListenerClosed(l)
     \/ \E c \in Connections :
          \/ ConnectionEstablished(c) \/ ConnectionClosed(c)
          \/ ReservationReqAccepted(c) \/ ReservationEnds(c)
     \/ \E x \in Circuits : CircuitReqAccepted(x) \/ CircuitClosed(x)
     \/ \E kind \in {"Register", "Unregister", "Discover"} :
          handle_discovery_event(kind)
  /\ UNCHANGED <<task, node_result, cancelled, live, draining, command>>

ExpiryTick ==
  /\ Serving
  /\ expire_discovery
  /\ UNCHANGED <<task, node_result, cancelled, live, draining, command>>

CommandStep ==
  \/ Shutdown \/ ServerEnded \/ OperationsEnded \/ PrintEvent \/ NodeJoined
  \/ Exit

Next ==
  \/ Start \/ begin_drain \/ DrainEnds \/ ExpiryTick \/ handle_event
  \/ CommandStep \/ OperationsFails \/ OperationsStops \/ Lapse

\* The drain deadline passes, the runtime polls every task that can go on, and
\* select! picks among its ready branches at random; each of these steps is
\* taken once.  Nothing is assumed of peers, of the listeners or of the user.
Progress ==
  \/ Start \/ begin_drain \/ DrainEnds
  \/ ServerEnded \/ OperationsEnded \/ NodeJoined \/ Exit \/ OperationsStops

Spec == Init /\ [][Next]_vars /\ WF_vars(Progress)
-----------------------------------------------------------------------------
\* The gauges that events move up and down agree with the swarm at all times:
\* a renewed reservation is not counted twice, and no close is missed.
GaugesMatchSwarm ==
  /\ connections = Cardinality(Connected)
  /\ reservations = Cardinality(reserved)
  /\ circuits = Cardinality({x \in Circuits : circuit[x] = "open"})

\* A node that is told to stop ends, whatever its peers do, and the command
\* with it.
ShutdownCompletes == cancelled ~> main = "exited"
=============================================================================
