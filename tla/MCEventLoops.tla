---------------------------- MODULE MCEventLoops ----------------------------
(* The event loops of the client and of the node.  They share no state: in *)
(* each behaviour one of them runs, the subject, and the others stay in    *)
(* their initial states.                                                   *)
EXTENDS NetworkDriver

CONSTANTS q1, q2, c1, c2, c3, r1, r2, p1

VARIABLES
  subject,
  client_running, client_calls, client_commands, outbound, outbound_requests,
  task, node_result, cancelled, live, ready, draining, listeners_ready,
  connections, reservations, circuits, discovery_registrations,
  ready_listeners, registered, lapsed, queue, listener, open, reserved,
  circuit, requests, main, operations, operations_finished, result

\* The inbound side of the driver, with room for one event, is NetworkDriver
\* itself.
MCRequests == {q1, q2}
MCCalls == {c1, c2}
MCReplies == {r1, r2}

\* Three callers of its outbound side, and a queue of one command.
Client == INSTANCE NetworkCalls WITH
  Calls <- {c1, c2, c3}, Peers <- {p1}, CommandCapacity <- 1,
  running <- client_running, calls <- client_calls,
  commands <- client_commands, requests <- outbound_requests

\* A node with two listeners, two connections and a circuit.
Node == INSTANCE NodeServer WITH
  Listeners <- {"tcp", "quic"}, Connections <- {"a", "b"}, Circuits <- {"ab"},
  Total <- 1, EventCapacity <- 1, MaxRequests <- 2

ASSUME /\ NetworkDriverAssumption
       /\ Client!NetworkCallsAssumption /\ Node!NodeServerAssumption

client == <<client_running, client_calls, client_commands, outbound,
            outbound_requests>>
node == <<task, node_result, cancelled, live, ready, draining,
          listeners_ready, connections, reservations, circuits,
          discovery_registrations, ready_listeners, registered, lapsed, queue,
          listener, open, reserved, circuit, requests, main, operations,
          operations_finished, result>>
vars == <<subject, driverVars, client, node>>

LoopsInit ==
  /\ subject \in {"driver", "client", "node"}
  /\ DriverInit /\ Client!Init /\ Node!Init
  /\ operations = "disabled" => subject = "node"

DriverStep(A) == subject = "driver" /\ A /\ UNCHANGED <<subject, client, node>>
ClientStep(A) == subject = "client" /\ A /\ UNCHANGED <<subject, driverVars, node>>
NodeStep(A) == subject = "node" /\ A /\ UNCHANGED <<subject, driverVars, client>>

LoopsNext == DriverStep(Next) \/ ClientStep(Client!Next) \/ NodeStep(Node!Next)

\* What each specification is fair to.
LoopsProgress ==
  DriverStep(Progress) \/ ClientStep(Client!Progress) \/ NodeStep(Node!Progress)

LoopsSpec == LoopsInit /\ [][LoopsNext]_vars /\ WF_vars(LoopsProgress)
-----------------------------------------------------------------------------
\* NetworkCalls: of requests under way at once each caller gets the answer to
\* its own (NetworkClient::request).
RepliesAreTheirOwn == Client!RepliesAreTheirOwn

\* NetworkCalls: every call of the client returns, though the queue is full,
\* callers leave or the loop stops (NetworkClient::send).
CallsReturn == Client!CallsReturn

\* NodeServer: the gauges agree with the connections, reservations and
\* circuits of the swarm (server.rs handle_event).
GaugesMatchSwarm == Node!GaugesMatchSwarm

\* NodeServer: a cancelled node drains and both of its tasks end, whoever ends
\* first (main.rs run, server.rs run).
ShutdownCompletes == Node!ShutdownCompletes
=============================================================================
