------------------------------- MODULE Doctor -------------------------------
(***************************************************************************)
(* `envshare doctor` (crates/cli/src/commands/doctor.rs): one client and a *)
(* fresh probe per route, whose events of all phases pass through one      *)
(* bounded queue.                                                          *)
(*                                                                         *)
(* The swarms, relays and nodes are external.  They may be slow, so that   *)
(* an event of one phase is read in a later one, or fail.  Every wait has  *)
(* a time limit, which may pass at any moment.                             *)
(***************************************************************************)
EXTENDS Naturals, Sequences, FiniteSets

CONSTANTS
  Profiles,        \* rendezvous nodes, relays and require_relay
  EventCapacity,   \* event_capacity
  Direct           \* the local route, which is no relay

VARIABLES
  profile,
  phase,           \* where execute is
  via, probe,      \* check_route_connectivity: the route and the probe's identity
  connected, circuit,
  direct,          \* the outcome of each part of the diagnosis
  pending, reservations, listeners, circuits, registered, discovered,
  todo,            \* relays whose circuit is not yet checked
  events,          \* the client's event queue
  external,        \* swarm: external addresses, the body of a registration
  due,             \* swarm: events that the client's driver has yet to send
  told,            \* swarm: events of the probe not yet read
  asked,           \* requests on their way
  links, granted, accepted, answered,  \* external: what really happened
  mishap           \* something failed, was late or was lost

probing == <<via, probe, connected, circuit>>
findings == <<direct, pending, reservations, listeners, circuits, registered, discovered>>
truth == <<links, granted, accepted, answered>>
vars == <<profile, phase, probing, findings, todo, events, external, due, told, asked,
          truth, mishap>>

Event(kind, of) == [kind |-> kind, of |-> of]
Runtime(r) == <<"runtime", r>>     \* the route a relay listener reports

Init ==
  /\ profile \in Profiles
  /\ phase = "start"
  /\ via = Direct /\ probe = 0 /\ connected = FALSE /\ circuit = FALSE
  /\ direct = FALSE /\ pending = {} /\ reservations = {} /\ listeners = {} /\ circuits = {}
  /\ registered = {} /\ discovered = {}
  /\ todo = {} /\ events = <<>> /\ external = {} /\ due = {} /\ told = {} /\ asked = {}
  /\ links = {} /\ granted = {} /\ accepted = {} /\ answered = {}
  /\ mishap = FALSE
-----------------------------------------------------------------------------
recv == events # <<>> /\ events' = Tail(events)
Is(kind) == Head(events).kind = kind

Fail ==
  /\ phase' = "failed" /\ mishap' = TRUE
  /\ UNCHANGED <<profile, probing, findings, todo, events, external, due, told, asked, truth>>

\* The local checks, the profile, the client and its listen command.
Start ==
  /\ phase = "start"
  /\ \/ Fail
     \/ /\ phase' = IF profile.rendezvous = {} THEN "failed" ELSE "listener"
        /\ due' = {Event("Listening", Direct)}
        /\ UNCHANGED <<profile, probing, findings, todo, events, external, told, asked, truth,
                       mishap>>

wait_for_listener ==
  /\ phase = "listener"
  /\ \/ Fail
     \/ /\ recv
        /\ phase' = IF Is("Listening") THEN "probe" ELSE "listener"
        /\ UNCHANGED <<profile, probing, findings, todo, external, due, told, asked, truth, mishap>>
-----------------------------------------------------------------------------
(* check_route_connectivity(via) *)

\* The events that are about the probe of this check.
Mine_any(e) == TRUE
Mine(e) == e.of = probe

BeginProbe ==
  /\ phase = "probe"
  /\ probe' = probe + 1
  /\ connected' = FALSE /\ circuit' = (via = Direct)
  /\ phase' = "probing" /\ told' = {}
  /\ asked' = asked \cup {Event("dial", probe')}
  /\ UNCHANGED <<profile, via, findings, todo, events, external, due, truth, mishap>>

\* One event, of the client or of the probe.
Probe ==
  /\ phase = "probing" /\ ~(connected /\ circuit)
  /\ \/ /\ recv
        /\ connected' = (connected \/ (Is("Connected") /\ Mine(Head(events))))
        /\ circuit' = (circuit \/ (Is("InboundRelayCircuit") /\ Mine(Head(events))))
        /\ UNCHANGED told
     \/ \E e \in told :
          /\ told' = told \ {e}
          /\ connected' = (connected \/ e = Event("Connected", "client"))
          /\ circuit' = (circuit \/ e = Event("OutboundRelayCircuit", via))
          /\ UNCHANGED events
  /\ UNCHANGED <<profile, phase, via, probe, findings, todo, external, due, asked, truth, mishap>>

\* The probe is stopped; execute notes the outcome and goes on.  A relay route
\* is advertised whatever the outcome was.
EndProbe ==
  /\ phase = "probing"
  /\ LET result == connected /\ circuit      \* or the time limit passed
     IN /\ mishap' = (mishap \/ ~result)
        /\ direct' = IF via = Direct THEN result ELSE direct
        /\ circuits' = IF via # Direct /\ result THEN circuits \cup {via} ELSE circuits
  /\ external' = IF via = Direct THEN external ELSE external \cup {via}
  /\ phase' = IF via = Direct THEN "reserve" ELSE "relays"
  /\ asked' = {a \in asked : a.kind # "dial"} /\ told' = {}
  /\ UNCHANGED <<profile, probing, pending, reservations, listeners, registered, discovered,
                 todo, events, due, truth>>
-----------------------------------------------------------------------------
(* reserve_relays *)

ListenOnRelays ==
  /\ phase = "reserve"
  /\ pending' \in SUBSET profile.relays
  /\ mishap' = (mishap \/ pending' # profile.relays)
  /\ asked' = asked \cup {Event("reserve", r) : r \in pending'}
  /\ phase' = "reserving"
  /\ UNCHANGED <<profile, probing, direct, reservations, listeners, circuits, registered,
                 discovered, todo, events, external, due, told, truth>>

Reserved == reservations \cap listeners
ReserveDone_early == Cardinality(reservations) >= Cardinality(pending)
ReserveDone == Cardinality(Reserved) >= Cardinality(pending)

reserve_relays ==
  /\ phase = "reserving" /\ ~ReserveDone
  /\ recv
  /\ reservations' = reservations \cup IF Is("RelayReservation") THEN {Head(events).of} \cap pending ELSE {}
  /\ listeners' = listeners \cup IF Is("Listening") THEN {Head(events).of} \cap pending ELSE {}
  /\ UNCHANGED <<profile, phase, probing, direct, pending, circuits, registered, discovered,
                 todo, external, due, told, asked, truth, mishap>>

RelaysReserved ==
  /\ phase = "reserving"
  /\ mishap' = (mishap \/ ~ReserveDone)
  /\ external' = external \ {Runtime(r) : r \in Reserved}
  /\ todo' = Reserved
  /\ phase' = "relays"
  /\ UNCHANGED <<profile, probing, findings, events, due, told, asked, truth>>

\* The loop over the reserved relays, and what follows it: the registration.
\* Without an external address there is nothing to register.
NextRelay ==
  /\ phase = "relays"
  /\ \/ \E r \in todo :
          /\ via' = r /\ todo' = todo \ {r} /\ phase' = "probe"
          /\ UNCHANGED asked
     \/ /\ todo = {}
        /\ phase' = "registering"
        /\ asked' = asked \cup {Event("register", n) :
                                  n \in IF external = {} THEN {} ELSE profile.rendezvous}
        /\ UNCHANGED <<via, todo>>
  /\ UNCHANGED <<profile, probe, connected, circuit, findings, events, external, due, told, truth,
                 mishap>>
-----------------------------------------------------------------------------
collect_registration_results ==
  /\ phase = "registering" /\ Cardinality(registered) < Cardinality(profile.rendezvous)
  /\ recv
  /\ registered' = IF Is("DiscoveryRegistered") THEN registered \cup {Head(events).of} ELSE registered
  /\ UNCHANGED <<profile, phase, probing, direct, pending, reservations, listeners, circuits,
                 discovered, todo, external, due, told, asked, truth, mishap>>

\* That wait ends, and the queries are dispatched.  With no registration under
\* way it always lasts to its limit.
Registered ==
  /\ phase = "registering"
  /\ mishap' = (mishap \/ (external # {} /\ registered # profile.rendezvous))
  /\ asked' = asked \cup {Event("discover", n) : n \in profile.rendezvous}
  /\ phase' = "discovering"
  /\ UNCHANGED <<profile, probing, findings, todo, events, external, due, told, truth>>

collect_discovery_results ==
  /\ phase = "discovering" /\ Cardinality(discovered) < Cardinality(profile.rendezvous)
  /\ recv
  /\ discovered' = IF Is("DiscoveryResults") THEN discovered \cup {Head(events).of} ELSE discovered
  /\ UNCHANGED <<profile, phase, probing, direct, pending, reservations, listeners, circuits,
                 registered, todo, external, due, told, asked, truth, mishap>>

relay_ok ==
  profile.require_relay => Reserved = profile.relays /\ circuits = profile.relays

\* The wait ends; dispatch_unregistration, stop and the result.
Finish ==
  /\ phase = "discovering"
  /\ mishap' = (mishap \/ discovered # profile.rendezvous)
  /\ phase' = IF /\ direct
                 /\ Cardinality(registered) = Cardinality(profile.rendezvous)
                 /\ Cardinality(discovered) = Cardinality(profile.rendezvous)
                 /\ relay_ok
                THEN "success" ELSE "failed"
  /\ UNCHANGED <<profile, probing, findings, todo, events, external, due, told, asked, truth>>
\* add_discovery_address or stop fails.
ClientFails ==
  /\ phase = "discovering" \/ (phase = "probing" /\ via # Direct)
  /\ Fail
-----------------------------------------------------------------------------
(* External *)

Running == phase \notin {"start", "success", "failed"}

\* try_send: a full queue drops the event.
Emit ==
  /\ Running
  /\ \E e \in due :
       /\ due' = due \ {e}
       /\ IF Len(events) < EventCapacity
            THEN events' = Append(events, e) /\ UNCHANGED mishap
            ELSE mishap' = TRUE /\ UNCHANGED events
  /\ UNCHANGED <<profile, phase, probing, findings, todo, external, told, asked, truth>>

\* A request is carried out, or fails.
Serve ==
  /\ Running
  /\ \E a \in asked :
       /\ asked' = asked \ {a}
       /\ \/ /\ a.kind = "dial"
             /\ links' = links \cup {<<a.of, via>>}
             /\ due' = due \cup {Event("Connected", a.of)} \cup
                         IF via = Direct THEN {} ELSE {Event("InboundRelayCircuit", a.of)}
             /\ told' = {Event("Connected", "client")} \cup
                          IF via = Direct THEN {}
                          ELSE {Event("Connected", via), Event("OutboundRelayCircuit", via)}
             /\ UNCHANGED <<granted, accepted, answered, external, mishap>>
          \/ /\ a.kind = "reserve"
             /\ granted' = granted \cup {a.of}
             /\ external' = external \cup {Runtime(a.of)}
             /\ due' = due \cup {Event("RelayReservation", a.of), Event("Listening", a.of)}
             /\ UNCHANGED <<links, accepted, answered, told, mishap>>
          \/ /\ a.kind = "register"
             /\ accepted' = accepted \cup {a.of}
             /\ due' = due \cup {Event("DiscoveryRegistered", a.of)}
             /\ UNCHANGED <<links, granted, answered, told, external, mishap>>
          \/ /\ a.kind = "discover"
             /\ answered' = answered \cup {a.of}
             /\ due' = due \cup {Event("DiscoveryResults", a.of)}
             /\ UNCHANGED <<links, granted, accepted, told, external, mishap>>
          \/ mishap' = TRUE /\ UNCHANGED <<truth, due, told, external>>
  /\ UNCHANGED <<profile, phase, probing, findings, todo, events>>

Next ==
  \/ Start \/ wait_for_listener \/ BeginProbe \/ Probe \/ EndProbe
  \/ ListenOnRelays \/ reserve_relays \/ RelaysReserved \/ NextRelay
  \/ collect_registration_results \/ Registered \/ collect_discovery_results \/ Finish
  \/ ClientFails
  \/ Emit \/ Serve

Spec == Init /\ [][Next]_vars
-----------------------------------------------------------------------------
\* What doctor reports of each relay and node is what happened with that one,
\* though events of earlier probes and phases are read late; and it succeeds
\* only if all of it did.
DoctorIsTruthful ==
  /\ direct => \E l \in links : l[2] = Direct
  /\ Reserved \subseteq granted /\ registered \subseteq accepted /\ discovered \subseteq answered
  /\ \A r \in circuits : \E l \in links : l[2] = r
  /\ phase = "success" =>
       /\ direct /\ accepted = profile.rendezvous /\ answered = profile.rendezvous
       /\ profile.require_relay => \A r \in profile.relays : \E l \in links : l[2] = r

\* No phase swallows an event that a later one waits for: on a network with
\* nodes and relays, doctor fails only if something failed, was late or was
\* lost.  (Without a relay no address is registered, and doctor fails.)
DoctorBlamesFairly ==
  phase = "failed" /\ profile.rendezvous # {} /\ profile.relays # {} => mishap
=============================================================================
