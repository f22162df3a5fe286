------------------------- MODULE ReachabilityProofs -------------------------
(***************************************************************************)
(* Reachability for any nodes, relays and options and any lifetimes and    *)
(* delays that leave room for the waits: the addresses that are published, *)
(* the listing behind a printed code, its renewal and its withdrawal.      *)
(*                                                                         *)
(* A leaf without arithmetic names Zenon, which does it at once.           *)
(***************************************************************************)
EXTENDS Reachability, TLAPS

Addresses == {Direct} \cup Relays \cup {Runtime(r) : r \in Relays}
Records == SUBSET Addresses
EventKinds == {"Listening", "RelayReservation", "Connected",
               "DiscoveryRegistered", "DiscoveryFailed"}
Events == [kind : EventKinds, of : Addresses \cup Nodes]

TypeOK ==
  /\ options \in Options
  /\ phase \in Starting \cup {"serving", "stopping", "stopped", "failed"}
  /\ advertised \subseteq {Direct} \cup Relays
  /\ pending \subseteq Relays
  /\ listeners \subseteq Relays /\ reservations \subseteq Relays
  /\ todo \subseteq Federated
  /\ age \in Nat /\ timer \in Nat /\ renew \in Nat
  /\ task \in {"none", "register", "sleep", "unregister"}
  /\ cancelled \in BOOLEAN
  /\ events \in Seq(Events)
  /\ external \in Records
  /\ wire \in [Nodes -> Seq(Records)]
  /\ lag \in [Nodes -> Nat]
  /\ store \in [Nodes -> [left : Nat, addresses : Records]]
  /\ withdrawn \subseteq Nodes
  /\ faults \subseteq Nodes \X {"lost", "restart"}

\* Where `send` is and what its registration task does.
Control ==
  /\ cancelled <=> phase \in {"stopping", "stopped"}
  /\ task # "none" => phase \in {"serving", "stopping"}
  /\ task = "unregister" => phase = "stopping"
  /\ task = "sleep" => todo = {} /\ renew <= renewal_delay(Ttl)
  /\ phase = "register" \/ task = "register" => age <= MaxDelay
  /\ phase = "serving" /\ task = "none" => options.nodes = <<>>
  /\ phase \in {"register", "wait"} => options.nodes # <<>>

\* Nothing is sent before the addresses are announced.
Early == {"start", "listener", "relays", "reserve", "announce"}

Quiet ==
  /\ phase \in Early =>
       /\ todo = {}
       /\ \A n \in Nodes : wire[n] = <<>> /\ store[n].left = 0
       /\ \A i \in 1..Len(events) : events[i].kind # "DiscoveryRegistered"
  /\ \A n \in Nodes :
       /\ wire[n] # <<>> \/ store[n].left > 0 => n \in Federated
       /\ wire[n] = <<>> /\ phase # "stopped" => lag[n] = 0
-----------------------------------------------------------------------------
\* What start_reachable_network may publish.
Private(o, record) ==
  Direct \in record => ~o.relay_only /\ record \cap Canonical = {}

Privacy ==
  /\ phase \in {"start", "listener"} =>
       /\ pending = {}
       /\ \A i \in 1..Len(events) :
            events[i].kind = "Listening" => events[i].of = Direct
  /\ phase = "listener" => ~options.relay_only
  /\ Direct \in advertised => ~options.relay_only
  /\ phase \in Early \ {"announce"} => advertised \subseteq {Direct}
  /\ phase = "announce" /\ options.nodes # <<>> => Private(options, advertised)
  /\ phase \in Early => external \cap ({Direct} \cup Relays) = {}
  /\ Private(options, external)
  /\ \A n \in Nodes :
       /\ Private(options, store[n].addresses)
       /\ \A i \in 1..Len(wire[n]) : Private(options, wire[n][i])

\* An unregister message is the last thing a node hears.
Gone ==
  /\ \A n \in Nodes :
       /\ \A i \in 1..Len(wire[n]) : wire[n][i] = {} =>
            /\ task = "unregister" \/ phase = "stopped"
            /\ \A j \in i..Len(wire[n]) : wire[n][j] = {}
       /\ n \in withdrawn =>
            /\ task = "unregister" \/ phase = "stopped"
            /\ store[n] = Absent
            /\ \A i \in 1..Len(wire[n]) : wire[n][i] = {}
-----------------------------------------------------------------------------
Registering == phase \in {"register", "wait"}

\* Ticks since the first dispatch began, at most.
Spent == IF phase = "register" THEN age ELSE MaxDelay + (WaitTicks - timer)

\* The first round: a node is told once, under all that is advertised, and
\* lists the share for as long as the wait takes.
FirstRound ==
  Registering =>
    /\ timer <= WaitTicks \/ phase = "register"
    /\ advertised \subseteq external
    /\ \A n \in Nodes :
         /\ n \in todo => wire[n] = <<>> /\ store[n].left = 0
         /\ wire[n] # <<>> =>
              /\ Len(wire[n]) = 1
              /\ store[n].left = 0
              /\ advertised \subseteq wire[n][1]
         /\ store[n].left > 0 =>
              /\ store[n].left + Spent >= Ttl
              /\ advertised \subseteq store[n].addresses
    /\ \A i \in 1..Len(events) : events[i].kind = "DiscoveryRegistered" =>
         /\ events[i].of \in Nodes
         /\ \/ <<events[i].of, "restart">> \in faults
            \/ store[events[i].of].left > 0

Answers(f, n) == \A fault \in f : fault[1] # n

\* The listing outlives what is still to happen before the next message
\* arrives: its delivery; its dispatch and delivery; or first the rest of this
\* round and the sleep.
Fresh(n) ==
  IF wire[n] # <<>> THEN store[n].left + lag[n] > MaxDelay
  ELSE IF task = "sleep" THEN store[n].left > renew + 2 * MaxDelay
  ELSE IF n \in todo THEN store[n].left + age > 2 * MaxDelay
  ELSE store[n].left + age > 3 * MaxDelay + renewal_delay(Ttl)

Renewed ==
  phase = "serving" =>
    \A n \in Nodes : store[n].left > 0 /\ Answers(faults, n) => Fresh(n)

IInv ==
  TypeOK /\ Control /\ Quiet /\ Privacy /\ Gone /\ FirstRound /\ Renewed

-----------------------------------------------------------------------------
(* Facts about the operators. *)

\* Only configured nodes are told, and none when none is configured.
LEMMA FederatedNodes ==
  ASSUME options \in Options
  PROVE  /\ Federated \subseteq Nodes
         /\ options.nodes = <<>> => Federated = {}
<1>1. options.nodes \in Seq(Nodes)
  BY ReachabilityAssumption, Zenon
<1> QED
  BY <1>1 DEF Federated

\* The lifetime leaves room for the wait and for a renewal.
LEMMA Room ==
  /\ renewal_delay(Ttl) \in Nat
  /\ renewal_delay(Ttl) + 3 * MaxDelay < Ttl
  /\ WaitTicks + 3 * MaxDelay < Ttl
  /\ MaxDelay \in Nat /\ WaitTicks \in Nat /\ Ttl \in Nat
<1>1. /\ MaxDelay \in Nat /\ WaitTicks \in Nat \ {0} /\ Ttl \in Nat
      /\ WaitTicks + 3 * MaxDelay < Ttl
      /\ (Ttl * 2) \div 3 + 3 * MaxDelay < Ttl
  BY ReachabilityAssumption, LifetimeAssumption
<1>2. (Ttl * 2) \div 3 \in Nat
  BY <1>1
<1>3. 1 + 3 * MaxDelay < Ttl
  BY <1>1
<1> QED
  BY <1>1, <1>2, <1>3, Zenon DEF renewal_delay

\* The addresses are of three different kinds.
LEMMA Kinds ==
  /\ Direct \notin Relays
  /\ \A r \in Relays : /\ Runtime(r) \in Addresses /\ r \in Addresses
                       /\ Runtime(r) # Direct /\ Runtime(r) \notin Relays
  /\ Direct \in Addresses
<1>1. \A r \in Relays : Runtime(r) # Direct
  BY Zenon DEF Runtime, Direct
<1> QED
  BY <1>1, ReachabilityAssumption, Zenon DEF Addresses

\* A queue after try_send.
LEMMA EventSent ==
  ASSUME TypeOK, NEW kind \in EventKinds, NEW of \in Addresses \cup Nodes,
         try_send(kind, of)
  PROVE  /\ events' \in Seq(Events)
         /\ \A i \in 1..Len(events') :
              \/ i \in 1..Len(events) /\ events'[i] = events[i]
              \/ phase \in Starting /\ events'[i] = [kind |-> kind, of |-> of]
<1> DEFINE e == [kind |-> kind, of |-> of]
<1>1. e \in Events /\ events \in Seq(Events)
  BY Zenon DEF Events, TypeOK
<1>2. CASE phase \in Starting /\ events' = Append(events, e)
  <2> HIDE DEF e
  <2>1. /\ events' \in Seq(Events)
        /\ \A i \in 1..Len(events') :
             \/ i \in 1..Len(events) /\ events'[i] = events[i]
             \/ phase \in Starting /\ events'[i] = e
    BY <1>1, <1>2
  <2> QED
    BY <2>1, Zenon DEF e
<1>3. CASE events' = events
  BY <1>1, <1>3, Zenon
<1> QED
  BY <1>2, <1>3, Zenon DEF try_send

\* A queue after recv.
LEMMA EventTaken ==
  ASSUME TypeOK, recv
  PROVE  /\ events' \in Seq(Events)
         /\ Head(events) = events[1] /\ 1 \in 1..Len(events)
         /\ events[1] \in Events
         /\ \A i \in 1..Len(events') :
              i + 1 \in 1..Len(events) /\ events'[i] = events[i + 1]
  BY DEF TypeOK, recv

\* The messages to a node after one more.
LEMMA Appended ==
  ASSUME NEW w, w \in [Nodes -> Seq(Records)], NEW n \in Nodes, NEW r \in Records,
         NEW v, v = [w EXCEPT ![n] = Append(@, r)]
  PROVE  /\ v \in [Nodes -> Seq(Records)]
         /\ Len(v[n]) = Len(w[n]) + 1 /\ v[n][Len(w[n]) + 1] = r /\ v[n] # <<>>
         /\ \A i \in 1..Len(w[n]) : v[n][i] = w[n][i]
         /\ \A m \in Nodes \ {n} : v[m] = w[m]
  OBVIOUS

\* The messages to a node after it took one.
LEMMA Taken ==
  ASSUME NEW w, w \in [Nodes -> Seq(Records)], NEW n \in Nodes, w[n] # <<>>,
         NEW v, v = [w EXCEPT ![n] = Tail(@)]
  PROVE  /\ v \in [Nodes -> Seq(Records)]
         /\ Len(w[n]) \in Nat \ {0} /\ Len(v[n]) = Len(w[n]) - 1
         /\ Head(w[n]) = w[n][1] /\ w[n][1] \in Records
         /\ \A i \in 1..Len(v[n]) : v[n][i] = w[n][i + 1]
         /\ \A m \in Nodes \ {n} : v[m] = w[m]
  OBVIOUS

-----------------------------------------------------------------------------
(* The start of `send`, until the addresses are announced. *)

\* start_reachable_network up to its listen command.
LEMMA StartListeningIInv ==
  ASSUME IInv, StartListening
  PROVE  IInv'
<1> USE DEF IInv
<1>1. phase = "start" /\ phase' \in {"relays", "listener", "failed"}
      /\ (phase' = "listener" => ~options.relay_only)
      /\ UNCHANGED <<options, cli, rounds, timer, upkeep, events, external, peers>>
  BY Zenon DEF StartListening
<1>2. UNCHANGED <<advertised, pending, reservations, listeners, todo, age, task,
                  renew, cancelled, wire, lag, store, withdrawn, faults>>
  BY <1>1, Zenon DEF cli, rounds, upkeep, peers
<1>3. Federated' = Federated
  BY <1>1, Zenon DEF Federated
<1>4. TypeOK'
  BY <1>1, <1>2, <1>3, Zenon DEF TypeOK, Starting
<1>5. Control'
  BY <1>1, <1>2, Zenon DEF Control
<1>6. Quiet'
  BY <1>1, <1>2, <1>3, Zenon DEF Quiet, Early
<1>7. Privacy'
  BY <1>1, <1>2, Zenon DEF Privacy, Early
<1>8. Gone'
  BY <1>1, <1>2, Zenon DEF Gone
<1>9. FirstRound' /\ Renewed'
  BY <1>1, <1>2, Zenon DEF FirstRound, Registering, Renewed
<1> QED
  BY <1>4, <1>5, <1>6, <1>7, <1>8, <1>9, Zenon

\* wait_for_listener takes the direct listener or swallows the event.
LEMMA WaitForListenerIInv ==
  ASSUME IInv, wait_for_listener
  PROVE  IInv'
<1> USE DEF IInv
<1>1. /\ phase = "listener" /\ recv
      /\ \/ /\ events[1].kind = "Listening"
            /\ advertised' = {events[1].of} /\ phase' = "relays"
         \/ UNCHANGED <<advertised, phase>>
      /\ UNCHANGED <<options, pending, reservations, listeners, rounds, timer,
                     upkeep, external, peers>>
  BY EventTaken, Zenon DEF wait_for_listener, Received
<1>2. UNCHANGED <<todo, age, task, renew, cancelled, wire, lag, store,
                  withdrawn, faults>>
  BY <1>1, Zenon DEF rounds, upkeep, peers
<1>3. Federated' = Federated
  BY <1>1, Zenon DEF Federated
<1>4. /\ events' \in Seq(Events) /\ 1 \in 1..Len(events) /\ events[1] \in Events
      /\ \A i \in 1..Len(events') :
           i + 1 \in 1..Len(events) /\ events'[i] = events[i + 1]
  BY <1>1, EventTaken, Zenon
<1>5. advertised' \subseteq {Direct} /\ ~options.relay_only
  BY <1>1, <1>4, Zenon DEF Privacy, Early
<1>6. TypeOK'
  BY <1>1, <1>2, <1>3, <1>4, <1>5, Zenon DEF TypeOK, Starting
<1>7. Control'
  BY <1>1, <1>2, Zenon DEF Control
<1>8. Quiet'
  BY <1>1, <1>2, <1>3, <1>4, Zenon DEF Quiet, Early
<1>9. Privacy'
  BY <1>1, <1>2, <1>4, <1>5 DEF Privacy, Early
<1>10. Gone'
  BY <1>1, <1>2, Zenon DEF Gone
<1>11. FirstRound' /\ Renewed'
  BY <1>1, <1>2, Zenon DEF FirstRound, Registering, Renewed
<1> QED
  BY <1>6, <1>7, <1>8, <1>9, <1>10, <1>11, Zenon

\* reserve_relays asks the relays.
LEMMA ListenOnRelaysIInv ==
  ASSUME IInv, ListenOnRelays
  PROVE  IInv'
<1> USE DEF IInv
<1>1. /\ phase = "relays" /\ phase' = "reserve" /\ pending' \subseteq Relays
      /\ timer' \in Nat
      /\ UNCHANGED <<options, advertised, reservations, listeners, rounds,
                     upkeep, events, external, peers>>
  <2>1. options.relays \subseteq Relays
    BY ReachabilityAssumption, Zenon DEF TypeOK
  <2> QED
    BY <2>1, ReachabilityAssumption, Zenon DEF ListenOnRelays
<1>2. UNCHANGED <<todo, age, task, renew, cancelled, wire, lag, store,
                  withdrawn, faults>>
  BY <1>1, Zenon DEF rounds, upkeep, peers
<1>3. Federated' = Federated
  BY <1>1, Zenon DEF Federated
<1>4. TypeOK'
  BY <1>1, <1>2, <1>3, Zenon DEF TypeOK, Starting
<1>5. Control'
  BY <1>1, <1>2, Zenon DEF Control
<1>6. Quiet'
  BY <1>1, <1>2, <1>3, Zenon DEF Quiet, Early
<1>7. Privacy'
  BY <1>1, <1>2, Zenon DEF Privacy, Early
<1>8. Gone'
  BY <1>1, <1>2, Zenon DEF Gone
<1>9. FirstRound' /\ Renewed'
  BY <1>1, <1>2, Zenon DEF FirstRound, Registering, Renewed
<1> QED
  BY <1>4, <1>5, <1>6, <1>7, <1>8, <1>9, Zenon

\* reserve_relays takes an event.
LEMMA ReserveRelaysIInv ==
  ASSUME IInv, reserve_relays
  PROVE  IInv'
<1> USE DEF IInv
<1>1. /\ phase = "reserve" /\ recv
      /\ reservations' \subseteq Relays /\ listeners' \subseteq Relays
      /\ UNCHANGED <<options, phase, advertised, pending, rounds, timer, upkeep,
                     external, peers>>
  BY Zenon DEF reserve_relays, TypeOK
<1>2. UNCHANGED <<todo, age, task, renew, cancelled, wire, lag, store,
                  withdrawn, faults>>
  BY <1>1, Zenon DEF rounds, upkeep, peers
<1>3. Federated' = Federated
  BY <1>1, Zenon DEF Federated
<1>4. /\ events' \in Seq(Events)
      /\ \A i \in 1..Len(events') :
           i + 1 \in 1..Len(events) /\ events'[i] = events[i + 1]
  BY <1>1, EventTaken, Zenon
<1>5. TypeOK'
  BY <1>1, <1>2, <1>3, <1>4, Zenon DEF TypeOK
<1>6. Control'
  BY <1>1, <1>2, Zenon DEF Control
<1>7. Quiet'
  BY <1>1, <1>2, <1>3, <1>4, Zenon DEF Quiet, Early
<1>8. Privacy'
  BY <1>1, <1>2, Zenon DEF Privacy, Early
<1>9. Gone'
  BY <1>1, <1>2, Zenon DEF Gone
<1>10. FirstRound' /\ Renewed'
  BY <1>1, <1>2, Zenon DEF FirstRound, Registering, Renewed
<1> QED
  BY <1>5, <1>6, <1>7, <1>8, <1>9, <1>10, Zenon

\* start_reachable_network chooses what is advertised.
LEMMA RelaysReservedIInv ==
  ASSUME IInv, RelaysReserved
  PROVE  IInv'
<1> USE DEF IInv
<1> DEFINE routes == listeners \cap reservations
<1>1. /\ phase = "reserve" /\ phase' \in {"announce", "failed"}
      /\ external' = external \ {Runtime(r) : r \in routes}
      /\ advertised' = Advertise(routes)
      /\ UNCHANGED <<options, pending, reservations, listeners, rounds, timer,
                     upkeep, events, peers>>
  BY Zenon DEF RelaysReserved, Fail
<1>2. UNCHANGED <<todo, age, task, renew, cancelled, wire, lag, store,
                  withdrawn, faults>>
  BY <1>1, Zenon DEF rounds, upkeep, peers
<1>3. Federated' = Federated
  BY <1>1, Zenon DEF Federated
<1>4. /\ advertised \subseteq {Direct} /\ routes \subseteq Relays
      /\ Direct \notin Relays
      /\ Direct \in advertised => ~options.relay_only
  BY <1>1, Kinds, Zenon DEF Privacy, Early, TypeOK
<1>5. /\ advertised' \subseteq {Direct} \cup Relays
      /\ Direct \in advertised' => ~options.relay_only
      /\ options.nodes # <<>> => Private(options, advertised')
  BY <1>1, <1>4, Zenon DEF Advertise, Private, Canonical
<1>6. external' \subseteq external
  BY <1>1, Zenon
<1>7. TypeOK'
  BY <1>1, <1>2, <1>3, <1>5, <1>6, Zenon DEF TypeOK, Starting, Records
<1>8. Control'
  BY <1>1, <1>2, Zenon DEF Control
<1>9. Quiet'
  BY <1>1, <1>2, <1>3, Zenon DEF Quiet, Early
<1>10. Privacy'
  <2>1. external' \cap ({Direct} \cup Relays) = {} /\ Private(options, external')
    BY <1>1, <1>6, Zenon DEF Privacy, Early, Private
  <2> QED
    BY <1>1, <1>2, <1>5, <2>1, Zenon DEF Privacy, Early
<1>11. Gone'
  BY <1>1, <1>2, Zenon DEF Gone
<1>12. FirstRound' /\ Renewed'
  BY <1>1, <1>2, Zenon DEF FirstRound, Registering, Renewed
<1> QED
  BY <1>7, <1>8, <1>9, <1>10, <1>11, <1>12, Zenon

-----------------------------------------------------------------------------
(* The first registration. *)

\* establish_public_reachability announces the addresses and begins a round.
LEMMA AnnounceIInv ==
  ASSUME IInv, Announce
  PROVE  IInv'
<1> USE DEF IInv
<1>1. /\ phase = "announce"
      /\ UNCHANGED <<options, cli, timer, upkeep, events, peers>>
      /\ \/ /\ options.nodes = <<>> /\ phase' = "serving"
            /\ UNCHANGED <<rounds, external>>
         \/ /\ options.nodes # <<>> /\ phase' = "register"
            /\ external' = external \cup advertised
            /\ todo' = Federated /\ age' = 0
  BY Zenon DEF Announce, BeginRound
<1>2. UNCHANGED <<advertised, pending, reservations, listeners, task, renew,
                  cancelled, wire, lag, store, withdrawn, faults>>
  BY <1>1, Zenon DEF cli, upkeep, peers
<1>3. Federated' = Federated
  BY <1>1, Zenon DEF Federated
<1>4. todo' \subseteq Federated /\ age' \in Nat
  BY <1>1 DEF rounds, TypeOK
<1>5. /\ \A n \in Nodes : wire[n] = <<>> /\ store[n].left = 0
      /\ \A i \in 1..Len(events) : events[i].kind # "DiscoveryRegistered"
      /\ task = "none"
  BY <1>1, Zenon DEF Quiet, Early, Control
<1>6. /\ external' \subseteq Addresses
      /\ Private(options, external')
      /\ phase' = "register" => advertised \subseteq external'
  <2>1. /\ external \subseteq Addresses /\ advertised \subseteq Addresses
        /\ external \cap ({Direct} \cup Relays) = {}
        /\ Private(options, external)
        /\ options.nodes # <<>> => Private(options, advertised)
    BY <1>1, Zenon DEF TypeOK, Records, Addresses, Privacy, Early
  <2> QED
    BY <1>1, <2>1, Zenon DEF Private, Canonical
<1>7. TypeOK'
  BY <1>1, <1>2, <1>3, <1>4, <1>6, Zenon DEF TypeOK, Starting, Records
<1>8. Control'
  BY <1>1, <1>2, <1>5, Room DEF Control
<1>9. Quiet'
  BY <1>1, <1>2, <1>3, <1>5, Zenon DEF Quiet, Early
<1>10. Privacy'
  BY <1>1, <1>2, <1>6, Zenon DEF Privacy, Early
<1>11. Gone'
  BY <1>1, <1>2, <1>5, Zenon DEF Gone
<1>12. FirstRound'
  BY <1>1, <1>2, <1>5, <1>6 DEF FirstRound, Registering
<1>13. Renewed'
  BY <1>1, <1>2, <1>5 DEF Renewed
<1> QED
  BY <1>7, <1>8, <1>9, <1>10, <1>11, <1>12, <1>13, Zenon

\* provider.register(n), in the first round or in one of the task.
LEMMA RegisterIInv ==
  ASSUME IInv, NEW n \in Nodes, register(n)
  PROVE  IInv'
<1> USE DEF IInv
<1>1. /\ n \in todo /\ (phase = "register" \/ task = "register")
      /\ todo' = todo \ {n}
      /\ \/ wire' = [wire EXCEPT ![n] = Append(@, external)] /\ external # {}
            /\ UNCHANGED faults
         \/ faults' = faults \cup {<<n, "lost">>} /\ UNCHANGED wire
      /\ UNCHANGED <<options, phase, cli, age, timer, upkeep, events, external,
                     lag, store, withdrawn>>
  BY Zenon DEF register
<1>2. UNCHANGED <<advertised, pending, reservations, listeners, task, renew,
                  cancelled>>
  BY <1>1, Zenon DEF cli, upkeep
<1>3. Federated' = Federated
  BY <1>1, Zenon DEF Federated
<1>4. /\ phase \notin Early /\ phase # "stopped" /\ task # "unregister"
      /\ phase \in {"start", "listener"} => FALSE
      /\ n \in Federated
  BY <1>1, Zenon DEF Control, Early, TypeOK
<1>5. /\ wire \in [Nodes -> Seq(Records)] /\ external \in Records
      /\ faults \subseteq Nodes \X {"lost", "restart"}
  BY Zenon DEF TypeOK
<1>6. /\ wire' \in [Nodes -> Seq(Records)]
      /\ \A m \in Nodes \ {n} : wire'[m] = wire[m]
      /\ \A i \in 1..Len(wire'[n]) :
           \/ i \in 1..Len(wire[n]) /\ wire'[n][i] = wire[n][i]
           \/ i = Len(wire[n]) + 1 /\ wire'[n][i] = external /\ external # {}
      /\ \/ wire'[n] # <<>> /\ Len(wire'[n]) = Len(wire[n]) + 1
            /\ UNCHANGED faults
         \/ UNCHANGED wire /\ faults' = faults \cup {<<n, "lost">>}
  <2>1. CASE wire' = [wire EXCEPT ![n] = Append(@, external)] /\ external # {}
             /\ UNCHANGED faults
    BY <1>5, <2>1, Appended
  <2>2. CASE UNCHANGED wire /\ faults' = faults \cup {<<n, "lost">>}
    BY <1>5, <2>2, Zenon
  <2> QED
    BY <1>1, <2>1, <2>2, Zenon
<1>7. TypeOK'
  BY <1>1, <1>2, <1>3, <1>5, <1>6 DEF TypeOK
<1>8. Control'
  BY <1>1, <1>2, Zenon DEF Control
<1>9. Quiet'
  BY <1>1, <1>2, <1>3, <1>4, <1>6, Zenon DEF Quiet
<1>10. Privacy'
  <2>1. \A m \in Nodes : \A i \in 1..Len(wire'[m]) : Private(options, wire'[m][i])
    BY <1>6, Zenon DEF Privacy
  <2> QED
    BY <1>1, <1>2, <1>4, <2>1, Zenon DEF Privacy, Early
<1>11. Gone'
  <2>1. /\ \A m \in Nodes : \A i \in 1..Len(wire[m]) : wire[m][i] # {}
        /\ \A m \in Nodes : m \notin withdrawn
    BY <1>4, Zenon DEF Gone
  <2>2. \A m \in Nodes : \A i \in 1..Len(wire'[m]) : wire'[m][i] # {}
    BY <1>6, <2>1, Zenon
  <2> QED
    BY <1>1, <2>1, <2>2, Zenon DEF Gone
<1>12. FirstRound'
  <2> SUFFICES ASSUME Registering
               PROVE  FirstRound'
    BY <1>1, Zenon DEF FirstRound, Registering
  <2>1. phase = "register"
    BY <1>1, Zenon DEF Registering, Control
  <2>2. Spent' = Spent
    BY <1>1, Zenon DEF Spent
  <2>3. wire[n] = <<>> /\ store[n].left = 0 /\ Len(wire[n]) = 0
    BY <1>1, <1>5 DEF FirstRound
  <2>4. \A m \in Nodes :
          wire'[m] # <<>> =>
            /\ Len(wire'[m]) = 1
            /\ store[m].left = 0
            /\ advertised \subseteq wire'[m][1]
    <3>1. advertised \subseteq external
      BY Zenon DEF FirstRound
    <3>2. wire'[n] # <<>> => Len(wire'[n]) = 1 /\ wire'[n][1] = external
      BY <1>6, <2>3
    <3>3. ASSUME NEW m \in Nodes \ {n}, wire'[m] # <<>>
          PROVE  /\ Len(wire'[m]) = 1 /\ store[m].left = 0
                 /\ advertised \subseteq wire'[m][1]
      BY <1>6, <3>3, Zenon DEF FirstRound
    <3> QED
      BY <2>3, <3>1, <3>2, <3>3, Zenon
  <2>5. \A m \in todo' : m # n /\ m \in todo
    BY <1>1, Zenon
  <2>6. \A m \in Nodes : m \in todo' => wire'[m] = <<>> /\ store[m].left = 0
    BY <1>6, <2>5, Zenon DEF FirstRound
  <2>7. faults \subseteq faults'
    BY <1>6, Zenon
  <2> QED
    BY <1>1, <1>2, <2>1, <2>2, <2>4, <2>6, <2>7, Zenon
    DEF FirstRound, Registering
<1>13. Renewed'
  <2> SUFFICES ASSUME phase = "serving", NEW m \in Nodes, store[m].left > 0,
                      Answers(faults', m)
               PROVE  Fresh(m)'
    BY <1>1, Zenon DEF Renewed
  <2>1. Answers(faults, m) /\ task = "register"
    BY <1>1, <1>6, Zenon DEF Answers
  <2>2. Fresh(m)
    BY <2>1, Zenon DEF Renewed
  <2>3. CASE m # n
    <3>1. wire'[m] = wire[m] /\ (m \in todo' <=> m \in todo)
      BY <1>1, <1>6, <2>3, Zenon
    <3> QED
      BY <1>1, <1>2, <2>2, <3>1, Zenon DEF Fresh
  <2>4. CASE m = n
    <3>1. wire'[n] # <<>>
      <4> SUFFICES ASSUME faults' = faults \cup {<<n, "lost">>}
                   PROVE  FALSE
        BY <1>6, Zenon
      <4>1. <<n, "lost">> \in faults' /\ <<n, "lost">>[1] = n
        BY Zenon
      <4> QED
        BY <2>4, <4>1, Zenon DEF Answers
    <3>2. CASE wire[n] # <<>>
      BY <1>1, <2>2, <2>4, <3>1, <3>2, Zenon DEF Fresh
    <3>3. CASE wire[n] = <<>>
      <4>1. lag[n] = 0 /\ age <= MaxDelay /\ age \in Nat /\ store[n].left \in Nat
        BY <1>4, <2>1, <3>3, Zenon DEF Quiet, Control, TypeOK
      <4>2. store[n].left + age > 2 * MaxDelay
        BY <1>1, <2>1, <2>2, <2>4, <3>3, Zenon DEF Fresh
      <4>3. store[n].left + lag[n] > MaxDelay
        BY <4>1, <4>2, Room
      <4> QED
        BY <1>1, <2>4, <3>1, <4>3, Zenon DEF Fresh
    <3> QED
      BY <3>2, <3>3, Zenon
  <2> QED
    BY <2>3, <2>4, Zenon
<1> QED
  BY <1>7, <1>8, <1>9, <1>10, <1>11, <1>12, <1>13, Zenon

\* dispatch_registration returned: `send` waits, or fails.
LEMMA DispatchedIInv ==
  ASSUME IInv, Dispatched
  PROVE  IInv'
<1> USE DEF IInv
<1>1. /\ phase = "register" /\ todo = {}
      /\ \/ phase' = "wait" /\ timer' = WaitTicks
         \/ phase' = "failed" /\ timer' = timer
      /\ UNCHANGED <<options, cli, rounds, upkeep, events, external, peers>>
  BY Zenon DEF Dispatched, Fail
<1>2. UNCHANGED <<advertised, pending, reservations, listeners, todo, age, task,
                  renew, cancelled, wire, lag, store, withdrawn, faults>>
  BY <1>1, Zenon DEF cli, rounds, upkeep, peers
<1>3. Federated' = Federated
  BY <1>1, Zenon DEF Federated
<1>4. TypeOK'
  BY <1>1, <1>2, <1>3, Room, Zenon DEF TypeOK, Starting
<1>5. Control'
  BY <1>1, <1>2, Zenon DEF Control
<1>6. Quiet'
  BY <1>1, <1>2, <1>3, Zenon DEF Quiet, Early
<1>7. Privacy'
  BY <1>1, <1>2, Zenon DEF Privacy, Early
<1>8. Gone'
  BY <1>1, <1>2, Zenon DEF Gone
<1>9. FirstRound'
  <2> SUFFICES ASSUME phase' = "wait"
               PROVE  FirstRound'
    BY <1>1, Zenon DEF FirstRound, Registering
  <2>1. Spent = age /\ Spent' = MaxDelay /\ age <= MaxDelay /\ age \in Nat
    BY <1>1, Room DEF Spent, Control, TypeOK
  <2>2. \A n \in Nodes : store[n].left > 0 => store[n].left + Spent' >= Ttl
    BY <1>1, <2>1, Room DEF FirstRound, Registering, TypeOK
  <2> QED
    BY <1>1, <1>2, <2>2, Room DEF FirstRound, Registering
<1>10. Renewed'
  BY <1>1, Zenon DEF Renewed
<1> QED
  BY <1>4, <1>5, <1>6, <1>7, <1>8, <1>9, <1>10, Zenon

\* wait_for_public_registration takes an event: the code is printed, the wait
\* goes on, or every node has refused.
LEMMA WaitForRegistrationIInv ==
  ASSUME IInv, wait_for_public_registration
  PROVE  IInv'
<1> USE DEF IInv
<1>1. /\ phase = "wait" /\ recv
      /\ \/ phase' = "serving" /\ task' = "register"
            /\ todo' = Federated /\ age' = 0
         \/ phase' \in {"wait", "failed"} /\ UNCHANGED <<task, rounds>>
      /\ UNCHANGED <<options, advertised, pending, reservations, listeners, timer,
                     renew, cancelled, external, peers>>
  BY Zenon DEF wait_for_public_registration, Ready, BeginRound, Fail
<1>2. UNCHANGED <<wire, lag, store, withdrawn, faults>>
  BY <1>1, Zenon DEF peers
<1>3. Federated' = Federated
  BY <1>1, Zenon DEF Federated
<1>4. /\ events' \in Seq(Events)
      /\ \A i \in 1..Len(events') :
           i + 1 \in 1..Len(events) /\ events'[i] = events[i + 1]
  BY <1>1, EventTaken, Zenon
<1>5. \/ phase' = "serving" /\ task' = "register" /\ todo' = Federated /\ age' = 0
      \/ phase' \in {"wait", "failed"} /\ UNCHANGED <<task, todo, age>>
  BY <1>1, Zenon DEF rounds
<1>6. task = "none"
  BY <1>1, Zenon DEF Control, TypeOK
<1>7. TypeOK'
  BY <1>1, <1>2, <1>3, <1>4, <1>5 DEF TypeOK, Starting
<1>8. Control'
  BY <1>1, <1>5, <1>6, Room DEF Control
<1>9. Quiet'
  BY <1>1, <1>2, <1>3, <1>5, Zenon DEF Quiet, Early
<1>10. Privacy'
  BY <1>1, <1>2, <1>5, Zenon DEF Privacy, Early
<1>11. Gone'
  BY <1>1, <1>2, <1>5, <1>6, Zenon DEF Gone
<1>12. FirstRound'
  <2> SUFFICES ASSUME phase' = "wait"
               PROVE  FirstRound'
    BY <1>5, Zenon DEF FirstRound, Registering
  <2>1. Spent' = Spent
    BY <1>1, <1>5, Zenon DEF Spent
  <2>2. \A i \in 1..Len(events') : events'[i].kind = "DiscoveryRegistered" =>
          /\ events'[i].of \in Nodes
          /\ \/ <<events'[i].of, "restart">> \in faults
             \/ store[events'[i].of].left > 0
    BY <1>1, <1>4, Zenon DEF FirstRound, Registering
  <2> QED
    BY <1>1, <1>2, <1>5, <2>1, <2>2, Zenon DEF FirstRound, Registering
<1>13. Renewed'
  <2> SUFFICES ASSUME phase' = "serving", NEW n \in Nodes, store[n].left > 0
               PROVE  Fresh(n)'
    BY <1>2, Zenon DEF Renewed
  <2>1. /\ wire[n] = <<>> /\ n \in Federated
        /\ store[n].left + Spent >= Ttl /\ timer \in Nat
        /\ store[n].left \in Nat
    BY <1>1 DEF FirstRound, Registering, Quiet, TypeOK
  <2>2. store[n].left > 2 * MaxDelay
    <3>1. Spent = MaxDelay + (WaitTicks - timer)
      BY <1>1, Zenon DEF Spent
    <3> QED
      BY <2>1, <3>1, Room
  <2>3. task' = "register" /\ n \in todo' /\ age' = 0
    BY <1>5, <2>1, Zenon
  <2> QED
    BY <1>2, <2>1, <2>2, <2>3 DEF Fresh
<1> QED
  BY <1>7, <1>8, <1>9, <1>10, <1>11, <1>12, <1>13, Zenon

\* The ten seconds are over.
LEMMA WaitTimesOutIInv ==
  ASSUME IInv, WaitTimesOut
  PROVE  IInv'
<1> USE DEF IInv
<1>1. /\ phase = "wait" /\ phase' = "failed"
      /\ UNCHANGED <<options, cli, rounds, timer, upkeep, events, external, peers>>
  BY Zenon DEF WaitTimesOut, Fail
<1>2. UNCHANGED <<advertised, pending, reservations, listeners, todo, age, task,
                  renew, cancelled, wire, lag, store, withdrawn, faults>>
  BY <1>1, Zenon DEF cli, rounds, upkeep, peers
<1>3. Federated' = Federated
  BY <1>1, Zenon DEF Federated
<1>4. TypeOK'
  BY <1>1, <1>2, <1>3, Zenon DEF TypeOK
<1>5. Control'
  BY <1>1, <1>2, Zenon DEF Control
<1>6. Quiet'
  BY <1>1, <1>2, <1>3, Zenon DEF Quiet, Early
<1>7. Privacy'
  BY <1>1, <1>2, Zenon DEF Privacy, Early
<1>8. Gone'
  BY <1>1, <1>2, Zenon DEF Gone
<1>9. FirstRound' /\ Renewed'
  BY <1>1, Zenon DEF FirstRound, Registering, Renewed
<1> QED
  BY <1>4, <1>5, <1>6, <1>7, <1>8, <1>9, Zenon
-----------------------------------------------------------------------------
(* The registration task and the end of `send`. *)

\* stop_registration.
LEMMA StopServingIInv ==
  ASSUME IInv, StopServing
  PROVE  IInv'
<1> USE DEF IInv
<1>1. /\ phase = "serving" /\ phase' = "stopping" /\ cancelled' = TRUE
      /\ UNCHANGED <<options, cli, rounds, timer, task, renew, events, external,
                     peers>>
  BY Zenon DEF StopServing
<1>2. UNCHANGED <<advertised, pending, reservations, listeners, todo, age, wire,
                  lag, store, withdrawn, faults>>
  BY <1>1, Zenon DEF cli, rounds, peers
<1>3. Federated' = Federated
  BY <1>1, Zenon DEF Federated
<1>4. TypeOK'
  BY <1>1, <1>2, <1>3, Zenon DEF TypeOK
<1>5. Control'
  BY <1>1, <1>2, Zenon DEF Control
<1>6. Quiet'
  BY <1>1, <1>2, <1>3, Zenon DEF Quiet, Early
<1>7. Privacy'
  BY <1>1, <1>2, Zenon DEF Privacy, Early
<1>8. Gone'
  BY <1>1, <1>2, Zenon DEF Gone
<1>9. FirstRound' /\ Renewed'
  BY <1>1, Zenon DEF FirstRound, Registering, Renewed
<1> QED
  BY <1>4, <1>5, <1>6, <1>7, <1>8, <1>9, Zenon

\* maintain_registrations sleeps, is woken, or leaves its loop.
LEMMA TaskIInv ==
  ASSUME IInv, Sleep \/ Renew \/ Leave
  PROVE  IInv'
<1> USE DEF IInv
<1>1. /\ UNCHANGED <<options, phase, cli, timer, cancelled, events, external, peers>>
      /\ \/ /\ task = "register" /\ todo = {} /\ task' = "sleep"
            /\ renew' = renewal_delay(Ttl) /\ UNCHANGED rounds
         \/ /\ task = "sleep" /\ renew = 0 /\ task' = "register"
            /\ todo' = Federated /\ age' = 0 /\ UNCHANGED renew
         \/ /\ task = "sleep" /\ cancelled /\ task' = "unregister" /\ renew' = 0
            /\ todo' = Federated /\ age' = 0
  BY Zenon DEF Sleep, Renew, Leave, BeginRound
<1>2. UNCHANGED <<advertised, pending, reservations, listeners, wire, lag, store,
                  withdrawn, faults>>
  BY <1>1, Zenon DEF cli, peers
<1>3. Federated' = Federated
  BY <1>1, Zenon DEF Federated
<1>4. \/ /\ task = "register" /\ todo = {} /\ task' = "sleep"
         /\ renew' = renewal_delay(Ttl) /\ UNCHANGED <<todo, age>>
      \/ /\ task = "sleep" /\ renew = 0 /\ task' = "register"
         /\ todo' = Federated /\ age' = 0 /\ UNCHANGED renew
      \/ /\ task = "sleep" /\ cancelled /\ task' = "unregister" /\ renew' = 0
         /\ todo' = Federated /\ age' = 0
  BY <1>1, Zenon DEF rounds
<1>5. phase \in {"serving", "stopping"}
  BY <1>4, Zenon DEF Control
<1>6. TypeOK'
  BY <1>1, <1>2, <1>3, <1>4, Room DEF TypeOK
<1>7. Control'
  BY <1>1, <1>4, <1>5, Room DEF Control
<1>8. Quiet'
  BY <1>1, <1>2, <1>3, <1>5, Zenon DEF Quiet, Early
<1>9. Privacy'
  BY <1>1, <1>2, Zenon DEF Privacy
<1>10. Gone'
  BY <1>1, <1>2, <1>4, <1>5, Zenon DEF Gone
<1>11. FirstRound'
  BY <1>1, <1>5, Zenon DEF FirstRound, Registering
<1>12. Renewed'
  <2> SUFFICES ASSUME phase = "serving", NEW n \in Nodes, store[n].left > 0,
                      Answers(faults, n)
               PROVE  Fresh(n)'
    BY <1>1, <1>2, Zenon DEF Renewed
  <2>1. /\ Fresh(n) /\ n \in Federated /\ n \in Nodes
        /\ store[n].left \in Nat /\ age \in Nat /\ ~cancelled
    BY Zenon DEF Renewed, Quiet, TypeOK, Control
  <2>2. CASE wire[n] # <<>>
    BY <1>2, <2>1, <2>2, Zenon DEF Fresh
  <2>3. CASE wire[n] = <<>> /\ task = "register"
    <3>1. store[n].left + age > 3 * MaxDelay + renewal_delay(Ttl)
      BY <1>4, <2>1, <2>3, Zenon DEF Fresh
    <3>2. store[n].left > renew' + 2 * MaxDelay
      BY <1>4, <2>1, <2>3, <3>1, Room DEF Control
    <3> QED
      BY <1>2, <1>4, <2>3, <3>2, Zenon DEF Fresh
  <2>4. CASE wire[n] = <<>> /\ task = "sleep"
    <3>1. store[n].left > renew + 2 * MaxDelay
      BY <2>1, <2>4, Zenon DEF Fresh
    <3>2. /\ task' = "register" /\ n \in todo' /\ age' = 0
          /\ store[n].left > 2 * MaxDelay
      BY <1>4, <2>1, <2>4, <3>1, Room
    <3> QED
      BY <1>2, <2>1, <2>4, <3>2 DEF Fresh
  <2> QED
    BY <1>4, <2>2, <2>3, <2>4, Zenon
<1> QED
  BY <1>6, <1>7, <1>8, <1>9, <1>10, <1>11, <1>12, Zenon

\* provider.unregister(n): the last message to a node.
LEMMA UnregisterIInv ==
  ASSUME IInv, NEW n \in Nodes, unregister(n)
  PROVE  IInv'
<1> USE DEF IInv
<1>1. /\ task = "unregister" /\ n \in todo /\ todo' = todo \ {n}
      /\ wire' = [wire EXCEPT ![n] = Append(@, {})]
      /\ UNCHANGED <<options, phase, cli, age, timer, upkeep, events, external,
                     lag, store, withdrawn, faults>>
  BY Zenon DEF unregister
<1>2. UNCHANGED <<advertised, pending, reservations, listeners, task, renew,
                  cancelled>>
  BY <1>1, Zenon DEF cli, upkeep
<1>3. Federated' = Federated
  BY <1>1, Zenon DEF Federated
<1>4. phase = "stopping" /\ n \in Federated
  BY <1>1, Zenon DEF Control, TypeOK
<1>5. /\ wire' \in [Nodes -> Seq(Records)]
      /\ Len(wire'[n]) = Len(wire[n]) + 1 /\ wire'[n][Len(wire[n]) + 1] = {}
      /\ \A i \in 1..Len(wire[n]) : wire'[n][i] = wire[n][i]
      /\ \A m \in Nodes \ {n} : wire'[m] = wire[m]
      /\ Len(wire[n]) \in Nat /\ wire'[n] # <<>>
      /\ \A i \in 1..Len(wire'[n]) : i \in 1..Len(wire[n]) \/ i = Len(wire[n]) + 1
  <2>1. wire \in [Nodes -> Seq(Records)] /\ Len(wire[n]) \in Nat
    BY DEF TypeOK
  <2>2. PICK r \in Records : r = {}
    BY Zenon DEF Records
  <2>3. wire' = [wire EXCEPT ![n] = Append(@, r)]
    BY <1>1, <2>2, Zenon
  <2>4. /\ wire' \in [Nodes -> Seq(Records)]
        /\ Len(wire'[n]) = Len(wire[n]) + 1 /\ wire'[n][Len(wire[n]) + 1] = r
        /\ \A i \in 1..Len(wire[n]) : wire'[n][i] = wire[n][i]
        /\ \A m \in Nodes \ {n} : wire'[m] = wire[m]
        /\ wire'[n] # <<>>
    BY <2>1, <2>3, Appended
  <2> QED
    BY <2>1, <2>2, <2>4
<1>6. TypeOK'
  BY <1>1, <1>2, <1>3, <1>5, Zenon DEF TypeOK
<1>7. Control'
  BY <1>1, <1>2, Zenon DEF Control
<1>8. Quiet'
  BY <1>1, <1>2, <1>3, <1>4, <1>5, Zenon DEF Quiet, Early
<1>9. Privacy'
  <2>1. \A m \in Nodes : \A i \in 1..Len(wire'[m]) : Private(options, wire'[m][i])
    <3>1. Private(options, {})
      BY Zenon DEF Private
    <3>2. ASSUME NEW i \in 1..Len(wire'[n])
          PROVE  Private(options, wire'[n][i])
      BY <1>5, <3>1, Zenon DEF Privacy
    <3> QED
      BY <1>5, <3>2, Zenon DEF Privacy
  <2> QED
    BY <1>1, <1>2, <2>1, Zenon DEF Privacy
<1>10. Gone'
  <2>1. ASSUME NEW i \in 1..Len(wire'[n]), wire'[n][i] = {},
               NEW j \in i..Len(wire'[n])
        PROVE  wire'[n][j] = {}
    <3>1. CASE j = Len(wire[n]) + 1
      BY <1>5, <3>1, Zenon
    <3>2. CASE j # Len(wire[n]) + 1
      <4>1. i \in 1..Len(wire[n]) /\ j \in i..Len(wire[n]) /\ j \in 1..Len(wire[n])
        BY <1>5, <2>1, <3>2
      <4>2. wire[n][i] = {}
        BY <1>5, <2>1, <4>1, Zenon
      <4>3. wire[n][j] = {}
        BY <4>1, <4>2, Zenon DEF Gone
      <4> QED
        BY <1>5, <4>1, <4>3, Zenon
    <3> QED
      BY <3>1, <3>2, Zenon
  <2>2. n \in withdrawn => \A i \in 1..Len(wire'[n]) : wire'[n][i] = {}
    <3> SUFFICES ASSUME n \in withdrawn, NEW i \in 1..Len(wire'[n])
                 PROVE  wire'[n][i] = {}
      BY Zenon
    <3>1. \A k \in 1..Len(wire[n]) : wire[n][k] = {}
      BY Zenon DEF Gone
    <3> QED
      BY <1>5, <3>1, Zenon
  <2>3. \A m \in Nodes \ {n} : wire'[m] = wire[m]
    BY <1>5, Zenon
  <2> SUFFICES ASSUME NEW m \in Nodes
               PROVE  /\ \A i \in 1..Len(wire'[m]) : wire'[m][i] = {} =>
                           \A j \in i..Len(wire'[m]) : wire'[m][j] = {}
                      /\ m \in withdrawn =>
                           /\ store[m] = Absent
                           /\ \A i \in 1..Len(wire'[m]) : wire'[m][i] = {}
    BY <1>1, <1>2, Zenon DEF Gone
  <2>4. CASE m = n
    BY <2>1, <2>2, <2>4, Zenon DEF Gone
  <2>5. CASE m # n
    BY <2>3, <2>5, Zenon DEF Gone
  <2> QED
    BY <2>4, <2>5, Zenon
<1>11. FirstRound' /\ Renewed'
  BY <1>1, <1>4, Zenon DEF FirstRound, Registering, Renewed
<1> QED
  BY <1>6, <1>7, <1>8, <1>9, <1>10, <1>11, Zenon

\* The driver ends; what was not written is lost.
LEMMA StopIInv ==
  ASSUME IInv, Stop
  PROVE  IInv'
<1> USE DEF IInv
<1>1. /\ phase = "stopping" /\ phase' = "stopped" /\ task' = "none"
      /\ \A n \in Nodes : wire'[n] \in Written(n)
      /\ DOMAIN wire' = Nodes
      /\ wire' = [n \in Nodes |-> wire'[n]]
      /\ UNCHANGED <<options, cli, rounds, timer, renew, cancelled, events,
                     external, lag, store, withdrawn, faults>>
  BY Zenon DEF Stop
<1>2. UNCHANGED <<advertised, pending, reservations, listeners, todo, age>>
  BY <1>1, Zenon DEF cli, rounds
<1>3. Federated' = Federated
  BY <1>1, Zenon DEF Federated
<1>4. ASSUME NEW n \in Nodes
      PROVE  /\ wire'[n] \in Seq(Records)
             /\ Len(wire'[n]) \in Nat /\ Len(wire'[n]) <= Len(wire[n])
             /\ Len(wire[n]) \in Nat
             /\ \A i \in 1..Len(wire'[n]) :
                  i \in 1..Len(wire[n]) /\ wire'[n][i] = wire[n][i]
  <2>1. wire[n] \in Seq(Records)
    BY Zenon DEF TypeOK
  <2>2. PICK k \in 0..Len(wire[n]) : wire'[n] = SubSeq(wire[n], 1, k)
    BY <1>1, Zenon DEF Written
  <2> QED
    BY <2>1, <2>2
<1>5. TypeOK'
  <2>1. wire' \in [Nodes -> Seq(Records)]
    BY <1>1, <1>4, Zenon
  <2> QED
    BY <1>1, <1>2, <1>3, <2>1, Zenon DEF TypeOK
<1>6. Control'
  BY <1>1, <1>2, Zenon DEF Control
<1>7. Quiet'
  <2>1. \A n \in Nodes : wire'[n] # <<>> => wire[n] # <<>>
    BY <1>4
  <2> QED
    BY <1>1, <1>3, <2>1, Zenon DEF Quiet, Early
<1>8. Privacy'
  <2>1. \A n \in Nodes : \A i \in 1..Len(wire'[n]) : Private(options, wire'[n][i])
    BY <1>4, Zenon DEF Privacy
  <2> QED
    BY <1>1, <1>2, <2>1, Zenon DEF Privacy, Early
<1>9. Gone'
  <2> SUFFICES ASSUME NEW n \in Nodes
               PROVE  /\ \A i \in 1..Len(wire'[n]) : wire'[n][i] = {} =>
                           \A j \in i..Len(wire'[n]) : wire'[n][j] = {}
                      /\ n \in withdrawn =>
                           /\ store[n] = Absent
                           /\ \A i \in 1..Len(wire'[n]) : wire'[n][i] = {}
    BY <1>1, Zenon DEF Gone
  <2>1. ASSUME NEW i \in 1..Len(wire'[n]), wire'[n][i] = {},
               NEW j \in i..Len(wire'[n])
        PROVE  wire'[n][j] = {}
    <3>1. /\ i \in 1..Len(wire[n]) /\ j \in i..Len(wire[n])
          /\ j \in 1..Len(wire'[n]) /\ wire[n][i] = {}
      BY <1>4, <2>1
    <3>2. wire[n][j] = {}
      BY <3>1, Zenon DEF Gone
    <3> QED
      BY <1>4, <3>1, <3>2, Zenon
  <2>2. n \in withdrawn =>
          /\ store[n] = Absent
          /\ \A i \in 1..Len(wire'[n]) : wire'[n][i] = {}
    BY <1>4, Zenon DEF Gone
  <2> QED
    BY <2>1, <2>2, Zenon
<1>10. FirstRound' /\ Renewed'
  BY <1>1, Zenon DEF FirstRound, Registering, Renewed
<1> QED
  BY <1>5, <1>6, <1>7, <1>8, <1>9, <1>10, Zenon
-----------------------------------------------------------------------------
(* The swarm, the nodes and time. *)

\* An event is sent and an address added, neither of which is one of those
\* that `send` announces.
LEMMA EventIInv ==
  ASSUME IInv, NEW e \in [kind : EventKinds, of : Addresses],
         e.kind # "DiscoveryRegistered", try_send(e.kind, e.of),
         phase \in {"start", "listener"} /\ e.kind = "Listening" => e.of = Direct,
         NEW added \in SUBSET {Runtime(r) : r \in Relays},
         external' = external \cup added,
         UNCHANGED <<options, phase, cli, rounds, timer, upkeep, peers>>
  PROVE  IInv'
<1> USE DEF IInv
<1>1. UNCHANGED <<advertised, pending, reservations, listeners, todo, age, task,
                  renew, cancelled, wire, lag, store, withdrawn, faults>>
  BY Zenon DEF cli, rounds, upkeep, peers
<1>2. Federated' = Federated
  BY Zenon DEF Federated
<1>3. /\ events' \in Seq(Events)
      /\ \A i \in 1..Len(events') :
           \/ i \in 1..Len(events) /\ events'[i] = events[i]
           \/ events'[i].kind = e.kind /\ events'[i].of = e.of
  <2>1. e.kind \in EventKinds /\ e.of \in Addresses \cup Nodes
    BY Zenon
  <2>2. /\ events' \in Seq(Events)
        /\ \A i \in 1..Len(events') :
             \/ i \in 1..Len(events) /\ events'[i] = events[i]
             \/ phase \in Starting /\ events'[i] = [kind |-> e.kind, of |-> e.of]
    BY <2>1, EventSent, Zenon
  <2> QED
    BY <2>2, Zenon
<1>4. /\ external' \subseteq Addresses
      /\ external' \cap ({Direct} \cup Relays) = external \cap ({Direct} \cup Relays)
      /\ Private(options, external')
      /\ external \subseteq external'
  <2>1. external \subseteq Addresses /\ Private(options, external)
    BY Zenon DEF TypeOK, Records, Privacy
  <2>2. /\ added \subseteq Addresses
        /\ added \cap ({Direct} \cup Relays) = {}
    BY Kinds
  <2> QED
    BY <2>1, <2>2, Kinds, Zenon DEF Private, Canonical
<1>5. \A i \in 1..Len(events') : events'[i].kind = "DiscoveryRegistered" =>
        i \in 1..Len(events) /\ events'[i] = events[i]
  BY <1>3, Zenon
<1>6. TypeOK'
  BY <1>1, <1>2, <1>3, <1>4, Zenon DEF TypeOK, Records
<1>7. Control'
  BY <1>1, Zenon DEF Control
<1>8. Quiet'
  BY <1>1, <1>2, <1>5, Zenon DEF Quiet
<1>9. Privacy'
  <2>1. phase \in {"start", "listener"} =>
          \A i \in 1..Len(events') :
            events'[i].kind = "Listening" => events'[i].of = Direct
    BY <1>3, Zenon DEF Privacy
  <2> QED
    BY <1>1, <1>4, <2>1, Zenon DEF Privacy
<1>10. Gone'
  BY <1>1, Zenon DEF Gone
<1>11. FirstRound'
  <2>1. Spent' = Spent
    BY <1>1, Zenon DEF Spent
  <2>2. Registering =>
          \A i \in 1..Len(events') : events'[i].kind = "DiscoveryRegistered" =>
            /\ events'[i].of \in Nodes
            /\ \/ <<events'[i].of, "restart">> \in faults
               \/ store[events'[i].of].left > 0
    BY <1>5, Zenon DEF FirstRound
  <2> QED
    BY <1>1, <1>4, <2>1, <2>2, Zenon DEF FirstRound, Registering
<1>12. Renewed'
  BY <1>1, Zenon DEF Renewed, Fresh
<1> QED
  BY <1>6, <1>7, <1>8, <1>9, <1>10, <1>11, <1>12, Zenon

\* A listener, a reservation or any other event of the swarm.
LEMMA SwarmIInv ==
  ASSUME IInv, NewListenAddr \/ handle_relay_event
  PROVE  IInv'
<1>1. UNCHANGED <<options, phase, cli, rounds, timer, upkeep, peers>>
  BY Zenon DEF NewListenAddr, handle_relay_event
<1>2. pending \subseteq Relays /\ (phase \in {"start", "listener"} => pending = {})
  BY Zenon DEF IInv, TypeOK, Privacy
<1>3. CASE phase = "listener" /\ try_send("Listening", Direct) /\ UNCHANGED external
  <2> DEFINE e == [kind |-> "Listening", of |-> Direct]
  <2>1. e.kind = "Listening" /\ e.of = Direct
    BY Zenon
  <2>2. e \in [kind : EventKinds, of : Addresses] /\ e.kind # "DiscoveryRegistered"
    BY Kinds, Zenon DEF EventKinds
  <2> HIDE DEF e
  <2>3. {} \in SUBSET {Runtime(r) : r \in Relays} /\ external' = external \cup {}
    BY <1>3, Zenon
  <2> QED
    BY <1>1, <1>3, <2>1, <2>2, <2>3, EventIInv, Zenon
<1>4. ASSUME NEW r \in pending, external' = external \cup {Runtime(r)},
             try_send("Listening", Runtime(r))
      PROVE  IInv'
  <2> DEFINE e == [kind |-> "Listening", of |-> Runtime(r)]
  <2>1. e.kind = "Listening" /\ e.of = Runtime(r)
    BY Zenon
  <2>2. e \in [kind : EventKinds, of : Addresses] /\ e.kind # "DiscoveryRegistered"
    BY <1>2, Kinds, Zenon DEF EventKinds
  <2> HIDE DEF e
  <2>3. /\ {Runtime(r)} \in SUBSET {Runtime(q) : q \in Relays}
        /\ phase \notin {"start", "listener"}
    BY <1>2, Zenon
  <2> QED
    BY <1>1, <1>4, <2>1, <2>2, <2>3, EventIInv, Zenon
<1>5. ASSUME NEW k \in {"RelayReservation", "Connected"}, NEW a \in Addresses,
             try_send(k, a), UNCHANGED external
      PROVE  IInv'
  <2> DEFINE e == [kind |-> k, of |-> a]
  <2>1. e.kind = k /\ e.of = a
    BY Zenon
  <2>2. e \in [kind : EventKinds, of : Addresses] /\ e.kind # "DiscoveryRegistered"
    BY Zenon DEF EventKinds
  <2> HIDE DEF e
  <2>3. {} \in SUBSET {Runtime(r) : r \in Relays} /\ external' = external \cup {}
    BY <1>5, Zenon
  <2>4. e.kind # "Listening"
    BY <2>1, Zenon
  <2> QED
    BY <1>1, <1>5, <2>1, <2>2, <2>3, <2>4, EventIInv, Zenon
<1>6. CASE NewListenAddr
  BY <1>3, <1>4, <1>6, Zenon DEF NewListenAddr
<1>7. CASE handle_relay_event
  <2>1. pending \subseteq Addresses /\ Direct \in Addresses
    BY <1>2, Kinds, Zenon
  <2> QED
    BY <1>5, <1>7, <2>1, Zenon DEF handle_relay_event
<1> QED
  BY <1>6, <1>7, Zenon

\* A node takes a message, the first to it: it lists the record, or drops the
\* share for good.
LEMMA NodeAcceptsIInv ==
  ASSUME IInv, NEW n \in Nodes, NodeAccepts(n)
  PROVE  IInv'
<1> USE DEF IInv
<1> DEFINE record == wire[n][1]
<1>1. /\ wire[n] # <<>>
      /\ wire' \in [Nodes -> Seq(Records)]
      /\ Len(wire[n]) \in Nat \ {0} /\ Len(wire'[n]) = Len(wire[n]) - 1
      /\ record \in Records
      /\ \A i \in 1..Len(wire'[n]) : wire'[n][i] = wire[n][i + 1]
      /\ \A m \in Nodes \ {n} : wire'[m] = wire[m]
      /\ Head(wire[n]) = record
  <2>1. /\ wire[n] # <<>> /\ wire' = [wire EXCEPT ![n] = Tail(@)]
        /\ wire \in [Nodes -> Seq(Records)]
    BY Zenon DEF NodeAccepts, TypeOK
  <2> QED
    BY <2>1, Taken
<1> HIDE DEF record
<1>2. /\ lag' = [lag EXCEPT ![n] = 0]
      /\ \/ /\ record = {} /\ store' = [store EXCEPT ![n] = Absent]
            /\ withdrawn' = withdrawn \cup {n} /\ UNCHANGED events
         \/ /\ record # {} /\ UNCHANGED withdrawn
            /\ store' = [store EXCEPT ![n] = [left |-> Ttl, addresses |-> record]]
            /\ handle_rendezvous_event("DiscoveryRegistered", n)
      /\ UNCHANGED <<options, phase, cli, rounds, timer, upkeep, external, faults>>
  BY <1>1, Zenon DEF NodeAccepts
<1>3. UNCHANGED <<advertised, pending, reservations, listeners, todo, age, task,
                  renew, cancelled>>
  BY <1>2, Zenon DEF cli, rounds, upkeep
<1>4. Federated' = Federated
  BY <1>2, Zenon DEF Federated
<1>5. /\ events' \in Seq(Events)
      /\ \A i \in 1..Len(events') :
           \/ i \in 1..Len(events) /\ events'[i] = events[i]
           \/ /\ events'[i].kind = "DiscoveryRegistered" /\ events'[i].of = n
              /\ record # {}
  <2>1. CASE UNCHANGED events
    BY <2>1, Zenon DEF TypeOK
  <2>2. CASE record # {} /\ try_send("DiscoveryRegistered", n)
    <3>1. /\ events' \in Seq(Events)
          /\ \A i \in 1..Len(events') :
               \/ i \in 1..Len(events) /\ events'[i] = events[i]
               \/ /\ phase \in Starting
                  /\ events'[i] = [kind |-> "DiscoveryRegistered", of |-> n]
      <4>1. "DiscoveryRegistered" \in EventKinds /\ n \in Addresses \cup Nodes
        BY Zenon DEF EventKinds
      <4> QED
        BY <2>2, <4>1, EventSent, Zenon
    <3> QED
      BY <2>2, <3>1
  <2> QED
    BY <1>2, <2>1, <2>2, Zenon DEF handle_rendezvous_event
<1>6. /\ phase \notin Early
      /\ n \in Federated
      /\ record = {} => task = "unregister" \/ phase = "stopped"
      /\ Private(options, record)
      /\ store' \in [Nodes -> [left : Nat, addresses : Records]]
      /\ \A m \in Nodes \ {n} : store'[m] = store[m] /\ lag'[m] = lag[m]
      /\ lag' \in [Nodes -> Nat] /\ lag'[n] = 0
  <2>1. 1 \in 1..Len(wire[n])
    BY <1>1
  <2>2. /\ record = {} => task = "unregister" \/ phase = "stopped"
        /\ Private(options, record)
    BY <2>1, Zenon DEF record, Gone, Privacy
  <2>3. Absent \in [left : Nat, addresses : Records]
    BY Zenon DEF Absent, Records
  <2>4. [left |-> Ttl, addresses |-> record] \in [left : Nat, addresses : Records]
    BY <1>1, Room, Zenon
  <2>5. store' \in [Nodes -> [left : Nat, addresses : Records]]
    BY <1>2, <2>3, <2>4, Zenon DEF TypeOK
  <2>6. phase \notin Early /\ n \in Federated
    BY <1>1, Zenon DEF Quiet
  <2> QED
    BY <1>2, <2>2, <2>5, <2>6, Zenon DEF TypeOK
<1>7. /\ record = {} => store'[n] = Absent
      /\ record # {} => store'[n] = [left |-> Ttl, addresses |-> record]
  BY <1>2, Zenon DEF TypeOK
<1>8. /\ record = {} => store'[n].left = 0 /\ store'[n].addresses = {}
      /\ record # {} => store'[n].left = Ttl /\ store'[n].addresses = record
  BY <1>7 DEF Absent
<1>9. TypeOK'
  BY <1>1, <1>2, <1>3, <1>4, <1>5, <1>6, Zenon DEF TypeOK
<1>10. Control'
  BY <1>2, <1>3, Zenon DEF Control
<1>11. Quiet'
  <2>1. \A m \in Nodes : wire'[m] # <<>> \/ store'[m].left > 0 => m \in Federated
    BY <1>1, <1>6, Zenon DEF Quiet
  <2>2. \A m \in Nodes : wire'[m] = <<>> /\ phase # "stopped" => lag'[m] = 0
    BY <1>1, <1>6, Zenon DEF Quiet
  <2> QED
    BY <1>2, <1>4, <1>6, <2>1, <2>2, Zenon DEF Quiet
<1>12. Privacy'
  <2>1. \A m \in Nodes : Private(options, store'[m].addresses)
    <3>1. Private(options, {})
      BY Zenon DEF Private
    <3> QED
      BY <1>6, <1>8, <3>1, Zenon DEF Privacy
  <2>2. \A m \in Nodes : \A i \in 1..Len(wire'[m]) : Private(options, wire'[m][i])
    <3>1. \A i \in 1..Len(wire'[n]) : i + 1 \in 1..Len(wire[n])
      BY <1>1
    <3> QED
      BY <1>1, <3>1 DEF Privacy
  <2>3. phase \notin {"start", "listener"}
    BY <1>6, Zenon DEF Early
  <2> QED
    BY <1>2, <1>3, <1>6, <2>1, <2>2, <2>3, Zenon DEF Privacy
<1>13. Gone'
  <2> SUFFICES ASSUME NEW m \in Nodes
               PROVE  /\ \A i \in 1..Len(wire'[m]) : wire'[m][i] = {} =>
                           /\ task = "unregister" \/ phase = "stopped"
                           /\ \A j \in i..Len(wire'[m]) : wire'[m][j] = {}
                      /\ m \in withdrawn' =>
                           /\ task = "unregister" \/ phase = "stopped"
                           /\ store'[m] = Absent
                           /\ \A i \in 1..Len(wire'[m]) : wire'[m][i] = {}
    BY <1>2, <1>3, Zenon DEF Gone
  <2>1. CASE m # n
    <3>1. /\ wire'[m] = wire[m] /\ store'[m] = store[m]
          /\ m \in withdrawn' <=> m \in withdrawn
      BY <1>1, <1>2, <1>6, <2>1, Zenon
    <3> QED
      BY <3>1, Zenon DEF Gone
  <2>2. CASE m = n
    <3>1. \A i \in 1..Len(wire'[n]) :
            /\ i + 1 \in 1..Len(wire[n]) /\ wire'[n][i] = wire[n][i + 1]
            /\ \A j \in i..Len(wire'[n]) :
                 j + 1 \in (i + 1)..Len(wire[n]) /\ wire'[n][j] = wire[n][j + 1]
      BY <1>1
    <3>2. ASSUME NEW i \in 1..Len(wire'[n]), wire'[n][i] = {}
          PROVE  /\ task = "unregister" \/ phase = "stopped"
                 /\ \A j \in i..Len(wire'[n]) : wire'[n][j] = {}
      <4>1. i + 1 \in 1..Len(wire[n]) /\ wire[n][i + 1] = {}
        BY <3>1, <3>2, Zenon
      <4>2. /\ task = "unregister" \/ phase = "stopped"
            /\ \A j \in (i + 1)..Len(wire[n]) : wire[n][j] = {}
        BY <4>1, Zenon DEF Gone
      <4> QED
        BY <3>1, <4>2, Zenon
    <3>3. ASSUME n \in withdrawn'
          PROVE  /\ task = "unregister" \/ phase = "stopped"
                 /\ store'[n] = Absent
                 /\ \A i \in 1..Len(wire'[n]) : wire'[n][i] = {}
      <4>1. 1 \in 1..Len(wire[n])
        BY <1>1
      <4>2. record = {}
        BY <1>2, <3>3, <4>1, Zenon DEF record, Gone
      <4>3. \A j \in 1..Len(wire[n]) : wire[n][j] = {}
        BY <4>1, <4>2, Zenon DEF record, Gone
      <4> QED
        BY <1>6, <1>7, <3>1, <4>2, <4>3, Zenon
    <3> QED
      BY <2>2, <3>2, <3>3, Zenon
  <2> QED
    BY <2>1, <2>2, Zenon
<1>14. FirstRound'
  <2> SUFFICES ASSUME Registering
               PROVE  FirstRound'
    BY <1>2, Zenon DEF FirstRound, Registering
  <2>1. /\ task = "none" /\ record # {} /\ Spent' = Spent /\ Spent \in Nat
        /\ n \notin todo
    BY <1>1, <1>2, <1>3, <1>6, Room DEF Registering, Control, Spent, TypeOK, FirstRound
  <2>2. Len(wire[n]) = 1 /\ store[n].left = 0 /\ advertised \subseteq record
    BY <1>1, Zenon DEF FirstRound, record
  <2>3. wire'[n] = <<>>
    BY <1>1, <2>2
  <2>4. /\ store'[n].left = Ttl /\ store'[n].addresses = record /\ Ttl > 0
        /\ store'[n].left + Spent >= Ttl
    BY <1>8, <2>1, Room
  <2>5. \A i \in 1..Len(events') : events'[i].kind = "DiscoveryRegistered" =>
          /\ events'[i].of \in Nodes
          /\ \/ <<events'[i].of, "restart">> \in faults
             \/ store'[events'[i].of].left > 0
    BY <1>5, <1>6, <2>4 DEF FirstRound
  <2>6. ASSUME NEW m \in Nodes
        PROVE  /\ m \in todo => wire'[m] = <<>> /\ store'[m].left = 0
               /\ wire'[m] # <<>> =>
                    /\ Len(wire'[m]) = 1
                    /\ store'[m].left = 0
                    /\ advertised \subseteq wire'[m][1]
               /\ store'[m].left > 0 =>
                    /\ store'[m].left + Spent >= Ttl
                    /\ advertised \subseteq store'[m].addresses
    <3>1. CASE m # n
      <4>1. wire'[m] = wire[m] /\ store'[m] = store[m]
        BY <1>1, <1>6, <3>1, Zenon
      <4> QED
        BY <4>1, Zenon DEF FirstRound
    <3>2. CASE m = n
      BY <2>1, <2>2, <2>3, <2>4, <3>2, Zenon
    <3> QED
      BY <3>1, <3>2, Zenon
  <2>7. (timer <= WaitTicks \/ phase = "register") /\ advertised \subseteq external
    BY Zenon DEF FirstRound
  <2> QED
    BY <1>2, <1>3, <2>1, <2>5, <2>6, <2>7, Zenon DEF FirstRound, Registering
<1>15. Renewed'
  <2> SUFFICES ASSUME phase = "serving", NEW m \in Nodes, store'[m].left > 0,
                      Answers(faults, m)
               PROVE  Fresh(m)'
    BY <1>2, Zenon DEF Renewed
  <2>1. CASE m # n
    <3>1. wire'[m] = wire[m] /\ store'[m] = store[m] /\ lag'[m] = lag[m]
      BY <1>1, <1>6, <2>1, Zenon
    <3>2. Fresh(m)
      BY <3>1, Zenon DEF Renewed
    <3> QED
      BY <1>3, <3>1, <3>2, Zenon DEF Fresh
  <2>2. CASE m = n
    <3>1. store'[n].left = Ttl /\ lag'[n] = 0
      BY <1>6, <1>8, <2>2
    <3>2. Ttl > MaxDelay /\ Ttl + age > 2 * MaxDelay
          /\ Ttl + age > 3 * MaxDelay + renewal_delay(Ttl)
      BY Room DEF TypeOK
    <3>3. task = "sleep" => Ttl > renew + 2 * MaxDelay
      BY Room DEF TypeOK, Control
    <3> QED
      BY <1>3, <2>2, <3>1, <3>2, <3>3, Room DEF Fresh
  <2> QED
    BY <2>1, <2>2, Zenon
<1> QED
  BY <1>9, <1>10, <1>11, <1>12, <1>13, <1>14, <1>15, Zenon

\* A node refuses or never gets a message: what it lists stays.
LEMMA MessageLostIInv ==
  ASSUME IInv, NEW n \in Nodes, wire[n] # <<>>,
         faults' = faults \cup {<<n, "lost">>},
         wire' = [wire EXCEPT ![n] = Tail(@)],
         lag' = [lag EXCEPT ![n] = 0],
         UNCHANGED events \/ try_send("DiscoveryFailed", n),
         UNCHANGED <<options, phase, cli, rounds, timer, upkeep, external, store,
                     withdrawn>>
  PROVE  IInv'
<1> USE DEF IInv
<1>1. /\ wire' \in [Nodes -> Seq(Records)]
      /\ Len(wire[n]) \in Nat \ {0} /\ Len(wire'[n]) = Len(wire[n]) - 1
      /\ \A i \in 1..Len(wire'[n]) : wire'[n][i] = wire[n][i + 1]
      /\ \A m \in Nodes \ {n} : wire'[m] = wire[m]
  BY Taken DEF TypeOK
<1>2. /\ lag' \in [Nodes -> Nat] /\ lag'[n] = 0
      /\ \A m \in Nodes \ {n} : lag'[m] = lag[m]
  BY Zenon DEF TypeOK
<1>3. UNCHANGED <<advertised, pending, reservations, listeners, todo, age, task,
                  renew, cancelled>>
  BY Zenon DEF cli, rounds, upkeep
<1>4. Federated' = Federated
  BY Zenon DEF Federated
<1>5. /\ events' \in Seq(Events)
      /\ \A i \in 1..Len(events') :
           \/ i \in 1..Len(events) /\ events'[i] = events[i]
           \/ events'[i].kind = "DiscoveryFailed"
  <2>1. CASE UNCHANGED events
    BY <2>1, Zenon DEF TypeOK
  <2>2. CASE try_send("DiscoveryFailed", n)
    <3>1. "DiscoveryFailed" \in EventKinds /\ n \in Addresses \cup Nodes
      BY Zenon DEF EventKinds
    <3>2. /\ events' \in Seq(Events)
          /\ \A i \in 1..Len(events') :
               \/ i \in 1..Len(events) /\ events'[i] = events[i]
               \/ /\ phase \in Starting
                  /\ events'[i] = [kind |-> "DiscoveryFailed", of |-> n]
      BY <2>2, <3>1, EventSent, Zenon
    <3> QED
      BY <3>2
  <2> QED
    BY <2>1, <2>2, Zenon
<1>6. phase \notin Early /\ n \in Federated
  BY Zenon DEF Quiet
<1>7. \A i \in 1..Len(wire'[n]) :
        /\ i + 1 \in 1..Len(wire[n]) /\ wire'[n][i] = wire[n][i + 1]
        /\ \A j \in i..Len(wire'[n]) :
             j + 1 \in (i + 1)..Len(wire[n]) /\ wire'[n][j] = wire[n][j + 1]
  BY <1>1
<1>8. TypeOK'
  <2>1. faults' \subseteq Nodes \X {"lost", "restart"}
    BY DEF TypeOK
  <2> QED
    BY <1>1, <1>2, <1>3, <1>4, <1>5, <2>1, Zenon DEF TypeOK
<1>9. Control'
  BY <1>3, Zenon DEF Control
<1>10. Quiet'
  <2>1. \A m \in Nodes : wire'[m] # <<>> \/ store[m].left > 0 => m \in Federated
    BY <1>1, <1>6, Zenon DEF Quiet
  <2>2. \A m \in Nodes : wire'[m] = <<>> /\ phase # "stopped" => lag'[m] = 0
    BY <1>1, <1>2, Zenon DEF Quiet
  <2> QED
    BY <1>4, <1>6, <2>1, <2>2, Zenon DEF Quiet
<1>11. Privacy'
  <2>1. \A m \in Nodes : \A i \in 1..Len(wire'[m]) : Private(options, wire'[m][i])
    BY <1>1, <1>7 DEF Privacy
  <2>2. phase \notin {"start", "listener"}
    BY <1>6, Zenon DEF Early
  <2> QED
    BY <1>3, <2>1, <2>2, Zenon DEF Privacy
<1>12. Gone'
  <2> SUFFICES ASSUME NEW m \in Nodes
               PROVE  /\ \A i \in 1..Len(wire'[m]) : wire'[m][i] = {} =>
                           /\ task = "unregister" \/ phase = "stopped"
                           /\ \A j \in i..Len(wire'[m]) : wire'[m][j] = {}
                      /\ m \in withdrawn =>
                           /\ task = "unregister" \/ phase = "stopped"
                           /\ store[m] = Absent
                           /\ \A i \in 1..Len(wire'[m]) : wire'[m][i] = {}
    BY <1>3, Zenon DEF Gone
  <2>1. CASE m # n
    <3>1. wire'[m] = wire[m]
      BY <1>1, <2>1, Zenon
    <3> QED
      BY <3>1 DEF Gone
  <2>2. CASE m = n
    <3>1. ASSUME NEW i \in 1..Len(wire'[n]), wire'[n][i] = {}
          PROVE  /\ task = "unregister" \/ phase = "stopped"
                 /\ \A j \in i..Len(wire'[n]) : wire'[n][j] = {}
      <4>1. i + 1 \in 1..Len(wire[n]) /\ wire[n][i + 1] = {}
        BY <1>7, <3>1, Zenon
      <4>2. /\ task = "unregister" \/ phase = "stopped"
            /\ \A j \in (i + 1)..Len(wire[n]) : wire[n][j] = {}
        BY <4>1, Zenon DEF Gone
      <4> QED
        BY <1>7, <4>2
    <3>2. n \in withdrawn =>
            /\ task = "unregister" \/ phase = "stopped"
            /\ store[n] = Absent
            /\ \A i \in 1..Len(wire'[n]) : wire'[n][i] = {}
      BY <1>7, Zenon DEF Gone
    <3> QED
      BY <2>2, <3>1, <3>2, Zenon
  <2> QED
    BY <2>1, <2>2, Zenon
<1>13. FirstRound'
  <2> SUFFICES ASSUME Registering
               PROVE  FirstRound'
    BY Zenon DEF FirstRound, Registering
  <2>1. Spent' = Spent
    BY <1>3, Zenon DEF Spent
  <2>2. Len(wire[n]) = 1 /\ n \notin todo
    BY Zenon DEF FirstRound
  <2>3. wire'[n] = <<>>
    BY <1>1, <2>2
  <2>4. \A i \in 1..Len(events') : events'[i].kind = "DiscoveryRegistered" =>
          /\ events'[i].of \in Nodes
          /\ \/ <<events'[i].of, "restart">> \in faults'
             \/ store[events'[i].of].left > 0
    BY <1>5, Zenon DEF FirstRound
  <2>5. \A m \in Nodes : wire'[m] = wire[m] \/ (m = n /\ wire'[m] = <<>>)
    BY <1>1, <2>3, Zenon
  <2> QED
    BY <1>3, <2>1, <2>2, <2>4, <2>5, Zenon DEF FirstRound, Registering
<1>14. Renewed'
  <2> SUFFICES ASSUME phase = "serving", NEW m \in Nodes, store[m].left > 0,
                      Answers(faults', m)
               PROVE  Fresh(m)'
    BY Zenon DEF Renewed
  <2>1. m # n
    <3>1. <<n, "lost">> \in faults' /\ <<n, "lost">>[1] = n
      BY Zenon
    <3> QED
      BY <3>1, Zenon DEF Answers
  <2>2. wire'[m] = wire[m] /\ lag'[m] = lag[m] /\ Answers(faults, m)
    BY <1>1, <1>2, <2>1, Zenon DEF Answers
  <2>3. Fresh(m)
    BY <2>2, Zenon DEF Renewed
  <2> QED
    BY <1>3, <2>2, <2>3, Zenon DEF Fresh
<1> QED
  BY <1>8, <1>9, <1>10, <1>11, <1>12, <1>13, <1>14, Zenon

\* A node restarts and lists nothing.
LEMMA RestartIInv ==
  ASSUME IInv, NEW n \in Nodes,
         faults' = faults \cup {<<n, "restart">>},
         store' = [store EXCEPT ![n] = Absent],
         UNCHANGED <<options, phase, cli, rounds, timer, upkeep, external, wire,
                     lag, events, withdrawn>>
  PROVE  IInv'
<1> USE DEF IInv
<1>1. UNCHANGED <<advertised, pending, reservations, listeners, todo, age, task,
                  renew, cancelled>>
  BY Zenon DEF cli, rounds, upkeep
<1>2. Federated' = Federated
  BY Zenon DEF Federated
<1>3. /\ store' \in [Nodes -> [left : Nat, addresses : Records]]
      /\ store'[n] = Absent /\ store'[n].left = 0 /\ store'[n].addresses = {}
      /\ \A m \in Nodes \ {n} : store'[m] = store[m]
  <2>1. /\ Absent \in [left : Nat, addresses : Records]
        /\ Absent.left = 0 /\ Absent.addresses = {}
    BY Zenon DEF Absent, Records
  <2> QED
    BY <2>1, Zenon DEF TypeOK
<1>4. TypeOK'
  <2>1. faults' \subseteq Nodes \X {"lost", "restart"}
    BY DEF TypeOK
  <2> QED
    BY <1>1, <1>2, <1>3, <2>1, Zenon DEF TypeOK
<1>5. Control'
  BY <1>1, Zenon DEF Control
<1>6. Quiet'
  BY <1>1, <1>2, <1>3 DEF Quiet
<1>7. Privacy'
  <2>1. \A m \in Nodes : Private(options, store'[m].addresses)
    <3>1. Private(options, {})
      BY Zenon DEF Private
    <3> QED
      BY <1>3, <3>1, Zenon DEF Privacy
  <2> QED
    BY <1>1, <2>1, Zenon DEF Privacy
<1>8. Gone'
  BY <1>1, <1>3 DEF Gone
<1>9. FirstRound'
  <2> SUFFICES ASSUME Registering
               PROVE  FirstRound'
    BY Zenon DEF FirstRound, Registering
  <2>1. Spent' = Spent
    BY <1>1, Zenon DEF Spent
  <2>2. \A i \in 1..Len(events) : events[i].kind = "DiscoveryRegistered" =>
          /\ events[i].of \in Nodes
          /\ \/ <<events[i].of, "restart">> \in faults'
             \/ store'[events[i].of].left > 0
    BY <1>3, Zenon DEF FirstRound
  <2>3. \A m \in Nodes : store'[m] = store[m] \/ store'[m].left = 0
    BY <1>3, Zenon
  <2> QED
    BY <1>1, <2>1, <2>2, <2>3 DEF FirstRound, Registering
<1>10. Renewed'
  <2> SUFFICES ASSUME phase = "serving", NEW m \in Nodes, store'[m].left > 0,
                      Answers(faults', m)
               PROVE  Fresh(m)'
    BY Zenon DEF Renewed
  <2>1. store'[m] = store[m] /\ Answers(faults, m)
    BY <1>3 DEF Answers
  <2>2. Fresh(m)
    BY <2>1, Zenon DEF Renewed
  <2> QED
    BY <1>1, <2>1, <2>2, Zenon DEF Fresh
<1> QED
  BY <1>4, <1>5, <1>6, <1>7, <1>8, <1>9, <1>10, Zenon

\* A tick takes one from every lifetime and every sleep, and is one of those
\* that a dispatch or a delivery may take.
LEMMA TickIInv ==
  ASSUME IInv, Tick
  PROVE  IInv'
<1> USE DEF IInv
<1>1. /\ \A n \in Nodes : wire[n] # <<>> => lag[n] < MaxDelay
      /\ todo # {} => age < MaxDelay /\ age' = age + 1
      /\ todo = {} => phase # "register" /\ task # "register" /\ age' = 0
      /\ phase \notin {"start", "relays", "announce"}
      /\ task = "sleep" => renew > 0
      /\ phase = "wait" => timer > 0
      /\ lag' = [n \in Nodes |-> IF wire[n] # <<>> THEN lag[n] + 1 ELSE 0]
      /\ store' = [n \in Nodes |->
                     IF store[n].left <= 1 THEN Absent
                     ELSE [store[n] EXCEPT !.left = @ - 1]]
      /\ timer' = Less(timer) /\ renew' = Less(renew)
      /\ UNCHANGED <<options, phase, cli, todo, task, cancelled, events, external,
                     wire, withdrawn, faults>>
  BY Zenon DEF Tick
<1>2. UNCHANGED <<advertised, pending, reservations, listeners>>
  BY <1>1, Zenon DEF cli
<1>3. Federated' = Federated
  BY <1>1, Zenon DEF Federated
<1>4. /\ timer' \in Nat /\ renew' \in Nat /\ age' \in Nat
      /\ timer > 0 => timer' = timer - 1
      /\ renew > 0 => renew' = renew - 1
      /\ renew' <= renew /\ timer' <= timer
      /\ lag' \in [Nodes -> Nat]
  BY <1>1 DEF Less, TypeOK
<1>5. ASSUME NEW n \in Nodes
      PROVE  /\ store[n].left \in Nat
             /\ store'[n] \in [left : Nat, addresses : Records]
             /\ store[n].left <= 1 => store'[n] = Absent /\ store'[n].left = 0
             /\ store[n].left > 1 =>
                  /\ store'[n].left = store[n].left - 1
                  /\ store'[n].addresses = store[n].addresses
  <2>1. /\ Absent \in [left : Nat, addresses : Records] /\ Absent.left = 0
        /\ store[n] \in [left : Nat, addresses : Records]
    BY Zenon DEF Absent, Records, TypeOK
  <2>2. CASE store[n].left <= 1
    BY <1>1, <2>1, <2>2
  <2>3. CASE store[n].left > 1
    <3>1. store'[n] = [store[n] EXCEPT !.left = @ - 1]
      BY <1>1, <2>1, <2>3
    <3> QED
      BY <2>1, <2>3, <3>1
  <2> QED
    BY <2>1, <2>2, <2>3
<1>6. TypeOK'
  <2>1. store' \in [Nodes -> [left : Nat, addresses : Records]]
    <3>1. store' = [n \in Nodes |-> store'[n]]
      BY <1>1, Zenon
    <3> QED
      BY <1>5, <3>1, Zenon
  <2> QED
    BY <1>1, <1>2, <1>3, <1>4, <2>1, Zenon DEF TypeOK
<1>7. Control'
  <2>1. phase = "register" \/ task = "register" => age' <= MaxDelay
    BY <1>1, Room DEF TypeOK
  <2>2. task = "sleep" => renew' <= renewal_delay(Ttl)
    BY <1>4, Room DEF TypeOK, Control
  <2> QED
    BY <1>1, <2>1, <2>2, Zenon DEF Control
<1>8. Quiet'
  <2>1. \A n \in Nodes : store'[n].left > 0 => store[n].left > 0
    BY <1>5
  <2>2. \A n \in Nodes : store[n].left = 0 => store'[n].left = 0
    BY <1>5
  <2>3. \A n \in Nodes : wire[n] = <<>> => lag'[n] = 0
    BY <1>1, Zenon
  <2> QED
    BY <1>1, <1>3, <2>1, <2>2, <2>3, Zenon DEF Quiet
<1>9. Privacy'
  <2>1. \A n \in Nodes : Private(options, store'[n].addresses)
    <3>1. Private(options, Absent.addresses)
      BY Zenon DEF Private, Absent
    <3> QED
      BY <1>5, <3>1 DEF Privacy
  <2> QED
    BY <1>1, <1>2, <2>1, Zenon DEF Privacy
<1>10. Gone'
  <2>1. \A n \in Nodes : store[n] = Absent => store'[n] = Absent
    BY <1>5 DEF Absent
  <2> QED
    BY <1>1, <2>1, Zenon DEF Gone
<1>11. FirstRound'
  <2> SUFFICES ASSUME Registering
               PROVE  FirstRound'
    BY <1>1, Zenon DEF FirstRound, Registering
  <2>1. Spent' = Spent + 1 /\ Spent \in Nat /\ Spent + 1 < Ttl
    <3>1. CASE phase = "register"
      BY <1>1, <3>1, Room DEF Spent, TypeOK
    <3>2. CASE phase = "wait"
      <4>1. timer \in Nat /\ timer <= WaitTicks /\ timer > 0 /\ timer' = timer - 1
        BY <1>1, <1>4, <3>2, Zenon DEF TypeOK, FirstRound
      <4>2. /\ Spent = MaxDelay + (WaitTicks - timer)
            /\ Spent' = MaxDelay + (WaitTicks - timer')
        BY <1>1, <3>2, Zenon DEF Spent
      <4> QED
        BY <4>1, <4>2, Room
    <3> QED
      BY <3>1, <3>2, Zenon DEF Registering
  <2>2. ASSUME NEW n \in Nodes, store[n].left > 0
        PROVE  /\ store'[n].left > 0
               /\ store'[n].left + Spent' >= Ttl
               /\ store'[n].addresses = store[n].addresses
    <3>1. store[n].left + Spent >= Ttl /\ store[n].left \in Nat
      BY <2>2, Zenon DEF FirstRound, TypeOK
    <3>2. store[n].left > 1
      BY <2>1, <3>1, Room
    <3>3. store'[n].left = store[n].left - 1 /\ store'[n].addresses = store[n].addresses
      BY <1>5, <3>2, Zenon
    <3> QED
      BY <2>1, <3>1, <3>2, <3>3, Room
  <2>3. \A n \in Nodes : store[n].left = 0 => store'[n].left = 0
    BY <1>5
  <2>4. \A i \in 1..Len(events) : events[i].kind = "DiscoveryRegistered" =>
          /\ events[i].of \in Nodes
          /\ \/ <<events[i].of, "restart">> \in faults
             \/ store'[events[i].of].left > 0
    BY <2>2, Zenon DEF FirstRound
  <2>5. \A n \in Nodes :
         /\ n \in todo => wire[n] = <<>> /\ store'[n].left = 0
         /\ wire[n] # <<>> =>
              /\ Len(wire[n]) = 1
              /\ store'[n].left = 0
              /\ advertised \subseteq wire[n][1]
         /\ store'[n].left > 0 =>
              /\ store'[n].left + Spent' >= Ttl
              /\ advertised \subseteq store'[n].addresses
    <3> SUFFICES ASSUME NEW n \in Nodes
                 PROVE  /\ n \in todo => wire[n] = <<>> /\ store'[n].left = 0
                        /\ wire[n] # <<>> =>
                             /\ Len(wire[n]) = 1
                             /\ store'[n].left = 0
                             /\ advertised \subseteq wire[n][1]
                        /\ store'[n].left > 0 =>
                             /\ store'[n].left + Spent' >= Ttl
                             /\ advertised \subseteq store'[n].addresses
      BY Zenon
    <3>1. store[n].left \in Nat
      BY <1>5, Zenon
    <3> QED
      BY <2>2, <2>3, <3>1 DEF FirstRound
  <2>6. timer' <= WaitTicks \/ phase = "register"
    BY <1>4, Room DEF FirstRound, TypeOK
  <2>7. advertised \subseteq external
    BY Zenon DEF FirstRound
  <2> QED
    BY <1>1, <1>2, <2>4, <2>5, <2>6, <2>7, Zenon DEF FirstRound, Registering
<1>12. Renewed'
  <2> SUFFICES ASSUME phase = "serving", NEW n \in Nodes, store'[n].left > 0,
                      Answers(faults, n)
               PROVE  Fresh(n)'
    BY <1>1, Zenon DEF Renewed
  <2>1. /\ store[n].left \in Nat /\ lag[n] \in Nat /\ age \in Nat /\ renew \in Nat
        /\ store[n].left > 1 /\ store'[n].left = store[n].left - 1
        /\ lag'[n] = IF wire[n] # <<>> THEN lag[n] + 1 ELSE 0
    <3>1. /\ store[n].left \in Nat
          /\ store[n].left <= 1 => store'[n].left = 0
          /\ store[n].left > 1 => store'[n].left = store[n].left - 1
      BY <1>5, Zenon
    <3>2. lag[n] \in Nat /\ age \in Nat /\ renew \in Nat
      BY Zenon DEF TypeOK
    <3>3. lag'[n] = IF wire[n] # <<>> THEN lag[n] + 1 ELSE 0
      BY <1>1, Zenon
    <3> QED
      BY <3>1, <3>2, <3>3
  <2>2. Fresh(n)
    BY <2>1 DEF Renewed
  <2>3. CASE wire[n] # <<>>
    <3>1. store'[n].left + lag'[n] > MaxDelay
      BY <2>1, <2>2, <2>3, Room DEF Fresh
    <3> QED
      BY <1>1, <2>3, <3>1, Zenon DEF Fresh
  <2>4. CASE wire[n] = <<>> /\ task = "sleep"
    <3>1. store'[n].left > renew' + 2 * MaxDelay
      <4>1. store[n].left > renew + 2 * MaxDelay
        BY <2>2, <2>4, Zenon DEF Fresh
      <4>2. renew > 0 /\ renew' = renew - 1
        BY <1>1, <1>4, <2>4, Zenon
      <4> QED
        BY <2>1, <4>1, <4>2, Room
    <3> QED
      BY <1>1, <2>4, <3>1, Zenon DEF Fresh
  <2>5. CASE wire[n] = <<>> /\ task # "sleep"
    <3>1. task = "register"
      <4>1. n \in Federated /\ options \in Options
        BY <2>1 DEF Quiet, TypeOK
      <4>2. options.nodes # <<>>
        BY <4>1, FederatedNodes, Zenon
      <4> QED
        BY <2>5, <4>2, Zenon DEF Control, TypeOK
    <3>2. age' = age + 1
      BY <1>1, <3>1, Zenon
    <3>3. store'[n].left + age' = store[n].left + age
      BY <2>1, <3>2
    <3> QED
      BY <1>1, <2>2, <2>5, <3>3, Zenon DEF Fresh
  <2> QED
    BY <2>3, <2>4, <2>5, Zenon
<1> QED
  BY <1>6, <1>7, <1>8, <1>9, <1>10, <1>11, <1>12, Zenon
-----------------------------------------------------------------------------
\* `send` starts with nothing announced.
LEMMA InitIInv ==
  Init => IInv
<1> SUFFICES ASSUME Init
             PROVE  IInv
  BY Zenon
<1>1. \A n \in Nodes : wire[n] = <<>> /\ store[n] = Absent /\ lag[n] = 0
  BY Zenon DEF Init
<1>2. /\ Absent.left = 0 /\ Absent.addresses = {}
      /\ Absent \in [left : Nat, addresses : Records]
  BY Zenon DEF Absent, Records
<1>3. TypeOK
  <2>1. /\ wire \in [Nodes -> Seq(Records)] /\ events \in Seq(Events)
        /\ lag \in [Nodes -> Nat]
        /\ store \in [Nodes -> [left : Nat, addresses : Records]]
    BY <1>2 DEF Init
  <2> QED
    BY <2>1, Zenon DEF Init, TypeOK, Starting, Records
<1>4. Control
  BY Zenon DEF Init, Control
<1>5. Len(events) = 0 /\ \A n \in Nodes : Len(wire[n]) = 0
  BY <1>1, Zenon DEF Init
<1>6. Quiet
  BY <1>1, <1>2, <1>5 DEF Init, Quiet
<1>7. Privacy
  BY <1>1, <1>2, <1>5 DEF Init, Privacy, Private
<1>8. Gone
  BY <1>5 DEF Init, Gone
<1>9. FirstRound /\ Renewed
  BY Zenon DEF Init, FirstRound, Registering, Renewed
<1> QED
  BY <1>3, <1>4, <1>6, <1>7, <1>8, <1>9, Zenon DEF IInv

\* Every step keeps the invariant.
LEMMA NextIInv ==
  IInv /\ [Next]_vars => IInv'
<1> SUFFICES ASSUME IInv, [Next]_vars
             PROVE  IInv'
  BY Zenon
<1>1. CASE Command
  BY <1>1, StartListeningIInv, WaitForListenerIInv, ListenOnRelaysIInv,
     ReserveRelaysIInv, RelaysReservedIInv, AnnounceIInv, DispatchedIInv,
     WaitForRegistrationIInv, WaitTimesOutIInv, StopIInv, Zenon DEF Command
<1>2. CASE Upkeep
  BY <1>2, TaskIInv, RegisterIInv, UnregisterIInv, Zenon DEF Upkeep
<1>3. CASE StopServing
  BY <1>3, StopServingIInv, Zenon
<1>4. CASE NewListenAddr \/ handle_relay_event
  BY <1>4, SwarmIInv, Zenon
<1>5. ASSUME NEW n \in Nodes, NodeAccepts(n)
      PROVE  IInv'
  BY <1>5, NodeAcceptsIInv, Zenon
<1>6. ASSUME NEW n \in Nodes, NodeFails(n)
      PROVE  IInv'
  BY <1>6, MessageLostIInv, RestartIInv, Zenon
  DEF NodeFails, handle_rendezvous_event
<1>7. CASE Tick
  BY <1>7, TickIInv, Zenon
<1>8. CASE UNCHANGED vars
  <2>1. UNCHANGED <<options, phase, advertised, pending, reservations, listeners,
                    todo, age, timer, task, renew, cancelled, events, external,
                    wire, lag, store, withdrawn, faults>>
    BY <1>8, Zenon DEF vars, cli, rounds, upkeep, peers
  <2>2. Federated' = Federated /\ Spent' = Spent /\ Registering' = Registering
    BY <2>1, Zenon DEF Federated, Spent, Registering
  <2>3. TypeOK' /\ Control' /\ Quiet'
    BY <2>1, <2>2, Zenon DEF IInv, TypeOK, Control, Quiet
  <2>4. Privacy' /\ Gone'
    BY <2>1, Zenon DEF IInv, Privacy, Gone
  <2>5. FirstRound'
    BY <2>1, <2>2, Zenon DEF IInv, FirstRound
  <2>6. Renewed'
    BY <2>1, Zenon DEF IInv, Renewed, Fresh
  <2> QED
    BY <2>3, <2>4, <2>5, <2>6, Zenon DEF IInv
<1> QED
  BY <1>1, <1>2, <1>3, <1>4, <1>5, <1>6, <1>7, <1>8, Zenon DEF Next

-----------------------------------------------------------------------------
\* What is announced, sent, listed and due stays as IInv says.
THEOREM Invariance ==
  Spec => []IInv
<1> QED
  BY InitIInv, NextIInv, PTL DEF Spec

\* Whatever relays answer, a relay-only share publishes relay routes only and a
\* relayed share never its listener as well (start_reachable_network).
THEOREM RecordsRespectPrivacyAlways ==
  Spec => []RecordsRespectPrivacy
<1>1. IInv => RecordsRespectPrivacy
  <2> SUFFICES ASSUME IInv, NEW n \in Nodes,
                      NEW record \in Range(wire[n]) \cup {store[n].addresses}
               PROVE  Private(options, record)
    BY Zenon DEF RecordsRespectPrivacy, Private
  <2>1. CASE record = store[n].addresses
    BY <2>1, Zenon DEF IInv, Privacy
  <2>2. CASE record \in Range(wire[n])
    <3>1. wire[n] \in Seq(Records)
      BY Zenon DEF IInv, TypeOK
    <3>2. PICK i \in 1..Len(wire[n]) : record = wire[n][i]
      BY <2>2, <3>1 DEF Range
    <3> QED
      BY <3>2, Zenon DEF IInv, Privacy
  <2> QED
    BY <2>1, <2>2, Zenon
<1> QED
  BY <1>1, Invariance, PTL

\* No node lists the share again after it handled the unregister message,
\* whatever was on its way and however the task and the command interleave
\* (maintain_registrations, stop_registration).
THEOREM WithdrawnStaysGoneAlways ==
  Spec => []WithdrawnStaysGone
<1>1. IInv => WithdrawnStaysGone
  BY Zenon DEF IInv, TypeOK, Gone, WithdrawnStaysGone
<1> QED
  BY <1>1, Invariance, PTL

\* The step that prints the code (send.rs, emit_ready).
LEMMA ReadyStep ==
  ASSUME IInv, [Next]_vars, phase # "serving", phase' = "serving",
         options.nodes # <<>>
  PROVE  \E n \in Nodes : \/ <<n, "restart">> \in faults
                          \/ /\ store[n].left > 0
                             /\ advertised \subseteq store[n].addresses
<1>1. wait_for_public_registration
  <2>1. phase' # phase
    BY Zenon
  <2>2. Command
    BY <2>1, Zenon
    DEF Next, vars, Upkeep, StopServing, NewListenAddr, handle_relay_event,
       NodeAccepts, NodeFails, Tick, Sleep, Renew, Leave, register, unregister
  <2> QED
    BY <2>2, Zenon
    DEF Command, StartListening, wait_for_listener, ListenOnRelays,
       reserve_relays, RelaysReserved, Announce, Dispatched, WaitTimesOut, Stop, Fail
<1>2. phase = "wait" /\ recv /\ Head(events).kind = "DiscoveryRegistered"
  BY <1>1, Zenon DEF wait_for_public_registration, Received, Fail
<1>3. Head(events) = events[1] /\ 1 \in 1..Len(events)
  BY <1>2, EventTaken, Zenon DEF IInv
<1> QED
  BY <1>2, <1>3 DEF IInv, FirstRound, Registering

\* A code is printed only for a share that a node lists under everything it
\* advertises, unless that node has restarted, however late the event that
\* says so is read within the ten seconds (wait_for_public_registration).
THEOREM ReadyIsListedAlways ==
  Spec => ReadyIsListed
<1>1. IInv /\ [Next]_vars =>
        [phase # "serving" /\ phase' = "serving" /\ options.nodes # <<>> =>
           \E n \in Nodes : \/ <<n, "restart">> \in faults
                            \/ /\ store[n].left > 0
                               /\ advertised \subseteq store[n].addresses]_vars
  BY ReadyStep, Zenon
<1> QED
  BY <1>1, Invariance, PTL DEF Spec, ReadyIsListed

\* A step while the share is served.
LEMMA RenewedStep ==
  ASSUME IInv, [Next]_vars, phase = "serving", NEW n \in Nodes,
         store[n].left > 0, \A fault \in faults' : fault[1] # n
  PROVE  store'[n].left > 0
<1>1. /\ store[n].left \in Nat /\ store \in [Nodes -> [left : Nat, addresses : Records]]
      /\ task # "unregister"
  BY Zenon DEF IInv, TypeOK, Control
<1>2. CASE UNCHANGED store
  BY <1>2, Zenon
<1>3. ASSUME NEW m \in Nodes, NodeAccepts(m)
      PROVE  store'[n].left > 0
  <2>1. wire[m] \in Seq(Records) /\ wire[m] # <<>>
    BY <1>3, Zenon DEF IInv, TypeOK, NodeAccepts
  <2>2. 1 \in 1..Len(wire[m]) /\ Head(wire[m]) = wire[m][1]
    BY <2>1
  <2>3. Head(wire[m]) # {}
    BY <1>1, <2>2, Zenon DEF IInv, Gone
  <2>4. store' = [store EXCEPT ![m] = [left |-> Ttl, addresses |-> Head(wire[m])]]
    BY <1>3, <2>3, Zenon DEF NodeAccepts
  <2> QED
    BY <1>1, <2>4, Room
<1>4. ASSUME NEW m \in Nodes, NodeFails(m)
      PROVE  store'[n].left > 0
  <2>1. CASE UNCHANGED store
    BY <2>1, Zenon
  <2>2. CASE /\ faults' = faults \cup {<<m, "restart">>}
             /\ store' = [store EXCEPT ![m] = Absent]
    <3>1. <<m, "restart">> \in faults' /\ <<m, "restart">>[1] = m
      BY <2>2, Zenon
    <3>2. m # n
      BY <3>1, Zenon
    <3> QED
      BY <1>1, <2>2, <3>2, Zenon
  <2> QED
    BY <1>4, <2>1, <2>2, Zenon DEF NodeFails
<1>5. CASE Tick
  <2>1. Answers(faults, n) /\ Fresh(n)
    BY <1>5, Zenon DEF IInv, Renewed, Answers, Tick
  <2>2. store[n].left > 1
    <3>1. /\ lag[n] \in Nat /\ age \in Nat /\ renew \in Nat
          /\ wire[n] # <<>> => lag[n] < MaxDelay
          /\ task = "sleep" => renew > 0
          /\ task = "register" => age < MaxDelay
      BY <1>5, Zenon DEF IInv, TypeOK, Tick
    <3>2. CASE wire[n] # <<>>
      BY <1>1, <2>1, <3>1, <3>2, Room DEF Fresh
    <3>3. CASE wire[n] = <<>> /\ task = "sleep"
      BY <1>1, <2>1, <3>1, <3>3, Room DEF Fresh
    <3>4. CASE wire[n] = <<>> /\ task # "sleep"
      <4>1. n \in Federated /\ options \in Options
        BY Zenon DEF IInv, Quiet, TypeOK
      <4>2. options.nodes # <<>>
        BY <4>1, FederatedNodes, Zenon
      <4>3. task = "register"
        BY <1>1, <3>4, <4>2, Zenon DEF IInv, Control, TypeOK
      <4>4. \/ store[n].left + age > 2 * MaxDelay
            \/ store[n].left + age > 3 * MaxDelay + renewal_delay(Ttl)
        BY <2>1, <3>4, Zenon DEF Fresh
      <4> QED
        BY <1>1, <3>1, <4>3, <4>4, Room
    <3> QED
      BY <3>2, <3>3, <3>4, Zenon
  <2>3. store'[n] = [store[n] EXCEPT !.left = @ - 1]
    BY <1>1, <1>5, <2>2 DEF Tick
  <2> QED
    BY <1>1, <2>2, <2>3
<1>6. CASE Command \/ Upkeep \/ StopServing \/ NewListenAddr \/ handle_relay_event
           \/ UNCHANGED vars
  <2>1. UNCHANGED store
    BY <1>6, Zenon DEF Command, Upkeep, vars, peers, StopServing, NewListenAddr,
       handle_relay_event, StartListening, wait_for_listener, ListenOnRelays,
       reserve_relays, RelaysReserved, Announce, Dispatched,
       wait_for_public_registration, WaitTimesOut, Stop, Sleep, Renew, Leave,
       register, unregister
  <2> QED
    BY <1>2, <2>1, Zenon
<1> QED
  BY <1>3, <1>4, <1>5, <1>6, Zenon DEF Next

\* A node that answers never lets the listing of a served share lapse, for any
\* lifetime that leaves room for a renewal (renewal_delay,
\* maintain_registrations).
THEOREM RenewedInTimeAlways ==
  Spec => RenewedInTime
<1>1. IInv /\ [Next]_vars =>
        [phase = "serving" =>
           \A n \in Nodes :
             /\ store[n].left > 0
             /\ \A fault \in faults' : fault[1] # n
             => store'[n].left > 0]_vars
  BY RenewedStep, Zenon
<1> QED
  BY <1>1, Invariance, PTL DEF Spec, RenewedInTime
=============================================================================
