--------------------------- MODULE RouteDiscovery ---------------------------
(***************************************************************************)
(* How a receiver finds and tries the routes to a sender: discover_routes  *)
(* and receive_direct_with_code (crates/cli/src/commands/shared.rs), the   *)
(* bounded CandidateSet and its address policy (crates/network/src/        *)
(* discovery.rs), name resolution (dns.rs) and LAN records (lan.rs).       *)
(*                                                                         *)
(* A multiaddress is the sequence of its protocols, a protocol a record of *)
(* its name and its argument; the argument of an IP protocol is its scope. *)
(***************************************************************************)
EXTENDS Naturals, Sequences, FiniteSets, SequencesExt

CONSTANTS
  Me,             \* the peer id of the receiver
  Nodes,          \* discovery nodes
  Settings,       \* the connection options a receiver may be given
  Records,        \* the DiscoveredPeers a node or the LAN may report
  MaxPerResult,   \* bound on the records in one answer
  Lookup,         \* external: host name -> scopes of the addresses it has
  MaxPeers, MaxAddresses,   \* CandidatePolicy
  MaxLookup,      \* MAX_RESOLVED_ADDRESSES
  MaxRecord,      \* the 8 of resolve_discovered_peer, before resolution
  MaxResolved,    \* and its 16, after it
  EventCapacity,
  MaxLan          \* bound on LAN events

Proto(name, of) == [proto |-> name, of |-> of]
Ip(scope) == Proto("ip", scope)

Has(address, name) == \E i \in DOMAIN address : address[i].proto = name
First(s, n) == SubSeq(s, 1, IF Len(s) < n THEN Len(s) ELSE n)
-----------------------------------------------------------------------------
\* dns::resolve: at most one name, replaced by each address it has; <<>> is a
\* failure.  A dnsaddr has no host to look up.
dns_components(address) ==
  {i \in DOMAIN address : address[i].proto \in {"dns", "dnsaddr"}}

resolve(address) ==
  LET names == dns_components(address)
      Expanded(i, scope) == [address EXCEPT ![i] = Ip(scope)]
  IN  CASE names = {} -> <<address>>
        [] Cardinality(names) > 1 -> <<>>
        [] OTHER -> LET i == CHOOSE i \in names : TRUE
                    IN  IF address[i].proto = "dnsaddr" THEN <<>>
                        ELSE [k \in DOMAIN First(Lookup[address[i].of], MaxLookup)
                                |-> Expanded(i, Lookup[address[i].of][k])]

\* resolve_discovered_peer.
resolve_discovered_peer(record) ==
  [record EXCEPT !.addresses =
     First(FlattenSeq([i \in DOMAIN First(@, MaxRecord) |-> resolve(@[i])]),
           MaxResolved)]

P2ps(address) == {i \in DOMAIN address : address[i].proto = "p2p"}

\* The peer a route claims to lead to: the first named behind a circuit, or
\* the last one named.
Target(address, peer) ==
  LET circuits == {i \in DOMAIN address : address[i].proto = "p2p-circuit"}
      behind == {i \in P2ps(address) : \A c \in circuits : i > c}
      named == IF circuits # {} THEN behind ELSE P2ps(address)
  IN  IF named = {} THEN peer
      ELSE address[IF circuits # {} THEN Min(named) ELSE Max(named)].of

\* classify_address; "None" rejects the address.
classify_address(address, peer, policy) ==
  CASE \/ address = <<>> \/ Has(address, "dns") \/ Has(address, "dnsaddr")
       \/ Target(address, peer) # peer                   -> "None"
    [] Has(address, "p2p-circuit")                       -> "Relay"
    [] policy.relay_only                                 -> "None"
    [] \E i \in DOMAIN address : address[i] = Ip("private") ->
         IF policy.allow_lan THEN "Lan" ELSE "None"
    [] Has(address, "quic-v1")                           -> "PublicQuic"
    [] Has(address, "tcp")                               -> "PublicTcp"
    [] OTHER                                             -> "None"

RouteKind == <<"PublicQuic", "PublicTcp", "Lan", "Relay">>
KindRank(kind) == CHOOSE i \in DOMAIN RouteKind : RouteKind[i] = kind

Of(routes, peer) == {c \in routes : c.peer = peer}
PeersOf(routes) == {c.peer : c \in routes}

\* CandidateSet::insert: a new peer needs room, and of a known one only the
\* first addresses are looked at, until its list is full.
insert(routes, record, policy) ==
  LET step(set, a) ==
        LET kind == classify_address(a, record.peer, policy)
        IN  IF kind = "None" \/ Cardinality(Of(set, record.peer)) = MaxAddresses
              THEN set
              ELSE set \cup {[peer |-> record.peer, address |-> a, kind |-> kind]}
  IN  IF /\ record.peer \notin PeersOf(routes)
         /\ Cardinality(PeersOf(routes)) = MaxPeers
        THEN routes
        ELSE FoldLeft(step, routes, First(record.addresses, MaxAddresses))

InsertAll(routes, records, policy) ==
  FoldLeft(LAMBDA set, r : insert(set, resolve_discovered_peer(r), policy),
           routes, records)

\* CandidateSet::into_ranked; the order of peers and addresses within a kind
\* is some fixed one.
into_ranked(routes) ==
  SetToSortSeq(routes, LAMBDA a, b : KindRank(a.kind) < KindRank(b.kind))
-----------------------------------------------------------------------------
VARIABLES
  settings,       \* the resolved ConnectionArgs
  phase,          \* "start", "discover", "dial", "found", "failed"
  events,         \* the driver's event queue
  asked,          \* nodes whose lookup is under way
  pending_nodes,  \* nodes discover_routes still waits for
  routes,         \* CandidateSet::routes
  ranked,         \* the routes that are left to try, best first
  current,        \* the candidates already tried
  expired,        \* the discovery window was over
  lan_left        \* bound on LAN events

vars == <<settings, phase, events, asked, pending_nodes, routes, ranked,
          current, expired, lan_left>>

Policy == [relay_only |-> settings.relay_only, allow_lan |-> settings.lan]
AllRecords == UNION {[1..k -> Records] : k \in 0..MaxPerResult}

Init ==
  /\ settings \in Settings
  /\ phase = "start"
  /\ events = <<>> /\ asked = {} /\ pending_nodes = {}
  /\ routes = {} /\ ranked = <<>> /\ current = {}
  /\ expired = FALSE /\ lan_left = MaxLan

\* receive_direct_with_code: an explicit peer and address are tried alone.
Explicit ==
  /\ phase = "start" /\ settings.explicit # <<>>
  /\ phase' = "dial"
  /\ ranked' = settings.explicit
  /\ UNCHANGED <<settings, events, asked, pending_nodes, routes, current,
                 expired, lan_left>>

\* discover_routes: dispatch_discovery asks what it can resolve, and the loop
\* then waits for every configured node.
StartDiscovery ==
  /\ phase = "start" /\ settings.explicit = <<>>
  /\ IF settings.nodes = {} /\ ~settings.mdns
       THEN phase' = "failed" /\ UNCHANGED <<asked, pending_nodes>>
       ELSE /\ phase' = "discover"
            /\ asked' \in SUBSET settings.nodes
            /\ pending_nodes' = settings.nodes
  /\ UNCHANGED <<settings, events, routes, ranked, current, expired,
                 lan_left>>

\* The driver reports what a node or the LAN delivered; a full queue drops it.
try_send(event) ==
  events' = IF Len(events) < EventCapacity THEN Append(events, event) ELSE events

\* External: a node answers with registrations, or the lookup fails.
handle_rendezvous_event(n) ==
  /\ phase = "discover" /\ n \in asked
  /\ asked' = asked \ {n}
  /\ \/ \E records \in AllRecords : try_send([node |-> n, records |-> records])
     \/ try_send([node |-> n, records |-> <<>>])
  /\ UNCHANGED <<settings, phase, pending_nodes, routes, ranked, current,
                 expired, lan_left>>

\* External: mDNS resolves a service.  Its own is skipped, and it lists plain
\* TCP endpoints only.
handle_lan_event ==
  /\ phase = "discover" /\ settings.mdns /\ ~settings.relay_only /\ lan_left > 0
  /\ lan_left' = lan_left - 1
  /\ \E r \in Records :
       /\ r.peer # Me
       /\ r.addresses # <<>>
       /\ \A i \in DOMAIN r.addresses :
            Len(r.addresses[i]) = 2 /\ Has(r.addresses[i], "ip")
                                    /\ Has(r.addresses[i], "tcp")
       /\ try_send([node |-> Me, records |-> <<r>>])
  /\ UNCHANGED <<settings, phase, asked, pending_nodes, routes, ranked, current,
                 expired>>

Finish ==
  /\ phase' = "dial"
  /\ ranked' = into_ranked(routes')

Complete == pending_nodes' = {} /\ ~settings.mdns

\* discover_routes takes one event, and ends when every node has answered.
TakeEvent ==
  /\ phase = "discover" /\ ~expired /\ events # <<>>
  /\ events' = Tail(events)
  /\ pending_nodes' = pending_nodes \ {Head(events).node}
  /\ routes' = InsertAll(routes, Head(events).records, Policy)
  /\ IF Complete THEN Finish ELSE UNCHANGED <<phase, ranked>>
  /\ UNCHANGED <<settings, asked, current, expired, lan_left>>

\* The discovery window is over.
WindowEnds ==
  /\ phase = "discover"
  /\ expired' = TRUE
  /\ UNCHANGED routes
  /\ Finish
  /\ UNCHANGED <<settings, events, asked, pending_nodes, current,
                 lan_left>>

Dial_stops_at_own ==
  /\ phase = "dial"
  /\ IF ranked = <<>> \/ Head(ranked).peer = Me
       THEN phase' = "failed" /\ UNCHANGED <<ranked, current>>
       ELSE /\ ranked' = Tail(ranked)
            /\ current' = current \cup {Head(ranked)}
            /\ phase' \in {"dial", "found"}
  /\ UNCHANGED <<settings, events, asked, pending_nodes, routes, expired,
                 lan_left>>

\* The next route is tried; the receiver's own record is skipped.
Dial ==
  /\ phase = "dial"
  /\ IF ranked = <<>> THEN phase' = "failed" /\ UNCHANGED <<ranked, current>>
     ELSE /\ ranked' = Tail(ranked)
          /\ \/ /\ Head(ranked).peer = Me /\ settings.explicit = <<>>
                /\ UNCHANGED <<phase, current>>
             \/ /\ Head(ranked).peer # Me \/ settings.explicit # <<>>
                /\ current' = current \cup {Head(ranked)}
                /\ phase' \in {"dial", "found"}
  /\ UNCHANGED <<settings, events, asked, pending_nodes, routes, expired,
                 lan_left>>

Next ==
  \/ Explicit \/ StartDiscovery \/ TakeEvent \/ WindowEnds \/ Dial
  \/ handle_lan_event
  \/ \E n \in Nodes : handle_rendezvous_event(n)

Spec == Init /\ [][Next]_vars
-----------------------------------------------------------------------------
Searched == phase = "failed" /\ settings.explicit = <<>>

\* "share not found" before the window is over means that every node that was
\* asked has been and, always, that every candidate of another peer was
\* tried (discover_routes, receive_direct_with_code).
NotFoundLookedEverywhere ==
  Searched =>
    /\ settings.nodes # {} /\ ~expired => asked = {} /\ pending_nodes = {}
    /\ current = {c \in routes : c.peer # Me}
=============================================================================
