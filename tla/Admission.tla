------------------------------ MODULE Admission ------------------------------
(***************************************************************************)
(* Connection admission by source IP (crates/node/src/admission.rs), which *)
(* libp2p asks before it negotiates an inbound connection.                 *)
(*                                                                         *)
(* The swarm is external, one status per connection:                       *)
(*                                                                         *)
(*   new           not seen yet                                            *)
(*   negotiating   admitted here; another behaviour may still deny it      *)
(*   open          established                                             *)
(*   closed        denied, failed or closed, and reported so               *)
(***************************************************************************)
EXTENDS Naturals, FiniteSets, Functions

CONSTANTS
  Connections,             \* inbound ConnectionIds, handed out in order
  Outbound,                \* outbound ConnectionIds
  Ips,
  max_connections_per_ip, attempts_per_minute, max_rate_ips,
  RATE_WINDOW,
  MaxTime,                 \* bound on the clock
  NoIp                     \* what an address without an IP has

\* What NodeConfig::validate guarantees of the limits.
ValidLimits ==
  /\ max_connections_per_ip \in Nat \ {0}
  /\ attempts_per_minute \in Nat \ {0}
  /\ max_rate_ips \in Nat \ {0}

AdmissionAssumption ==
  /\ ValidLimits
  /\ RATE_WINDOW \in Nat \ {0}
  /\ MaxTime \in Nat
  /\ NoIp \notin Ips
  /\ Connections \subseteq Nat /\ Connections \cap Outbound = {}

VARIABLES
  pending,      \* connection -> ip
  established,  \* connection -> ip
  rate,         \* ip -> started, attempts
  now,          \* Instant::now()
  swarm,        \* external: connection -> status
  admitted      \* history: connection -> ip and time of its admission

vars == <<pending, established, rate, now, swarm, admitted>>

Init ==
  /\ pending = <<>>
  /\ established = <<>>
  /\ rate = <<>>
  /\ now = 0
  /\ swarm = [c \in Connections \cup Outbound |-> "new"]
  /\ admitted = <<>>

Insert(f, k, v) == [x \in DOMAIN f \cup {k} |-> IF x = k THEN v ELSE f[x]]
Remove(f, k) == Restrict(f, DOMAIN f \ {k})
-----------------------------------------------------------------------------
Held(ip) == {c \in DOMAIN pending : pending[c] = ip}
              \cup {c \in DOMAIN established : established[c] = ip}

Retained_none == <<>>

Retained ==
  RestrictValues(rate, LAMBDA b : now - b.started < RATE_WINDOW)

\* The table is only cleaned when a new address finds it full.
Cleaned(ip) ==
  IF ip \notin DOMAIN rate /\ Cardinality(DOMAIN rate) = max_rate_ips
    THEN Retained
    ELSE rate

NoRoom(ip) ==
  ip \notin DOMAIN rate /\ Cardinality(DOMAIN Cleaned(ip)) = max_rate_ips

\* The bucket of an address, restarted when it is new or its window is over.
Bucket(ip) ==
  IF ip \in DOMAIN Cleaned(ip) /\ now - Cleaned(ip)[ip].started < RATE_WINDOW
    THEN Cleaned(ip)[ip]
    ELSE [started |-> now, attempts |-> 0]

admit(c, ip) ==
  /\ ip # NoIp
  /\ Cardinality(Held(ip)) < max_connections_per_ip
  /\ ~NoRoom(ip)
  /\ Bucket(ip).attempts < attempts_per_minute
  /\ rate' = Insert(Cleaned(ip), ip, [Bucket(ip) EXCEPT !.attempts = @ + 1])
  /\ pending' = Insert(pending, c, ip)

\* The early returns of admit, and what each has changed by then.
denied(ip) ==
  \/ /\ \/ ip = NoIp
        \/ Cardinality(Held(ip)) >= max_connections_per_ip
     /\ UNCHANGED rate
  \/ /\ ip # NoIp
     /\ Cardinality(Held(ip)) < max_connections_per_ip
     /\ \/ /\ NoRoom(ip)
           /\ rate' = Cleaned(ip)
        \/ /\ ~NoRoom(ip)
           /\ Bucket(ip).attempts >= attempts_per_minute
           /\ rate' = Insert(Cleaned(ip), ip, Bucket(ip))

\* handle_pending_inbound_connection.  A denied connection is reported back to
\* every behaviour as a ListenFailure, which releases nothing here.
handle_pending_inbound_connection(c, ip) ==
  /\ swarm[c] = "new" /\ \A d \in Connections : d < c => swarm[d] # "new"
  /\ \/ /\ admit(c, ip)
        /\ swarm' = [swarm EXCEPT ![c] = "negotiating"]
        /\ admitted' = Insert(admitted, c, [ip |-> ip, time |-> now])
     \/ /\ denied(ip)
        /\ swarm' = [swarm EXCEPT ![c] = "closed"]
        /\ UNCHANGED <<pending, admitted>>
  /\ UNCHANGED <<established, now>>

release_pending(c) ==
  /\ pending' = Remove(pending, c)
  /\ UNCHANGED established

release(c) ==
  /\ pending' = Remove(pending, c)
  /\ established' = Remove(established, c)

ConnectionEstablished(c) ==
  /\ \/ c \in Connections /\ swarm[c] = "negotiating"
     \/ c \in Outbound /\ swarm[c] = "new"
  /\ swarm' = [swarm EXCEPT ![c] = "open"]
  /\ \/ /\ c \in DOMAIN pending
        /\ established' = Insert(established, c, pending[c])
        /\ pending' = Remove(pending, c)
     \/ /\ c \notin DOMAIN pending
        /\ UNCHANGED <<pending, established>>
  /\ UNCHANGED <<rate, now, admitted>>

\* The negotiation fails, or connection_limits or memory_limits denies it.
ListenFailure(c) ==
  /\ c \in Connections /\ swarm[c] = "negotiating"
  /\ swarm' = [swarm EXCEPT ![c] = "closed"]
  /\ release(c)
  /\ UNCHANGED <<rate, now, admitted>>

ConnectionClosed(c) ==
  /\ swarm[c] = "open"
  /\ swarm' = [swarm EXCEPT ![c] = "closed"]
  /\ release(c)
  /\ UNCHANGED <<rate, now, admitted>>

Tick ==
  /\ now < MaxTime
  /\ now' = now + 1
  /\ UNCHANGED <<pending, established, rate, swarm, admitted>>

Next ==
  \/ \E c \in Connections, ip \in Ips \cup {NoIp} :
       handle_pending_inbound_connection(c, ip)
  \/ \E c \in Connections \cup Outbound :
       ConnectionEstablished(c) \/ ConnectionClosed(c) \/ ListenFailure(c)
  \/ Tick

Spec == Init /\ [][Next]_vars
-----------------------------------------------------------------------------
\* The two tables hold exactly the inbound connections the swarm has, each in
\* its state and under its address: no failure leaks a slot and none is
\* released twice or too early.  So no address has more than
\* max_connections_per_ip connections, negotiating and open ones together.
TablesMatchSwarm ==
  /\ DOMAIN pending = {c \in Connections : swarm[c] = "negotiating"}
  /\ DOMAIN established = {c \in Connections : swarm[c] = "open"}
  /\ \A c \in DOMAIN pending : pending[c] = admitted[c].ip
  /\ \A c \in DOMAIN established : established[c] = admitted[c].ip
  /\ \A ip \in Ips : Cardinality(Held(ip)) <= max_connections_per_ip

\* Cleaning a full table forgives nobody: over any RATE_WINDOW an address is
\* admitted at most twice the limit, once for each bucket the window touches.
AtMostTwoBuckets ==
  \A ip \in Ips, start \in 0..MaxTime :
    Cardinality({c \in DOMAIN admitted :
                   /\ admitted[c].ip = ip
                   /\ admitted[c].time \in start..(start + RATE_WINDOW - 1)})
      <= 2 * attempts_per_minute
=============================================================================
