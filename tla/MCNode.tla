------------------------------- MODULE MCNode -------------------------------
(* The parts of a node beside its event loop.  They share no state: in     *)
(* each behaviour one of them runs, the subject, and the others stay in an *)
(* initial state.                                                          *)
EXTENDS Admission

CONSTANTS p1, p2, p3, n1, n2, ip1, ip2, slow, checker

VARIABLES
  subject,
  registrations, cookies, cookie_order, rates, next_registration,
  next_cookie, clock, pages,
  node, ready, quiet, stalled, drained, conn, check,
  config, declared, phase, groups, low, high, message, request

\* A store with long chains of pages.
Paging == INSTANCE RendezvousStore WITH
  Peers <- {p1, p2}, Namespaces <- {n1}, MinTtl <- 1, MaxTtl <- 1,
  PerPeer <- 1, Total <- 2, PerNamespace <- 2, Cookies <- 2, Results <- 1,
  RegisterRate <- 2, DiscoverRate <- 2, RatePeers <- 2, WINDOW <- 3,
  MaxRegistrations <- 3, MaxDiscoveries <- 3, MaxTime <- 1,
  now <- clock, None <- NoIp

\* A store in which every limit is reached.
Limits == INSTANCE RendezvousStore WITH
  Peers <- {p1, p2, p3}, Namespaces <- {n1, n2}, MinTtl <- 2, MaxTtl <- 2,
  PerPeer <- 1, Total <- 2, PerNamespace <- 2, Cookies <- 1, Results <- 1,
  RegisterRate <- 1, DiscoverRate <- 1, RatePeers <- 2, WINDOW <- 1,
  MaxRegistrations <- 3, MaxDiscoveries <- 2, MaxTime <- 1,
  now <- clock, None <- NoIp

\* Admission itself, with more connections than both limits allow, and more
\* addresses than buckets.
MCConnections == 1..5
MCIps == {ip1, ip2}

\* One other client beside the healthcheck command, and one place.
Operations == INSTANCE OperationsEndpoint WITH
  Clients <- {slow}, Checker <- checker, MAX_CONNECTIONS <- 1

\* Lengths at the edges of the varint's bytes and of the bound, and
\* configurations at the edges of NodeConfig::validate.
Wire == INSTANCE RendezvousWire WITH
  Lengths <- {0, 127, 128, 16383, 16384, 1048576, 1048577},
  ByteValues <- {0, 1, 2, 64, 127, 128, 255},
  Configs <- [max_ttl : {86400}, record_bytes : {512, 14400, 16384},
              results : {1, 56, 64}]

ASSUME /\ Paging!StoreAssumption /\ Limits!StoreAssumption
       /\ AdmissionAssumption /\ Operations!OperationsAssumption

store == <<registrations, cookies, cookie_order, rates, next_registration,
           next_cookie, clock, pages>>
operations == <<node, ready, quiet, stalled, drained, conn, check>>
wire == <<config, declared, phase, groups, low, high, message, request>>
partVars == <<subject, store, vars, operations, wire>>

PartsInit ==
  /\ subject \in {"paging", "limits", "admission", "operations", "wire"}
  /\ Init /\ Paging!Init /\ Limits!Init /\ Operations!Init /\ Wire!Init
  /\ subject # "wire" =>
       declared = 0 /\ config.record_bytes = 512 /\ config.results = 1

PartsNext ==
  \/ /\ subject = "paging" /\ Paging!Next
     /\ UNCHANGED <<subject, vars, operations, wire>>
  \/ /\ subject = "limits" /\ Limits!Next
     /\ UNCHANGED <<subject, vars, operations, wire>>
  \/ /\ subject = "admission" /\ Next
     /\ UNCHANGED <<subject, store, operations, wire>>
  \/ /\ subject = "operations" /\ Operations!Next
     /\ UNCHANGED <<subject, store, vars, wire>>
  \/ /\ subject = "wire" /\ Wire!Next
     /\ UNCHANGED <<subject, store, vars, operations>>

PartsSpec == PartsInit /\ [][PartsNext]_partVars
-----------------------------------------------------------------------------
\* RendezvousStore: a cookie remembers exactly what its pages handed out and
\* is still registered (Store::discover, remove_from_cookies).
SeenIsLiveHistory == subject \in {"paging", "limits"} => Paging!SeenIsLiveHistory

\* RendezvousStore: every table stays within its configured limit, whatever
\* is replaced, expires or is evicted (Store::register, Store::discover).
WithinLimits ==
  /\ subject = "paging" => Paging!WithinLimits
  /\ subject = "limits" => Limits!WithinLimits

\* RendezvousStore: the pages of one cookie move forward and never repeat a
\* registration (Store::discover).
PagesAdvance == Paging!PagesAdvance

\* OperationsEndpoint: a healthcheck that succeeds was answered by a node that
\* had made progress, or was not draining, at most one write before
\* (is_live, is_ready, serve_connection).
HealthcheckIsTruthful == Operations!HealthcheckIsTruthful

\* RendezvousWire: a payload is read only for the length that was declared
\* and within the bound (read_frame).
LengthsAreExact == Wire!LengthsAreExact
=============================================================================
