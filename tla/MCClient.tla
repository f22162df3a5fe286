------------------------------ MODULE MCClient ------------------------------
(* The parts of the client beside the transfer itself.  They share no      *)
(* state: in each behaviour one of them runs, the subject, and the         *)
(* variables of the others are 0.  A variable that several specifications  *)
(* name stands for that of the subject.                                    *)
EXTENDS WireLimits, Sequences, FiniteSets

CONSTANTS
  p1, p2, r1, r2, n1, n2, e1, e2, v1, v2, A, B, x, y, origin, other, me,
  Direct, None

VARIABLES
  subject, phase, pending, events, asked, received, mode,
  file, saved,
  profile, via, probe, connected, circuit, direct, reservations, listeners,
  circuits, registered, discovered, todo, external, due, told, links,
  granted, accepted, answered, mishap,
  args, destination, action, contents, temporary, synced, fs, stable,
  unused, early, prompts,
  existing, step, result,
  inherited, waiter, child, environment, handler, acked, status, presses,
  direction, message, wire, reader, got,
  settings, pending_nodes, routes, ranked, current, expired, lan_left
-----------------------------------------------------------------------------
(* ClientConfig: two processes, and a bound of two networks, so that the   *)
(* built-in one and a second fill it.                                      *)

NetworkProfile(id, relays, relay_only, rendezvous) ==
  [network_id |-> id, require_relay |-> relays # <<>>, relay_only |-> relay_only,
   rendezvous |-> rendezvous, relays |-> relays]
Team == NetworkProfile("team-v1", <<"r">>, TRUE, <<"n", "r">>)

NetworkProfiles ==
  {NetworkProfile("", <<>>, FALSE, <<"n">>), Team,
   NetworkProfile("team-v1", <<>>, FALSE, <<"n", "n">>),
   NetworkProfile("team-v1", <<>>, FALSE, <<"bad">>),
   NetworkProfile("team-v1", <<>>, FALSE, <<"n", "r", "p">>),
   [Team EXCEPT !.relays = <<>>]}

Unchanged == [network |-> "unset", share_ttl |-> "unset", relay_only |-> "unset",
              mdns |-> "unset"]
SomeEnvironments ==
  {Unchanged, [Unchanged EXCEPT !.network = "team"], [Unchanged EXCEPT !.network = ""],
   [Unchanged EXCEPT !.relay_only = "true"], [Unchanged EXCEPT !.share_ttl = "bad"]}

File(version, default, mdns, networks) ==
  [version |-> version, default_network |-> default, share_ttl |-> "10m",
   relay_only |-> FALSE, mdns |-> mdns, networks |-> [n \in networks |-> Team]]
SomeFiles == {File(1, "team", FALSE, {"team", "other"}), File(1, "other", TRUE, {"other"}),
              File(0, "public", FALSE, {})}

Config == INSTANCE ClientConfig WITH
  Processes <- {p1, p2}, Names <- {"public", "team", ""},
  Profiles <- NetworkProfiles, Environments <- SomeEnvironments,
  Files <- SomeFiles, MAX_NETWORKS <- 2, MAX_NODES <- 2
-----------------------------------------------------------------------------
(* Doctor: two relays with a node, a relay with two nodes, and profiles    *)
(* without a relay or without a node.                                      *)

DoctorProfile(nodes, relays, required) ==
  [rendezvous |-> nodes, relays |-> relays, require_relay |-> required]

Diagnosis == INSTANCE Doctor WITH
  Profiles <- {DoctorProfile({n1}, {r1, r2}, TRUE), DoctorProfile({n1, n2}, {r1}, FALSE),
               DoctorProfile({n1}, {}, FALSE), DoctorProfile({}, {r1}, FALSE)},
  EventCapacity <- 1
-----------------------------------------------------------------------------
(* PrivateOutput: two paths, two edits and one "save elsewhere".           *)

Output == INSTANCE PrivateOutput WITH
  Paths <- {p1, p2}, Edits <- {e1, e2}, MaxPrompts <- 1
-----------------------------------------------------------------------------
(* DotenvMerge: documents of up to three lines over two keys and texts.    *)

Line(key, text) == [key |-> key, text |-> text, quote |-> FALSE]
OneLiners == {Line(None, <<>>)} \cup {Line(k, <<t>>) : k \in {A, B}, t \in {x, y}}
Documents(n) == UNION {[1..m -> OneLiners] : m \in 0..n}

Merging == INSTANCE DotenvMerge WITH
  Keys <- {A, B}, Texts <- {x, y}, Existing <- Documents(3),
  Received <- Documents(2), MaxLines <- 4
-----------------------------------------------------------------------------
(* RunCommand: one variable, two exit statuses and two presses of Ctrl+C.  *)

Running == INSTANCE RunCommand WITH
  Names <- {n1}, Statuses <- {0, 1}, MaxPresses <- 2
-----------------------------------------------------------------------------
(* TransferWire: lengths with short and long heads, up to the limits.      *)

Wire == INSTANCE TransferWire WITH
  Payloads <- {0, 65536, MAX_PAYLOAD_BYTES},
  Names <- {0, MAX_SUGGESTED_NAME_BYTES}, Values <- {v1, v2}
-----------------------------------------------------------------------------
(* RouteDiscovery: a sender, a stranger and the receiver itself, with      *)
(* every kind of address.                                                  *)

Proto(protocol, of) == [proto |-> protocol, of |-> of]
Ip(scope) == Proto("ip", scope)
Tcp == Proto("tcp", "")
Name == Proto("dns", "name")
Quic1 == <<Ip("public"), Proto("quic-v1", "")>>
Tcp1 == <<Ip("public"), Tcp>>
Lan1 == <<Ip("private"), Tcp>>
Relayed == <<Ip("private"), Tcp, Proto("p2p", other), Proto("p2p-circuit", ""),
             Proto("p2p", origin)>>

Listed(peer, addresses) == [peer |-> peer, addresses |-> addresses]
SomeRecords ==
  {Listed(origin, <<Quic1, Tcp1>>), Listed(origin, <<Relayed, Lan1>>),
   Listed(origin, <<<<Proto("dns", "gone"), Tcp>>, <<Name, Tcp, Proto("p2p", origin)>>,
                    <<Ip("public"), Tcp, Proto("p2p", other)>>>>),
   Listed(origin, <<<<Name, Name, Tcp>>, <<Proto("dnsaddr", "name"), Tcp>>, Quic1>>),
   Listed(other, <<Relayed, <<Ip("public")>>, <<>>, Tcp1>>), Listed(other, <<Lan1>>),
   Listed(me, <<Tcp1>>)}

SomeSettings ==
  {[relay_only |-> r, lan |-> l, mdns |-> m, nodes |-> n, explicit |-> <<>>] :
     r \in BOOLEAN, l \in BOOLEAN, m \in BOOLEAN, n \in {{}, {n1}, {n1, n2}}}
  \cup {[relay_only |-> FALSE, lan |-> FALSE, mdns |-> FALSE, nodes |-> {},
         explicit |-> <<[peer |-> origin, address |-> Lan1, kind |-> "Lan"]>>]}

Routes == INSTANCE RouteDiscovery WITH
  Me <- me, Nodes <- {n1, n2}, Settings <- SomeSettings, Records <- SomeRecords,
  Lookup <- [name |-> <<"public", "private">>, gone |-> <<>>],
  MaxPerResult <- 2, MaxPeers <- 2, MaxAddresses <- 2, MaxLookup <- 2,
  MaxRecord <- 3, MaxResolved <- 4, EventCapacity <- 1, MaxLan <- 1
-----------------------------------------------------------------------------
configVars == <<file, saved>>
doctorVars == <<profile, via, probe, connected, circuit, direct, reservations,
                listeners, circuits, registered, discovered, todo, external,
                due, told, links, granted, accepted, answered, mishap>>
outputVars == <<args, destination, action, contents, temporary, synced, fs,
                stable, unused, early, prompts>>
mergeVars == <<existing, step, result>>
runVars == <<inherited, waiter, child, environment, handler, acked, status,
             presses>>
wireVars == <<direction, message, wire, reader, got>>
routeVars == <<settings, pending_nodes, routes, ranked, current, expired,
               lan_left>>
vars == <<subject, phase, pending, events, asked, received, mode, configVars,
          doctorVars, outputVars, mergeVars, runVars, wireVars, routeVars>>

NoConfig == file = 0 /\ saved = 0
NoDoctor ==
  /\ profile = 0 /\ via = 0 /\ probe = 0 /\ connected = 0 /\ circuit = 0
  /\ direct = 0 /\ reservations = 0 /\ listeners = 0 /\ circuits = 0
  /\ registered = 0 /\ discovered = 0 /\ todo = 0 /\ external = 0 /\ due = 0
  /\ told = 0 /\ links = 0 /\ granted = 0 /\ accepted = 0 /\ answered = 0
  /\ mishap = 0
NoOutput ==
  /\ args = 0 /\ destination = 0 /\ action = 0 /\ contents = 0
  /\ temporary = 0 /\ synced = 0 /\ fs = 0 /\ stable = 0 /\ unused = 0
  /\ early = 0 /\ prompts = 0
NoMerge == existing = 0 /\ step = 0 /\ result = 0
NoRun ==
  /\ inherited = 0 /\ waiter = 0 /\ child = 0 /\ environment = 0
  /\ handler = 0 /\ acked = 0 /\ status = 0 /\ presses = 0
NoWire == direction = 0 /\ message = 0 /\ wire = 0 /\ reader = 0 /\ got = 0
NoRoutes ==
  /\ settings = 0 /\ pending_nodes = 0 /\ routes = 0 /\ ranked = 0
  /\ current = 0 /\ expired = 0 /\ lan_left = 0

Init ==
  \/ /\ subject = "config" /\ Config!Init
     /\ phase = 0 /\ events = 0 /\ asked = 0 /\ received = 0 /\ mode = 0
     /\ NoDoctor /\ NoOutput /\ NoMerge /\ NoRun /\ NoWire /\ NoRoutes
  \/ /\ subject = "doctor" /\ Diagnosis!Init
     /\ received = 0 /\ mode = 0
     /\ NoConfig /\ NoOutput /\ NoMerge /\ NoRun /\ NoWire /\ NoRoutes
  \/ /\ subject = "output" /\ Output!Init
     /\ pending = 0 /\ events = 0 /\ asked = 0 /\ received = 0 /\ mode = 0
     /\ NoConfig /\ NoDoctor /\ NoMerge /\ NoRun /\ NoWire /\ NoRoutes
  \/ /\ subject = "merge" /\ Merging!Init
     /\ phase = 0 /\ pending = 0 /\ events = 0 /\ asked = 0
     /\ NoConfig /\ NoDoctor /\ NoOutput /\ NoRun /\ NoWire /\ NoRoutes
  \/ /\ subject = "run" /\ Running!Init
     /\ events = 0 /\ asked = 0
     /\ NoConfig /\ NoDoctor /\ NoOutput /\ NoMerge /\ NoWire /\ NoRoutes
  \/ /\ subject = "wire" /\ Wire!Init
     /\ phase = 0 /\ pending = 0 /\ events = 0 /\ asked = 0 /\ received = 0 /\ mode = 0
     /\ NoConfig /\ NoDoctor /\ NoOutput /\ NoMerge /\ NoRun /\ NoRoutes
  \/ /\ subject = "routes" /\ Routes!Init
     /\ pending = 0 /\ received = 0 /\ mode = 0
     /\ NoConfig /\ NoDoctor /\ NoOutput /\ NoMerge /\ NoRun /\ NoWire

Next ==
  \/ /\ subject = "config" /\ Config!Next
     /\ UNCHANGED <<subject, phase, events, asked, received, mode, doctorVars,
                    outputVars, mergeVars, runVars, wireVars, routeVars>>
  \/ /\ subject = "doctor" /\ Diagnosis!Next
     /\ UNCHANGED <<subject, received, mode, configVars, outputVars, mergeVars,
                    runVars, wireVars, routeVars>>
  \/ /\ subject = "output" /\ Output!Next
     /\ UNCHANGED <<subject, pending, events, asked, received, mode, configVars,
                    doctorVars, mergeVars, runVars, wireVars, routeVars>>
  \/ /\ subject = "merge" /\ Merging!Next
     /\ UNCHANGED <<subject, phase, pending, events, asked, configVars,
                    doctorVars, outputVars, runVars, wireVars, routeVars>>
  \/ /\ subject = "run" /\ Running!Next
     /\ UNCHANGED <<subject, events, asked, configVars, doctorVars, outputVars,
                    mergeVars, wireVars, routeVars>>
  \/ /\ subject = "wire" /\ Wire!Next
     /\ UNCHANGED <<subject, phase, pending, events, asked, received, mode,
                    configVars, doctorVars, outputVars, mergeVars, runVars,
                    routeVars>>
  \/ /\ subject = "routes" /\ Routes!Next
     /\ UNCHANGED <<subject, pending, received, mode, configVars, doctorVars,
                    outputVars, mergeVars, runVars, wireVars>>

Spec == Init /\ [][Next]_vars
-----------------------------------------------------------------------------
\* ClientConfig: what a network command saves, every later command can load,
\* however two of them overlap (config.rs load, validate and save).
SavedIsLoadable == subject = "config" => Config!SavedIsLoadable

\* ClientConfig: a sender and a receiver with profiles of one network derive
\* keys from one network id and use the same nodes (apply_send,
\* apply_connection, diagnostic_profile).
SidesMeet == subject = "config" => Config!SidesMeet

\* Doctor: what it reports of each relay and node happened with that one,
\* though events of earlier phases are read late (commands/doctor.rs).
DoctorIsTruthful == subject = "doctor" => Diagnosis!DoctorIsTruthful

\* Doctor: with nodes and relays configured it fails only if something in the
\* network did, or was late: no phase swallows a later one's event.
DoctorBlamesFairly == subject = "doctor" => Diagnosis!DoctorBlamesFairly

\* PrivateOutput: a crash or power loss at any step of write_private_atomic
\* leaves whole files, and an acknowledged durable output is on disk.
OutputSurvivesCrashes == subject = "output" => Output!OutputSurvivesCrashes

\* PrivateOutput: no step of receive_to_file undoes what another program
\* wrote before the output was planned or merged.
EditsAreKept == [][subject = "output" => Output!EditIsKept]_vars

\* DotenvMerge: after merge_dotenv each received key has its received value,
\* each other key the value it had.
MergeIsEffective == subject = "merge" => Merging!MergeIsEffective

\* RunCommand: when execute returns, the child has ended, and the status is
\* that of an acknowledged child (commands/run.rs).
ChildIsAccountedFor == subject = "run" => Running!ChildIsAccountedFor

\* TransferWire: what a frame decodes to encodes to exactly that frame
\* (message.rs, frame.rs, codec.rs).
AcceptedIsCanonical == subject = "wire" => Wire!AcceptedIsCanonical

\* RouteDiscovery: the receiver reports no sender only after it has tried
\* every route that discover_candidates kept (commands/discovery.rs).
NotFoundLookedEverywhere == subject = "routes" => Routes!NotFoundLookedEverywhere
=============================================================================
