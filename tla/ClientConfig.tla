---------------------------- MODULE ClientConfig ----------------------------
(***************************************************************************)
(* The client's configuration file (crates/cli/src/config.rs), the network *)
(* commands that change it (commands/network.rs), and what send, receive,  *)
(* run and doctor take from it.                                            *)
(*                                                                         *)
(* Several processes may work on the one file; it is read once and written *)
(* once by each, without a lock.  A name that validate_network_id refuses  *)
(* is "", an address that does not parse is Bad, and an unreadable file is *)
(* one of another version.                                                 *)
(***************************************************************************)
EXTENDS Naturals, Sequences, FiniteSets, SequencesExt

CONSTANTS
  Processes,      \* network commands that may run at the same time
  Names,          \* names of profiles and networks, "public" and "" included
  Profiles,       \* what a profile file may hold
  Environments,   \* the ENVSHARE_ variables of a process
  Files,          \* what the user may have written into the file
  MAX_NETWORKS, MAX_NODES

Bad == "bad"
Unset == "unset"

\* A file, or the outcome of something that may fail, is a set of at most one.
VARIABLES
  file,       \* the file
  saved,      \* it was written by a network command
  pending     \* process -> what it is about to save

vars == <<file, saved, pending>>

public_network_profile ==
  [network_id |-> "public", require_relay |-> TRUE, relay_only |-> TRUE,
   rendezvous |-> <<"p">>, relays |-> <<"p">>]

Default == [version |-> 1, default_network |-> "public", share_ttl |-> "10m",
            relay_only |-> FALSE, mdns |-> FALSE,
            networks |-> [n \in {"public"} |-> public_network_profile]]

Init ==
  /\ file \in {{}} \cup {{c} : c \in Files}
  /\ saved = FALSE
  /\ pending = [p \in Processes |-> {}]
-----------------------------------------------------------------------------
validate_network_id(n) == n # ""

ValidNodes(nodes) ==
  Len(nodes) <= MAX_NODES /\ Bad \notin ToSet(nodes) /\ IsInjective(nodes)

validate(c) ==
  /\ c.version = 1
  /\ Cardinality(DOMAIN c.networks) <= MAX_NETWORKS
  /\ validate_network_id(c.default_network)
  /\ c.share_ttl # Bad
  /\ \A n \in DOMAIN c.networks :
       LET profile == c.networks[n]
       IN /\ validate_network_id(n) /\ validate_network_id(profile.network_id)
          /\ ValidNodes(profile.rendezvous) /\ ValidNodes(profile.relays)
          /\ profile.require_relay => profile.relays # <<>>

insert(c, n, profile) ==
  [c EXCEPT !.networks = [m \in DOMAIN c.networks \cup {n} |->
                            IF m = n THEN profile ELSE c.networks[m]]]

ensure_public_network(c) ==
  IF "public" \in DOMAIN c.networks THEN c ELSE insert(c, "public", public_network_profile)

Or(value, default) == IF value = Unset THEN default ELSE value
parse_bool(value, default) ==
  CASE value = Unset -> default [] value = "true" -> TRUE [] value = "false" -> FALSE

apply_environment(c, env) ==
  IF Bad \in {env.share_ttl, env.relay_only, env.mdns} THEN {}
  ELSE {[c EXCEPT !.default_network = Or(env.network, @),
                  !.share_ttl = Or(env.share_ttl, @),
                  !.relay_only = parse_bool(env.relay_only, @),
                  !.mdns = parse_bool(env.mdns, @)]}

\* The file may be missing if its path was not given, or to be managed.
load_with_missing(f, explicit, allow_explicit_missing, env) ==
  LET text == IF f = {} /\ (~explicit \/ allow_explicit_missing) THEN {Default} ELSE f
  IN {c \in UNION {apply_environment(ensure_public_network(t), env) : t \in text} :
        validate(c)}

NoEnvironment == [network |-> Unset, share_ttl |-> Unset, relay_only |-> Unset, mdns |-> Unset]
-----------------------------------------------------------------------------
(* envshare network *)

Named(n, profile) ==
  IF profile.network_id = "" THEN [profile EXCEPT !.network_id = n] ELSE profile

add_profile_unchecked(c, n, profile) ==
  {d \in {insert(c, n, Named(n, profile))} : validate_network_id(n)}

add_profile(c, n, profile) ==
  {d \in {insert(c, n, Named(n, profile))} : validate_network_id(n) /\ validate(d)}

remove_profile(c, n) ==
  {[c EXCEPT !.networks = [m \in DOMAIN c.networks \ {n} |-> c.networks[m]]] :
     k \in (DOMAIN c.networks \ {c.default_network}) \cap {n}}

use_profile(c, n) ==
  {[c EXCEPT !.default_network = n] : k \in DOMAIN c.networks \cap {n}}

Results(c) ==
  UNION {UNION {{add_profile(c, n, profile) : profile \in Profiles},
                {remove_profile(c, n), use_profile(c, n)}} : n \in Names}

\* Up to save, a command touches nothing but its own copy.  It ends there if
\* the file cannot be loaded or the change is refused.
execute(p) ==
  /\ pending[p] = {}
  /\ \E env \in Environments :
       LET loaded == load_with_missing(file, TRUE, TRUE, env)
       IN \/ loaded = {} /\ UNCHANGED pending
          \/ \E c \in loaded : \E result \in Results(c) :
               pending' = [pending EXCEPT ![p] = result]
  /\ UNCHANGED <<file, saved>>

\* write_private_atomic replaces the file as a whole, or fails.
save(p) ==
  /\ pending[p] # {}
  /\ \/ file' = pending[p] /\ saved' = TRUE
     \/ UNCHANGED <<file, saved>>
  /\ pending' = [pending EXCEPT ![p] = {}]

Next == \E p \in Processes : execute(p) \/ save(p)

Spec == Init /\ [][Next]_vars
-----------------------------------------------------------------------------
(* What the other commands take from the configuration. *)

\* The options of a command: a network or Unset, and what it gives itself.
Options == [network : Names \cup {Unset}, nodes : {<<>>, <<"x">>}, relays : {<<>>},
            require_relay : {FALSE}, relay_only : BOOLEAN, mdns : {FALSE}]

apply_discovery(c, network, o) ==
  [o EXCEPT !.mdns = @ \/ c.mdns,
            !.relay_only = @ \/ c.relay_only,
            !.nodes = IF @ = <<>> /\ network \in DOMAIN c.networks
                        THEN c.networks[network].rendezvous ELSE @]

apply_send(c, options) ==
  LET network == Or(options.network, c.default_network)
      o == apply_discovery(c, network, [options EXCEPT !.network = network])
      filled == IF network \notin DOMAIN c.networks THEN o
                ELSE LET profile == c.networks[network]
                     IN [o EXCEPT !.relays = IF @ = <<>> THEN profile.relays ELSE @,
                                  !.require_relay = @ \/ profile.require_relay,
                                  !.relay_only = @ \/ profile.relay_only,
                                  !.network = profile.network_id]
  IN [filled EXCEPT !.require_relay = @ \/ filled.relay_only]

apply_connection_by_name(c, options) ==
  LET network == Or(options.network, c.default_network)
  IN apply_discovery(c, network, [options EXCEPT !.network = network])

apply_connection(c, options) ==
  LET network == Or(options.network, c.default_network)
      o == apply_discovery(c, network, [options EXCEPT !.network = network])
  IN IF network \notin DOMAIN c.networks THEN o
     ELSE [o EXCEPT !.relay_only = @ \/ c.networks[network].relay_only,
                    !.network = c.networks[network].network_id]

diagnostic_profile(c, selected) ==
  {c.networks[n] : n \in DOMAIN c.networks \cap {Or(selected, c.default_network)}}
-----------------------------------------------------------------------------
\* What a network command saves can be loaded again by every later command,
\* with no variable set, however commands overlap and whatever environment
\* they ran in: a configuration never locks its user out.
SavedIsLoadable ==
  saved => load_with_missing(file, TRUE, FALSE, NoEnvironment) # {}

\* Profiles are known by local names, networks by their ids.  A sender and a
\* receiver that select profiles of one network, by option, variable or
\* default, derive their keys from the same network id, look at the same
\* nodes and are as private as each other; doctor examines those nodes.
SidesMeet ==
  \A env \in Environments :
    \A c \in load_with_missing(file, FALSE, FALSE, env) :
      \A o \in Options :
        LET n == Or(o.network, c.default_network)
        IN \A m \in DOMAIN c.networks :
             n \in DOMAIN c.networks /\ c.networks[m] = c.networks[n] =>
               LET sender == apply_send(c, o)
                   receiver == apply_connection(c, [o EXCEPT !.network = m])
               IN /\ sender.network = receiver.network
                  /\ sender.nodes = receiver.nodes
                  /\ sender.relay_only = receiver.relay_only
                  /\ o.nodes = <<>> =>
                       \A d \in diagnostic_profile(c, o.network) : d.rendezvous = sender.nodes
=============================================================================
