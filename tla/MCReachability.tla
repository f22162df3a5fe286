--------------------------- MODULE MCReachability ---------------------------
(* Every kind of option with one node, and a share that is registered at   *)
(* two of three nodes.                                                     *)
EXTENDS Reachability

CONSTANTS n1, n2, n3, r1

MCNodes == {n1, n2, n3}
MCRelays == {r1}

Option(only, required, relays, nodes) ==
  [relay_only |-> only, require_relay |-> required, relays |-> relays, nodes |-> nodes]

MCOptions ==
  {Option(privacy[1], privacy[2], relays, nodes) :
     privacy \in {<<FALSE, FALSE>>, <<FALSE, TRUE>>, <<TRUE, TRUE>>},
     relays \in SUBSET MCRelays, nodes \in {<<>>, <<n1>>}}
  \cup {Option(FALSE, FALSE, {}, <<n1, n2, n3>>)}
=============================================================================
