----------------------------- MODULE MCTransfer -----------------------------
(* One or two receive processes against one send command. *)
EXTENDS Transfer

CONSTANTS r1, r2, s1, s2, e1

MCReceivers == {r1, r2}
MCReceiver == {r1}
MCSecrets == {s1, s2}
MCEntropy == {e1}

Setup(secrets, routes, discovery) ==
  [code |-> [r \in Receivers |-> IF r = r1 THEN s1 ELSE secrets],
   routes |-> [r \in Receivers |-> IF r = r1 THEN routes[1] ELSE routes[2]],
   discovery |-> discovery]

\* Two receivers with the code, or one with another code.
TwoReceivers == {Setup(s1, <<1, 1>>, TRUE), Setup(s2, <<1, 1>>, TRUE)}
Registered == {Setup(s1, <<1, 0>>, TRUE)}
TwoRoutes == {Setup(s1, <<2, 0>>, discovery) : discovery \in BOOLEAN}
Unregistered == {Setup(s1, <<1, 0>>, FALSE)}
=============================================================================
