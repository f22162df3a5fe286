---------------------------- MODULE MCSenderActor ----------------------------
(* Two receivers, two nonces, two secrets and two draws against one share. *)
EXTENDS SenderActor

CONSTANTS p1, p2, n1, n2, s1, s2, e1, e2

MCPeers == {p1, p2}
MCNonces == {n1, n2}
MCSecrets == {s1, s2}
MCEntropy == {e1, e2}
MCVersions == {1, 2}
==============================================================================
