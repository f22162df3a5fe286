------------------------- MODULE OperationsEndpoint -------------------------
(***************************************************************************)
(* The operations endpoint of a node (crates/node/src/operations.rs) under *)
(* slow clients, the status it reads (telemetry.rs), and the healthcheck   *)
(* command that asks it (main.rs).                                         *)
(*                                                                         *)
(* Time is in seconds.  The node's task may stall, as a blocked task does, *)
(* while the endpoint's goes on.  NodeServer has the rest of the node.     *)
(***************************************************************************)
EXTENDS Naturals, FiniteSets

CONSTANTS
  Clients,           \* other clients of the endpoint
  Checker,           \* the client that is the healthcheck command
  MAX_CONNECTIONS

OperationsAssumption ==
  /\ IsFiniteSet(Clients) /\ Checker \notin Clients
  /\ MAX_CONNECTIONS \in Nat \ {0}

IO_TIMEOUT == 2
LIVENESS_STALE_AFTER == 5
CHECK_TIMEOUT == 3
Forever == 8
Paths == {"/health/live", "/health/ready"}
\* Other request lines: the metrics, another path or one that was cut off by
\* the end of the first read, and another method.
Lines == Paths \cup {"/metrics", "cut", "POST"}

VARIABLES
  node,          \* where the node's task is
  ready,         \* NodeStatus: every listener is up
  quiet,         \* seconds since last_progress_ms, up to Forever
  stalled,       \* the node's task makes no progress
  drained,       \* seconds since the node began to drain or ended, up to Forever
  conn,          \* client -> its connection
  check          \* the healthcheck command, and what held when it succeeded

vars == <<node, ready, quiet, stalled, drained, conn, check>>
nodeVars == <<node, ready, quiet, stalled, drained>>
All == Clients \cup {Checker}

Closed == [at |-> "closed", left |-> 0, code |-> 0]
Idle == [at |-> "idle", left |-> 0, path |-> "/metrics", quiet |-> 0, drained |-> 0]

Init ==
  /\ node = "starting" /\ ready = FALSE /\ quiet = 0 /\ stalled = FALSE /\ drained = 0
  /\ conn = [c \in All |-> Closed]
  /\ check = Idle
-----------------------------------------------------------------------------
(* The node's task *)

Running == node \in {"serving", "draining"}

start ==
  /\ node = "starting"
  /\ node' = "serving" /\ quiet' = 0
  /\ UNCHANGED <<ready, stalled, drained, conn, check>>

\* handle_event and expire_discovery, the latter every second.  An event of a
\* listener sets ready, and may come while the node drains.
touch ==
  /\ Running /\ ~stalled
  /\ quiet' = 0
  /\ ready' \in BOOLEAN
  /\ UNCHANGED <<node, stalled, drained, conn, check>>

begin_drain ==
  /\ node = "serving" /\ ~stalled
  /\ node' = "draining" /\ ready' = FALSE
  /\ UNCHANGED <<quiet, stalled, drained, conn, check>>

\* After the drain, or because an address cannot be listened on.
stop ==
  /\ Running /\ ~stalled
  /\ node' = "stopped" /\ ready' = FALSE
  /\ UNCHANGED <<quiet, stalled, drained, conn, check>>

Stall ==
  /\ Running
  /\ stalled' = ~stalled
  /\ UNCHANGED <<node, ready, quiet, drained, conn, check>>

is_live == Running /\ quiet <= LIVENESS_STALE_AFTER
is_ready_flag == ready
is_ready == ready /\ node # "draining"
-----------------------------------------------------------------------------
(* OperationsServer::run and serve_connection *)

Held == {c \in All : conn[c].at \in {"reading", "writing"}}

\* run_healthcheck ends, with what held at that moment.
Verdict(success) ==
  IF success THEN [check EXCEPT !.at = "ok", !.left = 0,
                                !.quiet = quiet, !.drained = drained]
  ELSE [check EXCEPT !.at = "failed", !.left = 0]

\* Beyond the capacity a connection is dropped at once.
Accept(c) ==
  /\ conn[c].at = "closed"
  /\ c = Checker => check.at = "connect"
  /\ IF Cardinality(Held) < MAX_CONNECTIONS
       THEN /\ conn' = [conn EXCEPT ![c] =
                          [at |-> "reading", left |-> IO_TIMEOUT, code |-> 0]]
            /\ check' = IF c = Checker THEN [check EXCEPT !.at = "wait"] ELSE check
       ELSE /\ check' = IF c = Checker THEN Verdict(FALSE) ELSE check
            /\ UNCHANGED conn
  /\ UNCHANGED nodeVars

Code(line) ==
  CASE line = "/health/live" -> IF is_live THEN 200 ELSE 503
    [] line = "/health/ready" -> IF is_ready THEN 200 ELSE 503
    [] line = "/metrics" -> 200
    [] line = "POST" -> 405
    [] OTHER -> 404

\* One read; whatever came by then is the request.
Read(c) ==
  /\ conn[c].at = "reading"
  /\ \E line \in IF c = Checker THEN {check.path, "cut"} ELSE Lines :
       conn' = [conn EXCEPT ![c].at = "writing", ![c].left = IO_TIMEOUT,
                            ![c].code = Code(line)]
  /\ UNCHANGED <<nodeVars, check>>

\* The response is written, or a timeout passes or the client leaves.
Close(c, answered) ==
  /\ conn' = [conn EXCEPT ![c] = Closed]
  /\ check' = IF c = Checker /\ check.at = "wait"
                THEN Verdict(answered /\ conn[c].code = 200) ELSE check
  /\ UNCHANGED nodeVars

Write(c) == conn[c].at = "writing" /\ Close(c, TRUE)

TimesOut(c) == c \in Held /\ conn[c].left = 0 /\ Close(c, FALSE)

Leave(c) == c \in Held \cap Clients /\ Close(c, FALSE)

\* abort_all, once the node has ended.
Cancel ==
  /\ node = "stopped"
  /\ conn' = [c \in All |-> Closed]
  /\ check' = IF check.at \in {"connect", "wait"} THEN Verdict(FALSE) ELSE check
  /\ node' = "gone"
  /\ UNCHANGED <<ready, quiet, stalled, drained>>
-----------------------------------------------------------------------------
(* run_healthcheck *)

CheckStarts ==
  /\ check.at \in {"idle", "ok", "failed"} /\ conn[Checker] = Closed
  /\ node # "gone"
  /\ \E path \in Paths : check' = [Idle EXCEPT !.at = "connect", !.left = CHECK_TIMEOUT, !.path = path]
  /\ UNCHANGED <<nodeVars, conn>>

CheckTimesOut ==
  /\ check.at \in {"connect", "wait"} /\ check.left = 0
  /\ check' = Verdict(FALSE)
  /\ UNCHANGED <<nodeVars, conn>>
-----------------------------------------------------------------------------
Capped(n) == IF n = Forever THEN n ELSE n + 1

\* A second passes.  Timers are not late, and a task that does not stall has
\* its expiry timer every second.
Tick ==
  /\ \A c \in Held : conn[c].left > 0
  /\ check.at \in {"connect", "wait"} => check.left > 0
  /\ Running /\ ~stalled => quiet = 0
  /\ quiet' = Capped(quiet)
  /\ drained' = IF node \in {"draining", "stopped", "gone"} THEN Capped(drained) ELSE 0
  /\ conn' = [c \in All |-> IF c \in Held
                THEN [conn[c] EXCEPT !.left = @ - 1] ELSE conn[c]]
  /\ check' = IF check.at \in {"connect", "wait"} THEN [check EXCEPT !.left = @ - 1] ELSE check
  /\ UNCHANGED <<node, ready, stalled>>

Next ==
  \/ start \/ touch \/ begin_drain \/ stop \/ Stall
  \/ \E c \in All : Accept(c) \/ Read(c) \/ Write(c) \/ TimesOut(c) \/ Leave(c)
  \/ Cancel \/ CheckStarts \/ CheckTimesOut \/ Tick

Spec == Init /\ [][Next]_vars
-----------------------------------------------------------------------------
\* When the healthcheck command succeeds the node made progress within the
\* staleness limit, or was not yet draining, at most one write before: a
\* stalled or stopping node is not reported as healthy for any longer.
HealthcheckIsTruthful ==
  check.at = "ok" =>
    /\ check.path = "/health/live" => check.quiet <= LIVENESS_STALE_AFTER + IO_TIMEOUT
    /\ check.path = "/health/ready" => check.drained <= IO_TIMEOUT
=============================================================================
