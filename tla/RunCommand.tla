----------------------------- MODULE RunCommand -----------------------------
(***************************************************************************)
(* "envshare run": crates/cli/src/commands/run.rs receives an environment, *)
(* starts a child with it (crates/core/src/local/process.rs), acknowledges *)
(* the sender and waits.  The wait is a task of its own on a               *)
(* multi-threaded runtime; the child leads its own process group, so a     *)
(* terminal's Ctrl+C reaches only envshare.                                *)
(***************************************************************************)
EXTENDS Naturals, FiniteSets

CONSTANTS
  Names,        \* environment variables
  Statuses,     \* exit statuses a child may choose
  MaxPresses    \* bound on Ctrl+C

NoChild == <<"none">>
Alive == <<"running">>
Code(n) == <<"code", n>>
Sigint == <<"signal", 2>>
Sigkill == <<"signal", 9>>
Unset == "unset"

VARIABLES
  mode,        \* --strict, --override, --clean-env or neither
  inherited, received,     \* environments
  phase,       \* where execute is
  waiter,      \* where wait_child_forwarding_interrupt is
  child,       \* NoChild, Alive, or its ExitStatus
  environment, \* what the child was given
  handler,     \* tokio has replaced the default action of SIGINT
  pending,     \* a SIGINT is waiting for ctrl_c()
  acked,       \* the sender got the Ack
  status,      \* the status execute returns
  presses

given == <<mode, inherited, received>>
process == <<child, environment>>
vars == <<given, phase, waiter, process, handler, pending, acked, status, presses>>

Ended == {"done", "failed", "interrupted"}
Running == child = Alive
Variables == [Names -> {Unset, "local", "sent"}]

Init ==
  /\ mode \in {"overlay", "strict", "override", "clean"}
  /\ inherited \in {e \in Variables : \A n \in Names : e[n] # "sent"}
  /\ received \in {e \in Variables : \A n \in Names : e[n] # "local"}
  /\ phase = "receive" /\ waiter = "none"
  /\ child = NoChild /\ environment = inherited
  /\ handler = FALSE /\ pending = FALSE /\ acked = FALSE
  /\ status = 0 /\ presses = MaxPresses
-----------------------------------------------------------------------------
\* receive_direct, and the check of the content type: either may fail.
Receive ==
  /\ phase = "receive"
  /\ phase' \in {"check", "failed"}
  /\ UNCHANGED <<given, waiter, process, handler, pending, acked, status, presses>>

conflicts_with_inherited ==
  \E n \in Names : received[n] # Unset /\ inherited[n] # Unset

\* What spawn_child puts into the child's environment.
ChildEnvironment ==
  [n \in Names |->
     CASE mode = "clean" -> received[n]
       [] mode = "override" -> IF received[n] # Unset THEN received[n] ELSE inherited[n]
       [] OTHER -> IF inherited[n] = Unset THEN received[n] ELSE inherited[n]]

\* The checks, then spawn_child, whose spawn may fail, then the waiting task.
Spawn ==
  /\ phase = "check"
  /\ \/ /\ ~(mode = "strict" /\ conflicts_with_inherited)
        /\ child' = Alive
        /\ environment' = ChildEnvironment
        /\ waiter' = "spawned"
        /\ phase' = "acknowledge"
     \/ phase' = "failed" /\ UNCHANGED <<process, waiter>>
  /\ UNCHANGED <<given, handler, pending, acked, status, presses>>

\* The task's first poll: child.wait() or ctrl_c(), which installs the handler.
StartWaiting ==
  /\ waiter = "spawned" /\ phase \notin Ended
  /\ waiter' = "waiting"
  /\ handler' = TRUE
  /\ UNCHANGED <<given, phase, process, pending, acked, status, presses>>

\* pending.acknowledge: confirmed, or not (the sender may have the Ack).
Acknowledge ==
  /\ phase = "acknowledge"
  /\ \/ acked' = TRUE /\ phase' = "join"
     \/ acked' \in BOOLEAN /\ phase' = "abort"
  /\ UNCHANGED <<given, waiter, process, handler, pending, status, presses>>

\* child_task.abort and await: dropping the child kills it (KillOnDrop).
Abort ==
  /\ phase = "abort"
  /\ child' = IF Running THEN Sigkill ELSE child
  /\ waiter' = IF waiter \in {"reaped", "broken"} THEN waiter ELSE "aborted"
  /\ phase' = "failed"
  /\ UNCHANGED <<given, environment, handler, pending, acked, status, presses>>

\* exit_status: the child's code, or 128 + signal.
exit_status(c) == IF c[1] = "signal" THEN 128 + c[2] ELSE c[2]

Join_early ==
  /\ phase = "join"
  /\ status' = IF Running THEN 0 ELSE exit_status(child)
  /\ phase' = "stop"
  /\ UNCHANGED <<given, waiter, process, handler, pending, acked, presses>>

Join ==
  /\ phase = "join"
  /\ \/ /\ waiter = "reaped"
        /\ status' = exit_status(child)
        /\ phase' = "stop"
     \/ /\ waiter = "broken"
        /\ phase' = "failed"
        /\ UNCHANGED status
  /\ UNCHANGED <<given, waiter, process, handler, pending, acked, presses>>

\* network.stop, and the status is returned.
Stop ==
  /\ phase = "stop"
  /\ phase' \in {"done", "failed"}
  /\ UNCHANGED <<given, waiter, process, handler, pending, acked, status, presses>>
-----------------------------------------------------------------------------
\* select!: ctrl_c is ready, and interrupt_child_tree sends SIGINT to the
\* group; when that fails the child is dropped.
Interrupt ==
  /\ waiter = "waiting" /\ pending /\ phase \notin Ended
  /\ pending' = FALSE
  /\ \/ waiter' = "grace" /\ UNCHANGED child
     \/ waiter' = "broken" /\ child' = IF Running THEN Sigkill ELSE child
  /\ UNCHANGED <<given, phase, environment, handler, acked, status, presses>>

\* 100 ms later the whole group is killed; a group that is gone is fine.
GraceEnds ==
  /\ waiter = "grace" /\ phase \notin Ended
  /\ waiter' \in {"dying", "broken"}
  /\ child' = IF Running THEN Sigkill ELSE child
  /\ UNCHANGED <<given, phase, environment, handler, pending, acked, status, presses>>

\* child.wait() returns.
Reap ==
  /\ waiter \in {"waiting", "dying"} /\ ~Running /\ phase \notin Ended
  /\ waiter' = "reaped"
  /\ UNCHANGED <<given, phase, process, handler, pending, acked, status, presses>>

\* External: the child ends when it likes, or because of a SIGINT it does not
\* ignore.
ChildExits ==
  /\ Running
  /\ child' \in {Code(n) : n \in Statuses} \cup IF waiter = "grace" THEN {Sigint} ELSE {}
  /\ UNCHANGED <<given, phase, waiter, environment, handler, pending, acked,
                 status, presses>>

\* External: the user presses Ctrl+C.
CtrlC ==
  /\ phase \notin Ended /\ presses > 0
  /\ presses' = presses - 1
  /\ IF handler THEN pending' = TRUE /\ UNCHANGED phase
     ELSE phase' = "interrupted" /\ UNCHANGED pending
  /\ UNCHANGED <<given, waiter, process, handler, acked, status>>
-----------------------------------------------------------------------------
Next ==
  \/ Receive \/ Spawn \/ StartWaiting \/ Acknowledge \/ Abort \/ Join \/ Stop
  \/ Interrupt \/ GraceEnds \/ Reap \/ ChildExits \/ CtrlC

Spec == Init /\ [][Next]_vars

-----------------------------------------------------------------------------
\* When execute returns, the child it started is not running any more: not
\* after a failed acknowledgement, whatever the waiting task was doing.  The
\* sender is told of a delivery only when the child was started with it, and
\* a status is returned only for an acknowledged child, as its own.
ChildIsAccountedFor ==
  /\ phase \in {"done", "failed"} => ~Running
  /\ acked => child # NoChild
  /\ phase = "done" => acked /\ status = exit_status(child)

\* "Interrupts are forwarded to the contained child process group."
\* (docs/guides/run-a-command.md): a Ctrl+C never ends envshare and leaves the
\* child running.
InterruptIsForwarded == phase = "interrupted" => ~Running
=============================================================================
