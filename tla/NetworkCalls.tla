---------------------------- MODULE NetworkCalls ----------------------------
(***************************************************************************)
(* The calls of NetworkClient and the outbound side of NetworkDriver       *)
(* (crates/network/src/driver.rs): listen, dial, request and the discovery *)
(* calls, each a command on a bounded queue and a oneshot for its outcome. *)
(* NetworkDriver has respond and the inbound side.                         *)
(*                                                                         *)
(* libp2p is external.  It gives each request an id and ends it with one   *)
(* event: a response, or a failure at the latest when its timeout passes.  *)
(***************************************************************************)
EXTENDS Naturals, Sequences, FiniteSets

CONSTANTS
  Calls,            \* calls of the client, each made once
  Peers,
  CommandCapacity   \* command_capacity

NetworkCallsAssumption ==
  /\ IsFiniteSet(Calls)
  /\ CommandCapacity \in Nat \ {0}

\* listen goes the way of dial and register that of discover; an address is
\* added or removed.
Resolving == {"request", "dial", "discover"}
Somebody == CHOOSE p \in Peers : TRUE

VARIABLES
  running,      \* the loop of NetworkDriver::run
  calls,        \* call -> its kind, its peer, where it is and what it returned
  commands,     \* the command queue
  outbound,     \* key -> the call whose oneshot it holds
  requests      \* external: the requests libp2p has, in the order of their ids

vars == <<running, calls, commands, outbound, requests>>

None == [is |-> "none"]
Ok == [is |-> "ok"]
Err == [is |-> "err"]
TaskStopped == [is |-> "stopped"]
Response(c) == [is |-> "response", to |-> c]     \* the answer to c's request

Init ==
  /\ running = TRUE
  /\ calls = [c \in Calls |-> [kind |-> "none", peer |-> Somebody, at |-> "none", result |-> None]]
  /\ commands = <<>>
  /\ outbound = [k \in {} |-> 0]
  /\ requests = <<>>

At(c, places) == calls[c].at \in places
Move(c, place) == calls' = [calls EXCEPT ![c].at = place]

\* The oneshot: a caller that is gone is not told.
Finished(cs, c, result) ==
  IF cs[c].at = "gone" THEN cs ELSE [cs EXCEPT ![c].at = "returned", ![c].result = result]
-----------------------------------------------------------------------------
(* NetworkClient *)

\* Addresses are resolved first, by the calls that take one to dial.
Begin(c, kind, peer) ==
  /\ At(c, {"none"})
  /\ calls' = [calls EXCEPT ![c].kind = kind, ![c].peer = peer,
                            ![c].at = IF kind \in Resolving THEN "resolve" ELSE "send"]
  /\ UNCHANGED <<running, commands, outbound, requests>>

TransportCall(c) == Begin(c, "dial", Somebody) \/ \E peer \in Peers : Begin(c, "request", peer)

DiscoveryCall(c) == \E kind \in {"discover", "unregister", "address"} : Begin(c, kind, Somebody)

Resolve(c) ==
  /\ At(c, {"resolve"})
  /\ \/ Move(c, "send")
     \/ calls' = Finished(calls, c, Err)
  /\ UNCHANGED <<running, commands, outbound, requests>>

\* Waits while the queue is full, and fails once the driver is gone.
send(c) ==
  /\ At(c, {"send"})
  /\ \/ /\ running /\ Len(commands) < CommandCapacity
        /\ commands' = Append(commands, c)
        /\ Move(c, "wait")
     \/ /\ ~running
        /\ calls' = Finished(calls, c, TaskStopped)
        /\ UNCHANGED commands
  /\ UNCHANGED <<running, outbound, requests>>

\* The caller's future is dropped: an interrupt, or a timeout around the call.
\* A queued command stays in the queue.
Abandon(c) ==
  /\ At(c, {"resolve", "send", "wait"})
  /\ Move(c, "gone")
  /\ UNCHANGED <<running, commands, outbound, requests>>
-----------------------------------------------------------------------------
(* NetworkDriver *)

Key_peer(id, peer) == peer
Key(id, peer) == id

Insert(f, k, v) == [x \in DOMAIN f \cup {k} |-> IF x = k THEN v ELSE f[x]]
Remove(f, k) == [x \in DOMAIN f \ {k} |-> f[x]]

\* Command::Request: its oneshot waits in the table for libp2p's event.
HandleRequest(c) ==
  /\ calls[c].kind = "request"
  /\ requests' = Append(requests, [call |-> c, peer |-> calls[c].peer, ended |-> FALSE])
  /\ outbound' = Insert(outbound, Key(Len(requests'), calls[c].peer), c)
  /\ UNCHANGED calls

\* The other commands are answered at once.  Addresses are only noted.
HandleOther(c) ==
  /\ calls[c].kind # "request"
  /\ \E outcome \in IF calls[c].kind = "address" THEN {Ok} ELSE {Ok, Err} :
       calls' = Finished(calls, c, outcome)
  /\ UNCHANGED <<outbound, requests>>

handle_command ==
  /\ running /\ commands # <<>>
  /\ commands' = Tail(commands)
  /\ HandleRequest(Head(commands)) \/ HandleOther(Head(commands))
  /\ UNCHANGED running

\* The oneshot of a request is taken from the table and sent its outcome.
Settle(id, result) ==
  LET key == Key(id, requests[id].peer)
  IN /\ running /\ ~requests[id].ended
     /\ requests' = [requests EXCEPT ![id].ended = TRUE]
     /\ outbound' = Remove(outbound, key)
     /\ calls' = IF key \in DOMAIN outbound THEN Finished(calls, outbound[key], result) ELSE calls
     /\ UNCHANGED <<running, commands>>

ResponseReceived(id) == Settle(id, Response(requests[id].call))

OutboundFailure(id) == Settle(id, Err)

stop_keeping_queue ==
  /\ running
  /\ running' = FALSE
  /\ calls' = [c \in Calls |-> IF \E k \in DOMAIN outbound : outbound[k] = c
                                 THEN Finished(calls, c, TaskStopped)[c] ELSE calls[c]]
  /\ outbound' = [k \in {} |-> 0]
  /\ UNCHANGED <<commands, requests>>

\* The loop ends; the table and the queue are dropped with their oneshots.
stop ==
  /\ running
  /\ running' = FALSE
  /\ calls' = [c \in Calls |-> IF At(c, {"wait"}) THEN Finished(calls, c, TaskStopped)[c]
                               ELSE calls[c]]
  /\ commands' = <<>>
  /\ outbound' = [k \in {} |-> 0]
  /\ UNCHANGED requests

Ends(id) == ResponseReceived(id) \/ OutboundFailure(id)

Next ==
  \/ \E c \in Calls : TransportCall(c) \/ DiscoveryCall(c) \/ Resolve(c) \/ send(c) \/ Abandon(c)
  \/ handle_command
  \/ \E id \in DOMAIN requests : Ends(id)
  \/ stop

\* The resolver returns, the runtime polls what can go on, and libp2p ends
\* every request.  Each of these steps is taken once by a call, so none is put
\* off for ever.
Progress ==
  \/ \E c \in Calls : Resolve(c) \/ send(c)
  \/ handle_command
  \/ \E id \in DOMAIN requests : Ends(id)

Spec == Init /\ [][Next]_vars /\ WF_vars(Progress)
-----------------------------------------------------------------------------
\* The answers to requests that are under way at once, to one peer or
\* several, each reach the call that made the request; and the table holds
\* callers of unfinished requests only, whether they still wait or left.
RepliesAreTheirOwn ==
  /\ \A c \in Calls : calls[c].result.is = "response" => calls[c].result.to = c
  /\ \A k \in DOMAIN outbound :
       running /\ \E id \in DOMAIN requests :
                    ~requests[id].ended /\ requests[id].call = outbound[k]

\* Every call returns, though the queue is bounded and other callers leave,
\* and though the driver may stop while the call waits in the queue, for room
\* in it, or for an answer.  (A call is made once: none is left waiting.)
CallsReturn == <>[](\A c \in Calls : At(c, {"none", "returned", "gone"}))
=============================================================================
