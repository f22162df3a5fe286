---------------------------- MODULE NetworkDriver ----------------------------
(***************************************************************************)
(* The inbound side of the network owner (crates/network/src/driver.rs):   *)
(* the tables that tie an application token to a libp2p request, the       *)
(* bounded event queue, and the confirmation of every response.            *)
(*                                                                         *)
(* libp2p's request_response behaviour is external.  It is modelled by one *)
(* status per inbound request:                                             *)
(*                                                                         *)
(*   idle       not received yet                                           *)
(*   open       received; its ResponseChannel accepts a response           *)
(*   answering  a response was accepted and is being written               *)
(*   flushed    written, ResponseSent not handled yet                      *)
(*   broken     timed out or disconnected, InboundFailure not handled yet  *)
(*   done       its final event was handled                                *)
(***************************************************************************)
EXTENDS Naturals, Sequences, FiniteSets

CONSTANTS
  Requests,       \* request_response::InboundRequestId
  Calls,          \* calls of NetworkClient::respond
  Replies,        \* response bodies
  Unavailable,    \* the TemporarilyUnavailable response
  EventCapacity,  \* event_capacity
  MaxNotices      \* bound on the events that carry no request

NetworkDriverAssumption ==
  /\ IsFiniteSet(Requests)
  /\ EventCapacity \in Nat \ {0}
  /\ MaxNotices \in Nat
  /\ Unavailable \notin Replies

VARIABLES
  running,                \* the loop of NetworkDriver::run
  subscribed,             \* the application still holds the event receiver
  next_inbound_id,
  inbound,                \* token -> the request whose channel it holds
  inbound_protocol_ids,   \* request -> token
  inbound_confirmations,  \* request -> the call waiting for its outcome
  events,                 \* the bounded event queue
  taken,                  \* the requests the application took from it
  notices,                \* how many other events were produced
  calls,                  \* call -> its token, its reply and how far it is
  commands,               \* the command queue, as calls
  stream,                 \* external: request -> status
  answers,                \* external: request -> what was accepted for it
  delivered               \* external: the requests whose response was written

tables == <<next_inbound_id, inbound, inbound_protocol_ids,
            inbound_confirmations>>
driverVars == <<running, subscribed, tables, events, taken, notices, calls,
                commands, stream, answers, delivered>>

Insert(f, k, v) == [x \in DOMAIN f \cup {k} |-> IF x = k THEN v ELSE f[x]]
Remove(f, k) == [x \in DOMAIN f \ {k} |-> f[x]]
Empty == [x \in {} |-> 0]

\* Listening, Connected, Disconnected, the relay, discovery and LAN events.
Notice == [request_id |-> 0]

NoCall == [request_id |-> 0, reply |-> Unavailable, status |-> "none"]

DriverInit ==
  /\ running = TRUE
  /\ subscribed = TRUE
  /\ next_inbound_id = 1
  /\ inbound = Empty
  /\ inbound_protocol_ids = Empty
  /\ inbound_confirmations = Empty
  /\ events = <<>>
  /\ taken = {}
  /\ notices = 0
  /\ calls = [c \in Calls |-> NoCall]
  /\ commands = <<>>
  /\ stream = [q \in Requests |-> "idle"]
  /\ answers = [q \in Requests |-> {}]
  /\ delivered = {}
-----------------------------------------------------------------------------
\* send_response: the channel takes the response if its stream is still there.
send_response(q, reply) ==
  /\ stream' = [stream EXCEPT ![q] = "answering"]
  /\ answers' = [answers EXCEPT ![q] = @ \cup {reply}]

try_send_ok == subscribed /\ Len(events) < EventCapacity

\* A request arrives.  When the queue has no room, or nobody reads it any
\* more, both entries are removed again and the request is answered at once.
handle_inbound_request(q) ==
  /\ running
  /\ stream[q] = "idle"
  /\ next_inbound_id' = next_inbound_id + 1
  /\ \/ /\ try_send_ok
        /\ inbound' = Insert(inbound, next_inbound_id, q)
        /\ inbound_protocol_ids' =
             Insert(inbound_protocol_ids, q, next_inbound_id)
        /\ events' = Append(events, [request_id |-> next_inbound_id,
                                     request |-> q])
        /\ stream' = [stream EXCEPT ![q] = "open"]
        /\ UNCHANGED answers
     \/ /\ ~try_send_ok
        /\ send_response(q, Unavailable)
        /\ UNCHANGED <<inbound, inbound_protocol_ids, events>>
  /\ UNCHANGED <<running, subscribed, inbound_confirmations, taken, notices,
                 calls, commands, delivered>>

\* Every other event is offered to the queue and dropped when it is full.
handle_notice ==
  /\ running
  /\ notices < MaxNotices
  /\ notices' = notices + 1
  /\ events' = IF try_send_ok THEN Append(events, Notice) ELSE events
  /\ UNCHANGED <<running, subscribed, tables, taken, calls, commands, stream,
                 answers, delivered>>
-----------------------------------------------------------------------------
\* NetworkClient::respond queues its command, or fails with TaskStopped.
respond(c, id, reply) ==
  /\ calls[c].status = "none"
  /\ calls' = [calls EXCEPT ![c] =
                 [request_id |-> id, reply |-> reply,
                  status |-> IF running THEN "queued" ELSE "err"]]
  /\ commands' = IF running THEN Append(commands, c) ELSE commands
  /\ UNCHANGED <<running, subscribed, tables, events, taken, notices, stream,
                 answers, delivered>>

ProtocolIds(id) == {q \in DOMAIN inbound_protocol_ids :
                      inbound_protocol_ids[q] = id}

RetainOthers(id) == [q \in DOMAIN inbound_protocol_ids \ ProtocolIds(id) |->
                       inbound_protocol_ids[q]]

Answerable(id) ==
  /\ ProtocolIds(id) # {}
  /\ id \in DOMAIN inbound
  /\ stream[inbound[id]] = "open"

\* The arm of handle_command for Command::Respond.
handle_respond ==
  /\ running
  /\ commands # <<>>
  /\ commands' = Tail(commands)
  /\ LET c == Head(commands)
         id == calls[c].request_id
     IN  /\ inbound' = Remove(inbound, id)
         /\ \/ /\ Answerable(id)
               /\ send_response(inbound[id], calls[c].reply)
               /\ \E q \in ProtocolIds(id) :
                    inbound_confirmations' = Insert(inbound_confirmations, q, c)
               /\ calls' = [calls EXCEPT ![c].status = "sending"]
               /\ UNCHANGED inbound_protocol_ids
            \/ /\ ~Answerable(id)
               /\ inbound_protocol_ids' = RetainOthers(id)
               /\ calls' = [calls EXCEPT ![c].status = "err"]
               /\ UNCHANGED <<inbound_confirmations, stream, answers>>
  /\ UNCHANGED <<running, subscribed, next_inbound_id, events, taken, notices,
                 delivered>>

\* The confirmation that waits for a request is sent its outcome.
Resolve(q, outcome) ==
  /\ calls' = IF q \in DOMAIN inbound_confirmations
                THEN [calls EXCEPT ![inbound_confirmations[q]].status = outcome]
                ELSE calls
  /\ inbound_confirmations' = Remove(inbound_confirmations, q)

Forget_nothing(q) == UNCHANGED <<inbound, inbound_protocol_ids>>

Forget(q) ==
  /\ inbound' = IF q \in DOMAIN inbound_protocol_ids
                  THEN Remove(inbound, inbound_protocol_ids[q])
                  ELSE inbound
  /\ inbound_protocol_ids' = Remove(inbound_protocol_ids, q)

\* The final event of a request was handled.
Settled(q) ==
  /\ stream' = [stream EXCEPT ![q] = "done"]
  /\ UNCHANGED <<running, subscribed, next_inbound_id, events, taken, notices,
                 commands, answers, delivered>>

ResponseSent(q) ==
  running /\ stream[q] = "flushed" /\ Resolve(q, "ok") /\ Forget(q) /\ Settled(q)

InboundFailure_ok(q) ==
  running /\ stream[q] = "broken" /\ Resolve(q, "ok") /\ Forget(q) /\ Settled(q)

InboundFailure_silent(q) ==
  /\ running /\ stream[q] = "broken" /\ Forget(q) /\ Settled(q)
  /\ UNCHANGED <<calls, inbound_confirmations>>

InboundFailure(q) ==
  running /\ stream[q] = "broken" /\ Resolve(q, "err") /\ Forget(q) /\ Settled(q)
-----------------------------------------------------------------------------
\* External: the response is written, or the stream times out or disconnects.
StreamFlushes(q) ==
  /\ stream[q] = "answering"
  /\ stream' = [stream EXCEPT ![q] = "flushed"]
  /\ delivered' = delivered \cup {q}
  /\ UNCHANGED <<running, subscribed, tables, events, taken, notices, calls,
                 commands, answers>>

StreamBreaks(q) ==
  /\ stream[q] \in {"open", "answering"}
  /\ stream' = [stream EXCEPT ![q] = "broken"]
  /\ UNCHANGED <<running, subscribed, tables, events, taken, notices, calls,
                 commands, answers, delivered>>

\* The application takes the next event from the queue.
recv ==
  /\ subscribed
  /\ events # <<>>
  /\ events' = Tail(events)
  /\ taken' = taken \cup ({Head(events)} \ {Notice})
  /\ UNCHANGED <<running, subscribed, tables, notices, calls, commands, stream,
                 answers, delivered>>

\* The application drops the event receiver.
Unsubscribe ==
  /\ subscribed
  /\ subscribed' = FALSE
  /\ events' = <<>>
  /\ UNCHANGED <<running, tables, taken, notices, calls, commands, stream,
                 answers, delivered>>

stop_keeping_queue ==
  /\ running
  /\ running' = FALSE
  /\ inbound' = Empty
  /\ inbound_protocol_ids' = Empty
  /\ inbound_confirmations' = Empty
  /\ calls' = [c \in Calls |->
                 IF calls[c].status = "sending"
                   THEN [calls[c] EXCEPT !.status = "err"]
                   ELSE calls[c]]
  /\ stream' = [q \in Requests |->
                  IF stream[q] \in {"open", "answering"} THEN "broken"
                  ELSE stream[q]]
  /\ UNCHANGED <<commands, subscribed, next_inbound_id, events, taken, notices,
                 answers, delivered>>

\* The loop ends, on cancellation or because no client handle is left.  The
\* tables and the command queue are dropped, and with them the senders of
\* every oneshot that a call still waits for.
stop ==
  /\ running
  /\ running' = FALSE
  /\ inbound' = Empty
  /\ inbound_protocol_ids' = Empty
  /\ inbound_confirmations' = Empty
  /\ commands' = <<>>
  /\ calls' = [c \in Calls |->
                 IF calls[c].status \in {"queued", "sending"}
                   THEN [calls[c] EXCEPT !.status = "err"]
                   ELSE calls[c]]
  /\ stream' = [q \in Requests |->
                  IF stream[q] \in {"open", "answering"} THEN "broken"
                  ELSE stream[q]]
  /\ UNCHANGED <<subscribed, next_inbound_id, events, taken, notices, answers,
                 delivered>>
-----------------------------------------------------------------------------
(* The driver against any application that answers tokens it was given. *)
Library(q) == StreamFlushes(q) \/ StreamBreaks(q)

Driver ==
  \/ handle_respond
  \/ \E q \in Requests : ResponseSent(q) \/ InboundFailure(q)

Next ==
  \/ \E q \in Requests : handle_inbound_request(q)
  \/ handle_notice
  \/ Driver
  \/ \E q \in Requests : Library(q)
  \/ \E c \in Calls, e \in taken, reply \in Replies :
       respond(c, e.request_id, reply)
  \/ recv
  \/ Unsubscribe
  \/ stop

Spec == DriverInit /\ [][Next]_driverVars

\* The driver task runs while it has work, and libp2p ends every stream that
\* was answered: it writes the response or gives up at its request timeout.
\* A request and a call go through each of these steps once.
Progress == Driver \/ \E q \in Requests : Library(q)

FairSpec ==
  /\ Spec
  /\ WF_driverVars(Progress)
-----------------------------------------------------------------------------
\* No table entry outlives its request: every entry belongs to a request
\* whose final event is still to come, and none remains once the loop ended.
NoTableLeak ==
  /\ \A q \in DOMAIN inbound_protocol_ids \cup DOMAIN inbound_confirmations :
       running /\ stream[q] \notin {"idle", "done"}
  /\ \A id \in DOMAIN inbound : running /\ id < next_inbound_id

\* "Delivers exactly one response to an inbound request token": a call that
\* returned Ok has its reply, and no other, written to the very request its
\* token stands for, and a token is not answered by two calls.
OkIsDelivered ==
  /\ \A c \in Calls : calls[c].status = "ok" =>
       \E e \in taken : /\ e.request_id = calls[c].request_id
                        /\ e.request \in delivered
                        /\ answers[e.request] = {calls[c].reply}
  /\ \A c, d \in Calls :
       /\ calls[c].status \in {"sending", "ok"}
       /\ calls[d].status \in {"sending", "ok"}
       /\ calls[c].request_id = calls[d].request_id
       => c = d

\* Every call of respond returns: no confirmation is forgotten.  (A call is
\* made once: none is left waiting.)
RespondReturns == <>[](\A c \in Calls : calls[c].status \in {"none", "ok", "err"})
==============================================================================
