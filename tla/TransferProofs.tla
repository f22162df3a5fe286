---------------------------- MODULE TransferProofs ----------------------------
(***************************************************************************)
(* The safety of a whole transfer for every set of receivers, every number *)
(* of routes, every code they were given, every deadline and every         *)
(* capacity of the event queue.                                            *)
(*                                                                         *)
(* The proof is compositional.  Every step of Transfer is a step of its    *)
(* actor or leaves the actor alone, and the same for its network owner, so *)
(* that what SenderActorProofs and NetworkDriverProofs show of each of     *)
(* them holds of the two together.  TransferInv adds what ties them to     *)
(* each other and to the receivers.                                        *)
(***************************************************************************)
EXTENDS Transfer, FiniteSetTheorems, TLAPS

TransferType ==
  /\ setup \in Setups
  /\ service \in {"select", "respond", "confirm", "returned"}
  /\ sent \subseteq Requests
  /\ pc \in [Receivers -> Running \cup {"not found", "output failed", "succeeded",
                                        "unconfirmed", "killed"}]
  /\ route \in [Receivers -> 1..Routes]
  /\ offer \in [Receivers -> Actor!Offers \cup {None}]
  /\ output \subseteq Receivers

\* A reply says of the request's peer only what the actor's history records.
Truthful(q, reply) ==
  /\ reply.type = "Offer" => <<q[1], reply.offer>> \in disclosed
  /\ reply.type = "Completed" => q[1] \in completed

\* From the actor to the stream no reply is exchanged for another.
RepliesAreTruthful ==
  /\ service = "respond" => /\ response # None
                            /\ Truthful(handling.request, response)
  /\ service \in {"respond", "confirm"} => handling \in taken
  /\ \A c \in Tokens, e \in taken :
       /\ calls[c].status # "none"
       /\ e.request_id = calls[c].request_id
       => Truthful(e.request, calls[c].reply)
  /\ \A q \in Requests : \A reply \in answers[q] : Truthful(q, reply)

\* What a receiver holds was disclosed to it, and it acknowledges only what it
\* put in place.
ReceiversAreTruthful ==
  /\ \A q \in Requests : stream[q] # "idle" => q \in sent
  /\ \A r \in Receivers :
       /\ offer[r] # None => <<r, offer[r]>> \in disclosed
       /\ r \in output \/ pc[r] = "holding" => offer[r] # None
       /\ pc[r] = "persisted" \/ <<r, "Acknowledge", 0>> \in sent => r \in output
       /\ pc[r] = "succeeded" => r \in completed

\* The service answers for the actor's last state.
SenderAgrees ==
  /\ claim # None => setup.code[claim.receiver_peer_id] = Secret
  /\ state = "Consumed" => claim.receiver_peer_id \in output
  /\ outcome # "none" => service = "returned"
  /\ outcome \in Actor!Terminal => outcome = state

TransferInv ==
  /\ TransferType
  /\ RepliesAreTruthful
  /\ ReceiversAreTruthful
  /\ SenderAgrees

-----------------------------------------------------------------------------
InboundEvents == [request_id : Nat \ {0}, request : Requests]

CallType == [request_id : Nat,
             reply : Actor!Responses \cup {TemporarilyUnavailable},
             status : {"none", "queued", "sending", "ok", "err"}]

\* What the owner does by itself changes no token, and an answer that it gives
\* is the reply of a call for that very request.
OwnerKeeps ==
  /\ taken' = taken
  /\ \A c \in Tokens : calls'[c].status # "none" =>
       /\ calls[c].status # "none"
       /\ calls'[c].request_id = calls[c].request_id
       /\ calls'[c].reply = calls[c].reply
  /\ \A q \in Requests : stream'[q] # "idle" => stream[q] # "idle"
  /\ \A q \in Requests : \A reply \in answers'[q] :
       \/ reply \in answers[q]
       \/ \E c \in Tokens, e \in taken :
            /\ calls[c].status # "none"
            /\ e.request_id = calls[c].request_id
            /\ e.request = q
            /\ reply = calls[c].reply

\* A request names the receiver it came from and what it asks.
LEMMA RequestShape ==
  ASSUME NEW q \in Requests
  PROVE  /\ q[1] \in Receivers
         /\ q[2] = "Open" => q[3] \in 1..Routes
         /\ q[2] = "Acknowledge" => q = <<q[1], "Acknowledge", 0>>
  BY DEF Requests, Opens, Acknowledges

\* The requests a receiver sends, an Open per route and one Acknowledge.
LEMMA ShapeIsRequest ==
  ASSUME NEW r \in Receivers
  PROVE  /\ \A k \in 1..Routes : <<r, "Open", k>> \in Requests
         /\ <<r, "Acknowledge", 0>> \in Requests
  BY DEF Requests, Opens, Acknowledges

\* What handle_open may return and change.
LEMMA OpenEffect ==
  ASSUME NEW peer \in Receivers, NEW request \in Actor!OpenRequests,
         Actor!handle_open(peer, request)
  PROVE  /\ \/ \E o : /\ response' = [type |-> "Offer", offer |-> o]
                      /\ <<peer, o>> \in disclosed'
            \/ \E code \in Actor!ProtocolErrorCode :
                 response' = [type |-> "Error", code |-> code]
         /\ disclosed \subseteq disclosed' /\ completed' = completed
         /\ state' = "Consumed" => state = "Consumed"
         /\ \/ claim' = claim
            \/ claim'.receiver_peer_id = peer /\ request.room_id = Secret
<1>1. CASE Actor!OpenRefused(peer, request)
  BY <1>1 DEF Actor!OpenRefused, Actor!ReturnError, Actor!actorVars,
              Actor!ProtocolErrorCode
<1>2. CASE Actor!OpenExpired(peer, request)
  BY <1>2 DEF Actor!OpenExpired, Actor!ReturnError, Actor!close,
              Actor!ProtocolErrorCode
<1>3. CASE Actor!prepare_offer(peer, request)
  BY <1>3 DEF Actor!prepare_offer, Actor!ReturnOffer, Actor!Authentic,
              Actor!authenticates_open
<1>4. CASE Actor!PrepareFails(peer, request)
  BY <1>4 DEF Actor!PrepareFails, Actor!ReturnError, Actor!close,
              Actor!ProtocolErrorCode
<1>5. CASE Actor!resume_offer(peer, request)
  BY <1>5 DEF Actor!resume_offer, Actor!ReturnOffer, Actor!ReturnError,
              Actor!actorVars, Actor!ProtocolErrorCode
<1>6. CASE Actor!OpenTooLate(peer, request)
  BY <1>6 DEF Actor!OpenTooLate, Actor!ReturnError, Actor!close,
              Actor!ProtocolErrorCode
<1> QED
  BY Zenon, <1>1, <1>2, <1>3, <1>4, <1>5, <1>6 DEF Actor!handle_open

\* What handle_acknowledgement may return and change.
LEMMA AcknowledgeEffect ==
  ASSUME NEW peer, NEW request, Actor!handle_acknowledgement(peer, request)
  PROVE  /\ \/ /\ response' = [type |-> "Completed",
                               claim_id |-> request.claim_id]
               /\ peer \in completed'
            \/ \E code \in Actor!ProtocolErrorCode :
                 response' = [type |-> "Error", code |-> code]
         /\ disclosed' = disclosed /\ completed \subseteq completed'
         /\ claim' = claim
         /\ state' = "Consumed" =>
              state = "Consumed" \/ peer = claim.receiver_peer_id
  BY DEF Actor!handle_acknowledgement, Actor!AckRefused, Actor!AckAccepted,
         Actor!MatchesClaim, Actor!ReturnError, Actor!ReturnCompleted,
         Actor!actorVars, Actor!ProtocolErrorCode

\* The timer changes neither the claim nor what was returned.
LEMMA TimerEffect ==
  ASSUME Actor!handle_timer
  PROVE  /\ UNCHANGED <<claim, response, disclosed, completed>>
         /\ state' \in {"Expired", "DeliveryUnknown"}
  BY DEF Actor!handle_timer, Actor!close

\* What was true of a reply stays true.
LEMMA TruthfulKept ==
  ASSUME disclosed \subseteq disclosed', completed \subseteq completed',
         NEW q, NEW reply, Truthful(q, reply)
  PROVE  Truthful(q, reply)'
  BY DEF Truthful

\* The owner's own steps keep every reply truthful.
LEMMA OwnerReplies ==
  ASSUME RepliesAreTruthful, OwnerKeeps, taken \subseteq InboundEvents,
         disclosed \subseteq disclosed', completed \subseteq completed',
         \/ service' \in {"select", "returned"}
         \/ UNCHANGED <<service, handling, response>>
  PROVE  RepliesAreTruthful'
<1>1. service' = "respond" =>
        response' # None /\ Truthful(handling.request, response)'
  BY DEF RepliesAreTruthful, Truthful
<1>2. service' \in {"respond", "confirm"} => handling' \in taken'
  BY DEF RepliesAreTruthful, OwnerKeeps
<1>3. ASSUME NEW c \in Tokens, NEW e \in taken', calls'[c].status # "none",
             e.request_id = calls'[c].request_id
      PROVE  Truthful(e.request, calls[c].reply)'
  <2>1. /\ calls[c].status # "none" /\ e \in taken
        /\ e.request_id = calls[c].request_id
        /\ calls'[c].reply = calls[c].reply
    BY <1>3 DEF OwnerKeeps
  <2>2. Truthful(e.request, calls[c].reply)
    BY <2>1 DEF RepliesAreTruthful
  <2> QED
    BY <2>1, <2>2 DEF Truthful
<1>4. ASSUME NEW q \in Requests, NEW reply \in answers'[q]
      PROVE  Truthful(q, reply)'
  <2>1. Truthful(q, reply)
    BY <1>4 DEF OwnerKeeps, RepliesAreTruthful
  <2> QED
    BY <2>1, TruthfulKept
<1> QED
  BY <1>1, <1>2, <1>3, <1>4 DEF RepliesAreTruthful

\* While the receivers stand still, what they know stays true.
LEMMA ReceiversKept ==
  ASSUME ReceiversAreTruthful, UNCHANGED receiverVars,
         disclosed \subseteq disclosed', completed \subseteq completed',
         \A q \in Requests : stream'[q] # "idle" => stream[q] # "idle" \/ q \in sent
  PROVE  ReceiversAreTruthful'
  BY DEF ReceiversAreTruthful, receiverVars

\* Every step of a receiver keeps the invariant: it changes nothing of the
\* sender, and takes an Offer only from the answer to its own request.
LEMMA ReceiverInv ==
  ASSUME TransferInv, NEW r \in Receivers, ReceiverStep(r) \/ Killed(r),
         UNCHANGED setup
  PROVE  TransferInv'
<1>1. UNCHANGED <<actorAll, netAll, senderVars>>
  BY Zenon DEF ReceiverStep, SendOpen, ReceiveOffer, OpenFails, Persist,
         PersistFails, SendAcknowledge, ReceiveCompleted, AcknowledgeFails,
         Killed
<1>2. /\ TransferType /\ RepliesAreTruthful /\ ReceiversAreTruthful
      /\ SenderAgrees
  BY DEF TransferInv
<1>3. RepliesAreTruthful'
  BY <1>1, <1>2 DEF RepliesAreTruthful, Truthful, actorAll, netAll, senderVars
<1>4. setup.routes \in [Receivers -> 0..Routes] /\ Routes \in Nat \ {0}
  BY Zenon, <1>2, TransferAssumption DEF TransferType
<1>5. output \subseteq output'
  BY Zenon DEF ReceiverStep, SendOpen, ReceiveOffer, OpenFails, Persist,
         PersistFails, SendAcknowledge, ReceiveCompleted, AcknowledgeFails,
         Killed
<1>6. SenderAgrees'
  BY <1>1, <1>2, <1>5 DEF SenderAgrees, actorAll, senderVars
<1>7. CASE SendOpen(r)
  <2>1. route[r] \in 1..Routes
    BY Zenon, <1>2 DEF TransferType
  <2>2. TransferType'
    BY Zenon, <1>1, <1>2, <1>7, <2>1, ShapeIsRequest
    DEF TransferType, SendOpen, senderVars, Running
  <2>3. ReceiversAreTruthful'
    BY Zenon, <1>1, <1>2, <1>7, <2>1
    DEF ReceiversAreTruthful, TransferType, SendOpen, actorAll, netAll
  <2> QED
    BY <1>3, <1>6, <2>2, <2>3 DEF TransferInv
<1>8. CASE ReceiveOffer(r)
  <2>1. PICK o \in Actor!Offers :
          /\ Reaches(<<r, "Open", route[r]>>, [type |-> "Offer", offer |-> o])
          /\ offer' = [offer EXCEPT ![r] = o]
    BY Zenon, <1>8 DEF ReceiveOffer
  <2>2. <<r, "Open", route[r]>> \in Requests
    BY Zenon, <1>2, ShapeIsRequest DEF TransferType
  <2>3. Truthful(<<r, "Open", route[r]>>, [type |-> "Offer", offer |-> o])
    BY <1>2, <2>1, <2>2 DEF RepliesAreTruthful, Reaches
  <2>4. <<r, o>> \in disclosed
    BY <2>3 DEF Truthful
  <2>5. o # None
    BY ComponentsAssumption
  <2>6. TransferType'
    BY Zenon, <1>1, <1>2, <1>8, <2>1
    DEF TransferType, ReceiveOffer, senderVars, Running
  <2>7. ReceiversAreTruthful'
    BY Zenon, <1>1, <1>2, <1>8, <2>1, <2>4, <2>5
    DEF ReceiversAreTruthful, TransferType, ReceiveOffer, actorAll, netAll
  <2> QED
    BY <1>3, <1>6, <2>6, <2>7 DEF TransferInv
<1>9. CASE OpenFails(r)
  <2>0. route' \in [Receivers -> 1..Routes]
    <3>1. route \in [Receivers -> 1..Routes] /\ setup.routes[r] \in 0..Routes
      BY Zenon, <1>2, <1>4 DEF TransferType
    <3>2. HasNextRoute(r) => route[r] + 1 \in 1..Routes
      BY <1>4, <3>1 DEF HasNextRoute
    <3> QED
      BY Zenon, <1>9, <3>1, <3>2 DEF OpenFails
  <2>1. TransferType'
    BY Zenon, <1>1, <1>2, <1>9, <2>0
    DEF TransferType, OpenFails, senderVars, Running
  <2>2. ReceiversAreTruthful'
    BY Zenon, <1>1, <1>2, <1>9
    DEF ReceiversAreTruthful, TransferType, OpenFails, actorAll, netAll
  <2> QED
    BY <1>3, <1>6, <2>1, <2>2 DEF TransferInv
<1>10. CASE Persist(r) \/ PersistFails(r)
  <2>1. TransferType'
    BY Zenon, <1>1, <1>2, <1>10
    DEF TransferType, Persist, PersistFails, senderVars, Running
  <2>2. ReceiversAreTruthful'
    BY Zenon, <1>1, <1>2, <1>10
    DEF ReceiversAreTruthful, TransferType, Persist, PersistFails, actorAll,
        netAll
  <2> QED
    BY <1>3, <1>6, <2>1, <2>2 DEF TransferInv
<1>11. CASE SendAcknowledge(r)
  <2>1. <<r, "Acknowledge", 0>> \in Requests
    BY ShapeIsRequest
  <2>2. TransferType'
    BY Zenon, <1>1, <1>2, <1>11, <2>1
    DEF TransferType, SendAcknowledge, senderVars, Running
  <2>3. ReceiversAreTruthful'
    BY Zenon, <1>1, <1>2, <1>11
    DEF ReceiversAreTruthful, TransferType, SendAcknowledge, actorAll, netAll
  <2> QED
    BY <1>3, <1>6, <2>2, <2>3 DEF TransferInv
<1>12. CASE ReceiveCompleted(r)
  <2>1. <<r, "Acknowledge", 0>> \in Requests
    BY ShapeIsRequest
  <2>2. Truthful(<<r, "Acknowledge", 0>>,
                 [type |-> "Completed", claim_id |-> offer[r].entropy])
    BY <1>2, <1>12, <2>1 DEF ReceiveCompleted, RepliesAreTruthful, Reaches
  <2>3. r \in completed
    BY <2>2 DEF Truthful
  <2>4. TransferType'
    BY Zenon, <1>1, <1>2, <1>12
    DEF TransferType, ReceiveCompleted, senderVars, Running
  <2>5. ReceiversAreTruthful'
    BY Zenon, <1>1, <1>2, <1>12, <2>3
    DEF ReceiversAreTruthful, TransferType, ReceiveCompleted, actorAll, netAll
  <2> QED
    BY <1>3, <1>6, <2>4, <2>5 DEF TransferInv
<1>13. CASE AcknowledgeFails(r) \/ Killed(r)
  <2>1. TransferType'
    BY Zenon, <1>1, <1>2, <1>13
    DEF TransferType, AcknowledgeFails, Killed, senderVars, Running
  <2>2. ReceiversAreTruthful'
    BY Zenon, <1>1, <1>2, <1>13
    DEF ReceiversAreTruthful, TransferType, AcknowledgeFails, Killed, actorAll,
        netAll
  <2> QED
    BY <1>3, <1>6, <2>1, <2>2 DEF TransferInv
<1> QED
  BY <1>7, <1>8, <1>9, <1>10, <1>11, <1>12, <1>13 DEF ReceiverStep

-----------------------------------------------------------------------------
\* What the actor's own invariant says, in the terms of a transfer.
ActorKnows ==
  /\ claim \in Actor!BoundClaim \cup {None}
  /\ response \in Actor!Responses \cup {None}
  /\ disclosed \subseteq Receivers \X Actor!Offers
  /\ disclosed = IF claim = None THEN {}
                 ELSE {<<claim.receiver_peer_id, claim.offer>>}
  /\ claim # None <=> state \in {"Disclosed", "Consumed", "DeliveryUnknown"}
  /\ source <=> state \in {"Available", "Disclosed"}
  /\ completed # {} <=> state = "Consumed"
  /\ \A r \in completed : disclosed = {<<r, claim.offer>>}

\* What the network owner's own invariant says, in the terms of a transfer:
\* its types, the request at the head of the queue, the command at the head of
\* the other, and the calls that wait for a confirmation.
NetType ==
  /\ taken \subseteq InboundEvents
  /\ \A e \in taken : e.request_id \in Tokens
  /\ calls \in [Tokens -> CallType]
  /\ stream \in [Requests -> {"idle", "open", "answering", "flushed", "broken",
                              "done"}]
  /\ answers \in [Requests ->
                    SUBSET (Actor!Responses \cup {TemporarilyUnavailable})]

EventKnown ==
  events # <<>> /\ Head(events) # Net!Notice =>
    /\ Head(events) \in InboundEvents
    /\ stream[Head(events).request] # "idle"
    /\ \A c \in Tokens :
         /\ calls[c].status # "none"
         /\ Head(events).request_id = calls[c].request_id
         => Head(events) \in taken

CommandKnown ==
  commands # <<>> =>
    /\ Head(commands) \in Tokens
    /\ calls[Head(commands)].status = "queued"
    /\ \E e \in taken :
         /\ e.request_id = calls[Head(commands)].request_id
         /\ e.request_id \in DOMAIN inbound =>
              inbound[e.request_id] = e.request

NetKnows ==
  /\ NetType
  /\ \A e, f \in taken : e.request_id = f.request_id => e = f
  /\ EventKnown
  /\ CommandKnown
  /\ \A q \in DOMAIN inbound_confirmations :
       /\ inbound_confirmations[q] \in Tokens
       /\ calls[inbound_confirmations[q]].status = "sending"

Knows == ActorKnows /\ NetKnows /\ TransferInv

\* What the owner does by itself.
LEMMA OwnerEffect ==
  ASSUME NetKnows,
         \/ Net!handle_notice \/ Net!handle_respond \/ Net!Unsubscribe
         \/ Net!stop \/ UNCHANGED netAll
         \/ \E q \in Requests : \/ Net!ResponseSent(q) \/ Net!InboundFailure(q)
                                \/ Net!StreamFlushes(q) \/ Net!StreamBreaks(q)
  PROVE  OwnerKeeps
<1> USE DEF CallType
<1>0. NetType
  BY DEF NetKnows
<1>1. CASE Net!handle_notice \/ Net!Unsubscribe \/ UNCHANGED netAll
  BY <1>1 DEF Net!handle_notice, Net!Unsubscribe, netAll, OwnerKeeps
<1>2. CASE Net!stop
  BY <1>2 DEF Net!stop, OwnerKeeps
<1>3. ASSUME NEW q \in Requests, Net!ResponseSent(q) \/ Net!InboundFailure(q)
      PROVE  OwnerKeeps
  <2>1. /\ UNCHANGED <<taken, answers>>
        /\ stream' = [stream EXCEPT ![q] = "done"] /\ stream[q] # "idle"
        /\ \E result : Net!Resolve(q, result)
    BY <1>3 DEF Net!ResponseSent, Net!InboundFailure, Net!Settled
  <2>2. \A c \in Tokens : calls'[c].status # "none" =>
          /\ calls[c].status # "none"
          /\ calls'[c].request_id = calls[c].request_id
          /\ calls'[c].reply = calls[c].reply
    BY <1>0, <2>1 DEF Net!Resolve, NetType, NetKnows
  <2> QED
    BY <2>1, <2>2 DEF OwnerKeeps
<1>4. ASSUME NEW q \in Requests, Net!StreamFlushes(q) \/ Net!StreamBreaks(q)
      PROVE  OwnerKeeps
  BY <1>0, <1>4 DEF NetType, Net!StreamFlushes, Net!StreamBreaks, OwnerKeeps
<1>5. CASE Net!handle_respond
  <2> DEFINE c == Head(commands)
             id == calls[c].request_id
  <2>1. commands # <<>>
    BY <1>5 DEF Net!handle_respond
  <2>2. c \in Tokens /\ calls[c].status = "queued"
    BY <2>1 DEF NetKnows, CommandKnown
  <2>3. PICK e \in taken : /\ e.request_id = id
                           /\ id \in DOMAIN inbound => inbound[id] = e.request
    BY <2>1 DEF NetKnows, CommandKnown
  <2>4. e.request \in Requests
    BY <1>0 DEF NetType, InboundEvents
  <2> HIDE DEF c
  <2>6. /\ taken' = taken
        /\ \/ UNCHANGED <<stream, answers>>
           \/ /\ id \in DOMAIN inbound /\ stream[inbound[id]] = "open"
              /\ stream' = [stream EXCEPT ![inbound[id]] = "answering"]
              /\ answers' = [answers EXCEPT ![inbound[id]] =
                               @ \cup {calls[c].reply}]
        /\ \/ calls' = [calls EXCEPT ![c].status = "sending"]
           \/ calls' = [calls EXCEPT ![c].status = "err"]
    BY Zenon, <1>5 DEF Net!handle_respond, Net!send_response, Net!Answerable, c
  <2>7. \A d \in Tokens : calls'[d].status # "none" =>
          /\ calls[d].status # "none"
          /\ calls'[d].request_id = calls[d].request_id
          /\ calls'[d].reply = calls[d].reply
    BY <1>0, <2>2, <2>6 DEF NetType
  <2>8. \A q \in Requests : stream'[q] # "idle" => stream[q] # "idle"
    BY <1>0, <2>3, <2>4, <2>6 DEF NetType
  <2>9. ASSUME NEW q \in Requests, NEW reply \in answers'[q],
               reply \notin answers[q]
        PROVE  e.request = q /\ reply = calls[c].reply
    BY <1>0, <2>3, <2>4, <2>6, <2>9 DEF NetType
  <2> QED
    BY <2>2, <2>3, <2>6, <2>7, <2>8, <2>9 DEF OwnerKeeps
<1> QED
  BY <1>1, <1>2, <1>3, <1>4, <1>5

\* The request that handle_event takes: it was sent, the actor is given a
\* well-formed message for it, and whoever acknowledges has its output.
LEMMA HandledRequest ==
  ASSUME Knows, ServiceHandles, NEW q, q = Head(events).request
  PROVE  /\ Head(events) \in InboundEvents /\ q \in Requests /\ q \in sent
         /\ q[1] \in Receivers
         /\ \/ /\ open_request(q[1], q[3]) \in Actor!OpenRequests
               /\ Actor!handle_open(q[1], open_request(q[1], q[3]))
            \/ /\ q[1] \in output
               /\ acknowledgement(offer[q[1]]) \in Actor!AcknowledgeRequests
               /\ Actor!handle_acknowledgement(q[1], acknowledgement(offer[q[1]]))
<1>1. events # <<>> /\ Head(events) # Net!Notice /\ Net!recv
  BY DEF ServiceHandles
<1>2. Head(events) \in InboundEvents /\ stream[q] # "idle"
  BY <1>1 DEF Knows, NetKnows, EventKnown
<1>3. q \in Requests
  BY <1>2 DEF InboundEvents
<1>4. q \in sent
  BY <1>2, <1>3 DEF Knows, TransferInv, ReceiversAreTruthful
<1>5. CASE q[2] = "Open" /\ Actor!handle_open(q[1], open_request(q[1], q[3]))
  <2>1. q[1] \in Receivers /\ q[3] \in 1..Routes
    BY <1>3, <1>5, RequestShape
  <2>2. setup.code[q[1]] \in Secrets
    BY Zenon, <2>1, TransferAssumption DEF Knows, TransferInv, TransferType
  <2>3. Nonce(q[1], q[3]) \in Nonces
    BY <2>1 DEF Nonce, Nonces
  <2>4. open_request(q[1], q[3]) \in Actor!OpenRequests
    BY <2>1, <2>2, <2>3
    DEF open_request, Actor!OpenRequests, Actor!OpenProofs, Actor!open_proof
  <2> QED
    BY <1>2, <1>3, <1>4, <1>5, <2>1, <2>4
<1>6. CASE /\ q[2] = "Acknowledge"
           /\ Actor!handle_acknowledgement(q[1], acknowledgement(offer[q[1]]))
  <2>1. q[1] \in Receivers /\ q = <<q[1], "Acknowledge", 0>>
    BY <1>3, <1>6, RequestShape
  <2>2. q[1] \in output /\ offer[q[1]] \in Actor!Offers
    BY Zenon, <1>4, <2>1
    DEF Knows, TransferInv, ReceiversAreTruthful, TransferType
  <2>3. acknowledgement(offer[q[1]]) \in Actor!AcknowledgeRequests
    BY <2>2 DEF acknowledgement, Actor!AcknowledgeRequests, Actor!Offers
  <2> QED
    BY <1>2, <1>3, <1>4, <1>6, <2>1, <2>2, <2>3
<1> QED
  BY <1>5, <1>6 DEF ServiceHandles

\* Every step of a transfer is a step of the actor or leaves it alone.
LEMMA ActorStep ==
  ASSUME Knows, [Next]_<<setup, vars>>
  PROVE  [Actor!Next]_actorAll
<1>1. ASSUME NEW r \in Receivers, ReceiverStep(r) \/ Killed(r)
      PROVE  UNCHANGED actorAll
  BY Zenon, <1>1 DEF ReceiverStep, SendOpen, ReceiveOffer, OpenFails, Persist,
              PersistFails, SendAcknowledge, ReceiveCompleted,
              AcknowledgeFails, Killed
<1>2. ASSUME NEW q \in Requests, Arrive(q) \/ LibraryStep(q)
      PROVE  UNCHANGED actorAll
  BY <1>2 DEF Arrive, LibraryStep
<1>3. CASE DriverStep \/ CommandStep \/ Interrupt \/ UNCHANGED <<setup, vars>>
  BY <1>3 DEF DriverStep, CommandStep, AfterService, DrainEnds,
              stop_registration, StopNetwork, HandlesDropped, Interrupt, vars
<1>4. CASE ServiceIgnores \/ ServiceResponds \/ ServiceConfirmed
  BY <1>4 DEF ServiceIgnores, ServiceResponds, ServiceConfirmed
<1>5. CASE ServiceTimer
  BY <1>5 DEF ServiceTimer, Actor!Next
<1>6. CASE ServiceHandles
  <2>1. UNCHANGED now
    BY <1>6 DEF ServiceHandles
  <2> QED
    BY <1>6, <2>1, HandledRequest DEF Actor!Next
<1>7. CASE Tick
  BY <1>7 DEF Tick, Actor!Next
<1> QED
  BY <1>1, <1>2, <1>3, <1>4, <1>5, <1>6, <1>7 DEF Next, ServiceStep

\* Every step of a transfer is a step of the network owner or leaves it alone.
LEMMA NetStep ==
  ASSUME Knows, [Next]_<<setup, vars>>
  PROVE  [Net!Next]_netAll
<1>1. ASSUME NEW r \in Receivers, ReceiverStep(r) \/ Killed(r)
      PROVE  UNCHANGED netAll
  BY Zenon, <1>1 DEF ReceiverStep, SendOpen, ReceiveOffer, OpenFails, Persist,
              PersistFails, SendAcknowledge, ReceiveCompleted,
              AcknowledgeFails, Killed
<1>2. ASSUME NEW q \in Requests, Arrive(q) \/ LibraryStep(q)
      PROVE  Net!Next
  BY <1>2 DEF Arrive, LibraryStep, Net!Next, Net!Library
<1>3. CASE DriverStep
  BY <1>3 DEF DriverStep, Net!Next, Net!Driver
<1>4. CASE CommandStep
  BY <1>4 DEF CommandStep, AfterService, DrainEnds, stop_registration,
              StopNetwork, HandlesDropped, Net!Next
<1>5. CASE Interrupt \/ ServiceTimer \/ ServiceConfirmed
  BY <1>5 DEF Interrupt, ServiceTimer, ServiceConfirmed, Return, Net!Next
<1>6. CASE ServiceIgnores \/ ServiceHandles
  BY <1>6 DEF ServiceIgnores, ServiceHandles, Net!Next
<1>7. CASE ServiceResponds
  <2>1. /\ handling \in taken /\ response \in Actor!Responses
        /\ handling.request_id \in Tokens
    BY <1>7
    DEF ServiceResponds, Knows, ActorKnows, NetKnows, NetType, TransferInv,
        RepliesAreTruthful
  <2> QED
    BY <1>7, <2>1 DEF ServiceResponds, Net!Next
<1>8. CASE Tick \/ UNCHANGED <<setup, vars>>
  BY <1>8 DEF Tick, vars
<1> QED
  BY <1>1, <1>2, <1>3, <1>4, <1>5, <1>6, <1>7, <1>8 DEF Next, ServiceStep

\* The service runs the actor on a request: what it will answer is true of the
\* peer that asked.
LEMMA HandlesInv ==
  ASSUME Knows, ActorKnows', ServiceHandles, UNCHANGED setup
  PROVE  TransferInv'
<1> DEFINE e == Head(events)
           q == e.request
<1>1. /\ service' = "respond" /\ handling' = e
      /\ UNCHANGED <<outcome, command, handles, receiverVars>>
      /\ service = "select" /\ Net!recv
      /\ events # <<>> /\ e # Net!Notice
  BY DEF ServiceHandles
<1>2. /\ e \in InboundEvents /\ q \in Requests /\ q \in sent
      /\ q[1] \in Receivers
  BY HandledRequest
<1>3. /\ disclosed \subseteq disclosed' /\ completed \subseteq completed'
      /\ response' \in Actor!Responses
      /\ response'.type = "Offer" => <<q[1], response'.offer>> \in disclosed'
      /\ response'.type = "Completed" => q[1] \in completed'
      /\ claim' = claim \/ setup.code[claim'.receiver_peer_id] = Secret
      /\ state' = "Consumed" =>
           (state = "Consumed" /\ claim' = claim) \/ claim'.receiver_peer_id \in output
  <2>1. CASE /\ open_request(q[1], q[3]) \in Actor!OpenRequests
             /\ Actor!handle_open(q[1], open_request(q[1], q[3]))
    <3>1. /\ \/ \E o : /\ response' = [type |-> "Offer", offer |-> o]
                       /\ <<q[1], o>> \in disclosed'
             \/ \E code \in Actor!ProtocolErrorCode :
                  response' = [type |-> "Error", code |-> code]
          /\ disclosed \subseteq disclosed' /\ completed' = completed
          /\ state' = "Consumed" => state = "Consumed"
          /\ \/ claim' = claim
             \/ /\ claim'.receiver_peer_id = q[1]
                /\ open_request(q[1], q[3]).room_id = Secret
      BY Zenon, <1>2, <2>1, OpenEffect
    <3>2. disclosed' \subseteq Receivers \X Actor!Offers
      BY DEF ActorKnows
    <3>3. /\ response' \in Actor!Responses
          /\ response'.type = "Offer" => <<q[1], response'.offer>> \in disclosed'
          /\ response'.type = "Completed" => q[1] \in completed'
      <4>1. ASSUME NEW o, response' = [type |-> "Offer", offer |-> o],
                   <<q[1], o>> \in disclosed'
            PROVE  /\ response' \in Actor!Responses
                   /\ response'.type = "Offer" /\ response'.offer = o
        BY <3>2, <4>1 DEF Actor!Responses
      <4>2. ASSUME NEW code \in Actor!ProtocolErrorCode,
                   response' = [type |-> "Error", code |-> code]
            PROVE  response' \in Actor!Responses /\ response'.type = "Error"
        BY <4>2 DEF Actor!Responses
      <4> QED
        BY Zenon, <3>1, <4>1, <4>2
    <3>4. claim' = claim \/ setup.code[claim'.receiver_peer_id] = Secret
      BY <3>1 DEF open_request
    <3>5. state' = "Consumed" => claim' = claim
      BY <2>1, <3>1
      DEF Knows, ActorKnows, Actor!handle_open, Actor!OpenRefused, Actor!OpenExpired,
          Actor!prepare_offer, Actor!PrepareFails, Actor!resume_offer,
          Actor!OpenTooLate, Actor!actorVars, Actor!close
    <3> QED
      BY <3>1, <3>3, <3>4, <3>5
  <2>2. CASE /\ q[1] \in output
             /\ acknowledgement(offer[q[1]]) \in Actor!AcknowledgeRequests
             /\ Actor!handle_acknowledgement(q[1], acknowledgement(offer[q[1]]))
    <3>1. /\ \/ /\ response' = [type |-> "Completed",
                                claim_id |-> acknowledgement(offer[q[1]]).claim_id]
                /\ q[1] \in completed'
             \/ \E code \in Actor!ProtocolErrorCode :
                  response' = [type |-> "Error", code |-> code]
          /\ disclosed' = disclosed /\ completed \subseteq completed'
          /\ claim' = claim
          /\ state' = "Consumed" =>
               state = "Consumed" \/ q[1] = claim.receiver_peer_id
      BY <2>2, AcknowledgeEffect
    <3>2. acknowledgement(offer[q[1]]).claim_id \in Entropy
      BY <2>2 DEF Actor!AcknowledgeRequests
    <3>3. /\ response' \in Actor!Responses
          /\ response'.type = "Offer" => <<q[1], response'.offer>> \in disclosed'
          /\ response'.type = "Completed" => q[1] \in completed'
      BY <3>1, <3>2 DEF Actor!Responses
    <3> QED
      BY <2>2, <3>1, <3>3
  <2> QED
    BY <2>1, <2>2, HandledRequest
<1>4. /\ taken' = taken \cup {e}
      /\ \A c \in Tokens :
           /\ calls[c].status # "none"
           /\ e.request_id = calls[c].request_id
           => e \in taken
      /\ UNCHANGED <<calls, stream, answers>>
  BY <1>1 DEF Knows, NetKnows, EventKnown, Net!recv
<1>5. /\ TransferType /\ RepliesAreTruthful /\ ReceiversAreTruthful
      /\ SenderAgrees
  BY DEF Knows, TransferInv
<1> HIDE DEF e
<1>6. TransferType'
  BY Zenon, <1>1, <1>5 DEF TransferType, receiverVars
<1>7. RepliesAreTruthful'
  <2>1. /\ response' # None /\ handling' \in taken'
        /\ Truthful(handling.request, response)'
    <3>1. response' # None /\ handling' = e /\ e \in taken'
      BY <1>1, <1>3, <1>4, ComponentsAssumption
    <3>2. /\ response'.type = "Offer" =>
               <<e.request[1], response'.offer>> \in disclosed'
          /\ response'.type = "Completed" => e.request[1] \in completed'
      BY <1>3
    <3> QED
      BY <3>1, <3>2 DEF Truthful
  <2>2. ASSUME NEW c \in Tokens, NEW f \in taken', calls'[c].status # "none",
               f.request_id = calls'[c].request_id
        PROVE  Truthful(f.request, calls[c].reply)'
    <3>1. f \in taken /\ calls' = calls
      BY <1>4, <2>2
    <3>2. Truthful(f.request, calls[c].reply)
      BY <1>5, <2>2, <3>1 DEF RepliesAreTruthful
    <3> QED
      BY <1>3, <3>1, <3>2 DEF Truthful
  <2>3. ASSUME NEW p \in Requests, NEW reply \in answers'[p]
        PROVE  Truthful(p, reply)'
    BY <1>3, <1>4, <1>5, TruthfulKept DEF RepliesAreTruthful
  <2> QED
    BY <1>1, <2>1, <2>2, <2>3 DEF RepliesAreTruthful
<1>8. ReceiversAreTruthful'
  BY <1>1, <1>3, <1>4, <1>5, ReceiversKept
<1>9. SenderAgrees'
  BY <1>1, <1>3, <1>5 DEF SenderAgrees, receiverVars, Actor!Terminal
<1> QED
  BY <1>6, <1>7, <1>8, <1>9 DEF TransferInv

\* The service hands its answer to the owner.
LEMMA RespondsInv ==
  ASSUME Knows, ServiceResponds, UNCHANGED setup
  PROVE  TransferInv'
<1>1. /\ handling \in taken /\ response \in Actor!Responses
      /\ handling.request_id \in Tokens
      /\ Truthful(handling.request, response)
      /\ calls \in [Tokens -> CallType]
  BY DEF ServiceResponds, Knows, ActorKnows, NetKnows, NetType, TransferInv,
         RepliesAreTruthful
<1>2. /\ service' = "confirm"
      /\ UNCHANGED <<actorAll, handling, outcome, command, handles, receiverVars>>
      /\ UNCHANGED <<taken, stream, answers>>
      /\ \E status : calls' = [calls EXCEPT ![handling.request_id] =
                                 [request_id |-> handling.request_id,
                                  reply |-> response, status |-> status]]
  BY Zenon DEF ServiceResponds, Net!respond
<1>3. /\ TransferType /\ RepliesAreTruthful /\ ReceiversAreTruthful
      /\ SenderAgrees
  BY DEF Knows, TransferInv
<1>4. TransferType' /\ SenderAgrees'
  BY Zenon, <1>2, <1>3 DEF TransferType, SenderAgrees, receiverVars, actorAll,
                    ServiceResponds
<1>5. ReceiversAreTruthful'
  BY <1>2, <1>3 DEF ReceiversAreTruthful, receiverVars, actorAll
<1>6. RepliesAreTruthful'
  <2>1. ASSUME NEW c \in Tokens, NEW e \in taken, calls'[c].status # "none",
               e.request_id = calls'[c].request_id
        PROVE  Truthful(e.request, calls'[c].reply)
    <3>1. CASE c = handling.request_id
      <4>1. e.request_id = handling.request_id /\ calls'[c].reply = response
        BY <1>1, <1>2, <2>1, <3>1
      <4>2. e = handling
        BY <1>1, <4>1 DEF Knows, NetKnows
      <4> QED
        BY <1>1, <4>1, <4>2
    <3>2. CASE c # handling.request_id
      BY <1>1, <1>2, <1>3, <2>1, <3>2 DEF RepliesAreTruthful
    <3> QED
      BY <3>1, <3>2
  <2> QED
    BY <1>1, <1>2, <1>3, <2>1 DEF RepliesAreTruthful, Truthful, actorAll
<1> QED
  BY <1>4, <1>5, <1>6 DEF TransferInv

\* A request arrives at the sender: it was sent, and if there is no room for
\* it the answer says nothing about the share.
LEMMA ArriveInv ==
  ASSUME Knows, NEW q \in Requests, Arrive(q), UNCHANGED setup
  PROVE  TransferInv'
<1>1. /\ q \in sent
      /\ UNCHANGED <<actorAll, senderVars, receiverVars>>
      /\ UNCHANGED <<taken, calls>>
      /\ \A p \in Requests : p # q => /\ answers'[p] = answers[p]
                                      /\ stream'[p] = stream[p]
      /\ answers'[q] \subseteq answers[q] \cup {TemporarilyUnavailable}
  BY DEF Arrive, Net!handle_inbound_request, Net!send_response, Knows,
         NetKnows, NetType
<1>2. /\ TransferType /\ RepliesAreTruthful /\ ReceiversAreTruthful
      /\ SenderAgrees
  BY DEF Knows, TransferInv
<1>3. TransferType' /\ SenderAgrees'
  BY Zenon, <1>1, <1>2
  DEF TransferType, SenderAgrees, receiverVars, senderVars, actorAll
<1>4. ReceiversAreTruthful'
  BY <1>1, <1>2 DEF ReceiversAreTruthful, receiverVars, actorAll
<1>5. Truthful(q, TemporarilyUnavailable)
  BY DEF Truthful, TemporarilyUnavailable
<1>6. RepliesAreTruthful'
  BY <1>1, <1>2, <1>5
  DEF RepliesAreTruthful, Truthful, actorAll, senderVars
<1> QED
  BY <1>3, <1>4, <1>6 DEF TransferInv

\* Every other step: the owner's own, the service's waiting and its return,
\* the rest of the command, and time.
LEMMA OtherInv ==
  ASSUME Knows, OwnerKeeps, UNCHANGED <<setup, receiverVars, claim, disclosed,
                                        completed>>,
         state' = "Consumed" => state = "Consumed",
         outcome' \in Actor!Terminal => outcome' = state',
         outcome' # "none" => service' = "returned",
         \/ service' \in {"select", "returned"}
         \/ UNCHANGED <<service, handling, response>>
  PROVE  TransferInv'
<1>1. /\ TransferType /\ RepliesAreTruthful /\ ReceiversAreTruthful
      /\ SenderAgrees
  BY DEF Knows, TransferInv
<1>2. TransferType'
  BY Zenon, <1>1 DEF TransferType, receiverVars
<1>3. RepliesAreTruthful'
  BY <1>1, OwnerReplies DEF Knows, NetKnows, NetType
<1>4. ReceiversAreTruthful'
  BY <1>1, ReceiversKept DEF OwnerKeeps
<1>5. SenderAgrees'
  BY <1>1 DEF SenderAgrees, receiverVars
<1> QED
  BY <1>2, <1>3, <1>4, <1>5 DEF TransferInv

\* Every step keeps what ties the parts together.
LEMMA NextTransferInv ==
  ASSUME Knows, ActorKnows', [Next]_<<setup, vars>>
  PROVE  TransferInv'
<1>0. UNCHANGED setup
  BY DEF Next
<1>1. ASSUME NEW r \in Receivers, ReceiverStep(r) \/ Killed(r)
      PROVE  TransferInv'
  BY <1>0, <1>1, ReceiverInv DEF Knows
<1>2. ASSUME NEW q \in Requests, Arrive(q)
      PROVE  TransferInv'
  BY <1>0, <1>2, ArriveInv
<1>3. SenderAgrees /\ NetKnows
  BY DEF Knows, TransferInv
<1>4. ASSUME NEW q \in Requests, LibraryStep(q)
      PROVE  TransferInv'
  <2>1. OwnerKeeps
    BY <1>3, <1>4, OwnerEffect DEF LibraryStep
  <2> QED
    BY <1>0, <1>3, <1>4, <2>1, OtherInv
    DEF LibraryStep, SenderAgrees, actorAll, senderVars
<1>5. CASE DriverStep
  <2>1. OwnerKeeps
    BY <1>3, <1>5, OwnerEffect DEF DriverStep
  <2> QED
    BY <1>0, <1>3, <1>5, <2>1, OtherInv
    DEF DriverStep, SenderAgrees, actorAll, senderVars
<1>6. CASE CommandStep
  <2>1. OwnerKeeps
    BY <1>3, <1>6, OwnerEffect
    DEF CommandStep, AfterService, DrainEnds, stop_registration, StopNetwork,
        HandlesDropped
  <2>2. UNCHANGED <<actorAll, service, handling, outcome, receiverVars>>
    BY <1>6
    DEF CommandStep, AfterService, DrainEnds, stop_registration, StopNetwork,
        HandlesDropped, senderVars
  <2> QED
    BY <1>0, <1>3, <2>1, <2>2, OtherInv DEF SenderAgrees, actorAll
<1>7. ASSUME NEW result, Return(result)
      PROVE  /\ OwnerKeeps /\ UNCHANGED receiverVars
             /\ service' = "returned" /\ outcome' = result
  BY <1>3, <1>7, OwnerEffect DEF Return
<1>8. CASE Interrupt
  <2>1. UNCHANGED actorAll /\ Return("Interrupted")
    BY <1>8 DEF Interrupt
  <2>2. /\ OwnerKeeps /\ UNCHANGED receiverVars
        /\ service' = "returned" /\ outcome' = "Interrupted"
    BY <1>7, <2>1
  <2> QED
    BY <1>0, <2>1, <2>2, OtherInv DEF actorAll, Actor!Terminal
<1>9. CASE ServiceTimer
  <2>1. /\ UNCHANGED <<claim, response, disclosed, completed>>
        /\ state' \in {"Expired", "DeliveryUnknown"}
    BY <1>9, TimerEffect DEF ServiceTimer
  <2>2. /\ OwnerKeeps /\ UNCHANGED receiverVars
        /\ service' = "returned" /\ outcome' = state'
    BY <1>9, <1>3, OwnerEffect DEF ServiceTimer, Return
  <2> QED
    BY <1>0, <2>1, <2>2, OtherInv
<1>10. CASE ServiceConfirmed
  <2>1. UNCHANGED actorAll
    BY <1>10 DEF ServiceConfirmed
  <2>2. /\ OwnerKeeps /\ UNCHANGED receiverVars
        /\ \/ service' = "returned" /\ outcome' \in {"Network", state}
           \/ service' = "select" /\ outcome' = outcome
    BY <1>3, <1>7, <1>10, OwnerEffect DEF ServiceConfirmed
  <2>3. service = "confirm"
    BY <1>10 DEF ServiceConfirmed
  <2> QED
    BY <1>0, <1>3, <2>1, <2>2, <2>3, OtherInv
    DEF SenderAgrees, actorAll, Actor!Terminal
<1>11. CASE ServiceIgnores
  <2>1. OwnerKeeps
    BY <1>11 DEF ServiceIgnores, Net!recv, OwnerKeeps
  <2> QED
    BY <1>0, <1>3, <1>11, <2>1, OtherInv
    DEF ServiceIgnores, SenderAgrees, actorAll, senderVars
<1>12. CASE Tick
  <2>1. OwnerKeeps
    BY <1>3, <1>12, OwnerEffect DEF Tick
  <2> QED
    BY <1>0, <1>3, <1>12, <2>1, OtherInv
    DEF Tick, Actor!Tick, SenderAgrees, senderVars
<1>13. CASE UNCHANGED <<setup, vars>>
  <2>1. OwnerKeeps
    BY <1>3, <1>13, OwnerEffect DEF vars
  <2> QED
    BY <1>0, <1>3, <1>13, <2>1, OtherInv
    DEF vars, SenderAgrees, actorAll, senderVars
<1> QED
  BY <1>0, <1>1, <1>2, <1>4, <1>5, <1>6, <1>8, <1>9, <1>10, <1>11, <1>12, <1>13,
     HandlesInv, RespondsInv
  DEF Next, ServiceStep

\* The initial states agree.
LEMMA InitTransferInv == Init => TransferInv
<1> SUFFICES ASSUME Init PROVE TransferInv
  OBVIOUS
<1>1. /\ claim = None /\ state = "Available"
      /\ calls = [c \in Tokens |-> Net!NoCall] /\ answers = [q \in Requests |-> {}]
      /\ stream = [q \in Requests |-> "idle"]
  BY Zenon DEF Init, Actor!Init, Net!DriverInit
<1>2. TransferType
  <2>1. route \in [Receivers -> 1..Routes]
    <3>1. route = [r \in Receivers |-> 1]
      BY Zenon DEF Init
    <3>2. 1 \in 1..Routes
      BY TransferAssumption
    <3> QED
      BY <3>1, <3>2
  <2>2. pc \in [Receivers -> Running \cup {"not found", "output failed",
                                           "succeeded", "unconfirmed", "killed"}]
    BY Zenon DEF Init, Running
  <2> QED
    BY Zenon, <2>1, <2>2 DEF Init, TransferType
<1>3. RepliesAreTruthful
  BY Zenon, <1>1 DEF Init, RepliesAreTruthful, Net!NoCall
<1>4. ReceiversAreTruthful /\ SenderAgrees
  BY Zenon, <1>1 DEF Init, ReceiversAreTruthful, SenderAgrees, Actor!Terminal
<1> QED
  BY <1>2, <1>3, <1>4 DEF TransferInv

\* What the invariants of the parts say together.
LEMMA Agreement ==
  ASSUME Knows
  PROVE  /\ claim \in Actor!BoundClaim \cup {None}
         /\ disclosed = IF claim = None THEN {}
                        ELSE {<<claim.receiver_peer_id, claim.offer>>}
         /\ claim # None <=> state \in {"Disclosed", "Consumed", "DeliveryUnknown"}
         /\ \A r \in completed : /\ state = "Consumed"
                                 /\ disclosed = {<<r, claim.offer>>}
         /\ \A r \in Receivers : offer[r] # None =>
              claim # None /\ r = claim.receiver_peer_id
         /\ \A r \in output : r \in Receivers /\ offer[r] # None
<1>1. ReceiversAreTruthful /\ TransferType
  BY DEF Knows, TransferInv
<1>2. ASSUME NEW r \in Receivers, offer[r] # None
      PROVE  claim # None /\ r = claim.receiver_peer_id
  <2>1. <<r, offer[r]>> \in disclosed
    BY Zenon, <1>1, <1>2 DEF ReceiversAreTruthful
  <2> QED
    BY <2>1 DEF Knows, ActorKnows
<1> QED
  BY Zenon, <1>1, <1>2 DEF Knows, ActorKnows, ReceiversAreTruthful, TransferType

\* What a transfer promises follows from what the parts know.
LEMMA Safety ==
  Knows => OneOutput /\ OnlyTheCodeClaims /\ SenderIsTruthful /\ SuccessAgrees
<1>1. Knows => OneOutput
  BY Agreement DEF OneOutput
<1>2. Knows => OnlyTheCodeClaims
  BY Agreement DEF Knows, TransferInv, SenderAgrees, OnlyTheCodeClaims
<1>3. Knows => SenderIsTruthful
  <2> SUFFICES ASSUME Knows PROVE SenderIsTruthful
    OBVIOUS
  <2>1. SenderAgrees
    BY DEF Knows, TransferInv
  <2>2. ASSUME outcome \in {"Expired", "FailedClosed"}
        PROVE  claim = None
    BY <2>1, <2>2, Agreement DEF SenderAgrees, Actor!Terminal
  <2> QED
    BY <2>1, <2>2, Agreement DEF SenderAgrees, SenderIsTruthful
<1>4. Knows => SuccessAgrees
  <2> SUFFICES ASSUME Knows, NEW r \in Receivers, pc[r] = "succeeded"
               PROVE  /\ state = "Consumed"
                      /\ claim.receiver_peer_id = r
                      /\ \A s \in Receivers \ {r} : offer[s] = None
    BY DEF SuccessAgrees
  <2>1. r \in completed
    BY Zenon DEF Knows, TransferInv, ReceiversAreTruthful
  <2>2. state = "Consumed" /\ claim # None /\ claim.receiver_peer_id = r
    <3>1. state = "Consumed" /\ disclosed = {<<r, claim.offer>>}
      BY <2>1, Agreement
    <3>2. claim # None
          /\ disclosed = {<<claim.receiver_peer_id, claim.offer>>}
      BY <3>1, Agreement
    <3>3. <<r, claim.offer>> = <<claim.receiver_peer_id, claim.offer>>
      BY Zenon, <3>1, <3>2
    <3> QED
      BY <3>1, <3>2, <3>3
  <2> QED
    BY <2>2, Agreement
<1> QED
  BY <1>1, <1>2, <1>3, <1>4

\* There are finitely many requests.
LEMMA RequestsFinite == IsFiniteSet(Requests)
<1> DEFINE Pairs == Receivers \X (1..Routes)
           f == [x \in Pairs |-> <<x[1], "Open", x[2]>>]
           g == [r \in Receivers |-> <<r, "Acknowledge", 0>>]
<1>1. IsFiniteSet(Pairs)
  <2>1. IsFiniteSet(1..Routes)
    BY TransferAssumption, FS_Interval
  <2> QED
    BY <2>1, TransferAssumption, FS_Product
<1>2. f \in Surjection(Pairs, Opens)
  <2>1. ASSUME NEW r \in Receivers, NEW k \in 1..Routes
        PROVE  \E x \in Pairs : f[x] = <<r, "Open", k>>
    <3>1. <<r, k>> \in Pairs /\ f[<<r, k>>] = <<r, "Open", k>>
      OBVIOUS
    <3> QED
      BY <3>1
  <2>2. f \in [Pairs -> Opens]
    BY DEF Opens
  <2>3. ASSUME NEW t \in Opens PROVE \E x \in Pairs : f[x] = t
    <3>1. PICK r \in Receivers, k \in 1..Routes : t = <<r, "Open", k>>
      BY DEF Opens
    <3> QED
      BY <2>1, <3>1
  <2> QED
    BY Zenon, <2>2, <2>3 DEF Surjection
<1>3. g \in Surjection(Receivers, Acknowledges)
  BY DEF Surjection, Acknowledges
<1>4. IsFiniteSet(Opens) /\ IsFiniteSet(Acknowledges)
  BY <1>1, <1>2, <1>3, TransferAssumption, FS_Surjection
<1> QED
  BY Zenon, <1>4, FS_Union DEF Requests

-----------------------------------------------------------------------------
ActorProofs == INSTANCE SenderActorProofs
                 WITH Peers <- Receivers, Versions <- {1}, PROTOCOL_VERSION <- 1

NetProofs == INSTANCE NetworkDriverProofs
               WITH Calls <- Tokens, Replies <- Actor!Responses,
                    Unavailable <- TemporarilyUnavailable

\* The inductive invariant: that of each part, and what ties them together.
IInv ==
  /\ ActorProofs!IInv
  /\ NetProofs!IInv
  /\ NetProofs!TokensCount
  /\ TransferInv

\* The two instances of each component are the same specification.
LEMMA SameActor ==
  /\ Actor!Init <=> ActorProofs!Init
  /\ Actor!Next <=> ActorProofs!Next
  /\ Actor!vars = actorAll /\ ActorProofs!vars = actorAll
  BY
  DEF Actor!Next, ActorProofs!Next, Actor!Init, ActorProofs!Init, Actor!vars,
      ActorProofs!vars, Actor!Tick, ActorProofs!Tick, Actor!handle_open,
      ActorProofs!handle_open, Actor!OpenRefused, ActorProofs!OpenRefused,
      Actor!OpenExpired, ActorProofs!OpenExpired, Actor!prepare_offer,
      ActorProofs!prepare_offer, Actor!PrepareFails, ActorProofs!PrepareFails,
      Actor!resume_offer, ActorProofs!resume_offer, Actor!OpenTooLate,
      ActorProofs!OpenTooLate, Actor!handle_acknowledgement,
      ActorProofs!handle_acknowledgement, Actor!AckRefused,
      ActorProofs!AckRefused, Actor!AckAccepted, ActorProofs!AckAccepted,
      Actor!MatchesClaim, ActorProofs!MatchesClaim, Actor!handle_timer,
      ActorProofs!handle_timer, Actor!close, ActorProofs!close,
      Actor!wipe_source, ActorProofs!wipe_source, Actor!actorVars,
      ActorProofs!actorVars, Actor!ReturnError, ActorProofs!ReturnError,
      Actor!ReturnOffer, ActorProofs!ReturnOffer, Actor!ReturnCompleted,
      ActorProofs!ReturnCompleted, Actor!Authentic, ActorProofs!Authentic,
      Actor!authenticates_open, ActorProofs!authenticates_open,
      Actor!open_proof, ActorProofs!open_proof, Actor!Claimable,
      ActorProofs!Claimable, Actor!PastResume, ActorProofs!PastResume,
      Actor!PreparedOffer, ActorProofs!PreparedOffer, Actor!ResumeDeadline,
      ActorProofs!ResumeDeadline, Actor!OpenRequests, ActorProofs!OpenRequests,
      Actor!AcknowledgeRequests, ActorProofs!AcknowledgeRequests,
      Actor!OpenProofs, ActorProofs!OpenProofs, Actor!Offers,
      ActorProofs!Offers,
      actorAll

\* The same for the network owner.
LEMMA SameNet ==
  /\ Net!DriverInit <=> NetProofs!DriverInit
  /\ Net!Next <=> NetProofs!Next
  /\ Net!driverVars = NetProofs!driverVars
  BY
  DEF Net!Next, NetProofs!Next, Net!DriverInit, NetProofs!DriverInit,
      Net!driverVars, NetProofs!driverVars, Net!tables, NetProofs!tables,
      Net!handle_inbound_request, NetProofs!handle_inbound_request,
      Net!handle_notice, NetProofs!handle_notice, Net!try_send_ok,
      NetProofs!try_send_ok, Net!send_response, NetProofs!send_response,
      Net!Driver, NetProofs!Driver, Net!handle_respond,
      NetProofs!handle_respond, Net!Answerable, NetProofs!Answerable,
      Net!ProtocolIds, NetProofs!ProtocolIds, Net!RetainOthers,
      NetProofs!RetainOthers, Net!ResponseSent, NetProofs!ResponseSent,
      Net!InboundFailure, NetProofs!InboundFailure, Net!Resolve,
      NetProofs!Resolve, Net!Forget, NetProofs!Forget, Net!Settled,
      NetProofs!Settled, Net!Library, NetProofs!Library, Net!StreamFlushes,
      NetProofs!StreamFlushes, Net!StreamBreaks, NetProofs!StreamBreaks,
      Net!respond, NetProofs!respond, Net!recv, NetProofs!recv,
      Net!Unsubscribe, NetProofs!Unsubscribe, Net!stop, NetProofs!stop,
      Net!Insert, NetProofs!Insert, Net!Remove, NetProofs!Remove, Net!Empty,
      NetProofs!Empty, Net!Notice, NetProofs!Notice, Net!NoCall,
      NetProofs!NoCall

\* The constants of a transfer are constants the components allow.
LEMMA ActorAssumption == ActorProofs!SenderActorAssumption
  BY ComponentsAssumption
  DEF Actor!BoundClaim, ActorProofs!BoundClaim, Actor!Offers,
      ActorProofs!Offers, Actor!Responses, ActorProofs!Responses,
      Actor!ProtocolErrorCode, ActorProofs!ProtocolErrorCode

\* The constants of the network owner.
LEMMA NetAssumption == NetProofs!NetworkDriverAssumption
<1>1. TemporarilyUnavailable \notin Actor!Responses
  BY DEF TemporarilyUnavailable, Actor!Responses, Actor!ProtocolErrorCode
<1>2. EventCapacity \in Nat \ {0} /\ MaxNotices \in Nat
  BY ComponentsAssumption
<1>3. NetProofs!IsFiniteSet(Requests)
  BY RequestsFinite DEF IsFiniteSet, NetProofs!IsFiniteSet
<1> QED
  BY <1>1, <1>2, <1>3 DEF NetProofs!NetworkDriverAssumption

\* The owner counts the same requests.
LEMMA SameCardinality == NetProofs!Cardinality(Requests) = Cardinality(Requests)
  BY Zenon DEF Cardinality, NetProofs!Cardinality

\* What the actor's invariant says, in the terms of a transfer.
LEMMA ActorFacts == ActorProofs!IInv => ActorKnows
  BY DEF ActorKnows, ActorProofs!IInv, ActorProofs!TypeOK,
         ActorProofs!DisclosedIsClaim, ActorProofs!SourceHeldWhileLive,
         ActorProofs!CompletedIsClaimant, ActorProofs!BoundClaim,
         Actor!BoundClaim, ActorProofs!Responses, Actor!Responses,
         ActorProofs!ProtocolErrorCode, Actor!ProtocolErrorCode,
         ActorProofs!Offers, Actor!Offers

\* What the network owner's invariant says, in the terms of a transfer.
LEMMA NetFacts ==
  ASSUME NetProofs!IInv, NetProofs!TokensCount
  PROVE  NetKnows
<1>1. /\ taken \subseteq InboundEvents
      /\ calls \in [Tokens -> CallType]
      /\ stream \in [Requests -> {"idle", "open", "answering", "flushed",
                                  "broken", "done"}]
      /\ answers \in [Requests ->
                        SUBSET (Actor!Responses \cup {TemporarilyUnavailable})]
      /\ next_inbound_id \in Nat
      /\ \A e \in taken : e.request_id < next_inbound_id
  BY DEF NetProofs!IInv, NetProofs!TypeOK, NetProofs!InboundEvents,
         NetProofs!TokensAgree, NetProofs!Issued, InboundEvents, CallType
<1>2. NetType
  <2>1. next_inbound_id <= 1 + Cardinality(Requests)
    BY NetAssumption, NetProofs!TokensBound, SameCardinality
  <2>2. Cardinality(Requests) \in Nat
    BY RequestsFinite, FS_CardinalityType
  <2> QED
    BY <1>1, <2>1, <2>2 DEF NetType, Tokens, InboundEvents
<1>3. \A e, f \in NetProofs!Issued : e.request_id = f.request_id => e = f
  BY DEF NetProofs!IInv, NetProofs!TokensAgree
<1>4. \A c \in Tokens : calls[c].status # "none" =>
        \E f \in taken : f.request_id = calls[c].request_id
  BY DEF NetProofs!IInv, NetProofs!CallsAgree
<1>5. EventKnown
  <2> SUFFICES ASSUME events # <<>>, Head(events) # Net!Notice
               PROVE  /\ Head(events) \in InboundEvents
                      /\ stream[Head(events).request] # "idle"
                      /\ \A c \in Tokens :
                           /\ calls[c].status # "none"
                           /\ Head(events).request_id = calls[c].request_id
                           => Head(events) \in taken
    BY DEF EventKnown
  <2>1. Head(events) \in NetProofs!Elements(events)
    <3>1. events \in Seq(NetProofs!InboundEvents \cup {NetProofs!Notice})
      BY DEF NetProofs!IInv, NetProofs!TypeOK
    <3> QED
      BY <3>1 DEF NetProofs!Elements
  <2>2. Head(events) \in NetProofs!Issued
    BY <2>1 DEF NetProofs!Issued, NetProofs!Notice, Net!Notice
  <2>3. /\ Head(events) \in InboundEvents
        /\ stream[Head(events).request] # "idle"
    BY <2>2, NetProofs!IssuedType
    DEF NetProofs!IInv, NetProofs!TokensAgree, NetProofs!InboundEvents,
        InboundEvents
  <2> QED
    BY <1>3, <1>4, <2>2, <2>3 DEF NetProofs!Issued
<1>6. CommandKnown
  <2> SUFFICES ASSUME commands # <<>> PROVE CommandKnown
    BY DEF CommandKnown
  <2>1. Head(commands) \in Tokens /\ calls[Head(commands)].status = "queued"
    <3>1. commands \in Seq(Tokens)
      BY DEF NetProofs!IInv, NetProofs!TypeOK
    <3>2. 1 \in 1..Len(commands) /\ Head(commands) = commands[1]
      BY <3>1
    <3> QED
      BY <3>1, <3>2 DEF NetProofs!IInv, NetProofs!QueuedOnce
  <2>2. PICK e \in taken : e.request_id = calls[Head(commands)].request_id
    BY <1>4, <2>1
  <2>3. e.request_id \in DOMAIN inbound => inbound[e.request_id] = e.request
    BY <2>2 DEF NetProofs!IInv, NetProofs!TokensAgree, NetProofs!Issued
  <2> QED
    BY <2>1, <2>2, <2>3 DEF CommandKnown
<1>7. \A q \in DOMAIN inbound_confirmations :
        /\ inbound_confirmations[q] \in Tokens
        /\ calls[inbound_confirmations[q]].status = "sending"
  BY DEF NetProofs!IInv, NetProofs!TypeOK, NetProofs!ConfirmationsAgree
<1> QED
  BY <1>2, <1>3, <1>5, <1>6, <1>7 DEF NetKnows, NetProofs!Issued

\* The parts know of each other what the steps of a transfer rest on.
LEMMA IInvKnows == IInv => Knows
  BY ActorFacts, NetFacts DEF IInv, Knows

\* The initial states.
LEMMA InitIInv == Init => IInv
<1> SUFFICES ASSUME Init PROVE IInv
  OBVIOUS
<1>1. ActorProofs!IInv
  BY Zenon, ActorAssumption, ActorProofs!InitIInv, SameActor DEF Init
<1>2. NetProofs!IInv /\ NetProofs!TokensCount
  BY Zenon, NetProofs!InitIInv, NetProofs!InitTokensCount, SameNet DEF Init
<1> QED
  BY <1>1, <1>2, InitTransferInv DEF IInv

\* Every step of the specification keeps the invariant.
LEMMA NextIInv == IInv /\ [Next]_<<setup, vars>> => IInv'
<1> SUFFICES ASSUME IInv, [Next]_<<setup, vars>> PROVE IInv'
  OBVIOUS
<1>1. ActorProofs!IInv'
  <2>1. UNCHANGED actorAll => UNCHANGED ActorProofs!vars
    BY DEF actorAll, ActorProofs!vars
  <2>2. [ActorProofs!Next]_(ActorProofs!vars)
    BY <2>1, IInvKnows, ActorStep, SameActor
  <2> QED
    BY <2>2, ActorAssumption, ActorProofs!NextIInv DEF IInv
<1>2. [NetProofs!Next]_(NetProofs!driverVars)
  <2>1. UNCHANGED netAll => UNCHANGED NetProofs!driverVars
    BY DEF netAll, NetProofs!driverVars, NetProofs!tables
  <2> QED
    BY <2>1, IInvKnows, NetStep, SameNet
<1>3. NetProofs!IInv'
  BY <1>2, NetProofs!NextIInv DEF IInv
<1>4. NetProofs!TokensCount'
  BY <1>2, NetAssumption, NetProofs!NextTokensCount DEF IInv
<1>5. TransferInv'
  <2>1. ActorKnows'
    BY <1>1
    DEF ActorKnows, ActorProofs!IInv, ActorProofs!TypeOK,
        ActorProofs!DisclosedIsClaim, ActorProofs!SourceHeldWhileLive,
        ActorProofs!CompletedIsClaimant, ActorProofs!BoundClaim,
        Actor!BoundClaim, ActorProofs!Responses, Actor!Responses,
        ActorProofs!ProtocolErrorCode, Actor!ProtocolErrorCode,
        ActorProofs!Offers, Actor!Offers
  <2> QED
    BY <2>1, IInvKnows, NextTransferInv
<1> QED
  BY <1>1, <1>3, <1>4, <1>5 DEF IInv

\* The inductive invariant holds throughout.
THEOREM Invariance == Spec => []IInv
  BY InitIInv, NextIInv, PTL DEF Spec

\* At most one receiver ever puts the plaintext in place, whatever is lost,
\* late, repeated or killed on the way (DirectReceiver, receive).
THEOREM OneOutputAlways == Spec => []OneOutput
<1>1. IInv => OneOutput
  BY IInvKnows, Safety
<1> QED
  BY <1>1, Invariance, PTL

\* A receiver with another code claims nothing and gets nothing
\* (authenticates_open, verify_offer).
THEOREM OnlyTheCodeClaimsAlways == Spec => []OnlyTheCodeClaims
<1>1. IInv => OnlyTheCodeClaims
  BY IInvKnows, Safety
<1> QED
  BY <1>1, Invariance, PTL

\* What `send` reports is true of the receivers: Consumed means an output in
\* place, Expired and FailedClosed that nobody holds anything
\* (handle_acknowledgement, DirectSender::run).
THEOREM SenderIsTruthfulAlways == Spec => []SenderIsTruthful
<1>1. IInv => SenderIsTruthful
  BY IInvKnows, Safety
<1> QED
  BY <1>1, Invariance, PTL

\* A receiver that exits with success was the one claimant of a share that is
\* Consumed (DirectReceiver's acknowledgement).
THEOREM SuccessAgreesAlways == Spec => []SuccessAgrees
<1>1. IInv => SuccessAgrees
  BY IInvKnows, Safety
<1> QED
  BY <1>1, Invariance, PTL

\* In a transfer the actor behaves as SenderActor says, although only genuine
\* requests reach it and it is polled between answers.
THEOREM ImplementsActor == Spec => Actor!Spec
<1>1. Init => Actor!Init
  BY Zenon DEF Init
<1>2. IInv /\ [Next]_<<setup, vars>> => [Actor!Next]_(Actor!vars)
  BY IInvKnows, ActorStep DEF actorAll, Actor!vars
<1> QED
  BY <1>1, <1>2, Invariance, PTL DEF Spec, Actor!Spec

\* In a transfer the network owner behaves as NetworkDriver says: the service
\* answers only tokens it took, each with a reply of the actor.
THEOREM ImplementsDriver == Spec => Net!Spec
<1>1. Init => Net!DriverInit
  BY Zenon DEF Init
<1>2. IInv /\ [Next]_<<setup, vars>> => [Net!Next]_(Net!driverVars)
  <2>1. UNCHANGED netAll => UNCHANGED Net!driverVars
    BY DEF netAll, Net!driverVars, Net!tables
  <2> QED
    BY <2>1, IInvKnows, NetStep
<1> QED
  BY <1>1, <1>2, Invariance, PTL DEF Spec, Net!Spec

\* A whole transfer implements the abstract one-time share: the receivers get
\* the payload from at most one hand-over, and the verdict tells the truth.
THEOREM ImplementsOneTimeShare == Spec => ActorProofs!ImplementsOneTimeShare
<1>1. Init => ActorProofs!Init
  BY Zenon, SameActor DEF Init
<1>2. IInv /\ [Next]_<<setup, vars>> => [ActorProofs!Next]_(ActorProofs!vars)
  <2>1. UNCHANGED actorAll => UNCHANGED ActorProofs!vars
    BY DEF actorAll, ActorProofs!vars
  <2> QED
    BY <2>1, IInvKnows, ActorStep, SameActor
<1>3. Spec => ActorProofs!Spec
  BY <1>1, <1>2, Invariance, PTL DEF Spec, ActorProofs!Spec
<1>4. ActorProofs!Spec => ActorProofs!ImplementsOneTimeShare
  BY ActorAssumption, ActorProofs!Refinement
<1> QED
  BY <1>3, <1>4

==============================================================================
