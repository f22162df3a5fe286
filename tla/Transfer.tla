------------------------------ MODULE Transfer ------------------------------
(***************************************************************************)
(* One share from `envshare send` to the receivers that ask for it: the    *)
(* send command and its DirectSender service, the sender's actor and       *)
(* network owner, and the receive commands with their own processes.       *)
(*                                                                         *)
(* A request is named by who sent it, what it is and on which route, so it *)
(* is sent at most once.  Nothing forces it to arrive, to arrive in order  *)
(* or to arrive before its sender has given up.                            *)
(***************************************************************************)
EXTENDS Naturals, Sequences, FiniteSets

CONSTANTS
  Receivers,          \* receive processes; each has a fresh Peer ID
  Routes,             \* bound on the candidate routes of a receiver
  Setups,             \* what the processes may start from
  Secrets, Secret, Entropy, AvailableDeadline, ResumeDuration, MaxTime,
  EventCapacity, MaxNotices, None

Opens == {<<r, "Open", k>> : r \in Receivers, k \in 1..Routes}
Acknowledges == {<<r, "Acknowledge", 0>> : r \in Receivers}
Requests == Opens \cup Acknowledges

ASSUME TransferAssumption ==
  /\ IsFiniteSet(Receivers)
  /\ Routes \in Nat \ {0}
  /\ Setups \subseteq [code : [Receivers -> Secrets], routes : [Receivers -> 0..Routes],
                       discovery : BOOLEAN]

VARIABLES
  setup,       \* the code and routes of each receiver; the sender registers
  state, source, claim, now, response, disclosed, completed,
  running, subscribed, next_inbound_id, inbound, inbound_protocol_ids,
  inbound_confirmations, events, taken, notices, calls, commands, stream,
  answers, delivered,
  service,     \* where DirectSender::run is
  handling,    \* the event handle_event is answering
  outcome,     \* what the select of `send` returned
  command,     \* where `send` is after that
  handles,     \* the tasks that hold a NetworkClient
  sent,        \* the requests that left their receiver
  pc,          \* where each receiver is
  route,       \* the route each receiver is on
  offer,       \* the verified Offer of each receiver
  output       \* the receivers whose output is in place

\* receiver_session draws a new nonce for every route.
Nonce(r, k) == <<r, k>>
Nonces == Receivers \X (1..Routes)

Actor == INSTANCE SenderActor
           WITH Peers <- Receivers, Versions <- {1}, PROTOCOL_VERSION <- 1

Tokens == 1..Cardinality(Requests)

TemporarilyUnavailable ==
  [type |-> "Error", code |-> "TemporarilyUnavailable"]

\* DirectSender answers a token once, so a call is named by its token.
Net == INSTANCE NetworkDriver
         WITH Calls <- Tokens, Replies <- Actor!Responses,
              Unavailable <- TemporarilyUnavailable

ASSUME ComponentsAssumption ==
  /\ Secret \in Secrets
  /\ {AvailableDeadline, ResumeDuration, MaxTime, MaxNotices} \subseteq Nat
  /\ EventCapacity \in Nat \ {0}
  /\ None \notin Actor!BoundClaim \cup Actor!Responses \cup Actor!Offers

actorAll == <<state, source, claim, now, response, disclosed, completed>>
netAll == <<running, subscribed, next_inbound_id, inbound,
            inbound_protocol_ids, inbound_confirmations, events, taken,
            notices, calls, commands, stream, answers, delivered>>
senderVars == <<service, handling, outcome, command, handles>>
receiverVars == <<sent, pc, route, offer, output>>
vars == <<actorAll, netAll, senderVars, receiverVars>>


\* The client moves into the service; only the maintenance task of a
\* registered share keeps a clone.
InitialHandles ==
  IF setup.discovery THEN {"service", "maintenance"} ELSE {"service"}

Init ==
  /\ setup \in Setups
  /\ Actor!Init
  /\ Net!DriverInit
  /\ service = "select"
  /\ handling = None
  /\ outcome = "none"
  /\ command = "serving"
  /\ handles = InitialHandles
  /\ sent = {}
  /\ pc = [r \in Receivers |-> IF setup.routes[r] = 0 THEN "not found" ELSE "start"]
  /\ route = [r \in Receivers |-> 1]
  /\ offer = [r \in Receivers |-> None]
  /\ output = {}
-----------------------------------------------------------------------------
(* Receivers: receive_direct_with_code, DirectReceiver, receive and run. *)

open_request(r, k) ==
  [protocol_version |-> 1, room_id |-> setup.code[r], receiver_nonce |-> Nonce(r, k),
   receiver_proof |-> Actor!open_proof(setup.code[r], r, Nonce(r, k))]

acknowledgement(o) ==
  [protocol_version |-> 1, claim_id |-> o.entropy, ciphertext_digest |-> o,
   acknowledgement_proof |-> o]

SendOpen(r) ==
  /\ pc[r] = "start"
  /\ sent' = sent \cup {<<r, "Open", route[r]>>}
  /\ pc' = [pc EXCEPT ![r] = "opening"]
  /\ UNCHANGED <<actorAll, netAll, senderVars, route, offer, output>>

\* The session only accepts an Offer made for its own code, peer and nonce.
verify_offer(r, o) ==
  o.secret = setup.code[r] /\ o.peer = r /\ o.nonce = Nonce(r, route[r])

Reaches(q, reply) == q \in delivered /\ answers[q] = {reply}

ReceiveOffer(r) ==
  /\ pc[r] = "opening"
  /\ \E o \in Actor!Offers :
       /\ Reaches(<<r, "Open", route[r]>>, [type |-> "Offer", offer |-> o])
       /\ verify_offer(r, o)
       /\ offer' = [offer EXCEPT ![r] = o]
  /\ pc' = [pc EXCEPT ![r] = "holding"]
  /\ UNCHANGED <<actorAll, netAll, senderVars, sent, route, output>>

HasNextRoute(r) == route[r] < setup.routes[r]

OpenFails_again(r) ==
  /\ pc[r] = "opening"
  /\ pc' = [pc EXCEPT ![r] = "start"]
  /\ UNCHANGED <<actorAll, netAll, senderVars, sent, route, offer, output>>

\* An error response, a timeout or a lost connection: the next route, if any.
OpenFails(r) ==
  /\ pc[r] = "opening"
  /\ IF HasNextRoute(r)
       THEN /\ route' = [route EXCEPT ![r] = @ + 1]
            /\ pc' = [pc EXCEPT ![r] = "start"]
       ELSE /\ pc' = [pc EXCEPT ![r] = "not found"]
            /\ UNCHANGED route
  /\ UNCHANGED <<actorAll, netAll, senderVars, sent, offer, output>>

\* The file is in place, or the child was spawned.
Persist(r) ==
  /\ pc[r] = "holding"
  /\ output' = output \cup {r}
  /\ pc' = [pc EXCEPT ![r] = "persisted"]
  /\ UNCHANGED <<actorAll, netAll, senderVars, sent, route, offer>>

\* The output fails, before or after the file was put in place.
PersistFails(r) ==
  /\ pc[r] = "holding"
  /\ output' \in {output, output \cup {r}}
  /\ pc' = [pc EXCEPT ![r] = "output failed"]
  /\ UNCHANGED <<actorAll, netAll, senderVars, sent, route, offer>>

SendAcknowledge_early(r) ==
  /\ pc[r] \in {"holding", "persisted"}
  /\ sent' = sent \cup {<<r, "Acknowledge", 0>>}
  /\ pc' = [pc EXCEPT ![r] = "acknowledging"]
  /\ UNCHANGED <<actorAll, netAll, senderVars, route, offer, output>>

SendAcknowledge(r) ==
  /\ pc[r] = "persisted"
  /\ sent' = sent \cup {<<r, "Acknowledge", 0>>}
  /\ pc' = [pc EXCEPT ![r] = "acknowledging"]
  /\ UNCHANGED <<actorAll, netAll, senderVars, route, offer, output>>

ReceiveCompleted_any(r) ==
  /\ pc[r] = "acknowledging"
  /\ <<r, "Acknowledge", 0>> \in delivered
  /\ pc' = [pc EXCEPT ![r] = "succeeded"]
  /\ UNCHANGED <<actorAll, netAll, senderVars, sent, route, offer, output>>

ReceiveCompleted(r) ==
  /\ pc[r] = "acknowledging"
  /\ Reaches(<<r, "Acknowledge", 0>>,
             [type |-> "Completed", claim_id |-> offer[r].entropy])
  /\ pc' = [pc EXCEPT ![r] = "succeeded"]
  /\ UNCHANGED <<actorAll, netAll, senderVars, sent, route, offer, output>>

\* Any other answer, a timeout or a lost connection.
AcknowledgeFails(r) ==
  /\ pc[r] = "acknowledging"
  /\ pc' = [pc EXCEPT ![r] = "unconfirmed"]
  /\ UNCHANGED <<actorAll, netAll, senderVars, sent, route, offer, output>>

Running == {"start", "opening", "holding", "persisted", "acknowledging"}

\* The receiver's process is killed.
Killed(r) ==
  /\ pc[r] \in Running
  /\ pc' = [pc EXCEPT ![r] = "killed"]
  /\ UNCHANGED <<actorAll, netAll, senderVars, sent, route, offer, output>>
-----------------------------------------------------------------------------
(* The sender's network owner, driven by libp2p. *)

Arrive(q) ==
  /\ q \in sent
  /\ Net!handle_inbound_request(q)
  /\ UNCHANGED <<actorAll, senderVars, receiverVars>>

DriverStep ==
  /\ \/ Net!handle_notice
     \/ Net!handle_respond
     \/ \E q \in Requests : Net!ResponseSent(q) \/ Net!InboundFailure(q)
  /\ UNCHANGED <<actorAll, senderVars, receiverVars>>

LibraryStep(q) ==
  /\ Net!StreamFlushes(q) \/ Net!StreamBreaks(q)
  /\ UNCHANGED <<actorAll, senderVars, receiverVars>>
-----------------------------------------------------------------------------
(* DirectSender::run and handle_event. *)

\* run returns: the event receiver and the client it owned are dropped.
Return(result) ==
  /\ service' = "returned"
  /\ outcome' = result
  /\ handling' = None
  /\ handles' = handles \ {"service"}
  /\ Net!Unsubscribe
  /\ UNCHANGED <<command, receiverVars>>

\* The timer arm.  handle_timer only ever leads to a terminal state.
ServiceTimer ==
  /\ service = "select"
  /\ Actor!handle_timer
  /\ UNCHANGED now
  /\ Return(state')

ServiceIgnores ==
  /\ service = "select"
  /\ events # <<>> /\ Head(events) = Net!Notice
  /\ Net!recv
  /\ UNCHANGED <<actorAll, senderVars, receiverVars>>

\* handle_event takes a request and runs the actor on it.
ServiceHandles ==
  /\ service = "select"
  /\ events # <<>> /\ Head(events) # Net!Notice
  /\ LET q == Head(events).request
     IN  \/ /\ q[2] = "Open"
            /\ Actor!handle_open(q[1], open_request(q[1], q[3]))
         \/ /\ q[2] = "Acknowledge"
            /\ Actor!handle_acknowledgement(q[1], acknowledgement(offer[q[1]]))
  /\ handling' = Head(events)
  /\ Net!recv
  /\ service' = "respond"
  /\ UNCHANGED <<now, outcome, command, handles, receiverVars>>

ServiceResponds ==
  /\ service = "respond"
  /\ Net!respond(handling.request_id, handling.request_id, response)
  /\ service' = "confirm"
  /\ UNCHANGED <<actorAll, handling, outcome, command, handles, receiverVars>>

\* The confirmation arrived.  A failed one ends the service with an error; a
\* good one is followed by the check for a terminal state.
ServiceConfirmed ==
  /\ service = "confirm"
  /\ LET status == calls[handling.request_id].status
     IN  \/ /\ status = "err"
            /\ Return("Network")
         \/ /\ status = "ok"
            /\ state \in Actor!Terminal
            /\ Return(state)
         \/ /\ status = "ok"
            /\ state \notin Actor!Terminal
            /\ service' = "select"
            /\ handling' = None
            /\ UNCHANGED <<netAll, outcome, command, handles, receiverVars>>
  /\ UNCHANGED actorAll

\* Ctrl+C drops the service future wherever it is suspended.
Interrupt ==
  /\ service # "returned"
  /\ Return("Interrupted")
  /\ UNCHANGED actorAll
-----------------------------------------------------------------------------
(* The rest of `send`: drain, stop_registration, RunningNetwork::stop. *)

AfterService ==
  /\ command = "serving" /\ service = "returned"
  /\ command' = IF outcome = "Consumed" THEN "draining" ELSE "deregistering"
  /\ UNCHANGED <<actorAll, netAll, service, handling, outcome, handles,
                 receiverVars>>

DrainEnds ==
  /\ command = "draining"
  /\ command' = "deregistering"
  /\ UNCHANGED <<actorAll, netAll, service, handling, outcome, handles,
                 receiverVars>>

stop_registration ==
  /\ command = "deregistering"
  /\ handles' = handles \ {"maintenance"}
  /\ command' = "stopping"
  /\ UNCHANGED <<actorAll, netAll, service, handling, outcome, receiverVars>>

StopNetwork ==
  /\ command = "stopping"
  /\ IF running THEN Net!stop ELSE UNCHANGED netAll
  /\ command' = "exited"
  /\ UNCHANGED <<actorAll, service, handling, outcome, handles, receiverVars>>

\* The driver's loop ends by itself once no client handle is left.
HandlesDropped ==
  /\ handles = {}
  /\ Net!stop
  /\ UNCHANGED <<actorAll, senderVars, receiverVars>>
-----------------------------------------------------------------------------
Tick ==
  /\ Actor!Tick
  /\ UNCHANGED <<netAll, senderVars, receiverVars>>

ReceiverStep(r) ==
  \/ SendOpen(r) \/ ReceiveOffer(r) \/ OpenFails(r)
  \/ Persist(r) \/ PersistFails(r)
  \/ SendAcknowledge(r) \/ ReceiveCompleted(r) \/ AcknowledgeFails(r)

ServiceStep ==
  ServiceTimer \/ ServiceIgnores \/ ServiceHandles \/ ServiceResponds
    \/ ServiceConfirmed

CommandStep ==
  AfterService \/ DrainEnds \/ stop_registration \/ StopNetwork
    \/ HandlesDropped

Next ==
  /\ \/ \E r \in Receivers : ReceiverStep(r) \/ Killed(r)
     \/ \E q \in Requests : Arrive(q) \/ LibraryStep(q)
     \/ DriverStep
     \/ ServiceStep
     \/ Interrupt
     \/ CommandStep
     \/ Tick
  /\ UNCHANGED setup

Spec == Init /\ [][Next]_<<setup, vars>>

\* What goes on by itself: tasks that can run, time, and libp2p, which ends
\* every stream.  A request need not arrive; Ctrl+C and kills need not happen.
Progress ==
  \/ \E r \in Receivers : ReceiverStep(r)
  \/ \E q \in Requests : LibraryStep(q)
  \/ DriverStep \/ ServiceStep \/ CommandStep \/ Tick

\* Each of these takes finitely many steps, so that fairness of them together
\* is enough.
FairSpec == Spec /\ WF_vars(Progress)
-----------------------------------------------------------------------------
\* Whatever is lost, late or raced, the plaintext is put in place by at most
\* one receiver.
OneOutput == \A r, s \in output : r = s

\* A receiver that was given another code claims nothing and gets nothing.
OnlyTheCodeClaims ==
  /\ claim # None => setup.code[claim.receiver_peer_id] = Secret
  /\ \A r \in output : setup.code[r] = Secret

\* The sender never claims more than happened: Consumed, in the actor or as
\* the command's result, means that the claimant's output is in place;
\* Expired and FailedClosed mean that nobody was given anything.
SenderIsTruthful ==
  /\ state = "Consumed" => claim.receiver_peer_id \in output
  /\ outcome \in Actor!Terminal => outcome = state
  /\ outcome \in {"Expired", "FailedClosed"} =>
       /\ output = {}
       /\ \A r \in Receivers : offer[r] = None

\* A receiver that exits with success was the claimant of a share that is
\* Consumed: both ends agree, and no other receiver holds an Offer.
SuccessAgrees ==
  \A r \in Receivers : pc[r] = "succeeded" =>
    /\ state = "Consumed"
    /\ claim.receiver_peer_id = r
    /\ \A s \in Receivers \ {r} : offer[s] = None

\* "Keep the swarm alive briefly so a relayed stream can deliver it before
\* teardown": while `send` waits after a confirmed transfer, the network
\* owner still runs.
DrainKeepsSwarm == command = "draining" => running

\* "It remains online until one receiver completes the transfer, the share
\* expires, or you press Ctrl+C": the service ends for no other reason than a
\* terminal state or an interrupt.
RemainsOnline ==
  service = "returned" => outcome \in Actor!Terminal \cup {"Interrupted"}

\* "Response send may have started | State remains Disclosed | Same claim can
\* retry": the receiver that holds the claim is not told that the share was
\* claimed by somebody else.
ClaimantCanRetry ==
  \A q \in Opens :
    [type |-> "Error", code |-> "ShareAlreadyClaimed"] \in answers[q]
      => q[1] # claim.receiver_peer_id

\* The send command ends: no confirmation, timer or handle keeps it for ever.
SenderExits == <>(command = "exited")

\* Every receiver ends, whether or not the sender ever answers.
ReceiversEnd == \A r \in Receivers : <>(pc[r] \notin Running)
=============================================================================
