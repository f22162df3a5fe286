----------------------------- MODULE SenderActor -----------------------------
(***************************************************************************)
(* The single-owner state machine of one single-use share                  *)
(* (crates/core/src/sender/actor.rs).  A handler is one action: the actor  *)
(* is driven serially and no handler awaits.                               *)
(*                                                                         *)
(* Cryptography is symbolic.  A keyed proof is the term of what it binds   *)
(* and verifies when the terms are equal; the room identifier is a         *)
(* function of the capability secret, and a ciphertext, its digest and its *)
(* acknowledgement proof are functions of the session, so one Offer term   *)
(* stands for all of them.                                                 *)
(***************************************************************************)
EXTENDS Naturals

CONSTANTS
  Peers,              \* authenticated receiver Peer IDs
  Nonces,             \* receiver nonces
  Entropy,            \* what the three draws of prepare_offer can yield
  Secrets,            \* capability secrets
  Secret,             \* the secret of this share
  Versions,           \* values of a request's protocol_version field
  PROTOCOL_VERSION,
  AvailableDeadline,  \* available_deadline; the share is created at time 0
  ResumeDuration,     \* resume_duration
  MaxTime,            \* bound on the clock
  None

SenderState == {"Available", "Disclosed", "Consumed", "Expired",
                "DeliveryUnknown", "FailedClosed"}

Terminal == {"Consumed", "Expired", "DeliveryUnknown", "FailedClosed"}

Offers == [secret : Secrets, peer : Peers, nonce : Nonces, entropy : Entropy]

OpenProofs == [secret : Secrets, peer : Peers, nonce : Nonces]

OpenRequests ==
  [protocol_version : Versions, room_id : Secrets, receiver_nonce : Nonces,
   receiver_proof : OpenProofs]

AcknowledgeRequests ==
  [protocol_version : Versions, claim_id : Entropy,
   ciphertext_digest : Offers, acknowledgement_proof : Offers]

ProtocolErrorCode ==
  {"NotFoundOrUnauthorized", "UnsupportedVersion", "ShareUnavailable",
   "ShareExpired", "ShareAlreadyClaimed", "ClaimMismatch", "InternalFailure"}

BoundClaim ==
  [receiver_peer_id : Peers, receiver_nonce : Nonces, claim_id : Entropy,
   offer : Offers, resume_deadline : Nat]

Responses ==
  [type : {"Offer"}, offer : Offers]
    \cup [type : {"Completed"}, claim_id : Entropy]
    \cup [type : {"Error"}, code : ProtocolErrorCode]

ASSUME SenderActorAssumption ==
  /\ Secret \in Secrets
  /\ PROTOCOL_VERSION \in Versions
  /\ AvailableDeadline \in Nat
  /\ ResumeDuration \in Nat
  /\ MaxTime \in Nat
  /\ None \notin BoundClaim
  /\ None \notin Responses

VARIABLES
  state,      \* SenderState
  source,     \* root and encoded_envelope are both Some
  claim,      \* a BoundClaim or None
  now,        \* Instant::now()
  response,   \* what the last handler returned, None before the first
  disclosed,  \* history: every Offer returned, with the peer it was returned to
  completed   \* history: every peer that was returned Completed

actorVars == <<state, source, claim>>
vars == <<state, source, claim, now, response, disclosed, completed>>

Init ==
  /\ state = "Available"
  /\ source = TRUE
  /\ claim = None
  /\ now = 0
  /\ response = None
  /\ disclosed = {}
  /\ completed = {}
-----------------------------------------------------------------------------
ReturnError(code) ==
  /\ response' = [type |-> "Error", code |-> code]
  /\ UNCHANGED <<disclosed, completed>>

ReturnOffer(peer, offer) ==
  /\ response' = [type |-> "Offer", offer |-> offer]
  /\ disclosed' = disclosed \cup {<<peer, offer>>}
  /\ UNCHANGED completed

ReturnCompleted(peer, claim_id) ==
  /\ response' = [type |-> "Completed", claim_id |-> claim_id]
  /\ completed' = completed \cup {peer}
  /\ UNCHANGED disclosed

wipe_source == source' = FALSE

close(terminal) ==
  /\ state' = terminal
  /\ wipe_source
  /\ UNCHANGED claim

open_proof(secret, peer, nonce) ==
  [secret |-> secret, peer |-> peer, nonce |-> nonce]

authenticates_open_any(peer, request) == source

authenticates_open(peer, request) ==
  /\ source
  /\ request.room_id = Secret
  /\ request.receiver_proof = open_proof(Secret, peer, request.receiver_nonce)

Claimable == state = "Available" /\ now < AvailableDeadline

PastResume_late == now > claim.resume_deadline

PastResume == now >= claim.resume_deadline
-----------------------------------------------------------------------------
(***************************************************************************)
(* handle_open, one disjunct per way out of it.  PreparingOffer is set and *)
(* left inside the handler and is never seen by another call.  The arm for *)
(* the terminal states is not reachable: they hold no source, and          *)
(* authenticates_open refuses without one (SourceHeldWhileLive).           *)
(***************************************************************************)
OpenRefused(peer, request) ==
  /\ \/ /\ request.protocol_version # PROTOCOL_VERSION
        /\ ReturnError("UnsupportedVersion")
     \/ /\ request.protocol_version = PROTOCOL_VERSION
        /\ ~authenticates_open(peer, request)
        /\ ReturnError("NotFoundOrUnauthorized")
  /\ UNCHANGED actorVars

Authentic(peer, request) ==
  /\ request.protocol_version = PROTOCOL_VERSION
  /\ authenticates_open(peer, request)

OpenExpired(peer, request) ==
  /\ Authentic(peer, request)
  /\ state = "Available" /\ now >= AvailableDeadline
  /\ close("Expired")
  /\ ReturnError("ShareExpired")

PreparedOffer(peer, nonce, drawn) ==
  [secret |-> Secret, peer |-> peer, nonce |-> nonce, entropy |-> drawn]

resume_offer_rebinds(peer, request) ==
  /\ Authentic(peer, request)
  /\ state = "Disclosed" /\ ~PastResume
  /\ \E drawn \in Entropy :
       LET offer == PreparedOffer(peer, request.receiver_nonce, drawn)
       IN  /\ claim' = [claim EXCEPT !.receiver_peer_id = peer,
                                     !.receiver_nonce = request.receiver_nonce,
                                     !.offer = offer]
           /\ ReturnOffer(peer, offer)
  /\ UNCHANGED <<state, source>>

resume_offer_any_nonce(peer, request) ==
  /\ Authentic(peer, request)
  /\ state = "Disclosed" /\ ~PastResume
  /\ ReturnOffer(peer, claim.offer)
  /\ UNCHANGED actorVars

resume_offer(peer, request) ==
  /\ Authentic(peer, request)
  /\ state = "Disclosed" /\ ~PastResume
  /\ \/ /\ peer = claim.receiver_peer_id
        /\ request.receiver_nonce = claim.receiver_nonce
        /\ ReturnOffer(peer, claim.offer)
     \/ /\ \/ peer # claim.receiver_peer_id
           \/ request.receiver_nonce # claim.receiver_nonce
        /\ ReturnError("ShareAlreadyClaimed")
  /\ UNCHANGED actorVars

OpenTooLate(peer, request) ==
  /\ Authentic(peer, request)
  /\ state = "Disclosed" /\ PastResume
  /\ close("DeliveryUnknown")
  /\ ReturnError("ShareUnavailable")

ResumeDeadline == now + ResumeDuration

prepare_offer(peer, request) ==
  /\ Authentic(peer, request)
  /\ Claimable
  /\ \E drawn \in Entropy :
       LET offer == PreparedOffer(peer, request.receiver_nonce, drawn)
       IN  /\ claim' = [receiver_peer_id |-> peer,
                        receiver_nonce |-> request.receiver_nonce,
                        claim_id |-> drawn,
                        offer |-> offer,
                        resume_deadline |-> ResumeDeadline]
           /\ ReturnOffer(peer, offer)
  /\ state' = "Disclosed"
  /\ UNCHANGED source

\* A draw of entropy, the key schedule, the cipher or the deadline fails.
PrepareFails(peer, request) ==
  /\ Authentic(peer, request)
  /\ Claimable
  /\ close("FailedClosed")
  /\ ReturnError("InternalFailure")

handle_open(peer, request) ==
  \/ OpenRefused(peer, request)
  \/ OpenExpired(peer, request)
  \/ prepare_offer(peer, request)
  \/ PrepareFails(peer, request)
  \/ resume_offer(peer, request)
  \/ OpenTooLate(peer, request)
-----------------------------------------------------------------------------
MatchesClaim_any_peer(peer, request) ==
  /\ request.claim_id = claim.claim_id
  /\ request.ciphertext_digest = claim.offer
  /\ request.acknowledgement_proof = claim.offer

MatchesClaim(peer, request) ==
  /\ peer = claim.receiver_peer_id
  /\ request.claim_id = claim.claim_id
  /\ request.ciphertext_digest = claim.offer
  /\ request.acknowledgement_proof = claim.offer

AckRefused(peer, request) ==
  /\ \/ /\ request.protocol_version # PROTOCOL_VERSION
        /\ ReturnError("UnsupportedVersion")
     \/ /\ request.protocol_version = PROTOCOL_VERSION
        /\ state \notin {"Disclosed", "Consumed"}
        /\ ReturnError("ShareUnavailable")
     \/ /\ request.protocol_version = PROTOCOL_VERSION
        /\ state \in {"Disclosed", "Consumed"}
        /\ ~MatchesClaim(peer, request)
        /\ ReturnError("ClaimMismatch")
  /\ UNCHANGED actorVars

AckAccepted(peer, request) ==
  /\ request.protocol_version = PROTOCOL_VERSION
  /\ state \in {"Disclosed", "Consumed"}
  /\ MatchesClaim(peer, request)
  /\ \/ /\ state = "Disclosed"
        /\ state' = "Consumed"
        /\ wipe_source
     \/ /\ state = "Consumed"
        /\ UNCHANGED <<state, source>>
  /\ UNCHANGED claim
  /\ ReturnCompleted(peer, request.claim_id)

handle_acknowledgement(peer, request) ==
  AckRefused(peer, request) \/ AckAccepted(peer, request)
-----------------------------------------------------------------------------
handle_timer_expired_only ==
  /\ state = "Available" /\ now >= AvailableDeadline
  /\ close("Expired")
  /\ UNCHANGED <<response, disclosed, completed>>

handle_timer_one_verdict ==
  /\ \/ state = "Available" /\ now >= AvailableDeadline
     \/ state = "Disclosed" /\ PastResume
  /\ close("Expired")
  /\ UNCHANGED <<response, disclosed, completed>>

handle_timer ==
  /\ \/ /\ state = "Available" /\ now >= AvailableDeadline
        /\ close("Expired")
     \/ /\ state = "Disclosed" /\ PastResume
        /\ close("DeliveryUnknown")
  /\ UNCHANGED <<response, disclosed, completed>>

Tick ==
  /\ now < MaxTime
  /\ now' = now + 1
  /\ UNCHANGED <<state, source, claim, response, disclosed, completed>>

Next ==
  \/ /\ \/ \E peer \in Peers, request \in OpenRequests :
             handle_open(peer, request)
        \/ \E peer \in Peers, request \in AcknowledgeRequests :
             handle_acknowledgement(peer, request)
        \/ handle_timer
     /\ UNCHANGED now
  \/ Tick

Spec == Init /\ [][Next]_vars

\* The owner polls the timer and time passes; no request ever need arrive.
FairSpec == Spec /\ WF_vars(Tick) /\ WF_vars(handle_timer /\ UNCHANGED now)
-----------------------------------------------------------------------------
\* The actor's fields keep their types, and the clock its bound.
TypeOK ==
  /\ state \in SenderState
  /\ source \in BOOLEAN
  /\ claim \in BoundClaim \cup {None}
  /\ now \in 0..MaxTime
  /\ response \in Responses \cup {None}
  /\ disclosed \subseteq Peers \X Offers
  /\ completed \subseteq Peers

\* However many requests arrive, the actor returns one Offer only and to one
\* peer only: a second claimant is refused, and a retry of the first gets the
\* very Offer it was given before.
SingleDisclosure == \A d, e \in disclosed : d = e

\* The secret material is held exactly while the share can still be served,
\* and the claim exists exactly from disclosure on: no terminal state holds
\* the root or the envelope, and Expired and FailedClosed bind nobody.
SourceHeldWhileLive ==
  /\ source <=> state \in {"Available", "Disclosed"}
  /\ claim # None <=> state \in {"Disclosed", "Consumed", "DeliveryUnknown"}

\* Completed is only ever returned to the peer that was handed the Offer, and
\* once it was returned the share is Consumed for good.
CompletedIsClaimant ==
  /\ \A peer \in completed : disclosed = {<<peer, claim.offer>>}
  /\ completed # {} <=> state = "Consumed"

\* No claim is bound at or after available_deadline, even when the timer has
\* not yet noticed that the share expired.
BoundBeforeExpiry ==
  claim # None => claim.resume_deadline < AvailableDeadline + ResumeDuration

\* A terminal state is final, a share that left Available never returns to
\* it, and a bound claim is never replaced or forgotten.
NeverReopens ==
  [][/\ state \in Terminal => state' = state
     /\ state # "Available" => state' # "Available"
     /\ claim # None => claim' = claim]_vars

\* The cached Offer is returned again only inside the resume window.
ResumeWithinWindow ==
  [][/\ response' # response
     /\ claim # None
     /\ response' \in [type : {"Offer"}, offer : Offers]
     => now < claim.resume_deadline]_vars

\* With a polled timer and no further request, every share ends.
EventuallyTerminal == <>(state \in Terminal)
-----------------------------------------------------------------------------
Verdict ==
  CASE state \in {"Available", "Disclosed"} -> "pending"
    [] state = "Consumed" -> "confirmed"
    [] state = "DeliveryUnknown" -> "unknown"
    [] state \in {"Expired", "FailedClosed"} -> "unsent"

Share == INSTANCE OneTimeShare
           WITH Claimants <- Peers \X Offers,
                handed <- disclosed,
                verdict <- Verdict

\* The actor implements the abstract one-time share: the payload goes to one
\* claimant, and Consumed, DeliveryUnknown, Expired and FailedClosed each say
\* the truth about whether it did.
ImplementsOneTimeShare == Share!ShareSpec
=============================================================================
