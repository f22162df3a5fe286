-------------------------- MODULE SenderActorProofs --------------------------
(***************************************************************************)
(* The safety of SenderActor for every set of peers, nonces, secrets and   *)
(* entropy, every deadline and every resume window.                        *)
(***************************************************************************)
EXTENDS SenderActor, TLAPS

\* What was disclosed is what the claim holds: the link between the history
\* the properties speak of and the one field that decides every later answer.
DisclosedIsClaim ==
  disclosed = IF claim = None THEN {}
              ELSE {<<claim.receiver_peer_id, claim.offer>>}

IInv ==
  /\ TypeOK
  /\ SourceHeldWhileLive
  /\ DisclosedIsClaim
  /\ CompletedIsClaimant
  /\ BoundBeforeExpiry

USE SenderActorAssumption

\* The invariant holds of a new share.
LEMMA InitIInv == Init => IInv
  BY DEF Init, IInv, TypeOK, SourceHeldWhileLive, DisclosedIsClaim,
         CompletedIsClaimant, BoundBeforeExpiry, SenderState

\* A terminal state reached from one of the live states keeps the invariant
\* when it fits the claim: Expired and FailedClosed without one,
\* DeliveryUnknown with one.
LEMMA CloseIInv ==
  ASSUME IInv, NEW terminal \in Terminal, close(terminal), UNCHANGED now,
         response' \in Responses \cup {None}, UNCHANGED <<disclosed, completed>>,
         \/ state = "Available" /\ terminal \in {"Expired", "FailedClosed"}
         \/ state = "Disclosed" /\ terminal = "DeliveryUnknown"
  PROVE  IInv'
  BY DEF IInv, TypeOK, SourceHeldWhileLive, DisclosedIsClaim,
         CompletedIsClaimant, BoundBeforeExpiry, close, wipe_source,
         SenderState, Terminal

\* An answer that changes neither the actor nor the histories.
LEMMA ErrorIInv ==
  ASSUME IInv, NEW code \in ProtocolErrorCode, ReturnError(code),
         UNCHANGED actorVars, UNCHANGED now
  PROVE  IInv'
  BY DEF IInv, TypeOK, SourceHeldWhileLive, DisclosedIsClaim,
         CompletedIsClaimant, BoundBeforeExpiry, ReturnError, actorVars,
         Responses

\* An error answer is a response and leaves the histories.
LEMMA ErrorType ==
  ASSUME NEW code \in ProtocolErrorCode, ReturnError(code)
  PROVE  response' \in Responses \cup {None} /\ UNCHANGED <<disclosed, completed>>
  BY DEF ReturnError, Responses

\* The first claim: one of the two steps that extend the histories.
LEMMA PrepareIInv ==
  ASSUME IInv, NEW peer \in Peers, NEW request \in OpenRequests,
         prepare_offer(peer, request), UNCHANGED now
  PROVE  IInv'
<1>1. PICK drawn \in Entropy :
        LET offer == PreparedOffer(peer, request.receiver_nonce, drawn)
        IN  /\ claim' = [receiver_peer_id |-> peer,
                         receiver_nonce |-> request.receiver_nonce,
                         claim_id |-> drawn,
                         offer |-> offer,
                         resume_deadline |-> ResumeDeadline]
            /\ ReturnOffer(peer, offer)
  BY DEF prepare_offer
<1> DEFINE offer == PreparedOffer(peer, request.receiver_nonce, drawn)
<1>2. offer \in Offers /\ request.receiver_nonce \in Nonces
  BY DEF PreparedOffer, Offers, OpenRequests
<1> HIDE DEF offer
<1>3. /\ state = "Available" /\ now < AvailableDeadline
      /\ state' = "Disclosed" /\ source' = source
      /\ claim' = [receiver_peer_id |-> peer,
                   receiver_nonce |-> request.receiver_nonce,
                   claim_id |-> drawn,
                   offer |-> offer,
                   resume_deadline |-> now + ResumeDuration]
      /\ ReturnOffer(peer, offer)
  BY <1>1 DEF prepare_offer, Claimable, ResumeDeadline, offer
<1>4. now \in Nat /\ now' = now
  BY DEF IInv, TypeOK
<1>5. claim' \in BoundClaim /\ claim' # None
  BY <1>2, <1>3, <1>4 DEF BoundClaim
<1>6. claim = None /\ disclosed = {} /\ completed = {}
  BY <1>3 DEF IInv, TypeOK, SourceHeldWhileLive, DisclosedIsClaim,
              CompletedIsClaimant
<1>7. TypeOK'
  BY <1>2, <1>3, <1>4, <1>5, <1>6
  DEF IInv, TypeOK, ReturnOffer, Responses, SenderState
<1>8. SourceHeldWhileLive'
  BY <1>3, <1>5 DEF IInv, SourceHeldWhileLive
<1>9. DisclosedIsClaim' /\ CompletedIsClaimant'
  BY <1>3, <1>5, <1>6 DEF DisclosedIsClaim, CompletedIsClaimant, ReturnOffer
<1>10. BoundBeforeExpiry'
  BY <1>3, <1>4 DEF BoundBeforeExpiry
<1> QED
  BY <1>7, <1>8, <1>9, <1>10 DEF IInv

\* The retry of the claimant: the history does not grow.
LEMMA ResumeIInv ==
  ASSUME IInv, NEW peer \in Peers, NEW request \in OpenRequests,
         resume_offer(peer, request), UNCHANGED now
  PROVE  IInv'
<1>1. CASE ReturnError("ShareAlreadyClaimed")
  BY <1>1, ErrorIInv DEF resume_offer, ProtocolErrorCode
<1>2. CASE peer = claim.receiver_peer_id /\ ReturnOffer(peer, claim.offer)
  <2>1. claim # None /\ claim \in BoundClaim
    BY DEF resume_offer, IInv, TypeOK, SourceHeldWhileLive
  <2>2. disclosed' = disclosed
    BY <1>2, <2>1 DEF IInv, DisclosedIsClaim, ReturnOffer
  <2>3. response' \in Responses
    BY <1>2, <2>1 DEF ReturnOffer, Responses, BoundClaim
  <2> QED
    BY <1>2, <2>2, <2>3
    DEF resume_offer, actorVars, ReturnOffer, IInv, TypeOK,
        SourceHeldWhileLive, DisclosedIsClaim, CompletedIsClaimant,
        BoundBeforeExpiry
<1> QED
  BY <1>1, <1>2 DEF resume_offer

\* An accepted acknowledgement: Disclosed becomes Consumed, or stays so.
LEMMA AcceptedIInv ==
  ASSUME IInv, NEW peer \in Peers, NEW request \in AcknowledgeRequests,
         AckAccepted(peer, request), UNCHANGED now
  PROVE  IInv'
<1>1. claim # None /\ claim \in BoundClaim /\ peer = claim.receiver_peer_id
  BY DEF AckAccepted, MatchesClaim, IInv, TypeOK, SourceHeldWhileLive
<1>2. response' \in Responses /\ completed' = completed \cup {peer}
      /\ disclosed' = disclosed /\ claim' = claim
  BY DEF AckAccepted, ReturnCompleted, Responses, AcknowledgeRequests
<1>3. state' = "Consumed" /\ source' = FALSE
  BY DEF AckAccepted, wipe_source, IInv, SourceHeldWhileLive
<1>4. TypeOK' /\ SourceHeldWhileLive' /\ DisclosedIsClaim' /\ BoundBeforeExpiry'
  BY <1>1, <1>2, <1>3
  DEF IInv, TypeOK, SenderState, SourceHeldWhileLive, DisclosedIsClaim,
      BoundBeforeExpiry
<1>5. CompletedIsClaimant'
  BY <1>1, <1>2, <1>3 DEF IInv, DisclosedIsClaim, CompletedIsClaimant
<1> QED
  BY <1>4, <1>5 DEF IInv

\* Every step of the specification keeps the invariant.
LEMMA NextIInv == IInv /\ [Next]_vars => IInv'
<1> SUFFICES ASSUME IInv, [Next]_vars PROVE IInv'
  OBVIOUS
<1>1. ASSUME NEW peer \in Peers, NEW request \in OpenRequests,
             handle_open(peer, request), UNCHANGED now
      PROVE  IInv'
  <2>1. CASE OpenRefused(peer, request)
    BY <1>1, <2>1, ErrorIInv DEF OpenRefused, ProtocolErrorCode
  <2>2. CASE OpenExpired(peer, request)
    <3>1. ReturnError("ShareExpired") /\ "ShareExpired" \in ProtocolErrorCode
      BY <2>2 DEF OpenExpired, ProtocolErrorCode
    <3> QED
      BY <1>1, <2>2, <3>1, ErrorType, CloseIInv DEF OpenExpired, Terminal
  <2>3. CASE prepare_offer(peer, request)
    BY <1>1, <2>3, PrepareIInv
  <2>4. CASE PrepareFails(peer, request)
    <3>1. ReturnError("InternalFailure")
          /\ "InternalFailure" \in ProtocolErrorCode
      BY <2>4 DEF PrepareFails, ProtocolErrorCode
    <3> QED
      BY <1>1, <2>4, <3>1, ErrorType, CloseIInv
      DEF PrepareFails, Claimable, Terminal
  <2>5. CASE resume_offer(peer, request)
    BY <1>1, <2>5, ResumeIInv
  <2>6. CASE OpenTooLate(peer, request)
    <3>1. ReturnError("ShareUnavailable")
          /\ "ShareUnavailable" \in ProtocolErrorCode
      BY <2>6 DEF OpenTooLate, ProtocolErrorCode
    <3> QED
      BY <1>1, <2>6, <3>1, ErrorType, CloseIInv DEF OpenTooLate, Terminal
  <2> QED
    BY <1>1, <2>1, <2>2, <2>3, <2>4, <2>5, <2>6 DEF handle_open
<1>2. ASSUME NEW peer \in Peers, NEW request \in AcknowledgeRequests,
             handle_acknowledgement(peer, request), UNCHANGED now
      PROVE  IInv'
  <2>1. CASE AckRefused(peer, request)
    BY <1>2, <2>1, ErrorIInv DEF AckRefused, ProtocolErrorCode
  <2>2. CASE AckAccepted(peer, request)
    BY <1>2, <2>2, AcceptedIInv
  <2> QED
    BY <1>2, <2>1, <2>2 DEF handle_acknowledgement
<1>3. ASSUME handle_timer, UNCHANGED now
      PROVE  IInv'
  <2>1. response' \in Responses \cup {None}
    BY <1>3 DEF handle_timer, IInv, TypeOK
  <2> QED
    BY <1>3, <2>1, CloseIInv DEF handle_timer, Terminal
<1>4. CASE Tick
  BY <1>4 DEF Tick, IInv, TypeOK, SourceHeldWhileLive, DisclosedIsClaim,
              CompletedIsClaimant, BoundBeforeExpiry
<1>5. CASE UNCHANGED vars
  BY <1>5 DEF vars, IInv, TypeOK, SourceHeldWhileLive, DisclosedIsClaim,
              CompletedIsClaimant, BoundBeforeExpiry
<1> QED
  BY <1>1, <1>2, <1>3, <1>4, <1>5 DEF Next

\* The inductive invariant holds throughout.
THEOREM Invariance == Spec => []IInv
  BY InitIInv, NextIInv, PTL DEF Spec

\* However many requests arrive from however many peers, one Offer is
\* returned and to one peer (handle_open, resume_offer).
THEOREM SingleDisclosureAlways == Spec => []SingleDisclosure
<1>1. IInv => SingleDisclosure
  BY DEF IInv, DisclosedIsClaim, SingleDisclosure
<1> QED
  BY <1>1, Invariance, PTL

\* The root and the envelope are held exactly while the share is live, no
\* terminal state keeps them (close, wipe_source), Completed goes only to the
\* peer that was handed the Offer (handle_acknowledgement), and no claim is
\* bound once the share has expired (handle_open).
THEOREM SafetyAlways ==
  Spec => [](TypeOK /\ SourceHeldWhileLive /\ CompletedIsClaimant
             /\ BoundBeforeExpiry)
<1>1. IInv => TypeOK /\ SourceHeldWhileLive /\ CompletedIsClaimant
              /\ BoundBeforeExpiry
  BY DEF IInv
<1> QED
  BY <1>1, Invariance, PTL

\* Terminal states are final, nothing returns to Available, and a bound claim
\* is never replaced or dropped, by any handler.
THEOREM NeverReopensAlways == Spec => NeverReopens
<1> DEFINE Kept == /\ state \in Terminal => state' = state
                   /\ state # "Available" => state' # "Available"
                   /\ claim # None => claim' = claim
<1>1. IInv /\ [Next]_vars => [Kept]_vars
  <2> SUFFICES ASSUME IInv, Next PROVE Kept
    BY DEF vars
  <2>1. ASSUME NEW peer \in Peers, NEW request \in OpenRequests,
               handle_open(peer, request)
        PROVE  Kept
    BY <2>1 DEF handle_open, OpenRefused, OpenExpired, prepare_offer,
                PrepareFails, resume_offer, OpenTooLate, close, actorVars,
                Claimable, Terminal, IInv, SourceHeldWhileLive
  <2>2. ASSUME NEW peer \in Peers, NEW request \in AcknowledgeRequests,
               handle_acknowledgement(peer, request)
        PROVE  Kept
    BY <2>2 DEF handle_acknowledgement, AckRefused, AckAccepted, actorVars,
                Terminal
  <2>3. ASSUME handle_timer PROVE Kept
    BY <2>3 DEF handle_timer, close, Terminal
  <2>4. ASSUME Tick PROVE Kept
    BY <2>4 DEF Tick
  <2> QED
    BY <2>1, <2>2, <2>3, <2>4 DEF Next
<1> QED
  BY <1>1, Invariance, PTL DEF Spec, NeverReopens

\* The cached Offer is returned again only before resume_deadline.
THEOREM ResumeWithinWindowAlways == Spec => ResumeWithinWindow
<1> DEFINE OfferResponse == [type : {"Offer"}, offer : Offers]
           InWindow == /\ response' # response
                       /\ claim # None
                       /\ response' \in OfferResponse
                       => now < claim.resume_deadline
<1>1. IInv /\ [Next]_vars => [InWindow]_vars
  <2> SUFFICES ASSUME IInv, Next, response' # response, claim # None,
                      response' \in OfferResponse
               PROVE  now < claim.resume_deadline
    BY DEF vars
  <2>1. response'.type = "Offer"
    OBVIOUS
  <2>2. PICK peer \in Peers, request \in OpenRequests :
          handle_open(peer, request)
    <3>1. ~handle_timer /\ ~Tick
      BY DEF handle_timer, Tick
    <3>2. ASSUME NEW p \in Peers, NEW r \in AcknowledgeRequests,
                 handle_acknowledgement(p, r)
          PROVE  FALSE
      BY <2>1, <3>2 DEF handle_acknowledgement, AckRefused, AckAccepted,
                        ReturnError, ReturnCompleted
    <3> QED
      BY <3>1, <3>2 DEF Next
  <2>3. resume_offer(peer, request)
    BY <2>1, <2>2 DEF handle_open, OpenRefused, OpenExpired, prepare_offer,
                      PrepareFails, OpenTooLate, ReturnError, Claimable,
                      IInv, SourceHeldWhileLive
  <2> QED
    BY <2>3 DEF resume_offer, PastResume, IInv, TypeOK, BoundClaim
<1> QED
  BY <1>1, Invariance, PTL DEF Spec, ResumeWithinWindow

\* Every behaviour of the actor is one of the abstract one-time share.
THEOREM Refinement == Spec => ImplementsOneTimeShare
<1>1. Init => Share!ShareInit
  BY DEF Init, Share!ShareInit, Verdict
<1>2. IInv /\ [Next]_vars => [Share!ShareNext]_(Share!shareVars)
  <2> SUFFICES ASSUME IInv, [Next]_vars
               PROVE  Share!ShareNext \/ UNCHANGED <<disclosed, Verdict>>
    BY DEF Share!shareVars
  <2> DEFINE Goal == Share!ShareNext \/ UNCHANGED <<disclosed, Verdict>>
  <2>0. /\ state = "Available" => disclosed = {}
        /\ state = "Disclosed" =>
             disclosed = {<<claim.receiver_peer_id, claim.offer>>}
    BY DEF IInv, SourceHeldWhileLive, DisclosedIsClaim
  <2>1. ASSUME NEW terminal \in Terminal, close(terminal),
               UNCHANGED disclosed,
               \/ state = "Available" /\ terminal \in {"Expired", "FailedClosed"}
               \/ state = "Disclosed" /\ terminal = "DeliveryUnknown"
        PROVE  Goal
    BY <2>0, <2>1 DEF close, Terminal, Verdict, Share!ShareNext,
                      Share!GiveUp, Share!Withdraw
  <2>2. ASSUME UNCHANGED state, UNCHANGED disclosed
        PROVE  Goal
    BY <2>2 DEF Verdict
  <2>3. ASSUME NEW peer \in Peers, NEW request \in OpenRequests,
               handle_open(peer, request)
        PROVE  Goal
    <3>1. CASE OpenRefused(peer, request)
      BY <2>2, <3>1 DEF OpenRefused, ReturnError, actorVars
    <3>2. CASE OpenExpired(peer, request)
      BY <2>1, <3>2 DEF OpenExpired, ReturnError, Terminal
    <3>3. CASE PrepareFails(peer, request)
      BY <2>1, <3>3 DEF PrepareFails, Claimable, ReturnError, Terminal
    <3>4. CASE OpenTooLate(peer, request)
      BY <2>1, <3>4 DEF OpenTooLate, ReturnError, Terminal
    <3>5. CASE prepare_offer(peer, request)
      <4>1. PICK drawn \in Entropy :
              ReturnOffer(peer,
                          PreparedOffer(peer, request.receiver_nonce, drawn))
        BY <3>5 DEF prepare_offer
      <4> DEFINE c == <<peer,
                        PreparedOffer(peer, request.receiver_nonce, drawn)>>
      <4>2. c \in Peers \X Offers
        BY DEF PreparedOffer, Offers, OpenRequests
      <4>3. disclosed' = {c} /\ disclosed \subseteq {c}
        BY <2>0, <3>5, <4>1 DEF prepare_offer, Claimable, ReturnOffer
      <4> HIDE DEF c
      <4>4. Verdict = "pending" /\ Verdict' = "pending"
        BY <3>5 DEF prepare_offer, Claimable, Verdict
      <4> QED
        BY <4>2, <4>3, <4>4 DEF Share!ShareNext, Share!Hand
    <3>6. CASE resume_offer(peer, request)
      <4>1. disclosed' = disclosed
        BY <2>0, <3>6 DEF resume_offer, ReturnOffer, ReturnError
      <4> QED
        BY <2>2, <3>6, <4>1 DEF resume_offer, actorVars
    <3> QED
      BY <2>3, <3>1, <3>2, <3>3, <3>4, <3>5, <3>6 DEF handle_open
  <2>4. ASSUME NEW peer \in Peers, NEW request \in AcknowledgeRequests,
               handle_acknowledgement(peer, request)
        PROVE  Goal
    <3>1. CASE AckRefused(peer, request)
      BY <2>2, <3>1 DEF AckRefused, ReturnError, actorVars
    <3>2. CASE AckAccepted(peer, request)
      <4>1. disclosed' = disclosed
        BY <3>2 DEF AckAccepted, ReturnCompleted
      <4>2. CASE state = "Disclosed" /\ state' = "Consumed"
        BY <2>0, <4>1, <4>2 DEF Verdict, Share!ShareNext, Share!Confirm
      <4> QED
        BY <2>2, <3>2, <4>1, <4>2 DEF AckAccepted
    <3> QED
      BY <2>4, <3>1, <3>2 DEF handle_acknowledgement
  <2>5. ASSUME handle_timer PROVE Goal
    BY <2>1, <2>5 DEF handle_timer, Terminal
  <2>6. ASSUME Tick PROVE Goal
    BY <2>2, <2>6 DEF Tick
  <2>7. ASSUME UNCHANGED vars PROVE Goal
    BY <2>2, <2>7 DEF vars
  <2> QED
    BY <2>3, <2>4, <2>5, <2>6, <2>7 DEF Next
<1> QED
  BY <1>1, <1>2, Invariance, PTL DEF Spec, Share!ShareSpec, ImplementsOneTimeShare

==============================================================================
