---------------------------- MODULE OneTimeShare ----------------------------
(***************************************************************************)
(* What a share promises, whoever asks for it and whenever: the payload is *)
(* handed to at most one claimant, possibly several times, and the share   *)
(* ends with a verdict that tells the truth about it.                      *)
(*                                                                         *)
(*   confirmed  the claimant reported that it handled the payload          *)
(*   unknown    the payload was handed out and nobody reported             *)
(*   unsent     the payload never left the sender                          *)
(*                                                                         *)
(* SenderActor is shown to implement this specification.                   *)
(***************************************************************************)
CONSTANT Claimants

VARIABLES handed,   \* the claimants that were handed the payload
          verdict   \* "pending" until the share ends

shareVars == <<handed, verdict>>

ShareInit ==
  /\ handed = {}
  /\ verdict = "pending"

Hand(c) ==
  /\ verdict = "pending"
  /\ handed \subseteq {c}
  /\ handed' = {c}
  /\ UNCHANGED verdict

Confirm ==
  /\ verdict = "pending"
  /\ handed # {}
  /\ verdict' = "confirmed"
  /\ UNCHANGED handed

GiveUp ==
  /\ verdict = "pending"
  /\ handed # {}
  /\ verdict' = "unknown"
  /\ UNCHANGED handed

Withdraw ==
  /\ verdict = "pending"
  /\ handed = {}
  /\ verdict' = "unsent"
  /\ UNCHANGED handed

ShareNext ==
  \/ \E c \in Claimants : Hand(c)
  \/ Confirm
  \/ GiveUp
  \/ Withdraw

ShareSpec == ShareInit /\ [][ShareNext]_shareVars
=============================================================================
