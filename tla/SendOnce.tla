------------------------------ MODULE SendOnce ------------------------------
(***************************************************************************)
(* What an approved send promises, whoever executes it and however often:  *)
(* the message is handed to the provider once at most, the verdict on it   *)
(* is the truth, and a verdict once given stands.                          *)
(***************************************************************************)

VARIABLES
  message,  \* where the message is
  verdict   \* what the system has recorded

\* "handed": given to the provider, which has not decided yet; "altered":
\* delivered, but not as it was approved.
Messages == {"unsent", "handed", "delivered", "altered", "refused"}
Verdicts == {"none", "open", "delivered", "failed"}

TypeOK == message \in Messages /\ verdict \in Verdicts

Init == message = "unsent" /\ verdict = "none"

Claim ==
  /\ verdict = "none"
  /\ verdict' = "open"
  /\ UNCHANGED message

Hand ==
  /\ verdict = "open" /\ message = "unsent"
  /\ message' = "handed"
  /\ UNCHANGED verdict

Decide ==
  /\ message = "handed"
  /\ message' \in {"delivered", "altered", "refused"}
  /\ UNCHANGED verdict

\* A delivered event may be changed by the one who got it.
Alter ==
  /\ message = "delivered"
  /\ message' = "altered"
  /\ UNCHANGED verdict

LearnDelivered ==
  /\ verdict = "open" /\ message \in {"delivered", "altered"}
  /\ verdict' = "delivered"
  /\ UNCHANGED message

\* Given up before it was handed over, or the provider did not do as asked.
LearnFailed ==
  /\ verdict = "open" /\ message \in {"unsent", "refused", "altered"}
  /\ verdict' = "failed"
  /\ UNCHANGED message

Next == Claim \/ Hand \/ Decide \/ Alter \/ LearnDelivered \/ LearnFailed

Spec == Init /\ [][Next]_<<message, verdict>>
=============================================================================
