----------------------------- MODULE GmailSend ------------------------------
(***************************************************************************)
(* send_email through Gmail (backend/app/services/                         *)
(* email_external_action_service.py): one approved operation, called any   *)
(* number of times, by callers that may overlap and may die at any step.   *)
(*                                                                         *)
(* Every step of a caller is one database transaction or one request to    *)
(* Gmail.  Gmail may take a message after the caller has given up waiting, *)
(* and its Sent folder may not show the message yet.                       *)
(***************************************************************************)
EXTENDS AttemptRow, Naturals

CONSTANT Callers

VARIABLES
  attempt,  \* state of the operation's row in external_action_attempts
  caller,   \* caller[c] is where call c stands
  sends,    \* requests to send the message handed to the transport
  message,  \* what became of the message
  told      \* history: the answers callers were given

vars == <<attempt, caller, sends, message, told>>

Messages == {"unsent", "handed", "delivered", "altered", "refused"}
Delivered == message \in {"delivered", "altered"}

\* "failed" stands for every error that tells the user to make a new plan.
Answers == {"sent", "already_sent", "uncertain", "failed", "error"}

Idle == [phase |-> "idle"]
At(phase) == [phase |-> phase]
Answered(answer) == [phase |-> "answered", answer |-> answer]

\* About to store a state, then to go on as "next" says; "storing" once the row
\* has been read.
Storing(want, next) == [phase |-> "store", want |-> want, next |-> next]

Waiting == {Idle} \union {At(p) : p \in {"claimed", "sending", "resumed", "reconciling"}}
Replies == [phase : {"answered"}, answer : Answers]
Nexts == Replies \union {At("reconciling")}
Stores == [phase : {"store"}, want : AttemptStates, next : Nexts]
          \union [phase : {"storing"}, want : AttemptStates, next : Nexts,
                  seen : AttemptStates]

TypeOK ==
  /\ attempt \in AttemptStates
  /\ caller \in [Callers -> Waiting \union Replies \union Stores]
  /\ sends \in Nat
  /\ message \in Messages
  /\ told \subseteq Answers

Init ==
  /\ attempt = "none"
  /\ caller = [c \in Callers |-> Idle]
  /\ sends = 0
  /\ message = "unsent"
  /\ told = {}

\* A call moves on; what it answers becomes known when it gets there.
Move(c, held) ==
  /\ caller' = [caller EXCEPT ![c] = held]
  /\ told' = IF held.phase = "answered" THEN told \union {held.answer} ELSE told

-----------------------------------------------------------------------------
(* A call.                                                                 *)

\* Where a call goes that finds the row in a given state.  Mutant: a call that
\* finds the operation merely started takes it over.
BugResumeResends(state) ==
  CASE state = "succeeded" -> Answered("already_sent")
    [] state = "failed_definite" -> Answered("failed")
    [] state = "started" -> At("claimed")
    [] OTHER -> At("resumed")

Resume(state) ==
  CASE state = "succeeded" -> Answered("already_sent")
    [] state = "failed_definite" -> Answered("failed")
    [] OTHER -> At("resumed")

\* The account and its scopes are checked before the claim.
AccountMissing(c) ==
  /\ caller[c] = Idle
  /\ Move(c, Answered("error"))
  /\ UNCHANGED <<attempt, sends, message>>

\* _claim_started: the unique (user, operation) row goes to the first caller.
ClaimStarted(c) ==
  /\ caller[c] = Idle
  /\ IF attempt = "none"
     THEN attempt' = "started" /\ Move(c, At("claimed"))
     ELSE UNCHANGED attempt /\ Move(c, Resume(attempt))
  /\ UNCHANGED <<sends, message>>

\* No valid access token: the call ends and leaves the row as it is.
TokenMissing(c) ==
  /\ caller[c].phase \in {"claimed", "resumed"}
  /\ Move(c, Answered("error"))
  /\ UNCHANGED <<attempt, sends, message>>

SendMessage(c) ==
  /\ caller[c].phase = "claimed"
  /\ sends' = sends + 1
  /\ message' = "handed"
  /\ Move(c, At("sending"))
  /\ UNCHANGED attempt

SendSucceeds(c) ==
  /\ caller[c].phase = "sending" /\ Delivered
  /\ Move(c, Storing("succeeded", Answered("sent")))
  /\ UNCHANGED <<attempt, sends, message>>

SendRefused(c) ==
  /\ caller[c].phase = "sending" /\ message = "refused"
  /\ Move(c, Storing("failed_definite", Answered("failed")))
  /\ UNCHANGED <<attempt, sends, message>>

\* Mutant of SendAmbiguous: a timeout is taken for a refusal.
BugTimeoutIsRefusal(c) ==
  /\ caller[c].phase = "sending"
  /\ Move(c, Storing("failed_definite", Answered("failed")))
  /\ UNCHANGED <<attempt, sends, message>>

\* A timeout, a retryable error, a 5xx or a malformed answer tells nothing.
SendAmbiguous(c) ==
  /\ caller[c].phase = "sending"
  /\ Move(c, Storing("uncertain", At("reconciling")))
  /\ UNCHANGED <<attempt, sends, message>>

GetToken(c) ==
  /\ caller[c].phase = "resumed"
  /\ Move(c, At("reconciling"))
  /\ UNCHANGED <<attempt, sends, message>>

\* Mutant of Found: an empty search counts as proof of delivery.
BugFoundNothingIsSent(n) ==
  CASE n = 1 /\ message = "altered" -> Storing("failed_definite", Answered("failed"))
    [] n > 1 -> Storing("uncertain", Answered("uncertain"))
    [] OTHER -> Storing("succeeded", Answered("already_sent"))

\* What a complete search of Sent proves that shows n messages of the operation.
Found(n) ==
  CASE n = 1 /\ message = "altered" -> Storing("failed_definite", Answered("failed"))
    [] n = 1 /\ message # "altered" -> Storing("succeeded", Answered("already_sent"))
    [] OTHER -> Storing("uncertain", Answered("uncertain"))

\* _reconcile_sent: the search may fail, be cut off, or miss a recent message.
ReconcileSent(c) ==
  /\ caller[c].phase = "reconciling"
  /\ \/ Move(c, Storing("uncertain", Answered("uncertain")))
     \/ \E n \in 0 .. (IF Delivered THEN sends ELSE 0) : Move(c, Found(n))
  /\ UNCHANGED <<attempt, sends, message>>

-----------------------------------------------------------------------------
(* _persist_attempt_state.                                                 *)

ReadRow(c) ==
  /\ caller[c].phase = "store"
  /\ Move(c, [phase |-> "storing", want |-> caller[c].want,
              next |-> caller[c].next, seen |-> attempt])
  /\ UNCHANGED <<attempt, sends, message>>

WriteRow(c) ==
  /\ caller[c].phase = "storing"
  /\ attempt' = Stored(attempt, caller[c].seen, caller[c].want)
  /\ Move(c, caller[c].next)
  /\ UNCHANGED <<sends, message>>

StoreFails(c) ==
  /\ caller[c].phase \in {"store", "storing"}
  /\ Move(c, Answered("error"))
  /\ UNCHANGED <<attempt, sends, message>>

-----------------------------------------------------------------------------

\* The process dies; or the answer is out and the same operation may be called
\* again.
Leave(c) ==
  /\ caller[c] # Idle
  /\ Move(c, Idle)
  /\ UNCHANGED <<attempt, sends, message>>

\* Gmail takes the message, as it is or with changed fields, or refuses it.
GmailDecides ==
  /\ message = "handed"
  /\ message' \in {"delivered", "altered", "refused"}
  /\ UNCHANGED <<attempt, caller, sends, told>>

CallStep(c) ==
  \/ AccountMissing(c) \/ ClaimStarted(c) \/ TokenMissing(c)
  \/ SendMessage(c) \/ SendSucceeds(c) \/ SendRefused(c) \/ SendAmbiguous(c)
  \/ GetToken(c) \/ ReconcileSent(c)
  \/ ReadRow(c) \/ WriteRow(c) \/ StoreFails(c)

Next == GmailDecides \/ \E c \in Callers : CallStep(c) \/ Leave(c)

Spec == Init /\ [][Next]_vars

-----------------------------------------------------------------------------
(* Safety, with any number of overlapping calls.                           *)

\* The message is handed to Gmail once at most: not after a crash, a timeout, a
\* second approval or a search that finds nothing.
AtMostOneSend == sends <= 1

\* The row says succeeded only of a message Gmail has, and failed_definite only
\* of one Gmail refused or shows with other fields.
RowIsTrue ==
  /\ attempt = "succeeded" => Delivered
  /\ attempt = "failed_definite" => message \in {"refused", "altered"}

\* What a caller was told stays true: "sent" is never said of a message that is
\* not there, and "make a new plan" never of one that arrives as approved later.
AnswersAreTrue ==
  /\ told \cap {"sent", "already_sent"} # {} => Delivered
  /\ "failed" \in told => message \in {"refused", "altered"}
=============================================================================
