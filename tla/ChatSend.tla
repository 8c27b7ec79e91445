------------------------------ MODULE ChatSend ------------------------------
(***************************************************************************)
(* send_message through Mattermost, Telegram or Teams (backend/app/        *)
(* services/communication_external_action_service.py): one approved        *)
(* message, sent by calls that follow one another and may die anywhere.    *)
(*                                                                         *)
(* A sent message becomes a source object: in the caller's transaction, or *)
(* when the channel is next synchronised.  Only Mattermost gives the       *)
(* object the operation's pending_post_id, by which a send in doubt is     *)
(* settled later; the others stay in doubt.                                *)
(***************************************************************************)
EXTENDS AttemptRow, Naturals

CONSTANT Callers

VARIABLES
  provider, \* "mattermost", "telegram" or "teams"
  row,      \* state of the attempt's row
  caller,   \* caller[c] is where call c stands
  sends,    \* messages handed to the provider
  message,  \* what became of the message
  object,   \* its source object has been committed
  told      \* history: the answers callers were given

vars == <<provider, row, caller, sends, message, object, told>>

Providers == {"mattermost", "telegram", "teams"}
Messages == {"unsent", "handed", "delivered", "refused"}
Answers == {"sent", "already_sent", "uncertain", "failed", "error"}

Idle == [phase |-> "idle"]
At(phase) == [phase |-> phase]
Answered(answer) == [phase |-> "answered", answer |-> answer]
Storing(want, next) == [phase |-> "store", want |-> want, next |-> next]

Replies == [phase : {"answered"}, answer : Answers]
Plain == {At(p) : p \in {"claimed", "sending", "found", "reconcile", "materialize"}}
Calls == {Idle} \union Plain \union Replies
         \union [phase : {"store"}, want : AttemptStates, next : Replies \union Plain]

TypeOK ==
  /\ provider \in Providers
  /\ row \in AttemptStates
  /\ caller \in [Callers -> Calls]
  /\ sends \in Nat /\ message \in Messages
  /\ object \in BOOLEAN
  /\ told \subseteq Answers

Init ==
  /\ provider \in Providers
  /\ row = "none"
  /\ caller = [c \in Callers |-> Idle]
  /\ sends = 0 /\ message = "unsent"
  /\ object = FALSE
  /\ told = {}

Move(c, held) ==
  /\ caller' = [caller EXCEPT ![c] = held]
  /\ told' = IF held.phase = "answered" THEN told \union {held.answer} ELSE told

outside == <<sends, message, object>>

-----------------------------------------------------------------------------

\* Mattermost's account is checked before the claim.
AccountMissing(c) ==
  /\ caller[c] = Idle /\ provider = "mattermost"
  /\ Move(c, Answered("error"))
  /\ UNCHANGED <<provider, row, outside>>

ClaimStarted(c) ==
  /\ caller[c] = Idle
  /\ IF row = "none"
     THEN row' = "started" /\ Move(c, At("claimed"))
     ELSE UNCHANGED row /\ Move(c, At("found"))
  /\ UNCHANGED <<provider, outside>>

\* No token, no active chat, reconnect required: nothing is sent, for good.
RouteMissing(c) ==
  /\ caller[c].phase = "claimed"
  /\ Move(c, Storing("failed_definite", Answered("failed")))
  /\ UNCHANGED <<provider, row, outside>>

SendMessage(c) ==
  /\ caller[c].phase = "claimed"
  /\ sends' = sends + 1 /\ message' = "handed"
  /\ Move(c, At("sending"))
  /\ UNCHANGED <<provider, row, object>>

SendSucceeds(c) ==
  /\ caller[c].phase = "sending" /\ message = "delivered"
  /\ Move(c, Storing("succeeded", At("materialize")))
  /\ UNCHANGED <<provider, row, outside>>

SendRefused(c) ==
  /\ caller[c].phase = "sending" /\ message = "refused"
  /\ Move(c, Storing("failed_definite", Answered("failed")))
  /\ UNCHANGED <<provider, row, outside>>

\* Mutant of SendUnclear: a lost answer is taken for a refusal.
BugSendUnclear(c) ==
  /\ caller[c].phase = "sending"
  /\ Move(c, Storing("failed_definite", Answered("failed")))
  /\ UNCHANGED <<provider, row, outside>>

\* No answer, a 5xx, or an answer that does not show what was sent.
SendUnclear(c) ==
  /\ caller[c].phase = "sending"
  /\ Move(c, Storing("uncertain",
                     IF provider = "mattermost" THEN At("reconcile")
                     ELSE Answered("uncertain")))
  /\ UNCHANGED <<provider, row, outside>>

\* _reconcile_local after an unclear send; doubt is already stored.
Reconcile(c) ==
  /\ caller[c].phase = "reconcile"
  /\ Move(c, IF object THEN Storing("succeeded", Answered("already_sent"))
             ELSE Answered("uncertain"))
  /\ UNCHANGED <<provider, row, outside>>

\* What the presence of the message's object says of an attempt in doubt.
FromObject ==
  IF object THEN Storing("succeeded", Answered("already_sent"))
  ELSE Storing("uncertain", Answered("uncertain"))

\* Mutants of Resumed: an unfinished attempt is taken over; a message without an
\* object counts as not sent.
BugResumeTakesOver ==
  CASE row = "succeeded" -> Answered("already_sent")
    [] row = "failed_definite" -> Answered("failed")
    [] OTHER -> IF provider # "mattermost" THEN At("claimed") ELSE FromObject
BugResumeNoObjectIsFailure ==
  CASE row = "succeeded" -> Answered("already_sent")
    [] row = "failed_definite" -> Answered("failed")
    [] OTHER -> IF provider # "mattermost" THEN Answered("uncertain")
                ELSE IF object THEN FromObject
                ELSE Storing("failed_definite", Answered("failed"))

\* _resume_existing_attempt.
Resumed ==
  CASE row = "succeeded" -> Answered("already_sent")
    [] row = "failed_definite" -> Answered("failed")
    [] OTHER -> IF provider # "mattermost" THEN Answered("uncertain") ELSE FromObject

Resume(c) ==
  /\ caller[c].phase = "found"
  /\ Move(c, Resumed)
  /\ UNCHANGED <<provider, row, outside>>

\* The object is created, or found if the synchronisation was first, in the
\* transaction that also concludes the plan.
Materialize(c) ==
  /\ caller[c].phase = "materialize"
  /\ object' = TRUE
  /\ Move(c, Answered("sent"))
  /\ UNCHANGED <<provider, row, sends, message>>

Store(c) ==
  /\ caller[c].phase = "store"
  /\ row' = Stored(row, row, caller[c].want)
  /\ Move(c, caller[c].next)
  /\ UNCHANGED <<provider, outside>>

\* Storing or materializing raises: whatever was sent, the action ends in an error.
Breaks(c) ==
  /\ caller[c].phase \in {"store", "materialize", "claimed", "sending"}
  /\ Move(c, Answered("error"))
  /\ UNCHANGED <<provider, row, outside>>

\* The process dies, or the answer is out and the operation may be called again.
Leave(c) ==
  /\ caller[c] # Idle
  /\ Move(c, Idle)
  /\ UNCHANGED <<provider, row, outside>>

-----------------------------------------------------------------------------

ProviderDecides ==
  /\ message = "handed"
  /\ message' \in {"delivered", "refused"}
  /\ UNCHANGED <<provider, row, caller, sends, object, told>>

\* The connector's next pass over the channel finds the message.
Synchronised ==
  /\ message = "delivered" /\ ~object
  /\ object' = TRUE
  /\ UNCHANGED <<provider, row, caller, sends, message, told>>

CallStep(c) ==
  \/ AccountMissing(c) \/ ClaimStarted(c) \/ RouteMissing(c) \/ SendMessage(c)
  \/ SendSucceeds(c) \/ SendRefused(c) \/ SendUnclear(c) \/ Reconcile(c)
  \/ Resume(c) \/ Materialize(c) \/ Store(c) \/ Breaks(c) \/ Leave(c)

Next == ProviderDecides \/ Synchronised \/ \E c \in Callers : CallStep(c)

\* The plan's lock lets one approval execute at a time.
OneAtATime == \A c, d \in Callers : caller[c] # Idle /\ caller[d] # Idle => c = d

SerialNext == Next /\ OneAtATime'

SerialSpec == Init /\ [][SerialNext]_vars

-----------------------------------------------------------------------------

\* What callers are told is the truth: "failed", after which the user is to make a
\* new plan and send again, is never said of a message that arrives; an object
\* in the graph, and every "sent", stands for a message the other side has.
AnswersAreTrue ==
  /\ object \/ told \cap {"sent", "already_sent"} # {} => message = "delivered"
  /\ "failed" \in told => message \in {"unsent", "refused"}

\* Whichever provider, dead request or lost answer: the promise of SendOnce.
verdict == CASE row \in {"started", "uncertain"} -> "open"
             [] row = "succeeded" -> "delivered"
             [] row = "failed_definite" -> "failed"
             [] OTHER -> "none"
Promise == INSTANCE SendOnce WITH message <- message, verdict <- verdict
SendsOnce == Promise!Spec
=============================================================================
