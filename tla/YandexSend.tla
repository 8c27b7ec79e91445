----------------------------- MODULE YandexSend -----------------------------
(***************************************************************************)
(* send_email through Yandex (backend/app/services/                        *)
(* email_external_action_service.py): the SMTP send, and the copy that is  *)
(* appended over IMAP to Sent when it succeeded, or to Secretary-Uncertain *)
(* when nobody knows.  One operation, called any number of times.          *)
(*                                                                         *)
(* The state of each copy lives in result_metadata of the attempt's row.   *)
(* Claiming a copy is one UPDATE; every other write reads the row and      *)
(* writes back the whole metadata it has read.                             *)
(***************************************************************************)
EXTENDS AttemptRow, Naturals

CONSTANT Callers

VARIABLES
  row,      \* the attempt: its state, and the state of the copy in each folder
  caller,   \* caller[c] is where call c stands
  sends,    \* messages handed to the SMTP server
  message,  \* what became of the message
  appends,  \* APPEND commands sent, by folder
  mailbox,  \* copies in each folder
  told      \* history: the answers callers were given

mail == <<sends, message>>
imap == <<appends, mailbox>>
vars == <<row, caller, mail, imap, told>>

Folders == {"sent", "uncertain"}
CopyStates == {"not_started", "started", "stored", "uncertain", "failed_definite"}
Rows == [state : AttemptStates, copy : [Folders -> CopyStates]]

Messages == {"unsent", "handed", "delivered", "refused"}
Answers == {"sent", "already_sent", "uncertain", "failed", "error"}

Idle == [phase |-> "idle"]
At(phase) == [phase |-> phase]
Answered(answer) == [phase |-> "answered", answer |-> answer]

\* At work on the copy in a folder, with the answer to give afterwards.
Copying(phase, folder, answer) ==
  [phase |-> phase, folder |-> folder, answer |-> answer]
Setting(folder, value, answer) ==
  [phase |-> "set", folder |-> folder, value |-> value, answer |-> answer]
Storing(want, next) == [phase |-> "store", want |-> want, next |-> next]

CopyPhases == {"claim", "append", "search", "missing", "look"}

CopyWork ==
  [phase : CopyPhases, folder : Folders, answer : Answers]
  \union [phase : {"looked"}, folder : Folders, answer : Answers, state : CopyStates]
  \union [phase : {"set"}, folder : Folders, value : CopyStates, answer : Answers]
  \union [phase : {"setting"}, folder : Folders, value : CopyStates, answer : Answers,
          seen : Rows]
Replies == [phase : {"answered"}, answer : Answers]
SendWork ==
  {At(p) : p \in {"claimed", "sending"}}
  \union [phase : {"found"}, seen : Rows]
  \union [phase : {"store"}, want : AttemptStates, next : Replies \union CopyWork]
  \union [phase : {"storing"}, want : AttemptStates, next : Replies \union CopyWork,
          seen : Rows]

TypeOK ==
  /\ row \in Rows
  /\ caller \in [Callers -> {Idle} \union Replies \union SendWork \union CopyWork]
  /\ sends \in Nat
  /\ message \in Messages
  /\ appends \in [Folders -> Nat]
  /\ mailbox \in [Folders -> Nat]
  /\ told \subseteq Answers

Init ==
  /\ row = [state |-> "none", copy |-> [f \in Folders |-> "not_started"]]
  /\ caller = [c \in Callers |-> Idle]
  /\ sends = 0
  /\ message = "unsent"
  /\ appends = [f \in Folders |-> 0]
  /\ mailbox = [f \in Folders |-> 0]
  /\ told = {}

Move(c, held) ==
  /\ caller' = [caller EXCEPT ![c] = held]
  /\ told' = IF held.phase = "answered" THEN told \union {held.answer} ELSE told

-----------------------------------------------------------------------------
(* The send.                                                               *)

AccountMissing(c) ==
  /\ caller[c] = Idle
  /\ Move(c, Answered("error"))
  /\ UNCHANGED <<row, mail, imap>>

ClaimStarted(c) ==
  /\ caller[c] = Idle
  /\ IF row.state = "none"
     THEN row' = [row EXCEPT !.state = "started"] /\ Move(c, At("claimed"))
     ELSE UNCHANGED row /\ Move(c, [phase |-> "found", seen |-> row])
  /\ UNCHANGED <<mail, imap>>

\* The app password cannot be read: the call ends, the row stays claimed.
PasswordMissing(c) ==
  /\ caller[c].phase \in {"claimed", "found"}
  /\ Move(c, Answered("error"))
  /\ UNCHANGED <<row, mail, imap>>

SendRfc822(c) ==
  /\ caller[c].phase = "claimed"
  /\ sends' = sends + 1
  /\ message' = "handed"
  /\ Move(c, At("sending"))
  /\ UNCHANGED <<row, imap>>

\* Mutant of SendSucceeds: the delivery status is stored as the state.
BugStoresDeliveryStatus(c) ==
  /\ caller[c].phase = "sending" /\ message = "delivered"
  /\ Move(c, Storing("sent", Copying("claim", "sent", "sent")))
  /\ UNCHANGED <<row, mail, imap>>

SendSucceeds(c) ==
  /\ caller[c].phase = "sending" /\ message = "delivered"
  /\ Move(c, Storing("succeeded", Copying("claim", "sent", "sent")))
  /\ UNCHANGED <<row, mail, imap>>

SendRefused(c) ==
  /\ caller[c].phase = "sending" /\ message = "refused"
  /\ Move(c, Storing("failed_definite", Answered("failed")))
  /\ UNCHANGED <<row, mail, imap>>

\* A 4xx code, a timeout or a lost connection tells nothing.
SendAmbiguous(c) ==
  /\ caller[c].phase = "sending"
  /\ Move(c, Storing("uncertain", Copying("look", "uncertain", "uncertain")))
  /\ UNCHANGED <<row, mail, imap>>

\* Mutants of Resume: a call that finds the operation started sends it again; a
\* call after an unclear send looks no further and calls it sent.
BugResumeResends(seen) ==
  CASE seen.state = "failed_definite" -> Answered("failed")
    [] seen.state = "succeeded" -> Copying("claim", "sent", "already_sent")
    [] seen.state = "started" -> At("claimed")
    [] OTHER -> Storing("uncertain", Copying("look", "uncertain", "uncertain"))
BugResumeAssumesSent(seen) ==
  CASE seen.state = "failed_definite" -> Answered("failed")
    [] seen.state = "started" -> Answered("uncertain")
    [] OTHER -> Storing("succeeded", Copying("claim", "sent", "already_sent"))

\* _resume_yandex_attempt, from the row the claim ran into.
Resume(seen) ==
  CASE seen.state = "failed_definite" -> Answered("failed")
    [] seen.state = "started" -> Answered("uncertain")
    [] seen.state = "uncertain" ->
         Storing("uncertain", Copying("look", "uncertain", "uncertain"))
    [] seen.state = "succeeded" /\ seen.copy["sent"] = "stored" ->
         Answered("already_sent")
    [] seen.state = "succeeded" /\ seen.copy["sent"] = "not_started" ->
         Copying("claim", "sent", "already_sent")
    [] OTHER -> Copying("search", "sent", "already_sent")

ResumeAttempt(c) ==
  /\ caller[c].phase = "found"
  /\ Move(c, Resume(caller[c].seen))
  /\ UNCHANGED <<row, mail, imap>>

-----------------------------------------------------------------------------
(* _persist_attempt_state and _set_copy_state.                             *)

ReadRow(c) ==
  /\ caller[c].phase = "store"
  /\ Move(c, [phase |-> "storing", want |-> caller[c].want,
              next |-> caller[c].next, seen |-> row])
  /\ UNCHANGED <<row, mail, imap>>

\* A success starts the state of the copy in Sent.
WriteRow(c) ==
  /\ caller[c].phase = "storing"
  /\ LET seen == caller[c].seen
         want == caller[c].want
         copy == IF want = "succeeded"
                 THEN [seen.copy EXCEPT !["sent"] = "not_started"] ELSE seen.copy
     IN  row' = IF seen.state = "failed_definite" /\ want # "failed_definite"
                THEN row
                ELSE [state |-> Stored(row.state, seen.state, want), copy |-> copy]
  /\ Move(c, caller[c].next)
  /\ UNCHANGED <<mail, imap>>

ReadCopies(c) ==
  /\ caller[c].phase = "set"
  /\ Move(c, [phase |-> "setting", folder |-> caller[c].folder,
              value |-> caller[c].value, answer |-> caller[c].answer, seen |-> row])
  /\ UNCHANGED <<row, mail, imap>>

WriteCopies(c) ==
  /\ caller[c].phase = "setting"
  /\ row' = [row EXCEPT !.copy =
               [caller[c].seen.copy EXCEPT ![caller[c].folder] = caller[c].value]]
  /\ Move(c, Answered(caller[c].answer))
  /\ UNCHANGED <<mail, imap>>

StoreFails(c) ==
  /\ caller[c].phase \in {"store", "storing"}
  /\ Move(c, Answered("error"))
  /\ UNCHANGED <<row, mail, imap>>

-----------------------------------------------------------------------------
(* The copy in a folder.                                                   *)

\* _store_yandex_uncertain_copy reads the copy's state, then looks into the folder.
LoadCopyState(c) ==
  /\ caller[c].phase = "look"
  /\ LET f == caller[c].folder IN
       Move(c, IF row.copy[f] = "stored"
               THEN Answered(caller[c].answer)
               ELSE [phase |-> "looked", folder |-> f, answer |-> caller[c].answer,
                     state |-> row.copy[f]])
  /\ UNCHANGED <<row, mail, imap>>

\* Mutant of AfterLook: an empty folder is reason enough to append.
BugAfterLookIgnoresState(n, folder, seen, answer) ==
  CASE n = 1 -> Setting(folder, "stored", answer)
    [] n > 1 -> Setting(folder, "uncertain", answer)
    [] OTHER -> Copying("append", folder, answer)

\* A folder that cannot be searched counts as empty here.
AfterLook(n, folder, seen, answer) ==
  CASE n = 1 -> Setting(folder, "stored", answer)
    [] n > 1 -> Setting(folder, "uncertain", answer)
    [] n = 0 /\ seen = "not_started" -> Copying("claim", folder, answer)
    [] OTHER -> Copying("search", folder, answer)

LookIntoFolder(c) ==
  /\ caller[c].phase = "looked"
  /\ \E n \in 0 .. mailbox[caller[c].folder] :
       Move(c, AfterLook(n, caller[c].folder, caller[c].state, caller[c].answer))
  /\ UNCHANGED <<row, mail, imap>>

\* _claim_copy_state: an UPDATE that only finds a copy nobody has begun.
ClaimCopy(c) ==
  /\ caller[c].phase = "claim"
  /\ LET f == caller[c].folder IN
       IF row.copy[f] = "not_started"
       THEN /\ row' = [row EXCEPT !.copy[f] = "started"]
            /\ Move(c, Copying("append", f, caller[c].answer))
       ELSE /\ UNCHANGED row
            /\ Move(c, IF f = "sent" /\ row.copy[f] = "stored"
                       THEN Answered(caller[c].answer)
                       ELSE Copying("search", f, caller[c].answer))
  /\ UNCHANGED <<mail, imap>>

\* The folder is unknown or refuses: no copy.
AppendRefused(c) ==
  /\ caller[c].phase = "append"
  /\ Move(c, Setting(caller[c].folder, "failed_definite", caller[c].answer))
  /\ UNCHANGED <<row, mail, imap>>

\* Mutant of AppendCopy: a lost answer is taken for a stored copy.
BugAppendAssumesStored(c) ==
  /\ caller[c].phase = "append"
  /\ LET f == caller[c].folder IN
       /\ appends' = [appends EXCEPT ![f] = @ + 1]
       /\ \/ mailbox' = [mailbox EXCEPT ![f] = @ + 1]
          \/ UNCHANGED mailbox
       /\ Move(c, Setting(f, "stored", caller[c].answer))
  /\ UNCHANGED <<row, mail>>

\* APPEND is answered, or its answer is lost with or without the copy.
AppendCopy(c) ==
  /\ caller[c].phase = "append"
  /\ LET f == caller[c].folder IN
       /\ appends' = [appends EXCEPT ![f] = @ + 1]
       /\ \/ /\ mailbox' = [mailbox EXCEPT ![f] = @ + 1]
             /\ Move(c, Setting(f, "stored", caller[c].answer))
          \/ /\ mailbox' = [mailbox EXCEPT ![f] = @ + 1]
             /\ Move(c, Copying("search", f, caller[c].answer))
          \/ /\ UNCHANGED mailbox
             /\ Move(c, Copying("search", f, caller[c].answer))
  /\ UNCHANGED <<row, mail>>

\* _reconcile_yandex_mailbox_copy never appends.
SearchFolder(c) ==
  /\ caller[c].phase = "search"
  /\ LET f == caller[c].folder
         answer == caller[c].answer
     IN  \/ Move(c, Setting(f, "uncertain", answer))
         \/ \E n \in 0 .. mailbox[f] :
              Move(c, CASE n = 0 -> Copying("missing", f, answer)
                        [] n = 1 -> Setting(f, "stored", answer)
                        [] OTHER -> Setting(f, "uncertain", answer))
  /\ UNCHANGED <<row, mail, imap>>

CopyMissing(c) ==
  /\ caller[c].phase = "missing"
  /\ LET f == caller[c].folder IN
       Move(c, IF row.copy[f] = "failed_definite"
               THEN Answered(caller[c].answer)
               ELSE Setting(f, "uncertain", caller[c].answer))
  /\ UNCHANGED <<row, mail, imap>>

\* Anything else that goes wrong: the copy in Sent is best effort and does not
\* change the answer, the one in Secretary-Uncertain ends the call with an error.
CopyBreaks(c) ==
  /\ caller[c].phase \in CopyPhases \union {"looked", "set", "setting"}
  /\ \/ /\ caller[c].folder = "sent"
        /\ \/ Move(c, Setting("sent", "uncertain", caller[c].answer))
           \/ Move(c, Answered(caller[c].answer))
     \/ /\ caller[c].folder = "uncertain"
        /\ Move(c, Answered("error"))
  /\ UNCHANGED <<row, mail, imap>>

-----------------------------------------------------------------------------

\* The process dies, or the answer is out and a new call may begin.
Leave(c) ==
  /\ caller[c] # Idle
  /\ Move(c, Idle)
  /\ UNCHANGED <<row, mail, imap>>

ServerDecides ==
  /\ message = "handed"
  /\ message' \in {"delivered", "refused"}
  /\ UNCHANGED <<row, caller, sends, imap, told>>

SendStep(c) ==
  \/ AccountMissing(c) \/ ClaimStarted(c) \/ PasswordMissing(c)
  \/ SendRfc822(c) \/ SendSucceeds(c) \/ SendRefused(c) \/ SendAmbiguous(c)
  \/ ResumeAttempt(c) \/ ReadRow(c) \/ WriteRow(c) \/ StoreFails(c)

CopyStep(c) ==
  \/ LoadCopyState(c) \/ LookIntoFolder(c) \/ ClaimCopy(c)
  \/ AppendRefused(c) \/ AppendCopy(c) \/ SearchFolder(c) \/ CopyMissing(c)
  \/ ReadCopies(c) \/ WriteCopies(c) \/ CopyBreaks(c)

Next == ServerDecides \/ \E c \in Callers : SendStep(c) \/ CopyStep(c) \/ Leave(c)

Spec == Init /\ [][Next]_vars

\* The plan's lock lets one approval execute at a time.
OneAtATime == \A c, d \in Callers : caller[c] # Idle /\ caller[d] # Idle => c = d

SerialNext == Next /\ OneAtATime'

SerialSpec == Init /\ [][SerialNext]_vars

-----------------------------------------------------------------------------
(* Safety, for calls that follow one another.                              *)

verdict == CASE row.state \in {"started", "uncertain"} -> "open"
             [] row.state = "succeeded" -> "delivered"
             [] row.state = "failed_definite" -> "failed"
             [] OTHER -> "none"
Promise == INSTANCE SendOnce WITH message <- message, verdict <- verdict

\* The promise of SendOnce: one send, and recorded verdicts that are true and stand.
SendsOnce == Promise!Spec

\* What the row and the callers say of the message is true.  A copy found in
\* Secretary-Uncertain proves nothing.
SaidIsTrue ==
  /\ row.state = "succeeded" \/ told \cap {"sent", "already_sent"} # {} =>
       message = "delivered"
  /\ row.state = "failed_definite" \/ "failed" \in told => message = "refused"

\* The user never finds two copies of a message in a folder, though an APPEND may
\* lose its answer and its caller may die right before or after it.
AtMostOneCopy == \A f \in Folders : appends[f] <= 1 /\ mailbox[f] <= appends[f]

\* A copy in Sent is one of a delivered message, a copy in Secretary-Uncertain one
\* of a message in doubt, and a refused message leaves no copy; a copy recorded as
\* stored is there.
CopiesTellTheTruth ==
  /\ mailbox["sent"] > 0 => row.state = "succeeded"
  /\ mailbox["uncertain"] > 0 => row.state = "uncertain"
  /\ \A f \in Folders : row.copy[f] = "stored" => mailbox[f] > 0
=============================================================================
