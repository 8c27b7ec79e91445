--------------------------- MODULE CalendarWrite ----------------------------
(***************************************************************************)
(* create_calendar_event (backend/app/services/                            *)
(* calendar_external_action_service.py): one approved event, created by    *)
(* calls that follow one another and may die anywhere.                     *)
(*                                                                         *)
(* The event's address follows from operation_id.  Google refuses an       *)
(* address that was ever used, and no row is kept for it.  Yandex lets a   *)
(* PUT replace what is there whatever If-None-Match says (its fake         *)
(* transport says so), so a row of external_action_attempts makes the PUT  *)
(* happen once.  Meanwhile the user edits and deletes the event, and a     *)
(* request nobody waits for any more may still land.                       *)
(***************************************************************************)
EXTENDS AttemptRow, Naturals

CONSTANT Callers

VARIABLES
  provider, \* "google" or "yandex"
  row,      \* state of the attempt's row (Yandex)
  caller,   \* caller[c] is where call c stands
  wire,     \* what became of the last creating request
  stray,    \* an earlier creating request may still land
  event,    \* what the calendar has at the event's address
  created,  \* history: creating requests that took effect
  told      \* history: the answers callers were given

vars == <<provider, row, caller, wire, stray, event, created, told>>
calendar == <<wire, stray, event, created>>

Events == {"absent", "ours", "edited", "deleted"}
Requests == {"none", "flying", "landed", "conflict", "refused"}
Answers == {"created", "exists", "refused", "mismatch", "missing", "failed",
            "unconfirmed", "error"}
Inspections == {"match", "mismatch", "absent", "unverifiable"}

Idle == [phase |-> "idle"]
At(phase) == [phase |-> phase]
Answered(answer) == [phase |-> "answered", answer |-> answer]
Storing(want, next) == [phase |-> "store", want |-> want, next |-> next]

Phases == {"create", "waiting", "confirm", "claimed", "found", "recheck"}
Replies == [phase : {"answered"}, answer : Answers]
Calls == {Idle} \union {At(p) : p \in Phases} \union Replies
         \union [phase : {"store"}, want : AttemptStates,
                 next : Replies \union {At("recheck")}]

TypeOK ==
  /\ provider \in {"google", "yandex"}
  /\ row \in AttemptStates
  /\ caller \in [Callers -> Calls]
  /\ wire \in Requests /\ stray \in BOOLEAN
  /\ event \in Events /\ created \in Nat
  /\ told \subseteq Answers

Init ==
  /\ provider \in {"google", "yandex"}
  /\ row = "none"
  /\ caller = [c \in Callers |-> Idle]
  /\ wire = "none" /\ stray = FALSE
  /\ event = "absent" /\ created = 0
  /\ told = {}

Move(c, held) ==
  /\ caller' = [caller EXCEPT ![c] = held]
  /\ told' = IF held.phase = "answered" THEN told \union {held.answer} ELSE told

-----------------------------------------------------------------------------
(* The calendar and its user.                                              *)

\* A creating request takes effect, unless Google knows the address already.
Lands ==
  IF provider = "google" /\ event # "absent"
  THEN wire' = "conflict" /\ UNCHANGED <<event, created>>
  ELSE wire' = "landed" /\ event' = "ours" /\ created' = created + 1

ProviderTakes ==
  /\ wire = "flying"
  /\ Lands
  /\ UNCHANGED <<provider, row, caller, stray, told>>

ProviderRefuses ==
  /\ wire = "flying"
  /\ wire' = "refused"
  /\ UNCHANGED <<provider, row, caller, stray, event, created, told>>

StrayTaken ==
  /\ stray
  /\ stray' = FALSE
  /\ IF provider = "google" /\ event # "absent"
     THEN UNCHANGED <<event, created>>
     ELSE event' = "ours" /\ created' = created + 1
  /\ UNCHANGED <<provider, row, caller, wire, told>>

UserEdits ==
  /\ event = "ours"
  /\ event' = "edited"
  /\ UNCHANGED <<provider, row, caller, wire, stray, created, told>>

UserDeletes ==
  /\ event \in {"ours", "edited"}
  /\ event' = "deleted"
  /\ UNCHANGED <<provider, row, caller, wire, stray, created, told>>

\* What a GET of the address may show.
Shown ==
  {"unverifiable",
   CASE event = "ours" -> "match" [] event = "edited" -> "mismatch" [] OTHER -> "absent"}

-----------------------------------------------------------------------------
(* Google.                                                                 *)

AccountMissing(c) ==
  /\ caller[c] = Idle
  /\ Move(c, Answered("error"))
  /\ UNCHANGED <<provider, row, calendar>>

Begin(c) ==
  /\ caller[c] = Idle /\ provider = "google"
  /\ Move(c, At("create"))
  /\ UNCHANGED <<provider, row, calendar>>

\* insert_event, or the PUT: the request is out.
SendCreate(c) ==
  /\ caller[c].phase = "create"
  /\ wire' = "flying"
  /\ stray' = (stray \/ wire = "flying")
  /\ Move(c, At("waiting"))
  /\ UNCHANGED <<provider, row, event, created>>

InsertSucceeds(c) ==
  /\ caller[c].phase = "waiting" /\ provider = "google"
  /\ wire = "landed"
  /\ Move(c, Answered("created"))
  /\ UNCHANGED <<provider, row, calendar>>

\* Mutant of InsertUnclear: an address in use, or silence, is answer enough.
BugInsertUnclear(c) ==
  /\ caller[c].phase = "waiting" /\ provider = "google"
  /\ Move(c, Answered("exists"))
  /\ UNCHANGED <<provider, row, calendar>>

\* 409, or an error that tells nothing: the event is looked up.
InsertUnclear(c) ==
  /\ caller[c].phase = "waiting" /\ provider = "google"
  /\ Move(c, At("confirm"))
  /\ UNCHANGED <<provider, row, calendar>>

InsertRefused(c) ==
  /\ caller[c].phase = "waiting" /\ provider = "google"
  /\ wire = "refused"
  /\ Move(c, Answered("refused"))
  /\ UNCHANGED <<provider, row, calendar>>

\* _require_matching_existing and _reconcile_after_uncertain_insert.
Confirmed(shown) ==
  CASE shown = "match" -> "exists" [] shown = "mismatch" -> "mismatch"
    [] shown = "absent" -> "failed" [] OTHER -> "unconfirmed"

Confirm(c) ==
  /\ caller[c].phase = "confirm"
  /\ \E shown \in Shown : Move(c, Answered(Confirmed(shown)))
  /\ UNCHANGED <<provider, row, calendar>>

-----------------------------------------------------------------------------
(* Yandex.                                                                 *)

ClaimStarted(c) ==
  /\ caller[c] = Idle /\ provider = "yandex"
  /\ IF row = "none"
     THEN row' = "started" /\ Move(c, At("claimed"))
     ELSE UNCHANGED row /\ Move(c, At("found"))
  /\ UNCHANGED <<provider, calendar>>

\* What a look at the address decides when nothing is to be created any more.
Decided(shown, answer) ==
  CASE shown = "match" -> Storing("succeeded", Answered(answer))
    [] shown = "mismatch" -> Storing("failed_definite", Answered("mismatch"))
    [] OTHER -> Storing("uncertain", Answered("unconfirmed"))

InspectFirst(c) ==
  /\ caller[c].phase = "claimed"
  /\ \E shown \in Shown :
       Move(c, IF shown = "absent" THEN At("create") ELSE Decided(shown, "exists"))
  /\ UNCHANGED <<provider, row, calendar>>

PutSucceeds(c) ==
  /\ caller[c].phase = "waiting" /\ provider = "yandex"
  /\ wire = "landed"
  /\ Move(c, Storing("succeeded", Answered("created")))
  /\ UNCHANGED <<provider, row, calendar>>

PutRefused(c) ==
  /\ caller[c].phase = "waiting" /\ provider = "yandex"
  /\ wire = "refused"
  /\ Move(c, Storing("failed_definite", Answered("refused")))
  /\ UNCHANGED <<provider, row, calendar>>

\* Mutant of PutAmbiguous: a timeout is taken for a refusal.
BugPutAmbiguous(c) ==
  /\ caller[c].phase = "waiting" /\ provider = "yandex"
  /\ Move(c, Storing("failed_definite", Answered("refused")))
  /\ UNCHANGED <<provider, row, calendar>>

PutAmbiguous(c) ==
  /\ caller[c].phase = "waiting" /\ provider = "yandex"
  /\ Move(c, Storing("uncertain", At("recheck")))
  /\ UNCHANGED <<provider, row, calendar>>

\* _after_ambiguous_put: doubt is already stored.
Recheck(c) ==
  /\ caller[c].phase = "recheck"
  /\ \E shown \in Shown :
       Move(c, IF shown \in {"match", "mismatch"} THEN Decided(shown, "created")
               ELSE Answered("unconfirmed"))
  /\ UNCHANGED <<provider, row, calendar>>

\* Mutant of Resumed: an event that is not there is created again.
BugResumed(state, shown) ==
  CASE state = "failed_definite" -> Answered("refused")
    [] state # "failed_definite" /\ shown = "absent" -> At("create")
    [] OTHER -> Decided(shown, "exists")

\* _resume_yandex_attempt: a failure is final, a success is only checked, and
\* nothing is ever created here.
Resumed(state, shown) ==
  CASE state = "failed_definite" -> Answered("refused")
    [] state = "succeeded" ->
         Answered(CASE shown = "match" -> "exists" [] shown = "absent" -> "missing"
                    [] shown = "mismatch" -> "mismatch" [] OTHER -> "unconfirmed")
    [] OTHER -> Decided(shown, "exists")

Resume(c) ==
  /\ caller[c].phase = "found"
  /\ \E shown \in Shown : Move(c, Resumed(row, shown))
  /\ UNCHANGED <<provider, row, calendar>>

Store(c) ==
  /\ caller[c].phase = "store"
  /\ row' = Stored(row, row, caller[c].want)
  /\ Move(c, caller[c].next)
  /\ UNCHANGED <<provider, calendar>>

StoreFails(c) ==
  /\ caller[c].phase = "store"
  /\ Move(c, Answered("error"))
  /\ UNCHANGED <<provider, row, calendar>>

-----------------------------------------------------------------------------

\* The process dies, or the answer is out and the operation may be called again.
Leave(c) ==
  /\ caller[c] # Idle
  /\ Move(c, Idle)
  /\ UNCHANGED <<provider, row, calendar>>

CallStep(c) ==
  \/ AccountMissing(c) \/ Begin(c) \/ SendCreate(c)
  \/ InsertSucceeds(c) \/ InsertUnclear(c) \/ InsertRefused(c) \/ Confirm(c)
  \/ ClaimStarted(c) \/ InspectFirst(c) \/ Resume(c)
  \/ PutSucceeds(c) \/ PutRefused(c) \/ PutAmbiguous(c) \/ Recheck(c)
  \/ Store(c) \/ StoreFails(c) \/ Leave(c)

Next ==
  \/ ProviderTakes \/ ProviderRefuses \/ StrayTaken \/ UserEdits \/ UserDeletes
  \/ \E c \in Callers : CallStep(c)

\* The plan's lock lets one approval execute at a time.
OneAtATime == \A c, d \in Callers : caller[c] # Idle /\ caller[d] # Idle => c = d

SerialNext == Next /\ OneAtATime'

SerialSpec == Init /\ [][SerialNext]_vars

-----------------------------------------------------------------------------

\* However often the action is repeated after lost answers and dead requests, no
\* creating request takes effect on an address that has been used: the user gets
\* no second event, loses no edit, and what was deleted stays deleted.
NothingIsOverwritten == created' # created => event = "absent"

\* Success is said of an event that was created, "missing" of one that is gone, a
\* mismatch of one that the user has changed; and when Yandex refused, and "create a
\* new plan" is the advice, the event does not arrive later.
AnswersAreTrue ==
  /\ told \cap {"created", "exists", "missing", "mismatch"} # {} => created > 0
  /\ "refused" \in told /\ provider = "yandex" => created = 0 \/ event # "ours"
  /\ "missing" \in told => event = "deleted"

\* The row of the Yandex attempt keeps the promise of SendOnce; for Google, which
\* has no row, there is nothing to promise.
message ==
  IF provider = "google" THEN "unsent"
  ELSE CASE wire = "none" -> "unsent"
         [] wire = "flying" -> "handed"
         [] wire = "refused" -> "refused"
         [] OTHER -> IF event = "ours" THEN "delivered" ELSE "altered"
verdict == CASE row \in {"started", "uncertain"} -> "open"
             [] row = "succeeded" -> "delivered"
             [] row = "failed_definite" -> "failed"
             [] OTHER -> "none"
Promise == INSTANCE SendOnce WITH message <- message, verdict <- verdict
SendsOnce == Promise!Spec
=============================================================================
