--------------------------- MODULE Conversations ----------------------------
(***************************************************************************)
(* The assistant's conversations of one user: which one is current, the    *)
(* turn each one has, asked for by requests that may overlap, the plans    *)
(* that turns stage, and the ending that is told of an executed plan.      *)
(* (backend/app/services/assistant_conversation_service.py, used by        *)
(* backend/app/api/assistant.py.)                                          *)
(*                                                                         *)
(* A request asks the model without a transaction that would hold anything *)
(* and stages its plan in a session of its own; then it stores the turn.   *)
(* What it tells the client counts once its session has committed.         *)
(* Answers, plans and endings are named by the request that made them.     *)
(* Bound: a conversation has one turn, sent by any number of requests.     *)
(***************************************************************************)
EXTENDS FiniteSets

CONSTANTS
  Chats,    \* the conversations that are ever created
  Requests, \* the requests that send a turn, each once
  Finishes, \* the requests that resume a plan, each once
  None

VARIABLES
  created, \* the conversations there are
  current, \* the one with is_current, or None
  turn,    \* turn[c] is the request whose answer conversation c stores
  request, \* where each request stands, and its conversation
  plan,    \* plan[r] is the status of the plan that request r staged
  finish,  \* where each resuming request stands, and its plan
  ending,  \* ending[r] is the request whose ending is stored for plan r
  seen,    \* history: seen[r] is the answer request r was given
  heard,   \* history: heard[f] is the ending request f was given
  away     \* history: turns stored while another conversation was current

chat == <<created, current, turn, away>>
vars == <<chat, request, plan, finish, ending, seen, heard>>

Idle == [phase |-> "idle"]
Statuses == {"none", "pending", "expired", "rejected", "executed", "failed"}

TypeOK ==
  /\ created \subseteq Chats /\ current \in created \union {None}
  /\ turn \in [Chats -> Requests \union {None}] /\ away \subseteq Chats
  /\ request \in [Requests -> {Idle} \union
       [phase : {"asked", "answered", "over"}, chat : created, late : BOOLEAN]]
  /\ plan \in [Requests -> Statuses]
  /\ finish \in [Finishes -> {Idle} \union
       [phase : {"asked", "checked", "over"}, plan : Requests]]
  /\ ending \in [Requests -> Finishes \union {None}]
  /\ seen \in [Requests -> Requests \union {None}]
  /\ heard \in [Finishes -> Finishes \union {None}]

Init ==
  /\ created = {} /\ current = None
  /\ turn = [c \in Chats |-> None] /\ away = {}
  /\ request = [r \in Requests |-> Idle] /\ plan = [r \in Requests |-> "none"]
  /\ finish = [f \in Finishes |-> Idle] /\ ending = [r \in Requests |-> None]
  /\ seen = [r \in Requests |-> None] /\ heard = [f \in Finishes |-> None]

-----------------------------------------------------------------------------
(* Which conversation is current.                                          *)

\* _has_unresolved_plan: a plan that a stored turn shows is undecided.
Unresolved(c) == c # None /\ turn[c] # None /\ plan[turn[c]] = "pending"

\* Mutant of May: nothing keeps the user in a conversation.
BugMay(c) == TRUE

\* The current conversation, locked like a turn that is stored in it, may be left.
May(c) == current = c \/ ~ Unresolved(current)

\* create_current; a lost race for the one current row is an error without effect.
CreateCurrent(c) ==
  /\ c \notin created /\ May(c)
  /\ created' = created \union {c} /\ current' = c
  /\ UNCHANGED <<turn, away, request, plan, finish, ending, seen, heard>>

\* select.
Select(c) ==
  /\ c \in created /\ May(c)
  /\ current' = c
  /\ UNCHANGED <<created, turn, away, request, plan, finish, ending, seen, heard>>

-----------------------------------------------------------------------------
(* A turn.                                                                 *)

\* stored_turn: a turn that is stored is told again; another one is put to the model.
Begin(r, c) ==
  /\ request[r] = Idle /\ c \in created
  /\ IF turn[c] # None
     THEN /\ request' = [request EXCEPT ![r] =
                           [phase |-> "over", chat |-> c, late |-> TRUE]]
          /\ seen' = [seen EXCEPT ![r] = turn[c]]
     ELSE /\ request' = [request EXCEPT ![r] =
                           [phase |-> "asked", chat |-> c, late |-> FALSE]]
          /\ UNCHANGED seen
  /\ UNCHANGED <<chat, plan, finish, ending, heard>>

\* send_message: the answer, with a plan that is committed at once or without.
Answer(r) ==
  /\ request[r].phase = "asked"
  /\ request' = [request EXCEPT ![r].phase = "answered"]
  /\ plan' \in {plan, [plan EXCEPT ![r] = "pending"]}
  /\ UNCHANGED <<chat, finish, ending, seen, heard>>

\* Mutant of Persist: the turn is not looked for again under the lock.
BugPersistOverwrites(r) ==
  /\ request[r].phase = "answered"
  /\ LET c == request[r].chat
     IN  /\ turn' = [turn EXCEPT ![c] = r]
         /\ away' = IF current # c THEN away \union {c} ELSE away
  /\ request' = [request EXCEPT ![r].phase = "over"]
  /\ seen' = [seen EXCEPT ![r] = r]
  /\ UNCHANGED <<created, current, plan, finish, ending, heard>>

\* persist_completed_turn under the conversation's lock.  A request that finds the turn
\* stored stores nothing, and tells its own answer all the same.
Persist(r) ==
  /\ request[r].phase = "answered"
  /\ LET c == request[r].chat
         first == turn[c] = None
     IN  /\ turn' = [turn EXCEPT ![c] = IF first THEN r ELSE @]
         /\ away' = IF first /\ current # c THEN away \union {c} ELSE away
  /\ request' = [request EXCEPT ![r].phase = "over"]
  /\ seen' = [seen EXCEPT ![r] = r]
  /\ UNCHANGED <<created, current, plan, finish, ending, heard>>

\* The model fails, the request dies or its session is rolled back; a plan stays.
Abort(r) ==
  /\ request[r].phase \in {"asked", "answered"}
  /\ request' = [request EXCEPT ![r].phase = "over"]
  /\ UNCHANGED <<chat, plan, finish, ending, seen, heard>>

-----------------------------------------------------------------------------
(* A plan: see ApprovedGmail for what approving it does.                   *)

\* The client knows a plan from an answer it was given or from the transcript.
Known(r) == (\E q \in Requests : seen[q] = r) \/ (\E c \in Chats : turn[c] = r)

Decide(r) ==
  /\ plan[r] = "pending" /\ Known(r)
  /\ \E s \in {"executed", "failed", "rejected"} : plan' = [plan EXCEPT ![r] = s]
  /\ UNCHANGED <<chat, request, finish, ending, seen, heard>>

TtlPasses(r) ==
  /\ plan[r] = "pending"
  /\ plan' = [plan EXCEPT ![r] = "expired"]
  /\ UNCHANGED <<chat, request, finish, ending, seen, heard>>

-----------------------------------------------------------------------------
(* The ending of an executed plan.                                         *)

Tell(f, e) ==
  /\ finish' = [finish EXCEPT ![f].phase = "over"]
  /\ heard' = [heard EXCEPT ![f] = e]

\* resume_action_plan: a stored ending is told again; else the model is asked for one.
BeginFinish(f, r) ==
  /\ finish[f] = Idle /\ plan[r] = "executed"
  /\ IF ending[r] # None
     THEN /\ finish' = [finish EXCEPT ![f] = [phase |-> "over", plan |-> r]]
          /\ heard' = [heard EXCEPT ![f] = ending[r]]
     ELSE /\ finish' = [finish EXCEPT ![f] = [phase |-> "asked", plan |-> r]]
          /\ UNCHANGED heard
  /\ UNCHANGED <<chat, request, plan, ending, seen>>

\* persist_resume: an ending stored meanwhile is told instead of the own one, and the
\* ending of a plan without a stored turn is told without being stored.
CheckEnding(f) ==
  /\ finish[f].phase = "asked"
  /\ LET r == finish[f].plan
         anchored == \E c \in Chats : turn[c] = r
     IN IF ending[r] # None THEN Tell(f, ending[r])
        ELSE IF ~ anchored THEN Tell(f, f)
        ELSE finish' = [finish EXCEPT ![f].phase = "checked"] /\ UNCHANGED heard
  /\ UNCHANGED <<chat, request, plan, ending, seen>>

\* Mutant of StoreEnding: a plan may have several endings.
BugStoreEndingAgain(f) ==
  /\ finish[f].phase = "checked"
  /\ ending' = [ending EXCEPT ![finish[f].plan] = f]
  /\ Tell(f, f)
  /\ UNCHANGED <<chat, request, plan, seen>>

\* The insert, once the conversation is locked; the unique index lets one through.
StoreEnding(f) ==
  /\ finish[f].phase = "checked"
  /\ ending[finish[f].plan] = None
  /\ ending' = [ending EXCEPT ![finish[f].plan] = f]
  /\ Tell(f, f)
  /\ UNCHANGED <<chat, request, plan, seen>>

\* The model fails, the insert is refused or the request dies.
AbortFinish(f) ==
  /\ finish[f].phase \in {"asked", "checked"}
  /\ finish' = [finish EXCEPT ![f].phase = "over"]
  /\ UNCHANGED <<chat, request, plan, ending, seen, heard>>

-----------------------------------------------------------------------------

Next ==
  \/ \E c \in Chats : CreateCurrent(c) \/ Select(c)
  \/ \E r \in Requests, c \in Chats : Begin(r, c)
  \/ \E r \in Requests : \/ Answer(r) \/ Persist(r) \/ Abort(r)
                         \/ Decide(r) \/ TtlPasses(r)
  \/ \E f \in Finishes, r \in Requests : BeginFinish(f, r)
  \/ \E f \in Finishes : CheckEnding(f) \/ StoreEnding(f) \/ AbortFinish(f)

Spec == Init /\ [][Next]_vars

-----------------------------------------------------------------------------

\* What a client was told and the transcript do not contradict each other: every ending
\* of a plan that the transcript shows is the stored one, however many clients ask for
\* it at once, and so is the answer to a turn that is sent again after it was stored.
\* Excepted are requests that overlapped with the one whose answer is stored.
TranscriptIsSound ==
  /\ \A f \in Finishes : heard[f] # None =>
       LET r == finish[f].plan
       IN  (\E c \in Chats : turn[c] = r) => heard[f] = ending[r]
  /\ \A r \in Requests : seen[r] # None =>
       LET c == request[r].chat
       IN  /\ turn[c] # None
           /\ request[r].late \/ turn[c] = r => seen[r] = turn[c]

\* A conversation is not left over an undecided plan: one that waits elsewhere came
\* with an answer that was stored after the user had left.
NothingWaitsElsewhere ==
  \A c \in created \ {current} : Unresolved(c) => c \in away

\* Every request that sends a turn is given the one answer that is stored, which holds
\* for those that do not overlap.
OneAnswerForATurn ==
  \A r \in Requests : seen[r] # None => seen[r] = turn[request[r].chat]
=============================================================================
