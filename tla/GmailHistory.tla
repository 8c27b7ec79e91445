---------------------------- MODULE GmailHistory ----------------------------
(***************************************************************************)
(* Reading one Gmail mailbox (backend/app/connectors/google/gmail_sync.py, *)
(* gmail_history_state.py): every pass looks at the newest messages, and   *)
(* the worker's also scans one page of the days it has not seen yet.       *)
(*                                                                         *)
(* The worker runs one pass at a time; a request of the user runs one next *)
(* to it, without the history part.  Messages are numbered as they arrive, *)
(* which is also the order of Gmail's listings, and a page token is the    *)
(* number of the last message listed.                                      *)
(***************************************************************************)
EXTENDS HistoryWindow, Sequences

VARIABLES
  today,
  days,     \* the user's history_days
  inbox,    \* inbox[m] is the day message m arrived
  stored,   \* the messages that are objects
  scanned,  \* days scanned
  active,   \* days being scanned, {} when there are none
  token,    \* next page of the active window, 0 for the first
  pass,     \* pass[p] is where the worker's or the request's pass stands
  late      \* history: messages that arrived on a day whose scan had begun

vars == <<today, days, inbox, stored, scanned, active, token, pass, late>>

Passes == {"worker", "request"}
Messages == DOMAIN inbox
Idle == [phase |-> "idle"]

Numbers == 0 .. MaxItems

PassStates ==
  {Idle}
  \union [phase : {"begun", "planning"}, days : Spans]
  \union [phase : {"live"}, days : Spans, todo : SUBSET Numbers]
  \union [phase : {"listing"}, window : SUBSET Days]
  \union [phase : {"page"}, window : SUBSET Days, todo : SUBSET Numbers, next : Numbers]

TypeOK ==
  /\ today \in 0 .. LastDay /\ days \in Spans
  /\ inbox \in Seq(0 .. LastDay) /\ Len(inbox) <= MaxItems
  /\ stored \subseteq Messages /\ late \subseteq Messages
  /\ scanned \subseteq Days /\ active \subseteq Days
  /\ token \in Numbers /\ (active = {} => token = 0)
  /\ \A p \in Passes : pass[p] \in PassStates
  /\ pass["request"].phase \in {"idle", "begun", "live"}

Init ==
  /\ today = 0 /\ days \in Spans
  /\ inbox = <<>> /\ stored = {} /\ late = {}
  /\ scanned = {} /\ active = {} /\ token = 0
  /\ pass = [p \in Passes |-> Idle]

Move(p, state) == pass' = [pass EXCEPT ![p] = state]

-----------------------------------------------------------------------------
(* The mailbox, the clock and the user.                                    *)

Arrive ==
  /\ Len(inbox) < MaxItems
  /\ inbox' = Append(inbox, today)
  /\ late' = IF today \in scanned \union active THEN late \union {Len(inbox) + 1} ELSE late
  /\ UNCHANGED <<today, days, stored, scanned, active, token, pass>>

NextDay ==
  /\ today < LastDay
  /\ today' = today + 1
  /\ UNCHANGED <<days, inbox, stored, scanned, active, token, pass, late>>

SetHistoryDays ==
  /\ days' \in Spans \ {days}
  /\ UNCHANGED <<today, inbox, stored, scanned, active, token, pass, late>>

-----------------------------------------------------------------------------
(* A pass.                                                                 *)

\* The service is built with the days the user wants by now, and keeps them.
Begin(p) ==
  /\ pass[p] = Idle
  /\ Move(p, [phase |-> "begun", days |-> days])
  /\ UNCHANGED <<today, days, inbox, stored, scanned, active, token, late>>

\* _run_live_pass lists the newest messages of the desired days and leaves out
\* the known ones.
ListLive(p) ==
  /\ pass[p].phase = "begun"
  /\ LET recent == {m \in Messages : inbox[m] >= today - pass[p].days}
     IN Move(p, [phase |-> "live", days |-> pass[p].days,
                 todo |-> Largest(recent, Limit) \ stored])
  /\ UNCHANGED <<today, days, inbox, stored, scanned, active, token, late>>

\* _materialize_message_ids: fetch and store a message, in a transaction of its own.
Save(p) ==
  /\ pass[p].phase \in {"live", "page"}
  /\ \E m \in pass[p].todo \ stored :
       /\ stored' = stored \union {m}
       /\ Move(p, [pass[p] EXCEPT !.todo = @ \ {m}])
  /\ UNCHANGED <<today, days, inbox, scanned, active, token, late>>

\* Any call to Gmail fails, or the other pass has stored the message meanwhile and
\* the unique index refuses it: what is not committed is rolled back.
Fail(p) ==
  /\ pass[p] # Idle
  /\ Move(p, Idle)
  /\ UNCHANGED <<today, days, inbox, stored, scanned, active, token, late>>

EndLive(p) ==
  /\ pass[p].phase = "live" /\ pass[p].todo = {}
  /\ Move(p, IF p = "worker" THEN [phase |-> "planning", days |-> pass[p].days] ELSE Idle)
  /\ UNCHANGED <<today, days, inbox, stored, scanned, active, token, late>>

\* plan_history_active_window: goes on with an active window that is still wanted,
\* drops one that is not, and begins the next one; each is committed before the
\* page is asked for.  What arrived during a scan that is dropped is scanned again.
PlanHistory ==
  /\ pass["worker"].phase = "planning"
  /\ LET desired == Desired(today, pass["worker"].days)
         kept == IF active \subseteq desired THEN active ELSE {}
         window == IF kept = {} THEN Planned(scanned, desired) ELSE kept
     IN /\ active' = window
        /\ token' = IF kept = {} THEN 0 ELSE token
        /\ late' = IF kept = {} THEN {m \in late : inbox[m] \in scanned} ELSE late
        /\ Move("worker", IF window = {} THEN Idle
                          ELSE [phase |-> "listing", window |-> window])
  /\ UNCHANGED <<today, days, inbox, stored, scanned>>

\* list_message_ids_page: the newest messages of the window after the token.
ListPage ==
  /\ pass["worker"].phase = "listing"
  /\ LET window == pass["worker"].window
         listed == {m \in Messages : inbox[m] \in window /\ (token = 0 \/ m < token)}
         shown == Largest(listed, Limit)
     IN Move("worker", [phase |-> "page", window |-> window, todo |-> shown \ stored,
                        next |-> IF shown = listed THEN 0 ELSE Min(shown)])
  /\ UNCHANGED <<today, days, inbox, stored, scanned, active, token, late>>

\* Mutant of FinishPage: the token moves on before the page is stored.
BugFinishEarly ==
  /\ pass["worker"].phase = "page"
  /\ IF pass["worker"].next # 0
     THEN /\ token' = pass["worker"].next
          /\ UNCHANGED <<scanned, active>>
     ELSE /\ scanned' = Extended(scanned, active, active)
          /\ active' = {} /\ token' = 0
  /\ Move("worker", Idle)
  /\ UNCHANGED <<today, days, inbox, stored, late>>

\* Mutant of FinishPage: the token of a window that is done with stays.
BugTokenStays ==
  /\ pass["worker"].phase = "page" /\ pass["worker"].todo = {}
  /\ IF pass["worker"].next # 0
     THEN /\ token' = pass["worker"].next
          /\ UNCHANGED <<scanned, active>>
     ELSE /\ scanned' = Extended(scanned, active, active)
          /\ active' = {} /\ UNCHANGED token
  /\ Move("worker", Idle)
  /\ UNCHANGED <<today, days, inbox, stored, late>>

\* persist_active_page_token or complete_active_window, committed with the job.
FinishPage ==
  /\ pass["worker"].phase = "page" /\ pass["worker"].todo = {}
  /\ IF pass["worker"].next # 0
     THEN /\ token' = pass["worker"].next
          /\ UNCHANGED <<scanned, active>>
     ELSE /\ scanned' = Extended(scanned, active, active)
          /\ active' = {} /\ token' = 0
  /\ Move("worker", Idle)
  /\ UNCHANGED <<today, days, inbox, stored, late>>

-----------------------------------------------------------------------------

PassStep(p) == Begin(p) \/ ListLive(p) \/ Save(p) \/ EndLive(p)

Next ==
  \/ Arrive \/ NextDay \/ SetHistoryDays
  \/ \E p \in Passes : PassStep(p) \/ Fail(p)
  \/ PlanHistory \/ ListPage \/ FinishPage

Spec == Init /\ [][Next]_vars

-----------------------------------------------------------------------------

\* A day that counts as scanned is never looked at again, so its messages have to be
\* there: through failed pages, a changed history_days, midnight and a request that
\* stores messages of its own.  The pages not listed yet and the page at hand may be
\* missing, and so may messages that arrived after their day's scan began: those are
\* left to the live listing.
ScannedIsStored ==
  \A m \in Messages \ late :
    \/ m \in stored
    \/ inbox[m] \notin scanned \union active
    \/ inbox[m] \in active /\ (token = 0 \/ m < token)
=============================================================================
