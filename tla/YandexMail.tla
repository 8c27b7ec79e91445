----------------------------- MODULE YandexMail -----------------------------
(***************************************************************************)
(* Reading one Yandex inbox over IMAP (backend/app/connectors/yandex/      *)
(* mail_sync.py, mail_history_state.py, imap_transport.py): the live part  *)
(* of a pass goes up from a checkpoint, the worker's history part goes     *)
(* down through a window of days.  Both belong to one numbering of the     *)
(* mailbox (UIDVALIDITY); a new one makes all that was stored useless.     *)
(*                                                                         *)
(* Messages are numbered as they arrive.  The server numbers a mailbox     *)
(* anew only while no session is open.                                     *)
(***************************************************************************)
EXTENDS HistoryWindow, Sequences

CONSTANT MaxRenumberings  \* bound

VARIABLES
  today,
  days,      \* the user's history_days
  validity,  \* the mailbox's UIDVALIDITY
  inbox,     \* inbox[u] is the day message u arrived
  stored,    \* the messages that are objects under the present numbering
  root,      \* inbox_uidvalidity of the checkpoint, 0 for none
  last,      \* inbox_last_uid
  history,   \* history_backfill: what is scanned, what is being scanned down to
             \* which uid and for how many days, and the numbering that is meant
  pass,      \* pass[p] is where the worker's or the request's pass stands
  late       \* history: messages that arrived without a checkpoint that is kept, on a
             \* day whose scan had begun

mailbox == <<today, days, validity, inbox>>
account == <<root, last, history>>
vars == <<mailbox, stored, account, pass, late>>

Passes == {"worker", "request"}
Messages == DOMAIN inbox
Uids == 0 .. MaxItems
Validities == 0 .. (MaxRenumberings + 1)
NoHistory == [scanned |-> {}, active |-> {}, before |-> 0, days |-> 0, tag |-> 0]
Histories == [scanned : SUBSET Days, active : SUBSET Days, before : 0 .. (MaxItems + 1),
              days : {0} \union Spans, tag : Validities]

Idle == [phase |-> "idle"]
Planning == [phase : {"planning"}, days : Spans, root : Validities]
PassStates ==
  {Idle}
  \union [phase : {"open"}, days : Spans, root : Validities, last : Uids]
  \union [phase : {"live"}, todo : SUBSET Uids, top : Uids, after : {Idle} \union Planning]
  \union Planning
  \union [phase : {"searching"}]
  \union [phase : {"page"}, todo : SUBSET Uids, next : Uids]

TypeOK ==
  /\ today \in 0 .. LastDay /\ days \in Spans /\ validity \in Validities \ {0}
  /\ inbox \in Seq(0 .. LastDay) /\ Len(inbox) <= MaxItems
  /\ stored \subseteq Messages /\ late \subseteq Messages
  /\ root \in Validities /\ last \in Uids /\ history \in Histories
  /\ \A p \in Passes : pass[p] \in PassStates
  /\ pass["request"].phase \in {"idle", "open", "live"}

Init ==
  /\ today = 0 /\ days \in Spans /\ validity = 1
  /\ inbox = <<>> /\ stored = {} /\ late = {}
  /\ root = 0 /\ last = 0 /\ history = NoHistory
  /\ pass = [p \in Passes |-> Idle]

Move(p, state) == pass' = [pass EXCEPT ![p] = state]

\* _valid_forward_checkpoint.
ValidCheckpoint(r, l) == r = validity /\ l > 0

-----------------------------------------------------------------------------
(* The mailbox, the clock and the user.                                    *)

Begun == history.tag = validity /\ today \in history.scanned \union history.active

\* There is no checkpoint; or a pass that found none is still to set one, and its
\* search may have been too short, or have found nothing.
Unmarked ==
  \/ ~ ValidCheckpoint(root, last)
  \/ \E p \in Passes :
       \/ pass[p].phase = "open" /\ ~ ValidCheckpoint(pass[p].root, pass[p].last)
       \/ pass[p].phase = "live" /\ pass[p].top = 0

Arrive ==
  /\ Len(inbox) < MaxItems
  /\ inbox' = Append(inbox, today)
  /\ late' = IF Begun /\ Unmarked THEN late \union {Len(inbox) + 1} ELSE late
  /\ UNCHANGED <<today, days, validity, stored, account, pass>>

NextDay ==
  /\ today < LastDay
  /\ today' = today + 1
  /\ UNCHANGED <<days, validity, inbox, stored, account, pass, late>>

SetHistoryDays ==
  /\ days' \in Spans \ {days}
  /\ UNCHANGED <<today, validity, inbox, stored, account, pass, late>>

\* Objects of the old numbering stay, and are never looked for again.
Renumber ==
  /\ validity <= MaxRenumberings
  /\ \A p \in Passes : pass[p] = Idle
  /\ validity' = validity + 1
  /\ stored' = {} /\ late' = {}
  /\ UNCHANGED <<today, days, inbox, account, pass>>

-----------------------------------------------------------------------------
(* The live part of a pass.                                                *)

\* load_sync_snapshot and select_folder.
Begin(p) ==
  /\ pass[p] = Idle
  /\ Move(p, [phase |-> "open", days |-> days, root |-> root, last |-> last])
  /\ UNCHANGED <<mailbox, stored, account, late>>

\* What follows the checkpoint, oldest first; without one the newest messages of
\* the desired days.
SearchLive(p) ==
  /\ pass[p].phase = "open"
  /\ LET incremental == ValidCheckpoint(pass[p].root, pass[p].last)
         found == IF incremental
                  THEN Smallest({u \in Messages : u > pass[p].last}, Limit)
                  ELSE Largest({u \in Messages : inbox[u] >= today - pass[p].days}, Limit)
         floor == IF incremental THEN pass[p].last ELSE 0
         after == IF p = "request" THEN Idle
                  ELSE [phase |-> "planning", days |-> pass[p].days, root |-> pass[p].root]
     IN Move(p, [phase |-> "live", todo |-> found \ stored,
                 top |-> Max(found \union {floor}), after |-> after])
  /\ UNCHANGED <<mailbox, stored, account, late>>

\* _materialize_uids: fetch and store a message, in a transaction of its own.
Save(p) ==
  /\ pass[p].phase \in {"live", "page"}
  /\ \E u \in pass[p].todo \ stored :
       /\ stored' = stored \union {u}
       /\ Move(p, [pass[p] EXCEPT !.todo = @ \ {u}])
  /\ UNCHANGED <<mailbox, account, late>>

\* The server or the unique index refuses something.
Fail(p) ==
  /\ pass[p] # Idle
  /\ Move(p, Idle)
  /\ UNCHANGED <<mailbox, stored, account, late>>

\* Mutant of EndLive: the checkpoint moves though messages of the search are left.
BugEndLiveEarly(p) ==
  /\ pass[p].phase = "live"
  /\ root' = validity /\ last' = pass[p].top
  /\ Move(p, pass[p].after)
  /\ UNCHANGED <<mailbox, stored, history, late>>

\* _merge_forward_checkpoint into the state as it is by then.
EndLive(p) ==
  /\ pass[p].phase = "live" /\ pass[p].todo = {}
  /\ root' = validity /\ last' = pass[p].top
  /\ Move(p, pass[p].after)
  /\ UNCHANGED <<mailbox, stored, history, late>>

-----------------------------------------------------------------------------
(* The history part.                                                       *)

\* _clear_history_on_mailbox_uidvalidity_change: r is the checkpoint's numbering when
\* the pass began.
Current(h, r) ==
  IF r \notin {0, validity} \/ h.tag \notin {0, validity} THEN NoHistory ELSE h

\* plan_history_active_scan and start_active_window, committed before the search.
PlanHistory ==
  /\ pass["worker"].phase = "planning"
  /\ LET wanted == pass["worker"].days
         h == Current(history, pass["worker"].root)
         goesOn == h.active # {} /\ wanted >= h.days
         window == Planned(h.scanned, Desired(today, wanted))
     IN /\ history' = CASE goesOn -> h
                        [] ~ goesOn /\ window = {} ->
                             [h EXCEPT !.active = {}, !.before = 0, !.days = 0]
                        [] OTHER ->
                             [h EXCEPT !.active = window, !.before = MaxItems + 1,
                                       !.days = wanted, !.tag = validity]
        /\ Move("worker", IF goesOn \/ window # {} THEN [phase |-> "searching"] ELSE Idle)
        /\ late' = IF goesOn THEN late ELSE {u \in late : inbox[u] \in h.scanned}
  /\ UNCHANGED <<mailbox, stored, root, last>>

\* history_uids_page_from_search.
SearchPage ==
  /\ pass["worker"].phase = "searching"
  /\ LET listed == {u \in Messages : inbox[u] \in history.active /\ u < history.before}
         shown == Largest(listed, Limit)
     IN Move("worker", [phase |-> "page", todo |-> shown \ stored,
                        next |-> IF shown = listed THEN 0 ELSE Min(shown)])
  /\ UNCHANGED <<mailbox, stored, account, late>>

\* persist_history_cursor or complete_active_window, committed with the job.
FinishPage ==
  /\ pass["worker"].phase = "page" /\ pass["worker"].todo = {}
  /\ history' = IF pass["worker"].next # 0
                THEN [history EXCEPT !.before = pass["worker"].next]
                ELSE [history EXCEPT
                       !.scanned = Extended(history.scanned, history.active, history.scanned),
                       !.active = {}, !.before = 0, !.days = 0]
  /\ Move("worker", Idle)
  /\ UNCHANGED <<mailbox, stored, root, last, late>>

-----------------------------------------------------------------------------

PassStep(p) == Begin(p) \/ SearchLive(p) \/ Save(p) \/ EndLive(p)

Next ==
  \/ Arrive \/ NextDay \/ SetHistoryDays \/ Renumber
  \/ \E p \in Passes : PassStep(p) \/ Fail(p)
  \/ PlanHistory \/ SearchPage \/ FinishPage

Spec == Init /\ [][Next]_vars

-----------------------------------------------------------------------------

\* A message below the checkpoint is not looked for by the live search any more, nor
\* is one of a scanned day, or of a page that was scanned, by the history: what both
\* have passed is stored.  Two sets of books that are kept apart, through failed
\* passes, requests that write an older checkpoint back and a mailbox that is
\* numbered anew between any two passes.  Messages are excepted that arrive, on a day
\* whose scan has begun, before there is a checkpoint or while a pass that found
\* none is under way: its search may be too short for them.
NothingIsLost ==
  \A u \in Messages \ late :
    \/ u \in stored
    \/ ~ ValidCheckpoint(root, last) \/ u > last
    \/ history.tag # validity
    \/ inbox[u] \notin history.scanned \union history.active
    \/ inbox[u] \in history.active /\ u < history.before
=============================================================================
