----------------------------- MODULE Mattermost -----------------------------
(***************************************************************************)
(* Reading one Mattermost channel (backend/app/connectors/mattermost/      *)
(* sync.py, mattermost_history_state.py).  A pass reads the newest posts   *)
(* once and then goes up from an anchor; it sweeps the posts that were     *)
(* changed since a watermark; the worker's pass also scans a page of       *)
(* history.  It works on a copy of the channel's entry, which it writes    *)
(* back after the live part and twice in the history part; posts are       *)
(* stored one by one on the way.                                           *)
(*                                                                         *)
(* Passes follow each other here.  Posts are numbered as they are written, *)
(* and no two posts or changes have the same time, so that the overlap of  *)
(* the sweeps is zero.                                                     *)
(***************************************************************************)
EXTENDS HistoryWindow

VARIABLES
  now,
  days,     \* the user's history_days
  created,  \* created[m] is the time post m was written, 0 before
  updated,  \* updated[m] is the time it was changed last
  stored,   \* stored[m] is the change of m that the object holds, 0 for none
  entry,    \* the channel's entry in the sync state
  pass,     \* where the pass stands
  skipped   \* history: posts that were older than history_days when they were listed

channel == <<now, days, created, updated>>
vars == <<channel, stored, entry, pass, skipped>>

Posts == 1 .. MaxItems
Written == {m \in Posts : created[m] # 0}
FirstDay == Max(Spans) + 1
Times == 1 .. (FirstDay + LastDay)

NoActive == [from |-> 0, to |-> 0, before |-> 0, days |-> 0, oldest |-> 0]
\* first, since and upto are history: the lowest post the live part has read without
\* a gap up to the anchor, the time from which the sweeps have seen every change, and
\* the end of the first window that was scanned.
NewEntry == [anchor |-> 0, watermark |-> 0, covered |-> 0, oldest |-> 0,
             active |-> NoActive, first |-> 0, since |-> 0, upto |-> 0]
Idle == [phase |-> "idle"]

TypeOK ==
  /\ now \in Times /\ days \in Spans
  /\ created \in [Posts -> {0} \union Times] /\ updated \in [Posts -> {0} \union Times]
  /\ \A m \in Posts : stored[m] \in {0} \union (created[m] .. updated[m])
  /\ entry.anchor \in {0} \union Posts /\ entry.oldest \in {0} \union Posts
  /\ {entry.watermark, entry.covered} \subseteq {0} \union Times
  /\ entry.active # NoActive => entry.active.from < entry.active.to
  /\ pass.phase \in {"idle", "live", "sweep", "plan", "old"}
  /\ skipped \subseteq Posts

Init ==
  /\ now = FirstDay /\ days \in Spans
  /\ created = [m \in Posts |-> 0] /\ updated = created /\ stored = created
  /\ entry = NewEntry /\ pass = Idle /\ skipped = {}

-----------------------------------------------------------------------------
(* The clock, the user and the channel.                                    *)

Tick ==
  /\ now < FirstDay + LastDay /\ now' = now + 1
  /\ UNCHANGED <<days, created, updated, stored, entry, pass, skipped>>

SetHistoryDays ==
  /\ days' \in Spans \ {days}
  /\ UNCHANGED <<now, created, updated, stored, entry, pass, skipped>>

Write ==
  /\ now < FirstDay + LastDay /\ now' = now + 1
  /\ \E m \in Posts \ Written :
       /\ m - 1 \in Written \union {0}
       /\ created' = [created EXCEPT ![m] = now']
       /\ updated' = [updated EXCEPT ![m] = now']
  /\ UNCHANGED <<days, stored, entry, pass, skipped>>

Change ==
  /\ now < FirstDay + LastDay /\ now' = now + 1
  /\ \E m \in Written : updated' = [updated EXCEPT ![m] = now']
  /\ UNCHANGED <<days, created, stored, entry, pass, skipped>>

-----------------------------------------------------------------------------
(* The live part.                                                          *)

\* The posts of a page as they are now.
Answer(page) == [m \in page |-> updated[m]]
Left == DOMAIN pass.todo

\* _upsert_post of the oldest post left, in a transaction of its own.
Store(m) == stored' = [stored EXCEPT ![m] = pass.todo[m]]
Rest(m) == [k \in Left \ {m} |-> pass.todo[k]]

\* A call to the server fails.
Failed ==
  /\ pass # Idle
  /\ pass' = Idle
  /\ UNCHANGED <<channel, stored, entry, skipped>>

\* Mutant of ListLive: the anchor moves to the end of the page that is asked for.
BugAnchorFirst ==
  /\ pass = Idle
  /\ LET page == IF entry.anchor = 0 THEN Largest(Written, Limit)
                 ELSE Smallest({m \in Written : m > entry.anchor}, Limit)
         cutoff == now - days
         recent == {m \in page : created[m] >= cutoff}
     IN pass' = [phase |-> "live", days |-> days, todo |-> Answer(recent),
                 mine |-> [entry EXCEPT
                   !.anchor = Max(recent \union {@}),
                   !.first = IF entry.anchor = 0 /\ recent # {} THEN Min(recent) ELSE @,
                   !.since = IF entry.watermark = 0 THEN cutoff ELSE @]]
  /\ UNCHANGED <<channel, stored, entry, skipped>>

\* _sync_bootstrap, or _sync_new_posts once there is an anchor.
ListLive ==
  /\ pass = Idle
  /\ LET page == IF entry.anchor = 0 THEN Largest(Written, Limit)
                 ELSE Smallest({m \in Written : m > entry.anchor}, Limit)
         cutoff == now - days
         recent == {m \in page : created[m] >= cutoff}
     IN /\ pass' = [phase |-> "live", days |-> days, todo |-> Answer(recent),
                    mine |-> [entry EXCEPT
                      !.first = IF entry.anchor = 0 /\ recent # {} THEN Min(recent) ELSE @,
                      !.since = IF entry.watermark = 0 THEN cutoff ELSE @]]
        /\ skipped' = IF entry.anchor = 0 THEN skipped ELSE skipped \union (page \ recent)
  /\ UNCHANGED <<channel, stored, entry>>

SaveLive ==
  /\ pass.phase = "live" /\ Left # {}
  /\ LET m == Min(Left)
     IN /\ Store(m)
        /\ pass' = [pass EXCEPT !.todo = Rest(m), !.mine.anchor = m]
  /\ UNCHANGED <<channel, entry, skipped>>

\* _sync_edit_sweep: what was changed since the watermark, or since the cutoff.
ListSweep ==
  /\ pass.phase = "live" /\ Left = {}
  /\ LET since == Max({pass.mine.watermark, pass.mine.since})
     IN pass' = [phase |-> "sweep", days |-> pass.days, mine |-> pass.mine, top |-> 0,
                 todo |-> Answer({m \in Written : updated[m] >= since})]
  /\ UNCHANGED <<channel, stored, entry, skipped>>

SaveSweep ==
  /\ pass.phase = "sweep" /\ Left # {}
  /\ LET m == Min(Left)
     IN /\ Store(m)
        /\ pass' = [pass EXCEPT !.todo = Rest(m), !.top = Max({@, pass.todo[m]})]
  /\ UNCHANGED <<channel, entry, skipped>>

\* _persist_sync_state, at the end of a pass of the user's or before the history part.
Persist(mine) ==
  /\ entry' = mine
  /\ pass' \in {Idle, [phase |-> "plan", days |-> pass.days, mine |-> mine]}
  /\ UNCHANGED <<channel, stored, skipped>>

\* Mutant of EndLive: the watermark moves though the budget ended the sweep.
BugSweepCutShort ==
  \/ pass.phase = "live" /\ Persist(pass.mine)
  \/ /\ pass.phase = "sweep"
     /\ Persist(IF pass.top = 0 THEN pass.mine
                ELSE [pass.mine EXCEPT !.watermark = pass.top])

\* The budget of posts may end the live part, or the sweep, early.  The watermark moves
\* when every post of the answer was processed, and the answer held some and was not
\* cut by the server: a sweep that is cut short leaves it.
EndLive ==
  \/ pass.phase \in {"live", "sweep"} /\ Persist(pass.mine)
  \/ /\ pass.phase = "sweep" /\ Left = {} /\ pass.top # 0
     /\ Persist([pass.mine EXCEPT !.watermark = pass.top])

-----------------------------------------------------------------------------
(* The history part goes on with the pass's own copy of the entry.         *)

\* reconcile_active_scan.
Reconciled(mine, wanted) ==
  IF wanted < mine.active.days THEN [mine EXCEPT !.active = NoActive] ELSE mine

\* plan_history_active_scan: there is no window for what is newer than the first scan.
Plan(mine, wanted) ==
  LET older == now - wanted < mine.covered
  IN CASE mine.active # NoActive -> mine.active
       [] mine.active = NoActive /\ mine.covered = 0 ->
            [NoActive EXCEPT !.from = now - wanted, !.to = now, !.days = wanted]
       [] mine.active = NoActive /\ mine.covered # 0 /\ older ->
            [NoActive EXCEPT !.from = now - wanted, !.to = mine.covered, !.days = wanted,
                             !.before = mine.oldest]
       [] OTHER -> NoActive

\* select_history_channel and start_active_history_range, persisted at once; then the
\* newest posts before the last page, of which those in the window are stored.
PlanHistory ==
  /\ pass.phase = "plan"
  /\ LET kept == Reconciled(pass.mine, pass.days)
         active == Plan(kept, pass.days)
         mine == [kept EXCEPT !.active = active]
         page == Largest({m \in Written : active.before = 0 \/ m < active.before}, Limit)
         inWindow == {m \in page : created[m] \in active.from .. (active.to - 1)}
     IN /\ entry' = mine
        /\ pass' = IF active = NoActive THEN Idle
                   ELSE [phase |-> "old", mine |-> mine, page |-> page,
                         window |-> inWindow, todo |-> Answer(inWindow)]
  /\ UNCHANGED <<channel, stored, skipped>>

SaveOld ==
  /\ pass.phase = "old" /\ Left # {}
  /\ LET m == Min(Left) IN Store(m) /\ pass' = [pass EXCEPT !.todo = Rest(m)]
  /\ UNCHANGED <<channel, entry, skipped>>

\* complete_active_history.
Completed(mine) ==
  IF mine.covered \notin {0, mine.active.to} THEN [mine EXCEPT !.active = NoActive]
  ELSE [mine EXCEPT !.active = NoActive, !.covered = mine.active.from,
                    !.oldest = IF mine.active.oldest # 0 THEN mine.active.oldest ELSE @,
                    !.upto = IF mine.covered = 0 THEN mine.active.to ELSE @]

\* _history_interval_complete: the page reaches below the window, or is not full.
Complete(page, from) == Cardinality(page) < Limit \/ \E m \in page : created[m] < from

\* Mutant of FinishOld: the page is done with before its posts are stored.
BugFinishOldEarly ==
  /\ pass.phase = "old"
  /\ LET mine == [pass.mine EXCEPT !.active.oldest =
                    IF pass.window = {} THEN @ ELSE Min(pass.window)]
     IN entry' = IF Complete(pass.page, mine.active.from) THEN Completed(mine)
                 ELSE [mine EXCEPT !.active.before = Min(pass.page)]
  /\ pass' = Idle
  /\ UNCHANGED <<channel, stored, skipped>>

FinishOld ==
  /\ pass.phase = "old" /\ Left = {}
  /\ LET mine == [pass.mine EXCEPT !.active.oldest =
                    IF pass.window = {} THEN @ ELSE Min(pass.window)]
     IN entry' = IF Complete(pass.page, mine.active.from) THEN Completed(mine)
                 ELSE [mine EXCEPT !.active.before = Min(pass.page)]
  /\ pass' = Idle
  /\ UNCHANGED <<channel, stored, skipped>>

-----------------------------------------------------------------------------

Next ==
  \/ Tick \/ SetHistoryDays \/ Write \/ Change \/ Failed
  \/ ListLive \/ SaveLive \/ ListSweep \/ SaveSweep \/ EndLive
  \/ PlanHistory \/ SaveOld \/ FinishOld

Spec == Init /\ [][Next]_vars

-----------------------------------------------------------------------------

\* Between the first post the live part has read and its anchor nothing is missing,
\* wherever a budget or a failure has ended a pass.  Excepted are posts that had
\* become older than history_days when they were listed.
AnchorIsReached ==
  \A m \in Posts \ skipped :
    entry.first # 0 /\ m \in entry.first .. entry.anchor => stored[m] # 0

\* What counts as scanned is never asked for again, so it has to be stored: the window
\* that is covered, and the pages that were read of the one under way.
ScannedIsStored ==
  \A m \in Written :
    LET active == entry.active
        covered == entry.covered # 0 /\ created[m] \in entry.covered .. (entry.upto - 1)
        paged == /\ created[m] \in active.from .. (active.to - 1)
                 /\ active.before # 0 /\ m >= active.before
    IN covered \/ paged => stored[m] # 0

\* A post that was written or changed before the watermark is not listed any more, so the
\* object has to hold it as it is, wherever a sweep was cut short.  Excepted are changes
\* from before the first sweep.
SweptIsCurrent ==
  \A m \in Written : updated[m] \in entry.since .. entry.watermark => stored[m] = updated[m]
=============================================================================
