--------------------------- MODULE YandexCalendar ---------------------------
(***************************************************************************)
(* Reading one Yandex calendar over CalDAV (backend/app/connectors/yandex/ *)
(* calendar_sync.py, calendar_history_state.py).  A calendar is first      *)
(* scanned slice by slice; then a sync token tells what has changed; the   *)
(* worker's passes extend the scan into the past.  The token was taken     *)
(* before the first slice, so that what changes during the scan comes      *)
(* again with the first changes.                                           *)
(*                                                                         *)
(* Passes follow each other here.  A pass works on a copy of the entry     *)
(* and writes it back; events are stored one by one on the way, and the    *)
(* budget of a pass may end after any of them.  Only events that lie ahead *)
(* are edited.                                                             *)
(***************************************************************************)
EXTENDS HistoryWindow

CONSTANTS
  Ahead,       \* days_forward
  Slice,       \* days of a slice
  Placements,  \* the times the events may have
  MaxEdits     \* bound

VARIABLES
  now,
  days,     \* the user's history_days
  at,       \* at[e] is the time of event e
  changed,  \* changed[e] is the revision of the calendar that changed e last
  rev,      \* the calendar's revision, which is what a sync token stands for
  stored,   \* stored[e] is the revision of e that is an object, 0 for none
  entry,    \* the calendar's entry in the sync state
  pass,     \* where the pass stands
  chain,    \* history: the time the initial scan under way has left nothing out since
  gap       \* history: events of the covered window that no pass asked for, or that an
            \*   answer the server had cut short left out

calendar == <<now, days, at, changed, rev>>
vars == <<calendar, stored, entry, pass, chain, gap>>

Events == 1 .. MaxItems
Never == 0 - Max(Spans) - 1  \* before every other moment
NoRange == [from |-> Never, to |-> Never, cursor |-> Never, days |-> 0]
NewEntry == [token |-> 0, pending |-> 0, cursor |-> Never, start |-> Never, end |-> Never,
             range |-> NoRange]
Idle == [phase |-> "idle"]
Phases == {"idle", "open", "main", "changes", "slice", "done", "plan", "old"}
Moments == {Never} \union ((0 - Max(Spans)) .. (LastDay + Ahead))

TypeOK ==
  /\ now \in 0 .. LastDay /\ days \in Spans /\ rev \in 1 .. MaxEdits + 1
  /\ changed \in [Events -> 1 .. rev] /\ stored \in [Events -> 0 .. rev]
  /\ entry.token \in 0 .. rev /\ entry.pending \in 0 .. rev
  /\ {entry.cursor, entry.start, entry.end, entry.range.cursor} \subseteq Moments
  /\ entry.range # NoRange => entry.range.from < entry.range.to
  /\ pass.phase \in Phases /\ chain \in Moments /\ gap \subseteq Events

Init ==
  /\ now = 0 /\ days \in Spans /\ at \in Placements
  /\ rev = 1 /\ changed = [e \in Events |-> 1]
  /\ stored = [e \in Events |-> 0]
  /\ entry = NewEntry /\ pass = Idle
  /\ chain = Never /\ gap = {}

-----------------------------------------------------------------------------
(* The clock, the user and the calendar.                                   *)

Tick ==
  /\ now < LastDay /\ now' = now + 1
  /\ UNCHANGED <<days, at, changed, rev, stored, entry, pass, chain, gap>>

SetHistoryDays ==
  /\ days' \in Spans \ {days}
  /\ UNCHANGED <<now, at, changed, rev, stored, entry, pass, chain, gap>>

Edit ==
  /\ rev <= MaxEdits
  /\ rev' = rev + 1
  /\ \E e \in Events : at[e] >= now /\ changed' = [changed EXCEPT ![e] = rev + 1]
  /\ UNCHANGED <<now, days, at, stored, entry, pass, chain, gap>>

-----------------------------------------------------------------------------
(* Steps every kind of query has in common.                                *)

Between(from, to) == {e \in Events : at[e] >= from /\ at[e] < to}

\* The server answers with the events of a set as they are now.
Answer(which) == [e \in which |-> changed[e]]

\* A calendar-query may be answered with a part of its events and status 507, which the
\* transport reports as provider_truncated.  Only the refresh of the next events looks at it.
LeftOut(from, to) == Between(from, to) \ DOMAIN pass.answer

\* _apply_fetch_batch: the budget, or a failure, may leave some of an answer out.
Applied(answer, done) ==
  [e \in Events |-> IF e \in done THEN answer[e] ELSE stored[e]]

SliceEnd(cursor, to) == Min({cursor + Slice, to})

\* A day is looked at twice where two slices meet, if that moves on at all.
NextSlice(cursor, end) == IF end - 1 > cursor THEN end - 1 ELSE end

\* What a pass goes on with when an answer has been dealt with.
Live(phase, mine) ==
  [pass EXCEPT !.phase = phase, !.mine = mine, !.answer = Answer({}), !.end = Never]

Failed ==
  /\ pass # Idle
  /\ pass' = Idle
  /\ UNCHANGED <<calendar, stored, entry, chain, gap>>

-----------------------------------------------------------------------------
(* The live part.                                                          *)

\* load_sync_snapshot, _sync_window and discover_calendars.
Begin ==
  /\ pass = Idle
  /\ \E worker \in BOOLEAN :
       pass' = [phase |-> "open", worker |-> worker, days |-> days, from |-> now - days,
                to |-> now + Ahead, seen |-> rev, mine |-> entry, chain |-> chain,
                answer |-> Answer({}), end |-> Never]
  /\ UNCHANGED <<calendar, stored, entry, chain, gap>>

\* _sync_operational_calendar: events from yesterday on, as far as the budget goes.
Refresh ==
  /\ pass.phase = "open"
  /\ \E done \in SUBSET Between(now - 1, pass.to) : stored' = Applied(Answer(Events), done)
  /\ \E phase \in {"main", "done"} : pass' = Live(phase, pass.mine)
  /\ UNCHANGED <<calendar, entry, chain, gap>>

\* sync_collection: what has changed since the token, within the window.
FetchChanges ==
  /\ pass.phase = "main" /\ pass.mine.token # 0
  /\ LET which == {e \in Between(pass.from, pass.to) : changed[e] > pass.mine.token}
     IN pass' = [pass EXCEPT !.phase = "changes", !.seen = rev, !.answer = Answer(which)]
  /\ UNCHANGED <<calendar, stored, entry, chain, gap>>

Moved == [pass.mine EXCEPT !.token = pass.seen]

\* Mutant of ApplyChanges: the token moves on whatever was applied.
BugTokenMovesOn ==
  /\ pass.phase = "changes"
  /\ \E done \in SUBSET DOMAIN pass.answer :
       /\ stored' = Applied(pass.answer, done)
       /\ pass' = Live("done", Moved)
  /\ UNCHANGED <<calendar, entry, chain, gap>>

\* The token moves on when all of the answer is applied, and the pass may ask again; an
\* event that lies before the window of the pass was no part of the answer.
ApplyChanges ==
  /\ pass.phase = "changes"
  /\ \E done \in SUBSET DOMAIN pass.answer :
       /\ stored' = Applied(pass.answer, done)
       /\ \/ /\ done # DOMAIN pass.answer
             /\ pass' = Live("done", pass.mine)
             /\ UNCHANGED gap
          \/ /\ done = DOMAIN pass.answer
             /\ \E phase \in {"main", "done"} :
                  /\ phase = "main" => done # {}
                  /\ pass' = Live(phase, Moved)
             /\ gap' = gap \union {e \in Between(pass.mine.start, pass.from) :
                                   changed[e] > pass.mine.token}
  /\ UNCHANGED <<calendar, entry, chain>>

\* The server does not know the token any more: clear_stale_reset_coverage, committed
\* before the scan begins anew in the same pass.
TokenIsStale ==
  /\ pass.phase = "main" /\ pass.mine.token # 0
  /\ LET reset == [NewEntry EXCEPT !.cursor = pass.from]
     IN /\ entry' = reset
        /\ pass' = [pass EXCEPT !.mine = reset, !.seen = 0, !.chain = pass.from]
  /\ chain' = pass.from
  /\ UNCHANGED <<calendar, stored, gap>>

\* _sync_backfill_calendar and _run_bounded_reconciliation: the next slice.  The token
\* to use later is the one that was seen before the first.
FetchSlice ==
  /\ pass.phase = "main" /\ pass.mine.token = 0
  /\ LET cursor == Max({pass.mine.cursor, pass.from})
         end == SliceEnd(cursor, pass.to)
         seen == IF pass.seen = 0 THEN rev ELSE pass.seen
         mine == [pass.mine EXCEPT !.pending = IF @ = 0 THEN seen ELSE @, !.cursor = cursor]
     IN \E told \in SUBSET Between(cursor, end) :
          pass' = [pass EXCEPT !.phase = "slice", !.mine = mine, !.end = end,
                     !.chain = IF pass.mine.cursor < pass.from THEN pass.from ELSE @,
                     !.answer = Answer(told)]
  /\ UNCHANGED <<calendar, stored, entry, chain, gap>>

\* Events the budget leaves over end the pass; a slice whose answer is applied is passed,
\* whether the server had cut the answer short or not.  mark_initial_coverage_complete claims the
\* window of this pass, though more history_days than the scan had begun with may have
\* it begin before the scan did.
ApplySlice ==
  /\ pass.phase = "slice"
  /\ \E done \in SUBSET DOMAIN pass.answer :
       /\ stored' = Applied(pass.answer, done)
       /\ \/ /\ done # DOMAIN pass.answer
             /\ pass' = Live("done", pass.mine)
             /\ UNCHANGED gap
          \/ /\ done = DOMAIN pass.answer /\ pass.end < pass.to
             /\ \E phase \in {"main", "done"} :
                  pass' = Live(phase, [pass.mine EXCEPT !.cursor = NextSlice(@, pass.end)])
             /\ gap' = gap \union LeftOut(pass.mine.cursor, pass.end)
          \/ /\ done = DOMAIN pass.answer /\ pass.end >= pass.to
             /\ pass' = Live("done", [pass.mine EXCEPT
                          !.token = pass.mine.pending, !.pending = 0, !.cursor = Never,
                          !.start = pass.from, !.end = pass.to])
             /\ gap' = gap \union LeftOut(pass.mine.cursor, pass.end)
                            \union Between(pass.from, pass.chain)
  /\ UNCHANGED <<calendar, entry, chain>>

\* _persist_calendar_state.
EndLive ==
  /\ pass.phase = "done"
  /\ entry' = pass.mine
  /\ chain' = pass.chain
  /\ pass' = IF pass.worker THEN [phase |-> "plan", days |-> pass.days] ELSE Idle
  /\ UNCHANGED <<calendar, stored, gap>>

-----------------------------------------------------------------------------
(* The history part.  Nobody else writes the entry meanwhile.              *)

Kept(range, wanted) == IF wanted < range.days THEN NoRange ELSE range

\* plan_history_active_range: the days before what is covered, or all of them.
NextRange(wanted) ==
  LET to == IF entry.start = Never THEN now ELSE entry.start
  IN IF now - wanted < to
     THEN [from |-> now - wanted, to |-> to, cursor |-> Never, days |-> wanted]
     ELSE NoRange

\* reconcile_active_history_range, start_active_history_range, committed, and the next
\* slice of the range.
PlanHistory ==
  /\ pass.phase = "plan"
  /\ LET kept == Kept(entry.range, pass.days)
         range == IF kept = NoRange THEN NextRange(pass.days) ELSE kept
         cursor == Max({range.cursor, range.from})
         end == SliceEnd(cursor, range.to)
     IN /\ entry' = [entry EXCEPT !.range = range]
        /\ IF range = NoRange THEN pass' = Idle
           ELSE \E told \in SUBSET Between(cursor, end) :
                  pass' = [phase |-> "old", cursor |-> cursor, end |-> end,
                           answer |-> Answer(told)]
  /\ UNCHANGED <<calendar, stored, chain, gap>>

\* complete_active_history_range: a range that ends where the coverage begins extends it.
Extends(range) ==
  IF entry.start = Never THEN entry.end = Never \/ range.to <= entry.end
  ELSE range.to = entry.start

\* Mutant of ApplyHistory: a slice counts as scanned though the budget left some over.
BugHistoryAnyway ==
  /\ pass.phase = "old"
  /\ \E done \in SUBSET DOMAIN pass.answer :
       /\ stored' = Applied(pass.answer, done)
       /\ entry' = IF pass.end >= entry.range.to
                   THEN [entry EXCEPT !.start = IF Extends(entry.range) THEN entry.range.from
                                                ELSE @]
                   ELSE [entry EXCEPT !.range.cursor = NextSlice(pass.cursor, pass.end)]
  /\ gap' = gap \union LeftOut(pass.cursor, pass.end)
  /\ pass' = Idle
  /\ UNCHANGED <<calendar, chain>>

\* The range itself stays in the entry when it is complete: what
\* complete_active_history_range takes out, _merge_stored_calendar_entry puts back.
ApplyHistory ==
  /\ pass.phase = "old"
  /\ \E done \in SUBSET DOMAIN pass.answer :
       /\ stored' = Applied(pass.answer, done)
       /\ entry' = CASE done # DOMAIN pass.answer ->
                          [entry EXCEPT !.range.cursor = pass.cursor]
                     [] done = DOMAIN pass.answer /\ pass.end >= entry.range.to ->
                          [entry EXCEPT !.start = IF Extends(entry.range)
                                                  THEN entry.range.from ELSE @]
                     [] OTHER ->
                          [entry EXCEPT !.range.cursor = NextSlice(pass.cursor, pass.end)]
       /\ gap' = IF done = DOMAIN pass.answer
                 THEN gap \union LeftOut(pass.cursor, pass.end) ELSE gap
  /\ pass' = Idle
  /\ UNCHANGED <<calendar, chain>>

-----------------------------------------------------------------------------

Next ==
  \/ Tick \/ SetHistoryDays \/ Edit \/ Failed
  \/ Begin \/ Refresh \/ FetchChanges \/ ApplyChanges \/ TokenIsStale
  \/ FetchSlice \/ ApplySlice \/ EndLive
  \/ PlanHistory \/ ApplyHistory

Spec == Init /\ [][Next]_vars

-----------------------------------------------------------------------------

\* An event of the covered window is not asked for again unless it changes after the
\* token: what changed by then has to be stored as it was then, however the scan was
\* cut into passes, with whatever was edited while it ran and however passes failed.
\* Excepted are the times a scan claims that was continued with more history_days
\* than it had begun with, an event whose change no pass asked for before the window of
\* the passes had left the event behind, and what an answer the server had cut short
\* left out of a slice that was passed nevertheless.
CoveredIsCurrent ==
  entry.token # 0 /\ entry.end # Never =>
    \A e \in Between(entry.start, entry.end) :
      e \in gap \/ changed[e] > entry.token \/ stored[e] >= changed[e]

\* test_final_history_step_establishes_covered_window_start says of the step that
\* moves the start of the coverage: state.get("history_backfill_start") is None.
CompletionEndsTheRange ==
  [][pass.phase = "old" /\ entry'.start # entry.start => entry'.range = NoRange]_vars
=============================================================================
