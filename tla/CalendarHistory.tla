-------------------------- MODULE CalendarHistory ---------------------------
(***************************************************************************)
(* Reading the calendars of one Google account (backend/app/connectors/    *)
(* google/calendar_sync.py, calendar_history_state.py).  The live part of  *)
(* a pass goes through every calendar, from the page where the last pass   *)
(* stopped; the history part of the worker's pass scans one page of one    *)
(* calendar, in turn.  All of it is kept in one JSON value: the live part  *)
(* reads it at its start and writes it back whole at its end.              *)
(*                                                                         *)
(* Time goes in instants, a window is the set of those it holds.  The      *)
(* events and their places are there from the beginning, and a page token  *)
(* is the number of the last event listed.                                 *)
(***************************************************************************)
EXTENDS HistoryWindow

CONSTANTS
  Calendars,  \* 1 .. n, in the order Google lists them
  Placements, \* the ways the events may lie in the calendars
  AsksAgain   \* whether a user asks for more passes than one, FALSE for a bound

VARIABLES
  now,
  days,     \* the user's history_days
  place,    \* place[e] is the calendar and the time of event e
  stored,   \* the events that are objects
  state,    \* calendar_sync_state: the live chain and the history of every
            \* calendar, and the calendar whose history had its turn last
  pass,     \* pass[p] is where the worker's or the request's pass stands
  dropped   \* history: times of windows that a lower history_days cut short

vars == <<now, days, place, stored, state, pass, dropped>>

Passes == {"worker", "request"}
Events == 1 .. MaxItems
Times == Days
Past(wanted) == Desired(now - 1, wanted - 1)
Live == now - 1  \* the live window begins here and has no end

NoChain == [from |-> 0, token |-> 0]
NoHistory == [scanned |-> {}, active |-> {}, days |-> 0, token |-> 0]
Chains == [from : Times, token : 0 .. MaxItems]
Histories == [scanned : SUBSET Times, active : SUBSET Times, days : {0} \union Spans,
              token : 0 .. MaxItems]

Idle == [phase |-> "idle"]
\* The worker's next pass follows.
Over(p) == IF p = "worker" \/ AsksAgain THEN Idle ELSE [phase |-> "over"]
PassPhases == {"idle", "live", "planning", "history", "over"}

TypeOK ==
  /\ now \in 1 .. LastDay /\ days \in Spans
  /\ stored \subseteq Events /\ dropped \subseteq Calendars \X Times
  /\ state.live \in [Calendars -> Chains] /\ state.turn \in {0} \union Calendars
  /\ state.history \in [Calendars -> Histories]
  /\ \A c \in Calendars : state.history[c].active = {} => state.history[c].token = 0
  /\ \A p \in Passes : pass[p].phase \in PassPhases

Init ==
  /\ now = 1 /\ days \in Spans
  /\ place \in Placements
  /\ stored = {} /\ dropped = {}
  /\ state = [live |-> [c \in Calendars |-> NoChain],
              history |-> [c \in Calendars |-> NoHistory], turn |-> 0]
  /\ pass = [p \in Passes |-> Idle]

Move(p, phase) == pass' = [pass EXCEPT ![p] = phase]

\* list_events_page: the events of a calendar in a window, after the token.
Listed(c, window, token) ==
  {e \in Events : place[e].calendar = c /\ place[e].at \in window /\ e > token}
NextToken(listed, shown) == IF shown = listed THEN 0 ELSE Max(shown)

-----------------------------------------------------------------------------
(* The clock and the user.                                                 *)

Tick ==
  /\ now < LastDay
  /\ now' = now + 1
  /\ UNCHANGED <<days, place, stored, state, pass, dropped>>

SetHistoryDays ==
  /\ days' \in Spans \ {days}
  /\ UNCHANGED <<now, place, stored, state, pass, dropped>>

-----------------------------------------------------------------------------
(* The live part.                                                          *)

\* The pass works on a copy of the state as it is now.
Begin(p) ==
  /\ pass[p] = Idle
  /\ Move(p, [phase |-> "live", from |-> Live, mine |-> state, calendar |-> 0, todo |-> {},
              after |-> IF p = "request" THEN Over(p)
                        ELSE [phase |-> "planning", days |-> days]])
  /\ UNCHANGED <<now, days, place, stored, state, dropped>>

\* One page of the window a calendar's chain was begun with: the next page of the
\* same calendar, or the first of the next calendar when the chain has ended or the
\* calendar has had its share of the limit.
ListLive(p) ==
  /\ pass[p].phase = "live" /\ pass[p].todo = {}
  /\ \E c \in Calendars \cap {pass[p].calendar, pass[p].calendar + 1} :
       LET chain == pass[p].mine.live[c]
           from == IF chain.token = 0 THEN pass[p].from ELSE chain.from
           listed == Listed(c, {t \in Times : t >= from}, chain.token)
           shown == Smallest(listed, Limit)
           next == NextToken(listed, shown)
       IN /\ c = pass[p].calendar => chain # NoChain
          /\ Move(p, [pass[p] EXCEPT
               !.calendar = c, !.todo = shown \ stored,
               !.mine.live[c] = IF next = 0 THEN NoChain
                                ELSE [from |-> from, token |-> next]])
  /\ UNCHANGED <<now, days, place, stored, state, dropped>>

\* _materialize_calendar_events: one event, in a transaction of its own.
Save(p) ==
  /\ pass[p].phase \in {"live", "history"}
  /\ \E e \in pass[p].todo :
       /\ stored' = stored \union {e}
       /\ Move(p, [pass[p] EXCEPT !.todo = @ \ {e}])
  /\ UNCHANGED <<now, days, place, state, dropped>>

\* Mutant of EndLive: the copy is written back before its last page is stored.
BugEndLiveEarly(p) ==
  /\ pass[p].phase = "live" /\ pass[p].calendar # 0
  /\ state' = pass[p].mine
  /\ Move(p, pass[p].after)
  /\ UNCHANGED <<now, days, place, stored, dropped>>

\* Every calendar has had its turn, or nothing is left of the limit for the others:
\* the copy becomes the state, the history in it too.
EndLive(p) ==
  /\ pass[p].phase = "live" /\ pass[p].calendar # 0 /\ pass[p].todo = {}
  /\ state' = pass[p].mine
  /\ Move(p, pass[p].after)
  /\ UNCHANGED <<now, days, place, stored, dropped>>

\* Any call to Google fails, or the unique index refuses an event.
Fail(p) ==
  /\ pass[p] # Idle /\ pass[p] # Over(p)
  /\ Move(p, Over(p))
  /\ UNCHANGED <<now, days, place, stored, state, dropped>>

-----------------------------------------------------------------------------
(* The history part.                                                       *)

\* Mutant of Cleared: the page token stays.
BugCleared(h) == [h EXCEPT !.active = {}, !.days = 0]

Cleared(h) == [h EXCEPT !.active = {}, !.days = 0, !.token = 0]

\* reconcile_active_window: a window planned for more days than are wanted goes.
Reconciled(h, wanted) == IF h.active # {} /\ wanted < h.days THEN Cleared(h) ELSE h

Window(h, wanted) == IF h.active # {} THEN h.active ELSE Planned(h.scanned, Past(wanted))
Turn(c) == (c - state.turn - 1 + Cardinality(Calendars)) % Cardinality(Calendars)

\* The first calendar, in turn, that has a window: reconcile_discovered_calendars,
\* select_history_calendar and start_active_window.  They are committed before Google
\* is asked for the page; nothing that happens in between changes the answer.
PlanHistory ==
  /\ pass["worker"].phase = "planning"
  /\ LET wanted == pass["worker"].days
         h == [c \in Calendars |-> Reconciled(state.history[c], wanted)]
         due == {c \in Calendars : Window(h[c], wanted) # {}}
         given == {x \in Calendars \X Times :
                     x[2] \in state.history[x[1]].active /\ h[x[1]].active = {}}
     IN \/ /\ due = {}
           /\ state' = [state EXCEPT !.history = h]
           /\ dropped' = dropped \union given
           /\ Move("worker", Idle)
        \/ \E c \in due :
             LET window == Window(h[c], wanted)
                 begins == h[c].active = {}
                 listed == Listed(c, window, h[c].token)
                 shown == Smallest(listed, Limit)
             IN /\ \A other \in due : Turn(c) <= Turn(other)
                /\ state' = [state EXCEPT !.history =
                     IF begins THEN [h EXCEPT ![c].active = window, ![c].days = wanted] ELSE h]
                /\ dropped' = (dropped \union given)
                              \ (IF begins THEN {c} \X window ELSE {})
                /\ Move("worker", [phase |-> "history", calendar |-> c, window |-> window,
                                   todo |-> shown \ stored, next |-> NextToken(listed, shown)])
  /\ UNCHANGED <<now, days, place, stored>>

\* Mutant of FinishHistory: the token moves on before the page is stored.
BugFinishEarly ==
  /\ pass["worker"].phase = "history"
  /\ LET c == pass["worker"].calendar
         h == state.history[c]
         advanced ==
           CASE h.active = {} -> h
             [] h.active # {} /\ pass["worker"].next # 0 ->
                  [h EXCEPT !.active = pass["worker"].window, !.token = pass["worker"].next]
             [] OTHER -> Cleared([h EXCEPT !.scanned =
                                    Extended(h.scanned, h.active, h.scanned)])
     IN state' = [state EXCEPT !.history[c] = advanced, !.turn = c]
  /\ Move("worker", Idle)
  /\ UNCHANGED <<now, days, place, stored, dropped>>

\* persist_active_page_token or complete_active_window, on the history as it is by
\* then, committed with the job.
FinishHistory ==
  /\ pass["worker"].phase = "history" /\ pass["worker"].todo = {}
  /\ LET c == pass["worker"].calendar
         h == state.history[c]
         advanced ==
           CASE h.active = {} -> h
             [] h.active # {} /\ pass["worker"].next # 0 ->
                  [h EXCEPT !.active = pass["worker"].window, !.token = pass["worker"].next]
             [] OTHER -> Cleared([h EXCEPT !.scanned =
                                    Extended(h.scanned, h.active, h.scanned)])
     IN state' = [state EXCEPT !.history[c] = advanced, !.turn = c]
  /\ Move("worker", Idle)
  /\ UNCHANGED <<now, days, place, stored, dropped>>

-----------------------------------------------------------------------------

PassStep(p) == Begin(p) \/ ListLive(p) \/ Save(p) \/ EndLive(p)

Next ==
  \/ Tick \/ SetHistoryDays
  \/ \E p \in Passes : PassStep(p) \/ Fail(p)
  \/ PlanHistory \/ FinishHistory

Spec == Init /\ [][Next]_vars

-----------------------------------------------------------------------------

\* What counts as scanned is never asked for again, so it has to be stored, whatever
\* copy of the state a request writes back while the worker scans: that may undo
\* progress, not claim some.  Excepted are the times of windows that a lower
\* history_days cut short: a request that began before can bring such a window back
\* while the worker scans another one, and the worker then takes it for its own.
ScannedIsStored ==
  \A e \in Events :
    LET h == state.history[place[e].calendar]
        at == place[e].at
    IN \/ e \in stored
       \/ <<place[e].calendar, at>> \in dropped
       \/ at \notin h.scanned \union h.active
       \/ at \in h.active /\ e > h.token

\* The live chain goes on where it says, and leaves nothing out before.
ChainIsStored ==
  \A e \in Events :
    LET chain == state.live[place[e].calendar]
    IN place[e].at >= chain.from /\ e <= chain.token => e \in stored
=============================================================================
