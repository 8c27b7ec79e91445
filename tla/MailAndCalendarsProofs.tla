---------------------- MODULE MailAndCalendarsProofs ----------------------
(***************************************************************************)
(* Proofs about the mail and calendar connectors: what a Gmail or Yandex   *)
(* mailbox, a Google calendar and a Yandex calendar call processed,        *)
(* scanned or covered is stored, for every page size, slice, history_days  *)
(* and bound on days, events and edits, whatever is refused and however    *)
(* the worker's passes and a request's interleave.                         *)
(*                                                                         *)
(* Inv (Gmail), ImapInv, GoogleInv and YandexInv are the inductive         *)
(* invariants; each says of the state a pass holds (its copy, its page,    *)
(* its listing) what it will be true to write back.                        *)
(***************************************************************************)
EXTENDS MCMailAndCalendars, PagesProofs

-----------------------------------------------------------------------------
(* Windows.                                                                *)

\* No gaps.
IsWindow(S) == \E a, b \in Int : S = a .. b

LEMMA WindowEnds ==
  ASSUME NEW S, IsWindow(S), S # {}
  PROVE  /\ S \subseteq Int /\ Min(S) \in S /\ Max(S) \in S
         /\ S = Min(S) .. Max(S)
<1>1. S \in SUBSET Int /\ IsFiniteSet(S)
  BY FS_Interval DEF IsWindow
<1>2. PICK a, b \in Int : S = a .. b
  BY DEF IsWindow
<1>3. /\ Min(S) \in S /\ \A y \in S : Min(S) <= y
      /\ Max(S) \in S /\ \A y \in S : Max(S) >= y
  BY <1>1, MinIsLeast, MaxIsGreatest
<1>4. a \in S /\ b \in S
  BY <1>2
<1> QED  BY <1>1, <1>2, <1>3, <1>4

\* The next window to scan has no day that was scanned.
LEMMA PlannedIsApart ==
  ASSUME NEW W, IsWindow(W), NEW desired, IsWindow(desired), desired # {}
  PROVE  /\ IsWindow(Planned(W, desired))
         /\ Planned(W, desired) \intersect W = {}
<1>1. Min(desired) \in Int /\ Max(desired) \in Int
  BY WindowEnds
<1>2. CASE W = {}
  BY <1>2 DEF Planned
<1>3. CASE W # {}
  <2>1. /\ Min(W) \in Int /\ Max(W) \in Int
        /\ W = Min(W) .. Max(W)
    BY <1>3, WindowEnds
  <2> DEFINE older == Min(desired) .. (Min(W) - 1)
             newer == (Max(W) + 1) .. Max(desired)
  <2>2. IsWindow(older) /\ IsWindow(newer)
    BY <1>1, <2>1 DEF IsWindow
  <2>3. older \intersect W = {} /\ newer \intersect W = {}
    BY <1>1, <2>1
  <2>4. Planned(W, desired) \in {older, newer}
    BY <1>3 DEF Planned
  <2> HIDE DEF older, newer
  <2> QED  BY <2>2, <2>3, <2>4
<1> QED  BY <1>2, <1>3

\* What counts as scanned afterwards has no gaps and is nothing new.
LEMMA ExtendedIsWindow ==
  ASSUME NEW W, IsWindow(W), NEW V, IsWindow(V), V # {}, NEW apart, IsWindow(apart)
  PROVE  /\ IsWindow(Extended(W, V, apart))
         /\ Extended(W, V, apart) \subseteq W \union V \union apart
<1>1. CASE W = {} \/ ~ Touch(W, V)
  BY <1>1 DEF Extended
<1>2. CASE W # {} /\ Touch(W, V)
  <2>1. /\ Min(W) \in Int /\ Max(W) \in Int
        /\ W = Min(W) .. Max(W)
        /\ Min(W) <= Max(W)
    BY <1>2, WindowEnds
  <2>2. /\ Min(V) \in Int /\ Max(V) \in Int
        /\ V = Min(V) .. Max(V)
        /\ Min(V) <= Max(V)
    BY WindowEnds
  <2>3. \/ W \union V = Min(W) .. Max(V)
        \/ W \union V = Min(V) .. Max(W)
    <3>1. PICK a, b, c, d \in Int :
            /\ W = a .. b /\ V = c .. d /\ a <= b /\ c <= d
            /\ Min(W) = a /\ Max(W) = b /\ Min(V) = c /\ Max(V) = d
      BY <2>1, <2>2
    <3>2. b + 1 = c \/ d + 1 = a
      BY <1>2, <3>1 DEF Touch
    <3>3. CASE b + 1 = c
      <4>1. (a .. b) \union (c .. d) = a .. d
        BY <3>1, <3>3
      <4> QED  BY <3>1, <4>1
    <3>4. CASE d + 1 = a
      <4>1. (a .. b) \union (c .. d) = c .. b
        BY <3>1, <3>4
      <4> QED  BY <3>1, <4>1
    <3> QED  BY <3>2, <3>3, <3>4
  <2>4. IsWindow(W \union V)
    BY <2>1, <2>2, <2>3 DEF IsWindow
  <2> QED  BY <1>2, <2>4 DEF Extended
<1> QED  BY <1>1, <1>2

-----------------------------------------------------------------------------
(* Scanned days.                                                           *)

\* Days that count as scanned have no gaps and are not scanned again.
WindowsApart ==
  /\ IsWindow(scanned) /\ IsWindow(active)
  /\ scanned \intersect active = {}

\* What the worker's pass knows of the active window while it reads a page of it:
\* a message it will have passed over is stored, on the page or older than the page.
AtHand(state) ==
  /\ state.phase \in {"listing", "page"} => state.window = active /\ active # {}
  /\ state.phase = "page" =>
       \A m \in Messages \ late :
         inbox[m] \in active /\ (token = 0 \/ m < token) =>
           \/ m \in stored \union state.todo
           \/ state.next # 0 /\ m < state.next

\* Only messages of the mailbox are fetched.
Listed(state) == state.phase \in {"live", "page"} => state.todo \subseteq Messages

Inv ==
  /\ TypeOK /\ pass \in [Passes -> PassStates] /\ \A p \in Passes : Listed(pass[p])
  /\ WindowsApart /\ AtHand(pass["worker"]) /\ ScannedIsStored

-----------------------------------------------------------------------------
(* The windows.                                                            *)

LEMMA SpansBounded == Max(Spans) \in Nat /\ \A n \in Spans : n \in Nat /\ n <= Max(Spans)
<1>1. Spans \in SUBSET Int /\ IsFiniteSet(Spans) /\ Spans # {}
  BY HistoryAssumption
<1>2. Max(Spans) \in Spans /\ \A n \in Spans : Max(Spans) >= n
  BY <1>1, MaxIsGreatest
<1>3. \A n \in Spans : n \in Nat
  BY HistoryAssumption
<1> QED  BY <1>2, <1>3

LEMMA DesiredWindow ==
  ASSUME NEW t \in 0 .. LastDay, NEW n \in Spans
  PROVE  /\ IsWindow(Desired(t, n)) /\ Desired(t, n) # {}
         /\ Desired(t, n) \subseteq Days
<1>1. n \in Nat /\ n <= Max(Spans) /\ Max(Spans) \in Nat /\ LastDay \in Nat
  BY SpansBounded, HistoryAssumption
<1>2. t \in Int /\ t - n \in Int
  BY <1>1
<1>3. IsWindow(Desired(t, n))
  BY <1>2 DEF IsWindow, Desired
<1>4. Desired(t, n) # {}
  <2>1. t \in (t - n) .. t
    BY <1>1
  <2> QED  BY <2>1 DEF Desired
<1>5. Desired(t, n) \subseteq Days
  BY <1>1 DEF Desired, Days
<1> QED  BY <1>3, <1>4, <1>5

LEMMA PlannedWithin ==
  ASSUME NEW a \in Int, NEW b \in Int, NEW s \in SUBSET (a .. b), IsWindow(s),
         NEW desired \in SUBSET (a .. b), IsWindow(desired), desired # {}
  PROVE  Planned(s, desired) \subseteq a .. b
<1>1. Min(desired) \in a .. b /\ Max(desired) \in a .. b
  BY WindowEnds
<1>2. CASE s = {}
  BY <1>2 DEF Planned
<1>3. CASE s # {}
  <2>1. Min(s) \in a .. b /\ Max(s) \in a .. b
    BY <1>3, WindowEnds
  <2>2. /\ Min(desired) .. (Min(s) - 1) \subseteq a .. b
        /\ (Max(s) + 1) .. Max(desired) \subseteq a .. b
    BY <1>1, <2>1
  <2> QED  BY <1>3, <2>2 DEF Planned
<1> QED  BY <1>2, <1>3

LEMMA PlannedInDays ==
  ASSUME NEW s \in SUBSET Days, IsWindow(s),
         NEW desired \in SUBSET Days, IsWindow(desired), desired # {}
  PROVE  Planned(s, desired) \subseteq Days
<1>1. 0 - Max(Spans) \in Int /\ LastDay \in Int
  BY SpansBounded, HistoryAssumption
<1> QED  BY <1>1, PlannedWithin DEF Days

-----------------------------------------------------------------------------
(* The initial states and the steps.                                       *)

LEMMA InvInit == Init => Inv
<1> SUFFICES ASSUME Init PROVE Inv
  OBVIOUS
<1>1. /\ inbox = <<>> /\ DOMAIN inbox = {} /\ Len(inbox) = 0
      /\ LastDay \in Nat /\ MaxItems \in Nat
  BY HistoryAssumption DEF Init
<1>2. IsWindow({})
  <2>1. {} = 1 .. 0
    OBVIOUS
  <2> QED  BY <2>1 DEF IsWindow
<1>3. pass \in [Passes -> PassStates] /\ \A p \in Passes : pass[p] = Idle
  BY DEF Init, PassStates
<1>4. pass["worker"].phase = "idle" /\ pass["request"].phase = "idle"
  BY <1>3 DEF Idle, Passes
<1>5. TypeOK
  BY <1>1, <1>3, <1>4 DEF Init, TypeOK, Messages, Numbers
<1>6. WindowsApart
  BY <1>2 DEF Init, WindowsApart
<1>7. AtHand(pass["worker"])
  BY <1>4 DEF AtHand
<1>8. ScannedIsStored
  BY <1>1 DEF ScannedIsStored, Messages
<1>9. \A p \in Passes : Listed(pass[p])
  BY <1>3 DEF Listed, Idle
<1> QED  BY <1>3, <1>5, <1>6, <1>7, <1>8, <1>9 DEF Inv
\* A pass only moves between its own stages.
LEMMA MoveKeepsOthers ==
  ASSUME pass \in [Passes -> PassStates], NEW p \in Passes, NEW state \in PassStates,
         Move(p, state)
  PROVE  /\ pass' \in [Passes -> PassStates] /\ pass'[p] = state
         /\ \A q \in Passes \ {p} : pass'[q] = pass[q]
BY DEF Move

\* The clock and the user leave what a scan relies on alone.
LEMMA SurroundingsStep ==
  ASSUME Inv, NextDay \/ SetHistoryDays \/ UNCHANGED vars
  PROVE  Inv'
<1>1. UNCHANGED <<inbox, stored, scanned, active, token, pass, late>>
  BY DEF NextDay, SetHistoryDays, vars
<1>2. today' \in 0 .. LastDay /\ days' \in Spans
  <2>1. LastDay \in Nat /\ today \in 0 .. LastDay /\ days \in Spans
    BY HistoryAssumption DEF Inv, TypeOK
  <2> QED  BY <2>1 DEF NextDay, SetHistoryDays, vars
<1>3. TypeOK'
  BY <1>1, <1>2 DEF Inv, TypeOK, Messages
<1> QED  BY <1>1, <1>3 DEF Inv, WindowsApart, AtHand, Listed, ScannedIsStored, Messages

LEMMA ArriveStep ==
  ASSUME Inv, Arrive
  PROVE  Inv'
<1>1. UNCHANGED <<today, days, stored, scanned, active, token, pass>>
  BY DEF Arrive
<1>2. /\ Len(inbox) \in Nat /\ Len(inbox) < MaxItems /\ inbox \in Seq(0 .. LastDay)
      /\ today \in 0 .. LastDay /\ stored \subseteq Messages /\ late \subseteq Messages
      /\ MaxItems \in Nat /\ inbox' = Append(inbox, today)
  BY HistoryAssumption DEF Inv, TypeOK, Arrive
<1> DEFINE new == Len(inbox) + 1
<1>3. /\ inbox' \in Seq(0 .. LastDay) /\ Len(inbox') = new /\ Messages = 1 .. Len(inbox)
      /\ Messages' = Messages \union {new} /\ inbox'[new] = today
      /\ \A m \in Messages : inbox'[m] = inbox[m]
  BY <1>2 DEF Messages
<1>4. late' = IF today \in scanned \union active THEN late \union {new} ELSE late
  BY DEF Arrive
<1> HIDE DEF new
<1>5. new <= MaxItems
  BY <1>2 DEF new
<1>6. TypeOK'
  <2>1. stored \subseteq Messages' /\ late' \subseteq Messages'
    BY <1>2, <1>3, <1>4
  <2> QED  BY <1>1, <1>3, <1>5, <2>1 DEF Inv, TypeOK
<1>7. \A m \in Messages' \ late' :
        \/ m \in Messages \ late /\ inbox'[m] = inbox[m]
        \/ inbox'[m] \notin scanned \union active
  BY <1>3, <1>4
<1>8. AtHand(pass["worker"])'
  BY <1>1, <1>7 DEF Inv, AtHand
<1>9. ScannedIsStored'
  BY <1>1, <1>7 DEF Inv, ScannedIsStored
<1>10. \A p \in Passes : Listed(pass[p])'
  BY <1>1, <1>3 DEF Inv, Listed
<1> QED  BY <1>1, <1>6, <1>8, <1>9, <1>10 DEF Inv, WindowsApart
-----------------------------------------------------------------------------
(* A pass outside its page.                                                *)

LEMMA QuietStep ==
  ASSUME Inv, NEW p \in Passes, NEW state \in PassStates, Move(p, state),
         state.phase \notin {"listing", "page"},
         p = "request" => state.phase \in {"idle", "begun", "live"}, Listed(state),
         UNCHANGED <<today, days, inbox, stored, scanned, active, token, late>>
  PROVE  Inv'
<1>1. /\ pass' \in [Passes -> PassStates] /\ pass'[p] = state
      /\ \A q \in Passes \ {p} : pass'[q] = pass[q]
  BY MoveKeepsOthers DEF Inv
<1>2. pass'["request"].phase \in {"idle", "begun", "live"}
  BY <1>1 DEF Inv, TypeOK, Passes
<1>3. TypeOK'
  BY <1>1, <1>2 DEF Inv, TypeOK, Messages
<1>4. AtHand(pass["worker"])'
  <2>1. CASE p = "worker"
    BY <1>1, <2>1 DEF AtHand
  <2>2. CASE p # "worker"
    <3>1. pass'["worker"] = pass["worker"]
      BY <1>1, <2>2 DEF Passes
    <3> QED  BY <3>1 DEF Inv, AtHand, Messages
  <2> QED  BY <2>1, <2>2
<1>5. \A q \in Passes : Listed(pass[q])'
  BY <1>1 DEF Inv, Listed, Messages
<1> QED  BY <1>1, <1>3, <1>4, <1>5 DEF Inv, WindowsApart, ScannedIsStored, Messages

LEMMA MessagesAreNumbers == Inv => Messages \subseteq Numbers \ {0} /\ IsFiniteSet(Messages)
<1> SUFFICES ASSUME Inv PROVE Messages \subseteq Numbers \ {0} /\ IsFiniteSet(Messages)
  OBVIOUS
<1>1. /\ inbox \in Seq(0 .. LastDay) /\ Len(inbox) <= MaxItems
      /\ MaxItems \in Nat
  BY HistoryAssumption DEF Inv, TypeOK
<1>2. Messages = 1 .. Len(inbox) /\ Len(inbox) \in Nat
  BY <1>1 DEF Messages
<1>3. 1 .. Len(inbox) \subseteq Numbers \ {0}
  BY <1>1, <1>2 DEF Numbers
<1>4. IsFiniteSet(1 .. Len(inbox))
  BY <1>2, FS_Interval
<1> QED  BY <1>2, <1>3, <1>4

LEMMA OutsidePageStep ==
  ASSUME Inv, NEW p \in Passes, Begin(p) \/ ListLive(p) \/ Fail(p) \/ EndLive(p)
  PROVE  Inv'
<1>1. UNCHANGED <<today, days, inbox, stored, scanned, active, token, late>>
  BY DEF Begin, ListLive, Fail, EndLive
<1>2. days \in Spans /\ pass[p] \in PassStates
  BY DEF Inv, TypeOK
<1>3. CASE Begin(p)
  <2> DEFINE state == [phase |-> "begun", days |-> days]
  <2>1. state \in PassStates /\ state.phase = "begun" /\ Listed(state)
    BY <1>2 DEF PassStates, Listed
  <2>2. Move(p, state)
    BY <1>3 DEF Begin
  <2> HIDE DEF state
  <2> QED  BY <1>1, <2>1, <2>2, QuietStep
<1>4. CASE ListLive(p)
  <2> DEFINE recent == {m \in Messages : inbox[m] >= today - pass[p].days}
             todo == Largest(recent, Limit) \ stored
             state == [phase |-> "live", days |-> pass[p].days, todo |-> todo]
  <2>1. Move(p, state)
    BY <1>4 DEF ListLive
  <2>2. todo \subseteq Numbers /\ todo \subseteq Messages
    BY MessagesAreNumbers DEF Largest
  <2>3. pass[p].days \in Spans
    BY <1>2, <1>4 DEF ListLive, PassStates, Idle
  <2> HIDE DEF todo
  <2>4. state \in PassStates /\ state.phase = "live" /\ Listed(state)
    BY <2>2, <2>3 DEF PassStates, Listed
  <2> HIDE DEF state
  <2> QED  BY <1>1, <2>1, <2>4, QuietStep
<1>5. CASE Fail(p)
  <2>1. Move(p, Idle) /\ Idle \in PassStates /\ Idle.phase = "idle" /\ Listed(Idle)
    BY <1>5 DEF Fail, PassStates, Idle, Listed
  <2> QED  BY <1>1, <2>1, QuietStep
<1>6. CASE EndLive(p)
  <2> DEFINE state == IF p = "worker" THEN [phase |-> "planning", days |-> pass[p].days]
                      ELSE Idle
  <2>1. Move(p, state)
    BY <1>6 DEF EndLive
  <2>2. pass[p].days \in Spans
    BY <1>2, <1>6 DEF EndLive, PassStates, Idle
  <2>3. CASE p = "worker"
    <3>1. state \in PassStates /\ state.phase = "planning" /\ Listed(state)
      BY <2>2, <2>3 DEF PassStates, Listed
    <3> HIDE DEF state
    <3> QED  BY <1>1, <2>1, <2>3, <3>1, QuietStep
  <2>4. CASE p # "worker"
    <3>1. state \in PassStates /\ state.phase = "idle" /\ Listed(state)
      BY <2>4 DEF PassStates, Idle, Listed
    <3> HIDE DEF state
    <3> QED  BY <1>1, <2>1, <3>1, QuietStep
  <2> QED  BY <2>3, <2>4
<1> QED  BY <1>3, <1>4, <1>5, <1>6

\* What either pass stores is stored for both.
LEMMA SaveStep ==
  ASSUME Inv, NEW p \in Passes, Save(p)
  PROVE  Inv'
<1>1. UNCHANGED <<today, days, inbox, scanned, active, token, late>>
  BY DEF Save
<1>2. PICK m \in pass[p].todo \ stored :
        /\ stored' = stored \union {m}
        /\ Move(p, [pass[p] EXCEPT !.todo = @ \ {m}])
  BY DEF Save
<1> DEFINE left == pass[p].todo \ {m}
           state == [pass[p] EXCEPT !.todo = @ \ {m}]
<1>3. pass[p] \in PassStates /\ pass[p].phase \in {"live", "page"}
  BY DEF Inv, TypeOK, Save
<1>4. /\ state \in PassStates /\ state.phase = pass[p].phase /\ state.todo = left
      /\ state.phase = "page" => state.window = pass[p].window /\ state.next = pass[p].next
  <2>1. CASE pass[p].phase = "live"
    <3>1. /\ state = [phase |-> "live", days |-> pass[p].days, todo |-> left]
          /\ left \subseteq Numbers /\ pass[p].days \in Spans
      BY <1>3, <2>1 DEF PassStates, Idle
    <3> HIDE DEF state, left
    <3>2. [phase |-> "live", days |-> pass[p].days, todo |-> left] \in PassStates
      BY <3>1 DEF PassStates
    <3> QED  BY <2>1, <3>1, <3>2
  <2>2. CASE pass[p].phase = "page"
    <3>1. /\ state = [phase |-> "page", window |-> pass[p].window, todo |-> left,
                      next |-> pass[p].next]
          /\ left \subseteq Numbers /\ pass[p].window \subseteq Days
          /\ pass[p].next \in Numbers
      BY <1>3, <2>2 DEF PassStates, Idle
    <3> HIDE DEF state, left
    <3>2. [phase |-> "page", window |-> pass[p].window, todo |-> left,
           next |-> pass[p].next] \in PassStates
      BY <3>1 DEF PassStates
    <3> QED  BY <2>2, <3>1, <3>2
  <2> QED  BY <1>3, <2>1, <2>2
<1>5. pass[p].todo \subseteq Messages /\ m \in Messages
  BY <1>2, <1>3 DEF Inv, Listed
<1>6. stored' \subseteq Messages /\ stored \subseteq stored' /\ Messages' = Messages
  BY <1>1, <1>2, <1>5 DEF Inv, TypeOK, Messages
<1>7. pass[p].todo \subseteq left \union stored'
  BY <1>2
<1>8. Listed(state)
  BY <1>4, <1>5 DEF Listed
<1>9. Move(p, state)
  BY <1>2
<1> HIDE DEF state, left
<1>10. /\ pass' \in [Passes -> PassStates] /\ pass'[p] = state
       /\ \A q \in Passes \ {p} : pass'[q] = pass[q]
  BY <1>4, <1>9, MoveKeepsOthers DEF Inv
<1>11. pass'["request"].phase \in {"idle", "begun", "live"}
  BY <1>4, <1>10 DEF Inv, TypeOK, Passes
<1>12. TypeOK'
  BY <1>1, <1>6, <1>10, <1>11 DEF Inv, TypeOK
<1>13. AtHand(pass["worker"])'
  <2>1. CASE p = "worker"
    <3>1. AtHand(pass[p]) /\ pass'[p] = state
      BY <1>10, <2>1 DEF Inv
    <3>2. state.phase \in {"listing", "page"} => state.window = active /\ active # {}
      BY <1>3, <1>4, <3>1 DEF AtHand
    <3>3. ASSUME state.phase = "page", NEW n \in Messages \ late,
                 inbox[n] \in active /\ (token = 0 \/ n < token)
          PROVE  \/ n \in stored' \union state.todo
                 \/ state.next # 0 /\ n < state.next
      <4>1. n \in stored \union pass[p].todo \/ (pass[p].next # 0 /\ n < pass[p].next)
        BY <1>4, <3>1, <3>3 DEF AtHand
      <4> QED  BY <1>4, <1>6, <1>7, <3>3, <4>1
    <3>4. pass'["worker"] = state
      BY <2>1, <3>1
    <3> QED  BY <1>1, <1>6, <3>2, <3>3, <3>4 DEF AtHand
  <2>2. CASE p # "worker"
    <3>1. pass'["worker"] = pass["worker"]
      BY <1>10, <2>2 DEF Passes
    <3> QED  BY <1>1, <1>6, <3>1 DEF Inv, AtHand
  <2> QED  BY <2>1, <2>2
<1>14. \A q \in Passes : Listed(pass[q])'
  BY <1>6, <1>8, <1>10 DEF Inv, Listed
<1>15. ScannedIsStored'
  BY <1>1, <1>6 DEF Inv, ScannedIsStored
<1> QED  BY <1>1, <1>10, <1>12, <1>13, <1>14, <1>15 DEF Inv, WindowsApart

-----------------------------------------------------------------------------
(* The worker's scan of the history.                                       *)

LEMMA PlanHistoryStep ==
  ASSUME Inv, PlanHistory
  PROVE  Inv'
<1> DEFINE desired == Desired(today, pass["worker"].days)
           kept == IF active \subseteq desired THEN active ELSE {}
           window == IF kept = {} THEN Planned(scanned, desired) ELSE kept
           state == IF window = {} THEN Idle
                    ELSE [phase |-> "listing", window |-> window]
<1>1. /\ UNCHANGED <<today, days, inbox, stored, scanned>>
      /\ active' = window
      /\ token' = IF kept = {} THEN 0 ELSE token
      /\ late' = IF kept = {} THEN {m \in late : inbox[m] \in scanned} ELSE late
      /\ Move("worker", state)
  BY DEF PlanHistory
<1>2. IsWindow(desired) /\ desired # {} /\ desired \subseteq Days
  <2>1. pass["worker"] \in PassStates /\ pass["worker"].phase = "planning"
    BY DEF Inv, PlanHistory, Passes
  <2>2. pass["worker"].days \in Spans
    BY <2>1 DEF PassStates, Idle
  <2> QED  BY <2>2, DesiredWindow DEF Inv, TypeOK
<1> HIDE DEF desired
<1>3. /\ IsWindow(Planned(scanned, desired))
      /\ Planned(scanned, desired) \intersect scanned = {}
      /\ Planned(scanned, desired) \subseteq Days
  BY <1>2, PlannedIsApart, PlannedInDays DEF Inv, TypeOK, WindowsApart
<1>4. /\ IsWindow(window) /\ window \intersect scanned = {} /\ window \subseteq Days
      /\ kept # {} => window = active
  BY <1>3 DEF Inv, TypeOK, WindowsApart
<1>5. /\ state \in PassStates /\ state.phase \in {"idle", "listing"}
      /\ state.phase = "listing" => state.window = window /\ window # {}
  BY <1>4 DEF PassStates, Idle
<1> HIDE DEF window, kept
<1>6. token' \in Numbers /\ (window = {} => token' = 0) /\ late' \subseteq late
  <2>1. 0 \in Numbers
    BY HistoryAssumption DEF Numbers
  <2> QED  BY <1>1, <1>4, <2>1 DEF Inv, TypeOK
<1>7. ScannedIsStored'
  <2>1. CASE kept # {}
    BY <1>1, <1>4, <2>1 DEF Inv, ScannedIsStored, Messages
  <2>2. CASE kept = {}
    <3>1. \A m \in Messages \ late' : inbox[m] \in scanned => m \in stored
      BY <1>1, <2>2 DEF Inv, ScannedIsStored, WindowsApart
    <3> QED  BY <1>1, <2>2, <3>1 DEF ScannedIsStored, Messages
  <2> QED  BY <2>1, <2>2
<1> HIDE DEF state
<1>8. pass' \in [Passes -> PassStates] /\ pass'["worker"] = state
      /\ pass'["request"] = pass["request"]
  BY <1>1, <1>5, MoveKeepsOthers DEF Inv, Passes
<1>9. TypeOK'
  BY <1>1, <1>4, <1>6, <1>8 DEF Inv, TypeOK, Messages, Passes
<1>10. AtHand(pass["worker"])' /\ \A q \in Passes : Listed(pass[q])'
  BY <1>1, <1>5, <1>8 DEF Inv, AtHand, Listed, Messages, Passes
<1> QED  BY <1>1, <1>4, <1>7, <1>8, <1>9, <1>10 DEF Inv, WindowsApart

LEMMA ListPageStep ==
  ASSUME Inv, ListPage
  PROVE  Inv'
<1> DEFINE window == pass["worker"].window
           listed == {m \in Messages : inbox[m] \in window /\ (token = 0 \/ m < token)}
           shown == Largest(listed, Limit)
           next == IF shown = listed THEN 0 ELSE Min(shown)
           todo == shown \ stored
           state == [phase |-> "page", window |-> window, todo |-> todo, next |-> next]
<1>1. /\ UNCHANGED <<today, days, inbox, stored, scanned, active, token, late>>
      /\ Move("worker", state)
  BY DEF ListPage
<1>2. /\ window = active /\ active # {} /\ window \subseteq Days
  BY DEF Inv, TypeOK, AtHand, ListPage
<1>3. /\ listed \subseteq Messages /\ listed \in SUBSET Int /\ IsFiniteSet(listed)
      /\ Messages \subseteq Numbers \ {0} /\ Numbers \subseteq Nat /\ 0 \in Numbers
  <2>1. Numbers \subseteq Nat /\ 0 \in Numbers
    BY HistoryAssumption DEF Numbers
  <2>2. listed \subseteq Messages
    OBVIOUS
  <2> HIDE DEF listed
  <2>3. IsFiniteSet(listed)
    BY <2>2, MessagesAreNumbers, FS_Subset
  <2>4. \A x \in listed : x \in Int
    <3>1. Messages \subseteq Numbers
      BY MessagesAreNumbers
    <3>2. \A x \in Numbers : x \in Int
      BY <2>1
    <3> QED  BY <2>2, <3>1, <3>2
  <2> QED  BY <2>1, <2>2, <2>3, <2>4, MessagesAreNumbers
<1>4. \A m \in Messages : inbox[m] \in active /\ (token = 0 \/ m < token) => m \in listed
  BY <1>2
<1> HIDE DEF listed
<1>5. /\ shown \subseteq listed /\ (listed # {} => shown # {})
      /\ \A x \in shown, y \in listed \ shown : y < x
  BY <1>3, LargestIsPage, HistoryAssumption
<1> HIDE DEF shown
<1>6. /\ next \in Numbers
      /\ \A m \in listed : m \in shown \/ (next # 0 /\ m < next)
  <2>1. CASE shown = listed
    BY <1>3, <2>1
  <2>2. CASE shown # listed
    <3>1. shown \in SUBSET Int /\ shown # {}
      BY <1>3, <1>5, <2>2
    <3>2. IsFiniteSet(shown)
      BY <1>3, <1>5, FS_Subset
    <3>3. Min(shown) \in shown
      BY <3>1, <3>2, MinIsLeast
    <3>4. Min(shown) \in Numbers \ {0}
      BY <1>3, <1>5, <3>3
    <3> QED  BY <1>5, <2>2, <3>3, <3>4
  <2> QED  BY <2>1, <2>2
<1> HIDE DEF next
<1>7. todo \subseteq Messages /\ todo \subseteq Numbers /\ shown \subseteq stored \union todo
  BY <1>3, <1>5
<1> HIDE DEF todo, window
<1>8. /\ state \in PassStates /\ state.phase = "page" /\ state.window = window
      /\ state.todo = todo /\ state.next = next
  BY <1>2, <1>6, <1>7 DEF PassStates
<1> HIDE DEF state
<1>9. pass' \in [Passes -> PassStates] /\ pass'["worker"] = state
      /\ pass'["request"] = pass["request"]
  BY <1>1, <1>8, MoveKeepsOthers DEF Inv, Passes
<1>10. TypeOK'
  BY <1>1, <1>9 DEF Inv, TypeOK, Messages, Passes
<1>11. \A m \in Messages \ late :
         inbox[m] \in active /\ (token = 0 \/ m < token) =>
           m \in stored \union state.todo \/ (state.next # 0 /\ m < state.next)
  BY <1>4, <1>6, <1>7, <1>8
<1>12. AtHand(pass["worker"])'
  BY <1>1, <1>2, <1>8, <1>9, <1>11 DEF AtHand, Messages
<1>13. \A q \in Passes : Listed(pass[q])'
  BY <1>1, <1>7, <1>8, <1>9 DEF Inv, Listed, Messages, Passes
<1> QED  BY <1>1, <1>9, <1>10, <1>12, <1>13 DEF Inv, WindowsApart, ScannedIsStored, Messages

\* The page is stored, so the token may move past it and a window that is done with
\* may count as scanned.
LEMMA FinishPageStep ==
  ASSUME Inv, FinishPage
  PROVE  Inv'
<1> DEFINE next == pass["worker"].next
<1>1. /\ UNCHANGED <<today, days, inbox, stored, late>> /\ Move("worker", Idle)
      /\ pass["worker"].phase = "page" /\ pass["worker"].todo = {}
  BY DEF FinishPage
<1>2. /\ active # {} /\ next \in Numbers /\ 0 \in Numbers
  <2>1. pass["worker"] \in PassStates
    BY DEF Inv, Passes
  <2>2. 0 \in Numbers
    BY HistoryAssumption DEF Numbers
  <2> QED  BY <1>1, <2>1, <2>2 DEF Inv, AtHand, PassStates, Idle
<1>3. \A m \in Messages \ late : inbox[m] \in active => m \in stored \/ (next # 0 /\ m < next)
  BY <1>1 DEF Inv, AtHand, ScannedIsStored, WindowsApart
<1>4. /\ IsWindow(scanned) /\ IsWindow(active) /\ scanned \intersect active = {}
      /\ scanned \subseteq Days /\ active \subseteq Days
      /\ \A m \in Messages \ late : inbox[m] \in scanned => m \in stored
  BY DEF Inv, TypeOK, WindowsApart, ScannedIsStored
<1>5. /\ IsWindow(scanned') /\ IsWindow(active') /\ scanned' \intersect active' = {}
      /\ scanned' \subseteq Days /\ active' \subseteq Days
      /\ token' \in Numbers /\ (active' = {} => token' = 0)
      /\ ScannedIsStored'
  <2>1. CASE next # 0
    <3>1. token' = next /\ UNCHANGED <<scanned, active>>
      BY <2>1 DEF FinishPage
    <3>2. ScannedIsStored'
      BY <1>1, <1>3, <1>4, <3>1 DEF ScannedIsStored, Messages
    <3> QED  BY <1>2, <1>4, <3>1, <3>2
  <2>2. CASE next = 0
    <3>1. /\ scanned' = Extended(scanned, active, active) /\ active' = {} /\ token' = 0
      BY <2>2 DEF FinishPage
    <3>2. IsWindow(scanned') /\ scanned' \subseteq scanned \union active
      BY <1>2, <1>4, <3>1, ExtendedIsWindow
    <3>3. IsWindow({})
      <4>1. {} = 1 .. 0
        OBVIOUS
      <4> QED  BY <4>1 DEF IsWindow
    <3>4. \A m \in Messages \ late : inbox[m] \in scanned \union active => m \in stored
      BY <1>3, <1>4, <2>2
    <3>5. ScannedIsStored'
      BY <1>1, <3>1, <3>2, <3>4 DEF ScannedIsStored, Messages
    <3> QED  BY <1>2, <1>4, <3>1, <3>2, <3>3, <3>5
  <2> QED  BY <2>1, <2>2
<1>6. /\ pass' \in [Passes -> PassStates] /\ pass'["worker"] = Idle
      /\ pass'["request"] = pass["request"]
  <2>1. Idle \in PassStates
    BY DEF PassStates
  <2> QED  BY <1>1, <2>1, MoveKeepsOthers DEF Inv, Passes
<1>7. TypeOK'
  BY <1>1, <1>5, <1>6 DEF Inv, TypeOK, Messages, Passes
<1>8. AtHand(pass["worker"])' /\ \A q \in Passes : Listed(pass[q])'
  BY <1>1, <1>6 DEF Inv, AtHand, Listed, Messages, Passes, Idle
<1> QED  BY <1>5, <1>6, <1>7, <1>8 DEF Inv, WindowsApart

-----------------------------------------------------------------------------
(* The theorems.                                                           *)

LEMMA InvStep == Inv /\ [Next]_vars => Inv'
<1> SUFFICES ASSUME Inv, [Next]_vars PROVE Inv'
  OBVIOUS
<1>1. CASE NextDay \/ SetHistoryDays \/ UNCHANGED vars
  BY <1>1, SurroundingsStep
<1>2. CASE Arrive
  BY <1>2, ArriveStep
<1>3. ASSUME NEW p \in Passes, PassStep(p) \/ Fail(p)
      PROVE  Inv'
  BY <1>3, OutsidePageStep, SaveStep DEF PassStep
<1>4. CASE PlanHistory
  BY <1>4, PlanHistoryStep
<1>5. CASE ListPage
  BY <1>5, ListPageStep
<1>6. CASE FinishPage
  BY <1>6, FinishPageStep
<1> QED  BY <1>1, <1>2, <1>3, <1>4, <1>5, <1>6 DEF Next

LEMMA InvAlways == Spec => []Inv
BY InvInit, InvStep, PTL DEF Spec

\* The state stays of its types: in particular the days scanned, the active window and
\* its page token stay in range, and the request never scans history.
THEOREM HistoryTypes == Spec => []TypeOK
<1>1. Inv => TypeOK
  BY DEF Inv
<1> QED  BY <1>1, InvAlways, PTL

\* A day that counts as scanned has its messages (GmailSync and the history state's
\* plan, page token and completion), for every page size, every history_days and any
\* interleaving of the worker, the request, the mailbox and the clock.
THEOREM ScannedDaysAreStored == Spec => []ScannedIsStored
<1>1. Inv => ScannedIsStored
  BY DEF Inv
<1> QED  BY <1>1, InvAlways, PTL

\* The days that count as scanned have no gaps and share none with the window at hand.
THEOREM ScannedDaysHaveNoGaps == Spec => []WindowsApart
<1>1. Inv => WindowsApart
  BY DEF Inv
<1> QED  BY <1>1, InvAlways, PTL

-----------------------------------------------------------------------------
(* The windows of each connector are the ones of HistoryWindow.            *)

LEMMA EmptyIsWindow == IsWindow({})
<1>1. {} = 1 .. 0
  OBVIOUS
<1> QED  BY <1>1 DEF IsWindow

LEMMA ImapWindows ==
  /\ Imap!Days = Days
  /\ \A s, d : Imap!Planned(s, d) = Planned(s, d)
  /\ \A s, a, x : Imap!Extended(s, a, x) = Extended(s, a, x)
  /\ \A t, n : Imap!Desired(t, n) = Desired(t, n)
<1>1. \A S : Imap!Max(S) = Max(S) /\ Imap!Min(S) = Min(S)
  BY DEF Imap!Max, Max, Imap!Min, Min
<1>2. ASSUME NEW s, NEW d
      PROVE  Imap!Planned(s, d) = Planned(s, d)
  BY <1>1 DEF Imap!Planned, Planned
<1>3. ASSUME NEW s, NEW a, NEW x
      PROVE  Imap!Extended(s, a, x) = Extended(s, a, x)
  BY <1>1 DEF Imap!Extended, Extended, Imap!Touch, Touch
<1>4. ASSUME NEW t, NEW n
      PROVE  Imap!Desired(t, n) = Desired(t, n)
  BY DEF Imap!Desired, Desired
<1>5. Imap!Days = Days
  BY <1>1 DEF Imap!Days, Days
<1> QED  BY <1>2, <1>3, <1>4, <1>5

-----------------------------------------------------------------------------
(* A Yandex mailbox, read by the worker's pass and by a request's.         *)

\* A message the history has passed.
ImapPassed(u) ==
  /\ imap_history.tag = imap_validity
  /\ imap_inbox[u] \in imap_history.scanned \union imap_history.active
  /\ ~ (imap_inbox[u] \in imap_history.active /\ u < imap_history.before)

\* A message the live search has still to come to, whichever checkpoint is written.
AheadOf(s, u) ==
  /\ s.phase = "open" => Imap!ValidCheckpoint(s.root, s.last) /\ u > s.last
  /\ s.phase = "live" => s.top # 0 /\ (u > s.top \/ u \in s.todo)
ImapAhead(u) ==
  /\ Imap!ValidCheckpoint(imap_root, imap_last) /\ u > imap_last
  /\ \A p \in Imap!Passes : AheadOf(imap_pass[p], u)

\* What the worker's pass knows of the window it reads a page of.
ImapAtHand(s) ==
  /\ s.phase \in {"searching", "page"} =>
       imap_history.tag = imap_validity /\ imap_history.active # {}
  /\ s.phase = "page" =>
       \A u \in Imap!Messages \ imap_late :
         imap_inbox[u] \in imap_history.active /\ u < imap_history.before =>
           \/ u \in imap_stored \union s.todo
           \/ ImapAhead(u)
           \/ s.next # 0 /\ u < s.next

\* A pass only knows of messages there are.
ImapKnown(s) ==
  /\ s.phase = "open" =>
       s.root <= imap_validity /\ (s.root = imap_validity => s.last <= Len(imap_inbox))
  /\ s.phase = "live" => s.top <= Len(imap_inbox)
  /\ s.phase \in {"live", "page"} => s.todo \subseteq Imap!Messages

ImapTypes ==
  /\ Imap!TypeOK /\ imap_pass \in [Imap!Passes -> Imap!PassStates]
  /\ imap_pass["request"].phase = "live" => imap_pass["request"].after.phase = "idle"

\* One numbering, and windows that are apart.
ImapState ==
  /\ imap_root <= imap_validity
  /\ imap_root = imap_validity => imap_last <= Len(imap_inbox)
  /\ imap_history.tag <= imap_validity
  /\ imap_history.tag = 0 => imap_history = Imap!NoHistory
  /\ IsWindow(imap_history.scanned) /\ IsWindow(imap_history.active)
  /\ imap_history.scanned \intersect imap_history.active = {}

ImapInv ==
  /\ ImapTypes /\ ImapState
  /\ \A p \in Imap!Passes : ImapKnown(imap_pass[p])
  /\ ImapAtHand(imap_pass["worker"])
  /\ \A u \in Imap!Messages \ imap_late : ImapPassed(u) => u \in imap_stored \/ ImapAhead(u)

\* The two sets of books have what they claim.
LEMMA ImapInvNothingIsLost == ImapInv => Imap!NothingIsLost
BY DEF ImapInv, ImapPassed, ImapAhead, Imap!NothingIsLost

LEMMA ImapMailbox ==
  ASSUME ImapInv
  PROVE  /\ imap_inbox \in Seq(0 .. LastDay) /\ Len(imap_inbox) \in Nat
         /\ Len(imap_inbox) <= MaxItems /\ MaxItems \in Nat
         /\ Imap!Messages = 1 .. Len(imap_inbox) /\ Imap!Messages \subseteq Imap!Uids
         /\ IsFiniteSet(Imap!Messages)
         /\ imap_validity \in Nat \ {0} /\ imap_last \in Nat
         /\ \A u \in Imap!Messages : u \in Nat \ {0}
<1>1. /\ imap_inbox \in Seq(0 .. LastDay) /\ Len(imap_inbox) <= MaxItems
      /\ MaxItems \in Nat /\ MaxRenumberings \in Nat
      /\ imap_validity \in Imap!Validities \ {0} /\ imap_last \in Imap!Uids
  BY HistoryAssumption, BoundsAssumption DEF ImapInv, ImapTypes, Imap!TypeOK
<1>2. Imap!Messages = 1 .. Len(imap_inbox) /\ Len(imap_inbox) \in Nat
  BY <1>1 DEF Imap!Messages
<1>3. Imap!Messages \subseteq Imap!Uids
  BY <1>1, <1>2 DEF Imap!Uids
<1>4. imap_validity \in Nat \ {0} /\ imap_last \in Nat
  BY <1>1 DEF Imap!Validities, Imap!Uids
<1>5. IsFiniteSet(1 .. Len(imap_inbox))
  BY <1>2, FS_Interval
<1> QED  BY <1>1, <1>2, <1>3, <1>4, <1>5

LEMMA ImapInit == Imap!Init => ImapInv
<1> SUFFICES ASSUME Imap!Init PROVE ImapInv
  OBVIOUS
<1>1. /\ imap_inbox = <<>> /\ DOMAIN imap_inbox = {} /\ Len(imap_inbox) = 0
      /\ LastDay \in Nat /\ MaxItems \in Nat /\ MaxRenumberings \in Nat
  BY HistoryAssumption, BoundsAssumption DEF Imap!Init
<1>2. imap_pass \in [Imap!Passes -> Imap!PassStates]
      /\ \A p \in Imap!Passes : imap_pass[p] = Imap!Idle
  BY DEF Imap!Init, Imap!PassStates
<1>3. Imap!Idle.phase = "idle" /\ Imap!Passes = {"worker", "request"}
  BY DEF Imap!Idle, Imap!Passes
<1>4. Imap!NoHistory \in Imap!Histories
  BY <1>1 DEF Imap!NoHistory, Imap!Histories, Imap!Validities
<1>5. Imap!TypeOK
  BY <1>1, <1>2, <1>3, <1>4
     DEF Imap!Init, Imap!TypeOK, Imap!Messages, Imap!Validities, Imap!Uids
<1>6. ImapState
  BY <1>1, EmptyIsWindow DEF Imap!Init, ImapState, Imap!NoHistory
<1>7. Imap!Messages = {}
  BY <1>1 DEF Imap!Messages
<1> QED  BY <1>2, <1>3, <1>5, <1>6, <1>7 DEF ImapInv, ImapTypes, ImapKnown, ImapAtHand

\* What is left to show of a step of the live part, or of a failure.
LEMMA ImapLiveStep ==
  ASSUME ImapInv, NEW p \in Imap!Passes, NEW s \in Imap!PassStates, Imap!Move(p, s),
         UNCHANGED <<imap_today, days, imap_validity, imap_inbox, imap_history, imap_late>>,
         imap_stored \subseteq imap_stored', imap_stored' \subseteq Imap!Messages,
         imap_root' \in Imap!Validities, imap_last' \in Imap!Uids,
         imap_root' <= imap_validity,
         imap_root' = imap_validity => imap_last' <= Len(imap_inbox),
         ImapKnown(s),
         p = "request" => /\ s.phase \in {"idle", "open", "live"}
                          /\ s.phase = "live" => s.after.phase = "idle",
         \A u \in Imap!Messages \ imap_stored' :
           ImapAhead(u) =>
             /\ AheadOf(s, u)
             /\ imap_root' = imap_validity /\ imap_last' > 0 /\ u > imap_last',
         \/ s.phase \notin {"searching", "page"}
         \/ /\ s.phase = "page" /\ imap_pass[p].phase = "page"
            /\ s.next = imap_pass[p].next /\ imap_pass[p].todo \subseteq imap_stored' \union s.todo
  PROVE  ImapInv'
<1>1. /\ imap_pass \in [Imap!Passes -> Imap!PassStates] /\ ImapTypes /\ ImapState
      /\ Imap!Passes = {"worker", "request"}
  BY DEF ImapInv, ImapTypes, Imap!Passes
<1>2. /\ imap_pass' \in [Imap!Passes -> Imap!PassStates] /\ imap_pass'[p] = s
      /\ \A q \in Imap!Passes \ {p} : imap_pass'[q] = imap_pass[q]
  BY <1>1 DEF Imap!Move
<1>3. Imap!Messages' = Imap!Messages
  BY DEF Imap!Messages
<1>4. /\ imap_pass'["request"].phase \in {"idle", "open", "live"}
      /\ imap_pass'["request"].phase = "live" => imap_pass'["request"].after.phase = "idle"
  BY <1>1, <1>2 DEF ImapTypes, Imap!TypeOK
<1>5. ImapTypes'
  <2>1. \A q \in Imap!Passes : imap_pass'[q] \in Imap!PassStates
    BY <1>2
  <2> QED  BY <1>1, <1>2, <1>3, <1>4, <2>1 DEF ImapTypes, Imap!TypeOK
<1>6. ImapState'
  BY <1>1 DEF ImapState
<1>7. \A q \in Imap!Passes : ImapKnown(imap_pass[q])'
  <2>1. \A q \in Imap!Passes : ImapKnown(imap_pass'[q])
    BY <1>2 DEF ImapInv
  <2> QED  BY <1>3, <2>1 DEF ImapKnown
<1>8. ASSUME NEW u \in Imap!Messages \ imap_stored', ImapAhead(u)
      PROVE  ImapAhead(u)'
  <2>1. \A q \in Imap!Passes : AheadOf(imap_pass'[q], u)
    BY <1>2, <1>8 DEF ImapAhead
  <2>2. (Imap!ValidCheckpoint(imap_root, imap_last) /\ u > imap_last)'
    BY <1>8 DEF Imap!ValidCheckpoint
  <2> QED  BY <2>1, <2>2 DEF ImapAhead, AheadOf, Imap!ValidCheckpoint
<1>9. ImapAtHand(imap_pass["worker"])'
  <2>1. CASE p # "worker"
    <3>1. imap_pass'["worker"] = imap_pass["worker"]
      BY <1>1, <1>2, <2>1
    <3> QED  BY <1>3, <1>8, <3>1 DEF ImapInv, ImapAtHand
  <2>2. CASE p = "worker" /\ s.phase \notin {"searching", "page"}
    BY <1>2, <2>2 DEF ImapAtHand
  <2>3. CASE /\ p = "worker" /\ s.phase = "page" /\ imap_pass[p].phase = "page"
             /\ s.next = imap_pass[p].next
             /\ imap_pass[p].todo \subseteq imap_stored' \union s.todo
    <3>1. imap_pass'["worker"] = s
      BY <1>2, <2>3
    <3> QED  BY <1>3, <1>8, <2>3, <3>1 DEF ImapInv, ImapAtHand
  <2> QED  BY <2>1, <2>2, <2>3
<1>10. \A u \in Imap!Messages' \ imap_late' :
         ImapPassed(u)' => u \in imap_stored' \/ ImapAhead(u)'
  BY <1>3, <1>8 DEF ImapInv, ImapPassed
<1> QED  BY <1>5, <1>6, <1>7, <1>9, <1>10 DEF ImapInv

LEMMA ImapPassForms ==
  /\ Imap!Idle \in Imap!PassStates /\ Imap!Idle.phase = "idle"
  /\ \A r, n, l : r \in Imap!Validities /\ n \in Spans /\ l \in Imap!Uids =>
       [phase |-> "open", days |-> n, root |-> r, last |-> l] \in Imap!PassStates
  /\ \A t, l, a : t \in SUBSET Imap!Uids /\ l \in Imap!Uids
                  /\ a \in {Imap!Idle} \union Imap!Planning =>
       [phase |-> "live", todo |-> t, top |-> l, after |-> a] \in Imap!PassStates
  /\ \A r, n : r \in Imap!Validities /\ n \in Spans =>
       [phase |-> "planning", days |-> n, root |-> r] \in Imap!Planning
  /\ [phase |-> "searching"] \in Imap!PassStates
  /\ \A t, l : t \in SUBSET Imap!Uids /\ l \in Imap!Uids =>
       [phase |-> "page", todo |-> t, next |-> l] \in Imap!PassStates
  /\ \A s \in Imap!PassStates :
       /\ s.phase = "open" => s.days \in Spans /\ s.root \in Imap!Validities
                              /\ s.last \in Imap!Uids
       /\ s.phase = "live" => s.todo \in SUBSET Imap!Uids /\ s.top \in Imap!Uids
                              /\ s.after \in {Imap!Idle} \union Imap!Planning
                              /\ s = [phase |-> "live", todo |-> s.todo, top |-> s.top,
                                      after |-> s.after]
       /\ s.phase = "planning" => s \in Imap!Planning /\ s.days \in Spans
       /\ s.phase = "page" => s.todo \in SUBSET Imap!Uids /\ s.next \in Imap!Uids
                              /\ s = [phase |-> "page", todo |-> s.todo, next |-> s.next]
  /\ \A s \in Imap!Planning : s \in Imap!PassStates /\ s.phase = "planning"
<1>1. \A s \in Imap!PassStates :
       /\ s.phase = "open" => s.days \in Spans /\ s.root \in Imap!Validities
                              /\ s.last \in Imap!Uids
       /\ s.phase = "planning" => s \in Imap!Planning /\ s.days \in Spans
  BY DEF Imap!PassStates, Imap!Idle, Imap!Planning
<1>2. \A s \in Imap!PassStates :
       /\ s.phase = "live" => s.todo \in SUBSET Imap!Uids /\ s.top \in Imap!Uids
                              /\ s.after \in {Imap!Idle} \union Imap!Planning
                              /\ s = [phase |-> "live", todo |-> s.todo, top |-> s.top,
                                      after |-> s.after]
  BY DEF Imap!PassStates, Imap!Idle, Imap!Planning
<1>3. \A s \in Imap!PassStates :
       /\ s.phase = "page" => s.todo \in SUBSET Imap!Uids /\ s.next \in Imap!Uids
                              /\ s = [phase |-> "page", todo |-> s.todo, next |-> s.next]
  BY DEF Imap!PassStates, Imap!Idle, Imap!Planning
<1>4. /\ Imap!Idle \in Imap!PassStates /\ Imap!Idle.phase = "idle"
      /\ [phase |-> "searching"] \in Imap!PassStates
  BY DEF Imap!PassStates, Imap!Idle
<1>5. \A r, n, l : r \in Imap!Validities /\ n \in Spans /\ l \in Imap!Uids =>
       [phase |-> "open", days |-> n, root |-> r, last |-> l] \in Imap!PassStates
  BY DEF Imap!PassStates
<1>6. \A t, l, a : t \in SUBSET Imap!Uids /\ l \in Imap!Uids
                  /\ a \in {Imap!Idle} \union Imap!Planning =>
       [phase |-> "live", todo |-> t, top |-> l, after |-> a] \in Imap!PassStates
  BY DEF Imap!PassStates
<1>7. \A r, n : r \in Imap!Validities /\ n \in Spans =>
       [phase |-> "planning", days |-> n, root |-> r] \in Imap!Planning
  BY DEF Imap!Planning
<1>8. \A t, l : t \in SUBSET Imap!Uids /\ l \in Imap!Uids =>
       [phase |-> "page", todo |-> t, next |-> l] \in Imap!PassStates
  BY DEF Imap!PassStates
<1>9. \A s \in Imap!Planning : s \in Imap!PassStates /\ s.phase = "planning"
  BY DEF Imap!PassStates, Imap!Planning
<1> QED  BY <1>1, <1>2, <1>3, <1>4, <1>5, <1>6, <1>7, <1>8, <1>9

LEMMA ImapAheadOf ==
  ASSUME ImapInv, NEW u, ImapAhead(u), NEW p \in Imap!Passes
  PROVE  AheadOf(imap_pass[p], u) /\ imap_root = imap_validity /\ imap_last > 0 /\ u > imap_last
BY DEF ImapAhead, Imap!ValidCheckpoint

LEMMA ImapKept ==
  ASSUME ImapInv
  PROVE  /\ imap_stored \subseteq Imap!Messages /\ imap_root \in Imap!Validities
         /\ imap_last \in Imap!Uids /\ imap_root <= imap_validity
         /\ imap_root = imap_validity => imap_last <= Len(imap_inbox)
         /\ imap_validity \in Imap!Validities \ {0} /\ imap_history \in Imap!Histories
         /\ days \in Spans /\ imap_today \in 0 .. LastDay
         /\ \A p \in Imap!Passes : imap_pass[p] \in Imap!PassStates /\ ImapKnown(imap_pass[p])
BY DEF ImapInv, ImapTypes, ImapState, Imap!TypeOK

LEMMA ImapBegin ==
  ASSUME ImapInv, NEW p \in Imap!Passes, Imap!Begin(p)
  PROVE  ImapInv'
<1>1. PICK s : s = [phase |-> "open", days |-> days, root |-> imap_root, last |-> imap_last]
  OBVIOUS
<1>2. /\ Imap!Move(p, s)
      /\ UNCHANGED <<imap_today, days, imap_validity, imap_inbox, imap_history, imap_late>>
      /\ UNCHANGED <<imap_stored, imap_root, imap_last>>
  BY <1>1 DEF Imap!Begin, Imap!mailbox, Imap!account
<1>3. s \in Imap!PassStates /\ s.phase = "open" /\ s.root = imap_root /\ s.last = imap_last
  BY <1>1, ImapKept, ImapPassForms
<1>4. ImapKnown(s)
  BY <1>3, ImapKept DEF ImapKnown
<1>5. ASSUME NEW u \in Imap!Messages, ImapAhead(u)
      PROVE  AheadOf(s, u) /\ imap_root = imap_validity /\ imap_last > 0 /\ u > imap_last
  BY <1>3, <1>5, ImapAheadOf DEF ImapAhead, AheadOf, Imap!ValidCheckpoint
<1> QED  BY <1>2, <1>3, <1>4, <1>5, ImapKept, ImapLiveStep

LEMMA ImapFail ==
  ASSUME ImapInv, NEW p \in Imap!Passes, Imap!Fail(p)
  PROVE  ImapInv'
<1>1. PICK s : s = Imap!Idle
  OBVIOUS
<1>2. /\ Imap!Move(p, s)
      /\ UNCHANGED <<imap_today, days, imap_validity, imap_inbox, imap_history, imap_late>>
      /\ UNCHANGED <<imap_stored, imap_root, imap_last>>
  BY <1>1 DEF Imap!Fail, Imap!mailbox, Imap!account
<1>3. s \in Imap!PassStates /\ s.phase = "idle" /\ ImapKnown(s)
  BY <1>1, ImapPassForms DEF ImapKnown
<1>4. ASSUME NEW u \in Imap!Messages, ImapAhead(u)
      PROVE  AheadOf(s, u) /\ imap_root = imap_validity /\ imap_last > 0 /\ u > imap_last
  BY <1>3, <1>4, ImapAheadOf DEF AheadOf
<1> QED  BY <1>2, <1>3, <1>4, ImapKept, ImapLiveStep

\* The greatest of a search and the checkpoint it began from.
LEMMA TopOf ==
  ASSUME NEW found \in SUBSET Nat, IsFiniteSet(found), NEW floor \in Nat
  PROVE  /\ Imap!Max(found \union {floor}) \in found \union {floor}
         /\ \A x \in found \union {floor} : x <= Imap!Max(found \union {floor})
<1>1. PICK S : S = found \union {floor}
  OBVIOUS
<1>2. S \in SUBSET Int /\ S # {} /\ S \subseteq Nat
  BY <1>1
<1>3. IsFiniteSet(S)
  BY <1>1, FS_AddElement
<1>4. Max(S) \in S /\ \A x \in S : Max(S) >= x
  BY <1>2, <1>3, MaxIsGreatest
<1>5. Imap!Max(S) = Max(S)
  BY DEF Imap!Max, Max
<1> QED  BY <1>1, <1>2, <1>4, <1>5

\* What a live search finds.
ImapFound(s, incremental) ==
  IF incremental THEN Imap!Smallest({u \in Imap!Messages : u > s.last}, Limit)
  ELSE Imap!Largest({u \in Imap!Messages : imap_inbox[u] >= imap_today - s.days}, Limit)

\* A live search skips nothing that is ahead of it.
LEMMA ImapSearch ==
  ASSUME ImapInv, NEW p \in Imap!Passes, NEW s, s = imap_pass[p], s.phase = "open",
         NEW incremental, incremental = Imap!ValidCheckpoint(s.root, s.last),
         NEW found, found = ImapFound(s, incremental),
         NEW floor, floor = IF incremental THEN s.last ELSE 0,
         NEW top, top = Imap!Max(found \union {floor})
  PROVE  /\ found \subseteq Imap!Messages
         /\ top \in Imap!Uids /\ top <= Len(imap_inbox)
         /\ \A u \in Imap!Messages : ImapAhead(u) => top # 0 /\ (u > top \/ u \in found)
<1>1. s = imap_pass[p]
  OBVIOUS
<1>2. /\ s \in Imap!PassStates /\ ImapKnown(s) /\ s.phase = "open"
      /\ s.root \in Imap!Validities /\ s.last \in Imap!Uids
  BY <1>1, ImapKept, ImapPassForms
<1>3. s.last \in Nat /\ Limit \in Nat \ {0}
  BY <1>2, HistoryAssumption DEF Imap!Uids
<1>4. PICK S : S = IF incremental THEN {u \in Imap!Messages : u > s.last}
                   ELSE {u \in Imap!Messages : imap_inbox[u] >= imap_today - s.days}
  OBVIOUS
<1>5. S \in SUBSET Int /\ S \subseteq Imap!Messages
  BY <1>4, ImapMailbox
<1>6. IsFiniteSet(S)
  BY <1>5, ImapMailbox, FS_Subset
<1>7. /\ Imap!Smallest(S, Limit) = Smallest(S, Limit) /\ Imap!Largest(S, Limit) = Largest(S, Limit)
  BY DEF Imap!Smallest, Smallest, Imap!Largest, Largest, Imap!Cardinality, Cardinality
<1>8. found = IF incremental THEN Smallest(S, Limit) ELSE Largest(S, Limit)
  BY <1>1, <1>4, <1>7 DEF ImapFound
<1>9. /\ Smallest(S, Limit) \subseteq S /\ Largest(S, Limit) \subseteq S
      /\ \A x \in Smallest(S, Limit), y \in S \ Smallest(S, Limit) : x < y
  BY <1>3, <1>5, <1>6, SmallestIsPage, LargestIsPage
<1>10. found \subseteq Imap!Messages /\ found \in SUBSET Nat
  BY <1>5, <1>8, <1>9, ImapMailbox
<1>11. floor \in Nat /\ floor <= Len(imap_inbox) /\ (incremental => floor > 0 /\ floor = s.last)
  <2>1. CASE incremental
    <3>1. s.root = imap_validity /\ s.last > 0
      BY <1>1, <2>1 DEF Imap!ValidCheckpoint
    <3> QED  BY <1>1, <1>2, <1>3, <2>1, <3>1 DEF ImapKnown
  <2>2. CASE ~ incremental
    BY <2>2, ImapMailbox
  <2> QED  BY <2>1, <2>2 DEF Imap!ValidCheckpoint
<1>12. IsFiniteSet(found)
  BY <1>10, ImapMailbox, FS_Subset
<1>13. top \in found \union {floor} /\ \A x \in found \union {floor} : x <= top
  BY <1>10, <1>11, <1>12, TopOf
<1>14. top \in Nat /\ top <= Len(imap_inbox) /\ top \in Imap!Uids
  <2>1. \A u \in Imap!Messages : u <= Len(imap_inbox)
    BY ImapMailbox
  <2>2. top \in Nat /\ top <= Len(imap_inbox)
    BY <1>10, <1>11, <1>13, <2>1
  <2> QED  BY <2>2, ImapMailbox DEF Imap!Uids
<1>15. ASSUME NEW u \in Imap!Messages, ImapAhead(u)
       PROVE  top # 0 /\ (u > top \/ u \in found)
  <2>1. AheadOf(s, u)
    BY <1>1, <1>15, ImapAheadOf
  <2>2. incremental /\ u > s.last
    BY <1>1, <1>2, <2>1 DEF AheadOf
  <2>3. top # 0
    <3>1. floor <= top /\ floor > 0
      BY <1>11, <1>13, <2>2
    <3> QED  BY <1>11, <1>14, <3>1
  <2>4. u \in S /\ u \in Nat
    BY <1>4, <2>2, ImapMailbox
  <2>5. ASSUME u \notin found
        PROVE  u > top
    <3>1. \A x \in found : x < u
      BY <1>8, <1>9, <2>2, <2>4, <2>5
    <3> QED  BY <1>11, <1>13, <2>2, <3>1
  <2> QED  BY <2>3, <2>5
<1> QED  BY <1>10, <1>14, <1>15

LEMMA ImapSearchLive ==
  ASSUME ImapInv, NEW p \in Imap!Passes, Imap!SearchLive(p)
  PROVE  ImapInv'
<1>1. PICK s : s = imap_pass[p]
  OBVIOUS
<1>2. s \in Imap!PassStates /\ s.phase = "open" /\ s.days \in Spans /\ s.root \in Imap!Validities
  BY <1>1, ImapKept, ImapPassForms DEF Imap!SearchLive
<1>3. PICK incremental : incremental = Imap!ValidCheckpoint(s.root, s.last)
  OBVIOUS
<1>4. PICK found : found = ImapFound(s, incremental)
  OBVIOUS
<1>5. PICK floor : floor = IF incremental THEN s.last ELSE 0
  OBVIOUS
<1>6. PICK top : top = Imap!Max(found \union {floor})
  OBVIOUS
<1>7. PICK after : after = IF p = "request" THEN Imap!Idle
                           ELSE [phase |-> "planning", days |-> s.days, root |-> s.root]
  OBVIOUS
<1>8. PICK t : t = [phase |-> "live", todo |-> found \ imap_stored, top |-> top, after |-> after]
  OBVIOUS
<1>9. /\ Imap!Move(p, t)
      /\ UNCHANGED <<imap_today, days, imap_validity, imap_inbox, imap_history, imap_late>>
      /\ UNCHANGED <<imap_stored, imap_root, imap_last>>
  BY <1>1, <1>3, <1>4, <1>5, <1>6, <1>7, <1>8
     DEF Imap!SearchLive, ImapFound, Imap!mailbox, Imap!account
<1>10. /\ found \subseteq Imap!Messages
       /\ top \in Imap!Uids /\ top <= Len(imap_inbox)
       /\ \A u \in Imap!Messages : ImapAhead(u) => top # 0 /\ (u > top \/ u \in found)
  BY <1>1, <1>2, <1>3, <1>4, <1>5, <1>6, ImapSearch
<1>11. after \in {Imap!Idle} \union Imap!Planning
  BY <1>2, <1>7, ImapPassForms
<1>12. /\ t \in Imap!PassStates
  <2>1. found \ imap_stored \in SUBSET Imap!Uids
    BY <1>10, ImapMailbox
  <2> QED  BY <1>8, <1>10, <1>11, <2>1, ImapPassForms
<1>13. t.phase = "live" /\ t.todo = found \ imap_stored /\ t.top = top
  BY <1>8
<1>14. ImapKnown(t)
  BY <1>10, <1>13 DEF ImapKnown
<1>15. p = "request" => t.after.phase = "idle"
  BY <1>7, <1>8, ImapPassForms
<1>16. ASSUME NEW u \in Imap!Messages \ imap_stored, ImapAhead(u)
       PROVE  AheadOf(t, u) /\ imap_root = imap_validity /\ imap_last > 0 /\ u > imap_last
  BY <1>10, <1>13, <1>16, ImapAheadOf DEF AheadOf
<1> QED  BY <1>9, <1>12, <1>13, <1>14, <1>16, <1>15, ImapKept, ImapLiveStep

LEMMA ImapSave ==
  ASSUME ImapInv, NEW p \in Imap!Passes, Imap!Save(p)
  PROVE  ImapInv'
<1>1. PICK s : s = imap_pass[p]
  OBVIOUS
<1>2. PICK m \in s.todo \ imap_stored :
        imap_stored' = imap_stored \union {m} /\ Imap!Move(p, [s EXCEPT !.todo = @ \ {m}])
  BY <1>1 DEF Imap!Save
<1>3. PICK t : t = [s EXCEPT !.todo = @ \ {m}]
  OBVIOUS
<1>4. /\ Imap!Move(p, t) /\ s.phase \in {"live", "page"}
      /\ UNCHANGED <<imap_today, days, imap_validity, imap_inbox, imap_history, imap_late>>
      /\ UNCHANGED <<imap_root, imap_last>>
  BY <1>1, <1>2, <1>3 DEF Imap!Save, Imap!mailbox, Imap!account
<1>5. s \in Imap!PassStates /\ ImapKnown(s)
  BY <1>1, ImapKept
<1>6. /\ t.phase = s.phase /\ t.todo = s.todo \ {m} /\ t \in Imap!PassStates
      /\ s.phase = "live" => t.top = s.top /\ t.after = s.after
      /\ s.phase = "page" => t.next = s.next
  <2>1. CASE s.phase = "live"
    <3>1. PICK d, l, a : /\ s = [phase |-> "live", todo |-> d, top |-> l, after |-> a]
                         /\ d \in SUBSET Imap!Uids /\ l \in Imap!Uids
                         /\ a \in {Imap!Idle} \union Imap!Planning
      BY <1>5, <2>1, ImapPassForms
    <3>2. t = [phase |-> "live", todo |-> d \ {m}, top |-> l, after |-> a]
      BY <1>3, <3>1
    <3>3. d \ {m} \in SUBSET Imap!Uids
      BY <3>1
    <3>4. t \in Imap!PassStates
      BY <3>1, <3>2, <3>3, ImapPassForms
    <3> QED  BY <3>1, <3>2, <3>4
  <2>2. CASE s.phase = "page"
    <3>1. PICK d, l : /\ s = [phase |-> "page", todo |-> d, next |-> l]
                      /\ d \in SUBSET Imap!Uids /\ l \in Imap!Uids
      BY <1>5, <2>2, ImapPassForms
    <3>2. t = [phase |-> "page", todo |-> d \ {m}, next |-> l]
      BY <1>3, <3>1
    <3>3. d \ {m} \in SUBSET Imap!Uids
      BY <3>1
    <3>4. t \in Imap!PassStates
      BY <3>1, <3>2, <3>3, ImapPassForms
    <3> QED  BY <3>1, <3>2, <3>4
  <2> QED  BY <1>4, <2>1, <2>2
<1>7. ImapKnown(t)
  BY <1>4, <1>5, <1>6 DEF ImapKnown
<1>8. m \in Imap!Messages /\ imap_stored' \subseteq Imap!Messages
  BY <1>2, <1>4, <1>5, ImapKept DEF ImapKnown
<1>9. ASSUME NEW u \in Imap!Messages \ imap_stored', ImapAhead(u)
      PROVE  AheadOf(t, u) /\ imap_root = imap_validity /\ imap_last > 0 /\ u > imap_last
  <2>1. AheadOf(s, u) /\ u # m
    BY <1>1, <1>2, <1>9, ImapAheadOf
  <2> QED  BY <1>4, <1>6, <1>9, <2>1, ImapAheadOf DEF AheadOf
<1>10. p = "request" => /\ t.phase \in {"idle", "open", "live"}
                        /\ t.phase = "live" => t.after.phase = "idle"
  BY <1>1, <1>6 DEF ImapInv, ImapTypes, Imap!TypeOK
<1>11. \/ t.phase \notin {"searching", "page"}
       \/ /\ t.phase = "page" /\ imap_pass[p].phase = "page"
          /\ t.next = imap_pass[p].next /\ imap_pass[p].todo \subseteq imap_stored' \union t.todo
  BY <1>1, <1>2, <1>4, <1>6
<1> QED  BY <1>2, <1>4, <1>6, <1>7, <1>8, <1>9, <1>10, <1>11, ImapKept, ImapLiveStep

LEMMA ImapEndLive ==
  ASSUME ImapInv, NEW p \in Imap!Passes, Imap!EndLive(p)
  PROVE  ImapInv'
<1>1. PICK s, t : s = imap_pass[p] /\ t = s.after
  OBVIOUS
<1>2. /\ s.phase = "live" /\ s.todo = {} /\ Imap!Move(p, t)
      /\ imap_root' = imap_validity /\ imap_last' = s.top
      /\ UNCHANGED <<imap_today, days, imap_validity, imap_inbox, imap_history, imap_late>>
      /\ UNCHANGED imap_stored
  BY <1>1 DEF Imap!EndLive, Imap!mailbox
<1>3. /\ s \in Imap!PassStates /\ ImapKnown(s) /\ s.top \in Imap!Uids
      /\ t \in {Imap!Idle} \union Imap!Planning
  BY <1>1, <1>2, ImapKept, ImapPassForms
<1>4. t \in Imap!PassStates /\ t.phase \in {"idle", "planning"}
  BY <1>3, ImapPassForms
<1>5. ImapKnown(t)
  BY <1>4 DEF ImapKnown
<1>6. s.top <= Len(imap_inbox)
  BY <1>2, <1>3 DEF ImapKnown
<1>7. ASSUME NEW u \in Imap!Messages \ imap_stored', ImapAhead(u)
      PROVE  AheadOf(t, u) /\ imap_root' = imap_validity /\ imap_last' > 0 /\ u > imap_last'
  <2>1. AheadOf(s, u) /\ s.top \in Nat
    BY <1>1, <1>3, <1>7, ImapAheadOf, HistoryAssumption DEF Imap!Uids
  <2>2. s.top > 0 /\ u > s.top
    BY <1>2, <2>1 DEF AheadOf
  <2> QED  BY <1>2, <1>4, <2>2 DEF AheadOf
<1>8. p = "request" => t.phase = "idle"
  BY <1>1, <1>2 DEF ImapInv, ImapTypes
<1>9. /\ imap_root' \in Imap!Validities /\ imap_last' \in Imap!Uids
      /\ imap_root' <= imap_validity /\ imap_last' <= Len(imap_inbox)
      /\ imap_stored \subseteq imap_stored' /\ imap_stored' \subseteq Imap!Messages
  BY <1>2, <1>3, <1>6, ImapKept, ImapMailbox
<1>10. t.phase \notin {"searching", "page"}
  BY <1>4
<1> QED  BY <1>2, <1>4, <1>5, <1>7, <1>8, <1>9, <1>10, ImapLiveStep

\* What is left to show of a step of the worker's history part.
LEMMA ImapHistoryStep ==
  ASSUME ImapInv, NEW s \in Imap!PassStates, Imap!Move("worker", s),
         s.phase \in {"idle", "searching", "page"}, ImapKnown(s),
         imap_pass["worker"].phase \in {"planning", "searching", "page"},
         UNCHANGED <<imap_today, days, imap_validity, imap_inbox, imap_stored>>,
         UNCHANGED <<imap_root, imap_last>>, imap_late' \subseteq imap_late,
         imap_history' \in Imap!Histories,
         imap_history'.tag <= imap_validity,
         imap_history'.tag = 0 => imap_history' = Imap!NoHistory,
         IsWindow(imap_history'.scanned), IsWindow(imap_history'.active),
         imap_history'.scanned \intersect imap_history'.active = {},
         \A u \in Imap!Messages \ imap_late' :
           ImapPassed(u)' => u \in imap_stored \/ ImapAhead(u),
         s.phase \in {"searching", "page"} =>
           imap_history'.tag = imap_validity /\ imap_history'.active # {},
         s.phase = "page" =>
           \A u \in Imap!Messages \ imap_late' :
             imap_inbox[u] \in imap_history'.active /\ u < imap_history'.before =>
               \/ u \in imap_stored \union s.todo
               \/ ImapAhead(u)
               \/ s.next # 0 /\ u < s.next
  PROVE  ImapInv'
<1>1. /\ imap_pass \in [Imap!Passes -> Imap!PassStates] /\ ImapTypes /\ ImapState
      /\ Imap!Passes = {"worker", "request"}
  BY DEF ImapInv, ImapTypes, Imap!Passes
<1>2. /\ imap_pass' \in [Imap!Passes -> Imap!PassStates] /\ imap_pass'["worker"] = s
      /\ imap_pass'["request"] = imap_pass["request"]
  BY <1>1 DEF Imap!Move
<1>3. Imap!Messages' = Imap!Messages
  BY DEF Imap!Messages
<1>4. ImapTypes'
  <2>1. \A q \in Imap!Passes : imap_pass'[q] \in Imap!PassStates
    BY <1>2
  <2>2. imap_late' \subseteq Imap!Messages
    BY <1>1 DEF ImapTypes, Imap!TypeOK
  <2> QED  BY <1>1, <1>2, <1>3, <2>1, <2>2 DEF ImapTypes, Imap!TypeOK
<1>5. ImapState'
  BY <1>1 DEF ImapState
<1>6. \A q \in Imap!Passes : ImapKnown(imap_pass[q])'
  <2>1. \A q \in Imap!Passes : ImapKnown(imap_pass'[q])
    BY <1>1, <1>2 DEF ImapInv
  <2> QED  BY <1>3, <2>1 DEF ImapKnown
<1>7. ASSUME NEW u \in Imap!Messages, ImapAhead(u)
      PROVE  ImapAhead(u)'
  <2>1. \A q \in Imap!Passes : AheadOf(imap_pass'[q], u)
    <3>1. AheadOf(s, u)
      BY DEF AheadOf
    <3> QED  BY <1>1, <1>2, <1>7, <3>1 DEF ImapAhead
  <2>2. (Imap!ValidCheckpoint(imap_root, imap_last) /\ u > imap_last)'
    BY <1>7 DEF ImapAhead, Imap!ValidCheckpoint
  <2> QED  BY <2>1, <2>2 DEF ImapAhead, AheadOf, Imap!ValidCheckpoint
<1>8. ImapAtHand(imap_pass["worker"])'
  BY <1>2, <1>3, <1>7 DEF ImapAtHand
<1>9. \A u \in Imap!Messages' \ imap_late' :
        ImapPassed(u)' => u \in imap_stored' \/ ImapAhead(u)'
  BY <1>3, <1>7
<1> QED  BY <1>4, <1>5, <1>6, <1>8, <1>9 DEF ImapInv

LEMMA ImapHistories ==
  /\ Imap!NoHistory \in Imap!Histories
  /\ Imap!NoHistory.scanned = {} /\ Imap!NoHistory.active = {} /\ Imap!NoHistory.tag = 0
  /\ \A h \in Imap!Histories :
       /\ h = [scanned |-> h.scanned, active |-> h.active, before |-> h.before,
               days |-> h.days, tag |-> h.tag]
       /\ h.scanned \in SUBSET Days /\ h.active \in SUBSET Days
       /\ h.before \in 0 .. (MaxItems + 1) /\ h.days \in {0} \union Spans
       /\ h.tag \in Imap!Validities
  /\ \A s, a \in SUBSET Days : \A b \in 0 .. (MaxItems + 1) :
       \A n \in {0} \union Spans : \A v \in Imap!Validities :
         [scanned |-> s, active |-> a, before |-> b, days |-> n, tag |-> v] \in Imap!Histories
<1>1. MaxItems \in Nat /\ MaxRenumberings \in Nat
  BY HistoryAssumption, BoundsAssumption
<1>2. Imap!Days = Days
  BY ImapWindows
<1> QED  BY <1>1, <1>2 DEF Imap!NoHistory, Imap!Histories, Imap!Validities

LEMMA ImapSearchPage ==
  ASSUME ImapInv, Imap!SearchPage
  PROVE  ImapInv'
<1>1. PICK w, h : w = imap_pass["worker"] /\ h = imap_history
  OBVIOUS
<1>2. PICK listed :
        listed = {u \in Imap!Messages : imap_inbox[u] \in h.active /\ u < h.before}
  OBVIOUS
<1>3. PICK shown : shown = Imap!Largest(listed, Limit)
  OBVIOUS
<1>4. PICK next : next = IF shown = listed THEN 0 ELSE Imap!Min(shown)
  OBVIOUS
<1>5. PICK t : t = [phase |-> "page", todo |-> shown \ imap_stored, next |-> next]
  OBVIOUS
<1>6. /\ w.phase = "searching" /\ Imap!Move("worker", t)
      /\ UNCHANGED <<imap_today, days, imap_validity, imap_inbox, imap_stored>>
      /\ UNCHANGED <<imap_root, imap_last, imap_late, imap_history>>
  BY <1>1, <1>2, <1>3, <1>4, <1>5 DEF Imap!SearchPage, Imap!mailbox, Imap!account
<1>7. listed \subseteq Imap!Messages /\ listed \in SUBSET Int /\ Limit \in Nat \ {0}
  BY <1>2, ImapMailbox, HistoryAssumption
<1>8. IsFiniteSet(listed)
  BY <1>7, ImapMailbox, FS_Subset
<1>9. /\ shown \subseteq listed /\ (listed # {} => shown # {})
      /\ \A x \in shown, y \in listed \ shown : y < x
  <2>1. Imap!Largest(listed, Limit) = Largest(listed, Limit)
    BY DEF Imap!Largest, Largest, Imap!Cardinality, Cardinality
  <2> QED  BY <1>3, <1>7, <1>8, <2>1, LargestIsPage
<1>10. next \in Imap!Uids /\ \A u \in listed \ shown : next # 0 /\ u < next
  <2>1. CASE shown = listed
    BY <1>4, <2>1, HistoryAssumption DEF Imap!Uids
  <2>2. CASE shown # listed
    <3>1. shown # {} /\ shown \in SUBSET Int
      BY <1>7, <1>9, <2>2
    <3>2. IsFiniteSet(shown)
      BY <1>8, <1>9, FS_Subset
    <3>3. Min(shown) \in shown
      BY <3>1, <3>2, MinIsLeast
    <3>4. Imap!Min(shown) = Min(shown)
      BY DEF Imap!Min, Min
    <3>5. next \in shown
      BY <1>4, <2>2, <3>3, <3>4
    <3>6. next \in Imap!Messages
      BY <1>7, <1>9, <3>5
    <3>7. next \in Imap!Uids /\ next # 0
      BY <3>6, ImapMailbox
    <3> QED  BY <1>9, <3>5, <3>7
  <2> QED  BY <2>1, <2>2
<1>11. t \in Imap!PassStates /\ t.phase = "page" /\ t.todo = shown \ imap_stored /\ t.next = next
  <2>1. shown \ imap_stored \in SUBSET Imap!Uids
    BY <1>7, <1>9, ImapMailbox
  <2> QED  BY <1>5, <1>10, <2>1, ImapPassForms
<1>12. ImapKnown(t)
  BY <1>7, <1>9, <1>11 DEF ImapKnown
<1>13. h.tag = imap_validity /\ h.active # {}
  BY <1>1, <1>6 DEF ImapInv, ImapAtHand
<1>14. ASSUME NEW u \in Imap!Messages, imap_inbox[u] \in h.active, u < h.before
       PROVE  u \in imap_stored \union t.todo \/ (t.next # 0 /\ u < t.next)
  BY <1>2, <1>10, <1>11, <1>14
<1>15. h \in Imap!Histories /\ ImapState
  BY <1>1, ImapKept DEF ImapInv
<1>16. \A u \in Imap!Messages \ imap_late : ImapPassed(u)' => u \in imap_stored \/ ImapAhead(u)
  BY <1>6 DEF ImapInv, ImapPassed
<1> QED  BY <1>1, <1>6, <1>11, <1>12, <1>13, <1>14, <1>15, <1>16, ImapHistoryStep DEF ImapState

LEMMA ImapFinishPage ==
  ASSUME ImapInv, Imap!FinishPage
  PROVE  ImapInv'
<1>1. PICK w, h, k : w = imap_pass["worker"] /\ h = imap_history /\ k = imap_history'
  OBVIOUS
<1>2. PICK all : all = Extended(h.scanned, h.active, h.scanned)
  OBVIOUS
<1>3. /\ w.phase = "page" /\ w.todo = {} /\ Imap!Move("worker", Imap!Idle)
      /\ k = IF w.next # 0 THEN [h EXCEPT !.before = w.next]
             ELSE [h EXCEPT !.scanned = all, !.active = {}, !.before = 0, !.days = 0]
      /\ UNCHANGED <<imap_today, days, imap_validity, imap_inbox, imap_stored>>
      /\ UNCHANGED <<imap_root, imap_last, imap_late>>
  BY <1>1, <1>2, ImapWindows DEF Imap!FinishPage, Imap!mailbox
<1>4. /\ h \in Imap!Histories /\ IsWindow(h.scanned) /\ IsWindow(h.active)
      /\ h.scanned \intersect h.active = {} /\ h.tag = imap_validity /\ h.active # {}
      /\ w \in Imap!PassStates
  BY <1>1, <1>3, ImapKept DEF ImapInv, ImapState, ImapAtHand, Imap!Passes
<1>5. IsWindow(all) /\ all \subseteq h.scanned \union h.active
  BY <1>2, <1>4, ExtendedIsWindow
<1>6. w.next \in 0 .. (MaxItems + 1) /\ 0 \in 0 .. (MaxItems + 1)
  <2>1. w.next \in Imap!Uids /\ MaxItems \in Nat
    BY <1>3, <1>4, ImapPassForms, HistoryAssumption, BoundsAssumption
  <2> QED  BY <2>1 DEF Imap!Uids
<1>7. /\ k \in Imap!Histories /\ k.tag = h.tag
      /\ w.next # 0 => k.scanned = h.scanned /\ k.active = h.active /\ k.before = w.next
      /\ w.next = 0 => k.scanned = all /\ k.active = {}
  <2>1. PICK s, a, b, n, v :
          /\ h = [scanned |-> s, active |-> a, before |-> b, days |-> n, tag |-> v]
          /\ s \in SUBSET Days /\ a \in SUBSET Days /\ b \in 0 .. (MaxItems + 1)
          /\ n \in {0} \union Spans /\ v \in Imap!Validities
    BY <1>4, ImapHistories
  <2>2. CASE w.next # 0
    <3>1. k = [scanned |-> s, active |-> a, before |-> w.next, days |-> n, tag |-> v]
      BY <1>3, <2>1, <2>2
    <3>2. k \in Imap!Histories
      BY <1>6, <2>1, <3>1, ImapHistories
    <3> QED  BY <2>1, <2>2, <3>1, <3>2
  <2>3. CASE w.next = 0
    <3>1. k = [scanned |-> all, active |-> {}, before |-> 0, days |-> 0, tag |-> v]
      BY <1>3, <2>1, <2>3
    <3>2. all \in SUBSET Days
      BY <1>5, <2>1
    <3>3. k \in Imap!Histories
      BY <1>6, <2>1, <3>1, <3>2, ImapHistories
    <3> QED  BY <2>1, <2>3, <3>1, <3>3
  <2> QED  BY <2>2, <2>3
<1>8. /\ IsWindow(k.scanned) /\ IsWindow(k.active) /\ k.scanned \intersect k.active = {}
  BY <1>4, <1>5, <1>7, EmptyIsWindow
<1>9. imap_validity \in Nat \ {0} /\ \A u \in Imap!Messages : u \in Nat
  BY ImapMailbox
<1>10. ASSUME NEW u \in Imap!Messages \ imap_late, ImapPassed(u)'
       PROVE  u \in imap_stored \/ ImapAhead(u)
  <2>1. /\ imap_inbox[u] \in k.scanned \union k.active
        /\ ~ (imap_inbox[u] \in k.active /\ u < k.before)
    BY <1>1, <1>3, <1>10 DEF ImapPassed
  <2>2. imap_inbox[u] \in h.scanned \union h.active
    BY <1>5, <1>7, <2>1
  <2>3. CASE imap_inbox[u] \in h.active /\ u < h.before
    <3>1. \/ u \in imap_stored \union w.todo
          \/ ImapAhead(u)
          \/ w.next # 0 /\ u < w.next
      BY <1>1, <1>3, <2>3 DEF ImapInv, ImapAtHand
    <3>2. ~ (w.next # 0 /\ u < w.next)
      BY <1>7, <2>1, <2>3
    <3> QED  BY <1>3, <3>1, <3>2
  <2>4. CASE ~ (imap_inbox[u] \in h.active /\ u < h.before)
    <3>1. ImapPassed(u)
      BY <1>1, <1>4, <2>2, <2>4 DEF ImapPassed
    <3> QED  BY <3>1 DEF ImapInv
  <2> QED  BY <2>3, <2>4
<1>11. Imap!Idle \in Imap!PassStates /\ Imap!Idle.phase = "idle" /\ ImapKnown(Imap!Idle)
  BY ImapPassForms DEF ImapKnown
<1>12. k.tag <= imap_validity /\ k.tag # 0
  BY <1>4, <1>7, <1>9
<1> QED  BY <1>1, <1>3, <1>7, <1>8, <1>10, <1>11, <1>12, ImapHistoryStep

LEMMA ImapPlanHistory ==
  ASSUME ImapInv, Imap!PlanHistory
  PROVE  ImapInv'
<1>1. PICK w, g, h : /\ w = imap_pass["worker"] /\ g = imap_history
                     /\ h = Imap!Current(imap_history, w.root)
  OBVIOUS
<1>2. PICK window, desired : /\ window = Planned(h.scanned, desired)
                             /\ desired = Desired(imap_today, w.days)
  OBVIOUS
<1>3. PICK goesOn : goesOn = (h.active # {} /\ w.days >= h.days)
  OBVIOUS
<1>4. PICK k : k = imap_history'
  OBVIOUS
<1>5. PICK t : t = IF goesOn \/ window # {} THEN [phase |-> "searching"] ELSE Imap!Idle
  OBVIOUS
<1>6. /\ w.phase = "planning" /\ Imap!Move("worker", t)
      /\ k = CASE goesOn -> h
               [] ~ goesOn /\ window = {} -> [h EXCEPT !.active = {}, !.before = 0, !.days = 0]
               [] OTHER -> [h EXCEPT !.active = window, !.before = MaxItems + 1,
                                     !.days = w.days, !.tag = imap_validity]
      /\ imap_late' = IF goesOn THEN imap_late
                      ELSE {u \in imap_late : imap_inbox[u] \in h.scanned}
      /\ UNCHANGED <<imap_today, days, imap_validity, imap_inbox, imap_stored>>
      /\ UNCHANGED <<imap_root, imap_last>>
  BY <1>1, <1>2, <1>3, <1>4, <1>5, ImapWindows DEF Imap!PlanHistory, Imap!mailbox
<1>7. /\ w.days \in Spans /\ g \in Imap!Histories /\ ImapState /\ imap_validity \in Nat \ {0}
      /\ imap_validity \in Imap!Validities /\ imap_today \in 0 .. LastDay /\ MaxItems \in Nat
  BY <1>1, <1>6, ImapKept, ImapPassForms, ImapMailbox, HistoryAssumption, BoundsAssumption
     DEF ImapInv, Imap!Passes
<1>8. h = Imap!NoHistory \/ (h = g /\ g.tag = imap_validity)
  BY <1>1, <1>7 DEF Imap!Current, ImapState
<1>9. /\ h \in Imap!Histories /\ IsWindow(h.scanned) /\ IsWindow(h.active)
      /\ h.scanned \in SUBSET Days
      /\ h.scanned \intersect h.active = {} /\ h.tag <= imap_validity
      /\ h.scanned # {} \/ h.active # {} => h.tag = imap_validity /\ h = g
  <2>1. CASE h = Imap!NoHistory
    BY <1>7, <2>1, ImapHistories, EmptyIsWindow
  <2>2. CASE h = g /\ g.tag = imap_validity
    BY <1>1, <1>7, <2>2, ImapHistories DEF ImapState
  <2> QED  BY <1>8, <2>1, <2>2
<1>10. IsWindow(desired) /\ desired # {} /\ desired \in SUBSET Days
  BY <1>2, <1>7, DesiredWindow
<1>11. /\ IsWindow(window) /\ window \intersect h.scanned = {} /\ window \in SUBSET Days
       /\ h.scanned = {} => window # {}
  <2>1. IsWindow(window) /\ window \intersect h.scanned = {}
    BY <1>2, <1>9, <1>10, PlannedIsApart
  <2>2. window \subseteq Days
    BY <1>2, <1>9, <1>10, PlannedInDays
  <2>3. h.scanned = {} => window # {}
    BY <1>2, <1>10 DEF Planned
  <2> QED  BY <2>1, <2>2, <2>3
<1>12. t \in Imap!PassStates /\ t.phase \in {"idle", "searching"} /\ ImapKnown(t)
       /\ (t.phase = "searching" => goesOn \/ window # {})
  BY <1>5, ImapPassForms DEF ImapKnown
<1>13. /\ imap_late' \subseteq imap_late
       /\ \A u \in Imap!Messages \ imap_late' :
            u \notin imap_late \/ (~ goesOn /\ imap_inbox[u] \notin h.scanned)
  BY <1>6
<1>14. /\ k \in Imap!Histories /\ k.scanned = h.scanned
       /\ goesOn => k = h
       /\ ~ goesOn /\ window = {} => k.active = {} /\ k.tag = h.tag
       /\ ~ goesOn /\ window # {} =>
            k.active = window /\ k.before = MaxItems + 1 /\ k.tag = imap_validity
  <2>1. PICK s, a, b, n, v :
          /\ h = [scanned |-> s, active |-> a, before |-> b, days |-> n, tag |-> v]
          /\ s \in SUBSET Days /\ a \in SUBSET Days /\ b \in 0 .. (MaxItems + 1)
          /\ n \in {0} \union Spans /\ v \in Imap!Validities
    BY <1>9, ImapHistories
  <2>2. {} \in SUBSET Days /\ 0 \in 0 .. (MaxItems + 1) /\ MaxItems + 1 \in 0 .. (MaxItems + 1)
    BY <1>7
  <2>3. CASE goesOn
    BY <1>6, <1>9, <2>3
  <2>4. CASE ~ goesOn /\ window = {}
    <3>1. k = [scanned |-> s, active |-> {}, before |-> 0, days |-> 0, tag |-> v]
      BY <1>6, <2>1, <2>4
    <3>2. k \in Imap!Histories
      BY <2>1, <2>2, <3>1, ImapHistories
    <3> QED  BY <2>1, <2>4, <3>1, <3>2
  <2>5. CASE ~ goesOn /\ window # {}
    <3>1. k = [scanned |-> s, active |-> window, before |-> MaxItems + 1, days |-> w.days,
               tag |-> imap_validity]
      BY <1>6, <2>1, <2>5
    <3>2. w.days \in {0} \union Spans
      BY <1>7
    <3>3. k \in Imap!Histories
      BY <1>7, <1>11, <2>1, <2>2, <3>1, <3>2, ImapHistories
    <3> QED  BY <2>1, <2>5, <3>1, <3>3
  <2> QED  BY <2>3, <2>4, <2>5
<1>15. goesOn => h.active # {} /\ h = g /\ h.tag = imap_validity
  BY <1>3, <1>9
<1>16. /\ IsWindow(k.scanned) /\ IsWindow(k.active) /\ k.scanned \intersect k.active = {}
       /\ k.tag <= imap_validity
  <2>1. CASE goesOn
    BY <1>9, <1>14, <2>1
  <2>2. CASE ~ goesOn /\ window = {}
    <3>1. k.scanned = h.scanned /\ k.active = {} /\ k.tag = h.tag
      BY <1>14, <2>2
    <3> QED  BY <1>9, <3>1, EmptyIsWindow
  <2>3. CASE ~ goesOn /\ window # {}
    <3>1. k.scanned = h.scanned /\ k.active = window /\ k.tag = imap_validity
      BY <1>14, <2>3
    <3> QED  BY <1>7, <1>9, <1>11, <3>1
  <2> QED  BY <2>1, <2>2, <2>3
<1>17. k.tag = 0 => k = Imap!NoHistory
  <2>1. CASE goesOn
    BY <1>7, <1>14, <1>15, <2>1
  <2>2. CASE ~ goesOn /\ window = {}
    <3>1. h.scanned # {}
      BY <1>11, <2>2
    <3> QED  BY <1>7, <1>9, <1>14, <2>2, <3>1
  <2>3. CASE ~ goesOn /\ window # {}
    BY <1>7, <1>14, <2>3
  <2> QED  BY <2>1, <2>2, <2>3
<1>18. ASSUME NEW u \in Imap!Messages \ imap_late', ImapPassed(u)'
       PROVE  u \in imap_stored \/ ImapAhead(u)
  <2>1. /\ imap_inbox[u] \in k.scanned \union k.active
        /\ ~ (imap_inbox[u] \in k.active /\ u < k.before)
    BY <1>4, <1>6, <1>18 DEF ImapPassed
  <2>2. u < MaxItems + 1
    BY ImapMailbox
  <2>3. CASE goesOn
    <3>1. ImapPassed(u)
      BY <1>1, <1>14, <1>15, <2>1, <2>3 DEF ImapPassed
    <3>2. u \notin imap_late
      BY <1>6, <1>18, <2>3
    <3> QED  BY <3>1, <3>2 DEF ImapInv
  <2>4. CASE ~ goesOn
    <3>1. imap_inbox[u] \in h.scanned
      BY <1>14, <2>1, <2>2, <2>4
    <3>2. h = g /\ h.tag = imap_validity /\ imap_inbox[u] \notin h.active
      BY <1>9, <3>1
    <3>3. ImapPassed(u)
      BY <1>1, <3>1, <3>2 DEF ImapPassed
    <3>4. u \notin imap_late
      BY <1>13, <1>18, <3>1
    <3> QED  BY <3>3, <3>4 DEF ImapInv
  <2> QED  BY <2>3, <2>4
<1>19. t.phase = "searching" => k.tag = imap_validity /\ k.active # {}
  BY <1>12, <1>14, <1>15
<1> QED
  BY <1>1, <1>4, <1>6, <1>12, <1>13, <1>14, <1>16, <1>17, <1>18, <1>19, ImapHistoryStep

\* The clock and the user leave both sets of books alone.
LEMMA ImapSurroundings ==
  ASSUME ImapInv, Imap!NextDay \/ Imap!SetHistoryDays \/ UNCHANGED <<imapVars, days>>
  PROVE  ImapInv'
<1>1. UNCHANGED <<imap_validity, imap_inbox, imap_stored, imap_root, imap_last, imap_history,
                  imap_pass, imap_late>>
  BY DEF Imap!NextDay, Imap!SetHistoryDays, imapVars, Imap!account
<1>2. imap_today' \in 0 .. LastDay /\ days' \in Spans
  <2>1. LastDay \in Nat /\ imap_today \in 0 .. LastDay /\ days \in Spans
    BY HistoryAssumption, ImapKept
  <2> QED  BY <2>1 DEF Imap!NextDay, Imap!SetHistoryDays, imapVars
<1>3. ImapTypes'
  BY <1>1, <1>2 DEF ImapInv, ImapTypes, Imap!TypeOK, Imap!Messages
<1>4. Imap!Messages' = Imap!Messages
  BY <1>1 DEF Imap!Messages
<1>5. \A u : /\ ImapPassed(u)' <=> ImapPassed(u)
             /\ ImapAhead(u)' <=> ImapAhead(u)
  BY <1>1 DEF ImapPassed, ImapAhead, AheadOf, Imap!ValidCheckpoint
<1>6. ImapAtHand(imap_pass["worker"])'
  BY <1>1, <1>4, <1>5 DEF ImapInv, ImapAtHand
<1>7. ImapState' /\ \A p \in Imap!Passes : ImapKnown(imap_pass[p])'
  BY <1>1, <1>4 DEF ImapInv, ImapState, ImapKnown
<1> QED  BY <1>1, <1>3, <1>4, <1>5, <1>6, <1>7 DEF ImapInv

LEMMA ImapArrive ==
  ASSUME ImapInv, Imap!Arrive
  PROVE  ImapInv'
<1>1. UNCHANGED <<imap_today, days, imap_validity, imap_stored, imap_root, imap_last,
                  imap_history, imap_pass>>
  BY DEF Imap!Arrive, Imap!account
<1>2. /\ Len(imap_inbox) \in Nat /\ Len(imap_inbox) < MaxItems
      /\ imap_inbox \in Seq(0 .. LastDay) /\ imap_today \in 0 .. LastDay
      /\ imap_stored \subseteq Imap!Messages /\ imap_late \subseteq Imap!Messages
      /\ MaxItems \in Nat /\ imap_inbox' = Append(imap_inbox, imap_today)
  BY ImapMailbox, ImapKept DEF ImapInv, ImapTypes, Imap!TypeOK, Imap!Arrive
<1>3. PICK new : new = Len(imap_inbox) + 1
  OBVIOUS
<1>4. /\ imap_inbox' \in Seq(0 .. LastDay) /\ Len(imap_inbox') = new
      /\ Imap!Messages = 1 .. Len(imap_inbox)
      /\ Imap!Messages' = Imap!Messages \union {new} /\ imap_inbox'[new] = imap_today
      /\ \A m \in Imap!Messages : imap_inbox'[m] = imap_inbox[m]
  BY <1>2, <1>3 DEF Imap!Messages
<1>5. imap_late' = IF Imap!Begun /\ Imap!Unmarked THEN imap_late \union {new} ELSE imap_late
  BY <1>3 DEF Imap!Arrive
<1>6. new <= MaxItems /\ new \in Nat
  BY <1>2, <1>3
<1>7. ImapTypes'
  <2>1. imap_stored \subseteq Imap!Messages' /\ imap_late' \subseteq Imap!Messages'
    BY <1>2, <1>4, <1>5
  <2> QED  BY <1>1, <1>4, <1>6, <2>1 DEF ImapInv, ImapTypes, Imap!TypeOK
<1>8. ImapState'
  BY <1>1, <1>2, <1>3, <1>4, ImapMailbox DEF ImapInv, ImapState
<1>9. \A p \in Imap!Passes : ImapKnown(imap_pass[p])'
  <2>1. ASSUME NEW p \in Imap!Passes
        PROVE  ImapKnown(imap_pass[p])'
    <3>1. PICK s : s = imap_pass[p]
      OBVIOUS
    <3>2. ImapKnown(s) /\ s \in Imap!PassStates
      BY <3>1, ImapKept
    <3>3. s.phase = "open" => s.last \in Nat
      BY <1>2, <3>2, ImapPassForms DEF Imap!Uids
    <3>4. s.phase = "live" => s.top \in Nat
      BY <1>2, <3>2, ImapPassForms DEF Imap!Uids
    <3>5. ImapKnown(s)'
      BY <1>1, <1>2, <1>3, <1>4, <3>2, <3>3, <3>4 DEF ImapKnown
    <3> QED  BY <1>1, <3>1, <3>5
  <2> QED  BY <2>1
<1>10. \A u : ImapAhead(u)' <=> ImapAhead(u)
  BY <1>1 DEF ImapAhead, AheadOf, Imap!ValidCheckpoint
<1>11. Imap!Begun /\ ~ Imap!Unmarked => ImapAhead(new)
  <2> SUFFICES ASSUME ~ Imap!Unmarked PROVE ImapAhead(new)
    OBVIOUS
  <2>1. Imap!ValidCheckpoint(imap_root, imap_last)
    BY DEF Imap!Unmarked
  <2>2. new > imap_last
    BY <1>2, <1>3, <2>1, ImapKept, ImapMailbox DEF Imap!ValidCheckpoint
  <2>3. ASSUME NEW p \in Imap!Passes
        PROVE  AheadOf(imap_pass[p], new)
    <3>1. PICK s : s = imap_pass[p]
      OBVIOUS
    <3>2. ImapKnown(s) /\ s \in Imap!PassStates
      BY <3>1, ImapKept
    <3>3. s.phase = "open" => Imap!ValidCheckpoint(s.root, s.last)
      BY <3>1 DEF Imap!Unmarked
    <3>4. s.phase = "live" => s.top # 0
      BY <3>1 DEF Imap!Unmarked
    <3>5. s.phase = "open" => new > s.last
      <4>1. s.phase = "open" => s.last \in Nat
        BY <1>2, <3>2, ImapPassForms DEF Imap!Uids
      <4> QED  BY <1>2, <1>3, <3>2, <3>3, <4>1 DEF ImapKnown, Imap!ValidCheckpoint
    <3>6. s.phase = "live" => new > s.top
      <4>1. s.phase = "live" => s.top \in Nat
        BY <1>2, <3>2, ImapPassForms DEF Imap!Uids
      <4> QED  BY <1>2, <1>3, <3>2, <4>1 DEF ImapKnown
    <3> QED  BY <3>1, <3>3, <3>4, <3>5, <3>6 DEF AheadOf
  <2> QED  BY <2>1, <2>2, <2>3 DEF ImapAhead
<1>12. \A u \in Imap!Messages' \ imap_late' :
         \/ u \in Imap!Messages \ imap_late /\ imap_inbox'[u] = imap_inbox[u]
         \/ u = new /\ (~ Imap!Begun \/ ImapAhead(new))
  BY <1>4, <1>5, <1>11
<1>13. ~ Imap!Begun /\ imap_history.tag = imap_validity =>
         imap_inbox'[new] \notin imap_history.scanned \union imap_history.active
  BY <1>4 DEF Imap!Begun
<1>14. ImapAtHand(imap_pass["worker"])'
  BY <1>1, <1>10, <1>12, <1>13 DEF ImapInv, ImapAtHand
<1>15. \A u \in Imap!Messages' \ imap_late' :
         ImapPassed(u)' => u \in imap_stored \/ ImapAhead(u)
  BY <1>1, <1>12, <1>13 DEF ImapInv, ImapPassed
<1> QED  BY <1>1, <1>7, <1>8, <1>9, <1>10, <1>14, <1>15 DEF ImapInv

LEMMA ImapRenumber ==
  ASSUME ImapInv, Imap!Renumber
  PROVE  ImapInv'
<1>1. /\ UNCHANGED <<imap_today, days, imap_inbox, imap_root, imap_last, imap_history, imap_pass>>
      /\ imap_validity <= MaxRenumberings /\ imap_validity' = imap_validity + 1
      /\ imap_stored' = {} /\ imap_late' = {}
      /\ \A p \in Imap!Passes : imap_pass[p] = Imap!Idle
  BY DEF Imap!Renumber, Imap!account
<1>2. /\ imap_validity \in Nat \ {0} /\ MaxRenumberings \in Nat
      /\ imap_root \in Nat /\ imap_history.tag \in Nat
      /\ imap_root <= imap_validity /\ imap_history.tag <= imap_validity
  BY ImapMailbox, ImapKept, ImapHistories, HistoryAssumption, BoundsAssumption DEF Imap!Validities, ImapInv, ImapState
<1>3. imap_validity' \in Imap!Validities \ {0}
  BY <1>1, <1>2 DEF Imap!Validities
<1>4. Imap!Messages' = Imap!Messages
  BY <1>1 DEF Imap!Messages
<1>5. ImapTypes'
  BY <1>1, <1>3, <1>4 DEF ImapInv, ImapTypes, Imap!TypeOK
<1>6. ImapState'
  BY <1>1, <1>2 DEF ImapInv, ImapState
<1>7. Imap!Idle.phase = "idle" /\ "worker" \in Imap!Passes
  BY DEF Imap!Idle, Imap!Passes
<1>8. \A p \in Imap!Passes : ImapKnown(imap_pass[p])'
  BY <1>1, <1>7 DEF ImapKnown
<1>9. ImapAtHand(imap_pass["worker"])'
  BY <1>1, <1>7 DEF ImapAtHand
<1>10. \A u : ~ ImapPassed(u)'
  BY <1>1, <1>2 DEF ImapPassed
<1> QED  BY <1>5, <1>6, <1>8, <1>9, <1>10 DEF ImapInv

LEMMA ImapStep == ImapInv /\ (Imap!Next \/ UNCHANGED <<imapVars, days>>) => ImapInv'
<1>1. ASSUME ImapInv, NEW p \in Imap!Passes, Imap!PassStep(p) \/ Imap!Fail(p)
      PROVE  ImapInv'
  BY <1>1, ImapBegin, ImapSearchLive, ImapSave, ImapEndLive, ImapFail DEF Imap!PassStep
<1>2. ASSUME ImapInv, Imap!Next
      PROVE  ImapInv'
  BY <1>1, <1>2, ImapArrive, ImapSurroundings, ImapRenumber, ImapPlanHistory, ImapSearchPage,
     ImapFinishPage DEF Imap!Next
<1> QED  BY <1>2, ImapSurroundings

-----------------------------------------------------------------------------
(* The calendars of a Google account, read by the worker and by requests.  *)

Of(e) == google_place[e].calendar
At(e) == google_place[e].at
Gone(e) == <<Of(e), At(e)>> \in google_dropped
Waits(h, e) == At(e) \in h.active /\ e > h.token

\* One calendar's history, in the state or in a copy of it: what it counts as scanned
\* was stored, or dropped with its window.
HistorySound(c, h) ==
  /\ IsWindow(h.scanned) /\ IsWindow(h.active)
  /\ h.active = {} => h.token = 0
  /\ \A e \in Google!Events : Of(e) = c =>
       /\ At(e) \in h.scanned => e \in google_stored \/ Gone(e)
       /\ At(e) \in h.active /\ e <= h.token => e \in google_stored

\* A copy of the history is behind another: what is active in it is stored, dropped, or
\* waits in the other as well.
HistoryBehind(c, h, k) ==
  /\ h.scanned \subseteq k.scanned
  /\ \A e \in Google!Events : Of(e) = c /\ At(e) \in h.active =>
       e \in google_stored \/ Gone(e) \/ Waits(k, e)

\* A live chain: what it has listed is stored or in the hands of the pass.
ChainSound(c, chain, todo) ==
  \A e \in Google!Events : Of(e) = c /\ At(e) >= chain.from /\ e <= chain.token =>
    e \in google_stored \union todo

CopySound(m, todo) ==
  \A c \in Calendars : HistorySound(c, m.history[c]) /\ ChainSound(c, m.live[c], todo)
CopyBehind(m, n) == \A c \in Calendars : HistoryBehind(c, m.history[c], n.history[c])

\* The worker with a page of history in its hands, whatever copy of the calendar's
\* history it will find when it is done.
Reads(w, m) ==
  \A e \in Google!Events : Of(e) = w.calendar =>
    /\ At(e) \in w.window /\ (w.next = 0 \/ e <= w.next) => e \in google_stored \union w.todo
    /\ At(e) \in m.history[w.calendar].active =>
         \/ e \in google_stored \union w.todo \/ Gone(e)
         \/ At(e) \in w.window /\ w.next # 0 /\ e > w.next

Related(st, w, r) ==
  /\ CopySound(st, {}) /\ r.phase # "history"
  /\ r.phase = "live" => CopySound(r.mine, r.todo) /\ CopyBehind(r.mine, st)
  /\ w.phase = "live" => CopySound(w.mine, w.todo) /\ CopyBehind(st, w.mine)
  /\ w.phase = "live" /\ r.phase = "live" => CopyBehind(r.mine, w.mine)
  /\ w.phase = "history" => Reads(w, st) /\ IsWindow(w.window) /\ w.window # {}
  /\ w.phase = "history" /\ r.phase = "live" => Reads(w, r.mine)

GoogleStates ==
  [live : [Calendars -> Google!Chains], history : [Calendars -> Google!Histories],
   turn : {0} \union Calendars]
GoogleOver == {Google!Idle, [phase |-> "over"]} \union [phase : {"planning"}, days : Spans]
GooglePasses ==
  GoogleOver
  \union [phase : {"live"}, from : Google!Times, mine : GoogleStates,
          calendar : {0} \union Calendars, todo : SUBSET Google!Events, after : GoogleOver]
  \union [phase : {"history"}, calendar : Calendars, window : SUBSET Google!Times,
          todo : SUBSET Google!Events, next : 0 .. MaxItems]

GoogleTypes ==
  /\ google_now \in 1 .. GoogleDays /\ days \in Spans
  /\ google_place \in [Google!Events -> [calendar : Calendars, at : Google!Times]]
  /\ google_stored \subseteq Google!Events
  /\ google_dropped \subseteq Calendars \X Google!Times
  /\ google_state \in GoogleStates
  /\ google_pass \in [Google!Passes -> GooglePasses]

GoogleInv ==
  GoogleTypes /\ Related(google_state, google_pass["worker"], google_pass["request"])

LEMMA GoogleWindows ==
  /\ Google!Days = (0 - Max(Spans)) .. GoogleDays
  /\ \A s, d : Google!Planned(s, d) = Planned(s, d)
  /\ \A s, a, x : Google!Extended(s, a, x) = Extended(s, a, x)
  /\ \A t, n : Google!Desired(t, n) = Desired(t, n)
<1>1. \A S : Google!Max(S) = Max(S) /\ Google!Min(S) = Min(S)
  BY DEF Google!Max, Max, Google!Min, Min
<1>2. ASSUME NEW s, NEW d
      PROVE  Google!Planned(s, d) = Planned(s, d)
  BY <1>1 DEF Google!Planned, Planned
<1>3. ASSUME NEW s, NEW a, NEW x
      PROVE  Google!Extended(s, a, x) = Extended(s, a, x)
  BY <1>1 DEF Google!Extended, Extended, Google!Touch, Touch
<1>4. ASSUME NEW t, NEW n
      PROVE  Google!Desired(t, n) = Desired(t, n)
  BY DEF Google!Desired, Desired
<1>5. Google!Days = (0 - Max(Spans)) .. GoogleDays
  BY <1>1 DEF Google!Days
<1> QED  BY <1>2, <1>3, <1>4, <1>5

LEMMA GoogleNumbers ==
  /\ Google!Events = 1 .. MaxItems /\ MaxItems \in Nat /\ GoogleDays \in Nat \ {0}
  /\ Google!Events \in SUBSET Int /\ IsFiniteSet(Google!Events)
  /\ Limit \in Nat \ {0} /\ 0 \in Google!Times /\ Google!Times \subseteq Int
  /\ \A e \in Google!Events : e \in Nat \ {0} /\ e <= MaxItems
<1>1. MaxItems \in Nat /\ GoogleDays \in Nat \ {0} /\ Limit \in Nat \ {0}
  BY HistoryAssumption, BoundsAssumption
<1>2. Google!Events = 1 .. MaxItems
  BY DEF Google!Events
<1>3. IsFiniteSet(1 .. MaxItems)
  BY <1>1, FS_Interval
<1>4. Google!Times = (0 - Max(Spans)) .. GoogleDays /\ Max(Spans) \in Nat
  BY GoogleWindows, SpansBounded DEF Google!Times
<1>5. 0 \in Google!Times /\ Google!Times \subseteq Int
  BY <1>1, <1>4
<1> QED  BY <1>1, <1>2, <1>3, <1>5

\* What counts as scanned and what the chains claim is in order.
LEMMA GoogleInvStored == GoogleInv => Google!ScannedIsStored /\ Google!ChainIsStored
<1> SUFFICES ASSUME GoogleInv
             PROVE  Google!ScannedIsStored /\ Google!ChainIsStored
  OBVIOUS
<1>1. /\ CopySound(google_state, {}) /\ \A e \in Google!Events : Of(e) \in Calendars /\ e \in Nat
  BY GoogleNumbers DEF GoogleInv, Related, GoogleTypes, Of
<1>2. google_state \in GoogleStates
  BY DEF GoogleInv, GoogleTypes
<1>3. \A c \in Calendars : google_state.history[c].token \in Nat
  BY <1>2, GoogleNumbers DEF GoogleStates, Google!Histories
<1>4. Google!ScannedIsStored
  BY <1>1, <1>3 DEF CopySound, HistorySound, Of, At, Gone, Google!ScannedIsStored
<1>5. Google!ChainIsStored
  BY <1>1 DEF CopySound, ChainSound, Of, At, Google!ChainIsStored
<1> QED  BY <1>4, <1>5

LEMMA GoogleInit == Google!Init => GoogleInv
<1> SUFFICES ASSUME Google!Init PROVE GoogleInv
  OBVIOUS
<1>1. google_place \in [Google!Events -> [calendar : Calendars, at : Google!Times]]
  BY PlacementsAssumption, GoogleWindows DEF Google!Init, Google!Events, Google!Times
<1>2. Google!NoChain \in Google!Chains /\ Google!NoHistory \in Google!Histories
  BY GoogleNumbers DEF Google!NoChain, Google!Chains, Google!NoHistory, Google!Histories
<1>3. google_state \in GoogleStates /\ \A c \in Calendars :
        google_state.live[c] = Google!NoChain /\ google_state.history[c] = Google!NoHistory
  BY <1>2 DEF Google!Init, GoogleStates
<1>4. /\ google_pass["worker"] = Google!Idle /\ google_pass["request"] = Google!Idle
      /\ google_pass \in [Google!Passes -> GooglePasses] /\ Google!Idle.phase = "idle"
  BY DEF Google!Init, Google!Passes, GooglePasses, GoogleOver, Google!Idle
<1>5. GoogleTypes
  <2>1. google_now \in 1 .. GoogleDays
    BY GoogleNumbers DEF Google!Init
  <2> QED  BY <1>1, <1>3, <1>4, <2>1 DEF Google!Init, GoogleTypes
<1>6. \A c \in Calendars : HistorySound(c, Google!NoHistory) /\ ChainSound(c, Google!NoChain, {})
  BY EmptyIsWindow, GoogleNumbers DEF HistorySound, ChainSound, Google!NoHistory, Google!NoChain
<1>7. CopySound(google_state, {})
  BY <1>3, <1>6 DEF CopySound
<1> QED  BY <1>4, <1>5, <1>7 DEF GoogleInv, Related

\* Events do not move, and are not lost.
GoogleGrow ==
  /\ google_place' = google_place /\ google_stored \subseteq google_stored'
  /\ google_dropped' = google_dropped

LEMMA HistoryStands ==
  ASSUME GoogleGrow, NEW c, NEW h, HistorySound(c, h)
  PROVE  HistorySound(c, h)'
BY DEF GoogleGrow, HistorySound, Of, At, Gone, Google!Events

LEMMA BehindStands ==
  ASSUME GoogleGrow, NEW c, NEW h, NEW k, HistoryBehind(c, h, k)
  PROVE  HistoryBehind(c, h, k)'
BY DEF GoogleGrow, HistoryBehind, Of, At, Gone, Waits, Google!Events

LEMMA CopyStands ==
  ASSUME GoogleGrow, NEW m, NEW todo, NEW left, CopySound(m, todo),
         \A e \in todo : e \in google_stored' \union left
  PROVE  CopySound(m, left)'
<1>1. ASSUME NEW c \in Calendars
      PROVE  HistorySound(c, m.history[c])' /\ ChainSound(c, m.live[c], left)'
  <2>1. HistorySound(c, m.history[c])'
    BY <1>1, HistoryStands DEF CopySound
  <2>2. ChainSound(c, m.live[c], todo)
    BY <1>1 DEF CopySound
  <2>3. ChainSound(c, m.live[c], left)'
    BY <2>2 DEF GoogleGrow, ChainSound, Of, At, Google!Events
  <2> QED  BY <2>1, <2>3
<1> QED  BY <1>1 DEF CopySound

LEMMA CopyBehindStands ==
  ASSUME GoogleGrow, NEW m, NEW n, CopyBehind(m, n)
  PROVE  CopyBehind(m, n)'
BY BehindStands DEF CopyBehind

LEMMA ReadsStands ==
  ASSUME GoogleGrow, NEW w, NEW v, NEW m, Reads(w, m),
         v.calendar = w.calendar, v.window = w.window, v.next = w.next,
         \A e \in w.todo : e \in google_stored' \union v.todo
  PROVE  Reads(v, m)'
BY DEF GoogleGrow, Reads, Of, At, Gone, Google!Events

\* A copy is behind itself.
LEMMA BehindItself ==
  ASSUME NEW m, m \in GoogleStates, NEW todo, CopySound(m, todo)
  PROVE  CopyBehind(m, m)
<1>1. ASSUME NEW c \in Calendars
      PROVE  HistoryBehind(c, m.history[c], m.history[c])
  <2>1. m.history[c].token \in Int
    BY <1>1, GoogleNumbers DEF GoogleStates, Google!Histories
  <2>2. HistorySound(c, m.history[c])
    BY <1>1 DEF CopySound
  <2> QED  BY <2>1, <2>2, GoogleNumbers DEF HistorySound, HistoryBehind, Waits
<1> QED  BY <1>1 DEF CopyBehind

\* A step that leaves the relation of the copies as it was described.
LEMMA RelatedStands ==
  ASSUME NEW st, NEW w, NEW r, Related(st, w, r), google_place' = google_place,
         google_stored' = google_stored, google_dropped' = google_dropped
  PROVE  Related(st, w, r)'
BY DEF Related, CopySound, CopyBehind, Reads, HistorySound, HistoryBehind, ChainSound, Waits,
       Of, At, Gone, Google!Events

LEMMA GooglePassForms ==
  /\ Google!Idle \in GooglePasses /\ Google!Idle.phase = "idle"
  /\ \A p \in Google!Passes : Google!Over(p) \in GoogleOver /\ Google!Over(p) \in GooglePasses
  /\ \A n \in Spans : [phase |-> "planning", days |-> n] \in GoogleOver
  /\ \A o \in GoogleOver : o \in GooglePasses /\ o.phase \in {"idle", "over", "planning"}
  /\ \A f \in Google!Times : \A m \in GoogleStates : \A c \in {0} \union Calendars :
       \A t \in SUBSET Google!Events : \A a \in GoogleOver :
         [phase |-> "live", from |-> f, mine |-> m, calendar |-> c, todo |-> t, after |-> a]
           \in GooglePasses
  /\ \A c \in Calendars : \A w \in SUBSET Google!Times : \A t \in SUBSET Google!Events :
       \A n \in 0 .. MaxItems :
         [phase |-> "history", calendar |-> c, window |-> w, todo |-> t, next |-> n]
           \in GooglePasses
<1>1. Google!Idle \in GooglePasses /\ Google!Idle.phase = "idle"
  BY DEF GooglePasses, GoogleOver, Google!Idle
<1>2. \A o \in GoogleOver : o \in GooglePasses /\ o.phase \in {"idle", "over", "planning"}
  BY DEF GooglePasses, GoogleOver, Google!Idle
<1>3. \A p \in Google!Passes : Google!Over(p) \in GoogleOver
  BY DEF Google!Over, GoogleOver
<1>4. \A n \in Spans : [phase |-> "planning", days |-> n] \in GoogleOver
  BY DEF GoogleOver
<1>5. \A f \in Google!Times : \A m \in GoogleStates : \A c \in {0} \union Calendars :
       \A t \in SUBSET Google!Events : \A a \in GoogleOver :
         [phase |-> "live", from |-> f, mine |-> m, calendar |-> c, todo |-> t, after |-> a]
           \in GooglePasses
  BY DEF GooglePasses
<1>6. \A c \in Calendars : \A w \in SUBSET Google!Times : \A t \in SUBSET Google!Events :
       \A n \in 0 .. MaxItems :
         [phase |-> "history", calendar |-> c, window |-> w, todo |-> t, next |-> n]
           \in GooglePasses
  BY DEF GooglePasses
<1> QED  BY <1>1, <1>2, <1>3, <1>4, <1>5, <1>6

LEMMA GooglePassParts ==
  ASSUME NEW s \in GooglePasses
  PROVE  /\ s.phase = "live" =>
              /\ s = [phase |-> "live", from |-> s.from, mine |-> s.mine,
                      calendar |-> s.calendar, todo |-> s.todo, after |-> s.after]
              /\ s.from \in Google!Times /\ s.mine \in GoogleStates
              /\ s.calendar \in {0} \union Calendars /\ s.todo \in SUBSET Google!Events
              /\ s.after \in GoogleOver
         /\ s.phase = "history" =>
              /\ s = [phase |-> "history", calendar |-> s.calendar, window |-> s.window,
                      todo |-> s.todo, next |-> s.next]
              /\ s.calendar \in Calendars /\ s.window \in SUBSET Google!Times
              /\ s.todo \in SUBSET Google!Events /\ s.next \in 0 .. MaxItems
         /\ s.phase = "planning" => s.days \in Spans
<1>1. s.phase = "planning" => s.days \in Spans
  BY DEF GooglePasses, GoogleOver, Google!Idle
<1>2. s.phase = "live" =>
              /\ s = [phase |-> "live", from |-> s.from, mine |-> s.mine,
                      calendar |-> s.calendar, todo |-> s.todo, after |-> s.after]
              /\ s.from \in Google!Times /\ s.mine \in GoogleStates
              /\ s.calendar \in {0} \union Calendars /\ s.todo \in SUBSET Google!Events
              /\ s.after \in GoogleOver
  BY DEF GooglePasses, GoogleOver, Google!Idle
<1>3. s.phase = "history" =>
              /\ s = [phase |-> "history", calendar |-> s.calendar, window |-> s.window,
                      todo |-> s.todo, next |-> s.next]
              /\ s.calendar \in Calendars /\ s.window \in SUBSET Google!Times
              /\ s.todo \in SUBSET Google!Events /\ s.next \in 0 .. MaxItems
  BY DEF GooglePasses, GoogleOver, Google!Idle
<1> QED  BY <1>1, <1>2, <1>3

\* What is left to show of a step of a pass.
LEMMA GooglePassStep ==
  ASSUME GoogleInv, NEW p \in Google!Passes, NEW s \in GooglePasses, Google!Move(p, s),
         UNCHANGED <<google_now, days, google_place>>,
         google_stored' \subseteq Google!Events,
         google_dropped' \subseteq Calendars \X Google!Times,
         NEW st \in GoogleStates, google_state' = st,
         p = "worker" => \A r : r = google_pass["request"] => Related(st, s, r)',
         p = "request" => \A w : w = google_pass["worker"] => Related(st, w, s)'
  PROVE  GoogleInv'
<1>1. google_pass \in [Google!Passes -> GooglePasses] /\ GoogleTypes
      /\ Google!Passes = {"worker", "request"}
  BY DEF GoogleInv, GoogleTypes, Google!Passes
<1>2. /\ google_pass' \in [Google!Passes -> GooglePasses] /\ google_pass'[p] = s
      /\ \A q \in Google!Passes \ {p} : google_pass'[q] = google_pass[q]
  BY <1>1 DEF Google!Move
<1>3. GoogleTypes'
  <2>1. Google!Events' = Google!Events /\ Google!Times' = Google!Times
    BY DEF Google!Events, Google!Times, Google!Days
  <2> QED  BY <1>1, <1>2, <2>1 DEF GoogleTypes
<1>4. CASE p = "worker"
  <2>1. google_pass'["worker"] = s /\ google_pass'["request"] = google_pass["request"]
    BY <1>1, <1>2, <1>4
  <2>2. PICK r : r = google_pass["request"]
    OBVIOUS
  <2>3. Related(st, s, r)'
    BY <1>4, <2>2
  <2>4. Related(google_state, google_pass["worker"], google_pass["request"])'
    BY <2>1, <2>2, <2>3 DEF Related, CopySound, CopyBehind, Reads
  <2> QED  BY <1>3, <2>4 DEF GoogleInv
<1>5. CASE p = "request"
  <2>1. google_pass'["request"] = s /\ google_pass'["worker"] = google_pass["worker"]
    BY <1>1, <1>2, <1>5
  <2>2. PICK w : w = google_pass["worker"]
    OBVIOUS
  <2>3. Related(st, w, s)'
    BY <1>5, <2>2
  <2>4. Related(google_state, google_pass["worker"], google_pass["request"])'
    BY <2>1, <2>2, <2>3 DEF Related, CopySound, CopyBehind, Reads
  <2> QED  BY <1>3, <2>4 DEF GoogleInv
<1> QED  BY <1>1, <1>4, <1>5

\* Time and the user's history_days are nothing the copies depend on.
LEMMA GoogleQuiet ==
  ASSUME GoogleInv, Google!Tick \/ Google!SetHistoryDays \/ UNCHANGED <<googleVars, days>>
  PROVE  GoogleInv'
<1>1. UNCHANGED <<google_place, google_stored, google_state, google_pass, google_dropped>>
  BY DEF Google!Tick, Google!SetHistoryDays, googleVars
<1>2. google_now' \in 1 .. GoogleDays /\ days' \in Spans
  <2>1. google_now \in 1 .. GoogleDays /\ days \in Spans /\ GoogleDays \in Nat
    BY GoogleNumbers DEF GoogleInv, GoogleTypes
  <2>2. CASE Google!Tick
    BY <2>1, <2>2 DEF Google!Tick
  <2>3. CASE Google!SetHistoryDays
    BY <2>1, <2>3 DEF Google!SetHistoryDays
  <2>4. CASE UNCHANGED <<googleVars, days>>
    BY <2>1, <2>4 DEF googleVars
  <2> QED  BY <2>2, <2>3, <2>4
<1>3. GoogleTypes'
  BY <1>1, <1>2 DEF GoogleInv, GoogleTypes, Google!Events, Google!Times, Google!Days
<1>4. PICK st, w, r : st = google_state /\ w = google_pass["worker"] /\ r = google_pass["request"]
  OBVIOUS
<1>5. Related(st, w, r)
  BY <1>4 DEF GoogleInv
<1>6. Related(st, w, r)'
  BY <1>1, <1>5, RelatedStands
<1>7. google_state' = st /\ google_pass'["worker"] = w /\ google_pass'["request"] = r
  BY <1>1, <1>4
<1>8. Related(google_state, google_pass["worker"], google_pass["request"])'
  BY <1>6, <1>7 DEF Related, CopySound, CopyBehind, Reads
<1> QED  BY <1>3, <1>8 DEF GoogleInv

\* The steps that store and drop nothing: what is to show is the relation as it is.
LEMMA GoogleStill ==
  ASSUME GoogleInv, NEW p \in Google!Passes, NEW s \in GooglePasses, Google!Move(p, s),
         UNCHANGED <<google_now, days, google_place, google_stored, google_dropped>>,
         NEW st \in GoogleStates, google_state' = st,
         p = "worker" => Related(st, s, google_pass["request"]),
         p = "request" => Related(st, google_pass["worker"], s)
  PROVE  GoogleInv'
<1>1. google_stored' \subseteq Google!Events /\ google_dropped' \subseteq Calendars \X Google!Times
  BY DEF GoogleInv, GoogleTypes
<1>2. p = "worker" => \A r : r = google_pass["request"] => Related(st, s, r)'
  BY RelatedStands
<1>3. p = "request" => \A w : w = google_pass["worker"] => Related(st, w, s)'
  BY RelatedStands
<1> QED  BY <1>1, <1>2, <1>3, GooglePassStep

LEMMA GoogleBegin ==
  ASSUME GoogleInv, NEW p \in Google!Passes, Google!Begin(p)
  PROVE  GoogleInv'
<1>1. PICK st : st = google_state
  OBVIOUS
<1>2. PICK w, r : w = google_pass["worker"] /\ r = google_pass["request"]
  OBVIOUS
<1>3. st \in GoogleStates /\ Related(st, w, r) /\ days \in Spans /\ google_now \in 1 .. GoogleDays
  BY <1>1, <1>2 DEF GoogleInv, GoogleTypes
<1>4. PICK after : after = IF p = "request" THEN Google!Over(p)
                           ELSE [phase |-> "planning", days |-> days]
  OBVIOUS
<1>5. after \in GoogleOver
  BY <1>3, <1>4, GooglePassForms
<1>6. PICK s : s = [phase |-> "live", from |-> Google!Live, mine |-> st, calendar |-> 0,
                    todo |-> {}, after |-> after]
  OBVIOUS
<1>7. Google!Live \in Google!Times
  BY <1>3, GoogleWindows, SpansBounded, GoogleNumbers DEF Google!Live, Google!Times
<1>8. s \in GooglePasses /\ s.phase = "live" /\ s.mine = st /\ s.todo = {}
  BY <1>3, <1>5, <1>6, <1>7, GooglePassForms
<1>9. Google!Move(p, s) /\ google_state' = st
      /\ UNCHANGED <<google_now, days, google_place, google_stored, google_dropped>>
  BY <1>1, <1>4, <1>6 DEF Google!Begin
<1>10. CopySound(st, {}) /\ CopyBehind(st, st)
  BY <1>3, BehindItself DEF Related
<1>11. p = "worker" => Related(st, s, r)
  BY <1>3, <1>8, <1>10 DEF Related
<1>12. p = "request" => Related(st, w, s)
  <2>1. w.phase = "live" => CopyBehind(st, w.mine)
    BY <1>3 DEF Related
  <2>2. w.phase = "history" => Reads(w, st)
    BY <1>3 DEF Related
  <2> QED  BY <1>3, <1>8, <1>10, <2>1, <2>2 DEF Related
<1> QED  BY <1>2, <1>3, <1>8, <1>9, <1>11, <1>12, GoogleStill

LEMMA GoogleFail ==
  ASSUME GoogleInv, NEW p \in Google!Passes, Google!Fail(p)
  PROVE  GoogleInv'
<1>1. PICK st, w, r : st = google_state /\ w = google_pass["worker"] /\ r = google_pass["request"]
  OBVIOUS
<1>2. PICK s : s = Google!Over(p)
  OBVIOUS
<1>3. s \in GooglePasses /\ s.phase \in {"idle", "over", "planning"}
  BY <1>2, GooglePassForms
<1>4. st \in GoogleStates /\ Related(st, w, r)
  BY <1>1 DEF GoogleInv, GoogleTypes
<1>5. Google!Move(p, s) /\ google_state' = st
      /\ UNCHANGED <<google_now, days, google_place, google_stored, google_dropped>>
  BY <1>1, <1>2 DEF Google!Fail
<1>6. Related(st, s, r) /\ Related(st, w, s)
  BY <1>3, <1>4 DEF Related
<1> QED  BY <1>1, <1>3, <1>4, <1>5, <1>6, GoogleStill

LEMMA GoogleEndLive ==
  ASSUME GoogleInv, NEW p \in Google!Passes, Google!EndLive(p)
  PROVE  GoogleInv'
<1>1. PICK st, w, r : st = google_state /\ w = google_pass["worker"] /\ r = google_pass["request"]
  OBVIOUS
<1>2. PICK v : v = google_pass[p]
  OBVIOUS
<1>3. v \in GooglePasses /\ v.phase = "live" /\ v.todo = {}
  BY <1>2 DEF GoogleInv, GoogleTypes, Google!EndLive
<1>4. PICK m, s : m = v.mine /\ s = v.after
  OBVIOUS
<1>5. m \in GoogleStates /\ s \in GoogleOver
  BY <1>3, <1>4, GooglePassParts
<1>6. s \in GooglePasses /\ s.phase \in {"idle", "over", "planning"}
  BY <1>5, GooglePassForms
<1>7. st \in GoogleStates /\ Related(st, w, r)
  BY <1>1 DEF GoogleInv, GoogleTypes
<1>8. Google!Move(p, s) /\ google_state' = m
      /\ UNCHANGED <<google_now, days, google_place, google_stored, google_dropped>>
  BY <1>2, <1>4 DEF Google!EndLive
<1>9. p = "worker" => Related(m, s, r)
  <2> SUFFICES ASSUME p = "worker" PROVE Related(m, s, r)
    OBVIOUS
  <2>1. w = v
    BY <1>1, <1>2
  <2> QED  BY <2>1, <1>3, <1>4, <1>6, <1>7 DEF Related
<1>10. p = "request" => Related(m, w, s)
  <2> SUFFICES ASSUME p = "request" PROVE Related(m, w, s)
    OBVIOUS
  <2>1. r = v
    BY <1>1, <1>2
  <2> QED  BY <2>1, <1>3, <1>4, <1>6, <1>7 DEF Related
<1> QED  BY <1>1, <1>5, <1>6, <1>8, <1>9, <1>10, GoogleStill

\* A page of a listing: what it leaves out lies after its token.
LEMMA GooglePage ==
  ASSUME NEW c, NEW window, NEW seen \in Nat, NEW listed, listed = Google!Listed(c, window, seen),
         NEW shown, shown = Google!Smallest(listed, Limit),
         NEW next, next = Google!NextToken(listed, shown)
  PROVE  /\ shown \subseteq listed /\ listed \subseteq Google!Events /\ next \in 0 .. MaxItems
         /\ \A e \in listed : next = 0 \/ e <= next => e \in shown
         /\ \A e \in Google!Events : e \in listed <=> Of(e) = c /\ At(e) \in window /\ e > seen
<1>1. listed \subseteq Google!Events /\ \A e \in Google!Events : e \in listed <=>
        Of(e) = c /\ At(e) \in window /\ e > seen
  BY DEF Google!Listed, Of, At
<1>2. listed \in SUBSET Int /\ IsFiniteSet(listed) /\ Limit \in Nat \ {0}
  BY <1>1, GoogleNumbers, FS_Subset
<1>3. Google!Smallest(listed, Limit) = Smallest(listed, Limit)
  BY DEF Google!Smallest, Smallest, Google!Cardinality, Cardinality
<1>4. /\ shown \subseteq listed /\ \A x \in shown, y \in listed \ shown : x < y
  BY <1>2, <1>3, SmallestIsPage
<1>5. CASE shown = listed
  <2>1. next = 0
    BY <1>5 DEF Google!NextToken
  <2> QED  BY <1>1, <1>5, <2>1, GoogleNumbers
<1>6. CASE shown # listed
  <2>1. listed # {}
    BY <1>4, <1>6
  <2>2. PICK least : least = Min(listed)
    OBVIOUS
  <2>3. least \in listed /\ \A y \in listed : least <= y
    BY <1>2, <2>1, <2>2, MinIsLeast
  <2>4. {y \in listed : y < least} = {}
    BY <1>2, <2>3
  <2>5. Cardinality({y \in listed : y < least}) = 0
    BY <2>4, FS_EmptySet
  <2>6. least \in shown
    BY <1>2, <1>3, <2>3, <2>5 DEF Smallest
  <2>7. shown \in SUBSET Int /\ IsFiniteSet(shown) /\ shown # {}
    BY <1>2, <1>4, <2>6, FS_Subset
  <2>8. Google!Max(shown) = Max(shown)
    BY DEF Google!Max, Max
  <2>9. next = Max(shown)
    BY <1>6, <2>8 DEF Google!NextToken
  <2>10. next \in shown
    BY <2>7, <2>9, MaxIsGreatest
  <2>11. next \in Nat \ {0} /\ next <= MaxItems
    BY <1>1, <1>4, <2>10, GoogleNumbers
  <2>12. ASSUME NEW e \in listed, e <= next, e \notin shown
         PROVE  FALSE
    BY <1>2, <1>4, <2>10, <2>12
  <2> QED  BY <1>1, <1>4, <2>11, <2>12, GoogleNumbers
<1> QED  BY <1>5, <1>6

\* A page, part by part.
GoogleShows(m, c, f, a, u, seen, from, listed, shown, next, new, k) ==
  /\ seen = m.live[c].token /\ from = (IF seen = 0 THEN f ELSE m.live[c].from)
  /\ listed = Google!Listed(c, {t \in Google!Times : t >= from}, seen)
  /\ shown = Google!Smallest(listed, Limit) /\ next = Google!NextToken(listed, shown)
  /\ new = IF next = 0 THEN Google!NoChain ELSE [from |-> from, token |-> next]
  /\ k = [live |-> [m.live EXCEPT ![c] = new], history |-> m.history, turn |-> m.turn]
  /\ u = [phase |-> "live", from |-> f, mine |-> k, calendar |-> c,
          todo |-> shown \ google_stored, after |-> a]

\* A copy whose chain goes on over a page is sound with the page in the hands of the pass.
LEMMA GoogleChainGoesOn ==
  ASSUME google_place \in [Google!Events -> [calendar : Calendars, at : Google!Times]],
         NEW m \in GoogleStates, CopySound(m, {}), NEW c \in Calendars, NEW f \in Google!Times,
         NEW a, NEW u, NEW seen, NEW from, NEW listed, NEW shown, NEW next, NEW chain, NEW k,
         GoogleShows(m, c, f, a, u, seen, from, listed, shown, next, chain, k)
  PROVE  k \in GoogleStates /\ CopySound(k, shown \ google_stored)
<1>1. m.live \in [Calendars -> Google!Chains] /\ m.history \in [Calendars -> Google!Histories]
      /\ m.turn \in {0} \union Calendars
  BY DEF GoogleStates
<1>2. /\ seen = m.live[c].token
      /\ listed = Google!Listed(c, {t \in Google!Times : t >= from}, seen)
      /\ shown = Google!Smallest(listed, Limit) /\ next = Google!NextToken(listed, shown)
      /\ chain = IF next = 0 THEN Google!NoChain ELSE [from |-> from, token |-> next]
      /\ k = [live |-> [m.live EXCEPT ![c] = chain], history |-> m.history, turn |-> m.turn]
  BY DEF GoogleShows
<1>3. seen \in 0 .. MaxItems /\ seen \in Nat
  BY <1>1, <1>2, GoogleNumbers DEF Google!Chains
<1>4. from \in Google!Times /\ (seen # 0 => from = m.live[c].from)
  BY <1>1 DEF Google!Chains, GoogleShows
<1>5. PICK window : window = {t \in Google!Times : t >= from}
  OBVIOUS
<1>6. /\ shown \subseteq listed /\ listed \subseteq Google!Events /\ next \in 0 .. MaxItems
      /\ \A e \in listed : next = 0 \/ e <= next => e \in shown
      /\ \A e \in Google!Events : e \in listed <=> Of(e) = c /\ At(e) \in window /\ e > seen
  BY <1>3, <1>5, <1>2, GooglePage
<1>7. chain \in Google!Chains
  BY <1>6, <1>2, <1>4, GoogleNumbers DEF Google!Chains, Google!NoChain
<1>8. /\ k.live \in [Calendars -> Google!Chains] /\ k.history = m.history
      /\ k.live[c] = chain /\ \A x \in Calendars \ {c} : k.live[x] = m.live[x]
  BY <1>1, <1>7, <1>2
<1>9. k = [live |-> k.live, history |-> k.history, turn |-> k.turn] /\ k.turn = m.turn
  BY <1>2
<1>10. k \in GoogleStates
  BY <1>1, <1>8, <1>9 DEF GoogleStates
<1>11. ASSUME NEW e \in Google!Events, Of(e) = c, At(e) >= chain.from, e <= chain.token
       PROVE  e \in google_stored \union (shown \ google_stored)
  <2>1. e \in Nat \ {0} /\ At(e) \in Google!Times /\ Google!Times \subseteq Int
    BY GoogleNumbers DEF At
  <2>2. next # 0 /\ chain.from = from /\ chain.token = next
    BY <1>11, <1>2, <2>1 DEF Google!NoChain
  <2>3. CASE e > seen
    <3>1. At(e) \in window
      BY <1>5, <1>11, <2>1, <2>2
    <3>2. e \in listed
      BY <1>6, <1>11, <2>3, <3>1
    <3> QED  BY <1>6, <1>11, <2>2, <3>2
  <2>4. CASE e <= seen
    <3>1. seen # 0 /\ from = m.live[c].from
      BY <1>3, <1>4, <2>1, <2>4
    <3>2. ChainSound(c, m.live[c], {})
      BY DEF CopySound
    <3> QED  BY <1>11, <1>2, <2>2, <2>4, <3>1, <3>2 DEF ChainSound
  <2> QED  BY <1>3, <2>1, <2>3, <2>4
<1>12. ASSUME NEW x \in Calendars
       PROVE  HistorySound(x, k.history[x]) /\ ChainSound(x, k.live[x], shown \ google_stored)
  <2>1. HistorySound(x, m.history[x]) /\ ChainSound(x, m.live[x], {})
    BY DEF CopySound
  <2>2. CASE x = c
    BY <1>8, <1>11, <2>1, <2>2 DEF ChainSound
  <2>3. CASE x # c
    BY <1>8, <2>1, <2>3 DEF ChainSound
  <2> QED  BY <1>8, <2>1, <2>2, <2>3
<1> QED  BY <1>10, <1>12 DEF CopySound

\* The pass with another chain in its copy, part by part.
LEMMA GoogleChainInCopy ==
  ASSUME NEW f, NEW m, NEW x, NEW y, NEW a, NEW c, NEW z, NEW n,
         m = [live |-> m.live, history |-> m.history, turn |-> m.turn],
         NEW v, v = [phase |-> "live", from |-> f, mine |-> m, calendar |-> y, todo |-> x,
                     after |-> a],
         NEW w, w = [v EXCEPT !.calendar = c, !.todo = z, !.mine.live[c] = n]
  PROVE  w = [phase |-> "live", from |-> f, mine |-> [live |-> [m.live EXCEPT ![c] = n],
              history |-> m.history, turn |-> m.turn], calendar |-> c, todo |-> z, after |-> a]
<1>1. PICK l, h, t : l = m.live /\ h = m.history /\ t = m.turn
  OBVIOUS
<1>2. m = [live |-> l, history |-> h, turn |-> t]
  BY <1>1
<1>3. PICK r : r = [v EXCEPT !.calendar = c, !.todo = z]
  OBVIOUS
<1>4. r = [phase |-> "live", from |-> f, mine |-> m, calendar |-> c, todo |-> z, after |-> a]
  BY <1>3
<1>5. PICK k : k = [r.mine EXCEPT !.live[c] = n]
  OBVIOUS
<1>6. k = [r.mine EXCEPT !.live = [r.mine.live EXCEPT ![c] = n]]
  BY <1>5
<1>7. PICK j : j = [l EXCEPT ![c] = n]
  OBVIOUS
<1>8. r.mine = m /\ r.mine.live = l
  BY <1>1, <1>4
<1>9. k = [m EXCEPT !.live = j]
  BY <1>6, <1>7, <1>8
<1>10. k = [live |-> j, history |-> h, turn |-> t]
  BY <1>2, <1>9
<1>11. PICK u : u = [r EXCEPT !.mine = k]
  OBVIOUS
<1>12. u = [phase |-> "live", from |-> f, mine |-> k, calendar |-> c, todo |-> z, after |-> a]
  BY <1>4, <1>11
<1>13. w = u
  BY <1>3, <1>5, <1>11
<1> QED  BY <1>1, <1>7, <1>10, <1>12, <1>13

\* A live pass after its next page.
GoogleNextPage(v, c) ==
  LET chain == v.mine.live[c]
      from == IF chain.token = 0 THEN v.from ELSE chain.from
      listed == Google!Listed(c, {t \in Google!Times : t >= from}, chain.token)
      shown == Google!Smallest(listed, Limit)
      next == Google!NextToken(listed, shown)
  IN [v EXCEPT !.calendar = c, !.todo = shown \ google_stored,
               !.mine.live[c] = IF next = 0 THEN Google!NoChain
                                ELSE [from |-> from, token |-> next]]

LEMMA GoogleNextPageIs ==
  ASSUME NEW f, NEW m, NEW x, NEW y, NEW a, NEW c,
         m = [live |-> m.live, history |-> m.history, turn |-> m.turn],
         NEW v, v = [phase |-> "live", from |-> f, mine |-> m, calendar |-> y, todo |-> x,
                     after |-> a],
         NEW u, u = GoogleNextPage(v, c)
  PROVE  \E seen, from, listed, shown, next, new, k :
        GoogleShows(m, c, f, a, u, seen, from, listed, shown, next, new, k)
<1> DEFINE chain == v.mine.live[c]
           from == IF chain.token = 0 THEN v.from ELSE chain.from
           listed == Google!Listed(c, {t \in Google!Times : t >= from}, chain.token)
           shown == Google!Smallest(listed, Limit)
           next == Google!NextToken(listed, shown)
           new == IF next = 0 THEN Google!NoChain ELSE [from |-> from, token |-> next]
<1>1. u = [v EXCEPT !.calendar = c, !.todo = shown \ google_stored, !.mine.live[c] = new]
  BY DEF GoogleNextPage
<1>2. chain.token = m.live[c].token /\ from = (IF chain.token = 0 THEN f ELSE m.live[c].from)
  OBVIOUS
<1> HIDE DEF new, next, shown, listed, from
<1>3. PICK z : z = shown \ google_stored
  OBVIOUS
<1>4. u = [v EXCEPT !.calendar = c, !.todo = z, !.mine.live[c] = new]
  BY <1>1, <1>3
<1>5. PICK k : k = [live |-> [m.live EXCEPT ![c] = new], history |-> m.history, turn |-> m.turn]
  OBVIOUS
<1>6. u = [phase |-> "live", from |-> f, mine |-> k, calendar |-> c, todo |-> z, after |-> a]
  BY <1>4, <1>5, GoogleChainInCopy
<1>7. u = [phase |-> "live", from |-> f, mine |-> k, calendar |-> c,
           todo |-> shown \ google_stored, after |-> a]
  BY <1>3, <1>6
<1>8. listed = Google!Listed(c, {t \in Google!Times : t >= from}, chain.token)
  BY DEF listed
<1>9. shown = Google!Smallest(listed, Limit) /\ next = Google!NextToken(listed, shown)
  BY DEF shown, next
<1>10. new = IF next = 0 THEN Google!NoChain ELSE [from |-> from, token |-> next]
  BY DEF new
<1>11. GoogleShows(m, c, f, a, u, chain.token, from, listed, shown, next, new, k)
  BY <1>2, <1>5, <1>7, <1>8, <1>9, <1>10 DEF GoogleShows
<1> QED  BY <1>11

LEMMA GoogleListLive ==
  ASSUME GoogleInv, NEW p \in Google!Passes, Google!ListLive(p)
  PROVE  GoogleInv'
<1>1. PICK st, w, r : st = google_state /\ w = google_pass["worker"] /\ r = google_pass["request"]
  OBVIOUS
<1>2. PICK v : v = google_pass[p]
  OBVIOUS
<1>3. v \in GooglePasses /\ v.phase = "live" /\ v.todo = {}
      /\ google_place \in [Google!Events -> [calendar : Calendars, at : Google!Times]]
  BY <1>2 DEF GoogleInv, GoogleTypes, Google!ListLive
<1>4. PICK m, a, f : m = v.mine /\ a = v.after /\ f = v.from
  OBVIOUS
<1>5. /\ v = [phase |-> "live", from |-> f, mine |-> m, calendar |-> v.calendar, todo |-> v.todo,
              after |-> a]
      /\ m \in GoogleStates /\ a \in GoogleOver /\ f \in Google!Times
  BY <1>3, <1>4, GooglePassParts
<1>6. st \in GoogleStates /\ Related(st, w, r)
  BY <1>1 DEF GoogleInv, GoogleTypes
<1>7. PICK c \in Calendars : Google!Move(p, GoogleNextPage(v, c))
  BY <1>2 DEF Google!ListLive, GoogleNextPage
<1>8. PICK u : u = GoogleNextPage(v, c)
  OBVIOUS
<1>9. m = [live |-> m.live, history |-> m.history, turn |-> m.turn]
       /\ m.live \in [Calendars -> Google!Chains]
  BY <1>5 DEF GoogleStates
<1>10. PICK seen, from, listed, shown, next, new, k :
        GoogleShows(m, c, f, a, u, seen, from, listed, shown, next, new, k)
  BY <1>5, <1>8, <1>9, GoogleNextPageIs
<1>11. /\ seen = m.live[c].token /\ from = (IF seen = 0 THEN f ELSE m.live[c].from)
       /\ listed = Google!Listed(c, {t \in Google!Times : t >= from}, seen)
       /\ shown = Google!Smallest(listed, Limit) /\ next = Google!NextToken(listed, shown)
       /\ new = IF next = 0 THEN Google!NoChain ELSE [from |-> from, token |-> next]
       /\ k = [live |-> [m.live EXCEPT ![c] = new], history |-> m.history, turn |-> m.turn]
  BY <1>10 DEF GoogleShows
<1>12. u = [phase |-> "live", from |-> f, mine |-> k, calendar |-> c,
            todo |-> shown \ google_stored, after |-> a]
  BY <1>10 DEF GoogleShows
<1>13. PICK s : s = u
  OBVIOUS
<1>14. CopySound(m, {})
  BY <1>1, <1>2, <1>3, <1>4, <1>6 DEF Related, Google!Passes
<1>15. k \in GoogleStates /\ CopySound(k, shown \ google_stored)
  BY <1>3, <1>5, <1>7, <1>10, <1>14, GoogleChainGoesOn
<1>16. s \in GooglePasses /\ s.phase = "live" /\ s.mine = k /\ s.todo = shown \ google_stored
       /\ k.history = m.history
  <2>1. shown \in SUBSET Google!Events
    <3>1. seen \in Nat
      BY <1>9, <1>11, GoogleNumbers DEF Google!Chains
    <3> QED  BY <1>11, <3>1, GooglePage
  <2>2. (shown \ google_stored) \in SUBSET Google!Events
    BY <2>1
  <2>3. c \in {0} \union Calendars
    BY <1>7
  <2>4. s \in GooglePasses
    BY <1>5, <1>13, <1>15, <1>11, <1>12, <2>2, <2>3, GooglePassForms
  <2> QED  BY <1>13, <1>11, <1>12, <2>4
<1>17. Google!Move(p, s) /\ google_state' = st
       /\ UNCHANGED <<google_now, days, google_place, google_stored, google_dropped>>
  BY <1>1, <1>7, <1>8, <1>13 DEF Google!ListLive
<1>18. p = "worker" => Related(st, s, r)
  <2> SUFFICES ASSUME p = "worker" PROVE Related(st, s, r)
    OBVIOUS
  <2>1. w = v
    BY <1>1, <1>2
  <2>2. CopyBehind(st, k) /\ (r.phase = "live" => CopyBehind(r.mine, k))
    BY <2>1, <1>3, <1>4, <1>6, <1>16 DEF Related, CopyBehind
  <2> QED  BY <2>2, <1>6, <1>15, <1>16 DEF Related
<1>19. p = "request" => Related(st, w, s)
  <2> SUFFICES ASSUME p = "request" PROVE Related(st, w, s)
    OBVIOUS
  <2>1. r = v
    BY <1>1, <1>2
  <2>2. CopyBehind(k, st) /\ (w.phase = "live" => CopyBehind(k, w.mine))
        /\ (w.phase = "history" => Reads(w, k))
    BY <2>1, <1>3, <1>4, <1>6, <1>16 DEF Related, CopyBehind, Reads
  <2> QED  BY <2>2, <1>6, <1>15, <1>16 DEF Related
<1> QED  BY <1>1, <1>6, <1>16, <1>17, <1>18, <1>19, GoogleStill

\* Any step that only stores events leaves the rest of the relation.
LEMMA GoogleGrows ==
  ASSUME GoogleGrow, NEW st, NEW w, NEW r, Related(st, w, r), NEW s, NEW v,
         s = w \/ s = r, s.phase \in {"live", "history"}, v.phase = s.phase,
         s.phase = "live" => v.mine = s.mine,
         s.phase = "history" =>
           v.calendar = s.calendar /\ v.window = s.window /\ v.next = s.next,
         \A e \in s.todo : e \in google_stored' \union v.todo
  PROVE  /\ s = w => Related(st, v, r)'
         /\ s = r /\ s.phase = "live" => Related(st, w, v)'
<1>1. CopySound(st, {})'
  BY CopyStands DEF Related
<1>2. CASE s = w /\ s.phase = "live"
  <2>1. CopySound(s.mine, v.todo)' /\ CopyBehind(st, s.mine)'
    BY <1>2, CopyStands, CopyBehindStands DEF Related
  <2>2. r.phase = "live" => CopySound(r.mine, r.todo)' /\ CopyBehind(r.mine, st)'
                            /\ CopyBehind(r.mine, s.mine)'
    BY <1>2, CopyStands, CopyBehindStands DEF Related
  <2> QED  BY <1>1, <1>2, <2>1, <2>2 DEF Related
<1>3. CASE s = w /\ s.phase = "history"
  <2>1. Reads(v, st)' /\ IsWindow(v.window) /\ v.window # {}
    BY <1>3, ReadsStands DEF Related
  <2>2. r.phase = "live" => CopySound(r.mine, r.todo)' /\ CopyBehind(r.mine, st)'
                            /\ Reads(v, r.mine)'
    BY <1>3, CopyStands, CopyBehindStands, ReadsStands DEF Related
  <2> QED  BY <1>1, <1>3, <2>1, <2>2 DEF Related
<1>4. CASE s = r /\ s.phase = "live"
  <2>1. CopySound(s.mine, v.todo)' /\ CopyBehind(s.mine, st)'
    BY <1>4, CopyStands, CopyBehindStands DEF Related
  <2>2. w.phase = "live" => CopySound(w.mine, w.todo)' /\ CopyBehind(st, w.mine)'
                            /\ CopyBehind(s.mine, w.mine)'
    BY <1>4, CopyStands, CopyBehindStands DEF Related
  <2>3. w.phase = "history" => Reads(w, st)' /\ Reads(w, s.mine)' /\ IsWindow(w.window)
                               /\ w.window # {}
    BY <1>4, ReadsStands DEF Related
  <2> QED  BY <1>1, <1>4, <2>1, <2>2, <2>3 DEF Related
<1> QED  BY <1>2, <1>3, <1>4

LEMMA GoogleSave ==
  ASSUME GoogleInv, NEW p \in Google!Passes, Google!Save(p)
  PROVE  GoogleInv'
<1>1. PICK st, w, r : st = google_state /\ w = google_pass["worker"] /\ r = google_pass["request"]
  OBVIOUS
<1>2. PICK s : s = google_pass[p]
  OBVIOUS
<1>3. s \in GooglePasses /\ s.phase \in {"live", "history"} /\ st \in GoogleStates
      /\ Related(st, w, r) /\ google_stored \subseteq Google!Events
  BY <1>1, <1>2 DEF GoogleInv, GoogleTypes, Google!Save
<1>4. PICK e \in s.todo : google_stored' = google_stored \union {e}
                          /\ Google!Move(p, [s EXCEPT !.todo = @ \ {e}])
  BY <1>2 DEF Google!Save
<1>5. PICK v : v = [s EXCEPT !.todo = @ \ {e}]
  OBVIOUS
<1>6. /\ v \in GooglePasses /\ v.phase = s.phase /\ v.todo = s.todo \ {e} /\ e \in Google!Events
      /\ s.phase = "live" => v.mine = s.mine
      /\ s.phase = "history" =>
           v.calendar = s.calendar /\ v.window = s.window /\ v.next = s.next
  <2>1. CASE s.phase = "live"
    <3>1. PICK f, m, c, t, a : 
            /\ s = [phase |-> "live", from |-> f, mine |-> m, calendar |-> c, todo |-> t, after |-> a]
            /\ f \in Google!Times /\ m \in GoogleStates /\ c \in {0} \union Calendars
            /\ t \in SUBSET Google!Events /\ a \in GoogleOver
      BY <1>3, <2>1, GooglePassParts
    <3>2. v = [phase |-> "live", from |-> f, mine |-> m, calendar |-> c, todo |-> t \ {e},
               after |-> a]
      BY <1>5, <3>1
    <3>3. t \ {e} \in SUBSET Google!Events
      BY <3>1
    <3>4. v \in GooglePasses
      BY <3>1, <3>2, <3>3, GooglePassForms
    <3> QED  BY <2>1, <3>1, <3>2, <3>4
  <2>2. CASE s.phase = "history"
    <3>1. PICK c, x, t, n : 
            /\ s = [phase |-> "history", calendar |-> c, window |-> x, todo |-> t, next |-> n]
            /\ c \in Calendars /\ x \in SUBSET Google!Times
            /\ t \in SUBSET Google!Events /\ n \in 0 .. MaxItems
      BY <1>3, <2>2, GooglePassParts
    <3>2. v = [phase |-> "history", calendar |-> c, window |-> x, todo |-> t \ {e}, next |-> n]
      BY <1>5, <3>1
    <3>3. t \ {e} \in SUBSET Google!Events
      BY <3>1
    <3>4. v \in GooglePasses
      BY <3>1, <3>2, <3>3, GooglePassForms
    <3> QED  BY <2>2, <3>1, <3>2, <3>4
  <2> QED  BY <1>3, <2>1, <2>2
<1>7. GoogleGrow /\ google_dropped' \subseteq Calendars \X Google!Times
  BY <1>4 DEF Google!Save, GoogleGrow, GoogleInv, GoogleTypes
<1>8. Google!Move(p, v) /\ google_state' = st /\ UNCHANGED <<google_now, days, google_place>>
      /\ google_stored' \subseteq Google!Events
  BY <1>1, <1>3, <1>4, <1>5, <1>6 DEF Google!Save
<1>9. \A x \in s.todo : x \in google_stored' \union v.todo
  BY <1>4, <1>6
<1>10. p = "worker" => \A q : q = google_pass["request"] => Related(st, v, q)'
  <2> SUFFICES ASSUME p = "worker" PROVE Related(st, v, r)'
    BY <1>1
  <2>1. s = w
    BY <1>1, <1>2
  <2> QED  BY <2>1, <1>3, <1>6, <1>7, <1>9, GoogleGrows
<1>11. p = "request" => \A q : q = google_pass["worker"] => Related(st, q, v)'
  <2> SUFFICES ASSUME p = "request" PROVE Related(st, w, v)'
    BY <1>1
  <2>1. s = r
    BY <1>1, <1>2
  <2>2. s.phase = "live"
    BY <2>1, <1>3 DEF Related
  <2> QED  BY <2>1, <2>2, <1>3, <1>6, <1>7, <1>9, GoogleGrows
<1> QED  BY <1>3, <1>6, <1>7, <1>8, <1>10, <1>11, GooglePassStep

-----------------------------------------------------------------------------

\* A state with another history of one calendar, part by part.
LEMMA GoogleHistoryInState ==
  ASSUME NEW st, st = [live |-> st.live, history |-> st.history, turn |-> st.turn],
         NEW c, NEW k, NEW n, n = [st EXCEPT !.history[c] = k, !.turn = c]
  PROVE  n = [live |-> st.live, history |-> [st.history EXCEPT ![c] = k], turn |-> c]
<1>1. PICK l, h, t : l = st.live /\ h = st.history /\ t = st.turn
  OBVIOUS
<1>2. st = [live |-> l, history |-> h, turn |-> t]
  BY <1>1
<1>3. PICK r : r = [st EXCEPT !.history = [st.history EXCEPT ![c] = k]]
  OBVIOUS
<1>4. PICK j : j = [h EXCEPT ![c] = k]
  OBVIOUS
<1>5. r = [st EXCEPT !.history = j]
  BY <1>1, <1>3, <1>4
<1>6. r = [live |-> l, history |-> j, turn |-> t]
  BY <1>2, <1>5
<1>7. PICK u : u = [r EXCEPT !.turn = c]
  OBVIOUS
<1>8. u = [live |-> l, history |-> j, turn |-> c]
  BY <1>6, <1>7
<1>9. n = u
  BY <1>3, <1>7
<1> QED  BY <1>1, <1>4, <1>8, <1>9

\* The history of one calendar is all that is to be looked at when it changes.
LEMMA GoogleHistoryChanges ==
  ASSUME NEW st \in GoogleStates, NEW c \in Calendars, NEW k \in Google!Histories,
         NEW turn \in {0} \union Calendars,
         NEW n, n = [live |-> st.live, history |-> [st.history EXCEPT ![c] = k], turn |-> turn]
  PROVE  /\ n \in GoogleStates
         /\ CopySound(st, {}) /\ HistorySound(c, k) => CopySound(n, {})
         /\ \A m : CopyBehind(m, st) /\ HistoryBehind(c, m.history[c], k) => CopyBehind(m, n)
<1>1. st.live \in [Calendars -> Google!Chains] /\ st.history \in [Calendars -> Google!Histories]
  BY DEF GoogleStates
<1>2. PICK j : j = [st.history EXCEPT ![c] = k]
  OBVIOUS
<1>3. /\ j \in [Calendars -> Google!Histories] /\ j[c] = k
      /\ \A x \in Calendars \ {c} : j[x] = st.history[x]
  BY <1>1, <1>2
<1>4. n = [live |-> st.live, history |-> j, turn |-> turn]
  BY <1>2
<1>5. n \in GoogleStates /\ n.live = st.live /\ n.history = j
  BY <1>1, <1>3, <1>4 DEF GoogleStates
<1>6. ASSUME CopySound(st, {}), HistorySound(c, k)
      PROVE  CopySound(n, {})
  <2>1. ASSUME NEW x \in Calendars
        PROVE  HistorySound(x, n.history[x]) /\ ChainSound(x, n.live[x], {})
    <3>1. HistorySound(x, st.history[x]) /\ ChainSound(x, st.live[x], {})
      BY <1>6 DEF CopySound
    <3>2. CASE x = c
      BY <1>3, <1>5, <1>6, <3>1, <3>2
    <3>3. CASE x # c
      BY <1>3, <1>5, <3>1, <3>3
    <3> QED  BY <3>2, <3>3
  <2> QED  BY <2>1 DEF CopySound
<1>7. ASSUME NEW m, CopyBehind(m, st), HistoryBehind(c, m.history[c], k)
      PROVE  CopyBehind(m, n)
  <2>1. ASSUME NEW x \in Calendars
        PROVE  HistoryBehind(x, m.history[x], n.history[x])
    <3>1. HistoryBehind(x, m.history[x], st.history[x])
      BY <1>7 DEF CopyBehind
    <3>2. CASE x = c
      BY <1>3, <1>5, <1>7, <3>2
    <3>3. CASE x # c
      BY <1>3, <1>5, <3>1, <3>3
    <3> QED  BY <3>2, <3>3
  <2> QED  BY <2>1 DEF CopyBehind
<1> QED  BY <1>5, <1>6, <1>7

\* A history after a page of it, by the worker's pass w.
GoogleAdvanced(h, w) ==
  CASE h.active = {} -> h
    [] h.active # {} /\ w.next # 0 -> [h EXCEPT !.active = w.window, !.token = w.next]
    [] OTHER -> Google!Cleared([h EXCEPT !.scanned =
                                  Google!Extended(h.scanned, h.active, h.scanned)])

LEMMA GoogleHasMore ==
  ASSUME NEW s, NEW a, NEW d, NEW t,
         NEW h, h = [scanned |-> s, active |-> a, days |-> d, token |-> t],
         a # {}, NEW w, w.next # 0
  PROVE  GoogleAdvanced(h, w) =
           [scanned |-> s, active |-> w.window, days |-> d, token |-> w.next]
<1>1. PICK k : k = GoogleAdvanced(h, w)
  OBVIOUS
<1>2. h.active = a
  OBVIOUS
<1>3. PICK y, n : y = w.window /\ n = w.next
  OBVIOUS
<1>4. k = [h EXCEPT !.active = y, !.token = n]
  BY <1>1, <1>2, <1>3 DEF GoogleAdvanced
<1>5. k = [scanned |-> s, active |-> y, days |-> d, token |-> n]
  BY <1>4
<1> QED  BY <1>1, <1>3, <1>5

LEMMA GoogleCompletes ==
  ASSUME NEW s, NEW a, NEW d, NEW t,
         NEW h, h = [scanned |-> s, active |-> a, days |-> d, token |-> t],
         a # {}, NEW w, w.next = 0, NEW x \in SUBSET Google!Times, x = Extended(s, a, s),
         NEW k, k = GoogleAdvanced(h, w)
  PROVE  k \in Google!Histories /\ k.scanned = x /\ k.active = {} /\ k.token = 0
<1>1. h.active = a /\ h.scanned = s
  OBVIOUS
<1>2. PICK r : r = [h EXCEPT !.scanned = x]
  OBVIOUS
<1>3. r = [scanned |-> x, active |-> a, days |-> d, token |-> t]
  BY <1>2
<1>4. Google!Extended(h.scanned, h.active, h.scanned) = x
  BY <1>1, GoogleWindows
<1>5. k = Google!Cleared(r)
  BY <1>1, <1>2, <1>4 DEF GoogleAdvanced
<1>6. k = [r EXCEPT !.active = {}, !.days = 0, !.token = 0]
  BY <1>5 DEF Google!Cleared
<1>7. k = [scanned |-> x, active |-> {}, days |-> 0, token |-> 0]
  BY <1>3, <1>6
<1> QED  BY <1>7, GoogleNumbers DEF Google!Histories

\* Over a page that is stored the history of a calendar stays sound, and every copy that
\* was behind it stays behind.
LEMMA GoogleAdvances ==
  ASSUME google_place \in [Google!Events -> [calendar : Calendars, at : Google!Times]],
         NEW c, NEW h \in Google!Histories, HistorySound(c, h),
         NEW w, w.calendar = c, w.todo = {}, IsWindow(w.window), w.window # {},
         w.window \in SUBSET Google!Times, w.next \in 0 .. MaxItems,
         \A m : m.history[c] = h => Reads(w, m),
         NEW k, k = GoogleAdvanced(h, w)
  PROVE  /\ k \in Google!Histories /\ HistorySound(c, k)
         /\ \A m : Reads(w, m) /\ HistoryBehind(c, m.history[c], h)
                     => HistoryBehind(c, m.history[c], k)
<1>1. PICK s, a, d, t : /\ h = [scanned |-> s, active |-> a, days |-> d, token |-> t]
                        /\ s \in SUBSET Google!Times /\ a \in SUBSET Google!Times
                        /\ d \in {0} \union Spans /\ t \in 0 .. MaxItems
  BY DEF Google!Histories
<1>2. \A e \in Google!Events : Of(e) = c =>
        /\ At(e) \in s => e \in google_stored \/ Gone(e)
        /\ At(e) \in w.window /\ (w.next = 0 \/ e <= w.next) => e \in google_stored
        /\ At(e) \in a => \/ e \in google_stored \/ Gone(e)
                          \/ At(e) \in w.window /\ w.next # 0 /\ e > w.next
  <2>1. PICK m : m = [history |-> [x \in {c} |-> h]]
    OBVIOUS
  <2>2. m.history[c] = h
    BY <2>1
  <2>3. Reads(w, m)
    BY <2>2
  <2> QED  BY <1>1, <2>2, <2>3 DEF Reads, HistorySound
<1>3. IsWindow(s) /\ IsWindow(a)
  BY <1>1 DEF HistorySound
<1>4. CASE a = {}
  <2>1. k = h
    BY <1>1, <1>4 DEF GoogleAdvanced
  <2> QED  BY <2>1
<1>5. CASE a # {} /\ w.next # 0
  <2>1. k = [scanned |-> s, active |-> w.window, days |-> d, token |-> w.next]
    BY <1>1, <1>5, GoogleHasMore
  <2>2. k \in Google!Histories
    BY <1>1, <2>1 DEF Google!Histories
  <2>3. k.scanned = s /\ k.active = w.window /\ k.token = w.next
    BY <2>1
  <2>4. HistorySound(c, k)
    BY <1>2, <1>3, <2>3 DEF HistorySound
  <2>5. ASSUME NEW m, Reads(w, m), HistoryBehind(c, m.history[c], h)
        PROVE  HistoryBehind(c, m.history[c], k)
    <3>1. m.history[c].scanned \subseteq k.scanned
      BY <1>1, <2>3, <2>5 DEF HistoryBehind
    <3> QED  BY <2>3, <2>5, <3>1 DEF HistoryBehind, Reads, Waits
  <2> QED  BY <2>2, <2>4, <2>5
<1>6. CASE a # {} /\ w.next = 0
  <2>1. PICK x : x = Extended(s, a, s)
    OBVIOUS
  <2>2. IsWindow(x) /\ x \subseteq s \union a /\ s \subseteq x
    <3>1. s \subseteq x
      BY <2>1 DEF Extended
    <3> QED  BY <1>3, <1>6, <2>1, <3>1, ExtendedIsWindow
  <2>3. x \in SUBSET Google!Times
    BY <1>1, <2>2
  <2>4. k \in Google!Histories /\ k.scanned = x /\ k.active = {} /\ k.token = 0
    BY <1>1, <1>6, <2>1, <2>3, GoogleCompletes
  <2>5. HistorySound(c, k)
    BY <1>2, <1>6, <2>2, <2>4, EmptyIsWindow DEF HistorySound
  <2>6. ASSUME NEW m, Reads(w, m), HistoryBehind(c, m.history[c], h)
        PROVE  HistoryBehind(c, m.history[c], k)
    <3>1. m.history[c].scanned \subseteq k.scanned
      BY <1>1, <2>2, <2>4, <2>6 DEF HistoryBehind
    <3> QED  BY <1>6, <2>6, <3>1 DEF HistoryBehind, Reads
  <2> QED  BY <2>4, <2>5, <2>6
<1> QED  BY <1>4, <1>5, <1>6

LEMMA GoogleFinishHistory ==
  ASSUME GoogleInv, Google!FinishHistory
  PROVE  GoogleInv'
<1>1. PICK st, w, r : st = google_state /\ w = google_pass["worker"] /\ r = google_pass["request"]
  OBVIOUS
<1>2. /\ w \in GooglePasses /\ w.phase = "history" /\ w.todo = {}
      /\ st \in GoogleStates /\ Related(st, w, r)
      /\ google_place \in [Google!Events -> [calendar : Calendars, at : Google!Times]]
  BY <1>1 DEF GoogleInv, GoogleTypes, Google!FinishHistory, Google!Passes
<1>3. PICK c : c = w.calendar
  OBVIOUS
<1>4. c \in Calendars /\ w.window \in SUBSET Google!Times /\ w.next \in 0 .. MaxItems
  BY <1>2, <1>3, GooglePassParts
<1>5. PICK h, k : h = st.history[c] /\ k = GoogleAdvanced(h, w)
  OBVIOUS
<1>6. PICK n : n = [st EXCEPT !.history[c] = k, !.turn = c]
  OBVIOUS
<1>7. google_state' = n
  BY <1>1, <1>3, <1>5, <1>6 DEF Google!FinishHistory, GoogleAdvanced
<1>8. st = [live |-> st.live, history |-> st.history, turn |-> st.turn]
      /\ st.history \in [Calendars -> Google!Histories] /\ h \in Google!Histories
  BY <1>2, <1>4, <1>5 DEF GoogleStates
<1>9. n = [live |-> st.live, history |-> [st.history EXCEPT ![c] = k], turn |-> c]
  BY <1>6, <1>8, GoogleHistoryInState
<1>10. HistorySound(c, h) /\ CopySound(st, {})
  BY <1>2, <1>4, <1>5 DEF Related, CopySound
<1>11. Reads(w, st) /\ IsWindow(w.window) /\ w.window # {}
       /\ (r.phase = "live" => Reads(w, r.mine) /\ CopyBehind(r.mine, st))
  BY <1>2 DEF Related
<1>12. \A m : m.history[c] = h => Reads(w, m)
  BY <1>3, <1>5, <1>11 DEF Reads
<1>13. /\ k \in Google!Histories /\ HistorySound(c, k)
       /\ \A m : Reads(w, m) /\ HistoryBehind(c, m.history[c], h)
                   => HistoryBehind(c, m.history[c], k)
  BY <1>2, <1>3, <1>4, <1>5, <1>8, <1>10, <1>11, <1>12, GoogleAdvances
<1>14. n \in GoogleStates /\ CopySound(n, {})
       /\ \A m : CopyBehind(m, st) /\ HistoryBehind(c, m.history[c], k) => CopyBehind(m, n)
  BY <1>2, <1>4, <1>9, <1>10, <1>13, GoogleHistoryChanges
<1>15. r.phase = "live" => CopyBehind(r.mine, n)
  <2> SUFFICES ASSUME r.phase = "live" PROVE CopyBehind(r.mine, n)
    OBVIOUS
  <2>1. HistoryBehind(c, r.mine.history[c], h)
    BY <1>4, <1>5, <1>11 DEF CopyBehind
  <2> QED  BY <1>11, <1>13, <1>14, <2>1
<1>16. PICK s : s = Google!Idle
  OBVIOUS
<1>17. s \in GooglePasses /\ s.phase = "idle"
  BY <1>16, GooglePassForms
<1>18. Related(n, s, r)
  BY <1>2, <1>14, <1>15, <1>17 DEF Related
<1>19. Google!Move("worker", s) /\ "worker" \in Google!Passes
       /\ UNCHANGED <<google_now, days, google_place, google_stored, google_dropped>>
  BY <1>16 DEF Google!FinishHistory, Google!Passes
<1> QED  BY <1>1, <1>7, <1>14, <1>17, <1>18, <1>19, GoogleStill

\* A calendar's history goes on, or is cut short or done and has a new window, if any: what
\* is given up counts as dropped, or lies in the new window.
GoogleGoesOn(x, k, g) ==
  /\ g.active = k.active /\ g.token = k.token
  /\ \A t : <<x, t>> \in google_dropped => <<x, t>> \in google_dropped'
GoogleTakes(x, k, g, window) ==
  /\ g.active = window /\ g.token = 0 /\ window \intersect k.scanned = {}
  /\ \A t : <<x, t>> \in google_dropped \/ t \in k.active =>
       <<x, t>> \in google_dropped' \/ t \in window
\* What becomes of a history stays sound, and behind it whatever was behind it.
GoogleFollows(x, k, g) ==
  /\ HistorySound(x, g)'
  /\ \A m : HistorySound(x, m) /\ HistoryBehind(x, m, k)
               => HistorySound(x, m)' /\ HistoryBehind(x, m, g)'

LEMMA GooglePlans ==
  ASSUME google_place \in [Google!Events -> [calendar : Calendars, at : Google!Times]],
         google_place' = google_place, google_stored' = google_stored,
         NEW x \in Calendars, NEW k, HistorySound(x, k),
         NEW g, g.scanned = k.scanned, NEW window, IsWindow(window),
         GoogleGoesOn(x, k, g) \/ GoogleTakes(x, k, g, window)
  PROVE  GoogleFollows(x, k, g)
<1>1. /\ Google!Events' = Google!Events /\ \A e \in Google!Events : e \in Nat \ {0}
      /\ \A e \in Google!Events : At(e)' = At(e) /\ Of(e)' = Of(e)
  BY GoogleNumbers DEF Google!Events, At, Of
<1>2. \A e \in Google!Events : Gone(e)' = (<<Of(e), At(e)>> \in google_dropped')
  BY <1>1 DEF Gone
<1>3. CASE GoogleGoesOn(x, k, g)
  <2>1. g.active = k.active /\ g.token = k.token
    BY <1>3 DEF GoogleGoesOn
  <2>2. \A e \in Google!Events : Of(e) = x /\ Gone(e) => Gone(e)'
    BY <1>2, <1>3 DEF Gone, GoogleGoesOn
  <2>3. HistorySound(x, g)'
    BY <1>1, <2>2, <2>1 DEF HistorySound
  <2>4. ASSUME NEW m, HistorySound(x, m), HistoryBehind(x, m, k)
        PROVE  HistorySound(x, m)' /\ HistoryBehind(x, m, g)'
    <3>1. HistorySound(x, m)'
      BY <1>1, <2>2, <2>4 DEF HistorySound
    <3>2. HistoryBehind(x, m, g)'
      BY <1>1, <2>2, <2>4, <2>1 DEF HistoryBehind, Waits
    <3> QED  BY <3>1, <3>2
  <2> QED  BY <2>3, <2>4 DEF GoogleFollows
<1>4. CASE GoogleTakes(x, k, g, window)
  <2>1. g.active = window /\ g.token = 0 /\ window \intersect k.scanned = {}
    BY <1>4 DEF GoogleTakes
  <2>2. \A e \in Google!Events : Of(e) = x /\ (Gone(e) \/ At(e) \in k.active) =>
           Gone(e)' \/ At(e) \in window
    BY <1>2, <1>4 DEF Gone, GoogleTakes
  <2>3. HistorySound(x, g)'
    <3>1. \A e \in Google!Events : Of(e) = x /\ At(e) \in g.scanned =>
            e \in google_stored' \/ Gone(e)'
      BY <2>2, <2>1 DEF HistorySound
    <3>2. \A e \in Google!Events : ~ (e <= g.token)
      BY <1>1, <2>1
    <3>3. IsWindow(g.scanned) /\ IsWindow(g.active)
      BY <2>1 DEF HistorySound
    <3> QED  BY <1>1, <2>1, <3>1, <3>2, <3>3 DEF HistorySound
  <2>4. ASSUME NEW m, HistorySound(x, m), HistoryBehind(x, m, k)
        PROVE  HistorySound(x, m)' /\ HistoryBehind(x, m, g)'
    <3>1. \A e \in Google!Events : Of(e) = x /\ At(e) \in m.scanned =>
            e \in google_stored' \/ Gone(e)'
      <4>1. m.scanned \subseteq k.scanned
        BY <2>4 DEF HistoryBehind
      <4> QED  BY <2>2, <2>4, <2>1, <4>1 DEF HistorySound
    <3>2. HistorySound(x, m)'
      BY <1>1, <2>4, <3>1 DEF HistorySound
    <3>3. ASSUME NEW e \in Google!Events, Of(e) = x, At(e) \in m.active
          PROVE  e \in google_stored' \/ Gone(e)' \/ Waits(g, e)
      <4>1. e \in google_stored \/ Gone(e) \/ At(e) \in k.active
        BY <2>4, <3>3 DEF HistoryBehind, Waits
      <4>2. At(e) \in window => Waits(g, e)
        BY <1>1, <2>1 DEF Waits
      <4> QED  BY <2>2, <3>3, <4>1, <4>2
    <3>4. HistoryBehind(x, m, g)'
      <4>1. \A e \in Google!Events : Waits(g, e)' = Waits(g, e)
        BY <1>1 DEF Waits
      <4>2. m.scanned \subseteq g.scanned
        BY <2>4 DEF HistoryBehind
      <4> QED  BY <1>1, <3>3, <4>1, <4>2 DEF HistoryBehind
    <3> QED  BY <3>2, <3>4
  <2> QED  BY <2>3, <2>4 DEF GoogleFollows
<1> QED  BY <1>3, <1>4

\* The window to scan lies within time and apart from what was scanned.
LEMMA GoogleWindow ==
  ASSUME google_now \in 1 .. GoogleDays, NEW wanted \in Spans,
         NEW h \in Google!Histories, IsWindow(h.scanned), IsWindow(h.active)
  PROVE  /\ IsWindow(Google!Window(h, wanted))
         /\ Google!Window(h, wanted) \in SUBSET Google!Times
         /\ h.active = {} => Google!Window(h, wanted) \intersect h.scanned = {}
         /\ h.active # {} => Google!Window(h, wanted) = h.active
<1>1. h.active \in SUBSET Google!Times /\ h.scanned \in SUBSET Google!Times
  BY DEF Google!Histories
<1>2. PICK past : past = Google!Past(wanted)
  OBVIOUS
<1>3. /\ wanted \in Nat \ {0} /\ wanted <= Max(Spans) /\ Max(Spans) \in Nat /\ GoogleDays \in Nat
  BY SpansBounded, HistoryAssumption, GoogleNumbers
<1>4. past = (google_now - wanted) .. (google_now - 1)
  <2>1. past = ((google_now - 1) - (wanted - 1)) .. (google_now - 1)
    BY <1>2, GoogleWindows DEF Google!Past, Desired
  <2>2. (google_now - 1) - (wanted - 1) = google_now - wanted
    BY <1>3
  <2> QED  BY <2>1, <2>2
<1>5. IsWindow(past)
  BY <1>3, <1>4 DEF IsWindow
<1>6. past # {} /\ past \subseteq (0 - Max(Spans)) .. GoogleDays
  <2>1. google_now - 1 \in past
    BY <1>3, <1>4
  <2>2. PICK low : low = 0 - Max(Spans)
    OBVIOUS
  <2>3. low \in Int /\ low <= google_now - wanted /\ google_now - 1 <= GoogleDays
    BY <1>3, <2>2
  <2>4. google_now - wanted \in Int /\ google_now - 1 \in Int
    BY <1>3
  <2>5. past \subseteq low .. GoogleDays
    BY <1>3, <1>4, <2>3, <2>4
  <2> QED  BY <2>1, <2>2, <2>5
<1>7. Google!Times = (0 - Max(Spans)) .. GoogleDays /\ 0 - Max(Spans) \in Int /\ GoogleDays \in Int
  BY <1>3, GoogleWindows DEF Google!Times
<1>8. CASE h.active = {}
  <2>1. Google!Window(h, wanted) = Planned(h.scanned, past)
    BY <1>2, <1>8, GoogleWindows DEF Google!Window
  <2>2. IsWindow(Planned(h.scanned, past)) /\ Planned(h.scanned, past) \intersect h.scanned = {}
    BY <1>5, <1>6, PlannedIsApart
  <2>3. Planned(h.scanned, past) \subseteq (0 - Max(Spans)) .. GoogleDays
    BY <1>1, <1>5, <1>6, <1>7, PlannedWithin
  <2> QED  BY <1>7, <1>8, <2>1, <2>2, <2>3
<1>9. CASE h.active # {}
  BY <1>1, <1>9 DEF Google!Window
<1> QED  BY <1>8, <1>9

\* A window planned for more days than are wanted goes.
LEMMA GoogleReconciles ==
  ASSUME NEW h \in Google!Histories, NEW wanted, NEW k, k = Google!Reconciled(h, wanted)
  PROVE  /\ k \in Google!Histories /\ k.scanned = h.scanned
         /\ k = h \/ (k.active = {} /\ k.token = 0 /\ h.active # {})
<1>1. PICK s, a, d, t : /\ h = [scanned |-> s, active |-> a, days |-> d, token |-> t]
                        /\ s \in SUBSET Google!Times /\ a \in SUBSET Google!Times
                        /\ d \in {0} \union Spans /\ t \in 0 .. MaxItems
  BY DEF Google!Histories
<1>2. CASE h.active # {} /\ wanted < h.days
  <2>1. k = [h EXCEPT !.active = {}, !.days = 0, !.token = 0]
    BY <1>2 DEF Google!Reconciled, Google!Cleared
  <2>2. k = [scanned |-> s, active |-> {}, days |-> 0, token |-> 0]
    BY <1>1, <2>1
  <2>3. {} \in SUBSET Google!Times /\ 0 \in {0} \union Spans /\ 0 \in 0 .. MaxItems
    BY GoogleNumbers
  <2>4. k \in Google!Histories
    BY <1>1, <2>2, <2>3 DEF Google!Histories
  <2> QED  BY <1>1, <1>2, <2>2, <2>4
<1>3. CASE ~ (h.active # {} /\ wanted < h.days)
  BY <1>3 DEF Google!Reconciled
<1> QED  BY <1>2, <1>3

\* A page of the window a history has: the worker's pass knows what it has to.
LEMMA GoogleReads ==
  ASSUME google_place' = google_place, google_stored' = google_stored,
         NEW c \in Calendars, NEW g, g.token \in Nat, HistorySound(c, g)',
         NEW listed, listed = Google!Listed(c, g.active, g.token),
         NEW shown, shown = Google!Smallest(listed, Limit),
         NEW next, next = Google!NextToken(listed, shown),
         NEW s, s.calendar = c, s.window = g.active, s.todo = shown \ google_stored, s.next = next,
         NEW m, HistoryBehind(c, m.history[c], g)'
  PROVE  Reads(s, m)'
<1>1. /\ Google!Events' = Google!Events /\ \A e \in Google!Events : e \in Nat \ {0}
      /\ \A e \in Google!Events : At(e)' = At(e) /\ Of(e)' = Of(e)
  BY GoogleNumbers DEF Google!Events, At, Of
<1>2. /\ shown \subseteq listed /\ listed \subseteq Google!Events /\ next \in 0 .. MaxItems
      /\ \A e \in listed : next = 0 \/ e <= next => e \in shown
      /\ \A e \in Google!Events : e \in listed <=> Of(e) = c /\ At(e) \in g.active /\ e > g.token
  BY GooglePage
<1>3. ASSUME NEW e \in Google!Events, Of(e) = c, At(e) \in s.window, s.next = 0 \/ e <= s.next
      PROVE  e \in google_stored' \union s.todo
  <2>1. CASE e <= g.token
    BY <1>1, <1>3, <2>1 DEF HistorySound
  <2>2. CASE e > g.token
    <3>1. e \in listed
      BY <1>2, <1>3, <2>2
    <3>2. e \in shown
      BY <1>2, <1>3, <3>1
    <3> QED  BY <3>2
  <2> QED  BY <1>1, <2>1, <2>2
<1>4. ASSUME NEW e \in Google!Events, Of(e) = c, At(e) \in m.history[c].active
      PROVE  \/ e \in google_stored' \union s.todo \/ Gone(e)'
             \/ At(e) \in s.window /\ s.next # 0 /\ e > s.next
  <2>1. e \in google_stored' \/ Gone(e)' \/ Waits(g, e)'
    BY <1>1, <1>4 DEF HistoryBehind
  <2>2. Waits(g, e)' => At(e) \in s.window /\ e > g.token
    BY <1>1 DEF Waits
  <2>3. s.next \in Int /\ (e <= s.next \/ e > s.next)
    BY <1>1, <1>2
  <2> QED  BY <1>3, <1>4, <2>1, <2>2, <2>3
<1> QED  BY <1>1, <1>3, <1>4 DEF Reads

\* The worker knows what is to be known of the page it has.
GooglePageKnown(s, j) ==
  /\ s.phase = "history" /\ IsWindow(s.window) /\ s.window # {} /\ s.calendar \in Calendars
  /\ \A m : HistoryBehind(s.calendar, m.history[s.calendar], j[s.calendar])' => Reads(s, m)'

\* A step of the worker that leaves every calendar's history in one of the ways above.
LEMMA GoogleReplans ==
  ASSUME GoogleInv, google_pass["worker"].phase = "planning",
         NEW j \in [Calendars -> Google!Histories],
         NEW n, n = [live |-> google_state.live, history |-> j, turn |-> google_state.turn],
         google_state' = n, NEW s \in GooglePasses, Google!Move("worker", s),
         UNCHANGED <<google_now, days, google_place, google_stored>>,
         google_dropped' \subseteq Calendars \X Google!Times,
         \A x \in Calendars : GoogleFollows(x, google_state.history[x], j[x]),
         s.phase = "idle" \/ GooglePageKnown(s, j)
  PROVE  GoogleInv'
<1>1. PICK st, w, r : st = google_state /\ w = google_pass["worker"] /\ r = google_pass["request"]
  OBVIOUS
<1>2. /\ w.phase = "planning" /\ st \in GoogleStates /\ Related(st, w, r)
      /\ google_stored \subseteq Google!Events
  BY <1>1 DEF GoogleInv, GoogleTypes
<1>3. n \in GoogleStates /\ n.history = j /\ n.live = st.live
  BY <1>1, <1>2 DEF GoogleStates
<1>4. /\ Google!Events' = Google!Events
      /\ \A e \in Google!Events : At(e)' = At(e) /\ Of(e)' = Of(e)
  BY DEF Google!Events, At, Of
<1>5. \A c, chain, todo : ChainSound(c, chain, todo) => ChainSound(c, chain, todo)'
  BY <1>4 DEF ChainSound
<1>6. CopySound(n, {})'
  BY <1>2, <1>3, <1>5 DEF Related, CopySound, GoogleFollows
<1>7. r.phase = "live" => CopySound(r.mine, r.todo)' /\ CopyBehind(r.mine, n)'
  <2> SUFFICES ASSUME r.phase = "live"
               PROVE  CopySound(r.mine, r.todo)' /\ CopyBehind(r.mine, n)'
    OBVIOUS
  <2>1. CopySound(r.mine, r.todo) /\ CopyBehind(r.mine, st)
    BY <1>2 DEF Related
  <2>2. ASSUME NEW x \in Calendars
        PROVE  /\ HistorySound(x, r.mine.history[x])' /\ HistoryBehind(x, r.mine.history[x], j[x])'
               /\ ChainSound(x, r.mine.live[x], r.todo)'
    <3>1. HistorySound(x, r.mine.history[x]) /\ ChainSound(x, r.mine.live[x], r.todo)
      BY <2>1 DEF CopySound
    <3>2. HistoryBehind(x, r.mine.history[x], google_state.history[x])
      BY <1>1, <2>1 DEF CopyBehind
    <3> QED  BY <1>5, <3>1, <3>2 DEF GoogleFollows
  <2> QED  BY <1>3, <2>2 DEF CopySound, CopyBehind
<1>8. Related(n, s, r)'
  <2>1. CASE s.phase = "idle"
    BY <1>2, <1>6, <1>7, <2>1 DEF Related
  <2>2. CASE GooglePageKnown(s, j)
    <3>1. PICK c : c = s.calendar
      OBVIOUS
    <3>2. c \in Calendars /\ HistorySound(c, j[c])' /\ j[c].token \in Int
      BY <2>2, <3>1, GoogleNumbers DEF Google!Histories, GooglePageKnown, GoogleFollows
    <3>3. HistoryBehind(c, j[c], j[c])'
      BY <1>4, <3>2, GoogleNumbers DEF HistoryBehind, HistorySound, Waits
    <3>4. Reads(s, n)'
      BY <1>3, <2>2, <3>1, <3>3 DEF GooglePageKnown
    <3>5. r.phase = "live" => Reads(s, r.mine)'
      <4> SUFFICES ASSUME r.phase = "live" PROVE Reads(s, r.mine)'
        OBVIOUS
      <4>1. HistoryBehind(c, r.mine.history[c], j[c])'
        BY <1>3, <1>7, <3>2 DEF CopyBehind
      <4> QED  BY <2>2, <3>1, <4>1 DEF GooglePageKnown
    <3> QED  BY <1>2, <1>6, <1>7, <2>2, <3>4, <3>5 DEF Related, GooglePageKnown
  <2> QED  BY <2>1, <2>2
<1>9. \A q : q = google_pass["request"] => Related(n, s, q)'
  BY <1>1, <1>8
<1>10. "worker" \in Google!Passes /\ "worker" # "request" /\ google_stored' \subseteq Google!Events
  BY <1>2 DEF Google!Passes
<1> QED  BY <1>3, <1>9, <1>10, GooglePassStep

\* A history that begins a window.
GoogleBegun(j, c, w, d) == [j EXCEPT ![c].active = w, ![c].days = d]

LEMMA GoogleBeginsWindow ==
  ASSUME NEW j \in [Calendars -> Google!Histories], NEW c \in Calendars,
         NEW w \in SUBSET Google!Times, NEW d \in Spans,
         NEW q, q = GoogleBegun(j, c, w, d)
  PROVE  /\ q \in [Calendars -> Google!Histories]
         /\ q[c].scanned = j[c].scanned /\ q[c].active = w /\ q[c].token = j[c].token
         /\ \A x \in Calendars \ {c} : q[x] = j[x]
<1>1. PICK h : h = j[c]
  OBVIOUS
<1>2. PICK s, a, e, t : /\ h = [scanned |-> s, active |-> a, days |-> e, token |-> t]
                        /\ s \in SUBSET Google!Times /\ a \in SUBSET Google!Times
                        /\ e \in {0} \union Spans /\ t \in 0 .. MaxItems
  BY <1>1 DEF Google!Histories
<1>3. PICK b : b = [h EXCEPT !.active = w]
  OBVIOUS
<1>4. b = [scanned |-> s, active |-> w, days |-> e, token |-> t]
  BY <1>2, <1>3
<1>5. PICK r : r = [j EXCEPT ![c] = b]
  OBVIOUS
<1>6. r[c] = b
  BY <1>5
<1>7. PICK f : f = [b EXCEPT !.days = d]
  OBVIOUS
<1>8. f = [scanned |-> s, active |-> w, days |-> d, token |-> t]
  BY <1>4, <1>7
<1>9. q = [r EXCEPT ![c] = f]
  <2>1. [j EXCEPT ![c].active = w] = [j EXCEPT ![c] = [j[c] EXCEPT !.active = w]]
    OBVIOUS
  <2>2. [j EXCEPT ![c].active = w] = r
    BY <1>1, <1>3, <1>5, <2>1
  <2>3. [r EXCEPT ![c].days = d] = [r EXCEPT ![c] = [r[c] EXCEPT !.days = d]]
    OBVIOUS
  <2>4. q = [r EXCEPT ![c].days = d]
    BY <2>2 DEF GoogleBegun
  <2> QED  BY <1>6, <1>7, <2>3, <2>4
<1>10. f \in Google!Histories
  BY <1>2, <1>8 DEF Google!Histories
<1>11. b \in Google!Histories
  BY <1>2, <1>4 DEF Google!Histories
<1>12. f.scanned = s /\ f.active = w /\ f.token = t /\ h.scanned = s /\ h.token = t
  BY <1>2, <1>8
<1> QED  BY <1>1, <1>5, <1>9, <1>10, <1>11, <1>12

LEMMA GooglePlanHistory ==
  ASSUME GoogleInv, Google!PlanHistory
  PROVE  GoogleInv'
<1> DEFINE wanted == google_pass["worker"].days
           h == [c \in Calendars |-> Google!Reconciled(google_state.history[c], wanted)]
           due == {c \in Calendars : Google!Window(h[c], wanted) # {}}
           given == {x \in Calendars \X Google!Times :
                       x[2] \in google_state.history[x[1]].active /\ h[x[1]].active = {}}
           window(c) == Google!Window(h[c], wanted)
           begins(c) == h[c].active = {}
           listed(c) == Google!Listed(c, window(c), h[c].token)
           shown(c) == Google!Smallest(listed(c), Limit)
<1>1. \/ /\ google_state' = [google_state EXCEPT !.history = h]
         /\ google_dropped' = google_dropped \union given
         /\ Google!Move("worker", Google!Idle)
      \/ \E c \in due :
           /\ google_state' = [google_state EXCEPT !.history =
                IF begins(c) THEN [h EXCEPT ![c].active = window(c), ![c].days = wanted] ELSE h]
           /\ google_dropped' = (google_dropped \union given)
                                \ (IF begins(c) THEN {c} \X window(c) ELSE {})
           /\ Google!Move("worker", [phase |-> "history", calendar |-> c, window |-> window(c),
                todo |-> shown(c) \ google_stored,
                next |-> Google!NextToken(listed(c), shown(c))])
  BY DEF Google!PlanHistory
<1>2. /\ google_pass["worker"].phase = "planning"
      /\ UNCHANGED <<google_now, days, google_place, google_stored>>
  BY DEF Google!PlanHistory
<1>3. /\ google_state \in GoogleStates /\ google_pass["worker"] \in GooglePasses
      /\ google_place \in [Google!Events -> [calendar : Calendars, at : Google!Times]]
      /\ google_now \in 1 .. GoogleDays /\ google_dropped \subseteq Calendars \X Google!Times
      /\ CopySound(google_state, {})
  BY DEF GoogleInv, GoogleTypes, Google!Passes, Related
<1>4. wanted \in Spans
  BY <1>2, <1>3, GooglePassParts
<1>5. PICK k : k = google_state.history
  OBVIOUS
<1>6. /\ k \in [Calendars -> Google!Histories]
      /\ google_state = [live |-> google_state.live, history |-> k, turn |-> google_state.turn]
      /\ \A x \in Calendars : HistorySound(x, k[x])
  BY <1>3, <1>5 DEF GoogleStates, CopySound
<1>7. \A x \in Calendars : h[x] = Google!Reconciled(k[x], wanted)
  BY <1>5
<1>8. h \in [Calendars -> Google!Histories] /\ \A x \in Calendars :
        /\ h[x] \in Google!Histories /\ h[x].scanned = k[x].scanned
        /\ h[x] = k[x] \/ (h[x].active = {} /\ h[x].token = 0 /\ k[x].active # {})
  <2>1. \A x \in Calendars : k[x] \in Google!Histories
    BY <1>6
  <2>2. ASSUME NEW x \in Calendars
        PROVE  /\ h[x] \in Google!Histories /\ h[x].scanned = k[x].scanned
               /\ h[x] = k[x] \/ (h[x].active = {} /\ h[x].token = 0 /\ k[x].active # {})
    <3> HIDE DEF h
    <3> QED  BY <1>7, <2>1, GoogleReconciles
  <2>3. DOMAIN h = Calendars /\ h = [x \in Calendars |-> h[x]]
    OBVIOUS
  <2> HIDE DEF h
  <2> QED  BY <2>2, <2>3
<1>9. \A x \in Calendars : \A t \in Google!Times :
        <<x, t>> \in given <=> t \in k[x].active /\ h[x].active = {}
  <2> HIDE DEF h
  <2> QED  BY <1>5
<1>10. given \subseteq Calendars \X Google!Times
  OBVIOUS
<1>11. \A c \in due : c \in Calendars /\ window(c) # {}
  OBVIOUS
<1> HIDE DEF h, given, wanted, due, window, begins, listed, shown
<1>12. PICK j : j = h
  OBVIOUS
<1>13. \A x \in Calendars : HistorySound(x, k[x]) /\ IsWindow(k[x].scanned) /\ IsWindow(k[x].active)
                            /\ (k[x].active = {} => k[x].token = 0)
  BY <1>6 DEF HistorySound
<1>14. \A x \in Calendars : IsWindow(j[x].scanned) /\ IsWindow(j[x].active)
         /\ (j[x].active = {} => j[x].token = 0)
  BY <1>8, <1>13, <1>12, EmptyIsWindow
<1>15. \A x \in Calendars : \A t :
         <<x, t>> \in google_dropped \/ t \in k[x].active =>
           <<x, t>> \in google_dropped \union given \/ j[x].active # {}
  <2>1. \A x \in Calendars : \A t : t \in k[x].active => t \in Google!Times
    BY <1>6 DEF Google!Histories
  <2> QED  BY <1>9, <1>12, <2>1
<1>16. ASSUME NEW x \in Calendars,
              \A t : <<x, t>> \in google_dropped \union given => <<x, t>> \in google_dropped'
       PROVE  GoogleFollows(x, k[x], j[x])
  <2>1. PICK none, g, o : none = {} /\ g = j[x] /\ o = k[x]
    OBVIOUS
  <2>2. /\ HistorySound(x, o) /\ g.scanned = o.scanned /\ IsWindow(none)
        /\ \/ g.active = o.active /\ g.token = o.token
           \/ g.active = none /\ g.token = 0
    BY <1>6, <1>8, <1>12, <2>1, EmptyIsWindow
  <2>3. CASE g.active = o.active /\ g.token = o.token
    <3>1. GoogleGoesOn(x, o, g)
      BY <1>16, <2>3 DEF GoogleGoesOn
    <3> QED  BY <1>2, <1>3, <2>1, <2>2, <3>1, GooglePlans
  <2>4. CASE g.active = none /\ g.token = 0
    <3>1. \A t : <<x, t>> \in google_dropped \/ t \in o.active =>
                <<x, t>> \in google_dropped' \/ t \in none
      BY <1>15, <1>16, <2>1, <2>4
    <3>2. GoogleTakes(x, o, g, none)
      BY <2>1, <2>4, <3>1 DEF GoogleTakes
    <3> QED  BY <1>2, <1>3, <2>1, <2>2, <3>2, GooglePlans
  <2> QED  BY <2>2, <2>3, <2>4
<1>17. CASE /\ google_state' = [google_state EXCEPT !.history = h]
            /\ google_dropped' = google_dropped \union given
            /\ Google!Move("worker", Google!Idle)
  <2>1. PICK s, n : s = Google!Idle /\ n = [google_state EXCEPT !.history = h]
    OBVIOUS
  <2>2. n = [live |-> google_state.live, history |-> j, turn |-> google_state.turn]
    BY <1>6, <1>12, <2>1
  <2>3. \A x \in Calendars : GoogleFollows(x, google_state.history[x], j[x])
    BY <1>5, <1>16, <1>17
  <2>4. s \in GooglePasses /\ s.phase = "idle" /\ Google!Move("worker", s)
    BY <1>17, <2>1, GooglePassForms
  <2>5. google_dropped' \subseteq Calendars \X Google!Times /\ google_state' = n
    BY <1>3, <1>10, <1>17, <2>1
  <2> QED  BY <1>2, <1>8, <1>12, <2>2, <2>3, <2>4, <2>5, GoogleReplans
<1>18. ASSUME NEW c \in due,
              google_state' = [google_state EXCEPT !.history =
                IF begins(c) THEN [h EXCEPT ![c].active = window(c), ![c].days = wanted] ELSE h],
              google_dropped' = (google_dropped \union given)
                                \ (IF begins(c) THEN {c} \X window(c) ELSE {}),
              Google!Move("worker", [phase |-> "history", calendar |-> c, window |-> window(c),
                todo |-> shown(c) \ google_stored,
                next |-> Google!NextToken(listed(c), shown(c))])
       PROVE  GoogleInv'
  <2>1. PICK w, g, d : w = window(c) /\ g = j[c] /\ d = wanted
    OBVIOUS
  <2>2. PICK list, page, next :
          list = listed(c) /\ page = shown(c) /\ next = Google!NextToken(list, page)
    OBVIOUS
  <2>3. c \in Calendars /\ w # {} /\ d \in Spans
    BY <1>4, <1>11, <2>1
  <2>4. /\ w = Google!Window(g, d) /\ list = Google!Listed(c, w, g.token)
        /\ page = Google!Smallest(list, Limit) /\ (begins(c) <=> g.active = {})
    BY <1>12, <2>1, <2>2 DEF window, listed, shown, begins
  <2>5. /\ g \in Google!Histories /\ IsWindow(g.scanned) /\ IsWindow(g.active)
        /\ (g.active = {} => g.token = 0) /\ g.token \in Nat
    BY <1>8, <1>14, <1>12, <2>1, <2>3, GoogleNumbers DEF Google!Histories
  <2>6. /\ IsWindow(w) /\ w \in SUBSET Google!Times
        /\ g.active = {} => w \intersect g.scanned = {}
        /\ g.active # {} => w = g.active
    BY <1>3, <2>3, <2>4, <2>5, GoogleWindow
  <2>7. PICK q : q = IF g.active = {} THEN [j EXCEPT ![c].active = w, ![c].days = d] ELSE j
    OBVIOUS
  <2>8. /\ q \in [Calendars -> Google!Histories]
        /\ q[c].scanned = g.scanned /\ q[c].active = w /\ q[c].token = g.token
        /\ \A x \in Calendars \ {c} : q[x] = j[x]
        /\ g.active # {} => q = j
    <3>1. j \in [Calendars -> Google!Histories]
      BY <1>8, <1>12
    <3>2. CASE g.active = {}
      <4>1. q = GoogleBegun(j, c, w, d)
        BY <2>7, <3>2 DEF GoogleBegun
      <4>2. w \in SUBSET Google!Times /\ c \in Calendars /\ d \in Spans
        BY <2>3, <2>6
      <4>3. /\ q \in [Calendars -> Google!Histories]
            /\ q[c].scanned = j[c].scanned /\ q[c].active = w /\ q[c].token = j[c].token
            /\ \A x \in Calendars \ {c} : q[x] = j[x]
        BY <3>1, <4>1, <4>2, GoogleBeginsWindow
      <4> QED  BY <2>1, <3>2, <4>3
    <3>3. CASE g.active # {}
      BY <2>1, <2>6, <2>7, <3>1, <3>3
    <3> QED  BY <3>2, <3>3
  <2>9. PICK n : n = [google_state EXCEPT !.history = q]
    OBVIOUS
  <2>10. n = [live |-> google_state.live, history |-> q, turn |-> google_state.turn]
    BY <1>6, <2>9
  <2>11. google_state' = n
    <3>1. q = IF begins(c) THEN [h EXCEPT ![c].active = window(c), ![c].days = wanted] ELSE h
      BY <1>12, <2>1, <2>4, <2>7
    <3> QED  BY <1>18, <2>9, <3>1
  <2>12. \A x, t : <<x, t>> \in google_dropped \union given =>
           <<x, t>> \in google_dropped' \/ (x = c /\ g.active = {} /\ t \in w)
    BY <1>18, <2>1, <2>4
  <2>13. google_dropped' \subseteq Calendars \X Google!Times
    BY <1>3, <1>10, <1>18
  <2>14. \A x \in Calendars : GoogleFollows(x, google_state.history[x], q[x])
    <3>1. ASSUME NEW x \in Calendars, x # c \/ g.active # {}
          PROVE  GoogleFollows(x, google_state.history[x], q[x])
      <4>1. q[x] = j[x]
        BY <2>8, <3>1
      <4>2. GoogleFollows(x, k[x], j[x])
        BY <1>16, <2>12, <3>1
      <4> QED  BY <1>5, <4>1, <4>2
    <3>2. ASSUME g.active = {}
          PROVE  GoogleFollows(c, google_state.history[c], q[c])
      <4>1. PICK f, o : f = q[c] /\ o = k[c]
        OBVIOUS
      <4>2. HistorySound(c, o) /\ f.scanned = o.scanned /\ f.active = w /\ f.token = 0
            /\ w \intersect o.scanned = {}
        BY <1>6, <1>8, <1>12, <2>1, <2>3, <2>5, <2>6, <2>8, <3>2, <4>1
      <4>3. \A t : <<c, t>> \in google_dropped \/ t \in o.active =>
                   <<c, t>> \in google_dropped' \/ t \in w
        BY <1>15, <2>1, <2>3, <2>12, <3>2, <4>1
      <4>4. GoogleTakes(c, o, f, w)
        BY <4>2, <4>3 DEF GoogleTakes
      <4>5. GoogleFollows(c, o, f)
        BY <1>2, <1>3, <2>3, <2>6, <4>2, <4>4, GooglePlans
      <4> QED  BY <1>5, <4>1, <4>5
    <3> QED  BY <3>1, <3>2
  <2>15. PICK s : s = [phase |-> "history", calendar |-> c, window |-> w,
                       todo |-> page \ google_stored, next |-> next]
    OBVIOUS
  <2>16. Google!Move("worker", s)
    BY <1>18, <2>1, <2>2, <2>15
  <2>17. page \in SUBSET Google!Events /\ next \in 0 .. MaxItems
    BY <2>2, <2>4, <2>5, GooglePage
  <2>18. s \in GooglePasses
    BY <2>3, <2>6, <2>15, <2>17, GooglePassForms
  <2>19. GooglePageKnown(s, q)
    <3>1. PICK f : f = q[c]
      OBVIOUS
    <3>2. HistorySound(c, f)'
      BY <2>3, <2>14, <3>1 DEF GoogleFollows
    <3>3. s.calendar = c /\ s.window = f.active /\ s.todo = page \ google_stored /\ s.next = next
          /\ s.phase = "history" /\ s.window = w /\ f.token = g.token
      BY <2>8, <2>15, <3>1
    <3>4. list = Google!Listed(c, f.active, f.token)
      BY <2>4, <3>3
    <3>5. ASSUME NEW m, HistoryBehind(c, m.history[c], f)'
          PROVE  Reads(s, m)'
      BY <1>2, <2>2, <2>3, <2>4, <2>5, <3>2, <3>3, <3>4, <3>5, GoogleReads
    <3> QED  BY <2>3, <2>6, <3>1, <3>3, <3>5 DEF GooglePageKnown
  <2> QED  BY <1>2, <2>8, <2>10, <2>11, <2>13, <2>14, <2>16, <2>18, <2>19, GoogleReplans
<1> QED  BY <1>1, <1>17, <1>18

LEMMA GoogleStep == GoogleInv /\ (Google!Next \/ UNCHANGED <<googleVars, days>>) => GoogleInv'
<1> SUFFICES ASSUME GoogleInv, Google!Next \/ UNCHANGED <<googleVars, days>>
             PROVE  GoogleInv'
  OBVIOUS
<1>1. CASE Google!Tick \/ Google!SetHistoryDays \/ UNCHANGED <<googleVars, days>>
  BY <1>1, GoogleQuiet
<1>2. ASSUME NEW p \in Google!Passes, Google!PassStep(p) \/ Google!Fail(p)
      PROVE  GoogleInv'
  BY <1>2, GoogleBegin, GoogleListLive, GoogleSave, GoogleEndLive, GoogleFail DEF Google!PassStep
<1>3. CASE Google!PlanHistory
  BY <1>3, GooglePlanHistory
<1>4. CASE Google!FinishHistory
  BY <1>4, GoogleFinishHistory
<1> QED  BY <1>1, <1>2, <1>3, <1>4 DEF Google!Next

LEMMA GoogleInvTypes == GoogleInv => Google!TypeOK
<1> SUFFICES ASSUME GoogleInv PROVE Google!TypeOK
  OBVIOUS
<1>1. GoogleTypes /\ CopySound(google_state, {})
  BY DEF GoogleInv, Related
<1>2. /\ google_state.live \in [Calendars -> Google!Chains]
      /\ google_state.turn \in {0} \union Calendars
      /\ google_state.history \in [Calendars -> Google!Histories]
  BY <1>1 DEF GoogleTypes, GoogleStates
<1>3. \A c \in Calendars : google_state.history[c].active = {} => google_state.history[c].token = 0
  BY <1>1 DEF CopySound, HistorySound
<1>4. \A s \in GooglePasses : s.phase \in Google!PassPhases
  BY DEF GooglePasses, GoogleOver, Google!PassPhases, Google!Idle
<1> QED  BY <1>1, <1>2, <1>3, <1>4 DEF Google!TypeOK, GoogleTypes

-----------------------------------------------------------------------------
(* One Yandex calendar.                                                    *)

\* What changed after a token comes with the next changes; the rest has to be stored.
YandexCurrent(e, t) ==
  yandex_changed[e] > t \/ yandex_stored[e] >= yandex_changed[e]

\* What the sync token vouches for.
YandexCovered(t, start, end) ==
  /\ t <= yandex_rev /\ end <= yandex_now + Ahead
  /\ start # Yandex!Never => start <= yandex_now
  /\ t # 0 => /\ start # Yandex!Never /\ end # Yandex!Never
              /\ \A e \in Yandex!Between(start, end) : e \in yandex_gap \/ YandexCurrent(e, t)

\* What a scan that is under way, and whose token will be t, has behind it.
YandexScan(t, cursor, chain) ==
  /\ t <= yandex_rev
  /\ t # 0 => \A e \in Yandex!Between(chain, cursor) :
                e \in yandex_gap \/ YandexCurrent(e, t)
  /\ t = 0 => cursor \in {Yandex!Never, chain}

\* What the range of the history has behind it is over, so it stays as it is stored.
YandexRange(r) ==
  /\ r # Yandex!NoRange => Yandex!Never < r.from /\ r.from < r.to
  /\ r.to <= yandex_now /\ r.cursor <= yandex_now
  /\ \A e \in Yandex!Between(r.from, r.cursor) :
       e \in yandex_gap \/ yandex_stored[e] >= yandex_changed[e]

EntrySound(n, chain) ==
  /\ YandexCovered(n.token, n.start, n.end)
  /\ n.token = 0 => YandexScan(n.pending, n.cursor, chain)
  /\ n.pending <= yandex_rev
  /\ YandexRange(n.range)

YandexWindow(s) ==
  /\ Yandex!Never < s.from /\ s.from < yandex_now /\ s.from < s.to
  /\ s.to <= yandex_now + Ahead /\ s.mine.end <= s.to /\ s.seen <= yandex_rev

\* An answer in the hands of a pass was right up to the token t.
YandexAnswered(a, t) ==
  \A e \in DOMAIN a :
    /\ yandex_stored[e] <= a[e] /\ a[e] <= yandex_changed[e]
    /\ a[e] = yandex_changed[e] \/ yandex_changed[e] > t

YandexPass(s) ==
  /\ s.phase \in {"open", "main", "changes", "slice", "done"} =>
       YandexWindow(s) /\ EntrySound(s.mine, s.chain)
  /\ s.phase = "changes" =>
       /\ s.mine.token # 0 /\ s.seen # 0 /\ YandexAnswered(s.answer, s.seen)
       /\ \A e \in Yandex!Between(s.from, s.to) \ DOMAIN s.answer :
            yandex_changed[e] <= s.mine.token \/ yandex_changed[e] > s.seen
  /\ s.phase = "slice" =>
       /\ s.mine.token = 0 /\ s.mine.pending # 0 /\ YandexAnswered(s.answer, s.mine.pending)
       /\ DOMAIN s.answer \subseteq Yandex!Between(s.mine.cursor, s.end)
       /\ s.end < s.to => s.mine.cursor < s.end

\* A pass that reads old events, of the range it finds in the entry.
YandexOld(s, r) ==
  s.phase = "old" =>
    /\ r # Yandex!NoRange /\ s.cursor \in {r.cursor, r.from}
    /\ r.cursor <= s.cursor /\ r.from <= s.cursor
    /\ s.end <= r.to /\ (s.end < r.to => s.cursor < s.end)
    /\ DOMAIN s.answer \subseteq Yandex!Between(s.cursor, s.end)
    /\ \A e \in DOMAIN s.answer : s.answer[e] = yandex_changed[e]

YandexRanges ==
  [from : Yandex!Moments, to : Yandex!Moments, cursor : Yandex!Moments,
   days : {0} \union Spans]
YandexEntries ==
  [token : Nat, pending : Nat, cursor : Yandex!Moments, start : Yandex!Moments,
   end : Yandex!Moments, range : YandexRanges]
YandexAnswers == UNION {[D -> Nat] : D \in SUBSET Yandex!Events}
YandexPasses ==
  {Yandex!Idle}
  \union [phase : {"open", "main", "changes", "slice", "done"}, worker : BOOLEAN,
          days : Spans, from : Yandex!Moments, to : Yandex!Moments, seen : Nat,
          mine : YandexEntries, chain : Yandex!Moments, answer : YandexAnswers,
          end : Yandex!Moments]
  \union [phase : {"plan"}, days : Spans]
  \union [phase : {"old"}, cursor : Yandex!Moments, end : Yandex!Moments,
          answer : YandexAnswers]

YandexTypes ==
  /\ yandex_now \in 0 .. LastDay /\ days \in Spans
  /\ yandex_at \in [Yandex!Events -> Int] /\ yandex_rev \in 1 .. MaxEdits + 1
  /\ yandex_changed \in [Yandex!Events -> 1 .. yandex_rev]
  /\ yandex_stored \in [Yandex!Events -> 0 .. yandex_rev]
  /\ \A e \in Yandex!Events : yandex_stored[e] <= yandex_changed[e]
  /\ yandex_entry \in YandexEntries /\ yandex_pass \in YandexPasses
  /\ yandex_chain \in Yandex!Moments /\ yandex_gap \subseteq Yandex!Events

YandexInv ==
  /\ YandexTypes
  /\ EntrySound(yandex_entry, yandex_chain)
  /\ YandexPass(yandex_pass) /\ YandexOld(yandex_pass, yandex_entry.range)

LEMMA YandexMoments ==
  /\ Max(Spans) \in Nat /\ \A d \in Spans : d \in Nat \ {0} /\ d <= Max(Spans)
  /\ Yandex!Never = 0 - Max(Spans) - 1
  /\ Yandex!Moments = Yandex!Never .. (LastDay + Ahead)
  /\ LastDay \in Nat /\ Ahead \in Nat \ {0} /\ Slice \in Nat \ {0} /\ MaxEdits \in Nat
<1>1. Max(Spans) \in Nat /\ \A d \in Spans : d \in Nat \ {0} /\ d <= Max(Spans)
  BY SpansBounded, HistoryAssumption
<1>2. Yandex!Max(Spans) = Max(Spans)
  BY DEF Yandex!Max, Max
<1>3. LastDay \in Nat /\ Ahead \in Nat \ {0} /\ Slice \in Nat \ {0} /\ MaxEdits \in Nat
  BY HistoryAssumption, BoundsAssumption
<1>4. Yandex!Never = 0 - Max(Spans) - 1
  BY <1>2 DEF Yandex!Never
<1>5. Yandex!Moments = Yandex!Never .. (LastDay + Ahead)
  BY <1>1, <1>2, <1>3, <1>4 DEF Yandex!Moments
<1> QED  BY <1>1, <1>3, <1>4, <1>5

\* The greatest and the least of two numbers.
LEMMA YandexOfTwo ==
  ASSUME NEW a \in Int, NEW b \in Int
  PROVE  /\ Yandex!Max({a, b}) \in {a, b} /\ Yandex!Max({a, b}) >= a /\ Yandex!Max({a, b}) >= b
         /\ Yandex!Min({a, b}) \in {a, b} /\ Yandex!Min({a, b}) <= a /\ Yandex!Min({a, b}) <= b
<1>1. {a, b} \in SUBSET Int /\ IsFiniteSet({a, b}) /\ {a, b} # {}
  <2>1. IsFiniteSet({a}) /\ IsFiniteSet({a} \union {b})
    BY FS_Singleton, FS_AddElement
  <2>2. {a, b} = {a} \union {b}
    OBVIOUS
  <2> QED  BY <2>1, <2>2
<1>2. Max({a, b}) \in {a, b} /\ \A y \in {a, b} : Max({a, b}) >= y
  BY <1>1, MaxIsGreatest
<1>3. Min({a, b}) \in {a, b} /\ \A y \in {a, b} : Min({a, b}) <= y
  BY <1>1, MinIsLeast
<1>4. Yandex!Max({a, b}) = Max({a, b}) /\ Yandex!Min({a, b}) = Min({a, b})
  BY DEF Yandex!Max, Max, Yandex!Min, Min
<1> QED  BY <1>2, <1>3, <1>4

\* A slice ends within the range; it ends after it began, unless the range ends there.
LEMMA YandexSlice ==
  ASSUME NEW c \in Yandex!Moments, NEW t \in Yandex!Moments
  PROVE  /\ Yandex!SliceEnd(c, t) \in Yandex!Moments /\ Yandex!SliceEnd(c, t) <= t
         /\ Yandex!SliceEnd(c, t) < t => c < Yandex!SliceEnd(c, t)
         /\ c <= t => c <= Yandex!SliceEnd(c, t)
<1>1. c \in Int /\ t \in Int /\ c + Slice \in Int /\ c + Slice > c
  BY YandexMoments
<1>2. PICK s : s = Yandex!SliceEnd(c, t)
  OBVIOUS
<1>3. s \in {c + Slice, t} /\ s <= c + Slice /\ s <= t
  BY <1>1, <1>2, YandexOfTwo DEF Yandex!SliceEnd
<1>4. s \in Yandex!Moments
  BY <1>1, <1>3, YandexMoments
<1> QED  BY <1>1, <1>2, <1>3, <1>4

LEMMA YandexNext ==
  ASSUME NEW c \in Int, NEW t \in Int, c < t
  PROVE  /\ Yandex!NextSlice(c, t) \in Int
         /\ c <= Yandex!NextSlice(c, t) /\ Yandex!NextSlice(c, t) <= t
BY DEF Yandex!NextSlice

-----------------------------------------------------------------------------
(* What a step may do without taking back what was sound.                  *)

YandexGrow ==
  /\ yandex_at' = yandex_at /\ yandex_now' >= yandex_now /\ yandex_rev' >= yandex_rev
  /\ yandex_now' \in Int /\ yandex_rev' \in Int /\ yandex_gap \subseteq yandex_gap'
  /\ \A e \in Yandex!Events :
       /\ yandex_changed'[e] \in Int /\ yandex_stored'[e] \in Int
       /\ \/ yandex_changed'[e] = yandex_changed[e] /\ yandex_stored'[e] >= yandex_stored[e]
          \/ yandex_changed'[e] > yandex_rev /\ yandex_at[e] >= yandex_now

LEMMA YandexNumbers ==
  ASSUME YandexTypes
  PROVE  /\ yandex_now \in Nat /\ yandex_rev \in Nat \ {0}
         /\ \A e \in Yandex!Events :
              yandex_changed[e] \in Nat \ {0} /\ yandex_stored[e] \in Nat /\ yandex_at[e] \in Int
              /\ yandex_changed[e] <= yandex_rev /\ yandex_stored[e] <= yandex_changed[e]
<1>1. yandex_now \in Nat /\ yandex_rev \in Nat \ {0}
  BY YandexMoments DEF YandexTypes
<1> QED  BY <1>1 DEF YandexTypes

LEMMA YandexBetween ==
  ASSUME NEW a, NEW b
  PROVE  /\ Yandex!Between(a, b) \subseteq Yandex!Events
         /\ \A e \in Yandex!Events :
              e \in Yandex!Between(a, b) <=> yandex_at[e] >= a /\ yandex_at[e] < b
BY DEF Yandex!Between

LEMMA YandexSameTimes ==
  ASSUME YandexGrow, NEW a, NEW b
  PROVE  Yandex!Between(a, b)' = Yandex!Between(a, b)
BY DEF YandexGrow, Yandex!Between, Yandex!Events

LEMMA CurrentStands ==
  ASSUME YandexTypes, YandexGrow, NEW e \in Yandex!Events, NEW t \in Int, t <= yandex_rev,
         YandexCurrent(e, t)
  PROVE  YandexCurrent(e, t)'
<1>1. /\ yandex_rev \in Int /\ yandex_changed[e] \in Int /\ yandex_stored[e] \in Int
      /\ yandex_changed'[e] \in Int /\ yandex_stored'[e] \in Int
  BY YandexNumbers DEF YandexGrow
<1>2. \/ yandex_changed'[e] = yandex_changed[e] /\ yandex_stored'[e] >= yandex_stored[e]
      \/ yandex_changed'[e] > yandex_rev
  BY DEF YandexGrow
<1> QED  BY <1>1, <1>2 DEF YandexCurrent

LEMMA CoveredStands ==
  ASSUME YandexTypes, YandexGrow, NEW t \in Int, NEW a \in Int, NEW b \in Int,
         YandexCovered(t, a, b)
  PROVE  YandexCovered(t, a, b)'
<1>1. /\ yandex_rev \in Int /\ yandex_rev' \in Int /\ yandex_rev <= yandex_rev'
      /\ yandex_now \in Int /\ yandex_now' \in Int /\ yandex_now <= yandex_now' /\ Ahead \in Int
  BY YandexNumbers, YandexMoments DEF YandexGrow
<1>2. t <= yandex_rev' /\ b <= yandex_now' + Ahead /\ (a # Yandex!Never => a <= yandex_now')
  <2>1. t <= yandex_rev /\ b <= yandex_now + Ahead /\ (a # Yandex!Never => a <= yandex_now)
    BY DEF YandexCovered
  <2>2. t <= yandex_rev'
    BY <1>1, <2>1
  <2>3. b <= yandex_now' + Ahead
    <3>1. \A x, y, z \in Int : x <= y /\ b <= x + z => b <= y + z
      OBVIOUS
    <3> QED  BY <1>1, <2>1, <3>1
  <2>4. a # Yandex!Never => a <= yandex_now'
    BY <1>1, <2>1
  <2> QED  BY <2>2, <2>3, <2>4
<1>3. ASSUME t # 0, NEW e \in Yandex!Between(a, b)
      PROVE  e \in yandex_gap' \/ YandexCurrent(e, t)'
  BY <1>1, <1>3, CurrentStands, YandexBetween DEF YandexCovered, YandexGrow
<1> QED  BY <1>2, <1>3, YandexSameTimes DEF YandexCovered

LEMMA ScanStands ==
  ASSUME YandexTypes, YandexGrow, NEW t \in Int, NEW a, NEW b, YandexScan(t, a, b)
  PROVE  YandexScan(t, a, b)'
<1>1. /\ yandex_rev \in Int /\ yandex_rev' \in Int /\ yandex_rev <= yandex_rev'
  BY YandexNumbers DEF YandexGrow
<1>2. ASSUME t # 0, NEW e \in Yandex!Between(b, a)
      PROVE  e \in yandex_gap' \/ YandexCurrent(e, t)'
  <2>1. e \in Yandex!Events /\ t <= yandex_rev /\ yandex_gap \subseteq yandex_gap'
        /\ (e \in yandex_gap \/ YandexCurrent(e, t))
    BY <1>2, YandexBetween DEF YandexScan, YandexGrow
  <2> QED  BY <2>1, CurrentStands
<1>3. t <= yandex_rev'
  BY <1>1 DEF YandexScan
<1> QED  BY <1>2, <1>3, YandexSameTimes DEF YandexScan

LEMMA RangeStands ==
  ASSUME YandexTypes, YandexGrow, NEW r \in YandexRanges, YandexRange(r)
  PROVE  YandexRange(r)'
<1>1. /\ yandex_now \in Int /\ yandex_now' \in Int /\ yandex_now <= yandex_now'
      /\ r.to \in Int /\ r.cursor \in Int
  BY YandexNumbers, YandexMoments DEF YandexGrow, YandexRanges
<1>2. r.to <= yandex_now' /\ r.cursor <= yandex_now' /\ (r # Yandex!NoRange => Yandex!Never < r.from /\ r.from < r.to)
  BY <1>1 DEF YandexRange
<1>3. ASSUME NEW e \in Yandex!Between(r.from, r.cursor)
      PROVE  e \in yandex_gap' \/ yandex_stored'[e] >= yandex_changed'[e]
  <2>1. e \in Yandex!Events /\ yandex_at[e] < r.cursor /\ yandex_at[e] \in Int
    BY <1>3, YandexBetween, YandexNumbers
  <2>2. ~ yandex_at[e] >= yandex_now
    BY <1>1, <2>1 DEF YandexRange
  <2>3. yandex_changed'[e] = yandex_changed[e] /\ yandex_stored'[e] >= yandex_stored[e]
        /\ yandex_stored'[e] \in Int
    BY <2>1, <2>2 DEF YandexGrow
  <2>4. e \in yandex_gap \/ yandex_stored[e] >= yandex_changed[e]
    BY <1>3 DEF YandexRange
  <2>5. yandex_gap \subseteq yandex_gap'
    BY DEF YandexGrow
  <2> QED  BY <2>1, <2>3, <2>4, <2>5, YandexNumbers
<1> QED  BY <1>2, <1>3, YandexSameTimes DEF YandexRange

LEMMA EntryStands ==
  ASSUME YandexTypes, YandexGrow, NEW n \in YandexEntries, NEW c, EntrySound(n, c)
  PROVE  EntrySound(n, c)'
<1>1. /\ n.token \in Int /\ n.pending \in Int /\ n.start \in Int /\ n.end \in Int
      /\ n.range \in YandexRanges
  BY YandexMoments DEF YandexEntries
<1>2. /\ YandexCovered(n.token, n.start, n.end) /\ YandexRange(n.range)
      /\ n.token = 0 => YandexScan(n.pending, n.cursor, c)
      /\ n.pending <= yandex_rev
  BY DEF EntrySound
<1>3. YandexCovered(n.token, n.start, n.end)' /\ YandexRange(n.range)'
  BY <1>1, <1>2, CoveredStands, RangeStands
<1>4. n.token = 0 => YandexScan(n.pending, n.cursor, c)'
  BY <1>1, <1>2, ScanStands
<1>5. n.pending <= yandex_rev'
  BY <1>1, <1>2, YandexNumbers DEF YandexGrow
<1> QED  BY <1>3, <1>4, <1>5 DEF EntrySound

\* What a pass consists of.
YandexLivePhases == {"open", "main", "changes", "slice", "done"}

LEMMA YandexPassParts ==
  ASSUME NEW s \in YandexPasses
  PROVE  /\ s.phase \in YandexLivePhases =>
              /\ s.from \in Yandex!Moments /\ s.to \in Yandex!Moments /\ s.seen \in Nat
              /\ s.mine \in YandexEntries /\ s.chain \in Yandex!Moments
              /\ s.answer \in YandexAnswers /\ s.end \in Yandex!Moments
              /\ s.days \in Spans /\ s.worker \in BOOLEAN
              /\ s = [phase |-> s.phase, worker |-> s.worker, days |-> s.days,
                      from |-> s.from, to |-> s.to, seen |-> s.seen, mine |-> s.mine,
                      chain |-> s.chain, answer |-> s.answer, end |-> s.end]
         /\ s.phase = "plan" => s.days \in Spans
         /\ s.phase = "old" => /\ s.cursor \in Yandex!Moments /\ s.end \in Yandex!Moments
                               /\ s.answer \in YandexAnswers
         /\ s.phase \in Yandex!Phases
<1>1. Yandex!Idle.phase = "idle"
  BY DEF Yandex!Idle
<1>2. s.phase \in Yandex!Phases
  BY <1>1 DEF YandexPasses, Yandex!Phases
<1>3. ASSUME s.phase \in YandexLivePhases
      PROVE  s \in [phase : {"open", "main", "changes", "slice", "done"}, worker : BOOLEAN,
                    days : Spans, from : Yandex!Moments, to : Yandex!Moments, seen : Nat,
                    mine : YandexEntries, chain : Yandex!Moments, answer : YandexAnswers,
                    end : Yandex!Moments]
  BY <1>1, <1>3 DEF YandexPasses, YandexLivePhases
<1>4. s.phase = "plan" => s \in [phase : {"plan"}, days : Spans]
  BY <1>1 DEF YandexPasses
<1>5. s.phase = "old" =>
        s \in [phase : {"old"}, cursor : Yandex!Moments, end : Yandex!Moments,
               answer : YandexAnswers]
  BY <1>1 DEF YandexPasses
<1> QED  BY <1>2, <1>3, <1>4, <1>5

LEMMA YandexAnswerParts ==
  ASSUME NEW a \in YandexAnswers
  PROVE  DOMAIN a \subseteq Yandex!Events /\ \A e \in DOMAIN a : a[e] \in Nat
BY DEF YandexAnswers

\* Time goes on, an event changes: nothing is stored meanwhile.
LEMMA AnsweredStands ==
  ASSUME YandexTypes, YandexGrow, yandex_stored' = yandex_stored,
         NEW a \in YandexAnswers, NEW t \in Nat, t <= yandex_rev, YandexAnswered(a, t)
  PROVE  YandexAnswered(a, t)'
<1>1. ASSUME NEW e \in DOMAIN a
      PROVE  /\ yandex_stored'[e] <= a[e] /\ a[e] <= yandex_changed'[e]
             /\ a[e] = yandex_changed'[e] \/ yandex_changed'[e] > t
  <2>1. /\ e \in Yandex!Events /\ a[e] \in Nat /\ yandex_stored[e] <= a[e]
        /\ a[e] <= yandex_changed[e] /\ (a[e] = yandex_changed[e] \/ yandex_changed[e] > t)
    BY <1>1, YandexAnswerParts DEF YandexAnswered
  <2>2. /\ yandex_changed[e] \in Nat /\ yandex_changed[e] <= yandex_rev /\ yandex_rev \in Nat
        /\ yandex_changed'[e] \in Int
    BY <2>1, YandexNumbers DEF YandexGrow
  <2>3. yandex_changed'[e] = yandex_changed[e] \/ yandex_changed'[e] > yandex_rev
    BY <2>1 DEF YandexGrow
  <2> QED  BY <2>1, <2>2, <2>3
<1> QED  BY <1>1 DEF YandexAnswered

LEMMA WindowStands ==
  ASSUME YandexTypes, YandexGrow, NEW s \in YandexPasses, s.phase \in YandexLivePhases,
         YandexWindow(s)
  PROVE  YandexWindow(s)'
<1>1. /\ yandex_rev \in Int /\ yandex_rev' \in Int /\ yandex_rev <= yandex_rev'
      /\ yandex_now \in Int /\ yandex_now' \in Int /\ yandex_now <= yandex_now' /\ Ahead \in Int
  BY YandexNumbers, YandexMoments DEF YandexGrow
<1>2. s.from \in Int /\ s.to \in Int /\ s.seen \in Int
  BY YandexPassParts, YandexMoments
<1>3. s.from < yandex_now /\ s.to <= yandex_now + Ahead /\ s.seen <= yandex_rev
      /\ Yandex!Never < s.from /\ s.from < s.to /\ s.mine.end <= s.to
  BY DEF YandexWindow
<1>4. s.from < yandex_now'
  BY <1>1, <1>2, <1>3
<1>5. s.seen <= yandex_rev'
  BY <1>1, <1>2, <1>3
<1>6. s.to <= yandex_now' + Ahead
  <2>1. \A x, y, z, b \in Int : x <= y /\ b <= x + z => b <= y + z
    OBVIOUS
  <2> QED  BY <1>1, <1>2, <1>3, <2>1
<1> QED  BY <1>3, <1>4, <1>5, <1>6 DEF YandexWindow

LEMMA PassStands ==
  ASSUME YandexTypes, YandexGrow, yandex_stored' = yandex_stored,
         NEW s \in YandexPasses, YandexPass(s)
  PROVE  YandexPass(s)'
<1>1. ASSUME s.phase \in YandexLivePhases
      PROVE  YandexWindow(s)' /\ EntrySound(s.mine, s.chain)'
  BY <1>1, YandexPassParts, WindowStands, EntryStands DEF YandexPass, YandexLivePhases
<1>2. ASSUME s.phase = "changes"
      PROVE  /\ s.mine.token # 0 /\ s.seen # 0 /\ YandexAnswered(s.answer, s.seen)'
             /\ \A e \in Yandex!Between(s.from, s.to)' \ DOMAIN s.answer :
                  yandex_changed'[e] <= s.mine.token \/ yandex_changed'[e] > s.seen
  <2>1. s.mine.token # 0 /\ s.seen # 0 /\ YandexAnswered(s.answer, s.seen) /\ YandexWindow(s)
    BY <1>2 DEF YandexPass
  <2>2. s.answer \in YandexAnswers /\ s.seen \in Nat
    BY <1>2, YandexPassParts DEF YandexLivePhases
  <2>3. s.seen <= yandex_rev
    BY <2>1 DEF YandexWindow
  <2>4. YandexAnswered(s.answer, s.seen)'
    BY <2>1, <2>2, <2>3, AnsweredStands
  <2>5. ASSUME NEW e \in Yandex!Between(s.from, s.to)' \ DOMAIN s.answer
        PROVE  yandex_changed'[e] <= s.mine.token \/ yandex_changed'[e] > s.seen
    <3>1. e \in Yandex!Between(s.from, s.to) \ DOMAIN s.answer /\ e \in Yandex!Events
      BY <2>5, YandexSameTimes, YandexBetween
    <3>2. yandex_changed[e] <= s.mine.token \/ yandex_changed[e] > s.seen
      BY <1>2, <3>1 DEF YandexPass
    <3>3. yandex_changed'[e] = yandex_changed[e] \/ yandex_changed'[e] > yandex_rev
      BY <3>1 DEF YandexGrow
    <3>4. yandex_changed'[e] \in Int /\ yandex_rev \in Int
      BY <3>1, YandexNumbers DEF YandexGrow
    <3> QED  BY <2>2, <2>3, <3>2, <3>3, <3>4
  <2> QED  BY <2>1, <2>4, <2>5
<1>3. ASSUME s.phase = "slice"
      PROVE  /\ s.mine.token = 0 /\ s.mine.pending # 0
             /\ YandexAnswered(s.answer, s.mine.pending)'
             /\ DOMAIN s.answer \subseteq Yandex!Between(s.mine.cursor, s.end)'
             /\ s.end < s.to => s.mine.cursor < s.end
  <2>1. /\ s.mine.token = 0 /\ s.mine.pending # 0 /\ YandexAnswered(s.answer, s.mine.pending)
        /\ EntrySound(s.mine, s.chain)
        /\ DOMAIN s.answer \subseteq Yandex!Between(s.mine.cursor, s.end)
        /\ s.end < s.to => s.mine.cursor < s.end
    BY <1>3 DEF YandexPass
  <2>2. s.answer \in YandexAnswers /\ s.mine \in YandexEntries
    BY <1>3, YandexPassParts DEF YandexLivePhases
  <2>3. s.mine.pending \in Nat /\ s.mine.pending <= yandex_rev
    BY <2>1, <2>2 DEF YandexEntries, EntrySound
  <2> QED  BY <2>1, <2>2, <2>3, AnsweredStands, YandexSameTimes
<1> QED  BY <1>1, <1>2, <1>3 DEF YandexPass, YandexLivePhases

LEMMA OldStands ==
  ASSUME YandexTypes, YandexGrow, NEW s \in YandexPasses, NEW r \in YandexRanges,
         YandexRange(r), YandexOld(s, r)
  PROVE  YandexOld(s, r)'
<1> SUFFICES ASSUME s.phase = "old"
             PROVE  /\ DOMAIN s.answer \subseteq Yandex!Between(s.cursor, s.end)'
                    /\ \A e \in DOMAIN s.answer : s.answer[e] = yandex_changed'[e]
  BY DEF YandexOld
<1>1. /\ DOMAIN s.answer \subseteq Yandex!Between(s.cursor, s.end) /\ s.end <= r.to
      /\ r.to <= yandex_now
  BY DEF YandexOld, YandexRange
<1>2. s.end \in Int /\ r.to \in Int /\ yandex_now \in Int
  BY YandexPassParts, YandexMoments, YandexNumbers DEF YandexRanges
<1>3. ASSUME NEW e \in DOMAIN s.answer
      PROVE  s.answer[e] = yandex_changed'[e]
  <2>1. e \in Yandex!Events /\ yandex_at[e] < s.end /\ yandex_at[e] \in Int
    BY <1>1, <1>3, YandexBetween, YandexNumbers
  <2>2. ~ yandex_at[e] >= yandex_now
    BY <1>1, <1>2, <2>1
  <2>3. yandex_changed'[e] = yandex_changed[e]
    BY <2>1, <2>2 DEF YandexGrow
  <2> QED  BY <1>3, <2>3 DEF YandexOld
<1> QED  BY <1>1, <1>3, YandexSameTimes

LEMMA YandexInit == Yandex!Init => YandexInv
<1> SUFFICES ASSUME Yandex!Init PROVE YandexInv
  OBVIOUS
<1>1. /\ yandex_now = 0 /\ yandex_rev = 1 /\ yandex_entry = Yandex!NewEntry
      /\ yandex_pass = Yandex!Idle /\ yandex_chain = Yandex!Never /\ yandex_gap = {}
      /\ yandex_changed = [e \in Yandex!Events |-> 1] /\ days \in Spans
      /\ yandex_stored = [e \in Yandex!Events |-> 0] /\ yandex_at \in YandexPlacements
  BY DEF Yandex!Init
<1>2. /\ Yandex!Never \in Yandex!Moments /\ Yandex!Never < 0 /\ Yandex!Never \in Int
      /\ Ahead \in Nat
  BY YandexMoments
<1>3. Yandex!NoRange \in YandexRanges
  BY <1>2 DEF YandexRanges, Yandex!NoRange
<1>4. Yandex!NewEntry \in YandexEntries
  BY <1>2, <1>3 DEF YandexEntries, Yandex!NewEntry
<1>5. yandex_at \in [Yandex!Events -> Int]
  BY <1>1, PlacementsAssumption DEF Yandex!Events
<1>6. YandexTypes
  <2>1. yandex_now \in 0 .. LastDay /\ yandex_rev \in 1 .. MaxEdits + 1
    BY <1>1, YandexMoments
  <2>2. /\ yandex_changed \in [Yandex!Events -> 1 .. yandex_rev]
        /\ yandex_stored \in [Yandex!Events -> 0 .. yandex_rev]
        /\ \A e \in Yandex!Events : yandex_stored[e] <= yandex_changed[e]
    BY <1>1
  <2> QED  BY <1>1, <1>2, <1>4, <1>5, <2>1, <2>2 DEF YandexTypes, YandexPasses
<1>7. \A e : e \notin Yandex!Between(Yandex!Never, Yandex!Never)
  <2>1. ASSUME NEW e \in Yandex!Between(Yandex!Never, Yandex!Never)
        PROVE  FALSE
    BY <1>2, <1>5, <2>1 DEF Yandex!Between
  <2> QED  BY <2>1
<1>8. YandexRange(Yandex!NoRange)
  BY <1>1, <1>2, <1>7 DEF YandexRange, Yandex!NoRange
<1>9. EntrySound(yandex_entry, yandex_chain)
  <2>1. YandexCovered(0, Yandex!Never, Yandex!Never) /\ YandexScan(0, Yandex!Never, Yandex!Never)
    BY <1>1, <1>2 DEF YandexCovered, YandexScan
  <2> QED  BY <1>1, <1>8, <2>1 DEF EntrySound, Yandex!NewEntry
<1>10. YandexPass(yandex_pass) /\ YandexOld(yandex_pass, yandex_entry.range)
  BY <1>1 DEF YandexPass, YandexOld, Yandex!Idle
<1> QED  BY <1>6, <1>9, <1>10 DEF YandexInv

\* A step that leaves the connector alone: what it has in its hands is as good as before.
LEMMA YandexSurroundings ==
  ASSUME YandexInv, YandexGrow, YandexTypes',
         UNCHANGED <<yandex_stored, yandex_entry, yandex_pass, yandex_chain>>
  PROVE  YandexInv'
<1>1. YandexTypes /\ yandex_entry \in YandexEntries /\ yandex_pass \in YandexPasses
      /\ yandex_stored' = yandex_stored
  BY DEF YandexInv, YandexTypes
<1>2. PICK n, s, c : n = yandex_entry /\ s = yandex_pass /\ c = yandex_chain
  OBVIOUS
<1>3. /\ n \in YandexEntries /\ s \in YandexPasses /\ EntrySound(n, c)
      /\ YandexPass(s) /\ YandexOld(s, n.range)
      /\ n.range \in YandexRanges /\ YandexRange(n.range)
  BY <1>1, <1>2 DEF YandexInv, YandexEntries, EntrySound
<1>4. EntrySound(n, c)' /\ YandexPass(s)' /\ YandexOld(s, n.range)'
  BY <1>1, <1>3, EntryStands, PassStands, OldStands
<1> QED  BY <1>2, <1>4 DEF YandexInv

LEMMA YandexQuiet ==
  ASSUME YandexInv,
         Yandex!Tick \/ Yandex!SetHistoryDays \/ Yandex!Edit
         \/ (UNCHANGED yandexVars /\ days' \in Spans)
  PROVE  YandexInv'
<1>1. YandexTypes
  BY DEF YandexInv
<1>2. /\ yandex_now \in Nat /\ yandex_rev \in Nat \ {0} /\ MaxEdits \in Nat /\ LastDay \in Nat
      /\ yandex_now <= LastDay /\ yandex_rev <= MaxEdits + 1
      /\ yandex_changed \in [Yandex!Events -> 1 .. yandex_rev]
      /\ yandex_stored \in [Yandex!Events -> 0 .. yandex_rev]
  BY <1>1, YandexNumbers, YandexMoments DEF YandexTypes
<1>3. CASE ~ Yandex!Edit
  <2>1. /\ UNCHANGED <<yandex_at, yandex_changed, yandex_rev, yandex_stored, yandex_entry,
                       yandex_pass, yandex_chain, yandex_gap>>
        /\ \/ yandex_now' = yandex_now
           \/ yandex_now < LastDay /\ yandex_now' = yandex_now + 1
        /\ days' \in Spans
    BY <1>1, <1>3 DEF Yandex!Tick, Yandex!SetHistoryDays, yandexVars, YandexTypes
  <2>2. yandex_now' \in 0 .. LastDay /\ yandex_now' >= yandex_now /\ yandex_now' \in Int
    BY <1>2, <2>1
  <2>3. YandexGrow
    BY <1>1, <1>2, <2>1, <2>2, YandexNumbers DEF YandexGrow
  <2>4. YandexTypes'
    BY <1>1, <2>1, <2>2 DEF YandexTypes
  <2> QED  BY <2>1, <2>3, <2>4, YandexSurroundings
<1>4. CASE Yandex!Edit
  <2>1. PICK e \in Yandex!Events :
          /\ yandex_rev <= MaxEdits /\ yandex_rev' = yandex_rev + 1 /\ yandex_at[e] >= yandex_now
          /\ yandex_changed' = [yandex_changed EXCEPT ![e] = yandex_rev + 1]
    BY <1>4 DEF Yandex!Edit
  <2>2. UNCHANGED <<yandex_now, days, yandex_at, yandex_stored, yandex_entry, yandex_pass,
                    yandex_chain, yandex_gap>>
    BY <1>4 DEF Yandex!Edit
  <2>3. yandex_rev' \in 1 .. MaxEdits + 1 /\ yandex_rev' > yandex_rev /\ yandex_rev' \in Int
    BY <1>2, <2>1
  <2>4. \A x \in Yandex!Events : x # e => yandex_changed'[x] = yandex_changed[x]
    BY <1>2, <2>1
  <2>5. yandex_changed'[e] = yandex_rev + 1
    BY <1>2, <2>1
  <2>6. yandex_changed' \in [Yandex!Events -> 1 .. yandex_rev']
    <3>1. \A x \in Yandex!Events : yandex_changed'[x] \in 1 .. yandex_rev'
      BY <1>2, <2>1, <2>4, <2>5
    <3> QED  BY <1>2, <2>1, <3>1
  <2>7. yandex_stored' \in [Yandex!Events -> 0 .. yandex_rev']
    <3>1. \A x \in Yandex!Events : yandex_stored[x] \in 0 .. yandex_rev'
      BY <1>2, <2>1
    <3> QED  BY <1>2, <2>2, <3>1
  <2>8. \A x \in Yandex!Events : yandex_stored'[x] <= yandex_changed'[x]
    BY <1>2, <2>2, <2>4, <2>5, YandexNumbers, <1>1
  <2>9. YandexTypes'
    BY <1>1, <2>2, <2>3, <2>6, <2>7, <2>8 DEF YandexTypes
  <2>10. YandexGrow
    <3>1. ASSUME NEW x \in Yandex!Events
          PROVE  /\ yandex_changed'[x] \in Int /\ yandex_stored'[x] \in Int
                 /\ \/ yandex_changed'[x] = yandex_changed[x]
                       /\ yandex_stored'[x] >= yandex_stored[x]
                    \/ yandex_changed'[x] > yandex_rev /\ yandex_at[x] >= yandex_now
      <4>1. yandex_changed[x] \in Int /\ yandex_stored[x] \in Int /\ yandex_stored'[x] = yandex_stored[x]
        BY <1>1, <2>2, YandexNumbers
      <4>2. CASE x = e
        BY <1>2, <2>1, <2>5, <4>1, <4>2
      <4>3. CASE x # e
        BY <2>4, <4>1, <4>3
      <4> QED  BY <4>2, <4>3
    <3> QED  BY <1>2, <2>2, <2>3, <3>1 DEF YandexGrow
  <2> QED  BY <2>2, <2>9, <2>10, YandexSurroundings
<1> QED  BY <1>3, <1>4

-----------------------------------------------------------------------------
(* The steps of a pass: the calendar stays as it is, events are stored.     *)

YandexStill == UNCHANGED <<yandex_now, days, yandex_at, yandex_changed, yandex_rev>>

YandexStores ==
  /\ yandex_stored' \in [Yandex!Events -> 0 .. yandex_rev]
  /\ \A e \in Yandex!Events :
       yandex_stored[e] <= yandex_stored'[e] /\ yandex_stored'[e] <= yandex_changed[e]
  /\ yandex_gap \subseteq yandex_gap' /\ yandex_gap' \subseteq Yandex!Events

LEMMA YandexStillGrows ==
  ASSUME YandexTypes, YandexStill, YandexStores
  PROVE  YandexGrow
<1>1. /\ yandex_at' = yandex_at /\ yandex_now' = yandex_now /\ yandex_rev' = yandex_rev
      /\ yandex_changed' = yandex_changed
  BY DEF YandexStill
<1>2. yandex_now \in Int /\ yandex_rev \in Int
  BY YandexNumbers
<1>3. ASSUME NEW e \in Yandex!Events
      PROVE  yandex_changed[e] \in Int /\ yandex_stored'[e] \in Int
             /\ yandex_stored'[e] >= yandex_stored[e]
  BY YandexNumbers DEF YandexStores
<1> QED  BY <1>1, <1>2, <1>3 DEF YandexGrow, YandexStores

LEMMA YandexNothingStored ==
  ASSUME YandexTypes, UNCHANGED <<yandex_stored, yandex_gap>>
  PROVE  YandexStores
BY YandexNumbers DEF YandexStores, YandexTypes

LEMMA YandexAnswer ==
  ASSUME NEW D \in SUBSET Yandex!Events, YandexTypes
  PROVE  /\ Yandex!Answer(D) \in YandexAnswers /\ DOMAIN Yandex!Answer(D) = D
         /\ \A e \in D : Yandex!Answer(D)[e] = yandex_changed[e]
<1>1. \A e \in D : yandex_changed[e] \in Nat
  BY YandexNumbers
<1>2. Yandex!Answer(D) \in [D -> Nat]
  BY <1>1 DEF Yandex!Answer
<1>3. Yandex!Answer(D) \in YandexAnswers
  BY <1>2 DEF YandexAnswers
<1> QED  BY <1>3 DEF Yandex!Answer

LEMMA YandexApplied ==
  ASSUME YandexTypes, NEW a \in YandexAnswers, NEW done \in SUBSET DOMAIN a,
         \A e \in done : yandex_stored[e] <= a[e] /\ a[e] <= yandex_changed[e],
         yandex_stored' = Yandex!Applied(a, done),
         yandex_gap \subseteq yandex_gap', yandex_gap' \subseteq Yandex!Events
  PROVE  YandexStores /\ \A e \in done : yandex_stored'[e] = a[e]
<1>1. \A e \in Yandex!Events :
        yandex_stored'[e] = IF e \in done THEN a[e] ELSE yandex_stored[e]
  BY DEF Yandex!Applied
<1>2. done \subseteq Yandex!Events /\ \A e \in done : a[e] \in Nat
  BY YandexAnswerParts
<1>3. ASSUME NEW e \in Yandex!Events
      PROVE  /\ yandex_stored[e] <= yandex_stored'[e] /\ yandex_stored'[e] <= yandex_changed[e]
             /\ yandex_stored'[e] \in 0 .. yandex_rev
  BY <1>1, <1>2, YandexNumbers
<1>4. yandex_stored' \in [Yandex!Events -> 0 .. yandex_rev]
  BY <1>3 DEF Yandex!Applied
<1> QED  BY <1>1, <1>2, <1>3, <1>4 DEF YandexStores

LEMMA YandexStillTypes ==
  ASSUME YandexTypes, YandexStill, YandexStores, yandex_entry' \in YandexEntries,
         yandex_pass' \in YandexPasses, yandex_chain' \in Yandex!Moments
  PROVE  YandexTypes'
<1>1. \A e \in Yandex!Events : yandex_stored'[e] <= yandex_changed'[e]
  BY DEF YandexStores, YandexStill
<1> QED  BY <1>1 DEF YandexTypes, YandexStores, YandexStill

\* A step of a pass that leaves the entry alone.
LEMMA YandexPassStep ==
  ASSUME YandexInv, YandexStill, YandexStores, UNCHANGED <<yandex_entry, yandex_chain>>,
         NEW v \in YandexPasses, yandex_pass' = v, YandexPass(v)', v.phase # "old"
  PROVE  YandexInv'
<1>1. YandexTypes /\ YandexTypes' /\ YandexGrow
  BY YandexStillTypes, YandexStillGrows DEF YandexInv, YandexTypes
<1>2. PICK n, c : n = yandex_entry /\ c = yandex_chain
  OBVIOUS
<1>3. n \in YandexEntries /\ EntrySound(n, c)
  BY <1>1, <1>2 DEF YandexInv, YandexTypes
<1>4. EntrySound(n, c)' /\ n = yandex_entry' /\ c = yandex_chain'
  BY <1>1, <1>2, <1>3, EntryStands
<1> QED  BY <1>1, <1>4 DEF YandexInv, YandexOld

\* A live pass that goes on with an entry, or is done with it.
LEMMA YandexGoesOn ==
  ASSUME YandexInv, YandexStill, YandexStores, UNCHANGED <<yandex_entry, yandex_chain>>,
         NEW s, s = yandex_pass, s.phase \in YandexLivePhases,
         NEW ph \in {"main", "done"}, NEW n \in YandexEntries, n.end <= s.to,
         EntrySound(n, s.chain)', yandex_pass' = Yandex!Live(ph, n)
  PROVE  YandexInv'
<1>1. YandexTypes /\ s \in YandexPasses /\ YandexWindow(s)
  BY DEF YandexInv, YandexTypes, YandexPass, YandexLivePhases
<1>2. YandexGrow
  BY <1>1, YandexStillGrows
<1>3. PICK a : a = Yandex!Answer({})
  OBVIOUS
<1>4. a \in YandexAnswers
  BY <1>1, <1>3, YandexAnswer
<1>5. PICK q, wk, dy, fr, tt, se, mi, ch, an, ed :
        /\ s = [phase |-> q, worker |-> wk, days |-> dy, from |-> fr, to |-> tt,
                seen |-> se, mine |-> mi, chain |-> ch, answer |-> an, end |-> ed]
        /\ wk \in BOOLEAN /\ dy \in Spans /\ fr \in Yandex!Moments /\ tt \in Yandex!Moments
        /\ se \in Nat /\ ch \in Yandex!Moments
  BY <1>1, YandexPassParts
<1>6. PICK ne : ne = Yandex!Never
  OBVIOUS
<1>7. PICK v : v = [s EXCEPT !.phase = ph, !.mine = n, !.answer = a, !.end = ne]
  OBVIOUS
<1>8. v = [phase |-> ph, worker |-> wk, days |-> dy, from |-> fr, to |-> tt, seen |-> se,
           mine |-> n, chain |-> ch, answer |-> a, end |-> ne]
  <2>1. s = [phase |-> q, worker |-> wk, days |-> dy, from |-> fr, to |-> tt,
             seen |-> se, mine |-> mi, chain |-> ch, answer |-> an, end |-> ed]
    BY <1>5
  <2>2. PICK x : x = [s EXCEPT !.phase = ph]
    OBVIOUS
  <2>3. x = [phase |-> ph, worker |-> wk, days |-> dy, from |-> fr, to |-> tt,
             seen |-> se, mine |-> mi, chain |-> ch, answer |-> an, end |-> ed]
    BY <2>1, <2>2
  <2>4. PICK y : y = [x EXCEPT !.mine = n]
    OBVIOUS
  <2>5. y = [phase |-> ph, worker |-> wk, days |-> dy, from |-> fr, to |-> tt,
             seen |-> se, mine |-> n, chain |-> ch, answer |-> an, end |-> ed]
    BY <2>3, <2>4
  <2>6. PICK z : z = [y EXCEPT !.answer = a]
    OBVIOUS
  <2>7. z = [phase |-> ph, worker |-> wk, days |-> dy, from |-> fr, to |-> tt,
             seen |-> se, mine |-> n, chain |-> ch, answer |-> a, end |-> ed]
    BY <2>5, <2>6
  <2>8. v = [z EXCEPT !.end = ne]
    BY <1>7, <2>2, <2>4, <2>6
  <2> QED  BY <2>7, <2>8
<1>9. yandex_pass' = v
  BY <1>3, <1>6, <1>7 DEF Yandex!Live
<1>10. v \in YandexPasses
  BY <1>4, <1>5, <1>6, <1>8, YandexMoments DEF YandexPasses
<1>11. YandexWindow(s)'
  BY <1>1, <1>2, WindowStands
<1>12. v.from = s.from /\ v.to = s.to /\ v.seen = s.seen /\ v.chain = s.chain /\ v.mine = n
       /\ v.phase = ph
  BY <1>5, <1>8
<1>13. YandexWindow(v)'
  BY <1>11, <1>12 DEF YandexWindow
<1>14. YandexPass(v)'
  BY <1>12, <1>13 DEF YandexPass
<1> QED  BY <1>9, <1>10, <1>12, <1>14, YandexPassStep

LEMMA YandexFailed == ASSUME YandexInv, Yandex!Failed PROVE YandexInv'
<1>1. /\ YandexStill /\ UNCHANGED <<yandex_stored, yandex_gap, yandex_entry, yandex_chain>>
      /\ yandex_pass' = Yandex!Idle
  BY DEF Yandex!Failed, Yandex!calendar, YandexStill
<1>2. Yandex!Idle \in YandexPasses /\ Yandex!Idle.phase = "idle"
  BY DEF YandexPasses, Yandex!Idle
<1>3. YandexPass(Yandex!Idle)'
  BY DEF YandexPass, Yandex!Idle
<1>4. YandexStores
  BY <1>1, YandexNothingStored DEF YandexInv
<1> QED  BY <1>1, <1>2, <1>3, <1>4, YandexPassStep

LEMMA YandexBegin == ASSUME YandexInv, Yandex!Begin PROVE YandexInv'
<1>1. /\ YandexStill /\ UNCHANGED <<yandex_stored, yandex_gap, yandex_entry, yandex_chain>>
      /\ \E worker \in BOOLEAN :
           yandex_pass' = [phase |-> "open", worker |-> worker, days |-> days,
              from |-> yandex_now - days, to |-> yandex_now + Ahead, seen |-> yandex_rev,
              mine |-> yandex_entry, chain |-> yandex_chain,
              answer |-> Yandex!Answer({}), end |-> Yandex!Never]
  BY DEF Yandex!Begin, Yandex!calendar, YandexStill
<1>2. YandexTypes /\ YandexStores
  BY <1>1, YandexNothingStored DEF YandexInv
<1>3. PICK n, c, d, t, r, a : /\ n = yandex_entry /\ c = yandex_chain /\ d = days /\ t = yandex_now
                              /\ r = yandex_rev /\ a = Yandex!Answer({})
  OBVIOUS
<1>4. PICK w \in BOOLEAN :
        yandex_pass' = [phase |-> "open", worker |-> w, days |-> d, from |-> t - d,
          to |-> t + Ahead, seen |-> r, mine |-> n, chain |-> c, answer |-> a,
          end |-> Yandex!Never]
  BY <1>1, <1>3
<1>5. PICK v : v = [phase |-> "open", worker |-> w, days |-> d, from |-> t - d,
                    to |-> t + Ahead, seen |-> r, mine |-> n, chain |-> c, answer |-> a,
                    end |-> Yandex!Never]
  OBVIOUS
<1>6. /\ n \in YandexEntries /\ EntrySound(n, c) /\ c \in Yandex!Moments
      /\ d \in Spans /\ t \in Nat /\ t <= LastDay /\ r \in Nat
  BY <1>2, <1>3, YandexNumbers DEF YandexInv, YandexTypes
<1>7. a \in YandexAnswers
  BY <1>2, <1>3, YandexAnswer
<1>8. /\ t - d \in Yandex!Moments /\ t + Ahead \in Yandex!Moments /\ Yandex!Never < t - d
      /\ t - d < t /\ t - d < t + Ahead /\ Yandex!Never \in Yandex!Moments
  <2>1. d \in Nat \ {0} /\ d <= Max(Spans) /\ Max(Spans) \in Nat /\ Ahead \in Nat \ {0}
        /\ LastDay \in Nat /\ Yandex!Never = 0 - Max(Spans) - 1
    BY <1>6, YandexMoments
  <2> QED  BY <1>6, <2>1, YandexMoments
<1>9. v \in YandexPasses
  BY <1>5, <1>6, <1>7, <1>8 DEF YandexPasses
<1>10. EntrySound(n, c)'
  BY <1>1, <1>2, <1>6, EntryStands, YandexStillGrows
<1>11. YandexWindow(v)'
  <2>1. yandex_now' = t /\ yandex_rev' = r
    BY <1>1, <1>3 DEF YandexStill
  <2>2. n.end <= t + Ahead
    BY <1>3, <1>6 DEF EntrySound, YandexCovered
  <2>3. /\ v.from = t - d /\ v.to = t + Ahead /\ v.seen = r /\ v.mine = n
    BY <1>5
  <2>4. t + Ahead <= t + Ahead /\ r <= r
    BY <1>6, YandexMoments
  <2> QED  BY <1>8, <2>1, <2>2, <2>3, <2>4 DEF YandexWindow
<1>12. YandexPass(v)' /\ v.phase = "open"
  BY <1>5, <1>10, <1>11 DEF YandexPass
<1> QED  BY <1>1, <1>2, <1>4, <1>5, <1>9, <1>12, YandexPassStep

LEMMA YandexRefresh == ASSUME YandexInv, Yandex!Refresh PROVE YandexInv'
<1>1. PICK s, n, c : s = yandex_pass /\ n = yandex_pass.mine /\ c = yandex_pass.chain
  OBVIOUS
<1>2. /\ YandexStill /\ UNCHANGED <<yandex_gap, yandex_entry, yandex_chain>> /\ s.phase = "open"
      /\ \E done \in SUBSET Yandex!Between(yandex_now - 1, s.to) :
           yandex_stored' = Yandex!Applied(Yandex!Answer(Yandex!Events), done)
      /\ \E ph \in {"main", "done"} : yandex_pass' = Yandex!Live(ph, n)
  BY <1>1 DEF Yandex!Refresh, Yandex!calendar, YandexStill
<1>3. YandexTypes /\ s \in YandexPasses /\ YandexWindow(s) /\ EntrySound(n, c)
      /\ s.mine = n /\ s.chain = c
  BY <1>1, <1>2 DEF YandexInv, YandexTypes, YandexPass
<1>4. PICK a : a = Yandex!Answer(Yandex!Events)
  OBVIOUS
<1>5. a \in YandexAnswers /\ DOMAIN a = Yandex!Events
      /\ \A e \in Yandex!Events : a[e] = yandex_changed[e]
  BY <1>3, <1>4, YandexAnswer
<1>6. PICK done \in SUBSET Yandex!Between(yandex_now - 1, s.to) :
        yandex_stored' = Yandex!Applied(a, done)
  BY <1>2, <1>4
<1>7. done \in SUBSET DOMAIN a
  BY <1>5, YandexBetween
<1>8. \A e \in done : yandex_stored[e] <= a[e] /\ a[e] <= yandex_changed[e]
  BY <1>3, <1>5, <1>7, YandexNumbers
<1>9. YandexStores
  <2>1. yandex_gap \subseteq yandex_gap' /\ yandex_gap' \subseteq Yandex!Events
    BY <1>2, <1>3 DEF YandexTypes
  <2> QED  BY <1>3, <1>5, <1>6, <1>7, <1>8, <2>1, YandexApplied
<1>10. n \in YandexEntries /\ n.end <= s.to
  BY <1>2, <1>3, YandexPassParts DEF YandexLivePhases, YandexWindow
<1>11. EntrySound(n, c)'
  BY <1>2, <1>3, <1>9, <1>10, EntryStands, YandexStillGrows
<1>12. s.phase \in YandexLivePhases
  BY <1>2 DEF YandexLivePhases
<1> QED  BY <1>1, <1>2, <1>3, <1>9, <1>10, <1>11, <1>12, YandexGoesOn

LEMMA YandexFetchChanges == ASSUME YandexInv, Yandex!FetchChanges PROVE YandexInv'
<1>1. PICK s, r, f, t, k : /\ s = yandex_pass /\ r = yandex_rev /\ f = yandex_pass.from
                           /\ t = yandex_pass.to /\ k = yandex_pass.mine.token
  OBVIOUS
<1>2. PICK asked : asked = {e \in Yandex!Between(f, t) : yandex_changed[e] > k}
  OBVIOUS
<1>3. PICK a : a = Yandex!Answer(asked)
  OBVIOUS
<1>4. /\ YandexStill /\ UNCHANGED <<yandex_stored, yandex_gap, yandex_entry, yandex_chain>>
      /\ s.phase = "main" /\ k # 0
      /\ yandex_pass' = [s EXCEPT !.phase = "changes", !.seen = r, !.answer = a]
  BY <1>1, <1>2, <1>3 DEF Yandex!FetchChanges, Yandex!calendar, YandexStill
<1>5. YandexTypes /\ YandexStores /\ s \in YandexPasses /\ YandexWindow(s)
      /\ EntrySound(s.mine, s.chain) /\ r \in Nat \ {0}
  BY <1>1, <1>4, YandexNothingStored, YandexNumbers DEF YandexInv, YandexTypes, YandexPass
<1>6. asked \in SUBSET Yandex!Events
  BY <1>2, YandexBetween
<1>7. a \in YandexAnswers /\ DOMAIN a = asked /\ \A e \in asked : a[e] = yandex_changed[e]
  BY <1>3, <1>5, <1>6, YandexAnswer
<1>8. PICK q, wk, dy, fr, tt, se, mi, ch, an, ed :
        /\ s = [phase |-> q, worker |-> wk, days |-> dy, from |-> fr, to |-> tt,
                seen |-> se, mine |-> mi, chain |-> ch, answer |-> an, end |-> ed]
        /\ wk \in BOOLEAN /\ dy \in Spans /\ fr \in Yandex!Moments /\ tt \in Yandex!Moments
        /\ mi \in YandexEntries /\ ch \in Yandex!Moments /\ ed \in Yandex!Moments
  BY <1>4, <1>5, YandexPassParts DEF YandexLivePhases
<1>9. PICK v : v = [s EXCEPT !.phase = "changes", !.seen = r, !.answer = a]
  OBVIOUS
<1>10. v = [phase |-> "changes", worker |-> wk, days |-> dy, from |-> fr, to |-> tt,
            seen |-> r, mine |-> mi, chain |-> ch, answer |-> a, end |-> ed]
  <2>1. s = [phase |-> q, worker |-> wk, days |-> dy, from |-> fr, to |-> tt,
             seen |-> se, mine |-> mi, chain |-> ch, answer |-> an, end |-> ed]
    BY <1>8
  <2>2. PICK x : x = [s EXCEPT !.phase = "changes"]
    OBVIOUS
  <2>3. x = [phase |-> "changes", worker |-> wk, days |-> dy, from |-> fr, to |-> tt,
             seen |-> se, mine |-> mi, chain |-> ch, answer |-> an, end |-> ed]
    BY <2>1, <2>2
  <2>4. PICK y : y = [x EXCEPT !.seen = r]
    OBVIOUS
  <2>5. y = [phase |-> "changes", worker |-> wk, days |-> dy, from |-> fr, to |-> tt,
             seen |-> r, mine |-> mi, chain |-> ch, answer |-> an, end |-> ed]
    BY <2>3, <2>4
  <2>6. v = [y EXCEPT !.answer = a]
    BY <1>9, <2>2, <2>4
  <2> QED  BY <2>5, <2>6
<1>11. v \in YandexPasses
  BY <1>5, <1>7, <1>8, <1>10 DEF YandexPasses
<1>12. /\ v.phase = "changes" /\ v.from = s.from /\ v.to = s.to /\ v.mine = s.mine
       /\ v.chain = s.chain /\ v.seen = r /\ v.answer = a
  BY <1>8, <1>10
<1>13. YandexGrow /\ s.mine \in YandexEntries
  BY <1>4, <1>5, YandexStillGrows, YandexPassParts DEF YandexLivePhases
<1>14. EntrySound(v.mine, v.chain)'
  BY <1>5, <1>12, <1>13, EntryStands
<1>15. YandexWindow(v)'
  <2>1. YandexWindow(s)' /\ yandex_rev' = r /\ r <= r
    BY <1>1, <1>4, <1>5, <1>13, WindowStands DEF YandexLivePhases, YandexStill
  <2> QED  BY <1>12, <2>1 DEF YandexWindow
<1>16. YandexAnswered(a, r)'
  <2>1. \A e \in DOMAIN a : /\ yandex_stored'[e] <= a[e] /\ a[e] <= yandex_changed'[e]
                            /\ a[e] = yandex_changed'[e]
    BY <1>4, <1>5, <1>6, <1>7, YandexNumbers DEF YandexStill
  <2> QED  BY <2>1 DEF YandexAnswered
<1>17. \A e \in Yandex!Between(f, t)' \ DOMAIN a :
         yandex_changed'[e] <= k \/ yandex_changed'[e] > r
  <2>1. k \in Nat
    BY <1>1, <1>13 DEF YandexEntries
  <2>2. ASSUME NEW e \in Yandex!Between(f, t)' \ DOMAIN a
        PROVE  yandex_changed'[e] <= k
    <3>1. e \in Yandex!Between(f, t) /\ e \in Yandex!Events /\ ~ yandex_changed[e] > k
          /\ yandex_changed'[e] = yandex_changed[e]
      BY <1>2, <1>4, <1>7, <1>13, <2>2, YandexBetween, YandexSameTimes DEF YandexStill
    <3> QED  BY <1>5, <2>1, <3>1, YandexNumbers
  <2> QED  BY <2>2
<1>18. YandexPass(v)'
  BY <1>1, <1>4, <1>5, <1>12, <1>14, <1>15, <1>16, <1>17 DEF YandexPass
<1> QED  BY <1>4, <1>5, <1>9, <1>11, <1>12, <1>18, YandexPassStep

\* The token moves on: all that changed by then has been asked for, and is applied, but
\* what lies before the window of the pass.
LEMMA YandexTokenMoves ==
  ASSUME YandexTypes, YandexStill, YandexStores, NEW s \in YandexPasses, s.phase = "changes",
         YandexPass(s), \A e \in DOMAIN s.answer : yandex_stored'[e] = s.answer[e],
         \A e \in Yandex!Between(s.mine.start, s.from) :
           yandex_changed[e] > s.mine.token => e \in yandex_gap',
         NEW n, n = [s.mine EXCEPT !.token = s.seen]
  PROVE  n \in YandexEntries /\ n.end = s.mine.end /\ EntrySound(n, s.chain)'
<1>1. /\ s.mine \in YandexEntries /\ s.seen \in Nat /\ s.from \in Int /\ s.to \in Int
      /\ s.phase \in YandexLivePhases
  BY YandexPassParts, YandexMoments DEF YandexLivePhases
<1>2. /\ YandexWindow(s) /\ EntrySound(s.mine, s.chain) /\ s.mine.token # 0 /\ s.seen # 0
      /\ YandexAnswered(s.answer, s.seen)
      /\ \A e \in Yandex!Between(s.from, s.to) \ DOMAIN s.answer :
           yandex_changed[e] <= s.mine.token \/ yandex_changed[e] > s.seen
  BY DEF YandexPass
<1>3. PICK tk, pd, cu, st, en, rg :
        /\ s.mine = [token |-> tk, pending |-> pd, cursor |-> cu, start |-> st, end |-> en,
                     range |-> rg]
        /\ tk \in Nat /\ pd \in Nat /\ cu \in Yandex!Moments /\ st \in Yandex!Moments
        /\ en \in Yandex!Moments /\ rg \in YandexRanges
  BY <1>1 DEF YandexEntries
<1>4. PICK m, se : m = s.mine /\ se = s.seen
  OBVIOUS
<1>5. n = [token |-> se, pending |-> pd, cursor |-> cu, start |-> st, end |-> en, range |-> rg]
  <2>1. m = [token |-> tk, pending |-> pd, cursor |-> cu, start |-> st, end |-> en,
             range |-> rg]
    BY <1>3, <1>4
  <2>2. n = [m EXCEPT !.token = se]
    BY <1>4
  <2> QED  BY <2>1, <2>2
<1>6. n \in YandexEntries
  BY <1>1, <1>3, <1>4, <1>5 DEF YandexEntries
<1>7. YandexGrow
  BY YandexStillGrows
<1>8. EntrySound(s.mine, s.chain)'
  BY <1>1, <1>2, <1>7, EntryStands
<1>9. /\ YandexCovered(tk, st, en)' /\ YandexCovered(tk, st, en) /\ YandexRange(rg)'
      /\ pd <= yandex_rev' /\ tk # 0
  BY <1>2, <1>3, <1>8 DEF EntrySound
<1>10. se <= yandex_rev'
  BY <1>2, <1>4 DEF YandexWindow, YandexStill
<1>11. st \in Int /\ en \in Int /\ en <= s.to
  BY <1>2, <1>3, YandexMoments DEF YandexWindow
<1>12. ASSUME NEW e \in Yandex!Between(st, en)
       PROVE  e \in yandex_gap' \/ YandexCurrent(e, se)'
  <2>1. /\ e \in Yandex!Events /\ yandex_at[e] \in Int /\ yandex_at[e] >= st /\ yandex_at[e] < en
        /\ yandex_changed[e] \in Nat /\ yandex_stored[e] \in Nat
        /\ yandex_changed'[e] = yandex_changed[e]
    BY <1>12, YandexBetween, YandexNumbers DEF YandexStill
  <2>2. yandex_stored[e] <= yandex_stored'[e] /\ yandex_stored'[e] \in Nat
        /\ yandex_gap \subseteq yandex_gap'
    <3>1. yandex_stored'[e] \in 0 .. yandex_rev /\ yandex_rev \in Nat
      BY <2>1, YandexNumbers DEF YandexStores
    <3> QED  BY <2>1, <3>1 DEF YandexStores
  <2>3. CASE e \in DOMAIN s.answer
    <3>1. yandex_stored'[e] = s.answer[e]
          /\ (s.answer[e] = yandex_changed[e] \/ yandex_changed[e] > s.seen)
      BY <1>2, <2>3 DEF YandexAnswered
    <3> QED  BY <1>4, <2>1, <2>2, <3>1 DEF YandexCurrent
  <2>4. CASE e \notin DOMAIN s.answer /\ yandex_changed[e] > tk /\ yandex_at[e] < s.from
    <3>1. e \in Yandex!Between(s.mine.start, s.from) /\ yandex_changed[e] > s.mine.token
      BY <1>3, <2>1, <2>4, YandexBetween
    <3> QED  BY <3>1
  <2>5. CASE e \notin DOMAIN s.answer /\ yandex_changed[e] > tk /\ ~ yandex_at[e] < s.from
    <3>1. e \in Yandex!Between(s.from, s.to) \ DOMAIN s.answer
      BY <1>1, <1>11, <2>1, <2>5, YandexBetween
    <3>2. yandex_changed[e] > s.seen
      BY <1>2, <1>3, <2>1, <2>5, <3>1
    <3> QED  BY <1>4, <2>1, <3>2 DEF YandexCurrent
  <2>6. CASE ~ yandex_changed[e] > tk
    <3>1. e \in yandex_gap \/ YandexCurrent(e, tk)
      BY <1>9, <1>12 DEF YandexCovered
    <3>2. e \in yandex_gap' \/ yandex_stored[e] >= yandex_changed[e]
      BY <2>2, <2>6, <3>1 DEF YandexCurrent
    <3> QED  BY <2>1, <2>2, <3>2 DEF YandexCurrent
  <2> QED  BY <2>3, <2>4, <2>5, <2>6
<1>13. YandexCovered(se, st, en)'
  BY <1>7, <1>9, <1>10, <1>12, YandexSameTimes DEF YandexCovered
<1>14. EntrySound(n, s.chain)'
  BY <1>2, <1>4, <1>5, <1>9, <1>13 DEF EntrySound
<1> QED  BY <1>3, <1>5, <1>6, <1>14

LEMMA YandexApplyChanges == ASSUME YandexInv, Yandex!ApplyChanges PROVE YandexInv'
<1>1. PICK s, n : s = yandex_pass /\ n = Yandex!Moved
  OBVIOUS
<1>2. /\ YandexStill /\ UNCHANGED <<yandex_entry, yandex_chain>> /\ s.phase = "changes"
      /\ n = [s.mine EXCEPT !.token = s.seen]
  BY <1>1 DEF Yandex!ApplyChanges, Yandex!calendar, YandexStill, Yandex!Moved
<1>3. PICK done \in SUBSET DOMAIN s.answer :
        /\ yandex_stored' = Yandex!Applied(s.answer, done)
        /\ \/ /\ done # DOMAIN s.answer
              /\ yandex_pass' = Yandex!Live("done", s.mine)
              /\ UNCHANGED yandex_gap
           \/ /\ done = DOMAIN s.answer
              /\ \E phase \in {"main", "done"} :
                   /\ phase = "main" => done # {}
                   /\ yandex_pass' = Yandex!Live(phase, n)
              /\ yandex_gap' = yandex_gap \union {e \in Yandex!Between(s.mine.start, s.from) :
                                                   yandex_changed[e] > s.mine.token}
  BY <1>1 DEF Yandex!ApplyChanges
<1>4. YandexTypes /\ s \in YandexPasses /\ YandexPass(s)
  BY <1>1 DEF YandexInv, YandexTypes
<1>5. /\ s.answer \in YandexAnswers /\ s.phase \in YandexLivePhases
      /\ s.mine \in YandexEntries
  BY <1>2, <1>4, YandexPassParts DEF YandexLivePhases
<1>6. /\ YandexAnswered(s.answer, s.seen) /\ s.mine.end <= s.to /\ EntrySound(s.mine, s.chain)
  BY <1>2, <1>4 DEF YandexPass, YandexWindow
<1>7. yandex_gap \subseteq yandex_gap' /\ yandex_gap' \subseteq Yandex!Events
  BY <1>3, <1>4, YandexBetween DEF YandexTypes
<1>8. YandexStores /\ \A e \in done : yandex_stored'[e] = s.answer[e]
  <2>1. \A e \in done : yandex_stored[e] <= s.answer[e] /\ s.answer[e] <= yandex_changed[e]
    BY <1>6 DEF YandexAnswered
  <2> QED  BY <1>3, <1>4, <1>5, <1>7, <2>1, YandexApplied
<1>9. CASE done # DOMAIN s.answer
  <2>1. EntrySound(s.mine, s.chain)'
    BY <1>2, <1>4, <1>5, <1>6, <1>8, EntryStands, YandexStillGrows
  <2>2. yandex_pass' = Yandex!Live("done", s.mine)
    BY <1>3, <1>9
  <2> QED  BY <1>1, <1>2, <1>5, <1>6, <1>8, <2>1, <2>2, YandexGoesOn
<1>10. CASE done = DOMAIN s.answer
  <2>1. \A e \in Yandex!Between(s.mine.start, s.from) :
          yandex_changed[e] > s.mine.token => e \in yandex_gap'
    BY <1>3, <1>10
  <2>2. n \in YandexEntries /\ n.end <= s.to /\ EntrySound(n, s.chain)'
    <3>1. n.end = s.mine.end /\ n \in YandexEntries /\ EntrySound(n, s.chain)'
      BY <1>2, <1>4, <1>8, <1>10, <2>1, YandexTokenMoves
    <3> QED  BY <1>6, <3>1
  <2>3. PICK ph \in {"main", "done"} : yandex_pass' = Yandex!Live(ph, n)
    BY <1>3, <1>10
  <2> QED  BY <1>1, <1>2, <1>5, <1>8, <2>2, <2>3, YandexGoesOn
<1> QED  BY <1>9, <1>10

\* A scan that begins anew claims nothing.
LEMMA YandexAnew ==
  ASSUME YandexTypes, NEW f \in Yandex!Moments,
         NEW n, n = [token |-> 0, pending |-> 0, cursor |-> f, start |-> Yandex!Never,
                     end |-> Yandex!Never, range |-> Yandex!NoRange]
  PROVE  n \in YandexEntries /\ n.end = Yandex!Never /\ EntrySound(n, f)
<1>1. /\ Yandex!Never \in Yandex!Moments /\ Yandex!Never < 0 /\ Yandex!Never \in Int
      /\ Ahead \in Nat /\ yandex_now \in Nat /\ yandex_rev \in Nat
  BY YandexMoments, YandexNumbers
<1>2. Yandex!NoRange \in YandexRanges
  BY <1>1 DEF YandexRanges, Yandex!NoRange
<1>3. n \in YandexEntries
  BY <1>1, <1>2 DEF YandexEntries
<1>4. YandexCovered(0, Yandex!Never, Yandex!Never) /\ YandexScan(0, f, f)
  BY <1>1 DEF YandexCovered, YandexScan
<1>5. YandexRange(Yandex!NoRange)
  <2>1. \A x : x \notin Yandex!Between(Yandex!Never, Yandex!Never)
    <3>1. ASSUME NEW x \in Yandex!Between(Yandex!Never, Yandex!Never)
          PROVE  FALSE
      <4>1. x \in Yandex!Events /\ yandex_at[x] \in Int
        BY <3>1, YandexBetween, YandexNumbers
      <4> QED  BY <1>1, <3>1, <4>1, YandexBetween
    <3> QED  BY <3>1
  <2> QED  BY <1>1, <2>1 DEF YandexRange, Yandex!NoRange
<1> QED  BY <1>1, <1>3, <1>4, <1>5 DEF EntrySound

LEMMA YandexReset ==
  ASSUME YandexTypes, NEW f \in Yandex!Moments,
         NEW n, n = [Yandex!NewEntry EXCEPT !.cursor = f]
  PROVE  n \in YandexEntries /\ n.end = Yandex!Never /\ EntrySound(n, f)
<1>1. PICK m : m = Yandex!NewEntry
  OBVIOUS
<1>2. m = [token |-> 0, pending |-> 0, cursor |-> Yandex!Never, start |-> Yandex!Never,
           end |-> Yandex!Never, range |-> Yandex!NoRange]
  BY <1>1 DEF Yandex!NewEntry
<1>3. n = [token |-> 0, pending |-> 0, cursor |-> f, start |-> Yandex!Never,
           end |-> Yandex!Never, range |-> Yandex!NoRange]
  BY <1>1, <1>2
<1> QED  BY <1>3, YandexAnew

LEMMA YandexTokenIsStale == ASSUME YandexInv, Yandex!TokenIsStale PROVE YandexInv'
<1>1. PICK s, f : s = yandex_pass /\ f = yandex_pass.from
  OBVIOUS
<1>2. PICK n : n = [Yandex!NewEntry EXCEPT !.cursor = f]
  OBVIOUS
<1>3. /\ YandexStill /\ UNCHANGED <<yandex_stored, yandex_gap>> /\ s.phase = "main"
      /\ yandex_entry' = n /\ yandex_chain' = f
      /\ yandex_pass' = [s EXCEPT !.mine = n, !.seen = 0, !.chain = f]
  BY <1>1, <1>2 DEF Yandex!TokenIsStale, Yandex!calendar, YandexStill
<1>4. YandexTypes /\ YandexStores /\ s \in YandexPasses /\ YandexWindow(s)
  BY <1>1, <1>3, YandexNothingStored DEF YandexInv, YandexTypes, YandexPass
<1>5. YandexGrow /\ f \in Yandex!Moments
  BY <1>1, <1>3, <1>4, YandexStillGrows, YandexPassParts DEF YandexLivePhases
<1>6. n \in YandexEntries /\ n.end = Yandex!Never /\ EntrySound(n, f)
  BY <1>2, <1>4, <1>5, YandexReset
<1>7. EntrySound(n, f)'
  BY <1>4, <1>5, <1>6, EntryStands
<1>8. PICK q, wk, dy, fr, tt, se, mi, ch, an, ed :
        /\ s = [phase |-> q, worker |-> wk, days |-> dy, from |-> fr, to |-> tt,
                seen |-> se, mine |-> mi, chain |-> ch, answer |-> an, end |-> ed]
        /\ wk \in BOOLEAN /\ dy \in Spans /\ fr \in Yandex!Moments /\ tt \in Yandex!Moments
        /\ an \in YandexAnswers /\ ed \in Yandex!Moments
  BY <1>3, <1>4, YandexPassParts DEF YandexLivePhases
<1>9. PICK v : v = [s EXCEPT !.mine = n, !.seen = 0, !.chain = f]
  OBVIOUS
<1>10. v = [phase |-> q, worker |-> wk, days |-> dy, from |-> fr, to |-> tt,
            seen |-> 0, mine |-> n, chain |-> f, answer |-> an, end |-> ed]
  <2>1. s = [phase |-> q, worker |-> wk, days |-> dy, from |-> fr, to |-> tt,
             seen |-> se, mine |-> mi, chain |-> ch, answer |-> an, end |-> ed]
    BY <1>8
  <2>2. PICK x : x = [s EXCEPT !.mine = n]
    OBVIOUS
  <2>3. x = [phase |-> q, worker |-> wk, days |-> dy, from |-> fr, to |-> tt,
             seen |-> se, mine |-> n, chain |-> ch, answer |-> an, end |-> ed]
    BY <2>1, <2>2
  <2>4. PICK y : y = [x EXCEPT !.seen = 0]
    OBVIOUS
  <2>5. y = [phase |-> q, worker |-> wk, days |-> dy, from |-> fr, to |-> tt,
             seen |-> 0, mine |-> n, chain |-> ch, answer |-> an, end |-> ed]
    BY <2>3, <2>4
  <2>6. v = [y EXCEPT !.chain = f]
    BY <1>9, <2>2, <2>4
  <2> QED  BY <2>5, <2>6
<1>11. q = "main"
  BY <1>3, <1>8
<1>12. v \in YandexPasses
  BY <1>5, <1>6, <1>8, <1>10, <1>11 DEF YandexPasses
<1>13. /\ v.phase = "main" /\ v.from = s.from /\ v.to = s.to /\ v.mine = n
       /\ v.chain = f /\ v.seen = 0
  BY <1>8, <1>10, <1>11
<1>14. YandexWindow(v)'
  <2>1. YandexWindow(s)'
    BY <1>3, <1>4, <1>5, WindowStands DEF YandexLivePhases
  <2>2. 0 <= yandex_rev' /\ n.end <= s.to
    <3>1. yandex_rev' \in Nat
      BY <1>3, <1>4, YandexNumbers DEF YandexStill
    <3>2. s.to \in Int /\ s.from \in Int /\ Yandex!Never \in Int /\ Yandex!Never < s.from
          /\ s.from < s.to
      BY <1>4, <1>8, YandexMoments DEF YandexWindow
    <3> QED  BY <1>6, <3>1, <3>2
  <2> QED  BY <1>13, <2>1, <2>2 DEF YandexWindow
<1>15. YandexPass(v)' /\ YandexOld(v, n.range)'
  BY <1>7, <1>13, <1>14 DEF YandexPass, YandexOld
<1>16. YandexTypes'
  BY <1>3, <1>4, <1>5, <1>6, <1>9, <1>12, YandexStillTypes
<1> QED  BY <1>3, <1>7, <1>9, <1>15, <1>16 DEF YandexInv

\* The entry a pass fetches a slice with: the token of the scan is set, and the scan has
\* left nothing out since its chain began, or begins anew.
LEMMA YandexScanGoesOn ==
  ASSUME YandexTypes, NEW s \in YandexPasses, s.phase = "main", YandexPass(s),
         s.mine.token = 0,
         NEW c, c = Yandex!Max({s.mine.cursor, s.from}),
         NEW p, p = (IF s.mine.pending # 0 THEN s.mine.pending
                     ELSE IF s.seen = 0 THEN yandex_rev ELSE s.seen),
         NEW h, h = (IF s.mine.cursor < s.from THEN s.from ELSE s.chain),
         NEW n, n = [token |-> 0, pending |-> p, cursor |-> c, start |-> s.mine.start,
                     end |-> s.mine.end, range |-> s.mine.range]
  PROVE  /\ n \in YandexEntries /\ p # 0 /\ c \in Yandex!Moments /\ h \in Yandex!Moments
         /\ EntrySound(n, h)
<1>1. /\ s.mine \in YandexEntries /\ s.seen \in Nat /\ s.from \in Yandex!Moments
      /\ s.chain \in Yandex!Moments
  BY YandexPassParts DEF YandexLivePhases
<1>2. YandexWindow(s) /\ EntrySound(s.mine, s.chain)
  BY DEF YandexPass
<1>3. /\ s.mine.pending \in Nat /\ s.mine.cursor \in Yandex!Moments
      /\ s.mine.start \in Yandex!Moments /\ s.mine.end \in Yandex!Moments
      /\ s.mine.range \in YandexRanges /\ yandex_rev \in Nat \ {0}
  BY <1>1, YandexNumbers DEF YandexEntries
<1>4. /\ YandexCovered(0, s.mine.start, s.mine.end) /\ YandexRange(s.mine.range)
      /\ YandexScan(s.mine.pending, s.mine.cursor, s.chain) /\ s.mine.pending <= yandex_rev
  BY <1>2 DEF EntrySound
<1>5. s.mine.cursor \in Int /\ s.from \in Int /\ Yandex!Never < s.from /\ s.seen <= yandex_rev
  BY <1>1, <1>2, <1>3, YandexMoments DEF YandexWindow
<1>6. c \in {s.mine.cursor, s.from} /\ c >= s.mine.cursor /\ c >= s.from
  BY <1>5, YandexOfTwo
<1>7. c \in Yandex!Moments /\ h \in Yandex!Moments
  BY <1>1, <1>3, <1>6
<1>8. p \in Nat /\ p # 0 /\ p <= yandex_rev
  BY <1>1, <1>3, <1>4, <1>5
<1>9. n \in YandexEntries
  BY <1>3, <1>7, <1>8 DEF YandexEntries
<1>10. ASSUME NEW e \in Yandex!Between(h, c)
       PROVE  e \in yandex_gap \/ YandexCurrent(e, p)
  <2>1. e \in Yandex!Events /\ yandex_at[e] \in Int /\ yandex_at[e] >= h /\ yandex_at[e] < c
    BY <1>10, YandexBetween, YandexNumbers
  <2>2. CASE s.mine.cursor < s.from
    <3>1. c = s.from /\ h = s.from
      BY <1>5, <1>6, <2>2
    <3> QED  BY <1>5, <2>1, <3>1
  <2>3. CASE ~ s.mine.cursor < s.from
    <3>1. h = s.chain /\ c = s.mine.cursor
      BY <1>5, <1>6, <2>3
    <3>2. CASE s.mine.pending = 0
      <4>1. s.mine.cursor \in {Yandex!Never, s.chain}
        BY <1>4, <3>2 DEF YandexScan
      <4>2. s.mine.cursor = s.chain
        BY <1>5, <2>3, <4>1, YandexMoments
      <4> QED  BY <1>5, <2>1, <3>1, <4>2
    <3>3. CASE s.mine.pending # 0
      <4>1. p = s.mine.pending /\ e \in Yandex!Between(s.chain, s.mine.cursor)
        BY <1>10, <3>1, <3>3
      <4> QED  BY <1>4, <3>3, <4>1 DEF YandexScan
    <3> QED  BY <3>2, <3>3
  <2> QED  BY <2>2, <2>3
<1>11. YandexScan(p, c, h)
  BY <1>8, <1>10 DEF YandexScan
<1> QED  BY <1>4, <1>7, <1>8, <1>9, <1>11 DEF EntrySound

LEMMA YandexFetchSlice == ASSUME YandexInv, Yandex!FetchSlice PROVE YandexInv'
<1>1. PICK s, m, r, f : s = yandex_pass /\ m = yandex_pass.mine /\ r = yandex_rev
                        /\ f = yandex_pass.from
  OBVIOUS
<1>2. PICK c, g : /\ c = Yandex!Max({m.cursor, f})
                  /\ g = (IF s.seen = 0 THEN r ELSE s.seen)
  OBVIOUS
<1>3. PICK d, h, n :
        /\ d = Yandex!SliceEnd(c, s.to)
        /\ h = (IF m.cursor < f THEN f ELSE s.chain)
        /\ n = [m EXCEPT !.pending = IF @ = 0 THEN g ELSE @, !.cursor = c]
  OBVIOUS
<1>4. /\ YandexStill /\ UNCHANGED <<yandex_stored, yandex_gap, yandex_entry, yandex_chain>>
      /\ s.phase = "main" /\ m.token = 0
      /\ \E told \in SUBSET Yandex!Between(c, d) :
           yandex_pass' = [s EXCEPT !.phase = "slice", !.mine = n, !.end = d, !.chain = h,
                             !.answer = Yandex!Answer(told)]
  BY <1>1, <1>2, <1>3 DEF Yandex!FetchSlice, Yandex!calendar, YandexStill
<1>5. YandexTypes /\ YandexStores /\ s \in YandexPasses /\ YandexWindow(s) /\ YandexPass(s)
  BY <1>1, <1>4, YandexNothingStored DEF YandexInv, YandexTypes, YandexPass
<1>6. PICK q, wk, dy, fr, tt, se, ch, an, ed :
        /\ s = [phase |-> q, worker |-> wk, days |-> dy, from |-> fr, to |-> tt,
                seen |-> se, mine |-> m, chain |-> ch, answer |-> an, end |-> ed]
        /\ wk \in BOOLEAN /\ dy \in Spans /\ fr \in Yandex!Moments /\ tt \in Yandex!Moments
        /\ m \in YandexEntries /\ ch \in Yandex!Moments /\ se \in Nat
  BY <1>1, <1>4, <1>5, YandexPassParts DEF YandexLivePhases
<1>7. PICK tk, pd, cu, st, en, rg :
        m = [token |-> tk, pending |-> pd, cursor |-> cu, start |-> st, end |-> en,
             range |-> rg]
  BY <1>6 DEF YandexEntries
<1>8. PICK p : p = (IF pd # 0 THEN pd ELSE g)
  OBVIOUS
<1>9. n = [token |-> 0, pending |-> p, cursor |-> c, start |-> st, end |-> en, range |-> rg]
  <2>1. PICK x : x = [m EXCEPT !.pending = IF @ = 0 THEN g ELSE @]
    OBVIOUS
  <2>2. x = [m EXCEPT !.pending = p]
    BY <1>7, <1>8, <2>1
  <2>3. x = [token |-> tk, pending |-> p, cursor |-> cu, start |-> st, end |-> en,
             range |-> rg]
    BY <1>7, <2>2
  <2>4. n = [x EXCEPT !.cursor = c]
    BY <1>3, <2>1
  <2>5. tk = 0
    BY <1>4, <1>7
  <2> QED  BY <2>3, <2>4, <2>5
<1>10. /\ n \in YandexEntries /\ p # 0 /\ c \in Yandex!Moments /\ h \in Yandex!Moments
       /\ EntrySound(n, h)
  <2>1. s.mine = m /\ s.from = f /\ m.cursor = cu /\ m.pending = pd /\ m.start = st
        /\ m.end = en /\ m.range = rg
    BY <1>1, <1>7
  <2>2. /\ c = Yandex!Max({s.mine.cursor, s.from})
        /\ p = (IF s.mine.pending # 0 THEN s.mine.pending
                ELSE IF s.seen = 0 THEN yandex_rev ELSE s.seen)
        /\ h = (IF s.mine.cursor < s.from THEN s.from ELSE s.chain)
    BY <1>1, <1>2, <1>3, <1>8, <2>1
  <2>3. n = [token |-> 0, pending |-> p, cursor |-> c, start |-> s.mine.start,
             end |-> s.mine.end, range |-> s.mine.range]
    BY <1>9, <2>1
  <2>4. s.mine.token = 0
    BY <1>4, <2>1
  <2> QED  BY <1>4, <1>5, <2>2, <2>3, <2>4, YandexScanGoesOn
<1>11. /\ d \in Yandex!Moments /\ d <= s.to /\ (d < s.to => c < d)
  BY <1>3, <1>6, <1>10, YandexSlice
<1>12. PICK a : /\ yandex_pass' = [s EXCEPT !.phase = "slice", !.mine = n, !.end = d,
                                     !.chain = h, !.answer = a]
                /\ a \in YandexAnswers /\ DOMAIN a \subseteq Yandex!Between(c, d)
                /\ \A e \in DOMAIN a : e \in Yandex!Events /\ a[e] = yandex_changed[e]
  <2>1. PICK told \in SUBSET Yandex!Between(c, d) :
          yandex_pass' = [s EXCEPT !.phase = "slice", !.mine = n, !.end = d, !.chain = h,
                            !.answer = Yandex!Answer(told)]
    BY <1>4
  <2>2. told \in SUBSET Yandex!Events
    BY YandexBetween
  <2> QED  BY <1>5, <2>1, <2>2, YandexAnswer
<1>13. PICK v : v = [s EXCEPT !.phase = "slice", !.mine = n, !.end = d, !.chain = h,
                       !.answer = a]
  OBVIOUS
<1>14. v = [phase |-> "slice", worker |-> wk, days |-> dy, from |-> fr, to |-> tt,
            seen |-> se, mine |-> n, chain |-> h, answer |-> a, end |-> d]
  <2>1. s = [phase |-> q, worker |-> wk, days |-> dy, from |-> fr, to |-> tt,
             seen |-> se, mine |-> m, chain |-> ch, answer |-> an, end |-> ed]
    BY <1>6
  <2>2. PICK x : x = [s EXCEPT !.phase = "slice"]
    OBVIOUS
  <2>3. x = [phase |-> "slice", worker |-> wk, days |-> dy, from |-> fr, to |-> tt,
             seen |-> se, mine |-> m, chain |-> ch, answer |-> an, end |-> ed]
    BY <2>1, <2>2
  <2>4. PICK y : y = [x EXCEPT !.mine = n]
    OBVIOUS
  <2>5. y = [phase |-> "slice", worker |-> wk, days |-> dy, from |-> fr, to |-> tt,
             seen |-> se, mine |-> n, chain |-> ch, answer |-> an, end |-> ed]
    BY <2>3, <2>4
  <2>6. PICK z : z = [y EXCEPT !.end = d]
    OBVIOUS
  <2>7. z = [phase |-> "slice", worker |-> wk, days |-> dy, from |-> fr, to |-> tt,
             seen |-> se, mine |-> n, chain |-> ch, answer |-> an, end |-> d]
    BY <2>5, <2>6
  <2>8. PICK u : u = [z EXCEPT !.chain = h]
    OBVIOUS
  <2>9. u = [phase |-> "slice", worker |-> wk, days |-> dy, from |-> fr, to |-> tt,
             seen |-> se, mine |-> n, chain |-> h, answer |-> an, end |-> d]
    BY <2>7, <2>8
  <2>10. v = [u EXCEPT !.answer = a]
    BY <1>13, <2>2, <2>4, <2>6, <2>8
  <2> QED  BY <2>9, <2>10
<1>15. v \in YandexPasses
  BY <1>6, <1>10, <1>11, <1>12, <1>14 DEF YandexPasses
<1>16. /\ v.phase = "slice" /\ v.from = s.from /\ v.to = s.to /\ v.mine = n /\ v.seen = s.seen
       /\ v.chain = h /\ v.answer = a /\ v.end = d
       /\ n.token = 0 /\ n.pending = p /\ n.cursor = c /\ n.end = s.mine.end
  BY <1>6, <1>7, <1>9, <1>14
<1>17. YandexGrow
  BY <1>4, <1>5, YandexStillGrows
<1>18. EntrySound(v.mine, v.chain)'
  BY <1>5, <1>10, <1>16, <1>17, EntryStands
<1>19. YandexWindow(v)'
  <2>1. YandexWindow(s)'
    BY <1>4, <1>5, <1>17, WindowStands DEF YandexLivePhases
  <2> QED  BY <1>16, <2>1 DEF YandexWindow
<1>20. YandexAnswered(a, p)'
  <2>1. \A e \in DOMAIN a : /\ yandex_stored'[e] <= a[e] /\ a[e] <= yandex_changed'[e]
                            /\ a[e] = yandex_changed'[e]
    BY <1>4, <1>5, <1>12, YandexNumbers DEF YandexStill
  <2> QED  BY <2>1 DEF YandexAnswered
<1>21. DOMAIN a \subseteq Yandex!Between(c, d)'
  BY <1>12, <1>17, YandexSameTimes
<1>22. YandexPass(v)'
  BY <1>10, <1>11, <1>16, <1>18, <1>19, <1>20, <1>21 DEF YandexPass
<1> QED  BY <1>4, <1>5, <1>12, <1>13, <1>15, <1>16, <1>22, YandexPassStep

\* An event of an answer that was applied whole.
LEMMA YandexAppliedIsCurrent ==
  ASSUME YandexTypes, YandexStill, YandexStores, NEW a \in YandexAnswers, NEW t \in Nat,
         YandexAnswered(a, t), NEW e \in DOMAIN a, yandex_stored'[e] = a[e]
  PROVE  YandexCurrent(e, t)'
<1>1. e \in Yandex!Events /\ yandex_changed'[e] = yandex_changed[e]
      /\ (a[e] = yandex_changed[e] \/ yandex_changed[e] > t)
  BY YandexAnswerParts DEF YandexAnswered, YandexStill
<1>2. yandex_changed[e] \in Nat
  BY <1>1, YandexNumbers
<1> QED  BY <1>1, <1>2 DEF YandexCurrent

\* What a scan has behind it when a slice is applied: what the answer had left out is
\* excepted from then on.
LEMMA YandexSliceIsCurrent ==
  ASSUME YandexTypes, YandexStill, YandexStores, NEW s \in YandexPasses, s.phase = "slice",
         YandexPass(s), \A e \in DOMAIN s.answer : yandex_stored'[e] = s.answer[e],
         Yandex!Between(s.mine.cursor, s.end) \ DOMAIN s.answer \subseteq yandex_gap',
         NEW e \in Yandex!Events, yandex_at[e] >= s.chain, yandex_at[e] < s.end
  PROVE  e \in yandex_gap' \/ YandexCurrent(e, s.mine.pending)'
<1>1. /\ s.mine.pending # 0 /\ YandexAnswered(s.answer, s.mine.pending)
      /\ YandexScan(s.mine.pending, s.mine.cursor, s.chain)
  BY DEF YandexPass, EntrySound
<1>2. s.answer \in YandexAnswers /\ s.mine.pending \in Nat /\ s.mine.cursor \in Int
  <2>1. s.answer \in YandexAnswers /\ s.mine \in YandexEntries
    BY YandexPassParts DEF YandexLivePhases
  <2> QED  BY <2>1, YandexMoments DEF YandexEntries
<1>3. yandex_at[e] \in Int
  BY YandexNumbers
<1>4. CASE yandex_at[e] < s.mine.cursor
  <2>1. e \in Yandex!Between(s.chain, s.mine.cursor) /\ s.mine.pending <= yandex_rev
    BY <1>1, <1>4, YandexBetween DEF YandexScan
  <2>2. e \in yandex_gap \/ YandexCurrent(e, s.mine.pending)
    BY <1>1, <2>1 DEF YandexScan
  <2>3. yandex_gap \subseteq yandex_gap'
    BY DEF YandexStores
  <2> QED  BY <1>2, <2>1, <2>2, <2>3, CurrentStands, YandexStillGrows
<1>5. CASE ~ yandex_at[e] < s.mine.cursor
  <2>1. e \in Yandex!Between(s.mine.cursor, s.end)
    BY <1>2, <1>3, <1>5, YandexBetween
  <2>2. e \in DOMAIN s.answer \/ e \in yandex_gap'
    BY <2>1
  <2> QED  BY <1>1, <1>2, <2>2, YandexAppliedIsCurrent
<1> QED  BY <1>4, <1>5

\* A slice is applied and the scan goes on.
LEMMA YandexSliceGoesOn ==
  ASSUME YandexTypes, YandexStill, YandexStores, NEW s \in YandexPasses, s.phase = "slice",
         YandexPass(s), \A e \in DOMAIN s.answer : yandex_stored'[e] = s.answer[e],
         Yandex!Between(s.mine.cursor, s.end) \ DOMAIN s.answer \subseteq yandex_gap',
         s.end < s.to, NEW c, c = Yandex!NextSlice(s.mine.cursor, s.end),
         NEW n, n = [token |-> s.mine.token, pending |-> s.mine.pending, cursor |-> c,
                     start |-> s.mine.start, end |-> s.mine.end, range |-> s.mine.range]
  PROVE  n \in YandexEntries /\ EntrySound(n, s.chain)'
<1>1. /\ s.mine \in YandexEntries /\ s.end \in Yandex!Moments /\ s.chain \in Yandex!Moments
  BY YandexPassParts DEF YandexLivePhases
<1>2. /\ s.mine.token \in Nat /\ s.mine.pending \in Nat /\ s.mine.cursor \in Yandex!Moments
      /\ s.mine.start \in Yandex!Moments /\ s.mine.end \in Yandex!Moments
      /\ s.mine.range \in YandexRanges
  BY <1>1 DEF YandexEntries
<1>3. s.mine.cursor < s.end /\ EntrySound(s.mine, s.chain) /\ s.mine.token = 0
      /\ s.mine.pending # 0
  BY DEF YandexPass
<1>4. c \in Int /\ s.mine.cursor <= c /\ c <= s.end
  <2>1. s.mine.cursor \in Int /\ s.end \in Int
    BY <1>1, <1>2, YandexMoments
  <2> QED  BY <1>3, <2>1, YandexNext
<1>5. c \in Yandex!Moments
  BY <1>1, <1>2, <1>4, YandexMoments
<1>6. n \in YandexEntries
  BY <1>2, <1>5 DEF YandexEntries
<1>7. EntrySound(s.mine, s.chain)'
  BY <1>1, <1>3, EntryStands, YandexStillGrows
<1>8. ASSUME NEW e \in Yandex!Between(s.chain, c)'
      PROVE  e \in yandex_gap' \/ YandexCurrent(e, s.mine.pending)'
  <2>1. e \in Yandex!Events /\ yandex_at[e] \in Int /\ yandex_at[e] >= s.chain
        /\ yandex_at[e] < c
    BY <1>8, YandexSameTimes, YandexStillGrows, YandexBetween, YandexNumbers
  <2>2. yandex_at[e] < s.end
    BY <1>1, <1>4, <2>1, YandexMoments
  <2> QED  BY <2>1, <2>2, YandexSliceIsCurrent
<1>9. YandexScan(s.mine.pending, c, s.chain)'
  BY <1>3, <1>7, <1>8 DEF YandexScan, EntrySound
<1> QED  BY <1>3, <1>6, <1>7, <1>9 DEF EntrySound

\* The last slice is applied: the token vouches for the window of the pass.
LEMMA YandexScanCompletes ==
  ASSUME YandexTypes, YandexStill, YandexStores, NEW s \in YandexPasses, s.phase = "slice",
         YandexPass(s), \A e \in DOMAIN s.answer : yandex_stored'[e] = s.answer[e],
         Yandex!Between(s.mine.cursor, s.end) \ DOMAIN s.answer \subseteq yandex_gap',
         s.end >= s.to, Yandex!Between(s.from, s.chain) \subseteq yandex_gap',
         NEW n, n = [token |-> s.mine.pending, pending |-> 0, cursor |-> Yandex!Never,
                     start |-> s.from, end |-> s.to, range |-> s.mine.range]
  PROVE  n \in YandexEntries /\ n.end <= s.to /\ EntrySound(n, s.chain)'
<1>1. /\ s.mine \in YandexEntries /\ s.end \in Yandex!Moments /\ s.chain \in Yandex!Moments
      /\ s.from \in Yandex!Moments /\ s.to \in Yandex!Moments
  BY YandexPassParts DEF YandexLivePhases
<1>2. s.mine.pending \in Nat /\ s.mine.range \in YandexRanges
  BY <1>1 DEF YandexEntries
<1>3. s.end \in Int /\ s.chain \in Int /\ s.from \in Int /\ s.to \in Int
      /\ Yandex!Never \in Yandex!Moments /\ Yandex!Never \in Int
  BY <1>1, YandexMoments
<1>4. n \in YandexEntries /\ n.end <= s.to
  BY <1>1, <1>2, <1>3 DEF YandexEntries
<1>5. /\ EntrySound(s.mine, s.chain) /\ s.mine.token = 0 /\ s.mine.pending # 0
      /\ YandexWindow(s)
  BY DEF YandexPass
<1>6. EntrySound(s.mine, s.chain)' /\ YandexWindow(s)'
  BY <1>1, <1>5, EntryStands, WindowStands, YandexStillGrows DEF YandexLivePhases
<1>7. ASSUME NEW e \in Yandex!Between(s.from, s.to)'
      PROVE  e \in yandex_gap' \/ YandexCurrent(e, s.mine.pending)'
  <2>1. e \in Yandex!Events /\ yandex_at[e] \in Int /\ yandex_at[e] >= s.from
        /\ yandex_at[e] < s.to
    BY <1>7, YandexSameTimes, YandexStillGrows, YandexBetween, YandexNumbers
  <2>2. CASE yandex_at[e] < s.chain
    <3>1. e \in Yandex!Between(s.from, s.chain)
      BY <2>1, <2>2, YandexBetween
    <3> QED  BY <3>1
  <2>3. CASE ~ yandex_at[e] < s.chain
    <3>1. yandex_at[e] >= s.chain /\ yandex_at[e] < s.end
      BY <1>3, <2>1, <2>3
    <3> QED  BY <2>1, <3>1, YandexSliceIsCurrent
  <2> QED  BY <2>2, <2>3
<1>8. YandexCovered(s.mine.pending, s.from, s.to)'
  <2>1. s.mine.pending <= yandex_rev' /\ s.to <= yandex_now' + Ahead
    BY <1>6 DEF EntrySound, YandexWindow
  <2>2. s.from <= yandex_now' /\ s.from # Yandex!Never /\ s.to # Yandex!Never
    <3>1. yandex_now' \in Int
      BY YandexNumbers DEF YandexStill
    <3>2. Yandex!Never < s.from /\ s.from < yandex_now' /\ s.from < s.to
      BY <1>6 DEF YandexWindow
    <3> QED  BY <1>3, <3>1, <3>2
  <2> QED  BY <1>7, <2>1, <2>2 DEF YandexCovered
<1>9. 0 <= yandex_rev'
  BY YandexNumbers DEF YandexStill
<1> QED  BY <1>4, <1>5, <1>6, <1>8, <1>9 DEF EntrySound

LEMMA YandexApplySlice == ASSUME YandexInv, Yandex!ApplySlice PROVE YandexInv'
<1>1. PICK s, m : s = yandex_pass /\ m = yandex_pass.mine
  OBVIOUS
<1>2. PICK x, y : /\ x = [m EXCEPT !.cursor = Yandex!NextSlice(@, s.end)]
                  /\ y = [m EXCEPT !.token = m.pending, !.pending = 0,
                            !.cursor = Yandex!Never, !.start = s.from, !.end = s.to]
  OBVIOUS
<1>3. /\ YandexStill /\ UNCHANGED <<yandex_entry, yandex_chain>> /\ s.phase = "slice"
  BY <1>1 DEF Yandex!ApplySlice, Yandex!calendar, YandexStill
<1>4. PICK done \in SUBSET DOMAIN s.answer :
        /\ yandex_stored' = Yandex!Applied(s.answer, done)
        /\ \/ /\ done # DOMAIN s.answer
              /\ yandex_pass' = Yandex!Live("done", m)
              /\ UNCHANGED yandex_gap
           \/ /\ done = DOMAIN s.answer /\ s.end < s.to
              /\ \E phase \in {"main", "done"} : yandex_pass' = Yandex!Live(phase, x)
              /\ yandex_gap' = yandex_gap \union
                    (Yandex!Between(m.cursor, s.end) \ DOMAIN s.answer)
           \/ /\ done = DOMAIN s.answer /\ s.end >= s.to
              /\ yandex_pass' = Yandex!Live("done", y)
              /\ yandex_gap' = yandex_gap \union
                    (Yandex!Between(m.cursor, s.end) \ DOMAIN s.answer)
                    \union Yandex!Between(s.from, s.chain)
  BY <1>1, <1>2 DEF Yandex!ApplySlice, Yandex!LeftOut
<1>5. YandexTypes /\ s \in YandexPasses /\ YandexPass(s)
  BY <1>1 DEF YandexInv, YandexTypes
<1>6. /\ s.answer \in YandexAnswers /\ s.phase \in YandexLivePhases /\ s.mine = m
      /\ m \in YandexEntries
  BY <1>1, <1>3, <1>5, YandexPassParts DEF YandexLivePhases
<1>7. /\ YandexAnswered(s.answer, m.pending) /\ m.end <= s.to /\ EntrySound(m, s.chain)
  BY <1>3, <1>5, <1>6 DEF YandexPass, YandexWindow
<1>8. yandex_gap \subseteq yandex_gap' /\ yandex_gap' \subseteq Yandex!Events
  BY <1>4, <1>5, YandexBetween DEF YandexTypes
<1>9. YandexStores /\ \A e \in done : yandex_stored'[e] = s.answer[e]
  <2>1. \A e \in done : yandex_stored[e] <= s.answer[e] /\ s.answer[e] <= yandex_changed[e]
    BY <1>7 DEF YandexAnswered
  <2> QED  BY <1>4, <1>5, <1>6, <1>8, <2>1, YandexApplied
<1>10. PICK tk, pd, cu, st, en, rg :
         m = [token |-> tk, pending |-> pd, cursor |-> cu, start |-> st, end |-> en,
              range |-> rg]
  BY <1>6 DEF YandexEntries
<1>11. /\ s.mine.token = tk /\ s.mine.pending = pd /\ s.mine.cursor = cu
       /\ s.mine.start = st /\ s.mine.end = en /\ s.mine.range = rg
  BY <1>6, <1>10
<1>12. CASE done # DOMAIN s.answer
  <2>1. EntrySound(m, s.chain)'
    BY <1>3, <1>5, <1>6, <1>7, <1>9, EntryStands, YandexStillGrows
  <2>2. yandex_pass' = Yandex!Live("done", m)
    BY <1>4, <1>12
  <2> QED  BY <1>1, <1>3, <1>6, <1>7, <1>9, <2>1, <2>2, YandexGoesOn
<1>13. CASE done = DOMAIN s.answer /\ s.end < s.to
  <2>1. ~ s.end >= s.to
    BY <1>3, <1>5, <1>13, YandexPassParts, YandexMoments DEF YandexLivePhases
  <2>2. (\E phase \in {"main", "done"} : yandex_pass' = Yandex!Live(phase, x))
    BY <1>4, <1>13, <2>1
  <2>3. PICK c : c = Yandex!NextSlice(cu, s.end)
    OBVIOUS
  <2>4. x = [token |-> tk, pending |-> pd, cursor |-> c, start |-> st, end |-> en,
             range |-> rg]
    <3>1. x = [m EXCEPT !.cursor = c]
      BY <1>2, <1>10, <2>3
    <3> QED  BY <1>10, <3>1
  <2>5. x \in YandexEntries /\ EntrySound(x, s.chain)'
    <3>1. Yandex!Between(s.mine.cursor, s.end) \ DOMAIN s.answer \subseteq yandex_gap'
      BY <1>4, <1>6, <1>13, <2>1
    <3> QED  BY <1>3, <1>5, <1>9, <1>11, <1>13, <2>3, <2>4, <3>1, YandexSliceGoesOn
  <2>6. x.end <= s.to
    BY <1>7, <1>10, <2>4
  <2> QED  BY <1>1, <1>3, <1>6, <1>9, <2>2, <2>5, <2>6, YandexGoesOn
<1>14. CASE done = DOMAIN s.answer /\ ~ s.end < s.to
  <2>1. s.end >= s.to
    BY <1>3, <1>5, <1>14, YandexPassParts, YandexMoments DEF YandexLivePhases
  <2>2. /\ yandex_pass' = Yandex!Live("done", y)
        /\ Yandex!Between(s.mine.cursor, s.end) \ DOMAIN s.answer \subseteq yandex_gap'
        /\ Yandex!Between(s.from, s.chain) \subseteq yandex_gap'
    BY <1>4, <1>6, <1>14
  <2>3. PICK f, t, ne : f = s.from /\ t = s.to /\ ne = Yandex!Never
    OBVIOUS
  <2>4. y = [token |-> pd, pending |-> 0, cursor |-> ne, start |-> f, end |-> t, range |-> rg]
    <3>1. PICK a : a = [m EXCEPT !.token = pd]
      OBVIOUS
    <3>2. a = [token |-> pd, pending |-> pd, cursor |-> cu, start |-> st, end |-> en,
               range |-> rg]
      BY <1>10, <3>1
    <3>3. PICK b : b = [a EXCEPT !.pending = 0]
      OBVIOUS
    <3>4. b = [token |-> pd, pending |-> 0, cursor |-> cu, start |-> st, end |-> en,
               range |-> rg]
      BY <3>2, <3>3
    <3>5. PICK c : c = [b EXCEPT !.cursor = ne]
      OBVIOUS
    <3>6. c = [token |-> pd, pending |-> 0, cursor |-> ne, start |-> st, end |-> en,
               range |-> rg]
      BY <3>4, <3>5
    <3>7. PICK d : d = [c EXCEPT !.start = f]
      OBVIOUS
    <3>8. d = [token |-> pd, pending |-> 0, cursor |-> ne, start |-> f, end |-> en,
               range |-> rg]
      BY <3>6, <3>7
    <3>9. m.pending = pd
      BY <1>10
    <3>10. y = [d EXCEPT !.end = t]
      BY <1>2, <2>3, <3>1, <3>3, <3>5, <3>7, <3>9
    <3> QED  BY <3>8, <3>10
  <2>5. y \in YandexEntries /\ y.end <= s.to /\ EntrySound(y, s.chain)'
    <3>1. y = [token |-> s.mine.pending, pending |-> 0, cursor |-> Yandex!Never,
               start |-> s.from, end |-> s.to, range |-> s.mine.range]
      BY <1>11, <2>3, <2>4
    <3> QED  BY <1>3, <1>5, <1>9, <1>14, <2>1, <2>2, <3>1, YandexScanCompletes
  <2> QED  BY <1>1, <1>3, <1>6, <1>9, <2>2, <2>5, YandexGoesOn
<1> QED  BY <1>12, <1>13, <1>14

\* A pass without a query: it is planning, or it is over.
LEMMA YandexNoQuery ==
  ASSUME NEW v \in {Yandex!Idle} \union [phase : {"plan"}, days : Spans], NEW r
  PROVE  v \in YandexPasses /\ YandexPass(v)' /\ YandexOld(v, r)'
<1>1. v.phase \in {"idle", "plan"}
  BY DEF Yandex!Idle
<1> QED  BY <1>1 DEF YandexPasses, YandexPass, YandexOld

LEMMA YandexEndLive == ASSUME YandexInv, Yandex!EndLive PROVE YandexInv'
<1>1. PICK s, n, c : s = yandex_pass /\ n = yandex_pass.mine /\ c = yandex_pass.chain
  OBVIOUS
<1>2. /\ YandexStill /\ UNCHANGED <<yandex_stored, yandex_gap>> /\ s.phase = "done"
      /\ yandex_entry' = n /\ yandex_chain' = c
      /\ yandex_pass' = IF s.worker THEN [phase |-> "plan", days |-> s.days] ELSE Yandex!Idle
  BY <1>1 DEF Yandex!EndLive, Yandex!calendar, YandexStill
<1>3. /\ YandexTypes /\ YandexStores /\ s \in YandexPasses /\ EntrySound(n, c)
  BY <1>1, <1>2, YandexNothingStored DEF YandexInv, YandexTypes, YandexPass
<1>4. s.days \in Spans /\ n \in YandexEntries /\ c \in Yandex!Moments
  BY <1>1, <1>2, <1>3, YandexPassParts DEF YandexLivePhases
<1>5. PICK v : v = yandex_pass'
  OBVIOUS
<1>6. v \in {Yandex!Idle} \union [phase : {"plan"}, days : Spans]
  BY <1>2, <1>4, <1>5
<1>7. v \in YandexPasses /\ YandexPass(v)' /\ YandexOld(v, n.range)'
  BY <1>6, YandexNoQuery
<1>8. EntrySound(n, c)'
  BY <1>2, <1>3, <1>4, EntryStands, YandexStillGrows
<1>9. YandexTypes'
  BY <1>2, <1>3, <1>4, <1>5, <1>7, YandexStillTypes
<1> QED  BY <1>2, <1>5, <1>7, <1>8, <1>9 DEF YandexInv

\* An entry with another range.
LEMMA YandexWithRange ==
  ASSUME YandexTypes, NEW m \in YandexEntries, NEW c, EntrySound(m, c),
         NEW r \in YandexRanges, YandexRange(r), NEW n, n = [m EXCEPT !.range = r]
  PROVE  n \in YandexEntries /\ n.range = r /\ EntrySound(n, c)
<1>1. PICK tk, pd, cu, st, en, rg :
        /\ m = [token |-> tk, pending |-> pd, cursor |-> cu, start |-> st, end |-> en,
                range |-> rg]
        /\ tk \in Nat /\ pd \in Nat /\ cu \in Yandex!Moments /\ st \in Yandex!Moments
        /\ en \in Yandex!Moments
  BY DEF YandexEntries
<1>2. n = [token |-> tk, pending |-> pd, cursor |-> cu, start |-> st, end |-> en, range |-> r]
  <2>1. m = [token |-> tk, pending |-> pd, cursor |-> cu, start |-> st, end |-> en,
             range |-> rg]
    BY <1>1
  <2> QED  BY <2>1
<1>3. n \in YandexEntries
  BY <1>1, <1>2 DEF YandexEntries
<1>4. /\ YandexCovered(tk, st, en) /\ pd <= yandex_rev /\ (tk = 0 => YandexScan(pd, cu, c))
  BY <1>1 DEF EntrySound
<1> QED  BY <1>2, <1>3, <1>4 DEF EntrySound

\* The range that is scanned next: it ends where the coverage begins.
LEMMA YandexRangeIsPlanned ==
  ASSUME YandexInv, NEW d \in Spans, NEW r,
         r = (IF Yandex!Kept(yandex_entry.range, d) = Yandex!NoRange
              THEN Yandex!NextRange(d) ELSE Yandex!Kept(yandex_entry.range, d))
  PROVE  r \in YandexRanges /\ YandexRange(r)
<1>1. /\ YandexTypes /\ EntrySound(yandex_entry, yandex_chain)
  BY DEF YandexInv
<1>2. /\ yandex_entry.range \in YandexRanges /\ YandexRange(yandex_entry.range)
      /\ yandex_entry.start \in Yandex!Moments
      /\ yandex_entry.start # Yandex!Never => yandex_entry.start <= yandex_now
  BY <1>1 DEF YandexTypes, YandexEntries, EntrySound, YandexCovered
<1>3. /\ yandex_now \in Nat /\ yandex_now <= LastDay /\ LastDay \in Nat /\ Ahead \in Nat
      /\ d \in Nat \ {0} /\ d <= Max(Spans) /\ Max(Spans) \in Nat
      /\ Yandex!Never = 0 - Max(Spans) - 1
      /\ Yandex!Moments = Yandex!Never .. (LastDay + Ahead)
  <2>1. yandex_now \in 0 .. LastDay
    BY <1>1 DEF YandexTypes
  <2> QED  BY <2>1, YandexMoments
<1>4. CASE r = yandex_entry.range
  BY <1>2, <1>4
<1>5. CASE r = Yandex!NoRange
  <2>1. PICK n : n = [token |-> 0, pending |-> 0, cursor |-> Yandex!Never,
                      start |-> Yandex!Never, end |-> Yandex!Never, range |-> Yandex!NoRange]
    OBVIOUS
  <2>2. Yandex!Never \in Yandex!Moments
    BY <1>3
  <2>3. n \in YandexEntries /\ EntrySound(n, Yandex!Never) /\ n.range = r
    BY <1>1, <1>5, <2>1, <2>2, YandexAnew
  <2> QED  BY <2>3 DEF YandexEntries, EntrySound
<1>6. CASE \E t : /\ t = (IF yandex_entry.start = Yandex!Never THEN yandex_now
                         ELSE yandex_entry.start)
                  /\ yandex_now - d < t
                  /\ r = [from |-> yandex_now - d, to |-> t, cursor |-> Yandex!Never,
                          days |-> d]
  <2>1. PICK t : /\ t = (IF yandex_entry.start = Yandex!Never THEN yandex_now
                         ELSE yandex_entry.start)
                 /\ yandex_now - d < t
                 /\ r = [from |-> yandex_now - d, to |-> t, cursor |-> Yandex!Never,
                         days |-> d]
    BY <1>6
  <2>2. PICK f, ne : f = yandex_now - d /\ ne = Yandex!Never
    OBVIOUS
  <2>3. /\ f \in Yandex!Moments /\ ne \in Yandex!Moments /\ ne < f /\ ne <= yandex_now
        /\ f \in Int /\ ne \in Int
    BY <1>3, <2>2
  <2>4. t \in Yandex!Moments /\ t <= yandex_now
    BY <1>2, <1>3, <2>1
  <2>5. r = [from |-> f, to |-> t, cursor |-> ne, days |-> d] /\ f < t
    BY <2>1, <2>2
  <2>6. r \in YandexRanges
    BY <2>3, <2>4, <2>5 DEF YandexRanges
  <2>7. ASSUME NEW e \in Yandex!Between(f, ne)
        PROVE  FALSE
    <3>1. yandex_at[e] \in Int /\ yandex_at[e] >= f /\ yandex_at[e] < ne
      BY <1>1, <2>7, YandexBetween, YandexNumbers
    <3> QED  BY <2>3, <3>1
  <2>8. YandexRange(r)
    BY <2>2, <2>3, <2>4, <2>5, <2>7 DEF YandexRange
  <2> QED  BY <2>6, <2>8
<1> QED  BY <1>4, <1>5, <1>6 DEF Yandex!Kept, Yandex!NextRange

LEMMA YandexPlanHistory == ASSUME YandexInv, Yandex!PlanHistory PROVE YandexInv'
<1>1. PICK s, m, c : s = yandex_pass /\ m = yandex_entry /\ c = yandex_chain
  OBVIOUS
<1>2. PICK r : r = (IF Yandex!Kept(m.range, s.days) = Yandex!NoRange
                    THEN Yandex!NextRange(s.days) ELSE Yandex!Kept(m.range, s.days))
  OBVIOUS
<1>3. PICK u : u = Yandex!Max({r.cursor, r.from})
  OBVIOUS
<1>4. PICK d : d = Yandex!SliceEnd(u, r.to)
  OBVIOUS
<1>5. PICK n : n = [m EXCEPT !.range = r]
  OBVIOUS
<1>6. /\ YandexStill /\ UNCHANGED <<yandex_stored, yandex_gap, yandex_chain>>
      /\ s.phase = "plan" /\ yandex_entry' = n
      /\ r = Yandex!NoRange => yandex_pass' = Yandex!Idle
      /\ r # Yandex!NoRange =>
           \E told \in SUBSET Yandex!Between(u, d) :
             yandex_pass' = [phase |-> "old", cursor |-> u, end |-> d,
                             answer |-> Yandex!Answer(told)]
  BY <1>1, <1>2, <1>3, <1>4, <1>5 DEF Yandex!PlanHistory, Yandex!calendar, YandexStill
<1>7. /\ YandexTypes /\ YandexStores /\ s \in YandexPasses /\ m \in YandexEntries
      /\ c \in Yandex!Moments /\ EntrySound(m, c)
  BY <1>1, <1>6, YandexNothingStored DEF YandexInv, YandexTypes
<1>8. r \in YandexRanges /\ YandexRange(r)
  <2>1. s.days \in Spans
    BY <1>6, <1>7, YandexPassParts
  <2> QED  BY <1>1, <1>2, <2>1, YandexRangeIsPlanned
<1>9. n \in YandexEntries /\ n.range = r /\ EntrySound(n, c)
  BY <1>5, <1>7, <1>8, YandexWithRange
<1>10. EntrySound(n, c)' /\ c = yandex_chain'
  BY <1>1, <1>6, <1>7, <1>9, EntryStands, YandexStillGrows
<1>11. CASE r = Yandex!NoRange
  <2>1. YandexPass(Yandex!Idle)' /\ YandexOld(Yandex!Idle, r)' /\ Yandex!Idle \in YandexPasses
    BY YandexNoQuery
  <2>2. yandex_pass' = Yandex!Idle
    BY <1>6, <1>11
  <2>3. YandexTypes'
    BY <1>6, <1>7, <1>9, <1>10, <2>1, <2>2, YandexStillTypes
  <2> QED  BY <1>6, <1>9, <1>10, <2>1, <2>2, <2>3 DEF YandexInv
<1>12. CASE r # Yandex!NoRange
  <2>1. PICK told \in SUBSET Yandex!Between(u, d) :
         yandex_pass' = [phase |-> "old", cursor |-> u, end |-> d,
                         answer |-> Yandex!Answer(told)]
    BY <1>6, <1>12
  <2>2. PICK a : a = Yandex!Answer(told)
    OBVIOUS
  <2>3. PICK v : v = [phase |-> "old", cursor |-> u, end |-> d, answer |-> a]
    OBVIOUS
  <2>4. /\ r.cursor \in Yandex!Moments /\ r.from \in Yandex!Moments /\ r.to \in Yandex!Moments
        /\ r.cursor \in Int /\ r.from \in Int
    BY <1>8, YandexMoments DEF YandexRanges
  <2>5. u \in {r.cursor, r.from} /\ u >= r.cursor /\ u >= r.from
    BY <1>3, <2>4, YandexOfTwo
  <2>6. u \in Yandex!Moments /\ d \in Yandex!Moments /\ d <= r.to /\ (d < r.to => u < d)
    BY <1>4, <2>4, <2>5, YandexSlice
  <2>7. told \in SUBSET Yandex!Events
    BY YandexBetween
  <2>8. a \in YandexAnswers /\ DOMAIN a \subseteq Yandex!Between(u, d)
        /\ \A e \in DOMAIN a : e \in Yandex!Events /\ a[e] = yandex_changed[e]
    BY <1>7, <2>2, <2>7, YandexAnswer
  <2>9. v \in YandexPasses /\ yandex_pass' = v
    BY <2>1, <2>2, <2>3, <2>6, <2>8 DEF YandexPasses
  <2>10. YandexPass(v)'
    BY <2>3 DEF YandexPass
  <2>11. YandexOld(v, r)'
    <3>1. DOMAIN a \subseteq Yandex!Between(u, d)' /\ \A e \in DOMAIN a : a[e] = yandex_changed'[e]
      BY <1>6, <1>7, <2>8, YandexSameTimes, YandexStillGrows DEF YandexStill
    <3>2. r.cursor <= u /\ r.from <= u
      BY <2>4, <2>5
    <3> QED  BY <1>12, <2>3, <2>5, <2>6, <3>1, <3>2 DEF YandexOld
  <2>12. YandexTypes'
    BY <1>6, <1>7, <1>9, <1>10, <2>9, YandexStillTypes
  <2> QED  BY <1>6, <1>9, <1>10, <2>9, <2>10, <2>11, <2>12 DEF YandexInv
<1> QED  BY <1>11, <1>12

\* What a range of the history has behind it when a slice is applied.
LEMMA YandexPastIsStored ==
  ASSUME YandexTypes, YandexStill, YandexStores, NEW s \in YandexPasses, s.phase = "old",
         NEW r \in YandexRanges, YandexRange(r), YandexOld(s, r),
         NEW e \in Yandex!Events, yandex_at[e] >= r.from,
         \/ yandex_at[e] < s.cursor
         \/ /\ yandex_at[e] < s.end
            /\ \A x \in DOMAIN s.answer : yandex_stored'[x] = s.answer[x]
            /\ Yandex!Between(s.cursor, s.end) \ DOMAIN s.answer \subseteq yandex_gap'
  PROVE  e \in yandex_gap' \/ yandex_stored'[e] >= yandex_changed'[e]
<1>1. /\ s.cursor \in {r.cursor, r.from}
      /\ \A x \in DOMAIN s.answer : s.answer[x] = yandex_changed[x]
  BY DEF YandexOld
<1>2. /\ s.cursor \in Int /\ r.from \in Int /\ r.cursor \in Int
      /\ yandex_at[e] \in Int /\ yandex_changed[e] \in Nat /\ yandex_stored[e] \in Nat
      /\ yandex_changed' = yandex_changed
  BY YandexPassParts, YandexMoments, YandexNumbers DEF YandexRanges, YandexStill
<1>3. CASE yandex_at[e] < s.cursor
  <2>1. s.cursor = r.cursor
    BY <1>1, <1>2, <1>3
  <2>2. e \in Yandex!Between(r.from, r.cursor)
    BY <1>3, <2>1, YandexBetween
  <2>3. /\ e \in yandex_gap' \/ yandex_stored[e] >= yandex_changed[e]
        /\ yandex_stored[e] <= yandex_stored'[e]
    BY <2>2 DEF YandexRange, YandexStores
  <2>4. yandex_stored'[e] \in Int
    BY YandexNumbers DEF YandexStores
  <2> QED  BY <1>2, <2>3, <2>4
<1>4. CASE ~ yandex_at[e] < s.cursor
  <2>1. e \in Yandex!Between(s.cursor, s.end)
    BY <1>2, <1>4, YandexBetween
  <2>2. e \in yandex_gap' \/ yandex_stored'[e] = yandex_changed[e]
    BY <1>1, <1>4, <2>1
  <2> QED  BY <1>2, <2>2
<1> QED  BY <1>3, <1>4

\* A range the history goes on with.
LEMMA YandexRangeGoesOn ==
  ASSUME YandexTypes, YandexStill, YandexStores, NEW s \in YandexPasses, s.phase = "old",
         NEW r \in YandexRanges, YandexRange(r), YandexOld(s, r), NEW x \in Yandex!Moments,
         \/ x = s.cursor
         \/ /\ x <= s.end
            /\ \A e \in DOMAIN s.answer : yandex_stored'[e] = s.answer[e]
            /\ Yandex!Between(s.cursor, s.end) \ DOMAIN s.answer \subseteq yandex_gap',
         NEW q, q = [from |-> r.from, to |-> r.to, cursor |-> x, days |-> r.days]
  PROVE  q \in YandexRanges /\ YandexRange(q)'
<1>1. /\ r.from \in Yandex!Moments /\ r.to \in Yandex!Moments /\ r.days \in {0} \union Spans
      /\ r.cursor \in Yandex!Moments /\ s.cursor \in Yandex!Moments /\ s.end \in Yandex!Moments
  BY YandexPassParts DEF YandexRanges
<1>2. /\ r.from \in Int /\ r.to \in Int /\ r.cursor \in Int /\ s.cursor \in Int /\ s.end \in Int
      /\ x \in Int /\ yandex_now \in Int /\ yandex_now' = yandex_now
  BY <1>1, YandexMoments, YandexNumbers DEF YandexStill
<1>3. /\ Yandex!Never < r.from /\ r.from < r.to /\ r.to <= yandex_now /\ r.cursor <= yandex_now /\ s.end <= r.to
      /\ s.cursor \in {r.cursor, r.from}
  BY DEF YandexRange, YandexOld
<1>4. x <= yandex_now
  BY <1>2, <1>3
<1>5. ASSUME NEW e \in Yandex!Between(r.from, x)'
      PROVE  e \in yandex_gap' \/ yandex_stored'[e] >= yandex_changed'[e]
  <2>1. e \in Yandex!Events /\ yandex_at[e] >= r.from /\ yandex_at[e] < x /\ yandex_at[e] \in Int
    BY <1>5, YandexSameTimes, YandexStillGrows, YandexBetween, YandexNumbers
  <2>2. \/ yandex_at[e] < s.cursor
        \/ /\ yandex_at[e] < s.end
           /\ \A y \in DOMAIN s.answer : yandex_stored'[y] = s.answer[y]
           /\ Yandex!Between(s.cursor, s.end) \ DOMAIN s.answer \subseteq yandex_gap'
    BY <1>2, <2>1
  <2> QED  BY <2>1, <2>2, YandexPastIsStored
<1>6. q \in YandexRanges
  BY <1>1 DEF YandexRanges
<1> QED  BY <1>2, <1>3, <1>4, <1>5, <1>6 DEF YandexRange

\* A range that is complete, and ends where the coverage begins, extends it.
LEMMA YandexCoverageGrows ==
  ASSUME YandexTypes, YandexStill, YandexStores, NEW s \in YandexPasses, s.phase = "old",
         NEW m \in YandexEntries, m = yandex_entry, NEW c, EntrySound(m, c),
         YandexOld(s, m.range), s.end >= m.range.to, Yandex!Extends(m.range),
         \A e \in DOMAIN s.answer : yandex_stored'[e] = s.answer[e],
         Yandex!Between(s.cursor, s.end) \ DOMAIN s.answer \subseteq yandex_gap'
  PROVE  YandexCovered(m.token, m.range.from, m.end)'
<1>1. /\ m.range \in YandexRanges /\ m.token \in Nat /\ m.start \in Int /\ m.end \in Int
  BY YandexMoments DEF YandexEntries
<1>2. /\ m.range.from \in Int /\ m.range.to \in Int /\ s.end \in Int
      /\ yandex_now \in Int /\ yandex_now' = yandex_now
      /\ yandex_changed' = yandex_changed
  BY <1>1, YandexPassParts, YandexMoments, YandexNumbers DEF YandexRanges, YandexStill
<1>3. /\ YandexCovered(m.token, m.start, m.end) /\ YandexRange(m.range)
  BY DEF EntrySound
<1>4. YandexCovered(m.token, m.start, m.end)'
  BY <1>1, <1>3, CoveredStands, YandexStillGrows
<1>5. Yandex!Never < m.range.from /\ m.range.to <= yandex_now /\ m.range # Yandex!NoRange
  BY <1>3 DEF YandexRange, YandexOld
<1>6. m.range.from <= yandex_now'
  <2>1. m.range.from < m.range.to
    BY <1>3, <1>5 DEF YandexRange
  <2> QED  BY <1>2, <1>5, <2>1
<1>7. ASSUME m.token # 0
      PROVE  /\ m.range.from # Yandex!Never /\ m.end # Yandex!Never
             /\ \A e \in Yandex!Between(m.range.from, m.end)' :
                  e \in yandex_gap' \/ YandexCurrent(e, m.token)'
  <2>1. m.start # Yandex!Never /\ m.end # Yandex!Never
    BY <1>3, <1>7 DEF YandexCovered
  <2>2. m.range.to = m.start
    BY <2>1 DEF Yandex!Extends
  <2>3. ASSUME NEW e \in Yandex!Between(m.range.from, m.end)'
        PROVE  e \in yandex_gap' \/ YandexCurrent(e, m.token)'
    <3>1. e \in Yandex!Events /\ yandex_at[e] >= m.range.from /\ yandex_at[e] < m.end
          /\ yandex_at[e] \in Int
      BY <2>3, YandexSameTimes, YandexStillGrows, YandexBetween, YandexNumbers
    <3>2. CASE yandex_at[e] < m.range.to
      <4>1. yandex_at[e] < s.end
        BY <1>2, <3>1, <3>2
      <4>2. e \in yandex_gap' \/ yandex_stored'[e] >= yandex_changed'[e]
        BY <1>1, <1>3, <3>1, <4>1, YandexPastIsStored
      <4> QED  BY <4>2 DEF YandexCurrent
    <3>3. CASE ~ yandex_at[e] < m.range.to
      <4>1. e \in Yandex!Between(m.start, m.end)'
        BY <1>1, <1>2, <2>2, <3>1, <3>3, YandexSameTimes, YandexStillGrows, YandexBetween
      <4> QED  BY <1>4, <1>7, <4>1 DEF YandexCovered
    <3> QED  BY <3>2, <3>3
  <2>4. m.range.from # Yandex!Never
    BY <1>2, <1>5, YandexMoments
  <2> QED  BY <2>1, <2>3, <2>4
<1> QED  BY <1>4, <1>6, <1>7 DEF YandexCovered

LEMMA YandexApplyHistory == ASSUME YandexInv, Yandex!ApplyHistory PROVE YandexInv'
<1>1. PICK s, m, c : s = yandex_pass /\ m = yandex_entry /\ c = yandex_chain
  OBVIOUS
<1>2. PICK tk, pd, cu, st, en, r :
        /\ m = [token |-> tk, pending |-> pd, cursor |-> cu, start |-> st, end |-> en,
                range |-> r]
        /\ tk \in Nat /\ pd \in Nat /\ cu \in Yandex!Moments /\ st \in Yandex!Moments
        /\ en \in Yandex!Moments /\ r \in YandexRanges
  BY <1>1 DEF YandexInv, YandexTypes, YandexEntries
<1>3. /\ YandexTypes /\ s \in YandexPasses /\ m \in YandexEntries /\ c \in Yandex!Moments
      /\ EntrySound(m, c) /\ m.range = r /\ YandexRange(r) /\ YandexOld(s, r)
  BY <1>1, <1>2 DEF YandexInv, YandexTypes, EntrySound
<1>4. PICK g, h : g = s.cursor /\ h = Yandex!NextSlice(s.cursor, s.end)
  OBVIOUS
<1>5. PICK x, y, z :
        /\ x = [m EXCEPT !.range.cursor = g] /\ z = [m EXCEPT !.range.cursor = h]
        /\ y = [m EXCEPT !.start = IF Yandex!Extends(r) THEN r.from ELSE @]
  OBVIOUS
<1>6. /\ YandexStill /\ UNCHANGED yandex_chain /\ s.phase = "old"
      /\ yandex_pass' = Yandex!Idle
  BY <1>1 DEF Yandex!ApplyHistory, Yandex!calendar, YandexStill
<1>7. PICK done \in SUBSET DOMAIN s.answer :
        /\ yandex_stored' = Yandex!Applied(s.answer, done)
        /\ \/ done # DOMAIN s.answer /\ yandex_entry' = x
           \/ done = DOMAIN s.answer /\ s.end >= r.to /\ yandex_entry' = y
           \/ done = DOMAIN s.answer /\ ~ s.end >= r.to /\ yandex_entry' = z
        /\ yandex_gap' = IF done = DOMAIN s.answer
                         THEN yandex_gap \union (Yandex!Between(s.cursor, s.end) \ DOMAIN s.answer)
                         ELSE yandex_gap
  <2>1. PICK done \in SUBSET DOMAIN yandex_pass.answer :
          /\ yandex_stored' = Yandex!Applied(yandex_pass.answer, done)
          /\ yandex_entry' = CASE done # DOMAIN yandex_pass.answer ->
                          [yandex_entry EXCEPT !.range.cursor = yandex_pass.cursor]
                     [] done = DOMAIN yandex_pass.answer
                          /\ yandex_pass.end >= yandex_entry.range.to ->
                          [yandex_entry EXCEPT !.start =
                            IF Yandex!Extends(yandex_entry.range)
                            THEN yandex_entry.range.from ELSE @]
                     [] OTHER ->
                          [yandex_entry EXCEPT !.range.cursor =
                             Yandex!NextSlice(yandex_pass.cursor, yandex_pass.end)]
          /\ yandex_gap' = IF done = DOMAIN yandex_pass.answer
                           THEN yandex_gap \union
                             (Yandex!Between(yandex_pass.cursor, yandex_pass.end)
                              \ DOMAIN yandex_pass.answer)
                           ELSE yandex_gap
    BY DEF Yandex!ApplyHistory, Yandex!LeftOut
  <2>2. yandex_entry' = CASE done # DOMAIN s.answer -> x
                     [] done = DOMAIN s.answer /\ s.end >= r.to -> y
                     [] OTHER -> z
    BY <1>1, <1>3, <1>4, <1>5, <2>1
  <2>3. CASE done # DOMAIN s.answer
    BY <1>1, <2>1, <2>2, <2>3
  <2>4. CASE done = DOMAIN s.answer /\ s.end >= r.to
    BY <1>1, <2>1, <2>2, <2>4
  <2>5. CASE done = DOMAIN s.answer /\ ~ s.end >= r.to
    BY <1>1, <2>1, <2>2, <2>5
  <2> QED  BY <2>3, <2>4, <2>5
<1>8. /\ s.answer \in YandexAnswers /\ g \in Yandex!Moments /\ s.end \in Yandex!Moments
  BY <1>3, <1>4, <1>6, YandexPassParts
<1>9. YandexStores /\ \A e \in done : yandex_stored'[e] = s.answer[e]
  <2>1. ASSUME NEW e \in done
        PROVE  yandex_stored[e] <= s.answer[e] /\ s.answer[e] <= yandex_changed[e]
    <3>1. e \in Yandex!Events /\ s.answer[e] = yandex_changed[e]
      BY <1>3, <1>6, <1>8, <2>1, YandexAnswerParts DEF YandexOld
    <3> QED  BY <1>3, <3>1, YandexNumbers
  <2>2. yandex_gap \subseteq yandex_gap' /\ yandex_gap' \subseteq Yandex!Events
    BY <1>3, <1>7, YandexBetween DEF YandexTypes
  <2> QED  BY <1>3, <1>7, <1>8, <2>1, <2>2, YandexApplied
<1>10. PICK f, t, k, dd : r = [from |-> f, to |-> t, cursor |-> k, days |-> dd]
  BY <1>2 DEF YandexRanges
<1>11. r.from = f /\ r.to = t /\ r.days = dd
  BY <1>10
<1>12. EntrySound(m, c)'
  BY <1>3, <1>6, <1>9, EntryStands, YandexStillGrows
<1>13. ASSUME NEW j \in Yandex!Moments, NEW n, n = [m EXCEPT !.range.cursor = j],
              \/ j = s.cursor
              \/ /\ j <= s.end
                 /\ \A e \in DOMAIN s.answer : yandex_stored'[e] = s.answer[e]
                 /\ Yandex!Between(s.cursor, s.end) \ DOMAIN s.answer \subseteq yandex_gap'
       PROVE  n \in YandexEntries /\ EntrySound(n, c)'
  <2>1. PICK q : q = [from |-> f, to |-> t, cursor |-> j, days |-> dd]
    OBVIOUS
  <2>2. q \in YandexRanges /\ YandexRange(q)'
    <3>1. q = [from |-> r.from, to |-> r.to, cursor |-> j, days |-> r.days]
      BY <1>11, <2>1
    <3> QED  BY <1>2, <1>3, <1>6, <1>9, <1>13, <3>1, YandexRangeGoesOn
  <2>3. n = [m EXCEPT !.range = q]
    <3>1. n = [m EXCEPT !.range = [m.range EXCEPT !.cursor = j]]
      BY <1>13
    <3>2. q = [r EXCEPT !.cursor = j]
      BY <1>10, <2>1
    <3> QED  BY <1>3, <3>1, <3>2
  <2>4. n = [token |-> tk, pending |-> pd, cursor |-> cu, start |-> st, end |-> en,
             range |-> q]
    <3>1. m = [token |-> tk, pending |-> pd, cursor |-> cu, start |-> st, end |-> en,
               range |-> r]
      BY <1>2
    <3> QED  BY <2>3, <3>1
  <2>5. n \in YandexEntries
    BY <1>2, <2>2, <2>4 DEF YandexEntries
  <2>6. /\ YandexCovered(tk, st, en)' /\ pd <= yandex_rev'
        /\ tk = 0 => YandexScan(pd, cu, c)'
    BY <1>2, <1>12 DEF EntrySound
  <2> QED  BY <2>2, <2>4, <2>5, <2>6 DEF EntrySound
<1>14. ASSUME NEW n, n \in YandexEntries, EntrySound(n, c)', yandex_entry' = n
       PROVE  YandexInv'
  <2>1. YandexPass(Yandex!Idle)' /\ YandexOld(Yandex!Idle, n.range)' /\ Yandex!Idle \in YandexPasses
    BY YandexNoQuery
  <2>2. YandexTypes' /\ c = yandex_chain'
    BY <1>1, <1>3, <1>6, <1>9, <1>14, <2>1, YandexStillTypes
  <2> QED  BY <1>6, <1>14, <2>1, <2>2 DEF YandexInv
<1>15. CASE done # DOMAIN s.answer
  <2>1. yandex_entry' = x
    BY <1>7, <1>15
  <2> QED  BY <1>4, <1>5, <1>8, <1>13, <1>14, <2>1
<1>16. CASE done = DOMAIN s.answer /\ ~ s.end >= r.to
  <2>1. yandex_entry' = z
    BY <1>7, <1>16
  <2>2. g < s.end /\ g \in Int /\ s.end \in Int
    <3>1. /\ s.end \in Int /\ g \in Int /\ r.to \in Int
      BY <1>2, <1>8, YandexMoments DEF YandexRanges
    <3>2. s.end < r.to => s.cursor < s.end
      BY <1>3, <1>6 DEF YandexOld
    <3> QED  BY <1>4, <1>16, <3>1, <3>2
  <2>3. h \in Int /\ g <= h /\ h <= s.end
    BY <1>4, <2>2, YandexNext
  <2>4. h \in Yandex!Moments
    BY <1>8, <2>2, <2>3, YandexMoments
  <2>5. /\ \A e \in DOMAIN s.answer : yandex_stored'[e] = s.answer[e]
        /\ Yandex!Between(s.cursor, s.end) \ DOMAIN s.answer \subseteq yandex_gap'
    BY <1>7, <1>9, <1>16
  <2> QED  BY <1>5, <1>13, <1>14, <2>1, <2>3, <2>4, <2>5
<1>17. CASE done = DOMAIN s.answer /\ s.end >= r.to
  <2>1. yandex_entry' = y
    BY <1>7, <1>17
  <2>2. PICK j : j = (IF Yandex!Extends(r) THEN r.from ELSE st)
    OBVIOUS
  <2>3. y = [token |-> tk, pending |-> pd, cursor |-> cu, start |-> j, end |-> en,
             range |-> r]
    <3>1. m = [token |-> tk, pending |-> pd, cursor |-> cu, start |-> st, end |-> en,
               range |-> r]
      BY <1>2
    <3>2. y = [m EXCEPT !.start = j]
      BY <1>5, <2>2, <3>1
    <3> QED  BY <3>1, <3>2
  <2>4. j \in Yandex!Moments
    BY <1>2, <2>2 DEF YandexRanges
  <2>5. y \in YandexEntries
    BY <1>2, <2>3, <2>4 DEF YandexEntries
  <2>6. /\ YandexCovered(tk, st, en)' /\ pd <= yandex_rev' /\ YandexRange(r)'
        /\ tk = 0 => YandexScan(pd, cu, c)'
    BY <1>2, <1>12 DEF EntrySound
  <2>7. YandexCovered(tk, j, en)'
    <3>1. CASE Yandex!Extends(r)
      <4>1. YandexCovered(m.token, m.range.from, m.end)'
        <5>1. /\ \A e \in DOMAIN s.answer : yandex_stored'[e] = s.answer[e]
              /\ Yandex!Between(s.cursor, s.end) \ DOMAIN s.answer \subseteq yandex_gap'
          BY <1>7, <1>9, <1>17
        <5> QED  BY <1>1, <1>3, <1>6, <1>9, <1>17, <3>1, <5>1, YandexCoverageGrows
      <4>2. m.token = tk /\ m.range.from = j /\ m.end = en
        BY <1>2, <2>2, <3>1
      <4> QED  BY <4>1, <4>2
    <3>2. CASE ~ Yandex!Extends(r)
      BY <2>2, <2>6, <3>2
    <3> QED  BY <3>1, <3>2
  <2>8. EntrySound(y, c)'
    BY <2>3, <2>6, <2>7 DEF EntrySound
  <2> QED  BY <1>14, <2>1, <2>5, <2>8
<1> QED  BY <1>15, <1>16, <1>17

LEMMA YandexStep ==
  YandexInv /\ (Yandex!Next \/ (UNCHANGED yandexVars /\ days' \in Spans)) => YandexInv'
BY YandexQuiet, YandexFailed, YandexBegin, YandexRefresh, YandexFetchChanges,
   YandexApplyChanges, YandexTokenIsStale, YandexFetchSlice, YandexApplySlice, YandexEndLive,
   YandexPlanHistory, YandexApplyHistory DEF Yandex!Next

LEMMA YandexInvTypes == YandexInv => Yandex!TypeOK
<1> SUFFICES ASSUME YandexInv PROVE Yandex!TypeOK
  OBVIOUS
<1>1. PICK n : n = yandex_entry
  OBVIOUS
<1>2. n \in YandexEntries /\ EntrySound(n, yandex_chain) /\ YandexTypes
  BY <1>1 DEF YandexInv, YandexTypes
<1>3. /\ n.token \in Nat /\ n.pending \in Nat /\ n.range \in YandexRanges
      /\ {n.cursor, n.start, n.end} \subseteq Yandex!Moments
      /\ n.token <= yandex_rev /\ n.pending <= yandex_rev /\ YandexRange(n.range)
  BY <1>2 DEF YandexEntries, EntrySound, YandexCovered
<1>4. n.token \in 0 .. yandex_rev /\ n.pending \in 0 .. yandex_rev
  BY <1>2, <1>3, YandexNumbers
<1>5. n.range.cursor \in Yandex!Moments /\ (n.range # Yandex!NoRange => n.range.from < n.range.to)
  BY <1>3 DEF YandexRanges, YandexRange
<1>6. yandex_pass.phase \in Yandex!Phases
  BY <1>2, YandexPassParts DEF YandexTypes
<1> QED  BY <1>1, <1>2, <1>3, <1>4, <1>5, <1>6 DEF Yandex!TypeOK, YandexTypes

LEMMA YandexInvStored == YandexInv => Yandex!CoveredIsCurrent
BY DEF YandexInv, EntrySound, YandexCovered, YandexCurrent, Yandex!CoveredIsCurrent

-----------------------------------------------------------------------------
(* All four.                                                               *)

\* The mailbox that does not run stays as it began; of the others nothing is said.
ConnectorsInv ==
  /\ which \in {"gmail", "imap", "google", "yandex"} /\ Inv
  /\ which = "imap" => ImapInv
  /\ which = "google" => GoogleInv
  /\ which = "yandex" => YandexInv

LEMMA ConnectorsInvInit == ConnectorsInit => ConnectorsInv
BY InvInit, ImapInit, GoogleInit, YandexInit DEF ConnectorsInit, ConnectorsInv

LEMMA GmailRests ==
  ASSUME Inv, UNCHANGED gmailVars, days' \in Spans
  PROVE  Inv'
<1>1. UNCHANGED <<today, inbox, stored, scanned, active, token, pass, late>>
  BY DEF gmailVars
<1>2. CASE days' = days
  BY <1>1, <1>2, SurroundingsStep DEF vars
<1>3. CASE days' # days
  BY <1>1, <1>3, SurroundingsStep DEF SetHistoryDays
<1> QED  BY <1>2, <1>3

LEMMA ConnectorsStep ==
  ConnectorsInv /\ [ConnectorsNext]_<<which, vars, imapVars, googleVars, yandexVars>>
    => ConnectorsInv'
<1> SUFFICES ASSUME ConnectorsInv,
                    [ConnectorsNext]_<<which, vars, imapVars, googleVars, yandexVars>>
             PROVE  ConnectorsInv'
  OBVIOUS
<1>1. which' = which /\ which \in {"gmail", "imap", "google", "yandex"} /\ Inv
  BY DEF ConnectorsNext, ConnectorsInv
<1>2. CASE UNCHANGED <<which, vars, imapVars, googleVars, yandexVars>>
  <2>1. UNCHANGED vars /\ UNCHANGED days /\ UNCHANGED imapVars /\ UNCHANGED googleVars
        /\ UNCHANGED yandexVars
    BY <1>2 DEF vars
  <2>2. days' \in Spans
    BY <1>1, <2>1 DEF Inv, TypeOK
  <2>3. Inv'
    BY <1>1, <2>1, SurroundingsStep
  <2>4. which = "imap" => ImapInv'
    BY <2>1, ImapStep DEF ConnectorsInv
  <2>5. which = "google" => GoogleInv'
    BY <2>1, GoogleStep DEF ConnectorsInv
  <2>6. which = "yandex" => YandexInv'
    BY <2>1, <2>2, YandexStep DEF ConnectorsInv
  <2> QED  BY <1>1, <2>3, <2>4, <2>5, <2>6 DEF ConnectorsInv
<1>3. CASE which = "gmail" /\ Next
  <2>1. Inv'
    BY <1>1, <1>3, InvStep
  <2> QED  BY <1>1, <1>3, <2>1 DEF ConnectorsInv
<1>4. CASE which = "imap" /\ Imap!Next /\ UNCHANGED gmailVars
  <2>1. ImapInv'
    BY <1>4, ImapStep DEF ConnectorsInv
  <2>2. days' \in Spans
    BY <2>1 DEF ImapInv, ImapTypes, Imap!TypeOK
  <2> QED  BY <1>1, <1>4, <2>1, <2>2, GmailRests DEF ConnectorsInv
<1>5. CASE which = "google" /\ Google!Next /\ UNCHANGED gmailVars
  <2>1. GoogleInv'
    BY <1>5, GoogleStep DEF ConnectorsInv
  <2>2. days' \in Spans
    BY <2>1 DEF GoogleInv, GoogleTypes
  <2> QED  BY <1>1, <1>5, <2>1, <2>2, GmailRests DEF ConnectorsInv
<1>6. CASE which = "yandex" /\ Yandex!Next /\ UNCHANGED gmailVars
  <2>1. YandexInv'
    BY <1>6, YandexStep DEF ConnectorsInv
  <2>2. days' \in Spans
    BY <2>1 DEF YandexInv, YandexTypes
  <2> QED  BY <1>1, <1>6, <2>1, <2>2, GmailRests DEF ConnectorsInv
<1> QED  BY <1>2, <1>3, <1>4, <1>5, <1>6 DEF ConnectorsNext

LEMMA ConnectorsAlways == ConnectorsSpec => []ConnectorsInv
BY ConnectorsInvInit, ConnectorsStep, PTL DEF ConnectorsSpec

\* Whichever connector runs keeps its types: checkpoints, tokens and cursors stay in
\* range, and what a connector calls scanned or active stays a window.
THEOREM ConnectorsKeepTheirTypes == ConnectorsSpec => []ConnectorsTypeOK
<1>1. ConnectorsInv => ConnectorsTypeOK
  BY GoogleInvTypes, YandexInvTypes
     DEF ConnectorsInv, ConnectorsTypeOK, Inv, ImapInv, ImapTypes
<1> QED  BY <1>1, ConnectorsAlways, PTL

\* With the other connectors beside it, the days a Gmail mailbox counts as scanned have
\* their messages.
THEOREM GmailKeepsItsScan == ConnectorsSpec => []ScannedIsStored
<1>1. ConnectorsInv => ScannedIsStored
  BY DEF ConnectorsInv, Inv
<1> QED  BY <1>1, ConnectorsAlways, PTL

\* A message of a Yandex mailbox that the live search has left behind its checkpoint is
\* stored, or the history has still to come to it, whatever fails, whenever the server
\* renumbers the messages and however the worker's pass and a request's interleave
\* (_run_live_pass, _merge_forward_checkpoint and the history state).
THEOREM MailIsNotLost == ConnectorsSpec => []NothingIsLost
<1>1. ConnectorsInv => NothingIsLost
  BY ImapInvNothingIsLost DEF ConnectorsInv, NothingIsLost
<1> QED  BY <1>1, ConnectorsAlways, PTL

\* The calendars: with Google, what counts as scanned or as listed by a live chain is
\* stored, whatever copy of the state a request writes back while the worker scans
\* (_run_live_pass, _run_history_pass).  With Yandex, what changed up to the sync token
\* is stored in the covered window (_run_bounded_reconciliation, _apply_fetch_batch,
\* complete_active_history_range), but for the two exceptions the property names.
THEOREM CalendarsAreStored == ConnectorsSpec => []EventsAreStored
<1>1. ConnectorsInv => EventsAreStored
  BY GoogleInvStored, YandexInvStored DEF ConnectorsInv, EventsAreStored
<1> QED  BY <1>1, ConnectorsAlways, PTL

=============================================================================
