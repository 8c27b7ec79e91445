--------------------------- MODULE HistoryWindow ----------------------------
(***************************************************************************)
(* The windows of days the mail and calendar connectors scan for history   *)
(* (backend/app/connectors/google/gmail_history_state.py and its           *)
(* siblings).  A window is the set of its days; no window is {}.           *)
(***************************************************************************)
EXTENDS Pages, FiniteSetsExt

CONSTANTS
  Spans,     \* the values the user's history_days may take
  Limit,     \* items of a page
  LastDay,   \* bounds: the day time stops
  MaxItems   \*         items a provider ever holds

ASSUME HistoryAssumption ==
  /\ Spans \subseteq Nat \ {0} /\ Spans # {} /\ IsFiniteSet(Spans)
  /\ Limit \in Nat \ {0} /\ LastDay \in Nat /\ MaxItems \in Nat

Days == (0 - Max(Spans)) .. LastDay

\* What the user's history_days asks for.
Desired(today, days) == (today - days) .. today

\* The next window to scan, {} when there is none: first what is older than all
\* that was scanned, then what is newer.
Planned(scanned, desired) ==
  LET older == Min(desired) .. (Min(scanned) - 1)
      newer == (Max(scanned) + 1) .. Max(desired)
  IN CASE scanned = {} -> desired
       [] scanned # {} /\ older # {} -> older
       [] OTHER -> newer

Touch(scanned, active) ==
  Max(scanned) + 1 = Min(active) \/ Max(active) + 1 = Min(scanned)

\* What counts as scanned when a window has been: one window again, so a part that
\* does not touch the rest leaves "apart".
Extended(scanned, active, apart) ==
  IF scanned = {} THEN active
  ELSE IF Touch(scanned, active) THEN scanned \union active
  ELSE apart
=============================================================================
