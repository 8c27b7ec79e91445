------------------------- MODULE MCScheduledActivity -------------------------
(* Two threads on a daily or a one-shot reminder: the user creates either,  *)
(* not both.                                                                *)
EXTENDS ScheduledActivity, FiniteSets

CONSTANTS t1, t2, daily, once

Created == {a \in Activities : activity[a].status # "absent"}

OneNext == Next /\ Cardinality(Created') <= 1

OneSpec == Init /\ [][OneNext]_vars /\ Fairness
=============================================================================
