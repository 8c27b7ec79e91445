-------------------------- MODULE MCQueueProgress ---------------------------
(***************************************************************************)
(* Two instances of the job queue, of which a behaviour runs one: a Teams  *)
(* account and its user's requests, and two accounts of one source type    *)
(* that share its lane and that nobody triggers.  The other instance keeps *)
(* its initial state.                                                      *)
(***************************************************************************)
EXTENDS JobQueue

CONSTANTS w, j1, j2

VARIABLES
  which, \* the instance that runs
  lane_job, lane_ready, lane_disabled, lane_offline, lane_looks, lane_worker,
  lane_effects, lane_dropped, lane_spent, lane_budgetHeld

\* The values of JobQueue's constants, for the Teams account.
TeamsKind == [j \in Jobs |-> "teams"]
SharedLaneOf == [j \in Jobs |-> "shared"]
SharedPolls == [x \in Workers |-> "shared"]

Lane == INSTANCE JobQueue WITH
  Jobs <- {j1, j2}, Workers <- {w}, Lanes <- {"shared"},
  Kind <- [j \in {j1, j2} |-> "flood"], LaneOf <- [j \in {j1, j2} |-> "shared"],
  Polls <- [x \in {w} |-> "shared"], MaxAttempts <- 2, TransientTiers <- 2,
  MaxRequests <- 0,
  job <- lane_job, ready <- lane_ready, disabled <- lane_disabled,
  offline <- lane_offline, looks <- lane_looks, worker <- lane_worker,
  effects <- lane_effects, dropped <- lane_dropped, spent <- lane_spent,
  budgetHeld <- lane_budgetHeld

laneVars == <<lane_job, lane_ready, lane_disabled, lane_offline, lane_looks,
              lane_worker, lane_effects, lane_dropped, lane_spent, lane_budgetHeld>>
progressVars == <<which, vars, laneVars>>

ProgressInit == which \in {"lane", "teams"} /\ Lane!Init /\ Init

ProgressNext ==
  /\ UNCHANGED which
  /\ \/ which = "lane" /\ Lane!Next /\ UNCHANGED vars
     \/ which = "teams" /\ Next /\ UNCHANGED laneVars

\* The fairness of JobQueue, for the instance that runs.
LaneFairness ==
  /\ \A j \in {j1, j2} :
       /\ WF_laneVars(which = "lane" /\ Lane!BecomeDue(j))
       /\ WF_laneVars(which = "lane" /\ Lane!LeaseExpires(j))
       /\ WF_laneVars(which = "lane" /\ Lane!EnsureRecurring(j))
       /\ SF_laneVars(which = "lane" /\ Lane!RetireUnexpected(j))
       /\ WF_laneVars(which = "lane" /\ Lane!RearmFailed(j))
       /\ WF_laneVars(which = "lane" /\ Lane!Lands(j, "pass"))
       /\ WF_laneVars(which = "lane" /\ Lane!Lands(j, "request"))
  /\ WF_laneVars(which = "lane" /\ Lane!WorkerStep(w))
TeamsFairness ==
  /\ WF_vars(which = "teams" /\ BecomeDue(j1))
  /\ WF_vars(which = "teams" /\ LeaseExpires(j1))
  /\ WF_vars(which = "teams" /\ EnsureRecurring(j1))
  /\ SF_vars(which = "teams" /\ RetireUnexpected(j1))
  /\ WF_vars(which = "teams" /\ RearmFailed(j1))
  /\ WF_vars(which = "teams" /\ Lands(j1, "pass"))
  /\ WF_vars(which = "teams" /\ Lands(j1, "request"))
  /\ WF_vars(which = "teams" /\ WorkerStep(w))

ProgressSpec ==
  ProgressInit /\ [][ProgressNext]_progressVars /\ LaneFairness /\ TeamsFairness

-----------------------------------------------------------------------------

\* A connected, enabled source is picked up again and again, whatever fails and
\* whoever shares its lane.
SourcesKeepRunning ==
  /\ which = "lane" => Lane!SourceKeepsRunning
  /\ which = "teams" => SourceKeepsRunning

\* A source switched off or signed out stops for good, even when a thread was in the
\* middle of it.  (Telegram, the other instance, has neither switch nor sign-out.)
UnexpectedAreRetired == which = "teams" => UnexpectedIsRetired
=============================================================================
