---------------------------- MODULE MCJobQueue ----------------------------
(* Values for the constants of JobQueue.  A behaviour is about some of the  *)
(* jobs, its cast: the kinds that matter to a property, or that share a     *)
(* lane, are tried in every combination and not all at once.                *)
EXTENDS JobQueue

CONSTANTS w1, w2, j1, j2, j3, j4, CastSize

VARIABLE cast \* the jobs that a behaviour is about

\* The general lane: a job without handler, a review and an ordinary job.
MixedKind == [j \in Jobs |-> CASE j = j1 -> "ordinary"
                               [] j = j2 -> "unknown"
                               [] OTHER  -> "proactive"]
OrdinaryKind == [j \in Jobs |-> "ordinary"]

\* A source of each kind.
SourceKind == [j \in Jobs |-> CASE j = j1 -> "teams"
                                [] j = j2 -> "tiered"
                                [] j = j3 -> "flood"
                                [] OTHER  -> "plain"]

\* One lane for all jobs.
SharedLaneOf == [j \in Jobs |-> "shared"]
SharedPolls  == [w \in Workers |-> "shared"]

CastInit == Init /\ cast \in {js \in SUBSET Jobs : Cardinality(js) = CastSize}

CastNext ==
  /\ UNCHANGED cast
  /\ Next
  /\ \A j \in Jobs \ cast : job'[j] = NoRow
  /\ \A l \in looks' : l.id \in cast

CastSpec == CastInit /\ [][CastNext]_<<cast, vars>>
CastFairSpec == CastSpec /\ Fairness
===========================================================================
