----------------------------- MODULE MCUserData -----------------------------
(***************************************************************************)
(* What is written about one user: reviews next to a change of the         *)
(* settings, people who are merged, the assistant's conversations, labels, *)
(* the tasks and their map.                                                *)
(* They share no state but the user's row lock, so each behaviour follows  *)
(* one of them; the state spaces add up instead of multiplying.            *)
(***************************************************************************)
EXTENDS ProactiveReview, TLC

CONSTANTS
  None,
  People, Keys, Roles, TaskRoles, Proposed, Slot, MaxRoles, MaxAsked, \* see PersonMerge
  Chats, Requests, Finishes,                                \* see Conversations
  Labels, Rows, Pipelines, Workers, MaxPending,             \* see AutoLabel
  Tasks, Edges, Writers, Modes                              \* see TaskMap

ASSUME DataAssumption ==
  /\ IsFiniteSet(People) /\ IsFiniteSet(Rows) /\ IsFiniteSet(Tasks)
  /\ None \notin People \union Chats \union Requests \union Finishes
  /\ MaxPending \in Nat
  /\ "finite" \in Modes

VARIABLES
  which, \* the part that is followed
  people_hidden, people_holder, people_confirmed, people_has, people_audit, people_mine,
  people_asked, people_said, people_stray,
  conv_created, conv_current, conv_turn, conv_request, conv_plan, conv_finish,
  conv_ending, conv_seen, conv_heard, conv_away,
  label_text, label_word, label_bearing, label_refused, label_enabled, label_job,
  label_look, label_worker,
  task_seen, task_mode, task_edge, task_request,
  map_stored, map_current, map_placed, map_drawn, map_client, map_saw, map_missed

Merging == INSTANCE PersonMerge WITH
  Persons <- People, Nobody <- None,
  hidden <- people_hidden, holder <- people_holder, confirmed <- people_confirmed,
  has <- people_has, audit <- people_audit, asked <- people_asked, mine <- people_mine,
  said <- people_said, stray <- people_stray

Assistant == INSTANCE Conversations WITH
  created <- conv_created, current <- conv_current, turn <- conv_turn,
  request <- conv_request, plan <- conv_plan, finish <- conv_finish,
  ending <- conv_ending, seen <- conv_seen, heard <- conv_heard, away <- conv_away

AutoLabels == INSTANCE AutoLabel WITH
  text <- label_text, word <- label_word, bearing <- label_bearing,
  refused <- label_refused, enabled <- label_enabled, job <- label_job,
  look <- label_look, worker <- label_worker

Map == INSTANCE TaskMap WITH
  Requests <- Writers,
  seen <- task_seen, mode <- task_mode, edge <- task_edge, request <- task_request,
  stored <- map_stored, current <- map_current, placed <- map_placed,
  drawn <- map_drawn, client <- map_client, saw <- map_saw, missed <- map_missed

peopleVars == <<people_hidden, people_holder, people_confirmed, people_has, people_audit,
                people_asked, people_mine, people_said, people_stray>>
convVars == <<conv_created, conv_current, conv_turn, conv_request, conv_plan,
              conv_finish, conv_ending, conv_seen, conv_heard, conv_away>>
labelVars == <<label_text, label_word, label_bearing, label_refused, label_enabled,
               label_job, label_look, label_worker>>
taskVars == <<task_seen, task_mode, task_edge, task_request>>
mapVars == <<map_stored, map_current, map_placed, map_drawn, map_client, map_saw,
             map_missed>>

OfPeople == {"nested", "many", "late"}

\* A component that is not followed has no state.
NoPeople ==
  /\ people_hidden = None /\ people_holder = None /\ people_confirmed = None
  /\ people_has = None /\ people_audit = None /\ people_mine = None
  /\ people_asked = None /\ people_said = None /\ people_stray = None
NoAssistant ==
  /\ conv_created = None /\ conv_current = None /\ conv_turn = None
  /\ conv_request = None /\ conv_plan = None /\ conv_finish = None
  /\ conv_ending = None /\ conv_seen = None /\ conv_heard = None
  /\ conv_away = None
NoLabels ==
  /\ label_text = None /\ label_word = None /\ label_bearing = None
  /\ label_refused = None /\ label_enabled = None /\ label_job = None
  /\ label_look = None /\ label_worker = None
NoTasks ==
  /\ task_seen = None /\ task_mode = None /\ task_edge = None /\ task_request = None
NoMap ==
  /\ map_stored = None /\ map_current = None /\ map_placed = None
  /\ map_drawn = None /\ map_client = None /\ map_saw = None /\ map_missed = None

DataInit ==
  /\ which \in {"review", "nested", "many", "late", "assistant", "labels", "tasks", "map"}
  /\ Init
  /\ IF which \in OfPeople THEN Merging!Init ELSE NoPeople
  /\ IF which = "assistant" THEN Assistant!Init ELSE NoAssistant
  /\ IF which = "labels" THEN AutoLabels!Init ELSE NoLabels
  /\ CASE which = "tasks" -> Map!Init /\ NoMap
       [] which = "map" -> Map!MapInit
       [] OTHER -> NoTasks /\ NoMap

\* Bounds of three behaviours of people: merges into people who are merged themselves,
\* with one identity and with task roles; two people with more to merge, and too many roles
\* to keep them all; requests that overlap, about one identity of two people.
OneAsks == Cardinality(people_asked) <= 1
NobodyIsAny == \A p \in People : people_has[p] = {}
OneIdentity ==
  /\ \A k \in Keys \ {CHOOSE one \in Keys : TRUE} :
       /\ people_holder[k] = None
       /\ \A p \in People : people_confirmed[p][k] = "none"
       /\ \A r \in people_asked : r.key # k
TwoMatter ==
  /\ \E p \in People :
       /\ p \notin people_hidden /\ people_hidden \union {p} # People
       /\ ~ people_audit[p].active
       /\ p \notin {people_holder[k] : k \in Keys} /\ people_has[p] = {}
       /\ \A k \in Keys : people_confirmed[p][k] = "none"
       /\ \A d \in People : people_audit[d].active => people_audit[d].survivor # p
       /\ \A r \in people_asked : r.who # p
Nested ==
  /\ OneIdentity /\ OneAsks
  /\ \A p \in People : people_has[p] \subseteq TaskRoles
  /\ people_asked # {} => NobodyIsAny
Many ==
  /\ TwoMatter /\ OneAsks
  /\ \A p \in People : people_has[p] \subseteq Roles
Late == OneIdentity /\ TwoMatter /\ NobodyIsAny

\* Two of reviews: one object at a time has its notification and its cooldown end apart; and
\* more than one thing is said of an object when it is the only one in play and no pass is
\* under way.
OneEndsApart ==
  Cardinality({o \in Sources : (unresolved[o] = 0) # (recent[o] = NothingSaid)}) <= 1
OnlyOneInPlay(o) ==
  /\ sync = NoSync
  /\ \A p \in Sources \ {o} : recent[p] = NothingSaid /\ unresolved[p] = 0
  /\ \A t \in Threads :
       thread[t].phase \in {"decided", "holding"} => thread[t].about \in {o, Nobody}
OneHasMore ==
  \A o \in Sources :
    (\E i \in Insights \ {CHOOSE one \in Insights : TRUE} : recent[o][i] > 0) =>
      OnlyOneInPlay(o)

\* And two of tasks: requests one at a time, until nothing is left to look at; requests
\* that overlap, next to a client that draws two tasks and a relation.
SomeAreLeft == \E t \in Tasks : task_seen[t] # "deleted"
OneRelation ==
  /\ \A e \in Edges \ {1} : task_edge[e] = [state |-> "none"]
  /\ \E t \in Tasks : task_seen[t] = "absent"
  /\ \A t \in Tasks : task_seen[t] \notin {"note", "deleted"} /\ task_mode[t] = "finite"
  /\ \A w \in Writers : task_request[w].does # "mode"
  /\ (\E u \in Tasks : task_seen[u] = "rejected") =>
       \E w \in Writers : task_request[w].does = "nothing"

DataNext ==
  /\ UNCHANGED which
  /\ \/ /\ which = "review" /\ Next /\ OneEndsApart' /\ OneHasMore'
        /\ UNCHANGED <<peopleVars, convVars, labelVars, taskVars, mapVars>>
     \/ /\ which \in OfPeople /\ Merging!Next
        /\ CASE which = "nested" -> Nested'
             [] which = "many" -> Many'
             [] OTHER -> Late'
        /\ UNCHANGED <<vars, convVars, labelVars, taskVars, mapVars>>
     \/ /\ which = "assistant" /\ Assistant!Next
        /\ UNCHANGED <<vars, peopleVars, labelVars, taskVars, mapVars>>
     \/ /\ which = "labels" /\ AutoLabels!Next
        /\ UNCHANGED <<vars, peopleVars, convVars, taskVars, mapVars>>
     \/ /\ which = "tasks" /\ Map!SerialNext /\ SomeAreLeft'
        /\ UNCHANGED <<vars, peopleVars, convVars, labelVars, mapVars>>
     \/ /\ which = "map" /\ Map!MapNext /\ OneRelation'
        /\ UNCHANGED <<vars, peopleVars, convVars, labelVars>>

dataVars == <<which, vars, peopleVars, convVars, labelVars, taskVars, mapVars>>

DataSpec == DataInit /\ [][DataNext]_dataVars

\* The parts share their names, or there would be too many permutations of them.
OneSlot == [f \in TaskRoles |-> 1]
Symmetry == Permutations(Sources) \union Permutations(Slots) \union Permutations(Threads)

-----------------------------------------------------------------------------

\* Every component keeps its types.
DataTypeOK ==
  /\ which = "review" => TypeOK
  /\ which \in OfPeople => Merging!TypeOK
  /\ which = "assistant" => Assistant!TypeOK
  /\ which = "labels" => AutoLabels!TypeOK
  /\ which = "tasks" => Map!TypeOK
  /\ which = "map" => Map!MapTypeOK

\* Reviews that overlap or are repeated leave no two unresolved notifications of one object,
\* repeat nothing in its cooldown, and exceed the cap by those in flight at most; auto
\* labels keep the user's limit of waiting jobs and put no question to the model twice.
BackgroundWorkIsBounded ==
  /\ which = "review" => NoRepeat /\ AttentionNearCap
  /\ which = "labels" => AutoLabels!QueueIsBounded

\* However merges are nested and undone, an identity is with the person the user gave
\* it or with whom that person has become, and nothing the user said is lost or stays
\* behind; a label the user took away is not put back by the model.
UserHasTheLastWord ==
  /\ which \in OfPeople =>
       Merging!IdentitiesFollowMerges /\ Merging!FactsAreAccounted
  /\ which = "labels" => AutoLabels!RefusedStaysRefused

\* Clients and the transcript do not contradict each other, and no undecided plan is
\* left behind in another conversation.
ConversationsAreSound ==
  which = "assistant" => Assistant!TranscriptIsSound /\ Assistant!NothingWaitsElsewhere

\* What a model answers about a state the user has left is dropped: no review notifies
\* after the user opted out, no label is added for a former text, former labels or a
\* user who has switched auto labels off.
StaleAnswersAreDropped ==
  /\ NothingAfterOptOut
  /\ [][which = "labels" => AutoLabels!AgentLabelsAreCurrent]_labelVars

\* The part_of relation of tasks is a forest that fits their completion modes, after any
\* requests that come one after another; a task map handed out as usable was drawn from
\* every confirmed relation, whichever requests overlap.
TasksStayInOrder ==
  /\ [](which = "tasks" => Map!Forest)
  /\ [][which = "tasks" => Map!ModesStayFit]_taskVars
  /\ [](which = "map" => Map!LayoutIsCurrent)
=============================================================================
