------------------------------ MODULE TaskMap -------------------------------
(***************************************************************************)
(* The stored layout of the task map next to requests that change tasks    *)
(* and relations, and a client that draws it.                              *)
(* (backend/app/services/task_layout_service.py,                           *)
(* backend/app/domain/task_map_topology.py, and                            *)
(* client/lib/graph/graph_workspace_controller.dart.)                      *)
(*                                                                         *)
(* topology_revision is a counter that is only compared for equality: what *)
(* matters is who holds the current one.  Whatever changes what is on the  *)
(* map takes the layout row's lock, increments the counter and commits, in *)
(* the step in which its request commits.                                  *)
(*                                                                         *)
(* Bound: one client, one version of its algorithm.  Coordinates are left  *)
(* out: a layout is the tasks it places and the relations it was made for. *)
(***************************************************************************)
EXTENDS TaskComposition

VARIABLES
  stored,  \* there is a TaskLayoutState
  current, \* those of "snapshot" and "client" whose revision is topology_revision
  placed,  \* the tasks the snapshot has positions for
  drawn,   \* and the relations it was laid out for
  client,  \* what the client has read
  saw,     \* requests that found a layout row when they looked for it
  missed   \* rows written by a request that did not, after there was one

layout == <<stored, current, placed, drawn>>
mapVars == <<compositionVars, layout, client, saw, missed>>

Resting == [at |-> "rest"]
Relations == Tasks \X Tasks

MapTypeOK ==
  /\ TypeOK
  /\ stored \in BOOLEAN /\ current \subseteq {"snapshot", "client"}
  /\ placed \subseteq Tasks /\ drawn \subseteq Relations
  /\ client \in {Resting, [at |-> "layout"], [at |-> "revision"]} \union
       [at : {"tasks"}, tasks : SUBSET Tasks] \union
       [at : {"edges"}, tasks : SUBSET Tasks, edges : SUBSET Relations]
  /\ saw \subseteq Requests /\ missed \subseteq Edges

MapInit ==
  /\ Init
  /\ stored = FALSE /\ current = {} /\ placed = {} /\ drawn = {}
  /\ client = Resting /\ saw = {} /\ missed = {}

-----------------------------------------------------------------------------
(* What is on the map.                                                     *)

\* _eligible_filters.
Eligible == {t \in Tasks : seen[t] = "active"}

\* Mutant of OnMap: a proposed relation is taken for one on the map.
BugOnMap(state) == state \in {"proposed", "confirmed"}

\* relation_affects_task_map, for part_of between two tasks.
OnMap(state) == state = "confirmed"

\* The edges read_topology selects among the tasks T.
Among(T) == {<<edge[e].child, edge[e].parent>> : e \in {x \in Edges :
  /\ OnMap(edge[x].state) /\ edge[x].child \in T /\ edge[x].parent \in T}}

\* The view's usable.
Usable == "snapshot" \in current /\ Eligible \subseteq placed

-----------------------------------------------------------------------------
(* Requests.                                                               *)

\* Mutant of Affects: a relation that leaves the map is not noticed, nor one that joins
\* it by being confirmed.
BugAffects(plan) == plan.does = "insert" /\ OnMap(plan.state)

\* note_task_map_participation_change: the states before, as the request has read it,
\* and after.
Affects(plan) ==
  \/ plan.does = "insert" /\ OnMap(plan.state)
  \/ plan.does = "decide" /\ OnMap(plan.from) # OnMap(plan.to)

\* Mutant of Bumped: the revision stays.
BugBumped(noticed) == current

\* invalidate_existing_task_layout.
Bumped(noticed) == IF noticed THEN {} ELSE current

\* A request writes, looks for the layout row, and keeps it locked until it commits, so
\* that nothing that reads or writes that row comes between and the new revision can
\* count from the commit; if there is no row it goes on without.
WriteOnMap(r) ==
  /\ Write(r)
  /\ saw' = IF stored THEN saw \union {r} ELSE saw \ {r}
  /\ UNCHANGED <<layout, client, missed>>

CommitOnMap(r) ==
  /\ Commit(r)
  /\ current' = Bumped(Affects(request[r]) /\ r \in saw)
  /\ missed' = {e \in Edges : e \in missed /\ edge'[e] = edge[e]} \union
       {e \in Edges : edge'[e] # edge[e] /\ stored /\ r \notin saw}
  /\ saw' = saw \ {r}
  /\ UNCHANGED <<stored, placed, drawn, client>>

RollBackOnMap(r) ==
  /\ RollBack(r)
  /\ saw' = saw \ {r}
  /\ UNCHANGED <<layout, client, missed>>

CreateOnMap ==
  /\ CreateTask
  /\ current' = Bumped(TRUE)
  /\ UNCHANGED <<stored, placed, drawn, client, saw, missed>>

\* update_object and delete_object do not touch the layout.
RewriteOnMap == Rewrite /\ UNCHANGED <<layout, client, saw, missed>>

-----------------------------------------------------------------------------
(* The client, _resolveUnrootedTaskLayout.                                 *)

\* GET task-layout: read() makes the row.  A usable layout is drawn as it is.
ReadLayout ==
  /\ client = Resting
  /\ stored' = TRUE
  /\ client' = IF Usable THEN Resting ELSE [at |-> "layout"]
  /\ UNCHANGED <<compositionVars, current, placed, drawn, saw, missed>>

\* GET topology: the revision, then the tasks, then the edges among them, each as
\* it is committed when its statement runs.
ReadRevision ==
  /\ client.at = "layout"
  /\ client' = [at |-> "revision"]
  /\ current' = current \union {"client"}
  /\ UNCHANGED <<compositionVars, stored, placed, drawn, saw, missed>>

ReadTasks ==
  /\ client.at = "revision"
  /\ client' = [at |-> "tasks", tasks |-> Eligible]
  /\ UNCHANGED <<compositionVars, layout, saw, missed>>

ReadEdges ==
  /\ client.at = "tasks"
  /\ client' = [at |-> "edges", tasks |-> client.tasks, edges |-> Among(client.tasks)]
  /\ UNCHANGED <<compositionVars, layout, saw, missed>>

\* Mutant of Expected: the expected revision is not compared.
BugExpected == TRUE

\* replace_snapshot's comparison, with the row locked.
Expected == "client" \in current

\* PUT task-layout: a conflict with the revision or with the set of tasks is an error.
Replace ==
  /\ client.at = "edges"
  /\ IF Expected /\ client.tasks = Eligible
     THEN /\ current' = {"snapshot"}
          /\ placed' = client.tasks /\ drawn' = client.edges
     ELSE /\ current' = current \ {"client"}
          /\ UNCHANGED <<placed, drawn>>
  /\ client' = Resting
  /\ UNCHANGED <<compositionVars, stored, saw, missed>>

\* It retries once, so it may end here or read again; its user may leave at any time.
GiveUp ==
  /\ client # Resting
  /\ client' = Resting /\ current' = current \ {"client"}
  /\ UNCHANGED <<compositionVars, stored, placed, drawn, saw, missed>>

MapNext ==
  \/ \E r \in Requests : WriteOnMap(r) \/ CommitOnMap(r) \/ RollBackOnMap(r)
  \/ CreateOnMap \/ RewriteOnMap
  \/ ReadLayout \/ ReadRevision \/ ReadTasks \/ ReadEdges \/ Replace \/ GiveUp

MapSpec == MapInit /\ [][MapNext]_mapVars

-----------------------------------------------------------------------------

\* A layout that is handed out as usable places every task and was made with every
\* confirmed relation between them in view, whatever commits between the statements of
\* the client's reading and its PUT.  The exception are rows of a request that looked for
\* the layout row just before the first client made it.
LayoutIsCurrent == Usable =>
  {<<edge[e].child, edge[e].parent>> : e \in {x \in Edges \ missed :
     /\ OnMap(edge[x].state) /\ {edge[x].child, edge[x].parent} \subseteq Eligible}}
  \subseteq drawn
=============================================================================
