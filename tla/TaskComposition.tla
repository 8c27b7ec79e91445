-------------------------- MODULE TaskComposition ---------------------------
(***************************************************************************)
(* The part_of relation between one user's tasks, and the requests that    *)
(* change it.  (backend/app/services/graph_service.py and                  *)
(* backend/app/domain/task_composition.py.)                                *)
(*                                                                         *)
(* A request reads and validates, writes and commits.  Nothing locks what  *)
(* it has read and no index guards it, so where a request validates one    *)
(* row against others it is two steps here, and another request may commit *)
(* in between.  With one request at a time the two steps are one.          *)
(*                                                                         *)
(* Bound: Edges.  A rejected row that no request refers to is inert and    *)
(* forgotten; that /relations answers with it, instead of inserting        *)
(* another, is one of the requests left out.                               *)
(***************************************************************************)
EXTENDS FiniteSets, Integers

CONSTANTS
  Tasks,   \* objects that are tasks, or will be
  Edges,   \* rows of type part_of: numbers, the free ones are used in order
  Requests, \* transactions at a time
  Modes    \* completion modes: "finite" and, where they matter, "ongoing"

VARIABLES
  seen,    \* seen[t]: "absent", "active", "rejected", "deleted", or "note", of another kind
  mode,    \* mode[t] is its completion mode; a note has none, which is read as finite
  edge,    \* edge[e] is a row's child, parent and state
  request  \* request[r] is what r has validated and will write

tasks == <<seen, mode>>
compositionVars == <<tasks, edge, request>>

States == {"proposed", "confirmed", "rejected"}
NoEdge == [state |-> "none"]
Idle == [does |-> "nothing"]

TypeOK ==
  /\ seen \in [Tasks -> {"absent", "active", "rejected", "note", "deleted"}]
  /\ mode \in [Tasks -> Modes]
  /\ edge \in [Edges -> {NoEdge} \union [child : Tasks, parent : Tasks, state : States]]
  /\ request \in [Requests -> {Idle} \union
       [does : {"insert"}, child : Tasks, parent : Tasks, state : States] \union
       [does : {"decide"}, row : Edges, from : States, to : States \union {"none"}] \union
       [does : {"mode"}, task : Tasks, to : Modes]]

Init ==
  /\ seen = [t \in Tasks |-> "absent"] /\ mode = [t \in Tasks |-> "finite"]
  /\ edge = [e \in Edges |-> NoEdge]
  /\ request = [r \in Requests |-> Idle]

-----------------------------------------------------------------------------
(* What a request reads.                                                   *)

\* _part_of_filter, but for one row.
Occupied(but) == {e \in Edges \ but : edge[e].state \in {"proposed", "confirmed"}}

\* composition_modes_compatible.
Compatible(childMode, parentMode) == childMode = "ongoing" => parentMode = "ongoing"

\* Mutant of HasParent: a proposed edge leaves the slot free.
BugHasParent(child, but) == \E e \in Occupied(but) :
  edge[e].child = child /\ edge[e].state = "confirmed"

\* _other_parent_edge.
HasParent(child, but) == \E e \in Occupied(but) : edge[e].child = child

\* Mutant of CreatesCycle: the parent is looked at, not what it is part of.
BugCreatesCycle(child, parent, but) ==
  \E e \in Occupied(but) : edge[e].child = parent /\ edge[e].parent = child

\* _creates_cycle: the frontier grows from the parent upwards.
CreatesCycle(child, parent, but) ==
  LET reached[n \in 0..Cardinality(Tasks)] ==
        IF n = 0 THEN {parent}
        ELSE reached[n - 1] \union
             {edge[e].parent : e \in {x \in Occupied(but) : edge[x].child \in reached[n - 1]}}
  IN child \in reached[Cardinality(Tasks)]

\* validate_part_of_edge.
Valid(child, parent, but) ==
  /\ child # parent
  /\ seen[child] = "active" /\ seen[parent] = "active"
  /\ Compatible(mode[child], mode[parent])
  /\ ~HasParent(child, but)
  /\ ~CreatesCycle(child, parent, but)

\* Mutant of ModeFits: what is part of the task is not looked at.
BugModeFits(t, m) == \A e \in Occupied({}) :
  edge[e].child = t /\ seen[edge[e].parent] = "active" => Compatible(m, mode[edge[e].parent])

\* validate_completion_mode_change.
ModeFits(t, m) == \A e \in Occupied({}) :
  /\ edge[e].child = t /\ seen[edge[e].parent] = "active" =>
       Compatible(m, mode[edge[e].parent])
  /\ edge[e].parent = t /\ seen[edge[e].child] = "active" =>
       Compatible(mode[edge[e].child], m)

-----------------------------------------------------------------------------
(* Requests that are validated against other rows.                         *)

Begin(r, plan) ==
  /\ request[r] = Idle
  /\ request' = [request EXCEPT ![r] = plan]
  /\ UNCHANGED <<tasks, edge>>

\* create_edge: confirmed by the user, proposed by the assistant or by correlation.
Insert(r) == \E child, parent \in Tasks, s \in {"proposed", "confirmed"} :
  /\ Valid(child, parent, {})
  /\ Begin(r, [does |-> "insert", child |-> child, parent |-> parent, state |-> s])

\* set_edge_state, which lets only proposed edges change.
Confirm(r) == \E e \in Edges :
  /\ edge[e].state = "proposed"
  /\ Valid(edge[e].child, edge[e].parent, {e})
  /\ Begin(r, [does |-> "decide", row |-> e, from |-> "proposed", to |-> "confirmed"])

\* set_edge_state, or reject_confirmed_agent_relation for a confirmed one.
Reject(r) == \E e \in Occupied({}) :
  Begin(r, [does |-> "decide", row |-> e, from |-> edge[e].state, to |-> "rejected"])

\* delete_edge.
Delete(r) == \E e \in Edges :
  /\ edge[e].state \in States
  /\ Begin(r, [does |-> "decide", row |-> e, from |-> edge[e].state, to |-> "none"])

\* update_object with another completion_mode.
SetMode(r) == \E t \in Tasks, m \in Modes :
  /\ seen[t] \in {"active", "rejected"} /\ m # mode[t]
  /\ ModeFits(t, m)
  /\ Begin(r, [does |-> "mode", task |-> t, to |-> m])

Referred(plans) ==
  {plans[r].row : r \in {q \in Requests : plans[q].does = "decide"}}

\* rows without the rejected ones that nobody refers to.
Remembered(rows, plans) == [e \in Edges |->
  IF rows[e].state = "rejected" /\ e \notin Referred(plans) THEN NoEdge ELSE rows[e]]

\* Mutant of Decided: a deleted row is inserted again.
BugDecided(old, plan) ==
  IF plan.to = "none" THEN [old EXCEPT !.state = "confirmed"] ELSE [old EXCEPT !.state = plan.to]

\* An UPDATE of the state, or a DELETE.
Decided(old, plan) == IF plan.to = "none" THEN NoEdge ELSE [old EXCEPT !.state = plan.to]

\* The row a new edge gets.
Free == {e \in Edges \ Referred(request) : edge[e] = NoEdge}

\* The request commits.  An UPDATE of a row that has been deleted meanwhile fails.
Commit(r) ==
  LET plan == request[r] IN
  /\ request' = [request EXCEPT ![r] = Idle]
  /\ \/ /\ plan.does = "insert"
        /\ \E e \in Free :
             /\ \A x \in Free : e <= x
             /\ edge' = [edge EXCEPT ![e] =
                  [child |-> plan.child, parent |-> plan.parent, state |-> plan.state]]
        /\ UNCHANGED tasks
     \/ /\ plan.does = "decide" /\ edge[plan.row] # NoEdge
        /\ edge' = Remembered([edge EXCEPT ![plan.row] = Decided(@, plan)], request')
        /\ UNCHANGED tasks
     \/ /\ plan.does = "mode"
        /\ mode' = [mode EXCEPT ![plan.task] = plan.to]
        /\ UNCHANGED <<seen, edge>>

\* It is rolled back: its connection ends, or there is no row to update.
RollBack(r) ==
  /\ request[r] # Idle
  /\ request' = [request EXCEPT ![r] = Idle]
  /\ edge' = Remembered(edge, request')
  /\ UNCHANGED tasks

-----------------------------------------------------------------------------
(* Requests that write one row and look at no other.                       *)

\* create_object.
CreateTask == \E t \in Tasks, m \in Modes :
  /\ seen[t] = "absent"
  /\ seen' = [seen EXCEPT ![t] = "active"]
  /\ mode' = [mode EXCEPT ![t] = m]
  /\ UNCHANGED <<edge, request>>

\* update_object with state rejected, or with another kind, which clears the mode.
Hide(to) == \E t \in Tasks :
  /\ seen[t] = "active"
  /\ seen' = [seen EXCEPT ![t] = to]
  /\ mode' = IF to = "note" THEN [mode EXCEPT ![t] = "finite"] ELSE mode
  /\ UNCHANGED <<edge, request>>

\* update_object with state confirmed, or with kind task and any mode.
Restore == \E t \in Tasks, m \in Modes :
  /\ seen[t] = "note" \/ (seen[t] = "rejected" /\ m = mode[t])
  /\ seen' = [seen EXCEPT ![t] = "active"]
  /\ mode' = [mode EXCEPT ![t] = m]
  /\ UNCHANGED <<edge, request>>

\* ObjectDeletionService.delete_object: the relations stay.
DeleteTask == \E t \in Tasks :
  /\ seen[t] \in {"active", "rejected", "note"}
  /\ seen' = [seen EXCEPT ![t] = "deleted"]
  /\ UNCHANGED <<mode, edge, request>>

Write(r) == Insert(r) \/ Confirm(r) \/ Reject(r) \/ Delete(r) \/ SetMode(r)
Rewrite == Hide("rejected") \/ Hide("note") \/ Restore \/ DeleteTask

Next ==
  \/ \E r \in Requests : Write(r) \/ Commit(r) \/ RollBack(r)
  \/ CreateTask \/ Rewrite

Spec == Init /\ [][Next]_compositionVars

\* One request at a time.
AllIdle == \A r \in Requests : request[r] = Idle

SerialNext ==
  \/ AllIdle /\ (CreateTask \/ Rewrite \/ \E r \in Requests : Write(r))
  \/ \E r \in Requests : Commit(r) \/ RollBack(r)

-----------------------------------------------------------------------------

Under(child, parent) == \E e \in Occupied({}) :
  edge[e].child = child /\ edge[e].parent = parent

\* The part_of relation is a forest, proposals included: a task has one parent, and
\* among any tasks some are part of none of the others.  (The first lines of
\* task_composition.py.)
Forest ==
  /\ \A x, y \in Occupied({}) : edge[x].child = edge[y].child => x = y
  /\ \A S \in (SUBSET Tasks) \ {{}} : \E t \in S : \A p \in S : ~Under(t, p)

Fits(e) == Compatible(mode[edge[e].child], mode[edge[e].parent])

\* No step makes an ongoing task part of a finite one: no relation, no confirmation and
\* no change of either's mode.  The exception is a task that was rejected or of another
\* kind and comes back, since Restore does not look at what it is part of.
ModesStayFit == \A e \in Occupied({})' :
  LET ends == {edge'[e].child, edge'[e].parent} IN
  /\ \A t \in ends : seen[t] = "active" /\ seen'[t] = "active"
  /\ edge[e] = edge'[e] => Fits(e)
  => Fits(e)'
=============================================================================
