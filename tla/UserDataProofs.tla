--------------------------- MODULE UserDataProofs ---------------------------
(***************************************************************************)
(* Proofs about what is written for one user (MCUserData).  DataInv has    *)
(* one conjunct for each part that can be followed:                        *)
(*   - PeopleInv: everybody a person has been merged into, one after the   *)
(*     other, is a line; an identity is with the last of the line of whom  *)
(*     the user gave it to, and what a standing merge can take back is     *)
(*     with its survivor;                                                  *)
(*   - ConvInv: what is told, decided or stored came from a request that   *)
(*     is over;                                                            *)
(*   - LabelInv: what a pipeline has looked up holds until it inserts, and *)
(*     whoever asks the model does so about a row of his own;              *)
(*   - TasksInv, MapInv: what a request has validated holds until it       *)
(*     writes; a layout that counts as current knows every relation        *)
(*     written since it was read;                                          *)
(*   - ReviewInv: the settings row is held alone, rows that matter have    *)
(*     their places by created_at, and unresolved notifications together   *)
(*     with the threads that may still notify keep the cap.                *)
(***************************************************************************)
EXTENDS MCUserData, PagesProofs

-----------------------------------------------------------------------------
(* People: the inductive invariant.                                        *)

\* above[p]: everybody p has been merged into, one after the other; root[p]: the last.
IsFamily(above, root) ==
  /\ above \in [People -> SUBSET People]
  /\ root \in [People -> People]
  /\ \A p \in People :
       /\ p \notin above[p]
       /\ people_audit[p].active =>
            above[p] = {people_audit[p].survivor} \union above[people_audit[p].survivor]
       /\ ~ people_audit[p].active => above[p] = {}
       /\ root[p] \in {p} \union above[p]
       /\ ~ people_audit[root[p]].active
       /\ \A q \in above[p] :
            /\ root[q] = root[p] /\ above[q] \subseteq above[p]
            /\ \A r \in above[p] : q = r \/ q \in above[r] \/ r \in above[q]

\* The identities the user gave to d or to somebody who is part of d, but for those that
\* a late request gave.
Brought(above, d) ==
  {k \in Keys : people_mine[k] # None /\ k \notin people_stray
                /\ (people_mine[k] = d \/ d \in above[people_mine[k]])}

Standing(d) == people_audit[d].active /\ people_audit[d].intact

\* An identity is with the last of the line, or where a late request put it; a merge that
\* can be undone moved all that its duplicate had brought, and the survivor still has it.
HoldersFollow(above, root) ==
  /\ \A k \in Keys :
       people_holder[k] = IF people_mine[k] = None THEN None
                          ELSE IF k \in people_stray THEN people_mine[k]
                          ELSE root[people_mine[k]]
  /\ \A d \in People : Standing(d) => people_audit[d].keys = Brought(above, d)

MergedAreHidden == \A d \in People : people_audit[d].active => d \in people_hidden

\* What a late request gave is with somebody merged away.
StrayAreAway ==
  \A k \in people_stray : people_mine[k] \in People /\ people_audit[people_mine[k]].active

LinksAreHeld ==
  \A p \in People, k \in Keys : people_confirmed[p][k] = "linked" => people_holder[k] = p

\* What can be taken back is with the survivor, who did not get it from the user.
StandingIsThere ==
  \A d \in People : Standing(d) =>
    /\ \A k \in people_audit[d].keys : people_holder[k] = people_audit[d].survivor
    /\ people_audit[d].facts \subseteq
         people_has[people_audit[d].survivor] \ people_said[people_audit[d].survivor]

\* No two merges give a survivor the same.
StandingAreApart ==
  \A d, e \in People :
    d # e /\ Standing(d) /\ Standing(e)
      /\ people_audit[d].survivor = people_audit[e].survivor
    => /\ people_audit[d].keys \intersect people_audit[e].keys = {}
       /\ people_audit[d].facts \intersect people_audit[e].facts = {}

PeopleInv ==
  /\ Merging!TypeOK
  /\ MergedAreHidden /\ StrayAreAway
  /\ LinksAreHeld /\ StandingIsThere /\ StandingAreApart
  /\ Merging!FactsAreAccounted
  /\ \E above \in [People -> SUBSET People] : \E root \in [People -> People] :
       IsFamily(above, root) /\ HoldersFollow(above, root)

-----------------------------------------------------------------------------
(* Conversations.                                                          *)

Over(r) == conv_request[r].phase = "over"

TurnsAreOver == \A c \in Chats : conv_turn[c] # None => Over(conv_turn[c])

\* What is told, decided or stored came from a request that is over.
RequestsInOrder ==
  \A r \in Requests :
    /\ conv_seen[r] # None => Over(r) /\ Over(conv_seen[r])
    /\ conv_request[r].phase \in {"asked", "answered"} => ~ conv_request[r].late
    /\ conv_plan[r] \in {"executed", "failed", "rejected"} => Over(r)

FinishesInOrder ==
  \A f \in Finishes :
    /\ conv_finish[f] # Assistant!Idle => conv_plan[conv_finish[f].plan] = "executed"
    /\ conv_heard[f] # None => conv_finish[f].phase = "over"

ConvInv ==
  /\ Assistant!TypeOK
  /\ TurnsAreOver /\ RequestsInOrder /\ FinishesInOrder
  /\ Assistant!TranscriptIsSound
  /\ Assistant!NothingWaitsElsewhere

-----------------------------------------------------------------------------
(* Labels.                                                                 *)

Asking(w) == label_worker[w] # AutoLabels!Idle
Looking(p) == label_look[p] # AutoLabels!Idle

\* Whoever asks the model does so about a row of his own that is running.
AskersRun == \A w \in Workers : Asking(w) => label_job[label_worker[w].row].status = "running"
AskersApart ==
  \A v, w \in Workers :
    Asking(v) /\ Asking(w) /\ label_worker[v].row = label_worker[w].row => v = w

\* No row for sig is or was run to its end.
FreeOf(rows, sig) ==
  \A i \in Rows :
    rows[i] # AutoLabels!NoRow /\ rows[i].for = sig => rows[i].status = "failed"
HasRoom(rows) == Cardinality(AutoLabels!Waiting(rows)) < MaxPending

\* What a pipeline has looked up holds until it inserts.
OneLooks == \A p, q \in Pipelines : Looking(p) /\ Looking(q) => p = q
LooksHold ==
  \A p \in Pipelines :
    Looking(p) => HasRoom(label_job) /\ FreeOf(label_job, label_look[p].for)

LabelInv ==
  /\ AutoLabels!TypeOK
  /\ AskersRun /\ AskersApart /\ OneLooks /\ LooksHold
  /\ AutoLabels!QueueIsBounded
  /\ AutoLabels!RefusedStaysRefused

-----------------------------------------------------------------------------
(* Tasks, requests one at a time.                                          *)

Busy(w) == task_request[w] # Map!Idle

\* Going up from the parent, one does not come to the child.
Acyclic(child, parent, but) ==
  \E R \in SUBSET Tasks :
    /\ parent \in R /\ child \notin R
    /\ \A e \in Map!Occupied(but) : task_edge[e].child \in R => task_edge[e].parent \in R

Insertable(child, parent, but) ==
  /\ Map!Compatible(task_mode[child], task_mode[parent])
  /\ ~ Map!HasParent(child, but)
  /\ Acyclic(child, parent, but)

\* What has been validated holds until it is written.
StillValid(w) ==
  LET plan == task_request[w] IN
  /\ plan.does = "insert" =>
       plan.state # "rejected" /\ Insertable(plan.child, plan.parent, {})
  /\ plan.does = "decide" =>
       /\ task_edge[plan.row].state = plan.from /\ plan.from \in Map!States
       /\ plan.to # "proposed"
       /\ plan.to = "confirmed" =>
            /\ plan.from = "proposed"
            /\ Insertable(task_edge[plan.row].child, task_edge[plan.row].parent, {plan.row})
  /\ plan.does = "mode" => Map!ModeFits(plan.task, plan.to)

TasksInv ==
  /\ Map!TypeOK
  /\ \A v, w \in Writers : Busy(v) /\ Busy(w) => v = w
  /\ \A w \in Writers : StillValid(w)
  /\ Map!Forest

-----------------------------------------------------------------------------
(* The map.                                                                *)

\* The relations on the map among the tasks T, but for those written unnoticed.
InView(T) ==
  {<<task_edge[e].child, task_edge[e].parent>> : e \in {x \in Edges \ map_missed :
     /\ Map!OnMap(task_edge[x].state)
     /\ {task_edge[x].child, task_edge[x].parent} \subseteq T}}

MapInv ==
  /\ Map!MapTypeOK
  /\ ~ map_stored => map_current = {} /\ map_client = [at |-> "rest"]
  /\ \A w \in Writers :
       task_request[w].does = "decide" =>
         /\ task_request[w].to # "proposed"
         /\ task_request[w].to = "confirmed" => task_request[w].from = "proposed"
  /\ "snapshot" \in map_current => InView(map_placed) \subseteq map_drawn
  /\ "client" \in map_current /\ map_client.at = "edges" =>
       InView(map_client.tasks) \subseteq map_client.edges
  /\ Map!LayoutIsCurrent

-----------------------------------------------------------------------------
(* Reviews.                                                                *)

\* A review that holds the settings row holds it alone, and the opt-in is what it read.
HoldersAreAlone ==
  /\ \A t \in Threads :
       thread[t].phase = "holding" => sync = NoSync /\ thread[t].enabled = enabled
  /\ \A t, u \in Threads : thread[t].phase = "holding" /\ thread[u].phase = "holding" => t = u

\* A pass adds and rearms for a user who is opted in, and retires what it has seen undone.
PassFollowsOptIn ==
  sync # NoSync =>
    /\ sync.plan.retire \intersect sync.plan.rearm = {}
    /\ sync.plan.add \/ sync.plan.rearm # {} => sync.enabled
    /\ \A s \in sync.plan.retire : sync.seen[s].status # "done"

\* The rows somebody refers to, or that are not done, have their places by created_at.
IsIn(line, s) == \E i \in 1 .. Len(line) : line[i] = s
RowsAreInLine == \A s \in Kept(job, thread, sync) : IsIn(order, s)

\* Threads that may still notify.
Likely(held) == {t \in Threads : \/ held[t].phase = "gated"
                                 \/ /\ held[t].phase \in {"decided", "holding"}
                                    /\ held[t].about # Nobody}

\* What is unresolved, and what may come.
WithinCap ==
  Unresolved + Cardinality(Likely(thread)) <= MaxUnresolved - 1 + Cardinality(Threads)

ReviewInv ==
  /\ TypeOK
  /\ HoldersAreAlone /\ PassFollowsOptIn /\ RowsAreInLine
  /\ NoRepeat
  /\ WithinCap

DataInv ==
  /\ which \in {"review", "nested", "many", "late", "assistant", "labels", "tasks", "map"}
  /\ which = "review" => ReviewInv
  /\ which \in OfPeople => PeopleInv
  /\ which = "assistant" => ConvInv
  /\ which = "labels" => LabelInv
  /\ which = "tasks" => TasksInv
  /\ which = "map" => MapInv

-----------------------------------------------------------------------------
(* People: audits that stand, and what other requests do to them.          *)

LEMMA AuditInSet ==
  ASSUME Merging!TypeOK, NEW d \in People, people_audit[d].active
  PROVE  people_audit[d] \in Merging!Audit
<1>1. people_audit[d] \in Merging!Audit \union {Merging!NoAudit}
  BY DEF Merging!TypeOK
<1>2. people_audit[d] # Merging!NoAudit
  BY DEF Merging!NoAudit
<1> QED  BY <1>1, <1>2

LEMMA AuditTypes ==
  ASSUME Merging!TypeOK, NEW d \in People, people_audit[d].active
  PROVE  /\ people_audit[d].survivor \in People
         /\ people_audit[d].intact \in BOOLEAN
         /\ people_audit[d].keys \subseteq Keys
         /\ people_audit[d].facts \subseteq Roles \union TaskRoles
<1>1. people_audit[d] \in Merging!Audit
  BY AuditInSet
<1> QED  BY <1>1 DEF Merging!Audit, Merging!Facts

\* The merges that stand are the same; some may have been spoilt.
KeepsMerges(new) ==
  \A d \in People :
    /\ new[d].active <=> people_audit[d].active
    /\ people_audit[d].active =>
         /\ new[d].survivor = people_audit[d].survivor
         /\ new[d].keys = people_audit[d].keys
         /\ new[d].facts = people_audit[d].facts
         /\ new[d].intact => people_audit[d].intact
SameMerges == KeepsMerges(people_audit')

\* And those into p of which some of the keys or facts have gone.
Spoils(new, p, keys, facts) ==
  \A d \in People :
    people_audit[d].active /\ people_audit[d].survivor = p /\ new[d].intact =>
      /\ people_audit[d].keys \intersect keys = {}
      /\ people_audit[d].facts \intersect facts = {}
SpoiltBy(p, keys, facts) == Spoils(people_audit', p, keys, facts)

AuditsTyped(audits) == audits \in [People -> Merging!Audit \union {Merging!NoAudit}]

LEMMA DisturbedKeeps ==
  ASSUME Merging!TypeOK, NEW p \in People, NEW keys, NEW links, NEW facts,
         NEW new, new = Merging!Disturbed(p, keys, links, facts)
  PROVE  KeepsMerges(new) /\ Spoils(new, p, keys, facts) /\ AuditsTyped(new)
<1> DEFINE New(d) == new[d]
<1>1. /\ new = [d \in People |-> New(d)]
      /\ \A d \in People : New(d) =
           IF people_audit[d].active /\ people_audit[d].survivor = p
           THEN [people_audit[d] EXCEPT
                   !.intact = /\ people_audit[d].intact
                              /\ people_audit[d].keys \intersect keys = {}
                              /\ people_audit[d].copied \intersect links = {}
                              /\ people_audit[d].facts \intersect facts = {},
                   !.earlier = @ \ links]
           ELSE people_audit[d]
  BY DEF Merging!Disturbed
<1> HIDE DEF New
<1>2. ASSUME NEW d \in People
      PROVE  /\ New(d) \in Merging!Audit \union {Merging!NoAudit}
             /\ New(d).active <=> people_audit[d].active
             /\ people_audit[d].active =>
                  /\ New(d).survivor = people_audit[d].survivor
                  /\ New(d).keys = people_audit[d].keys
                  /\ New(d).facts = people_audit[d].facts
                  /\ New(d).intact => people_audit[d].intact
             /\ New(d).intact /\ people_audit[d].active /\ people_audit[d].survivor = p =>
                  /\ people_audit[d].keys \intersect keys = {}
                  /\ people_audit[d].facts \intersect facts = {}
  <2>1. CASE ~ (people_audit[d].active /\ people_audit[d].survivor = p)
    <3>1. New(d) = people_audit[d]
      BY <1>1, <2>1
    <3>2. people_audit[d] \in Merging!Audit \union {Merging!NoAudit}
      BY DEF Merging!TypeOK
    <3> QED  BY <2>1, <3>1, <3>2
  <2>2. CASE people_audit[d].active /\ people_audit[d].survivor = p
    <3>1. PICK r \in Merging!Audit : r = people_audit[d]
      BY <2>2, AuditInSet
    <3>2. PICK fine \in BOOLEAN :
            fine <=> /\ r.intact /\ r.keys \intersect keys = {}
                     /\ r.copied \intersect links = {}
                     /\ r.facts \intersect facts = {}
      OBVIOUS
    <3>3. PICK early \in SUBSET Keys : early = r.earlier \ links
      BY DEF Merging!Audit
    <3>4. New(d) = [r EXCEPT !.intact = /\ r.intact /\ r.keys \intersect keys = {}
                                        /\ r.copied \intersect links = {}
                                        /\ r.facts \intersect facts = {},
                             !.earlier = early]
      BY <1>1, <2>2, <3>1, <3>3
    <3>5. New(d) = [r EXCEPT !.intact = fine, !.earlier = early]
      BY <3>2, <3>4
    <3>6. /\ New(d) \in Merging!Audit
          /\ New(d).survivor = r.survivor /\ New(d).keys = r.keys /\ New(d).facts = r.facts
          /\ New(d).active /\ New(d).intact = fine
      <4>1. r \in [active : {TRUE}, survivor : People, intact : BOOLEAN,
                   keys : SUBSET Keys, earlier : SUBSET Keys,
                   copied : SUBSET Keys, facts : SUBSET Merging!Facts]
        BY DEF Merging!Audit
      <4> QED  BY <3>5, <4>1 DEF Merging!Audit
    <3> QED  BY <2>2, <3>1, <3>2, <3>6
  <2> QED  BY <2>1, <2>2
<1>3. KeepsMerges(new)
  BY <1>2 DEF KeepsMerges, New
<1>4. Spoils(new, p, keys, facts)
  BY <1>2 DEF Spoils, New
<1>5. AuditsTyped(new)
  BY <1>1, <1>2 DEF AuditsTyped
<1> QED  BY <1>3, <1>4, <1>5

\* Nobody's line changes, and no more can be undone.
LEMMA SameFamily ==
  ASSUME Merging!TypeOK, SameMerges, NEW above, NEW root, IsFamily(above, root)
  PROVE  IsFamily(above, root)'
<1>1. above \in [People -> SUBSET People] /\ root \in [People -> People]
  BY DEF IsFamily
<1>2. ASSUME NEW p \in People
      PROVE  /\ people_audit'[p].active =>
                  above[p] = {people_audit'[p].survivor}
                             \union above[people_audit'[p].survivor]
             /\ ~ people_audit'[p].active => above[p] = {}
             /\ ~ people_audit'[root[p]].active
  BY <1>1 DEF SameMerges, KeepsMerges, IsFamily
<1> QED  BY <1>1, <1>2 DEF IsFamily

LEMMA SameStanding ==
  ASSUME SameMerges, NEW d \in People, Standing(d)'
  PROVE  /\ Standing(d)
         /\ people_audit'[d].survivor = people_audit[d].survivor
         /\ people_audit'[d].keys = people_audit[d].keys
         /\ people_audit'[d].facts = people_audit[d].facts
BY DEF SameMerges, KeepsMerges, Standing

LEMMA SameApart ==
  ASSUME SameMerges, StandingAreApart
  PROVE  StandingAreApart'
BY SameStanding DEF StandingAreApart

\* What the user says of p, and what goes with it.
FactsChange(p, lost, new) ==
  /\ new \intersect people_has[p] = {}
  /\ \A q \in People : q # p => people_has'[q] = people_has[q] /\ people_said'[q] = people_said[q]
  /\ people_has'[p] = (people_has[p] \ lost) \union new
  /\ people_said'[p] = (people_said[p] \ lost) \union new

FactsAreThere ==
  \A d \in People : Standing(d) =>
    people_audit[d].facts \subseteq
      people_has[people_audit[d].survivor] \ people_said[people_audit[d].survivor]

Accounted(p) ==
  /\ people_said[p] \subseteq people_has[p]
  /\ \A f \in people_has[p] \ people_said[p] :
       \E d \in People : /\ people_audit[d].active /\ people_audit[d].survivor = p
                         /\ f \in people_audit[d].facts

LEMMA AccountedMeans ==
  Merging!FactsAreAccounted <=> \A p \in People : Accounted(p)
BY DEF Merging!FactsAreAccounted, Accounted

LEMMA AccountedMeansNext ==
  Merging!FactsAreAccounted' <=> \A p \in People : Accounted(p)'
BY DEF Merging!FactsAreAccounted, Accounted

LEMMA QuietFacts ==
  ASSUME Merging!TypeOK, SameMerges, FactsAreThere, Merging!FactsAreAccounted,
         NEW p \in People, NEW lost, NEW new, NEW keys,
         SpoiltBy(p, keys, lost), FactsChange(p, lost, new)
  PROVE  FactsAreThere' /\ Merging!FactsAreAccounted'
<1>1. ASSUME NEW d \in People, Standing(d)'
      PROVE  people_audit'[d].facts \subseteq
               people_has'[people_audit'[d].survivor] \ people_said'[people_audit'[d].survivor]
  <2>1. Standing(d) /\ people_audit[d].active
    BY <1>1, SameStanding DEF Standing
  <2>2. PICK s \in People : s = people_audit[d].survivor
    BY <2>1, AuditTypes
  <2>3. people_audit'[d].survivor = s /\ people_audit'[d].facts = people_audit[d].facts
    BY <1>1, <2>2, SameStanding
  <2>4. people_audit[d].facts \subseteq people_has[s] \ people_said[s]
    BY <2>1, <2>2 DEF FactsAreThere
  <2>5. CASE s # p
    BY <2>3, <2>4, <2>5 DEF FactsChange
  <2>6. CASE s = p
    <3>1. people_audit[d].facts \intersect lost = {}
      BY <1>1, <2>1, <2>2, <2>6 DEF SpoiltBy, Spoils, Standing
    <3> QED  BY <2>3, <2>4, <2>6, <3>1 DEF FactsChange
  <2> QED  BY <2>5, <2>6
<1>2. ASSUME NEW q \in People
      PROVE  Accounted(q)'
  <2>1. Accounted(q)
    BY AccountedMeans
  <2>2. people_said'[q] \subseteq people_has'[q]
    BY <2>1 DEF Accounted, FactsChange
  <2>3. ASSUME NEW f \in people_has'[q] \ people_said'[q]
        PROVE  \E d \in People : /\ people_audit'[d].active /\ people_audit'[d].survivor = q
                                 /\ f \in people_audit'[d].facts
    <3>1. f \in people_has[q] \ people_said[q]
      BY <2>3 DEF FactsChange
    <3>2. PICK d \in People : /\ people_audit[d].active /\ people_audit[d].survivor = q
                              /\ f \in people_audit[d].facts
      BY <2>1, <3>1 DEF Accounted
    <3> QED  BY <3>2 DEF SameMerges, KeepsMerges
  <2> QED  BY <2>2, <2>3 DEF Accounted
<1> QED  BY <1>1, <1>2, AccountedMeansNext DEF FactsAreThere

\* An identity keeps its holder, is freed, or is taken.
Same(k) == /\ people_holder'[k] = people_holder[k] /\ people_mine'[k] = people_mine[k]
           /\ k \in people_stray' <=> k \in people_stray
Freed(k) == /\ people_holder'[k] = None /\ people_mine'[k] = None /\ k \notin people_stray'
            /\ \A d \in People : Standing(d)' => k \notin people_audit[d].keys
Taken(k) == /\ people_holder[k] = None
            /\ people_mine'[k] \in People /\ people_holder'[k] = people_mine'[k]
            /\ k \in people_stray' <=> people_audit[people_mine'[k]].active

LEMMA QuietStep ==
  ASSUME PeopleInv, Merging!TypeOK', SameMerges, people_hidden \subseteq people_hidden',
         \A k \in Keys : Same(k) \/ Freed(k) \/ Taken(k),
         LinksAreHeld', FactsAreThere', Merging!FactsAreAccounted'
  PROVE  PeopleInv'
<1>1. PICK above \in [People -> SUBSET People] : \E root \in [People -> People] :
        IsFamily(above, root) /\ HoldersFollow(above, root)
  BY DEF PeopleInv
<1>2. PICK root \in [People -> People] : IsFamily(above, root) /\ HoldersFollow(above, root)
  BY <1>1
<1>3. Merging!TypeOK
  BY DEF PeopleInv
<1>4. IsFamily(above, root)'
  BY <1>2, <1>3, SameFamily
<1>5. None \notin People
  BY DataAssumption
<1>6. ASSUME NEW k \in Keys, Taken(k)
      PROVE  /\ people_mine[k] = None
             /\ k \notin people_stray' =>
                  /\ above[people_mine'[k]] = {} /\ root[people_mine'[k]] = people_mine'[k]
                  /\ ~ people_audit[people_mine'[k]].active
  <2>1. people_mine[k] = None
    <3>1. people_mine[k] \in People \union {None}
      BY <1>3 DEF Merging!TypeOK
    <3>2. people_mine[k] # None => root[people_mine[k]] \in People
      BY <3>1
    <3> QED  BY <1>2, <1>5, <1>6, <3>2 DEF HoldersFollow, Taken
  <2>2. /\ people_mine'[k] \in People
        /\ k \notin people_stray' => ~ people_audit[people_mine'[k]].active
    BY <1>6 DEF Taken
  <2> QED  BY <1>2, <2>1, <2>2 DEF IsFamily
<1>7. ASSUME NEW k \in Keys
      PROVE  people_holder'[k] = IF people_mine'[k] = None THEN None
                                 ELSE IF k \in people_stray' THEN people_mine'[k]
                                 ELSE root[people_mine'[k]]
  <2>1. CASE Same(k)
    BY <1>2, <2>1 DEF Same, HoldersFollow
  <2>2. CASE Freed(k)
    BY <2>2 DEF Freed
  <2>3. CASE Taken(k)
    BY <1>5, <1>6, <2>3 DEF Taken
  <2> QED  BY <2>1, <2>2, <2>3
<1>8. ASSUME NEW d \in People, Standing(d)'
      PROVE  /\ people_audit'[d].keys = Brought(above, d)'
             /\ \A k \in people_audit'[d].keys : people_holder'[k] = people_audit'[d].survivor
  <2>1. /\ Standing(d) /\ people_audit[d].active
        /\ people_audit'[d].survivor = people_audit[d].survivor
        /\ people_audit'[d].keys = people_audit[d].keys
    BY <1>8, SameStanding DEF Standing
  <2>2. people_audit[d].keys = Brought(above, d)
    BY <1>2, <2>1 DEF HoldersFollow
  <2>3. \A k \in people_audit[d].keys : people_holder[k] = people_audit[d].survivor
    BY <2>1 DEF PeopleInv, StandingIsThere
  <2>4. people_audit[d].survivor \in People /\ people_audit[d].keys \subseteq Keys
    BY <1>3, <2>1, AuditTypes
  <2>5. ASSUME NEW k \in Keys
        PROVE  /\ k \in people_audit[d].keys <=> k \in Brought(above, d)'
               /\ k \in people_audit[d].keys => people_holder'[k] = people_audit[d].survivor
    <3>1. CASE Same(k)
      BY <2>2, <2>3, <3>1 DEF Same, Brought
    <3>2. CASE Freed(k)
      BY <1>8, <3>2 DEF Freed, Brought
    <3>3. CASE Taken(k)
      <4>1. k \notin Brought(above, d)
        BY <1>6, <3>3 DEF Brought
      <4>2. k \notin people_stray' =>
              people_mine'[k] # d /\ d \notin above[people_mine'[k]]
        BY <1>6, <2>1, <3>3
      <4>3. k \notin Brought(above, d)'
        BY <4>2 DEF Brought
      <4> QED  BY <2>2, <4>1, <4>3
    <3> QED  BY <3>1, <3>2, <3>3
  <2>6. Brought(above, d)' \subseteq Keys
    BY DEF Brought
  <2> QED  BY <2>1, <2>4, <2>5, <2>6
<1>9. HoldersFollow(above, root)'
  BY <1>7, <1>8 DEF HoldersFollow
<1>10. MergedAreHidden'
  BY DEF MergedAreHidden, PeopleInv, SameMerges, KeepsMerges
<1>11. StandingIsThere'
  BY <1>8 DEF StandingIsThere, FactsAreThere
<1>12. StandingAreApart'
  BY SameApart DEF PeopleInv
<1>13. StrayAreAway'
  <2>1. ASSUME NEW k \in people_stray'
        PROVE  people_mine'[k] \in People /\ people_audit[people_mine'[k]].active
    <3>1. k \in Keys
      BY DEF Merging!TypeOK
    <3>2. Same(k) \/ Taken(k)
      BY <3>1 DEF Freed
    <3> QED  BY <3>2 DEF Same, Taken, PeopleInv, StrayAreAway
  <2> QED  BY <2>1 DEF StrayAreAway, SameMerges, KeepsMerges
<1> QED  BY <1>4, <1>9, <1>10, <1>11, <1>12, <1>13 DEF PeopleInv

LEMMA FactsStandFirm ==
  ASSUME PeopleInv, SameMerges, NEW p \in People,
         people_has' = people_has, people_said' = people_said
  PROVE  FactsAreThere' /\ Merging!FactsAreAccounted'
<1>1. SpoiltBy(p, {}, {}) /\ FactsChange(p, {}, {})
  BY DEF SpoiltBy, Spoils, FactsChange
<1>2. FactsAreThere /\ Merging!TypeOK /\ Merging!FactsAreAccounted
  BY DEF PeopleInv, StandingIsThere, FactsAreThere
<1> QED  BY <1>1, <1>2, QuietFacts

LEMMA PeopleTypes ==
  ASSUME PeopleInv
  PROVE  /\ people_hidden \subseteq People
         /\ people_holder \in [Keys -> People \union {None}]
         /\ people_mine \in [Keys -> People \union {None}]
         /\ people_confirmed \in
              [People -> [Keys -> {"none", "unlinked", "linked", "stale"}]]
         /\ people_has \in [People -> SUBSET (Roles \union TaskRoles)]
         /\ people_said \in [People -> SUBSET (Roles \union TaskRoles)]
         /\ people_asked \subseteq Merging!Asks /\ people_stray \subseteq Keys
         /\ AuditsTyped(people_audit)
<1>1. Merging!Links \union {"none"} = {"none", "unlinked", "linked", "stale"}
  BY DEF Merging!Links
<1> QED  BY <1>1 DEF PeopleInv, Merging!TypeOK, Merging!Facts, AuditsTyped

LEMMA PeopleTypesSuffice ==
  ASSUME /\ people_hidden' \subseteq People
         /\ people_holder' \in [Keys -> People \union {None}]
         /\ people_mine' \in [Keys -> People \union {None}]
         /\ people_confirmed' \in
              [People -> [Keys -> {"none", "unlinked", "linked", "stale"}]]
         /\ people_has' \in [People -> SUBSET (Roles \union TaskRoles)]
         /\ people_said' \in [People -> SUBSET (Roles \union TaskRoles)]
         /\ people_asked' \subseteq Merging!Asks /\ people_stray' \subseteq Keys
         /\ AuditsTyped(people_audit')
  PROVE  Merging!TypeOK'
<1>1. Merging!Links \union {"none"} = {"none", "unlinked", "linked", "stale"}
  BY DEF Merging!Links
<1> QED  BY <1>1 DEF Merging!TypeOK, Merging!Facts, AuditsTyped

LEMMA RequestTypes ==
  ASSUME PeopleInv, NEW r \in people_asked
  PROVE  r.who \in People /\ r.key \in Keys
BY PeopleTypes DEF Merging!Asks

LEMMA PeopleAsk ==
  ASSUME PeopleInv, NEW p \in People, NEW k \in Keys, Merging!Ask(p, k)
  PROVE  PeopleInv'
<1>1. /\ people_asked' \subseteq people_asked \union Merging!Asks
      /\ UNCHANGED <<people_hidden, people_holder, people_confirmed, people_has,
                     people_audit, people_mine, people_said, people_stray>>
  <2>1. \A does \in {"attach", "bind", "retract"}, own \in BOOLEAN :
          Merging!Request(does, p, k, own) \in Merging!Asks
    BY DEF Merging!Request, Merging!Asks
  <2>2. Merging!AskAttach(p, k) => people_asked' \subseteq people_asked \union Merging!Asks
    BY <2>1 DEF Merging!AskAttach
  <2>3. Merging!AskBind(p, k) => people_asked' \subseteq people_asked \union Merging!Asks
    BY <2>1 DEF Merging!AskBind
  <2>4. Merging!AskRetract(p, k) => people_asked' \subseteq people_asked \union Merging!Asks
    BY <2>1 DEF Merging!AskRetract
  <2> QED  BY <2>2, <2>3, <2>4 DEF Merging!Ask
<1>2. Merging!TypeOK'
  BY <1>1, PeopleTypes, PeopleTypesSuffice
<1>3. SameMerges
  BY <1>1 DEF SameMerges, KeepsMerges
<1>4. \A x \in Keys : Same(x)
  BY <1>1 DEF Same
<1>5. LinksAreHeld'
  BY <1>1 DEF PeopleInv, LinksAreHeld
<1>6. FactsAreThere' /\ Merging!FactsAreAccounted'
  BY <1>1, <1>3, FactsStandFirm
<1> QED  BY <1>1, <1>2, <1>3, <1>4, <1>5, <1>6, QuietStep

\* A request that gives p an identity nobody holds takes none from anybody.
LEMMA GivingTakesNone ==
  ASSUME PeopleInv, NEW p \in People, NEW k \in Keys, Merging!Give(p, k)
  PROVE  /\ people_holder' \in [Keys -> People \union {None}]
         /\ people_mine' \in [Keys -> People \union {None}]
         /\ people_stray' \subseteq Keys
         /\ \A x \in Keys : Same(x) \/ Taken(x)
         /\ \A x \in Keys : people_holder[x] # None => people_holder'[x] = people_holder[x]
         /\ people_holder[k] = None => people_holder'[k] = p
<1>1. CASE people_holder[k] = None
  <2>1. /\ people_holder' = [people_holder EXCEPT ![k] = p]
        /\ people_mine' = [people_mine EXCEPT ![k] = p]
        /\ people_stray' = IF people_audit[p].active THEN people_stray \union {k}
                           ELSE people_stray \ {k}
    BY <1>1 DEF Merging!Give
  <2>2. /\ people_holder' \in [Keys -> People \union {None}]
        /\ people_mine' \in [Keys -> People \union {None}]
        /\ \A x \in Keys : people_holder'[x] = IF x = k THEN p ELSE people_holder[x]
        /\ \A x \in Keys : people_mine'[x] = IF x = k THEN p ELSE people_mine[x]
    BY <2>1, PeopleTypes
  <2>3. /\ people_stray' \subseteq Keys
        /\ k \in people_stray' <=> people_audit[p].active
        /\ \A x \in Keys \ {k} : x \in people_stray' <=> x \in people_stray
    BY <2>1, PeopleTypes
  <2>4. Taken(k)
    BY <1>1, <2>2, <2>3 DEF Taken
  <2>5. \A x \in Keys \ {k} : Same(x)
    BY <2>2, <2>3 DEF Same
  <2> QED  BY <1>1, <2>2, <2>3, <2>4, <2>5
<1>2. CASE people_holder[k] # None
  <2>1. UNCHANGED <<people_holder, people_mine, people_stray>>
    BY <1>2 DEF Merging!Give
  <2> QED  BY <1>2, <2>1, PeopleTypes DEF Same
<1> QED  BY <1>1, <1>2

LEMMA PeopleAttach ==
  ASSUME PeopleInv, NEW r \in people_asked, Merging!Attach(r)
  PROVE  PeopleInv'
<1>1. r.who \in People /\ r.key \in Keys
  BY RequestTypes
<1>2. /\ Merging!Give(r.who, r.key)
      /\ people_asked' = people_asked \ {r}
      /\ UNCHANGED <<people_hidden, people_confirmed, people_has, people_audit, people_said>>
  BY DEF Merging!Attach
<1>3. /\ people_holder' \in [Keys -> People \union {None}]
      /\ people_mine' \in [Keys -> People \union {None}]
      /\ people_stray' \subseteq Keys
      /\ \A x \in Keys : Same(x) \/ Taken(x)
      /\ \A x \in Keys : people_holder[x] # None => people_holder'[x] = people_holder[x]
  BY <1>1, <1>2, GivingTakesNone
<1>4. Merging!TypeOK'
  BY <1>2, <1>3, PeopleTypes, PeopleTypesSuffice
<1>5. SameMerges
  BY <1>2 DEF SameMerges, KeepsMerges
<1>6. LinksAreHeld'
  <2>1. None \notin People
    BY DataAssumption
  <2>2. ASSUME NEW q \in People, NEW x \in Keys, people_confirmed'[q][x] = "linked"
        PROVE  people_holder'[x] = q
    <3>1. people_holder[x] = q
      BY <1>2, <2>2 DEF PeopleInv, LinksAreHeld
    <3> QED  BY <1>3, <2>1, <3>1
  <2> QED  BY <2>2 DEF LinksAreHeld
<1>7. FactsAreThere' /\ Merging!FactsAreAccounted'
  BY <1>1, <1>2, <1>5, FactsStandFirm
<1> QED  BY <1>2, <1>3, <1>4, <1>5, <1>6, <1>7, QuietStep

LEMMA PeopleBind ==
  ASSUME PeopleInv, NEW r \in people_asked, Merging!Bind(r)
  PROVE  PeopleInv'
<1>1. PICK p \in People, k \in Keys : p = r.who /\ k = r.key
  BY RequestTypes
<1>2. PICK link : link = Merging!ConfirmedBy(r, people_confirmed[p][k])
  OBVIOUS
<1>3. /\ people_confirmed' = [people_confirmed EXCEPT ![p][k] = link]
      /\ r.own => UNCHANGED <<people_holder, people_mine, people_stray>>
      /\ ~ r.own => Merging!Give(p, k)
      /\ people_asked' = people_asked \ {r}
      /\ UNCHANGED <<people_hidden, people_has, people_audit, people_said>>
  BY <1>1, <1>2 DEF Merging!Bind
<1>4. people_confirmed[p][k] \in {"none", "unlinked", "linked", "stale"}
  BY PeopleTypes
<1>5. /\ link \in {"none", "unlinked", "linked", "stale"}
      /\ link = "linked" =>
           \/ people_confirmed[p][k] = "linked"
           \/ ~ r.own /\ people_holder[k] \in {None, p}
  BY <1>1, <1>2, <1>4 DEF Merging!ConfirmedBy
<1>6. /\ people_holder' \in [Keys -> People \union {None}]
      /\ people_mine' \in [Keys -> People \union {None}]
      /\ people_stray' \subseteq Keys
      /\ \A x \in Keys : Same(x) \/ Taken(x)
      /\ \A x \in Keys : people_holder[x] # None => people_holder'[x] = people_holder[x]
      /\ ~ r.own /\ people_holder[k] = None => people_holder'[k] = p
  <2>1. CASE r.own
    BY <1>3, <2>1, PeopleTypes DEF Same
  <2>2. CASE ~ r.own
    BY <1>3, <2>2, GivingTakesNone
  <2> QED  BY <2>1, <2>2
<1>7. /\ people_confirmed' \in [People -> [Keys -> {"none", "unlinked", "linked", "stale"}]]
      /\ \A q \in People, x \in Keys :
           people_confirmed'[q][x] = IF q = p /\ x = k THEN link ELSE people_confirmed[q][x]
  BY <1>3, <1>5, PeopleTypes
<1>8. Merging!TypeOK'
  BY <1>3, <1>6, <1>7, PeopleTypes, PeopleTypesSuffice
<1>9. SameMerges
  BY <1>3 DEF SameMerges, KeepsMerges
<1>10. LinksAreHeld'
  <2>1. None \notin People
    BY DataAssumption
  <2>2. ASSUME NEW q \in People, NEW x \in Keys, people_confirmed'[q][x] = "linked"
        PROVE  people_holder'[x] = q
    <3>1. CASE people_confirmed[q][x] = "linked"
      BY <1>6, <2>1, <3>1 DEF PeopleInv, LinksAreHeld
    <3>2. CASE people_confirmed[q][x] # "linked"
      <4>1. q = p /\ x = k /\ ~ r.own /\ people_holder[k] \in {None, p}
        BY <1>5, <1>7, <2>2, <3>2
      <4> QED  BY <1>6, <2>1, <4>1
    <3> QED  BY <3>1, <3>2
  <2> QED  BY <2>2 DEF LinksAreHeld
<1>11. FactsAreThere' /\ Merging!FactsAreAccounted'
  BY <1>3, <1>9, FactsStandFirm
<1> QED  BY <1>3, <1>6, <1>8, <1>9, <1>10, <1>11, QuietStep

LEMMA PeopleRetract ==
  ASSUME PeopleInv, NEW r \in people_asked, Merging!Retract(r)
  PROVE  PeopleInv'
<1>0. PICK p \in People, k \in Keys : p = r.who /\ k = r.key
  BY RequestTypes
<1>1. PICK detached : detached = IF r.own /\ people_confirmed[p][k] = "linked"
                                 THEN {k} ELSE {}
  OBVIOUS
<1>2. /\ people_holder' = [x \in Keys |-> IF x \in detached THEN None ELSE people_holder[x]]
      /\ people_mine' = [x \in Keys |-> IF x \in detached THEN None ELSE people_mine[x]]
      /\ people_stray' = people_stray \ detached
      /\ people_audit' = Merging!Disturbed(p, detached, {k}, {})
      /\ people_confirmed' = [people_confirmed EXCEPT ![p][k] = "none"]
      /\ people_asked' = people_asked \ {r}
      /\ UNCHANGED <<people_hidden, people_has, people_said>>
  BY <1>0, <1>1 DEF Merging!Retract
<1>3. Merging!TypeOK
  BY DEF PeopleInv
<1>4. SameMerges /\ SpoiltBy(p, detached, {}) /\ AuditsTyped(people_audit')
  BY <1>2, <1>3, DisturbedKeeps DEF SameMerges, SpoiltBy
<1>5. /\ people_holder' \in [Keys -> People \union {None}]
      /\ people_mine' \in [Keys -> People \union {None}]
  BY <1>2, PeopleTypes
<1>6. /\ people_confirmed' \in [People -> [Keys -> {"none", "unlinked", "linked", "stale"}]]
      /\ \A q \in People, x \in Keys :
           people_confirmed'[q][x] = IF q = p /\ x = k THEN "none" ELSE people_confirmed[q][x]
  BY <1>2, PeopleTypes
<1>7. Merging!TypeOK'
  BY <1>2, <1>4, <1>5, <1>6, PeopleTypes, PeopleTypesSuffice
<1>8. ASSUME NEW x \in detached
      PROVE  x = k /\ people_confirmed[p][x] = "linked" /\ people_holder[x] = p
  BY <1>1, <1>8 DEF PeopleInv, LinksAreHeld
<1>9. ASSUME NEW x \in Keys
      PROVE  Same(x) \/ Freed(x)
  <2>1. CASE x \notin detached
    BY <1>2, <2>1 DEF Same
  <2>2. CASE x \in detached
    <3>1. ASSUME NEW d \in People, Standing(d)', x \in people_audit[d].keys
          PROVE  FALSE
      <4>1. Standing(d) /\ people_audit[d].active
        BY <1>4, <3>1, SameStanding DEF Standing
      <4>2. people_audit[d].survivor = p
        BY <1>8, <2>2, <3>1, <4>1 DEF PeopleInv, StandingIsThere
      <4> QED  BY <1>4, <2>2, <3>1, <4>1, <4>2 DEF SpoiltBy, Spoils, Standing
    <3>2. people_holder'[x] = None /\ people_mine'[x] = None /\ x \notin people_stray'
      BY <1>2, <2>2
    <3> QED  BY <3>1, <3>2 DEF Freed
  <2> QED  BY <2>1, <2>2
<1>10. LinksAreHeld'
  <2>1. ASSUME NEW q \in People, NEW x \in Keys, people_confirmed'[q][x] = "linked"
        PROVE  people_holder'[x] = q
    <3>1. people_holder[x] = q /\ ~ (q = p /\ x = k)
      BY <1>6, <2>1 DEF PeopleInv, LinksAreHeld
    <3>2. x \notin detached
      BY <1>8, <3>1
    <3> QED  BY <1>2, <3>1, <3>2
  <2> QED  BY <2>1 DEF LinksAreHeld
<1>11. FactsAreThere' /\ Merging!FactsAreAccounted'
  BY <1>2, <1>4, FactsStandFirm
<1> QED  BY <1>2, <1>4, <1>7, <1>9, <1>10, <1>11, QuietStep

\* Say, Unsay and Delete leave the identities alone.
LEMMA IdentitiesStandFirm ==
  ASSUME PeopleInv, people_holder' = people_holder, people_mine' = people_mine,
         people_confirmed' = people_confirmed, people_stray' = people_stray
  PROVE  LinksAreHeld' /\ \A k \in Keys : Same(k)
BY DEF PeopleInv, LinksAreHeld, Same

LEMMA PeopleSay ==
  ASSUME PeopleInv, NEW p \in People, NEW f \in Roles \union TaskRoles, Merging!Say(p, f)
  PROVE  PeopleInv'
<1>1. PICK lost : lost = Merging!Rivals(p, f)
  OBVIOUS
<1>2. /\ f \notin people_has[p]
      /\ people_has' = [people_has EXCEPT ![p] = (people_has[p] \ lost) \union {f}]
      /\ people_said' = [people_said EXCEPT ![p] = (people_said[p] \ lost) \union {f}]
      /\ people_audit' = Merging!Disturbed(p, {}, {}, lost)
      /\ UNCHANGED <<people_hidden, people_holder, people_confirmed, people_mine,
                     people_asked, people_stray>>
  BY <1>1 DEF Merging!Say
<1>3. Merging!TypeOK /\ FactsAreThere /\ Merging!FactsAreAccounted
  BY DEF PeopleInv, StandingIsThere, FactsAreThere
<1>4. SameMerges /\ SpoiltBy(p, {}, lost) /\ AuditsTyped(people_audit')
  BY <1>2, <1>3, DisturbedKeeps DEF SameMerges, SpoiltBy
<1>5. /\ people_has' \in [People -> SUBSET (Roles \union TaskRoles)]
      /\ people_said' \in [People -> SUBSET (Roles \union TaskRoles)]
      /\ FactsChange(p, lost, {f})
  BY <1>2, PeopleTypes DEF FactsChange
<1>6. Merging!TypeOK'
  BY <1>2, <1>4, <1>5, PeopleTypes, PeopleTypesSuffice
<1>7. FactsAreThere' /\ Merging!FactsAreAccounted'
  BY <1>3, <1>4, <1>5, QuietFacts
<1>8. LinksAreHeld' /\ \A k \in Keys : Same(k)
  BY <1>2, IdentitiesStandFirm
<1> QED  BY <1>2, <1>4, <1>6, <1>7, <1>8, QuietStep

LEMMA PeopleUnsay ==
  ASSUME PeopleInv, NEW p \in People, NEW f \in Roles \union TaskRoles, Merging!Unsay(p, f)
  PROVE  PeopleInv'
<1>1. /\ people_has' = [people_has EXCEPT ![p] = people_has[p] \ {f}]
      /\ people_said' = [people_said EXCEPT ![p] = people_said[p] \ {f}]
      /\ people_audit' = Merging!Disturbed(p, {}, {}, {f})
      /\ UNCHANGED <<people_hidden, people_holder, people_confirmed, people_mine,
                     people_asked, people_stray>>
  BY DEF Merging!Unsay
<1>2. Merging!TypeOK /\ FactsAreThere /\ Merging!FactsAreAccounted
  BY DEF PeopleInv, StandingIsThere, FactsAreThere
<1>3. SameMerges /\ SpoiltBy(p, {}, {f}) /\ AuditsTyped(people_audit')
  BY <1>1, <1>2, DisturbedKeeps DEF SameMerges, SpoiltBy
<1>4. /\ people_has' \in [People -> SUBSET (Roles \union TaskRoles)]
      /\ people_said' \in [People -> SUBSET (Roles \union TaskRoles)]
      /\ FactsChange(p, {f}, {})
  BY <1>1, PeopleTypes DEF FactsChange
<1>5. Merging!TypeOK'
  BY <1>1, <1>3, <1>4, PeopleTypes, PeopleTypesSuffice
<1>6. FactsAreThere' /\ Merging!FactsAreAccounted'
  BY <1>2, <1>3, <1>4, QuietFacts
<1>7. LinksAreHeld' /\ \A k \in Keys : Same(k)
  BY <1>1, IdentitiesStandFirm
<1> QED  BY <1>1, <1>3, <1>5, <1>6, <1>7, QuietStep

LEMMA PeopleDelete ==
  ASSUME PeopleInv, NEW p \in People, Merging!Delete(p)
  PROVE  PeopleInv'
<1>1. /\ people_hidden' = people_hidden \union {p}
      /\ UNCHANGED <<people_holder, people_confirmed, people_has, people_audit, people_mine,
                     people_said, people_asked, people_stray>>
  BY DEF Merging!Delete
<1>2. Merging!TypeOK'
  BY <1>1, PeopleTypes, PeopleTypesSuffice
<1>3. SameMerges
  BY <1>1 DEF SameMerges, KeepsMerges
<1>4. FactsAreThere' /\ Merging!FactsAreAccounted'
  BY <1>1, <1>3, FactsStandFirm
<1>5. LinksAreHeld' /\ \A k \in Keys : Same(k)
  BY <1>1, IdentitiesStandFirm
<1> QED  BY <1>1, <1>2, <1>3, <1>4, <1>5, QuietStep

-----------------------------------------------------------------------------
(* People: merging.                                                        *)

\* Who had become d becomes s, who is somebody else.
Below(above, d) == {p \in People : p = d \/ d \in above[p]}
AboveMerged(above, s, d) ==
  [p \in People |-> IF p \in Below(above, d) THEN above[p] \union {s} ELSE above[p]]
RootMerged(above, root, s, d) ==
  [p \in People |-> IF p \in Below(above, d) THEN s ELSE root[p]]

LEMMA NotMergedIsRoot ==
  ASSUME Merging!TypeOK, NEW above, NEW root, IsFamily(above, root), NEW d \in People,
         ~ people_audit[d].active
  PROVE  /\ above[d] = {} /\ root[d] = d
         /\ \A p \in People : p \in Below(above, d) <=> root[p] = d
<1>1. above[d] = {} /\ root[d] = d
  BY DEF IsFamily
<1> QED  BY <1>1 DEF IsFamily, Below

LEMMA FamilyMerged ==
  ASSUME Merging!TypeOK, NEW above, NEW root, IsFamily(above, root),
         NEW s \in People, NEW d \in People, s # d,
         ~ people_audit[s].active, ~ people_audit[d].active,
         people_audit'[d].active, people_audit'[d].survivor = s,
         \A p \in People \ {d} :
           /\ people_audit'[p].active <=> people_audit[p].active
           /\ people_audit[p].active => people_audit'[p].survivor = people_audit[p].survivor,
         NEW ab, ab = AboveMerged(above, s, d),
         NEW ro, ro = RootMerged(above, root, s, d)
  PROVE  IsFamily(ab, ro)'
<1>1. /\ above \in [People -> SUBSET People] /\ root \in [People -> People]
      /\ \A p \in People :
           /\ p \notin above[p]
           /\ people_audit[p].active =>
                above[p] = {people_audit[p].survivor} \union above[people_audit[p].survivor]
           /\ ~ people_audit[p].active => above[p] = {}
           /\ root[p] \in {p} \union above[p]
           /\ ~ people_audit[root[p]].active
           /\ \A q \in above[p] :
                /\ root[q] = root[p] /\ above[q] \subseteq above[p]
                /\ \A r \in above[p] : q = r \/ q \in above[r] \/ r \in above[q]
  BY DEF IsFamily
<1>2. /\ above[d] = {} /\ root[d] = d /\ above[s] = {} /\ root[s] = s
      /\ \A p \in People : p \in Below(above, d) <=> root[p] = d
  BY NotMergedIsRoot
<1>3. /\ ab \in [People -> SUBSET People] /\ ro \in [People -> People]
      /\ \A p \in People :
           /\ ab[p] = IF root[p] = d THEN above[p] \union {s} ELSE above[p]
           /\ ro[p] = IF root[p] = d THEN s ELSE root[p]
  BY <1>1, <1>2 DEF AboveMerged, RootMerged
<1>4. ab[d] = {s} /\ ro[d] = s /\ ab[s] = {} /\ ro[s] = s
  BY <1>2, <1>3
<1>5. ASSUME NEW p \in People
      PROVE  /\ p \notin ab[p]
             /\ people_audit'[p].active =>
                  ab[p] = {people_audit'[p].survivor} \union ab[people_audit'[p].survivor]
             /\ ~ people_audit'[p].active => ab[p] = {}
             /\ ro[p] \in {p} \union ab[p]
             /\ ~ people_audit'[ro[p]].active
  <2>1. CASE p = d
    BY <1>4, <2>1
  <2>2. CASE p # d
    <3>1. /\ people_audit'[p].active <=> people_audit[p].active
          /\ people_audit[p].active => people_audit'[p].survivor = people_audit[p].survivor
      BY <2>2
    <3>2. p \notin ab[p]
      BY <1>1, <1>2, <1>3
    <3>3. ASSUME people_audit[p].active
          PROVE  ab[p] = {people_audit'[p].survivor} \union ab[people_audit'[p].survivor]
      <4>1. PICK q \in People : q = people_audit[p].survivor
        BY <3>3, AuditTypes
      <4>2. above[p] = {q} \union above[q] /\ root[q] = root[p]
        BY <1>1, <3>3, <4>1
      <4>3. ab[p] = {q} \union ab[q]
        BY <1>3, <4>2
      <4> QED  BY <3>1, <3>3, <4>1, <4>3
    <3>4. ~ people_audit[p].active => ab[p] = {}
      BY <1>1, <1>3, <2>2
    <3>5. ro[p] \in {p} \union ab[p]
      BY <1>1, <1>3
    <3>6. ~ people_audit'[ro[p]].active
      BY <1>1, <1>3
    <3> QED  BY <3>1, <3>2, <3>3, <3>4, <3>5, <3>6
  <2> QED  BY <2>1, <2>2
<1>6. ASSUME NEW p \in People, NEW q \in ab[p]
      PROVE  /\ ro[q] = ro[p] /\ ab[q] \subseteq ab[p]
             /\ \A r \in ab[p] : q = r \/ q \in ab[r] \/ r \in ab[q]
  <2>1. CASE root[p] # d
    <3>1. q \in above[p] /\ ab[p] = above[p] /\ q \in People
      BY <1>1, <1>3, <2>1
    <3>2. \A r \in above[p] : r \in People /\ root[r] = root[p] /\ ab[r] = above[r]
      BY <1>1, <1>3, <2>1
    <3> QED  BY <1>1, <1>3, <3>1, <3>2
  <2>2. CASE root[p] = d
    <3>1. ab[p] = above[p] \union {s} /\ ro[p] = s
      BY <1>3, <2>2
    <3>2. \A r \in above[p] : r \in People /\ ro[r] = s /\ ab[r] = above[r] \union {s}
      BY <1>1, <1>3, <2>2
    <3>3. CASE q = s
      BY <1>4, <3>1, <3>2, <3>3
    <3>4. CASE q \in above[p]
      BY <1>1, <3>1, <3>2, <3>4
    <3> QED  BY <3>1, <3>3, <3>4
  <2> QED  BY <2>1, <2>2
<1> QED  BY <1>3, <1>5, <1>6 DEF IsFamily

\* What a merge of d into s does.
MergedInto(s, d, keys, facts) ==
  /\ s # d /\ s \notin people_hidden /\ d \notin people_hidden
  /\ Merging!TypeOK'
  /\ \A k \in Keys : people_holder'[k] = IF k \in keys THEN s ELSE people_holder[k]
  /\ \A q \in People, k \in Keys :
       people_confirmed'[q][k] = "linked" =>
         \/ q = s /\ k \in keys
         \/ people_confirmed[q][k] = "linked" /\ k \notin keys
  /\ \A q \in People :
       people_has'[q] = IF q = s THEN people_has[q] \union facts ELSE people_has[q]
  /\ people_said' = people_said /\ people_mine' = people_mine
  /\ people_stray' = people_stray
  /\ people_hidden' = people_hidden \union {d}
  /\ \A x \in People \ {d} :
       /\ people_audit'[x].active <=> people_audit[x].active
       /\ people_audit[x].active =>
            /\ people_audit'[x].survivor = people_audit[x].survivor
            /\ people_audit'[x].keys = people_audit[x].keys
            /\ people_audit'[x].facts = people_audit[x].facts
       /\ Standing(x)' => /\ Standing(x)
                          /\ people_audit[x].survivor = d =>
                               people_audit[x].keys \intersect keys = {}
  /\ people_audit'[d].active /\ people_audit'[d].survivor = s
  /\ people_audit'[d].keys = keys /\ people_audit'[d].facts = facts

LEMMA MergeEffect ==
  ASSUME PeopleInv, NEW s \in People, NEW d \in People, Merging!Merge(s, d),
         NEW keys, keys = Merging!Held(d), NEW facts, facts = people_has[d] \ people_has[s]
  PROVE  MergedInto(s, d, keys, facts)
<1>1. Merging!TypeOK
  BY DEF PeopleInv
<1>2. PICK copied : copied = Merging!Confirmations(d) \ Merging!Confirmations(s)
  OBVIOUS
<1>3. PICK earlier : earlier = Merging!Confirmations(s) \intersect keys
  OBVIOUS
<1>4. PICK audit : audit = [active |-> TRUE, survivor |-> s, intact |-> TRUE, keys |-> keys,
                            earlier |-> earlier, copied |-> copied, facts |-> facts]
  OBVIOUS
<1>5. PICK mid : mid = Merging!Disturbed(d, keys, {}, {})
  OBVIOUS
<1>6. PICK stale : stale = Merging!Unlinked(keys)
  OBVIOUS
<1>7. PICK line : line = [k \in Keys |-> IF k \notin copied THEN stale[s][k]
                                         ELSE IF k \in keys THEN "linked" ELSE "unlinked"]
  OBVIOUS
<1>8. /\ s # d /\ s \notin people_hidden /\ d \notin people_hidden
      /\ people_holder' = [k \in Keys |-> IF k \in keys THEN s ELSE people_holder[k]]
      /\ people_confirmed' = [stale EXCEPT ![s] = line]
      /\ people_has' = [people_has EXCEPT ![s] = people_has[s] \union facts]
      /\ people_audit' = [mid EXCEPT ![d] = audit]
      /\ people_hidden' = people_hidden \union {d}
      /\ UNCHANGED <<people_mine, people_said, people_asked, people_stray>>
  BY <1>2, <1>3, <1>4, <1>5, <1>6, <1>7 DEF Merging!Merge, Merging!CanMerge
<1>9. KeepsMerges(mid) /\ Spoils(mid, d, keys, {}) /\ AuditsTyped(mid)
  BY <1>1, <1>5, DisturbedKeeps
<1>10. keys \subseteq Keys /\ copied \subseteq Keys /\ earlier \subseteq Keys
       /\ facts \subseteq Roles \union TaskRoles
  BY <1>2, <1>3, PeopleTypes DEF Merging!Held, Merging!Confirmations
<1>11. audit \in Merging!Audit /\ audit.active /\ audit.survivor = s
       /\ audit.keys = keys /\ audit.facts = facts
  BY <1>4, <1>10 DEF Merging!Audit, Merging!Facts
<1>12. /\ AuditsTyped(people_audit')
       /\ people_audit'[d] = audit
       /\ \A x \in People : x # d => people_audit'[x] = mid[x]
  BY <1>8, <1>9, <1>11 DEF AuditsTyped
<1>13. /\ stale \in [People -> [Keys -> {"none", "unlinked", "linked", "stale"}]]
       /\ \A q \in People, k \in Keys : stale[q][k] =
            IF k \in keys /\ people_confirmed[q][k] = "linked" THEN "stale"
            ELSE people_confirmed[q][k]
  BY <1>6, PeopleTypes DEF Merging!Unlinked
<1>14. line \in [Keys -> {"none", "unlinked", "linked", "stale"}]
  BY <1>7, <1>13
<1>15. /\ people_confirmed' \in [People -> [Keys -> {"none", "unlinked", "linked", "stale"}]]
       /\ people_confirmed'[s] = line
       /\ \A q \in People : q # s => people_confirmed'[q] = stale[q]
  BY <1>8, <1>13, <1>14
<1>16. \A k \in Keys : line[k] = "linked" =>
         k \in keys \/ (people_confirmed[s][k] = "linked" /\ k \notin keys)
  BY <1>7, <1>13
<1>17. ASSUME NEW q \in People, NEW k \in Keys, people_confirmed'[q][k] = "linked"
       PROVE  \/ q = s /\ k \in keys
              \/ people_confirmed[q][k] = "linked" /\ k \notin keys
  <2>1. CASE q = s
    BY <1>15, <1>16, <1>17, <2>1
  <2>2. CASE q # s
    BY <1>13, <1>15, <1>17, <2>2
  <2> QED  BY <2>1, <2>2
<1>18. /\ people_has' \in [People -> SUBSET (Roles \union TaskRoles)]
       /\ \A q \in People :
            people_has'[q] = IF q = s THEN people_has[q] \union facts ELSE people_has[q]
  BY <1>8, <1>10, PeopleTypes
<1>19. people_holder' \in [Keys -> People \union {None}]
  BY <1>8, PeopleTypes
<1>20. Merging!TypeOK'
  BY <1>8, <1>12, <1>15, <1>18, <1>19, PeopleTypes, PeopleTypesSuffice
<1>21. ASSUME NEW x \in People \ {d}
       PROVE  /\ people_audit'[x].active <=> people_audit[x].active
              /\ people_audit[x].active =>
                   /\ people_audit'[x].survivor = people_audit[x].survivor
                   /\ people_audit'[x].keys = people_audit[x].keys
                   /\ people_audit'[x].facts = people_audit[x].facts
              /\ Standing(x)' => /\ Standing(x)
                                 /\ people_audit[x].survivor = d =>
                                      people_audit[x].keys \intersect keys = {}
  <2>1. people_audit'[x] = mid[x]
    BY <1>12
  <2> QED  BY <1>9, <2>1 DEF KeepsMerges, Spoils, Standing
<1>22. \A k \in Keys : people_holder'[k] = IF k \in keys THEN s ELSE people_holder[k]
  BY <1>8
<1> QED  BY <1>8, <1>11, <1>12, <1>17, <1>18, <1>20, <1>21, <1>22 DEF MergedInto

LEMMA PeopleMerge ==
  ASSUME PeopleInv, NEW s \in People, NEW d \in People, Merging!Merge(s, d)
  PROVE  PeopleInv'
<1>1. PICK keys : keys = Merging!Held(d)
  OBVIOUS
<1>2. PICK facts : facts = people_has[d] \ people_has[s]
  OBVIOUS
<1>3. MergedInto(s, d, keys, facts)
  BY <1>1, <1>2, MergeEffect
<1>4. /\ s # d /\ s \notin people_hidden /\ d \notin people_hidden
      /\ Merging!TypeOK'
      /\ people_said' = people_said /\ people_mine' = people_mine
      /\ people_stray' = people_stray
      /\ people_hidden' = people_hidden \union {d}
      /\ people_audit'[d].active /\ people_audit'[d].survivor = s
      /\ people_audit'[d].keys = keys /\ people_audit'[d].facts = facts
  BY <1>3 DEF MergedInto
<1>5. \A k \in Keys : people_holder'[k] = IF k \in keys THEN s ELSE people_holder[k]
  BY <1>3 DEF MergedInto
<1>6. \A q \in People, k \in Keys : people_confirmed'[q][k] = "linked" =>
        \/ q = s /\ k \in keys
        \/ people_confirmed[q][k] = "linked" /\ k \notin keys
  BY <1>3 DEF MergedInto
<1>7. \A q \in People :
        people_has'[q] = IF q = s THEN people_has[q] \union facts ELSE people_has[q]
  BY <1>3 DEF MergedInto
<1>8. \A x \in People \ {d} :
        /\ people_audit'[x].active <=> people_audit[x].active
        /\ people_audit[x].active =>
             /\ people_audit'[x].survivor = people_audit[x].survivor
             /\ people_audit'[x].keys = people_audit[x].keys
             /\ people_audit'[x].facts = people_audit[x].facts
        /\ Standing(x)' => /\ Standing(x)
                           /\ people_audit[x].survivor = d =>
                                people_audit[x].keys \intersect keys = {}
  BY <1>3 DEF MergedInto
<1>9. keys \subseteq Keys /\ \A k \in Keys : k \in keys <=> people_holder[k] = d
  BY <1>1 DEF Merging!Held
<1>10. Merging!TypeOK /\ None \notin People /\ ~ people_audit[s].active /\ ~ people_audit[d].active
  BY <1>4, DataAssumption DEF PeopleInv, MergedAreHidden
<1>11. PICK above \in [People -> SUBSET People], root \in [People -> People] :
         IsFamily(above, root) /\ HoldersFollow(above, root)
  BY DEF PeopleInv
<1>12. PICK ab : ab = AboveMerged(above, s, d)
  OBVIOUS
<1>13. PICK ro : ro = RootMerged(above, root, s, d)
  OBVIOUS
<1>14. IsFamily(ab, ro)'
  <2>1. \A x \in People \ {d} :
          /\ people_audit'[x].active <=> people_audit[x].active
          /\ people_audit[x].active => people_audit'[x].survivor = people_audit[x].survivor
    BY <1>8
  <2> QED  BY <1>4, <1>10, <1>11, <1>12, <1>13, <2>1, FamilyMerged
<1>15. \A p \in People : p \in Below(above, d) <=> root[p] = d
  BY <1>10, <1>11, NotMergedIsRoot
<1>16. /\ ab \in [People -> SUBSET People] /\ ro \in [People -> People]
       /\ \A p \in People :
           /\ ab[p] = IF root[p] = d THEN above[p] \union {s} ELSE above[p]
           /\ ro[p] = IF root[p] = d THEN s ELSE root[p]
  BY <1>11, <1>12, <1>13, <1>15 DEF AboveMerged, RootMerged
<1>17. \A k \in Keys : people_mine[k] \in People \union {None}
  BY PeopleTypes
<1>18. \A k \in Keys :
         people_holder[k] = IF people_mine[k] = None THEN None
                            ELSE IF k \in people_stray THEN people_mine[k]
                            ELSE root[people_mine[k]]
  BY <1>11 DEF HoldersFollow
<1>19. ASSUME NEW k \in Keys
       PROVE  people_holder'[k] = IF people_mine'[k] = None THEN None
                                  ELSE IF k \in people_stray' THEN people_mine'[k]
                                  ELSE ro[people_mine'[k]]
  <2>1. k \in people_stray => k \notin keys
    BY <1>9, <1>10, <1>18 DEF PeopleInv, StrayAreAway
  <2> QED  BY <1>4, <1>5, <1>9, <1>10, <1>16, <1>17, <1>18, <2>1
<1>20. ASSUME NEW x \in People, Standing(x)'
       PROVE  people_audit'[x].keys = Brought(ab, x)'
  <2>1. Brought(ab, x)' = {k \in Keys : people_mine[k] # None /\ k \notin people_stray
                             /\ (people_mine[k] = x \/ x \in ab[people_mine[k]])}
    BY <1>4 DEF Brought
  <2>2. x # s
    BY <1>4, <1>8, <1>10, <1>20 DEF Standing
  <2>3. \A k \in Keys : people_mine[k] # None =>
          (x \in ab[people_mine[k]] <=> x \in above[people_mine[k]])
    BY <1>16, <1>17, <2>2
  <2>4. Brought(ab, x)' = Brought(above, x)
    BY <2>1, <2>3 DEF Brought
  <2>5. CASE x = d
    <3>1. \A k \in Keys : k \in keys <=>
            people_mine[k] # None /\ k \notin people_stray /\ root[people_mine[k]] = d
      BY <1>9, <1>10, <1>18 DEF PeopleInv, StrayAreAway
    <3>2. \A k \in Keys : k \in keys <=>
            people_mine[k] # None /\ k \notin people_stray
              /\ (people_mine[k] = d \/ d \in above[people_mine[k]])
      BY <1>15, <1>17, <3>1 DEF Below
    <3>3. keys = Brought(above, d)
      BY <1>9, <3>2 DEF Brought
    <3> QED  BY <1>4, <2>4, <2>5, <3>3
  <2>6. CASE x # d
    <3>1. Standing(x) /\ people_audit'[x].keys = people_audit[x].keys
      BY <1>8, <1>20, <2>6 DEF Standing
    <3> QED  BY <1>11, <2>4, <3>1 DEF HoldersFollow
  <2> QED  BY <2>5, <2>6
<1>21. HoldersFollow(ab, ro)'
  BY <1>19, <1>20 DEF HoldersFollow
<1>22. MergedAreHidden'
  BY <1>4, <1>8 DEF MergedAreHidden, PeopleInv
<1>23. LinksAreHeld'
  BY <1>5, <1>6 DEF LinksAreHeld, PeopleInv
<1>24. people_said[s] \subseteq people_has[s] /\ facts \intersect people_has[s] = {}
  BY <1>2, AccountedMeans DEF PeopleInv, Accounted
<1>25. ASSUME NEW x \in People, Standing(x)'
       PROVE  /\ \A k \in people_audit'[x].keys : people_holder'[k] = people_audit'[x].survivor
              /\ people_audit'[x].facts \subseteq
                   people_has'[people_audit'[x].survivor]
                     \ people_said'[people_audit'[x].survivor]
  <2>1. CASE x = d
    <3>1. \A k \in keys : people_holder'[k] = s
      BY <1>5, <1>9
    <3>2. facts \subseteq people_has'[s] \ people_said'[s]
      BY <1>4, <1>7, <1>24
    <3> QED  BY <1>4, <2>1, <3>1, <3>2
  <2>2. CASE x # d
    <3>1. /\ Standing(x) /\ people_audit[x].active
          /\ people_audit'[x].survivor = people_audit[x].survivor
          /\ people_audit'[x].keys = people_audit[x].keys
          /\ people_audit'[x].facts = people_audit[x].facts
          /\ people_audit[x].survivor = d => people_audit[x].keys \intersect keys = {}
      BY <1>8, <1>25, <2>2 DEF Standing
    <3>2. people_audit[x].survivor \in People /\ people_audit[x].keys \subseteq Keys
      BY <1>10, <3>1, AuditTypes
    <3>3. /\ \A k \in people_audit[x].keys : people_holder[k] = people_audit[x].survivor
          /\ people_audit[x].facts \subseteq
               people_has[people_audit[x].survivor] \ people_said[people_audit[x].survivor]
      BY <3>1 DEF PeopleInv, StandingIsThere
    <3>4. \A k \in people_audit[x].keys : people_holder'[k] = people_holder[k]
      BY <1>5, <1>9, <3>1, <3>2, <3>3
    <3>5. people_has[people_audit[x].survivor] \subseteq people_has'[people_audit[x].survivor]
      BY <1>7, <3>2
    <3> QED  BY <1>4, <3>1, <3>3, <3>4, <3>5
  <2> QED  BY <2>1, <2>2
<1>26. StandingIsThere'
  BY <1>25 DEF StandingIsThere
<1>27. ASSUME NEW x \in People \ {d}, Standing(x)', people_audit'[x].survivor = s
       PROVE  /\ people_audit'[x].keys \intersect keys = {}
              /\ people_audit'[x].facts \intersect facts = {}
  <2>1. /\ Standing(x) /\ people_audit[x].active
        /\ people_audit[x].survivor = s
        /\ people_audit'[x].keys = people_audit[x].keys
        /\ people_audit'[x].facts = people_audit[x].facts
    BY <1>8, <1>27 DEF Standing
  <2>2. /\ \A k \in people_audit[x].keys : people_holder[k] = s
        /\ people_audit[x].facts \subseteq people_has[s]
    BY <2>1 DEF PeopleInv, StandingIsThere
  <2> QED  BY <1>4, <1>9, <1>24, <2>1, <2>2
<1>28. StandingAreApart'
  <2>1. ASSUME NEW x \in People, NEW y \in People, x # y, Standing(x)', Standing(y)',
               people_audit'[x].survivor = people_audit'[y].survivor
        PROVE  /\ people_audit'[x].keys \intersect people_audit'[y].keys = {}
               /\ people_audit'[x].facts \intersect people_audit'[y].facts = {}
    <3>1. CASE x # d /\ y # d
      <4>1. Standing(x) /\ Standing(y) /\ people_audit[x].active /\ people_audit[y].active
        BY <1>8, <2>1, <3>1 DEF Standing
      <4> QED  BY <1>8, <2>1, <3>1, <4>1 DEF PeopleInv, StandingAreApart
    <3>2. CASE x = d
      BY <1>4, <1>27, <2>1, <3>2
    <3>3. CASE y = d
      BY <1>4, <1>27, <2>1, <3>3
    <3> QED  BY <3>1, <3>2, <3>3
  <2> QED  BY <2>1 DEF StandingAreApart
<1>29. ASSUME NEW q \in People
       PROVE  Accounted(q)'
  <2>1. Accounted(q)
    BY AccountedMeans DEF PeopleInv
  <2>2. people_said'[q] \subseteq people_has'[q]
    BY <1>4, <1>7, <2>1 DEF Accounted
  <2>3. ASSUME NEW f \in people_has'[q] \ people_said'[q]
        PROVE  \E x \in People : /\ people_audit'[x].active /\ people_audit'[x].survivor = q
                                 /\ f \in people_audit'[x].facts
    <3>1. CASE q = s /\ f \in facts
      BY <1>4, <3>1
    <3>2. CASE ~ (q = s /\ f \in facts)
      <4>1. f \in people_has[q] \ people_said[q]
        BY <1>4, <1>7, <2>3, <3>2
      <4>2. PICK x \in People : /\ people_audit[x].active /\ people_audit[x].survivor = q
                                /\ f \in people_audit[x].facts
        BY <2>1, <4>1 DEF Accounted
      <4>3. x # d
        BY <1>10, <4>2
      <4> QED  BY <1>8, <4>2, <4>3
    <3> QED  BY <3>1, <3>2
  <2> QED  BY <2>2, <2>3 DEF Accounted
<1>30. Merging!FactsAreAccounted'
  BY <1>29, AccountedMeansNext
<1>31. \E a \in [People -> SUBSET People] : \E r \in [People -> People] :
         IsFamily(a, r)' /\ HoldersFollow(a, r)'
  BY <1>14, <1>16, <1>21
<1>32. StrayAreAway'
  BY <1>4, <1>8 DEF StrayAreAway, PeopleInv
<1> QED  BY <1>4, <1>22, <1>23, <1>26, <1>28, <1>30, <1>31, <1>32 DEF PeopleInv

-----------------------------------------------------------------------------
(* People: undoing a merge.                                                *)

\* Who had become d becomes d again.
AboveUndone(above, s, d) ==
  [p \in People |-> IF p \in Below(above, d) THEN above[p] \ {s} ELSE above[p]]
RootUndone(above, root, d) ==
  [p \in People |-> IF p \in Below(above, d) THEN d ELSE root[p]]

LEMMA FamilyUndone ==
  ASSUME Merging!TypeOK, NEW above, NEW root, IsFamily(above, root),
         NEW s \in People, NEW d \in People,
         ~ people_audit[s].active, people_audit[d].active, people_audit[d].survivor = s,
         ~ people_audit'[d].active,
         \A p \in People \ {d} : people_audit'[p] = people_audit[p],
         NEW ab, ab = AboveUndone(above, s, d),
         NEW ro, ro = RootUndone(above, root, d)
  PROVE  IsFamily(ab, ro)'
<1>1. /\ above \in [People -> SUBSET People] /\ root \in [People -> People]
      /\ \A p \in People :
           /\ p \notin above[p]
           /\ people_audit[p].active =>
                above[p] = {people_audit[p].survivor} \union above[people_audit[p].survivor]
           /\ ~ people_audit[p].active => above[p] = {}
           /\ root[p] \in {p} \union above[p]
           /\ ~ people_audit[root[p]].active
           /\ \A q \in above[p] :
                /\ root[q] = root[p] /\ above[q] \subseteq above[p]
                /\ \A r \in above[p] : q = r \/ q \in above[r] \/ r \in above[q]
  BY DEF IsFamily
<1>2. above[s] = {} /\ root[s] = s /\ above[d] = {s} /\ root[d] = s /\ s # d
  BY <1>1
<1>3. PICK low : low = Below(above, d)
  OBVIOUS
<1>4. /\ d \in low /\ s \notin low
      /\ \A p \in People : p \in low <=> p = d \/ d \in above[p]
  BY <1>2, <1>3 DEF Below
<1>5. \A p \in low : p \in People /\ root[p] = s /\ s \in above[p]
  BY <1>1, <1>2, <1>3, <1>4 DEF Below
<1>6. ASSUME NEW p \in low, NEW q \in above[p] \ {s}
      PROVE  q \in low
  <2>1. CASE p = d
    BY <1>2, <1>6, <2>1
  <2>2. CASE p # d
    <3>1. p \in People /\ d \in above[p] /\ q \in People
      BY <1>1, <1>4, <1>5, <2>2
    <3>2. q = d \/ d \in above[q] \/ q \in above[d]
      BY <1>1, <1>6, <3>1
    <3> QED  BY <1>2, <1>4, <1>6, <3>1, <3>2
  <2> QED  BY <2>1, <2>2
<1>7. ASSUME NEW p \in People \ low, NEW q \in above[p]
      PROVE  q \notin low /\ q \in People
  BY <1>1, <1>4, <1>7
<1>8. /\ ab \in [People -> SUBSET People] /\ ro \in [People -> People]
      /\ \A p \in People :
           /\ ab[p] = IF p \in low THEN above[p] \ {s} ELSE above[p]
           /\ ro[p] = IF p \in low THEN d ELSE root[p]
  BY <1>1, <1>3 DEF AboveUndone, RootUndone
<1>9. ab[d] = {} /\ ro[d] = d
  BY <1>2, <1>4, <1>8
<1>10. ASSUME NEW p \in People
       PROVE  /\ people_audit'[p].active =>
                   ab[p] = {people_audit'[p].survivor} \union ab[people_audit'[p].survivor]
              /\ ~ people_audit'[p].active => ab[p] = {}
              /\ ro[p] \in {p} \union ab[p]
              /\ ~ people_audit'[ro[p]].active
  <2>1. CASE p = d
    BY <1>9, <2>1
  <2>2. CASE p # d
    <3>1. people_audit'[p] = people_audit[p]
      BY <2>2
    <3>2. ASSUME people_audit[p].active
          PROVE  ab[p] = {people_audit[p].survivor} \union ab[people_audit[p].survivor]
      <4>1. PICK q \in People : q = people_audit[p].survivor
        BY <3>2, AuditTypes
      <4>2. above[p] = {q} \union above[q]
        BY <1>1, <3>2, <4>1
      <4>3. CASE p \in low
        <5>1. q # s
          BY <1>2, <1>4, <2>2, <4>2, <4>3
        <5>2. q \in low
          BY <1>6, <4>2, <4>3, <5>1
        <5> QED  BY <1>8, <4>1, <4>2, <4>3, <5>1, <5>2
      <4>4. CASE p \notin low
        <5>1. q \notin low
          BY <1>7, <4>2, <4>4
        <5> QED  BY <1>8, <4>1, <4>2, <4>4, <5>1
      <4> QED  BY <4>3, <4>4
    <3>3. ~ people_audit[p].active => ab[p] = {}
      BY <1>1, <1>8
    <3>4. ro[p] \in {p} \union ab[p]
      BY <1>1, <1>2, <1>4, <1>8
    <3>5. ~ people_audit'[ro[p]].active
      <4>1. CASE p \in low
        BY <1>8, <4>1
      <4>2. CASE p \notin low
        BY <1>1, <1>2, <1>8, <4>2
      <4> QED  BY <4>1, <4>2
    <3> QED  BY <3>1, <3>2, <3>3, <3>4, <3>5
  <2> QED  BY <2>1, <2>2
<1>11. ASSUME NEW p \in People, NEW q \in ab[p]
       PROVE  /\ ro[q] = ro[p] /\ ab[q] \subseteq ab[p]
              /\ \A r \in ab[p] : q = r \/ q \in ab[r] \/ r \in ab[q]
  <2>1. CASE p \notin low
    <3>1. ab[p] = above[p] /\ \A r \in above[p] : r \in People /\ ab[r] = above[r]
                                                  /\ ro[r] = root[r]
      BY <1>7, <1>8, <2>1
    <3>2. q \in above[p] /\ ro[p] = root[p]
      BY <1>8, <2>1, <3>1
    <3> QED  BY <1>1, <3>1, <3>2
  <2>2. CASE p \in low
    <3>1. /\ ab[p] = above[p] \ {s} /\ ro[p] = d
          /\ \A r \in ab[p] : r \in People /\ ab[r] = above[r] \ {s} /\ ro[r] = d
      BY <1>1, <1>6, <1>8, <2>2
    <3>2. q \in above[p] /\ q # s
      BY <3>1
    <3>3. above[q] \subseteq above[p]
          /\ \A r \in above[p] : q = r \/ q \in above[r] \/ r \in above[q]
      BY <1>1, <3>2
    <3> QED  BY <3>1, <3>2, <3>3
  <2> QED  BY <2>1, <2>2
<1>12. \A p \in People : p \notin ab[p]
  BY <1>1, <1>8
<1> QED  BY <1>8, <1>10, <1>11, <1>12 DEF IsFamily

\* What undoing the merge of d into s does.
UndoneFrom(s, d, keys, facts) ==
  /\ s \notin people_hidden /\ Standing(d) /\ people_audit[d].survivor = s
  /\ people_audit[d].keys = keys /\ people_audit[d].facts = facts
  /\ Merging!TypeOK'
  /\ \A k \in Keys : people_holder'[k] = IF k \in keys THEN d ELSE people_holder[k]
  /\ \A q \in People, k \in Keys :
       people_confirmed'[q][k] = "linked" => people_confirmed[q][k] = "linked" /\ k \notin keys
  /\ \A q \in People :
       people_has'[q] = IF q = s THEN people_has[q] \ facts ELSE people_has[q]
  /\ people_said' = people_said /\ people_mine' = people_mine
  /\ \A k \in Keys : k \in people_stray' <=> k \in people_stray /\ people_holder[k] # d
  /\ people_hidden' = people_hidden \ {d}
  /\ \A x \in People \ {d} : people_audit'[x] = people_audit[x]
  /\ ~ people_audit'[d].active

LEMMA UndoEffect ==
  ASSUME PeopleInv, NEW s \in People, NEW d \in People, Merging!Undo(s, d),
         NEW keys, keys = people_audit[d].keys, NEW facts, facts = people_audit[d].facts
  PROVE  UndoneFrom(s, d, keys, facts)
<1>1. Merging!TypeOK
  BY DEF PeopleInv
<1>2. PICK copied : copied = people_audit[d].copied
  OBVIOUS
<1>3. PICK stale : stale = Merging!Unlinked(keys)
  OBVIOUS
<1>4. PICK line : line = [k \in Keys |-> IF k \in copied THEN "none" ELSE stale[s][k]]
  OBVIOUS
<1>5. /\ people_audit[d].active /\ people_audit[d].survivor = s /\ people_audit[d].intact
      /\ s \notin people_hidden
      /\ people_holder' = [k \in Keys |-> IF k \in keys THEN d ELSE people_holder[k]]
      /\ people_confirmed' = [stale EXCEPT ![s] = line]
      /\ people_has' = [people_has EXCEPT ![s] = people_has[s] \ facts]
      /\ people_audit' = [people_audit EXCEPT ![d] = Merging!NoAudit]
      /\ people_hidden' = people_hidden \ {d}
      /\ people_asked' \subseteq people_asked
      /\ people_stray' = people_stray \ Merging!Held(d)
      /\ UNCHANGED <<people_mine, people_said>>
  BY <1>2, <1>3, <1>4 DEF Merging!Undo, Merging!CanUndo, Merging!StillToRetract
<1>6. /\ stale \in [People -> [Keys -> {"none", "unlinked", "linked", "stale"}]]
      /\ \A q \in People, k \in Keys : stale[q][k] =
           IF k \in keys /\ people_confirmed[q][k] = "linked" THEN "stale"
           ELSE people_confirmed[q][k]
  BY <1>3, PeopleTypes DEF Merging!Unlinked
<1>7. line \in [Keys -> {"none", "unlinked", "linked", "stale"}]
  BY <1>4, <1>6
<1>8. /\ people_confirmed' \in [People -> [Keys -> {"none", "unlinked", "linked", "stale"}]]
      /\ people_confirmed'[s] = line
      /\ \A q \in People : q # s => people_confirmed'[q] = stale[q]
  BY <1>5, <1>6, <1>7
<1>9. \A k \in Keys : line[k] = "linked" => people_confirmed[s][k] = "linked" /\ k \notin keys
  BY <1>4, <1>6
<1>10. ASSUME NEW q \in People, NEW k \in Keys, people_confirmed'[q][k] = "linked"
       PROVE  people_confirmed[q][k] = "linked" /\ k \notin keys
  <2>1. CASE q = s
    BY <1>8, <1>9, <1>10, <2>1
  <2>2. CASE q # s
    BY <1>6, <1>8, <1>10, <2>2
  <2> QED  BY <2>1, <2>2
<1>11. /\ people_has' \in [People -> SUBSET (Roles \union TaskRoles)]
       /\ \A q \in People :
            people_has'[q] = IF q = s THEN people_has[q] \ facts ELSE people_has[q]
  BY <1>5, PeopleTypes
<1>12. people_holder' \in [Keys -> People \union {None}]
  BY <1>5, PeopleTypes
<1>13. /\ AuditsTyped(people_audit') /\ ~ people_audit'[d].active
       /\ \A x \in People \ {d} : people_audit'[x] = people_audit[x]
  <2>1. ~ Merging!NoAudit.active
    BY DEF Merging!NoAudit
  <2> QED  BY <1>5, <2>1, PeopleTypes DEF AuditsTyped
<1>14. Merging!TypeOK'
  BY <1>5, <1>8, <1>11, <1>12, <1>13, PeopleTypes, PeopleTypesSuffice
<1>15. \A k \in Keys : people_holder'[k] = IF k \in keys THEN d ELSE people_holder[k]
  BY <1>5
<1>16. \A k \in Keys : k \in people_stray' <=> k \in people_stray /\ people_holder[k] # d
  BY <1>5 DEF Merging!Held
<1> QED  BY <1>5, <1>10, <1>11, <1>13, <1>14, <1>15, <1>16 DEF UndoneFrom, Standing

LEMMA PeopleUndo ==
  ASSUME PeopleInv, NEW s \in People, NEW d \in People, Merging!Undo(s, d)
  PROVE  PeopleInv'
<1>1. PICK keys : keys = people_audit[d].keys
  OBVIOUS
<1>2. PICK facts : facts = people_audit[d].facts
  OBVIOUS
<1>3. UndoneFrom(s, d, keys, facts)
  BY <1>1, <1>2, UndoEffect
<1>4. /\ s \notin people_hidden /\ Standing(d)
      /\ people_audit[d].active /\ people_audit[d].survivor = s
      /\ Merging!TypeOK'
      /\ people_said' = people_said /\ people_mine' = people_mine
      /\ people_hidden' = people_hidden \ {d}
      /\ ~ people_audit'[d].active
  BY <1>3 DEF UndoneFrom, Standing
<1>5. \A k \in Keys : people_holder'[k] = IF k \in keys THEN d ELSE people_holder[k]
  BY <1>3 DEF UndoneFrom
<1>6. \A q \in People, k \in Keys :
        people_confirmed'[q][k] = "linked" => people_confirmed[q][k] = "linked" /\ k \notin keys
  BY <1>3 DEF UndoneFrom
<1>7. \A q \in People :
        people_has'[q] = IF q = s THEN people_has[q] \ facts ELSE people_has[q]
  BY <1>3 DEF UndoneFrom
<1>8. \A x \in People \ {d} : people_audit'[x] = people_audit[x]
  BY <1>3 DEF UndoneFrom
<1>9. Merging!TypeOK /\ None \notin People /\ ~ people_audit[s].active
  BY <1>4, DataAssumption DEF PeopleInv, MergedAreHidden
<1>10. ASSUME NEW x \in People, Standing(x)'
       PROVE  x # d /\ Standing(x) /\ people_audit[x].active /\ people_audit'[x] = people_audit[x]
              /\ people_audit[x].survivor \in People /\ people_audit[x].keys \subseteq Keys
  BY <1>4, <1>8, <1>9, <1>10, AuditTypes DEF Standing
<1>11. PICK above \in [People -> SUBSET People], root \in [People -> People] :
         IsFamily(above, root) /\ HoldersFollow(above, root)
  BY DEF PeopleInv
<1>12. PICK ab : ab = AboveUndone(above, s, d)
  OBVIOUS
<1>13. PICK ro : ro = RootUndone(above, root, d)
  OBVIOUS
<1>14. IsFamily(ab, ro)'
  BY <1>4, <1>8, <1>9, <1>11, <1>12, <1>13, FamilyUndone
<1>15. /\ ab \in [People -> SUBSET People] /\ ro \in [People -> People]
       /\ \A p \in People :
            /\ ab[p] = IF p = d \/ d \in above[p] THEN above[p] \ {s} ELSE above[p]
            /\ ro[p] = IF p = d \/ d \in above[p] THEN d ELSE root[p]
  BY <1>11, <1>12, <1>13 DEF AboveUndone, RootUndone, Below
<1>16. \A k \in Keys : people_mine[k] \in People \union {None}
  BY PeopleTypes
<1>17. \A k \in Keys :
         people_holder[k] = IF people_mine[k] = None THEN None
                            ELSE IF k \in people_stray THEN people_mine[k]
                            ELSE root[people_mine[k]]
  BY <1>11 DEF HoldersFollow
<1>18. \A k \in Keys : k \in keys <=>
         people_mine[k] # None /\ k \notin people_stray
           /\ (people_mine[k] = d \/ d \in above[people_mine[k]])
  BY <1>1, <1>4, <1>11 DEF HoldersFollow, Brought
<1>19. ASSUME NEW k \in Keys
       PROVE  people_holder'[k] = IF people_mine'[k] = None THEN None
                                  ELSE IF k \in people_stray' THEN people_mine'[k]
                                  ELSE ro[people_mine'[k]]
  <2>1. k \in people_stray' <=> k \in people_stray /\ people_holder[k] # d
    BY <1>3 DEF UndoneFrom
  <2>2. CASE k \in people_stray
    <3>1. people_mine[k] \in People /\ people_holder[k] = people_mine[k] /\ k \notin keys
      BY <1>9, <1>17, <1>18, <2>2 DEF PeopleInv, StrayAreAway
    <3> QED  BY <1>4, <1>5, <1>9, <1>15, <2>1, <2>2, <3>1
  <2>3. CASE k \notin people_stray
    BY <1>4, <1>5, <1>9, <1>15, <1>16, <1>17, <1>18, <2>1, <2>3
  <2> QED  BY <2>2, <2>3
<1>20. ASSUME NEW x \in People, Standing(x)'
       PROVE  people_audit'[x].keys = Brought(ab, x)'
  <2>1. Brought(ab, x)' = {k \in Keys : people_mine[k] # None /\ k \notin people_stray'
                             /\ (people_mine[k] = x \/ x \in ab[people_mine[k]])}
    BY <1>4 DEF Brought
  <2>2. x # s
    BY <1>9, <1>10, <1>20
  <2>3. \A k \in Keys : people_mine[k] # None =>
          (x \in ab[people_mine[k]] <=> x \in above[people_mine[k]])
    BY <1>15, <1>16, <2>2
  <2>5. ASSUME NEW k \in Keys, k \in people_stray, people_holder[k] = d
        PROVE  people_mine[k] # x /\ x \notin ab[people_mine[k]]
    <3>1. people_mine[k] = d
      BY <1>9, <1>17, <2>5 DEF PeopleInv, StrayAreAway
    <3>2. above[d] = {s} \union above[s] /\ above[s] = {}
      BY <1>4, <1>9, <1>11 DEF IsFamily
    <3>3. ab[d] = {}
      BY <1>15, <3>2
    <3> QED  BY <1>10, <1>20, <3>1, <3>3
  <2>6. \A k \in Keys : k \in people_stray' <=> k \in people_stray /\ people_holder[k] # d
    BY <1>3 DEF UndoneFrom
  <2>4. Brought(ab, x)' = Brought(above, x)
    BY <2>1, <2>3, <2>5, <2>6 DEF Brought
  <2> QED  BY <1>10, <1>11, <1>20, <2>4 DEF HoldersFollow
<1>21. HoldersFollow(ab, ro)'
  BY <1>19, <1>20 DEF HoldersFollow
<1>22. MergedAreHidden'
  BY <1>4, <1>8 DEF MergedAreHidden, PeopleInv
<1>23. LinksAreHeld'
  BY <1>5, <1>6 DEF LinksAreHeld, PeopleInv
<1>24. /\ \A k \in keys : people_holder[k] = s
       /\ facts \subseteq people_has[s] \ people_said[s]
  BY <1>1, <1>2, <1>4 DEF PeopleInv, StandingIsThere
<1>25. ASSUME NEW x \in People, Standing(x)'
       PROVE  /\ \A k \in people_audit[x].keys : people_holder'[k] = people_audit[x].survivor
              /\ people_audit[x].facts \subseteq
                   people_has'[people_audit[x].survivor]
                     \ people_said'[people_audit[x].survivor]
  <2>1. PICK t \in People : t = people_audit[x].survivor
    BY <1>10, <1>25
  <2>2. /\ \A k \in people_audit[x].keys : people_holder[k] = t
        /\ people_audit[x].facts \subseteq people_has[t] \ people_said[t]
    BY <1>10, <1>25, <2>1 DEF PeopleInv, StandingIsThere
  <2>3. t = s => /\ people_audit[x].keys \intersect keys = {}
                 /\ people_audit[x].facts \intersect facts = {}
    BY <1>1, <1>2, <1>4, <1>10, <1>25, <2>1 DEF PeopleInv, StandingAreApart
  <2>4. \A k \in people_audit[x].keys : people_holder'[k] = people_holder[k]
    BY <1>5, <1>10, <1>24, <1>25, <2>2, <2>3
  <2>5. people_audit[x].facts \subseteq people_has'[t] \ people_said'[t]
    BY <1>4, <1>7, <2>2, <2>3
  <2> QED  BY <2>1, <2>2, <2>4, <2>5
<1>26. StandingIsThere'
  BY <1>10, <1>25 DEF StandingIsThere
<1>27. StandingAreApart'
  BY <1>10 DEF StandingAreApart, PeopleInv
<1>28. ASSUME NEW q \in People
       PROVE  Accounted(q)'
  <2>1. Accounted(q)
    BY AccountedMeans DEF PeopleInv
  <2>2. people_said'[q] \subseteq people_has'[q]
    BY <1>4, <1>7, <1>24, <2>1 DEF Accounted
  <2>3. ASSUME NEW f \in people_has'[q] \ people_said'[q]
        PROVE  \E x \in People : /\ people_audit'[x].active /\ people_audit'[x].survivor = q
                                 /\ f \in people_audit'[x].facts
    <3>1. f \in people_has[q] \ people_said[q] /\ ~ (q = s /\ f \in facts)
      BY <1>4, <1>7, <2>3
    <3>2. PICK x \in People : /\ people_audit[x].active /\ people_audit[x].survivor = q
                              /\ f \in people_audit[x].facts
      BY <2>1, <3>1 DEF Accounted
    <3>3. x # d
      BY <1>2, <1>4, <3>1, <3>2
    <3> QED  BY <1>8, <3>2, <3>3
  <2> QED  BY <2>2, <2>3 DEF Accounted
<1>29. Merging!FactsAreAccounted'
  BY <1>28, AccountedMeansNext
<1>30. \E a \in [People -> SUBSET People] : \E r \in [People -> People] :
         IsFamily(a, r)' /\ HoldersFollow(a, r)'
  BY <1>14, <1>15, <1>21
<1>31. StrayAreAway'
  <2>1. ASSUME NEW k \in people_stray'
        PROVE  people_mine[k] \in People \ {d} /\ people_audit[people_mine[k]].active
    <3>1. k \in Keys
      BY <1>4, <2>1 DEF Merging!TypeOK
    <3>2. k \in people_stray /\ people_holder[k] # d
      BY <1>3, <2>1, <3>1 DEF UndoneFrom
    <3>3. people_mine[k] \in People /\ people_audit[people_mine[k]].active
      BY <3>2 DEF PeopleInv, StrayAreAway
    <3>4. people_holder[k] = people_mine[k]
      BY <1>9, <1>17, <3>1, <3>2, <3>3
    <3> QED  BY <3>2, <3>3, <3>4
  <2> QED  BY <1>4, <1>8, <2>1 DEF StrayAreAway
<1> QED  BY <1>4, <1>22, <1>23, <1>26, <1>27, <1>29, <1>30, <1>31 DEF PeopleInv

-----------------------------------------------------------------------------
(* People: the line of merges.                                             *)

\* What a person has become is the end of the line, which is not longer than there are
\* people.
LEMMA BecomeIsRoot ==
  ASSUME Merging!TypeOK, NEW above, NEW root, IsFamily(above, root), NEW p \in People
  PROVE  Merging!Become(p) = root[p]
<1> DEFINE N == Cardinality(People)
           g == [q \in People |-> IF people_audit[q].active
                                  THEN people_audit[q].survivor ELSE q]
           Is(h) == h = [n \in 0 .. N |->
                           IF n = 0 THEN p
                           ELSE LET q == h[n - 1]
                                IN  IF people_audit[q].active
                                    THEN people_audit[q].survivor ELSE q]
<1>1. N \in Nat /\ IsFiniteSet(People)
  BY DataAssumption, FS_CardinalityType
<1>2. Merging!Become(p) = (CHOOSE h : Is(h))[N]
  <2>1. Merging!Cardinality(People) = N
    BY DEF Merging!Cardinality, Cardinality
  <2> HIDE DEF N
  <2> QED  BY <2>1 DEF Merging!Become
<1>3. \A q \in People : people_audit[q].active => people_audit[q].survivor \in People
  <2>1. ASSUME NEW q \in People, people_audit[q].active
        PROVE  people_audit[q].survivor \in People
    <3>1. people_audit[q] \in Merging!Audit \union {Merging!NoAudit}
      BY DEF Merging!TypeOK
    <3>2. people_audit[q] # Merging!NoAudit
      BY <2>1 DEF Merging!NoAudit
    <3>3. people_audit[q] \in Merging!Audit
      BY <3>1, <3>2
    <3> QED  BY <3>3 DEF Merging!Audit
  <2> QED  BY <2>1
<1>4. g \in [People -> People]
  BY <1>3
<1>5. PICK f : /\ f \in [0 .. N -> People]
               /\ f[0] = p /\ \A n \in 1 .. N : f[n] = g[f[n - 1]]
  <2> DEFINE next == [n \in 1 .. N |-> g]
  <2>1. IsNext(next, N, People)
    BY <1>4 DEF IsNext
  <2>2. \E f : IsSteps(f, p, next, N, People)
    <3> HIDE DEF next, g, N
    <3> QED  BY <1>1, <2>1, StepsExist
  <2> HIDE DEF g, N
  <2> QED  BY <2>2 DEF IsSteps
<1>6. Is(f)
  <2>1. ASSUME NEW n \in 0 .. N, n # 0
        PROVE  f[n] = IF people_audit[f[n - 1]].active
                      THEN people_audit[f[n - 1]].survivor ELSE f[n - 1]
    <3>1. n \in 1 .. N /\ n - 1 \in 0 .. N
      BY <1>1, <2>1
    <3> QED  BY <1>5, <3>1
  <2> HIDE DEF N
  <2> QED  BY <1>5, <2>1
<1>7. PICK step : step = (CHOOSE h : Is(h))
  OBVIOUS
<1>8. Is(step)
  BY <1>6, <1>7
<1>9. step[0] = p /\ \A n \in 1 .. N : step[n] = IF people_audit[step[n - 1]].active
                                              THEN people_audit[step[n - 1]].survivor
                                              ELSE step[n - 1]
  <2>1. 0 \in 0 .. N /\ \A n \in 1 .. N : n \in 0 .. N /\ n # 0
    BY <1>1
  <2> HIDE DEF N
  <2> QED  BY <1>8, <2>1
<1> DEFINE G == {n \in 0 .. N :
                   /\ step[n] \in People /\ root[step[n]] = root[p]
                   /\ people_audit[step[n]].active =>
                        Cardinality(above[step[n]]) + n < N}
<1>10. \A q \in People : /\ IsFiniteSet(above[q]) /\ Cardinality(above[q]) \in Nat
                         /\ Cardinality(above[q]) < N
  <2>1. ASSUME NEW q \in People
        PROVE  /\ IsFiniteSet(above[q]) /\ Cardinality(above[q]) \in Nat
               /\ Cardinality(above[q]) < N
    <3>1. above[q] \subseteq People /\ q \notin above[q]
      BY DEF IsFamily
    <3>2. above[q] # People
      BY <3>1
    <3> QED  BY <1>1, <3>1, <3>2, PartIsSmaller
  <2> QED  BY <2>1
<1>11. 0 \in G
  BY <1>1, <1>9, <1>10
<1>12. ASSUME NEW n \in 1 .. N, n - 1 \in G
       PROVE  n \in G
  <2>1. PICK q : q = step[n - 1]
    OBVIOUS
  <2>2. /\ q \in People /\ root[q] = root[p]
        /\ people_audit[q].active => Cardinality(above[q]) + (n - 1) < N
    BY <1>12, <2>1
  <2>3. CASE ~ people_audit[q].active
    <3>1. step[n] = q /\ n \in 0 .. N
      BY <1>9, <2>1, <2>3
    <3> QED  BY <2>2, <2>3, <3>1
  <2>4. CASE people_audit[q].active
    <3>1. PICK s \in People : s = people_audit[q].survivor
      BY <1>3, <2>2, <2>4
    <3>2. step[n] = s /\ n \in 0 .. N
      BY <1>9, <2>1, <2>4, <3>1
    <3>3. above[q] = {s} \union above[s] /\ root[s] = root[q] /\ s \notin above[s]
      BY <2>2, <2>4, <3>1 DEF IsFamily
    <3>4. Cardinality(above[q]) = Cardinality(above[s]) + 1
      <4>1. IsFiniteSet(above[s])
        BY <1>10
      <4>2. above[q] = above[s] \union {s}
        BY <3>3
      <4> QED  BY <3>3, <4>1, <4>2, FS_AddElement
    <3>5. Cardinality(above[s]) + n < N
      <4>1. Cardinality(above[s]) \in Nat /\ Cardinality(above[q]) \in Nat /\ n \in Nat
        BY <1>10, <2>2
      <4> HIDE DEF N
      <4> QED  BY <1>1, <2>2, <2>4, <3>4, <4>1
    <3> HIDE DEF N
    <3> QED  BY <2>2, <3>2, <3>3, <3>5
  <2> QED  BY <2>3, <2>4
<1>13. N \in G
  <2>1. N \in 0 .. N
    BY <1>1
  <2>2. \A n \in 0 .. N : n \in G
    <3> HIDE DEF G, N
    <3> QED  BY <1>1, <1>11, <1>12, StepByStep
  <2> HIDE DEF G
  <2> QED  BY <2>1, <2>2
<1>14. step[N] \in People /\ root[step[N]] = root[p] /\ ~ people_audit[step[N]].active
  <2>1. PICK q \in People :
          /\ q = step[N] /\ root[q] = root[p]
          /\ people_audit[q].active => Cardinality(above[q]) + N < N
    BY <1>13
  <2>2. Cardinality(above[q]) \in Nat
    BY <1>10
  <2>3. ~ people_audit[q].active
    <3> HIDE DEF N
    <3> QED  BY <1>1, <2>1, <2>2
  <2> HIDE DEF N
  <2> QED  BY <2>1, <2>3
<1>15. root[step[N]] = step[N]
  BY <1>14 DEF IsFamily
<1> HIDE DEF N, Is
<1> QED  BY <1>2, <1>7, <1>14, <1>15

-----------------------------------------------------------------------------
(* People: what is kept by every operation.                                *)

LEMMA PeopleStart ==
  ASSUME Merging!Init
  PROVE  PeopleInv
<1>1. /\ people_hidden = {} /\ people_has = [p \in People |-> {}]
      /\ people_holder = [k \in Keys |-> None] /\ people_mine = [k \in Keys |-> None]
      /\ people_confirmed = [p \in People |-> [k \in Keys |-> "none"]]
      /\ people_audit = [p \in People |-> Merging!NoAudit]
      /\ people_said = [p \in People |-> {}] /\ people_asked = {} /\ people_stray = {}
  BY DEF Merging!Init
<1>2. \A p \in People : ~ people_audit[p].active
  BY <1>1 DEF Merging!NoAudit
<1>3. Merging!TypeOK
  BY <1>1 DEF Merging!TypeOK
<1>4. MergedAreHidden /\ StrayAreAway /\ StandingIsThere /\ StandingAreApart
  BY <1>1, <1>2 DEF MergedAreHidden, StrayAreAway, StandingIsThere, StandingAreApart, Standing
<1>5. LinksAreHeld
  BY <1>1 DEF LinksAreHeld
<1>6. Merging!FactsAreAccounted
  <2>1. \A p \in People : Accounted(p)
    BY <1>1 DEF Accounted
  <2> QED  BY <2>1, AccountedMeans
<1>7. PICK above \in [People -> SUBSET People] : above = [p \in People |-> {}]
  OBVIOUS
<1>8. PICK root \in [People -> People] : root = [p \in People |-> p]
  OBVIOUS
<1>9. IsFamily(above, root)
  BY <1>2, <1>7, <1>8 DEF IsFamily
<1>10. HoldersFollow(above, root)
  BY <1>1, <1>2 DEF HoldersFollow, Standing
<1> QED  BY <1>3, <1>4, <1>5, <1>6, <1>9, <1>10 DEF PeopleInv

LEMMA PeopleStep ==
  ASSUME PeopleInv, Merging!Next
  PROVE  PeopleInv'
<1>1. \/ \E p \in People, k \in Keys : Merging!Ask(p, k)
      \/ \E r \in people_asked : Merging!Attach(r) \/ Merging!Bind(r) \/ Merging!Retract(r)
      \/ \E p \in People, f \in Roles \union TaskRoles : Merging!Say(p, f) \/ Merging!Unsay(p, f)
      \/ \E p \in People : Merging!Delete(p)
      \/ \E s, d \in People : Merging!Merge(s, d) \/ Merging!Undo(s, d)
  BY DEF Merging!Next, Merging!Facts
<1> QED  BY <1>1, PeopleAsk, PeopleAttach, PeopleBind, PeopleRetract, PeopleSay, PeopleUnsay,
            PeopleDelete, PeopleMerge, PeopleUndo

LEMMA PeopleKept ==
  ASSUME PeopleInv, UNCHANGED peopleVars
  PROVE  PeopleInv'
<1>1. /\ people_hidden' = people_hidden /\ people_holder' = people_holder
      /\ people_confirmed' = people_confirmed /\ people_has' = people_has
      /\ people_audit' = people_audit /\ people_mine' = people_mine
      /\ people_said' = people_said /\ people_asked' = people_asked
      /\ people_stray' = people_stray
  BY DEF peopleVars
<1>2. PICK above \in [People -> SUBSET People], root \in [People -> People] :
        IsFamily(above, root) /\ HoldersFollow(above, root)
  BY DEF PeopleInv
<1>3. IsFamily(above, root)'
  BY <1>1, <1>2 DEF IsFamily
<1>4. HoldersFollow(above, root)'
  BY <1>1, <1>2 DEF HoldersFollow, Standing, Brought
<1>5. Merging!TypeOK' /\ MergedAreHidden' /\ StrayAreAway' /\ LinksAreHeld'
  BY <1>1 DEF PeopleInv, Merging!TypeOK, MergedAreHidden, StrayAreAway, LinksAreHeld
<1>6. StandingIsThere' /\ StandingAreApart'
  BY <1>1 DEF PeopleInv, StandingIsThere, StandingAreApart, Standing
<1>7. Merging!FactsAreAccounted'
  BY <1>1 DEF PeopleInv, Merging!FactsAreAccounted
<1>8. \E a \in [People -> SUBSET People] : \E r \in [People -> People] :
        IsFamily(a, r)' /\ HoldersFollow(a, r)'
  BY <1>3, <1>4
<1> QED  BY <1>5, <1>6, <1>7, <1>8 DEF PeopleInv

LEMMA PeopleAreSafe ==
  ASSUME PeopleInv
  PROVE  Merging!IdentitiesFollowMerges /\ Merging!FactsAreAccounted
<1>1. PICK above \in [People -> SUBSET People], root \in [People -> People] :
        IsFamily(above, root) /\ HoldersFollow(above, root)
  BY DEF PeopleInv
<1>2. Merging!TypeOK
  BY DEF PeopleInv
<1>3. \A p \in People : Merging!Become(p) = root[p]
  BY <1>1, <1>2, BecomeIsRoot
<1>4. \A k \in Keys : people_mine[k] \in People \union {None}
  BY PeopleTypes
<1>5. ASSUME NEW k \in Keys
      PROVE  people_holder[k] = CASE people_mine[k] = None -> None
                                  [] people_mine[k] # None /\ k \in people_stray ->
                                       people_mine[k]
                                  [] OTHER -> Merging!Become(people_mine[k])
  BY <1>1, <1>3, <1>4 DEF HoldersFollow
<1>6. Merging!IdentitiesFollowMerges
  BY <1>5 DEF Merging!IdentitiesFollowMerges
<1> QED  BY <1>6 DEF PeopleInv

-----------------------------------------------------------------------------
(* Conversations: the two halves of what clients are told.                 *)

EndingsAgree ==
  \A f \in Finishes : conv_heard[f] # None =>
    \A c \in Chats : conv_turn[c] = conv_finish[f].plan =>
      conv_heard[f] = conv_ending[conv_finish[f].plan]

AnswersAgree ==
  \A r \in Requests : conv_seen[r] # None =>
    /\ conv_turn[conv_request[r].chat] # None
    /\ conv_request[r].late \/ conv_turn[conv_request[r].chat] = r
         => conv_seen[r] = conv_turn[conv_request[r].chat]

Undecided(c) ==
  c # None /\ conv_turn[c] # None /\ conv_plan[conv_turn[c]] = "pending"

LateOnesAreAway ==
  \A c \in conv_created \ {conv_current} : Undecided(c) => c \in conv_away

LEMMA ConvMeans ==
  ConvInv <=> /\ Assistant!TypeOK
              /\ TurnsAreOver /\ RequestsInOrder /\ FinishesInOrder
              /\ EndingsAgree /\ AnswersAgree /\ LateOnesAreAway
<1>1. Assistant!TranscriptIsSound <=> EndingsAgree /\ AnswersAgree
  BY DEF Assistant!TranscriptIsSound, EndingsAgree, AnswersAgree
<1>2. Assistant!NothingWaitsElsewhere <=> LateOnesAreAway
  BY DEF Assistant!NothingWaitsElsewhere, LateOnesAreAway, Assistant!Unresolved, Undecided
<1> QED  BY <1>1, <1>2 DEF ConvInv

LEMMA ConvMeansNext ==
  ConvInv' <=> /\ Assistant!TypeOK'
               /\ TurnsAreOver' /\ RequestsInOrder' /\ FinishesInOrder'
               /\ EndingsAgree' /\ AnswersAgree' /\ LateOnesAreAway'
<1>1. Assistant!TranscriptIsSound' <=> EndingsAgree' /\ AnswersAgree'
  BY DEF Assistant!TranscriptIsSound, EndingsAgree, AnswersAgree
<1>2. Assistant!NothingWaitsElsewhere' <=> LateOnesAreAway'
  BY DEF Assistant!NothingWaitsElsewhere, LateOnesAreAway, Assistant!Unresolved, Undecided
<1> QED  BY <1>1, <1>2 DEF ConvInv

\* The requests that send a turn, and those that resume a plan.
Sent(chats) == [phase : {"asked", "answered", "over"}, chat : chats, late : BOOLEAN]
Resumed == [phase : {"asked", "checked", "over"}, plan : Requests]

LEMMA ConvTypes ==
  ASSUME Assistant!TypeOK
  PROVE  /\ conv_created \subseteq Chats /\ conv_current \in conv_created \union {None}
         /\ conv_turn \in [Chats -> Requests \union {None}] /\ conv_away \subseteq Chats
         /\ conv_request \in [Requests -> {Assistant!Idle} \union Sent(conv_created)]
         /\ conv_plan \in [Requests -> {"none", "pending", "expired", "rejected", "executed",
                                        "failed"}]
         /\ conv_finish \in [Finishes -> {Assistant!Idle} \union Resumed]
         /\ conv_ending \in [Requests -> Finishes \union {None}]
         /\ conv_seen \in [Requests -> Requests \union {None}]
         /\ conv_heard \in [Finishes -> Finishes \union {None}]
         /\ None \notin Chats \union Requests \union Finishes
BY DataAssumption DEF Assistant!TypeOK, Assistant!Statuses, Sent, Resumed

LEMMA ConvTypesSuffice ==
  ASSUME /\ conv_created' \subseteq Chats /\ conv_current' \in conv_created' \union {None}
         /\ conv_turn' \in [Chats -> Requests \union {None}] /\ conv_away' \subseteq Chats
         /\ conv_request' \in [Requests -> {Assistant!Idle} \union Sent(conv_created')]
         /\ conv_plan' \in [Requests -> {"none", "pending", "expired", "rejected", "executed",
                                         "failed"}]
         /\ conv_finish' \in [Finishes -> {Assistant!Idle} \union Resumed]
         /\ conv_ending' \in [Requests -> Finishes \union {None}]
         /\ conv_seen' \in [Requests -> Requests \union {None}]
         /\ conv_heard' \in [Finishes -> Finishes \union {None}]
  PROVE  Assistant!TypeOK'
BY DEF Assistant!TypeOK, Assistant!Statuses, Sent, Resumed

LEMMA SentTypes ==
  ASSUME Assistant!TypeOK, NEW r \in Requests
  PROVE  /\ conv_request[r] # Assistant!Idle =>
              /\ conv_request[r] \in Sent(conv_created)
              /\ conv_request[r].phase \in {"asked", "answered", "over"}
              /\ conv_request[r].chat \in conv_created /\ conv_request[r].late \in BOOLEAN
         /\ conv_request[r].phase \in {"asked", "answered", "over"} =>
              conv_request[r] # Assistant!Idle
<1>1. Assistant!Idle.phase = "idle"
  BY DEF Assistant!Idle
<1> QED  BY <1>1, ConvTypes DEF Sent

LEMMA ResumedTypes ==
  ASSUME Assistant!TypeOK, NEW f \in Finishes
  PROVE  /\ conv_finish[f] # Assistant!Idle =>
              /\ conv_finish[f] \in Resumed
              /\ conv_finish[f].phase \in {"asked", "checked", "over"}
              /\ conv_finish[f].plan \in Requests
         /\ conv_finish[f].phase \in {"asked", "checked", "over"} =>
              conv_finish[f] # Assistant!Idle
<1>1. Assistant!Idle.phase = "idle"
  BY DEF Assistant!Idle
<1> QED  BY <1>1, ConvTypes DEF Resumed

\* A conversation is created or selected.
LEMMA ConvSwitch ==
  ASSUME ConvInv, NEW c \in Chats, Assistant!May(c),
         conv_current' = c,
         conv_created' = conv_created \union {c},
         UNCHANGED <<conv_turn, conv_away, conv_request, conv_plan, conv_finish, conv_ending,
                     conv_seen, conv_heard>>
  PROVE  ConvInv'
<1>1. Assistant!TypeOK
  BY ConvMeans
<1>2. Assistant!TypeOK'
  <2>1. Sent(conv_created) \subseteq Sent(conv_created')
    BY DEF Sent
  <2> QED  BY <1>1, <2>1, ConvTypes, ConvTypesSuffice
<1>3. TurnsAreOver' /\ RequestsInOrder' /\ FinishesInOrder' /\ EndingsAgree' /\ AnswersAgree'
  BY ConvMeans DEF TurnsAreOver, RequestsInOrder, FinishesInOrder, EndingsAgree, AnswersAgree,
     Over
<1>4. conv_current = c \/ ~ Undecided(conv_current)
  BY DEF Assistant!May, Assistant!Unresolved, Undecided
<1>5. \A x : Undecided(x)' <=> Undecided(x)
  BY DEF Undecided
<1>6. LateOnesAreAway'
  BY <1>4, <1>5, ConvMeans DEF LateOnesAreAway
<1> QED  BY <1>2, <1>3, <1>6, ConvMeansNext

LEMMA ConvCreateCurrent ==
  ASSUME ConvInv, NEW c \in Chats, Assistant!CreateCurrent(c)
  PROVE  ConvInv'
BY ConvSwitch DEF Assistant!CreateCurrent

LEMMA ConvSelect ==
  ASSUME ConvInv, NEW c \in Chats, Assistant!Select(c)
  PROVE  ConvInv'
<1>1. conv_created' = conv_created \union {c}
  BY DEF Assistant!Select
<1> QED  BY <1>1, ConvSwitch DEF Assistant!Select

LEMMA ConvBegin ==
  ASSUME ConvInv, NEW r \in Requests, NEW c \in Chats, Assistant!Begin(r, c)
  PROVE  ConvInv'
<1>1. Assistant!TypeOK
  BY ConvMeans
<1>2. PICK told \in BOOLEAN : told <=> conv_turn[c] # None
  OBVIOUS
<1>3. PICK new : new = IF told THEN [phase |-> "over", chat |-> c, late |-> TRUE]
                       ELSE [phase |-> "asked", chat |-> c, late |-> FALSE]
  OBVIOUS
<1>4. /\ conv_request[r] = Assistant!Idle /\ c \in conv_created
      /\ conv_request' = [conv_request EXCEPT ![r] = new]
      /\ conv_seen' = IF told THEN [conv_seen EXCEPT ![r] = conv_turn[c]] ELSE conv_seen
      /\ UNCHANGED <<conv_created, conv_current, conv_turn, conv_away, conv_plan, conv_finish,
                     conv_ending, conv_heard>>
  BY <1>2, <1>3 DEF Assistant!Begin, Assistant!chat
<1>5. /\ new \in Sent(conv_created) /\ new.chat = c
      /\ new.phase = (IF told THEN "over" ELSE "asked") /\ new.late = told
  BY <1>3, <1>4 DEF Sent
<1>6. /\ conv_request' \in [Requests -> {Assistant!Idle} \union Sent(conv_created)]
      /\ conv_request'[r] = new
      /\ \A x \in Requests : x # r => conv_request'[x] = conv_request[x]
  BY <1>1, <1>4, <1>5, ConvTypes
<1>7. /\ conv_seen' \in [Requests -> Requests \union {None}]
      /\ \A x \in Requests : x # r => conv_seen'[x] = conv_seen[x]
      /\ conv_seen'[r] = IF told THEN conv_turn[c] ELSE conv_seen[r]
  BY <1>1, <1>2, <1>4, ConvTypes
<1>8. Assistant!TypeOK'
  BY <1>1, <1>4, <1>6, <1>7, ConvTypes, ConvTypesSuffice
<1>9. conv_seen[r] = None /\ ~ Over(r)
  <2>1. conv_request[r].phase # "over"
    BY <1>4 DEF Assistant!Idle
  <2> QED  BY <2>1, ConvMeans DEF RequestsInOrder, Over
<1>10. \A x \in Requests : Over(x) => conv_request'[x].phase = "over" /\ x # r
  BY <1>6, <1>9 DEF Over
<1>11. TurnsAreOver'
  BY <1>1, <1>4, <1>10, ConvMeans, ConvTypes DEF TurnsAreOver, Over
<1>12. RequestsInOrder'
  <2>1. ASSUME NEW x \in Requests
        PROVE  /\ conv_seen'[x] # None => /\ conv_request'[x].phase = "over"
                                         /\ conv_request'[conv_seen'[x]].phase = "over"
               /\ conv_request'[x].phase \in {"asked", "answered"} => ~ conv_request'[x].late
               /\ conv_plan'[x] \in {"executed", "failed", "rejected"} =>
                    conv_request'[x].phase = "over"
    <3>1. CASE x # r
      <4>1. conv_seen[x] # None => conv_seen[x] \in Requests
        BY <1>1, ConvTypes
      <4>2. conv_seen[x] # None => Over(x) /\ Over(conv_seen[x])
        BY ConvMeans DEF RequestsInOrder
      <4>3. conv_seen'[x] # None => /\ conv_request'[x].phase = "over"
                                    /\ conv_request'[conv_seen'[x]].phase = "over"
        BY <1>7, <1>10, <3>1, <4>1, <4>2
      <4> QED  BY <1>4, <1>6, <1>10, <3>1, <4>3, ConvMeans DEF RequestsInOrder
    <3>2. CASE x = r
      <4>1. told => conv_turn[c] \in Requests /\ Over(conv_turn[c])
        BY <1>1, <1>2, ConvMeans, ConvTypes DEF TurnsAreOver
      <4>2. conv_plan'[r] \notin {"executed", "failed", "rejected"}
        BY <1>4, <1>9, ConvMeans DEF RequestsInOrder
      <4>3. conv_seen'[r] # None => told /\ conv_seen'[r] = conv_turn[c]
        BY <1>7, <1>9
      <4> QED  BY <1>5, <1>6, <1>10, <3>2, <4>1, <4>2, <4>3
    <3> QED  BY <3>1, <3>2
  <2> QED  BY <2>1 DEF RequestsInOrder, Over
<1>13. FinishesInOrder' /\ EndingsAgree'
  BY <1>4, ConvMeans DEF FinishesInOrder, EndingsAgree
<1>14. AnswersAgree'
  BY <1>2, <1>4, <1>5, <1>6, <1>7, <1>9, ConvMeans DEF AnswersAgree
<1>15. LateOnesAreAway'
  BY <1>4, ConvMeans DEF LateOnesAreAway, Undecided
<1> QED  BY <1>8, <1>11, <1>12, <1>13, <1>14, <1>15, ConvMeansNext

LEMMA SentMoves ==
  ASSUME Assistant!TypeOK, NEW r \in Requests, conv_request[r] # Assistant!Idle,
         NEW phase \in {"asked", "answered", "over"},
         conv_request' = [conv_request EXCEPT ![r].phase = phase]
  PROVE  /\ conv_request' \in [Requests -> {Assistant!Idle} \union Sent(conv_created)]
         /\ conv_request'[r].phase = phase
         /\ \A x \in Requests : /\ conv_request'[x].chat = conv_request[x].chat
                                /\ conv_request'[x].late = conv_request[x].late
                                /\ x # r => conv_request'[x].phase = conv_request[x].phase
<1>1. PICK old : old = conv_request[r]
  OBVIOUS
<1>2. PICK new : new = [old EXCEPT !.phase = phase]
  OBVIOUS
<1>3. conv_request' = [conv_request EXCEPT ![r] = new]
  BY <1>1, <1>2
<1>4. new \in Sent(conv_created) /\ new.phase = phase /\ new.chat = old.chat /\ new.late = old.late
  <2>1. old \in Sent(conv_created)
    BY <1>1, SentTypes
  <2> QED  BY <1>2, <2>1 DEF Sent
<1>5. conv_request \in [Requests -> {Assistant!Idle} \union Sent(conv_created)]
  BY ConvTypes
<1> HIDE DEF Sent
<1> QED  BY <1>1, <1>3, <1>4, <1>5

LEMMA ResumedMoves ==
  ASSUME Assistant!TypeOK, NEW f \in Finishes, conv_finish[f] # Assistant!Idle,
         NEW phase \in {"asked", "checked", "over"},
         conv_finish' = [conv_finish EXCEPT ![f].phase = phase]
  PROVE  /\ conv_finish' \in [Finishes -> {Assistant!Idle} \union Resumed]
         /\ conv_finish'[f].phase = phase
         /\ \A g \in Finishes : /\ conv_finish'[g].plan = conv_finish[g].plan
                                /\ g # f => conv_finish'[g] = conv_finish[g]
<1>1. PICK old : old = conv_finish[f]
  OBVIOUS
<1>2. PICK new : new = [old EXCEPT !.phase = phase]
  OBVIOUS
<1>3. conv_finish' = [conv_finish EXCEPT ![f] = new]
  BY <1>1, <1>2
<1>4. new \in Resumed /\ new.phase = phase /\ new.plan = old.plan
  <2>1. old \in Resumed
    BY <1>1, ResumedTypes
  <2> QED  BY <1>2, <2>1 DEF Resumed
<1>5. conv_finish \in [Finishes -> {Assistant!Idle} \union Resumed]
  BY ConvTypes
<1> QED  BY <1>1, <1>3, <1>4, <1>5

\* A plan that is about to be staged has not been resumed, and is in no transcript.
LEMMA PlanIsNew ==
  ASSUME ConvInv, NEW r \in Requests, conv_request[r].phase \in {"asked", "answered"}
  PROVE  /\ conv_seen[r] = None /\ ~ conv_request[r].late /\ ~ Over(r)
         /\ \A x \in Requests : conv_seen[x] # r
         /\ \A c \in Chats : conv_turn[c] # r
         /\ \A f \in Finishes : conv_finish[f] # Assistant!Idle => conv_finish[f].plan # r
<1>1. ~ Over(r) /\ r # None
  BY ConvTypes, ConvMeans DEF Over
<1> QED  BY <1>1, ConvMeans DEF RequestsInOrder, TurnsAreOver, FinishesInOrder

LEMMA ConvAnswer ==
  ASSUME ConvInv, NEW r \in Requests, Assistant!Answer(r)
  PROVE  ConvInv'
<1>1. Assistant!TypeOK
  BY ConvMeans
<1>2. /\ conv_request[r].phase = "asked"
      /\ conv_request' = [conv_request EXCEPT ![r].phase = "answered"]
      /\ conv_plan' \in {conv_plan, [conv_plan EXCEPT ![r] = "pending"]}
      /\ UNCHANGED <<conv_created, conv_current, conv_turn, conv_away, conv_finish,
                     conv_ending, conv_seen, conv_heard>>
  BY DEF Assistant!Answer, Assistant!chat
<1>3. /\ conv_request' \in [Requests -> {Assistant!Idle} \union Sent(conv_created)]
      /\ conv_request'[r].phase = "answered"
      /\ \A x \in Requests : /\ conv_request'[x].chat = conv_request[x].chat
                             /\ conv_request'[x].late = conv_request[x].late
                             /\ x # r => conv_request'[x].phase = conv_request[x].phase
  BY <1>1, <1>2, SentTypes, SentMoves
<1>4. /\ conv_plan' \in [Requests -> {"none", "pending", "expired", "rejected", "executed",
                                      "failed"}]
      /\ \A x \in Requests : x # r => conv_plan'[x] = conv_plan[x]
      /\ conv_plan'[r] \in {conv_plan[r], "pending"}
  BY <1>1, <1>2, ConvTypes
<1>5. Assistant!TypeOK'
  BY <1>1, <1>2, <1>3, <1>4, ConvTypes, ConvTypesSuffice
<1>6. /\ conv_seen[r] = None /\ ~ conv_request[r].late /\ ~ Over(r)
      /\ \A x \in Requests : conv_seen[x] # r
      /\ \A c \in Chats : conv_turn[c] # r
      /\ \A f \in Finishes : conv_finish[f] # Assistant!Idle => conv_finish[f].plan # r
  BY <1>2, PlanIsNew
<1>7. \A x \in Requests : Over(x) => conv_request'[x].phase = "over"
  BY <1>3, <1>6 DEF Over
<1>8. TurnsAreOver'
  BY <1>1, <1>2, <1>7, ConvMeans, ConvTypes DEF TurnsAreOver, Over
<1>9. RequestsInOrder'
  <2>1. ASSUME NEW x \in Requests
        PROVE  /\ conv_seen[x] # None => /\ conv_request'[x].phase = "over"
                                         /\ conv_request'[conv_seen[x]].phase = "over"
               /\ conv_request'[x].phase \in {"asked", "answered"} => ~ conv_request'[x].late
               /\ conv_plan'[x] \in {"executed", "failed", "rejected"} =>
                    conv_request'[x].phase = "over"
    <3>1. conv_seen[x] \in Requests \union {None}
      BY <1>1, ConvTypes
    <3>2. CASE x = r
      BY <1>3, <1>4, <1>6, <3>2, ConvMeans DEF RequestsInOrder
    <3>3. CASE x # r
      BY <1>3, <1>4, <1>7, <3>1, <3>3, ConvMeans DEF RequestsInOrder
    <3> QED  BY <3>2, <3>3
  <2> QED  BY <1>2, <2>1 DEF RequestsInOrder, Over
<1>10. FinishesInOrder'
  <2>1. ASSUME NEW f \in Finishes, conv_finish[f] # Assistant!Idle
        PROVE  conv_plan'[conv_finish[f].plan] = conv_plan[conv_finish[f].plan]
    BY <1>1, <1>4, <1>6, <2>1, ResumedTypes
  <2> QED  BY <1>2, <2>1, ConvMeans DEF FinishesInOrder
<1>11. EndingsAgree'
  BY <1>2, ConvMeans DEF EndingsAgree
<1>12. AnswersAgree'
  BY <1>2, <1>3, ConvMeans DEF AnswersAgree
<1>13. LateOnesAreAway'
  <2>1. \A c \in Chats : conv_turn[c] # None => conv_plan'[conv_turn[c]] = conv_plan[conv_turn[c]]
    BY <1>1, <1>4, <1>6, ConvTypes
  <2> QED  BY <1>1, <1>2, <2>1, ConvMeans, ConvTypes DEF LateOnesAreAway, Undecided
<1> QED  BY <1>5, <1>8, <1>9, <1>10, <1>11, <1>12, <1>13, ConvMeansNext

LEMMA ConvPersist ==
  ASSUME ConvInv, NEW r \in Requests, Assistant!Persist(r)
  PROVE  ConvInv'
<1>1. Assistant!TypeOK
  BY ConvMeans
<1>2. PICK c : c = conv_request[r].chat
  OBVIOUS
<1>3. PICK first \in BOOLEAN : first <=> conv_turn[c] = None
  OBVIOUS
<1>4. /\ conv_request[r].phase = "answered"
      /\ conv_turn' = [conv_turn EXCEPT ![c] = IF first THEN r ELSE conv_turn[c]]
      /\ conv_away' = IF first /\ conv_current # c THEN conv_away \union {c} ELSE conv_away
      /\ conv_request' = [conv_request EXCEPT ![r].phase = "over"]
      /\ conv_seen' = [conv_seen EXCEPT ![r] = r]
      /\ UNCHANGED <<conv_created, conv_current, conv_plan, conv_finish, conv_ending,
                     conv_heard>>
  BY <1>2, <1>3 DEF Assistant!Persist
<1>5. c \in Chats /\ c \in conv_created
  BY <1>1, <1>2, <1>4, SentTypes, ConvTypes
<1>6. /\ conv_request' \in [Requests -> {Assistant!Idle} \union Sent(conv_created)]
      /\ conv_request'[r].phase = "over"
      /\ \A x \in Requests : /\ conv_request'[x].chat = conv_request[x].chat
                             /\ conv_request'[x].late = conv_request[x].late
                             /\ x # r => conv_request'[x].phase = conv_request[x].phase
  BY <1>1, <1>4, SentTypes, SentMoves
<1>7. /\ conv_turn' \in [Chats -> Requests \union {None}]
      /\ \A x \in Chats : conv_turn'[x] = IF x = c /\ first THEN r ELSE conv_turn[x]
  BY <1>1, <1>4, <1>5, ConvTypes
<1>8. /\ conv_seen' \in [Requests -> Requests \union {None}]
      /\ \A x \in Requests : conv_seen'[x] = IF x = r THEN r ELSE conv_seen[x]
  BY <1>1, <1>4, ConvTypes
<1>9. Assistant!TypeOK'
  BY <1>1, <1>4, <1>5, <1>6, <1>7, <1>8, ConvTypes, ConvTypesSuffice
<1>10. /\ conv_seen[r] = None /\ ~ conv_request[r].late /\ ~ Over(r)
       /\ \A x \in Requests : conv_seen[x] # r
       /\ \A x \in Chats : conv_turn[x] # r
       /\ \A f \in Finishes : conv_finish[f] # Assistant!Idle => conv_finish[f].plan # r
  BY <1>4, PlanIsNew
<1>11. /\ \A x \in Requests : Over(x) => conv_request'[x].phase = "over"
       /\ r # None
  BY <1>1, <1>6, ConvTypes DEF Over
<1>12. TurnsAreOver'
  <2>1. \A x \in Chats : conv_turn'[x] # None => conv_request'[conv_turn'[x]].phase = "over"
    BY <1>1, <1>6, <1>7, <1>11, ConvMeans, ConvTypes DEF TurnsAreOver
  <2> QED  BY <2>1 DEF TurnsAreOver, Over
<1>13. RequestsInOrder'
  <2>1. ASSUME NEW x \in Requests
        PROVE  /\ conv_seen'[x] # None => /\ conv_request'[x].phase = "over"
                                          /\ conv_request'[conv_seen'[x]].phase = "over"
               /\ conv_request'[x].phase \in {"asked", "answered"} => ~ conv_request'[x].late
               /\ conv_plan'[x] \in {"executed", "failed", "rejected"} =>
                    conv_request'[x].phase = "over"
    <3>1. conv_seen[x] \in Requests \union {None}
      BY <1>1, ConvTypes
    <3>2. CASE x = r
      BY <1>6, <1>8, <3>2
    <3>3. CASE x # r
      BY <1>4, <1>6, <1>8, <1>11, <3>1, <3>3, ConvMeans DEF RequestsInOrder
    <3> QED  BY <3>2, <3>3
  <2> QED  BY <2>1 DEF RequestsInOrder, Over
<1>14. FinishesInOrder'
  BY <1>4, ConvMeans DEF FinishesInOrder
<1>15. EndingsAgree'
  <2>1. ASSUME NEW f \in Finishes, conv_heard[f] # None,
               NEW x \in Chats, conv_turn'[x] = conv_finish[f].plan
        PROVE  conv_heard[f] = conv_ending[conv_finish[f].plan]
    <3>1. conv_finish[f].phase = "over"
      BY <2>1, ConvMeans DEF FinishesInOrder
    <3>2. conv_finish[f].plan # r
      BY <1>1, <1>10, <3>1, ResumedTypes
    <3>3. conv_turn[x] = conv_finish[f].plan
      BY <1>7, <2>1, <3>2
    <3> QED  BY <2>1, <3>3, ConvMeans DEF EndingsAgree
  <2> QED  BY <1>4, <2>1 DEF EndingsAgree
<1>16. AnswersAgree'
  <2>1. ASSUME NEW x \in Requests, conv_seen'[x] # None
        PROVE  /\ conv_turn'[conv_request[x].chat] # None
               /\ conv_request[x].late \/ conv_turn'[conv_request[x].chat] = x
                    => conv_seen'[x] = conv_turn'[conv_request[x].chat]
    <3>1. CASE x = r
      BY <1>2, <1>3, <1>5, <1>7, <1>8, <1>10, <1>11, <3>1
    <3>2. CASE x # r
      <4>1. /\ conv_seen'[x] = conv_seen[x]
            /\ conv_turn[conv_request[x].chat] # None
            /\ conv_request[x].late \/ conv_turn[conv_request[x].chat] = x
                 => conv_seen[x] = conv_turn[conv_request[x].chat]
        BY <1>8, <2>1, <3>2, ConvMeans DEF AnswersAgree
      <4>2. conv_request[x].chat \in Chats
        <5>1. conv_request[x].phase = "over"
          BY <2>1, <4>1, ConvMeans DEF RequestsInOrder, Over
        <5> QED  BY <1>1, <5>1, SentTypes, ConvTypes
      <4> QED  BY <1>3, <1>7, <4>1, <4>2
    <3> QED  BY <3>1, <3>2
  <2> QED  BY <1>6, <2>1 DEF AnswersAgree
<1>17. LateOnesAreAway'
  <2>1. ASSUME NEW x \in conv_created \ {conv_current}, Undecided(x)'
        PROVE  x \in conv_away'
    <3>1. CASE x = c /\ first
      BY <1>4, <2>1, <3>1
    <3>2. CASE ~ (x = c /\ first)
      <4>1. x \in Chats
        BY <1>1, ConvTypes
      <4>2. Undecided(x)
        BY <1>4, <1>7, <2>1, <3>2, <4>1 DEF Undecided
      <4> QED  BY <1>4, <4>2, ConvMeans DEF LateOnesAreAway
    <3> QED  BY <3>1, <3>2
  <2> QED  BY <1>4, <2>1 DEF LateOnesAreAway
<1> QED  BY <1>9, <1>12, <1>13, <1>14, <1>15, <1>16, <1>17, ConvMeansNext

LEMMA ConvAbort ==
  ASSUME ConvInv, NEW r \in Requests, Assistant!Abort(r)
  PROVE  ConvInv'
<1>1. Assistant!TypeOK
  BY ConvMeans
<1>2. /\ conv_request[r].phase \in {"asked", "answered"}
      /\ conv_request' = [conv_request EXCEPT ![r].phase = "over"]
      /\ UNCHANGED <<conv_created, conv_current, conv_turn, conv_away, conv_plan, conv_finish,
                     conv_ending, conv_seen, conv_heard>>
  BY DEF Assistant!Abort, Assistant!chat
<1>3. /\ conv_request' \in [Requests -> {Assistant!Idle} \union Sent(conv_created)]
      /\ conv_request'[r].phase = "over"
      /\ \A x \in Requests : /\ conv_request'[x].chat = conv_request[x].chat
                             /\ conv_request'[x].late = conv_request[x].late
                             /\ x # r => conv_request'[x].phase = conv_request[x].phase
  BY <1>1, <1>2, SentTypes, SentMoves
<1>4. Assistant!TypeOK'
  BY <1>1, <1>2, <1>3, ConvTypes, ConvTypesSuffice
<1>5. \A x \in Requests : Over(x) => conv_request'[x].phase = "over"
  BY <1>3 DEF Over
<1>6. TurnsAreOver'
  BY <1>1, <1>2, <1>5, ConvMeans, ConvTypes DEF TurnsAreOver, Over
<1>7. RequestsInOrder'
  <2>1. ASSUME NEW x \in Requests
        PROVE  /\ conv_seen[x] # None => /\ conv_request'[x].phase = "over"
                                         /\ conv_request'[conv_seen[x]].phase = "over"
               /\ conv_request'[x].phase \in {"asked", "answered"} => ~ conv_request'[x].late
               /\ conv_plan[x] \in {"executed", "failed", "rejected"} =>
                    conv_request'[x].phase = "over"
    <3>1. conv_seen[x] \in Requests \union {None}
      BY <1>1, ConvTypes
    <3> QED  BY <1>3, <1>5, <3>1, ConvMeans DEF RequestsInOrder
  <2> QED  BY <1>2, <2>1 DEF RequestsInOrder, Over
<1>8. FinishesInOrder' /\ EndingsAgree' /\ LateOnesAreAway'
  BY <1>2, ConvMeans DEF FinishesInOrder, EndingsAgree, LateOnesAreAway, Undecided
<1>9. AnswersAgree'
  BY <1>2, <1>3, ConvMeans DEF AnswersAgree
<1> QED  BY <1>4, <1>6, <1>7, <1>8, <1>9, ConvMeansNext

\* An undecided plan is decided, by somebody who has seen it, or expires.
LEMMA ConvPlan ==
  ASSUME ConvInv, NEW r \in Requests, conv_plan[r] = "pending",
         NEW s \in {"expired", "executed", "failed", "rejected"},
         s = "expired" \/ Assistant!Known(r),
         conv_plan' = [conv_plan EXCEPT ![r] = s],
         UNCHANGED <<conv_created, conv_current, conv_turn, conv_away, conv_request, conv_finish,
                     conv_ending, conv_seen, conv_heard>>
  PROVE  ConvInv'
<1>1. Assistant!TypeOK /\ r # None
  BY ConvMeans, ConvTypes
<1>2. /\ conv_plan' \in [Requests -> {"none", "pending", "expired", "rejected", "executed",
                                      "failed"}]
      /\ \A x \in Requests : conv_plan'[x] = IF x = r THEN s ELSE conv_plan[x]
  BY <1>1, ConvTypes
<1>3. Assistant!TypeOK'
  BY <1>1, <1>2, ConvTypes, ConvTypesSuffice
<1>4. s # "expired" => Over(r)
  BY <1>1, ConvMeans DEF Assistant!Known, RequestsInOrder, TurnsAreOver
<1>5. RequestsInOrder'
  BY <1>2, <1>4, ConvMeans DEF RequestsInOrder, Over
<1>6. FinishesInOrder'
  <2>1. ASSUME NEW f \in Finishes, conv_finish[f] # Assistant!Idle
        PROVE  conv_plan'[conv_finish[f].plan] = "executed"
    <3>1. conv_finish[f].plan \in Requests /\ conv_plan[conv_finish[f].plan] = "executed"
      BY <1>1, <2>1, ResumedTypes, ConvMeans DEF FinishesInOrder
    <3> QED  BY <1>2, <3>1
  <2> QED  BY <2>1, ConvMeans DEF FinishesInOrder
<1>7. TurnsAreOver' /\ EndingsAgree' /\ AnswersAgree'
  BY ConvMeans DEF TurnsAreOver, Over, EndingsAgree, AnswersAgree
<1>8. LateOnesAreAway'
  <2>1. \A x \in Chats : Undecided(x)' => Undecided(x)
    BY <1>1, <1>2, ConvTypes DEF Undecided
  <2> QED  BY <1>1, <2>1, ConvMeans, ConvTypes DEF LateOnesAreAway
<1> QED  BY <1>3, <1>5, <1>6, <1>7, <1>8, ConvMeansNext

LEMMA ConvDecide ==
  ASSUME ConvInv, NEW r \in Requests, Assistant!Decide(r)
  PROVE  ConvInv'
<1>1. PICK s \in {"executed", "failed", "rejected"} : conv_plan' = [conv_plan EXCEPT ![r] = s]
  BY DEF Assistant!Decide
<1> QED  BY <1>1, ConvPlan DEF Assistant!Decide, Assistant!chat

LEMMA ConvTtlPasses ==
  ASSUME ConvInv, NEW r \in Requests, Assistant!TtlPasses(r)
  PROVE  ConvInv'
<1>1. conv_plan' = [conv_plan EXCEPT ![r] = "expired"]
  BY DEF Assistant!TtlPasses
<1> QED  BY <1>1, ConvPlan DEF Assistant!TtlPasses, Assistant!chat

\* What is done about endings leaves the turns alone.
LEMMA ConvEnding ==
  ASSUME ConvInv, FinishesInOrder', EndingsAgree',
         conv_finish' \in [Finishes -> {Assistant!Idle} \union Resumed],
         conv_ending' \in [Requests -> Finishes \union {None}],
         conv_heard' \in [Finishes -> Finishes \union {None}],
         UNCHANGED <<conv_created, conv_current, conv_turn, conv_away, conv_request, conv_plan,
                     conv_seen>>
  PROVE  ConvInv'
<1>1. Assistant!TypeOK'
  BY ConvMeans, ConvTypes, ConvTypesSuffice
<1>2. TurnsAreOver' /\ RequestsInOrder' /\ AnswersAgree' /\ LateOnesAreAway'
  BY ConvMeans DEF TurnsAreOver, RequestsInOrder, Over, AnswersAgree, LateOnesAreAway,
     Undecided
<1> QED  BY <1>1, <1>2, ConvMeansNext

\* What f is told is the ending that is stored, if the transcript shows the plan.
LEMMA ConvHears ==
  ASSUME ConvInv, NEW f \in Finishes, conv_heard[f] = None,
         NEW phase \in {"asked", "checked", "over"}, NEW r \in Requests,
         NEW e \in Finishes \union {None},
         conv_plan[r] = "executed",
         e # None => phase = "over",
         conv_finish' \in [Finishes -> {Assistant!Idle} \union Resumed],
         conv_finish'[f].phase = phase, conv_finish'[f].plan = r,
         \A g \in Finishes : g # f => conv_finish'[g] = conv_finish[g],
         conv_heard' \in [Finishes -> Finishes \union {None}], conv_heard'[f] = e,
         \A g \in Finishes : g # f => conv_heard'[g] = conv_heard[g],
         conv_ending' \in [Requests -> Finishes \union {None}],
         \A x \in Requests : conv_ending[x] # None => conv_ending'[x] = conv_ending[x],
         e # None => (\A c \in Chats : conv_turn[c] # r) \/ e = conv_ending'[r],
         UNCHANGED <<conv_created, conv_current, conv_turn, conv_away, conv_request, conv_plan,
                     conv_seen>>
  PROVE  ConvInv'
<1>1. Assistant!TypeOK
  BY ConvMeans
<1>2. FinishesInOrder'
  BY ConvMeans DEF FinishesInOrder
<1>3. EndingsAgree'
  <2>1. ASSUME NEW g \in Finishes, conv_heard'[g] # None,
               NEW c \in Chats, conv_turn[c] = conv_finish'[g].plan
        PROVE  conv_heard'[g] = conv_ending'[conv_finish'[g].plan]
    <3>1. CASE g = f
      BY <2>1, <3>1
    <3>2. CASE g # f
      <4>1. conv_heard[g] # None /\ conv_turn[c] = conv_finish[g].plan
        BY <2>1, <3>2
      <4>2. conv_finish[g].plan \in Requests
        <5>1. conv_finish[g].phase = "over"
          BY <4>1, ConvMeans DEF FinishesInOrder
        <5> QED  BY <1>1, <5>1, ResumedTypes
      <4>3. conv_heard[g] = conv_ending[conv_finish[g].plan]
        BY <4>1, ConvMeans DEF EndingsAgree
      <4> QED  BY <3>2, <4>1, <4>2, <4>3
    <3> QED  BY <3>1, <3>2
  <2> QED  BY <2>1 DEF EndingsAgree
<1> QED  BY <1>2, <1>3, ConvEnding

LEMMA ConvBeginFinish ==
  ASSUME ConvInv, NEW f \in Finishes, NEW r \in Requests, Assistant!BeginFinish(f, r)
  PROVE  ConvInv'
<1>1. Assistant!TypeOK /\ None \notin Finishes
  BY ConvMeans, ConvTypes
<1>2. PICK told \in BOOLEAN : told <=> conv_ending[r] # None
  OBVIOUS
<1>3. PICK phase \in {"asked", "over"} : phase = IF told THEN "over" ELSE "asked"
  OBVIOUS
<1>4. PICK new : new = [phase |-> phase, plan |-> r]
  OBVIOUS
<1>5. /\ conv_finish[f] = Assistant!Idle /\ conv_plan[r] = "executed"
      /\ conv_finish' = [conv_finish EXCEPT ![f] = new]
      /\ conv_heard' = IF told THEN [conv_heard EXCEPT ![f] = conv_ending[r]] ELSE conv_heard
      /\ UNCHANGED <<conv_created, conv_current, conv_turn, conv_away, conv_request, conv_plan,
                     conv_ending, conv_seen>>
  BY <1>2, <1>3, <1>4 DEF Assistant!BeginFinish, Assistant!chat
<1>6. new \in Resumed /\ new.phase = phase /\ new.plan = r
  BY <1>4 DEF Resumed
<1>7. /\ conv_finish' \in [Finishes -> {Assistant!Idle} \union Resumed]
      /\ conv_finish'[f].phase = phase /\ conv_finish'[f].plan = r
      /\ \A g \in Finishes : g # f => conv_finish'[g] = conv_finish[g]
  BY <1>1, <1>5, <1>6, ConvTypes
<1>8. conv_heard[f] = None
  <2>1. conv_finish[f].phase # "over"
    BY <1>5 DEF Assistant!Idle
  <2> QED  BY <2>1, ConvMeans DEF FinishesInOrder
<1>9. PICK e \in Finishes \union {None} : e = IF told THEN conv_ending[r] ELSE None
  BY <1>1, ConvTypes
<1>10. /\ conv_heard' \in [Finishes -> Finishes \union {None}] /\ conv_heard'[f] = e
       /\ \A g \in Finishes : g # f => conv_heard'[g] = conv_heard[g]
  BY <1>1, <1>5, <1>8, <1>9, ConvTypes
<1>11. e # None => phase = "over" /\ e = conv_ending[r]
  BY <1>3, <1>9
<1> QED  BY <1>1, <1>5, <1>7, <1>8, <1>10, <1>11, ConvHears, ConvTypes

\* A request that is under way has been told nothing.
LEMMA ConvUnderWay ==
  ASSUME ConvInv, NEW f \in Finishes, conv_finish[f].phase \in {"asked", "checked"}
  PROVE  /\ conv_heard[f] = None /\ conv_finish[f] # Assistant!Idle
         /\ conv_finish[f].plan \in Requests
         /\ conv_plan[conv_finish[f].plan] = "executed"
<1>1. conv_finish[f] # Assistant!Idle /\ conv_finish[f].plan \in Requests
  BY ConvMeans, ResumedTypes
<1> QED  BY <1>1, ConvMeans DEF FinishesInOrder

LEMMA ConvTold ==
  ASSUME ConvInv, NEW f \in Finishes, conv_finish[f].phase \in {"asked", "checked"},
         NEW e \in Finishes, Assistant!Tell(f, e),
         conv_ending' \in [Requests -> Finishes \union {None}],
         \A x \in Requests : conv_ending[x] # None => conv_ending'[x] = conv_ending[x],
         \/ \A c \in Chats : conv_turn[c] # conv_finish[f].plan
         \/ e = conv_ending'[conv_finish[f].plan],
         UNCHANGED <<conv_created, conv_current, conv_turn, conv_away, conv_request, conv_plan,
                     conv_seen>>
  PROVE  ConvInv'
<1>1. Assistant!TypeOK
  BY ConvMeans
<1>2. PICK r \in Requests : r = conv_finish[f].plan
  BY ConvUnderWay
<1>3. conv_finish' = [conv_finish EXCEPT ![f].phase = "over"]
      /\ conv_heard' = [conv_heard EXCEPT ![f] = e]
  BY DEF Assistant!Tell
<1>4. /\ conv_finish' \in [Finishes -> {Assistant!Idle} \union Resumed]
      /\ conv_finish'[f].phase = "over" /\ conv_finish'[f].plan = r
      /\ \A g \in Finishes : g # f => conv_finish'[g] = conv_finish[g]
  BY <1>1, <1>2, <1>3, ConvUnderWay, ResumedMoves
<1>5. /\ conv_heard' \in [Finishes -> Finishes \union {None}] /\ conv_heard'[f] = e
      /\ \A g \in Finishes : g # f => conv_heard'[g] = conv_heard[g]
  BY <1>1, <1>3, ConvTypes
<1>6. conv_heard[f] = None /\ conv_plan[r] = "executed"
  BY <1>2, ConvUnderWay
<1> QED  BY <1>2, <1>4, <1>5, <1>6, ConvHears

\* A request that goes on, or ends without an answer.
LEMMA ConvUntold ==
  ASSUME ConvInv, NEW f \in Finishes, conv_finish[f].phase \in {"asked", "checked"},
         NEW phase \in {"checked", "over"},
         conv_finish' = [conv_finish EXCEPT ![f].phase = phase],
         UNCHANGED <<conv_created, conv_current, conv_turn, conv_away, conv_request, conv_plan,
                     conv_seen, conv_ending, conv_heard>>
  PROVE  ConvInv'
<1>1. Assistant!TypeOK
  BY ConvMeans
<1>2. PICK r \in Requests : r = conv_finish[f].plan
  BY ConvUnderWay
<1>3. /\ conv_finish' \in [Finishes -> {Assistant!Idle} \union Resumed]
      /\ conv_finish'[f].phase = phase /\ conv_finish'[f].plan = r
      /\ \A g \in Finishes : g # f => conv_finish'[g] = conv_finish[g]
  BY <1>1, <1>2, ConvUnderWay, ResumedMoves
<1>4. conv_heard[f] = None /\ conv_plan[r] = "executed"
  BY <1>2, ConvUnderWay
<1> QED  BY <1>1, <1>3, <1>4, ConvHears, ConvTypes

LEMMA ConvCheckEnding ==
  ASSUME ConvInv, NEW f \in Finishes, Assistant!CheckEnding(f)
  PROVE  ConvInv'
<1>1. PICK r \in Requests : r = conv_finish[f].plan
  BY ConvUnderWay DEF Assistant!CheckEnding
<1>2. /\ conv_finish[f].phase = "asked"
      /\ \/ conv_ending[r] # None /\ Assistant!Tell(f, conv_ending[r])
         \/ (\A c \in Chats : conv_turn[c] # r) /\ Assistant!Tell(f, f)
         \/ /\ conv_finish' = [conv_finish EXCEPT ![f].phase = "checked"]
            /\ conv_heard' = conv_heard
      /\ UNCHANGED <<conv_created, conv_current, conv_turn, conv_away, conv_request, conv_plan,
                     conv_ending, conv_seen>>
  BY <1>1 DEF Assistant!CheckEnding, Assistant!chat
<1>3. /\ conv_ending' \in [Requests -> Finishes \union {None}]
      /\ conv_ending[r] \in Finishes \union {None}
  BY <1>2, ConvMeans, ConvTypes
<1>4. CASE conv_ending[r] # None /\ Assistant!Tell(f, conv_ending[r])
  BY <1>1, <1>2, <1>3, <1>4, ConvTold
<1>5. CASE (\A c \in Chats : conv_turn[c] # r) /\ Assistant!Tell(f, f)
  BY <1>1, <1>2, <1>3, <1>5, ConvTold
<1>6. CASE /\ conv_finish' = [conv_finish EXCEPT ![f].phase = "checked"]
           /\ conv_heard' = conv_heard
  BY <1>2, <1>6, ConvUntold
<1> QED  BY <1>2, <1>4, <1>5, <1>6

LEMMA ConvStoreEnding ==
  ASSUME ConvInv, NEW f \in Finishes, Assistant!StoreEnding(f)
  PROVE  ConvInv'
<1>1. PICK r \in Requests : r = conv_finish[f].plan
  BY ConvUnderWay DEF Assistant!StoreEnding
<1>2. /\ conv_finish[f].phase = "checked" /\ conv_ending[r] = None
      /\ conv_ending' = [conv_ending EXCEPT ![r] = f]
      /\ Assistant!Tell(f, f)
      /\ UNCHANGED <<conv_created, conv_current, conv_turn, conv_away, conv_request, conv_plan,
                     conv_seen>>
  BY <1>1 DEF Assistant!StoreEnding, Assistant!chat
<1>3. /\ conv_ending' \in [Requests -> Finishes \union {None}] /\ conv_ending'[r] = f
      /\ \A x \in Requests : conv_ending[x] # None => conv_ending'[x] = conv_ending[x]
  BY <1>2, ConvMeans, ConvTypes
<1> QED  BY <1>1, <1>2, <1>3, ConvTold

LEMMA ConvAbortFinish ==
  ASSUME ConvInv, NEW f \in Finishes, Assistant!AbortFinish(f)
  PROVE  ConvInv'
BY ConvUntold DEF Assistant!AbortFinish, Assistant!chat

-----------------------------------------------------------------------------
(* Conversations: what is kept by every request.                           *)

LEMMA ConvStart ==
  ASSUME Assistant!Init
  PROVE  ConvInv
<1>1. /\ conv_created = {} /\ conv_current = None
      /\ conv_turn = [c \in Chats |-> None] /\ conv_away = {}
      /\ conv_request = [r \in Requests |-> Assistant!Idle]
      /\ conv_plan = [r \in Requests |-> "none"]
      /\ conv_finish = [f \in Finishes |-> Assistant!Idle]
      /\ conv_ending = [r \in Requests |-> None]
      /\ conv_seen = [r \in Requests |-> None] /\ conv_heard = [f \in Finishes |-> None]
  BY DEF Assistant!Init
<1>2. Assistant!TypeOK
  BY <1>1 DEF Assistant!TypeOK, Assistant!Statuses
<1>3. TurnsAreOver /\ EndingsAgree /\ AnswersAgree /\ LateOnesAreAway /\ FinishesInOrder
  BY <1>1 DEF TurnsAreOver, EndingsAgree, AnswersAgree, LateOnesAreAway, FinishesInOrder
<1>4. RequestsInOrder
  BY <1>1 DEF RequestsInOrder, Assistant!Idle
<1> QED  BY <1>2, <1>3, <1>4, ConvMeans

LEMMA ConvStep ==
  ASSUME ConvInv, Assistant!Next
  PROVE  ConvInv'
<1>1. \/ \E c \in Chats : Assistant!CreateCurrent(c) \/ Assistant!Select(c)
      \/ \E r \in Requests, c \in Chats : Assistant!Begin(r, c)
      \/ \E r \in Requests : \/ Assistant!Answer(r) \/ Assistant!Persist(r)
                             \/ Assistant!Abort(r) \/ Assistant!Decide(r)
                             \/ Assistant!TtlPasses(r)
      \/ \E f \in Finishes, r \in Requests : Assistant!BeginFinish(f, r)
      \/ \E f \in Finishes : \/ Assistant!CheckEnding(f) \/ Assistant!StoreEnding(f)
                             \/ Assistant!AbortFinish(f)
  BY DEF Assistant!Next
<1> QED  BY <1>1, ConvCreateCurrent, ConvSelect, ConvBegin, ConvAnswer, ConvPersist, ConvAbort,
            ConvDecide, ConvTtlPasses, ConvBeginFinish, ConvCheckEnding, ConvStoreEnding,
            ConvAbortFinish

LEMMA ConvKept ==
  ASSUME ConvInv, UNCHANGED convVars
  PROVE  ConvInv'
<1>1. /\ conv_created' = conv_created /\ conv_current' = conv_current
      /\ conv_turn' = conv_turn /\ conv_request' = conv_request /\ conv_plan' = conv_plan
      /\ conv_finish' = conv_finish /\ conv_ending' = conv_ending /\ conv_seen' = conv_seen
      /\ conv_heard' = conv_heard /\ conv_away' = conv_away
  BY DEF convVars
<1>2. Assistant!TypeOK'
  BY <1>1, ConvMeans DEF Assistant!TypeOK
<1>3. TurnsAreOver' /\ RequestsInOrder' /\ FinishesInOrder' /\ EndingsAgree' /\ AnswersAgree'
      /\ LateOnesAreAway'
  BY <1>1, ConvMeans DEF TurnsAreOver, RequestsInOrder, Over, FinishesInOrder, EndingsAgree,
     AnswersAgree, LateOnesAreAway, Undecided
<1> QED  BY <1>2, <1>3, ConvMeansNext

-----------------------------------------------------------------------------
(* Labels: the rows of the queue.                                          *)

LabelRow == [status : {"pending", "running", "done", "failed"}, for : AutoLabels!Signatures]
RowsTyped(rows) == rows \in [Rows -> {AutoLabels!NoRow} \union LabelRow]
Once(rows) ==
  \A i, k \in Rows :
    i # k /\ rows[i] # AutoLabels!NoRow /\ rows[k] # AutoLabels!NoRow
      /\ rows[i].for = rows[k].for
    => "failed" \in {rows[i].status, rows[k].status}
Within(rows) == Cardinality(AutoLabels!Waiting(rows)) <= MaxPending
GoodRows(rows) == RowsTyped(rows) /\ Once(rows) /\ Within(rows)

LEMMA LabelMeans ==
  LabelInv <=> /\ AutoLabels!TypeOK
               /\ AskersRun /\ AskersApart /\ OneLooks /\ LooksHold
               /\ GoodRows(label_job)
               /\ AutoLabels!RefusedStaysRefused
<1>1. AutoLabels!QueueIsBounded <=> Once(label_job) /\ Within(label_job)
  <2>1. AutoLabels!Cardinality(AutoLabels!Waiting(label_job))
          = Cardinality(AutoLabels!Waiting(label_job))
    BY DEF AutoLabels!Cardinality, Cardinality
  <2> QED  BY <2>1 DEF AutoLabels!QueueIsBounded, Once, Within
<1>2. AutoLabels!TypeOK => RowsTyped(label_job)
  BY DEF AutoLabels!TypeOK, RowsTyped, LabelRow
<1> QED  BY <1>1, <1>2 DEF LabelInv, GoodRows

LEMMA LabelMeansNext ==
  LabelInv' <=> /\ AutoLabels!TypeOK'
                /\ AskersRun' /\ AskersApart' /\ OneLooks' /\ LooksHold'
                /\ GoodRows(label_job')
                /\ AutoLabels!RefusedStaysRefused'
<1>1. AutoLabels!QueueIsBounded' <=> Once(label_job') /\ Within(label_job')
  <2>1. AutoLabels!Cardinality(AutoLabels!Waiting(label_job'))
          = Cardinality(AutoLabels!Waiting(label_job'))
    BY DEF AutoLabels!Cardinality, Cardinality
  <2> QED  BY <2>1 DEF AutoLabels!QueueIsBounded, Once, Within
<1>2. AutoLabels!TypeOK' => RowsTyped(label_job')
  BY DEF AutoLabels!TypeOK, RowsTyped, LabelRow
<1> QED  BY <1>1, <1>2 DEF LabelInv, GoodRows

\* A row there is has a status, and NoRow has another.
LEMMA RowTypes ==
  ASSUME NEW rows, RowsTyped(rows), NEW i \in Rows
  PROVE  /\ rows[i] # AutoLabels!NoRow => rows[i] \in LabelRow
         /\ rows[i] # AutoLabels!NoRow <=>
              rows[i].status \in {"pending", "running", "done", "failed"}
<1>1. AutoLabels!NoRow.status = "none"
  BY DEF AutoLabels!NoRow
<1> QED  BY <1>1 DEF RowsTyped, LabelRow

LEMMA WaitingTypes ==
  ASSUME NEW rows
  PROVE  /\ AutoLabels!Waiting(rows) \subseteq Rows
         /\ \A i \in Rows : i \in AutoLabels!Waiting(rows) <=>
              rows[i].status \in {"pending", "running"}
         /\ IsFiniteSet(AutoLabels!Waiting(rows))
         /\ Cardinality(AutoLabels!Waiting(rows)) \in Nat
         /\ MaxPending \in Nat
<1>1. AutoLabels!Waiting(rows) \subseteq Rows
  BY DEF AutoLabels!Waiting
<1>2. IsFiniteSet(AutoLabels!Waiting(rows)) /\ Cardinality(AutoLabels!Waiting(rows)) \in Nat
  BY <1>1, DataAssumption, PartIsSmaller
<1> QED  BY <1>1, <1>2, DataAssumption DEF AutoLabels!Waiting

\* A row that waits or runs gets another status.
Moves(old, rows, i, s) == rows = [old EXCEPT ![i].status = s]

LEMMA RowMoved ==
  ASSUME NEW old, GoodRows(old),
         NEW i \in Rows, old[i].status \in {"pending", "running"},
         NEW s \in {"pending", "running", "done", "failed"},
         NEW rows, Moves(old, rows, i, s)
  PROVE  /\ GoodRows(rows)
         /\ rows[i].status = s /\ \A k \in Rows : k # i => rows[k] = old[k]
         /\ HasRoom(old) => HasRoom(rows)
         /\ \A sig : FreeOf(old, sig) => FreeOf(rows, sig)
<1>1. PICK new : new = [old[i] EXCEPT !.status = s]
  OBVIOUS
<1>2. old[i] \in LabelRow
  BY RowTypes DEF GoodRows
<1>3. new \in LabelRow /\ new.status = s /\ new.for = old[i].for
  BY <1>1, <1>2 DEF LabelRow
<1>4. rows = [old EXCEPT ![i] = new]
  BY <1>1 DEF Moves
<1>5. RowsTyped(rows) /\ rows[i] = new /\ \A k \in Rows : k # i => rows[k] = old[k]
  BY <1>3, <1>4 DEF GoodRows, RowsTyped
<1>6. old[i] # AutoLabels!NoRow
  BY <1>2, RowTypes DEF GoodRows
<1>7. Once(rows)
  BY <1>3, <1>5, <1>6 DEF GoodRows, Once
<1>8. ASSUME NEW sig, FreeOf(old, sig) PROVE FreeOf(rows, sig)
  <2>1. \A k \in Rows : old[k] # AutoLabels!NoRow /\ old[k].for = sig => old[k].status = "failed"
    BY <1>8 DEF FreeOf
  <2>2. \A k \in Rows : rows[k] # AutoLabels!NoRow /\ rows[k].for = sig => rows[k].status = "failed"
    <3>1. old[i].for # sig
      BY <1>6, <2>1
    <3> QED  BY <1>3, <1>5, <2>1, <3>1
  <2> QED  BY <2>2 DEF FreeOf
<1>9. AutoLabels!Waiting(rows) \subseteq AutoLabels!Waiting(old)
  <2>1. \A k \in Rows : rows[k].status \in {"pending", "running"} =>
                          old[k].status \in {"pending", "running"}
    BY <1>5
  <2>2. ASSUME NEW k \in AutoLabels!Waiting(rows) PROVE k \in AutoLabels!Waiting(old)
    <3>1. k \in Rows /\ rows[k].status \in {"pending", "running"}
      BY WaitingTypes
    <3> QED  BY <2>1, <3>1, WaitingTypes
  <2> QED  BY <2>2
<1>10. Cardinality(AutoLabels!Waiting(rows)) <= Cardinality(AutoLabels!Waiting(old))
  BY <1>9, WaitingTypes, PartIsSmaller
<1>11. Within(rows) /\ (HasRoom(old) => HasRoom(rows))
  BY <1>10, WaitingTypes DEF GoodRows, Within, HasRoom
<1> QED  BY <1>3, <1>5, <1>7, <1>8, <1>11 DEF GoodRows

\* A free row is used.
LEMMA RowInserted ==
  ASSUME NEW rows, GoodRows(rows), HasRoom(rows),
         NEW sig \in AutoLabels!Signatures, FreeOf(rows, sig),
         AutoLabels!Insert(sig, rows)
  PROVE  /\ GoodRows(label_job')
         /\ \A k \in Rows : rows[k] # AutoLabels!NoRow => label_job'[k] = rows[k]
<1>1. PICK i \in Rows : /\ rows[i] = AutoLabels!NoRow
                        /\ label_job' = [rows EXCEPT ![i] = [status |-> "pending", for |-> sig]]
  BY DEF AutoLabels!Insert
<1>2. PICK new : new = [status |-> "pending", for |-> sig]
  OBVIOUS
<1>3. new \in LabelRow /\ new.status = "pending" /\ new.for = sig
  BY <1>2 DEF LabelRow
<1>4. /\ RowsTyped(label_job') /\ label_job'[i] = new
      /\ \A k \in Rows : k # i => label_job'[k] = rows[k]
  BY <1>1, <1>2, <1>3 DEF GoodRows, RowsTyped
<1>5. Once(label_job')
  <2>1. ASSUME NEW j \in Rows, NEW k \in Rows, j # k,
               label_job'[j] # AutoLabels!NoRow, label_job'[k] # AutoLabels!NoRow,
               label_job'[j].for = label_job'[k].for
        PROVE  "failed" \in {label_job'[j].status, label_job'[k].status}
    <3>1. CASE j = i
      BY <1>3, <1>4, <2>1, <3>1 DEF FreeOf
    <3>2. CASE k = i
      BY <1>3, <1>4, <2>1, <3>2 DEF FreeOf
    <3>3. CASE j # i /\ k # i
      BY <1>4, <2>1, <3>3 DEF GoodRows, Once
    <3> QED  BY <3>1, <3>2, <3>3
  <2> QED  BY <2>1 DEF Once
<1>6. /\ i \notin AutoLabels!Waiting(rows)
      /\ AutoLabels!Waiting(label_job') = AutoLabels!Waiting(rows) \union {i}
  <2>1. rows[i].status = "none"
    BY <1>1 DEF AutoLabels!NoRow
  <2>2. i \notin AutoLabels!Waiting(rows)
    BY <2>1, WaitingTypes
  <2>3. \A k \in Rows :
          k \in AutoLabels!Waiting(label_job') <=> k \in AutoLabels!Waiting(rows) \union {i}
    BY <1>3, <1>4, WaitingTypes
  <2> QED  BY <2>2, <2>3, WaitingTypes
<1>7. Cardinality(AutoLabels!Waiting(label_job')) = Cardinality(AutoLabels!Waiting(rows)) + 1
  BY <1>6, WaitingTypes, FS_AddElement
<1>8. Within(label_job')
  BY <1>7, WaitingTypes DEF HasRoom, Within
<1> QED  BY <1>1, <1>4, <1>5, <1>8 DEF GoodRows

-----------------------------------------------------------------------------
(* Labels: signatures and pipelines.                                       *)

LEMMA LabelTypes ==
  ASSUME AutoLabels!TypeOK
  PROVE  /\ label_text \in {"old", "new"} /\ label_enabled \in BOOLEAN
         /\ label_word \in [Labels -> {"absent", "deleted", "old", "new"}]
         /\ label_bearing \in [Labels -> {"none", "user", "agent"}]
         /\ label_refused \subseteq Labels
         /\ RowsTyped(label_job)
         /\ label_look \in [Pipelines -> {AutoLabels!Idle} \union
              [phase : {"locked"}, for : AutoLabels!Signatures]]
         /\ label_worker \in [Workers -> {AutoLabels!Idle} \union
              [phase : {"asked"}, row : Rows, for : AutoLabels!Signatures]]
<1>1. {"absent", "deleted"} \union AutoLabels!Wordings = {"absent", "deleted", "old", "new"}
  BY DEF AutoLabels!Wordings
<1> QED  BY <1>1 DEF AutoLabels!TypeOK, AutoLabels!Wordings, RowsTyped, LabelRow

LEMMA LabelTypesSuffice ==
  ASSUME label_text' \in {"old", "new"}, label_enabled' \in BOOLEAN,
         label_word' \in [Labels -> {"absent", "deleted", "old", "new"}],
         label_bearing' \in [Labels -> {"none", "user", "agent"}],
         label_refused' \subseteq Labels,
         RowsTyped(label_job'),
         label_look' \in [Pipelines -> {AutoLabels!Idle} \union
              [phase : {"locked"}, for : AutoLabels!Signatures]],
         label_worker' \in [Workers -> {AutoLabels!Idle} \union
              [phase : {"asked"}, row : Rows, for : AutoLabels!Signatures]]
  PROVE  AutoLabels!TypeOK'
<1>1. {"absent", "deleted"} \union AutoLabels!Wordings = {"absent", "deleted", "old", "new"}
  BY DEF AutoLabels!Wordings
<1> QED  BY <1>1 DEF AutoLabels!TypeOK, AutoLabels!Wordings, RowsTyped, LabelRow

LEMMA SignatureTypes ==
  ASSUME AutoLabels!TypeOK
  PROVE  AutoLabels!Signature \in AutoLabels!Signatures
<1>1. PICK words : words = [l \in AutoLabels!Live |-> label_word[l]]
  OBVIOUS
<1>2. AutoLabels!Live \in SUBSET Labels
  BY DEF AutoLabels!Live
<1>3. words \in [AutoLabels!Live -> AutoLabels!Wordings]
  BY <1>1 DEF AutoLabels!Live
<1>4. words \in UNION {[S -> AutoLabels!Wordings] : S \in SUBSET Labels}
  BY <1>2, <1>3
<1>5. AutoLabels!Signature = [text |-> label_text, words |-> words]
  BY <1>1 DEF AutoLabels!Signature
<1>6. label_text \in AutoLabels!Wordings
  BY DEF AutoLabels!TypeOK
<1> QED  BY <1>4, <1>5, <1>6 DEF AutoLabels!Signatures

LEMMA WorkerTypes ==
  ASSUME AutoLabels!TypeOK, NEW w \in Workers, Asking(w)
  PROVE  label_worker[w].row \in Rows /\ label_worker[w].for \in AutoLabels!Signatures
BY LabelTypes DEF Asking

LEMMA LookTypes ==
  ASSUME AutoLabels!TypeOK, NEW p \in Pipelines, Looking(p)
  PROVE  label_look[p].for \in AutoLabels!Signatures
BY LabelTypes DEF Looking

\* When a row is wanted there is room for it.
LEMMA WantedMeans ==
  ASSUME AutoLabels!TypeOK, AutoLabels!Wanted
  PROVE  HasRoom(label_job) /\ FreeOf(label_job, AutoLabels!Signature)
<1>1. AutoLabels!Cardinality(AutoLabels!Waiting(label_job))
        = Cardinality(AutoLabels!Waiting(label_job))
  BY DEF AutoLabels!Cardinality, Cardinality
<1>2. HasRoom(label_job)
  BY <1>1 DEF AutoLabels!Wanted, HasRoom
<1>3. \A i \in Rows : label_job[i] # AutoLabels!NoRow =>
        label_job[i].status \in {"pending", "running", "done", "failed"}
  BY LabelTypes, RowTypes
<1>4. FreeOf(label_job, AutoLabels!Signature)
  BY <1>3 DEF AutoLabels!Wanted, FreeOf
<1> QED  BY <1>2, <1>4

-----------------------------------------------------------------------------
(* Labels: the background jobs.                                            *)

\* The user's labels and settings stay what they are, and so do the model's labels.
LabelsStay ==
  UNCHANGED <<label_text, label_word, label_enabled, label_bearing, label_refused>>

\* Nobody else's row is touched.
OthersRun(rows, i) ==
  \A k \in Rows : k # i /\ label_job[k].status = "running" => rows[k].status = "running"

LEMMA GateFreeMeans ==
  AutoLabels!GateFree <=> \A p \in Pipelines : ~ Looking(p)
BY DEF AutoLabels!GateFree, Looking

LEMMA RowReplaced ==
  ASSUME LabelInv, NEW i \in Rows, label_job[i].status \in {"pending", "running"},
         AutoLabels!Replace(i)
  PROVE  GoodRows(label_job') /\ OthersRun(label_job', i)
<1>1. AutoLabels!TypeOK /\ GoodRows(label_job)
  BY LabelMeans
<1>2. PICK rows : Moves(label_job, rows, i, "done")
  BY DEF Moves
<1>3. /\ GoodRows(rows)
      /\ \A k \in Rows : k # i => rows[k] = label_job[k]
      /\ HasRoom(label_job) => HasRoom(rows)
      /\ \A sig : FreeOf(label_job, sig) => FreeOf(rows, sig)
  BY <1>1, <1>2, RowMoved
<1>4. IF AutoLabels!Wanted THEN AutoLabels!Insert(AutoLabels!Signature, rows)
                           ELSE label_job' = rows
  BY <1>2 DEF AutoLabels!Replace, Moves
<1>5. CASE AutoLabels!Wanted
  <2>1. HasRoom(rows) /\ FreeOf(rows, AutoLabels!Signature)
    BY <1>1, <1>3, <1>5, WantedMeans
  <2>2. AutoLabels!Signature \in AutoLabels!Signatures
    BY <1>1, SignatureTypes
  <2>3. /\ GoodRows(label_job')
        /\ \A k \in Rows : rows[k] # AutoLabels!NoRow => label_job'[k] = rows[k]
    BY <1>3, <1>4, <1>5, <2>1, <2>2, RowInserted
  <2>4. \A k \in Rows : rows[k].status = "running" => rows[k] # AutoLabels!NoRow
    BY DEF AutoLabels!NoRow
  <2> QED  BY <1>3, <2>3, <2>4 DEF OthersRun
<1>6. CASE ~ AutoLabels!Wanted
  BY <1>3, <1>4, <1>6 DEF OthersRun
<1> QED  BY <1>5, <1>6

LEMMA RefusedStay ==
  ASSUME LabelInv, LabelsStay
  PROVE  AutoLabels!RefusedStaysRefused'
BY LabelMeans DEF LabelsStay, AutoLabels!RefusedStaysRefused

LEMMA LabelLook ==
  ASSUME LabelInv, NEW p \in Pipelines, AutoLabels!Look(p)
  PROVE  LabelInv'
<1>1. AutoLabels!TypeOK
  BY LabelMeans
<1>2. PICK sig : sig = AutoLabels!Signature
  OBVIOUS
<1>3. PICK new : new = [phase |-> "locked", for |-> sig]
  OBVIOUS
<1>4. /\ AutoLabels!GateFree /\ AutoLabels!Wanted
      /\ label_look' = [label_look EXCEPT ![p] = new]
      /\ LabelsStay /\ UNCHANGED <<label_job, label_worker>>
  BY <1>2, <1>3 DEF AutoLabels!Look, AutoLabels!settings, AutoLabels!edges, LabelsStay
<1>5. sig \in AutoLabels!Signatures /\ HasRoom(label_job) /\ FreeOf(label_job, sig)
  BY <1>1, <1>2, <1>4, SignatureTypes, WantedMeans
<1>6. new \in [phase : {"locked"}, for : AutoLabels!Signatures] /\ new.for = sig
  BY <1>3, <1>5
<1>7. /\ label_look' \in [Pipelines -> {AutoLabels!Idle} \union
           [phase : {"locked"}, for : AutoLabels!Signatures]]
      /\ label_look'[p] = new /\ \A q \in Pipelines : q # p => label_look'[q] = label_look[q]
  BY <1>1, <1>4, <1>6, LabelTypes
<1>8. AutoLabels!TypeOK'
  BY <1>1, <1>4, <1>7, LabelTypes, LabelTypesSuffice DEF LabelsStay
<1>9. \A q \in Pipelines : Looking(q)' => q = p
  BY <1>4, <1>7, GateFreeMeans DEF Looking
<1>10. OneLooks'
  BY <1>9 DEF OneLooks
<1>11. LooksHold'
  BY <1>4, <1>5, <1>6, <1>7, <1>9 DEF LooksHold
<1>12. AskersRun' /\ AskersApart' /\ GoodRows(label_job')
  BY <1>4, LabelMeans DEF AskersRun, AskersApart, Asking
<1>13. AutoLabels!RefusedStaysRefused'
  BY <1>4, RefusedStay
<1> QED  BY <1>8, <1>10, <1>11, <1>12, <1>13, LabelMeansNext

LEMMA LabelEnqueue ==
  ASSUME LabelInv, NEW p \in Pipelines, AutoLabels!Enqueue(p)
  PROVE  LabelInv'
<1>1. AutoLabels!TypeOK /\ GoodRows(label_job)
  BY LabelMeans
<1>2. PICK sig : sig = label_look[p].for
  OBVIOUS
<1>3. /\ Looking(p) /\ AutoLabels!Insert(sig, label_job)
      /\ label_look' = [label_look EXCEPT ![p] = AutoLabels!Idle]
      /\ LabelsStay /\ UNCHANGED label_worker
  BY <1>2 DEF AutoLabels!Enqueue, AutoLabels!settings, AutoLabels!edges, LabelsStay, Looking
<1>4. sig \in AutoLabels!Signatures /\ HasRoom(label_job) /\ FreeOf(label_job, sig)
  BY <1>1, <1>2, <1>3, LookTypes, LabelMeans DEF LooksHold
<1>5. /\ GoodRows(label_job')
      /\ \A k \in Rows : label_job[k] # AutoLabels!NoRow => label_job'[k] = label_job[k]
  BY <1>1, <1>3, <1>4, RowInserted
<1>6. /\ label_look' \in [Pipelines -> {AutoLabels!Idle} \union
           [phase : {"locked"}, for : AutoLabels!Signatures]]
      /\ label_look'[p] = AutoLabels!Idle
      /\ \A q \in Pipelines : q # p => label_look'[q] = label_look[q]
  BY <1>1, <1>3, LabelTypes
<1>7. AutoLabels!TypeOK'
  BY <1>1, <1>3, <1>5, <1>6, LabelTypes, LabelTypesSuffice DEF LabelsStay, GoodRows
<1>8. \A q \in Pipelines : ~ Looking(q)'
  BY <1>3, <1>6, LabelMeans DEF Looking, OneLooks
<1>9. OneLooks' /\ LooksHold'
  BY <1>8 DEF OneLooks, LooksHold
<1>10. AskersRun'
  <2>1. ASSUME NEW w \in Workers, Asking(w)
        PROVE  label_job'[label_worker[w].row].status = "running"
    <3>1. label_job[label_worker[w].row].status = "running" /\ label_worker[w].row \in Rows
      BY <1>1, <2>1, WorkerTypes, LabelMeans DEF AskersRun
    <3>2. label_job[label_worker[w].row] # AutoLabels!NoRow
      BY <3>1 DEF AutoLabels!NoRow
    <3> QED  BY <1>5, <3>1, <3>2
  <2> QED  BY <1>3, <2>1 DEF AskersRun, Asking
<1>11. AskersApart'
  BY <1>3, LabelMeans DEF AskersApart, Asking
<1>12. AutoLabels!RefusedStaysRefused'
  BY <1>3, RefusedStay
<1> QED  BY <1>5, <1>7, <1>9, <1>10, <1>11, <1>12, LabelMeansNext

\* The row i is not waiting any longer, and whoever asks about one asks about another.
LEMMA RowsStandFirm ==
  ASSUME LabelInv, NEW i \in Rows, GoodRows(label_job'), OthersRun(label_job', i),
         label_worker' \in [Workers -> {AutoLabels!Idle} \union
              [phase : {"asked"}, row : Rows, for : AutoLabels!Signatures]],
         \A w \in Workers : Asking(w)' =>
           Asking(w) /\ label_worker'[w] = label_worker[w] /\ label_worker[w].row # i,
         UNCHANGED <<label_text, label_word, label_enabled, label_refused, label_look>>,
         \A l \in Labels : label_bearing'[l] = "agent" => l \notin label_refused,
         label_bearing' \in [Labels -> {"none", "user", "agent"}],
         \/ \A p \in Pipelines : ~ Looking(p)
         \/ /\ HasRoom(label_job')
            /\ \A sig : FreeOf(label_job, sig) => FreeOf(label_job', sig)
         \/ \A p \in Pipelines : Looking(p) =>
              HasRoom(label_job') /\ FreeOf(label_job', label_look[p].for)
  PROVE  LabelInv'
<1>1. AutoLabels!TypeOK
  BY LabelMeans
<1>2. AutoLabels!TypeOK'
  BY <1>1, LabelTypes, LabelTypesSuffice DEF GoodRows
<1>3. AskersRun'
  <2>1. ASSUME NEW w \in Workers, Asking(w)'
        PROVE  label_job'[label_worker'[w].row].status = "running"
    <3>1. Asking(w) /\ label_worker'[w] = label_worker[w] /\ label_worker[w].row # i
      BY <2>1
    <3>2. label_job[label_worker[w].row].status = "running" /\ label_worker[w].row \in Rows
      BY <1>1, <3>1, WorkerTypes, LabelMeans DEF AskersRun
    <3> QED  BY <3>1, <3>2 DEF OthersRun
  <2> QED  BY <2>1 DEF AskersRun
<1>4. AskersApart'
  BY LabelMeans DEF AskersApart
<1>5. \A p \in Pipelines : Looking(p)' <=> Looking(p)
  BY DEF Looking
<1>6. OneLooks'
  BY <1>5, LabelMeans DEF OneLooks
<1>7. LooksHold'
  BY <1>5, LabelMeans DEF LooksHold
<1>8. AutoLabels!RefusedStaysRefused'
  BY <1>1, LabelTypes DEF AutoLabels!RefusedStaysRefused
<1> QED  BY <1>2, <1>3, <1>4, <1>6, <1>7, <1>8, LabelMeansNext

LEMMA LabelAsk ==
  ASSUME LabelInv, NEW w \in Workers, NEW i \in Rows, AutoLabels!Ask(w, i)
  PROVE  LabelInv'
<1>1. AutoLabels!TypeOK /\ GoodRows(label_job)
  BY LabelMeans
<1>2. PICK sig : sig = AutoLabels!Signature
  OBVIOUS
<1>3. PICK new : new = [phase |-> "asked", row |-> i, for |-> sig]
  OBVIOUS
<1>4. /\ ~ Asking(w) /\ label_job[i].status = "pending"
      /\ Moves(label_job, label_job', i, "running")
      /\ label_worker' = [label_worker EXCEPT ![w] = new]
      /\ LabelsStay /\ UNCHANGED label_look
  BY <1>2, <1>3 DEF AutoLabels!Ask, AutoLabels!settings, AutoLabels!edges, LabelsStay, Asking,
     Moves
<1>5. /\ GoodRows(label_job') /\ label_job'[i].status = "running"
      /\ \A k \in Rows : k # i => label_job'[k] = label_job[k]
      /\ HasRoom(label_job) => HasRoom(label_job')
      /\ \A s : FreeOf(label_job, s) => FreeOf(label_job', s)
  BY <1>1, <1>4, RowMoved
<1>6. new \in [phase : {"asked"}, row : Rows, for : AutoLabels!Signatures] /\ new.row = i
  BY <1>1, <1>2, <1>3, SignatureTypes
<1>7. /\ label_worker' \in [Workers -> {AutoLabels!Idle} \union
           [phase : {"asked"}, row : Rows, for : AutoLabels!Signatures]]
      /\ label_worker'[w] = new
      /\ \A v \in Workers : v # w => label_worker'[v] = label_worker[v]
  BY <1>1, <1>4, <1>6, LabelTypes
<1>8. AutoLabels!TypeOK'
  BY <1>1, <1>4, <1>5, <1>7, LabelTypes, LabelTypesSuffice DEF LabelsStay, GoodRows
<1>9. ASSUME NEW v \in Workers, v # w, Asking(v)'
      PROVE  /\ Asking(v) /\ label_worker'[v] = label_worker[v]
             /\ label_worker[v].row \in Rows /\ label_worker[v].row # i
             /\ label_job[label_worker[v].row].status = "running"
  <2>1. Asking(v) /\ label_worker'[v] = label_worker[v]
    BY <1>7, <1>9 DEF Asking
  <2> QED  BY <1>1, <1>4, <2>1, WorkerTypes, LabelMeans DEF AskersRun
<1>10. AskersRun'
  <2>1. ASSUME NEW v \in Workers, Asking(v)'
        PROVE  label_job'[label_worker'[v].row].status = "running"
    BY <1>5, <1>6, <1>7, <1>9, <2>1
  <2> QED  BY <2>1 DEF AskersRun
<1>11. AskersApart'
  <2>1. ASSUME NEW u \in Workers, NEW v \in Workers, Asking(u)', Asking(v)',
               label_worker'[u].row = label_worker'[v].row
        PROVE  u = v
    <3>1. CASE u = w
      BY <1>6, <1>7, <1>9, <2>1, <3>1
    <3>2. CASE v = w
      BY <1>6, <1>7, <1>9, <2>1, <3>2
    <3>3. CASE u # w /\ v # w
      BY <1>9, <2>1, <3>3, LabelMeans DEF AskersApart
    <3> QED  BY <3>1, <3>2, <3>3
  <2> QED  BY <2>1 DEF AskersApart
<1>12. OneLooks' /\ LooksHold'
  BY <1>4, <1>5, LabelMeans DEF OneLooks, LooksHold, Looking
<1>13. AutoLabels!RefusedStaysRefused'
  BY <1>4, RefusedStay
<1> QED  BY <1>5, <1>8, <1>10, <1>11, <1>12, <1>13, LabelMeansNext

LEMMA LabelDrop ==
  ASSUME LabelInv, NEW w \in Workers, NEW i \in Rows, AutoLabels!Drop(w, i)
  PROVE  LabelInv'
<1>1. AutoLabels!TypeOK /\ GoodRows(label_job)
  BY LabelMeans
<1>2. /\ label_job[i].status = "pending"
      /\ \/ AutoLabels!GateFree /\ AutoLabels!Replace(i)
         \/ Moves(label_job, label_job', i, "done")
      /\ LabelsStay /\ UNCHANGED <<label_look, label_worker>>
  BY DEF AutoLabels!Drop, AutoLabels!settings, AutoLabels!edges, LabelsStay, Moves
<1>3. \A v \in Workers : Asking(v)' =>
        Asking(v) /\ label_worker'[v] = label_worker[v] /\ label_worker[v].row # i
  BY <1>2, LabelMeans DEF Asking, AskersRun
<1>4. /\ label_worker' \in [Workers -> {AutoLabels!Idle} \union
           [phase : {"asked"}, row : Rows, for : AutoLabels!Signatures]]
      /\ label_bearing' \in [Labels -> {"none", "user", "agent"}]
      /\ \A l \in Labels : label_bearing'[l] = "agent" => l \notin label_refused
  BY <1>1, <1>2, LabelTypes, LabelMeans DEF LabelsStay, AutoLabels!RefusedStaysRefused
<1>5. CASE AutoLabels!GateFree /\ AutoLabels!Replace(i)
  <2>1. GoodRows(label_job') /\ OthersRun(label_job', i) /\ \A p \in Pipelines : ~ Looking(p)
    BY <1>2, <1>5, RowReplaced, GateFreeMeans
  <2> QED  BY <1>2, <1>3, <1>4, <2>1, RowsStandFirm DEF LabelsStay
<1>6. CASE Moves(label_job, label_job', i, "done")
  <2>1. /\ GoodRows(label_job')
        /\ \A k \in Rows : k # i => label_job'[k] = label_job[k]
        /\ HasRoom(label_job) => HasRoom(label_job')
        /\ \A s : FreeOf(label_job, s) => FreeOf(label_job', s)
    BY <1>1, <1>2, <1>6, RowMoved
  <2>2. OthersRun(label_job', i)
    BY <2>1 DEF OthersRun
  <2>3. \A p \in Pipelines : Looking(p) =>
          HasRoom(label_job') /\ FreeOf(label_job', label_look[p].for)
    BY <2>1, LabelMeans DEF LooksHold
  <2> QED  BY <1>2, <1>3, <1>4, <2>1, <2>2, <2>3, RowsStandFirm DEF LabelsStay
<1> QED  BY <1>2, <1>5, <1>6

\* A worker that asks is done with its row.
LEMMA WorkerDone ==
  ASSUME LabelInv, NEW w \in Workers, Asking(w),
         label_worker' = [label_worker EXCEPT ![w] = AutoLabels!Idle]
  PROVE  /\ label_worker[w].row \in Rows
         /\ label_job[label_worker[w].row].status = "running"
         /\ label_worker'[w] = AutoLabels!Idle
         /\ label_worker' \in [Workers -> {AutoLabels!Idle} \union
              [phase : {"asked"}, row : Rows, for : AutoLabels!Signatures]]
         /\ \A v \in Workers : Asking(v)' =>
              /\ Asking(v) /\ label_worker'[v] = label_worker[v]
              /\ label_worker[v].row # label_worker[w].row
<1>1. AutoLabels!TypeOK
  BY LabelMeans
<1>2. label_worker[w].row \in Rows /\ label_job[label_worker[w].row].status = "running"
  BY <1>1, WorkerTypes, LabelMeans DEF AskersRun
<1>3. /\ label_worker' \in [Workers -> {AutoLabels!Idle} \union
           [phase : {"asked"}, row : Rows, for : AutoLabels!Signatures]]
      /\ label_worker'[w] = AutoLabels!Idle
      /\ \A v \in Workers : v # w => label_worker'[v] = label_worker[v]
  BY <1>1, LabelTypes
<1>4. ASSUME NEW v \in Workers, Asking(v)'
      PROVE  /\ Asking(v) /\ label_worker'[v] = label_worker[v]
             /\ label_worker[v].row # label_worker[w].row
  <2>1. v # w /\ label_worker'[v] = label_worker[v] /\ Asking(v)
    BY <1>3, <1>4 DEF Asking
  <2> QED  BY <2>1, LabelMeans DEF AskersApart
<1> QED  BY <1>2, <1>3, <1>4

LEMMA LabelAnswer ==
  ASSUME LabelInv, NEW w \in Workers, NEW picked \in SUBSET Labels,
         AutoLabels!Answer(w, picked)
  PROVE  LabelInv'
<1>1. AutoLabels!TypeOK /\ GoodRows(label_job)
  BY LabelMeans
<1>2. PICK i : i = label_worker[w].row
  OBVIOUS
<1>3. /\ Asking(w) /\ AutoLabels!GateFree
      /\ \/ /\ label_bearing' = [l \in Labels |-> IF l \in picked \intersect AutoLabels!Addable
                                                  THEN "agent" ELSE label_bearing[l]]
            /\ Moves(label_job, label_job', i, "done")
         \/ label_bearing' = label_bearing /\ AutoLabels!Replace(i)
      /\ label_worker' = [label_worker EXCEPT ![w] = AutoLabels!Idle]
      /\ UNCHANGED <<label_text, label_word, label_enabled, label_refused, label_look>>
  BY <1>2 DEF AutoLabels!Answer, AutoLabels!settings, AutoLabels!edges, Asking, Moves
<1>4. /\ i \in Rows /\ label_job[i].status = "running"
      /\ label_worker' \in [Workers -> {AutoLabels!Idle} \union
              [phase : {"asked"}, row : Rows, for : AutoLabels!Signatures]]
      /\ \A v \in Workers : Asking(v)' =>
           Asking(v) /\ label_worker'[v] = label_worker[v] /\ label_worker[v].row # i
  BY <1>2, <1>3, WorkerDone
<1>5. \A p \in Pipelines : ~ Looking(p)
  BY <1>3, GateFreeMeans
<1>6. /\ label_bearing' \in [Labels -> {"none", "user", "agent"}]
      /\ \A l \in Labels : label_bearing'[l] = "agent" => l \notin label_refused
  <2>1. /\ label_bearing \in [Labels -> {"none", "user", "agent"}]
        /\ \A l \in Labels : label_bearing[l] = "agent" => l \notin label_refused
    BY <1>1, LabelTypes, LabelMeans DEF AutoLabels!RefusedStaysRefused
  <2>2. \A l \in AutoLabels!Addable : l \notin label_refused
    BY DEF AutoLabels!Addable
  <2> QED  BY <1>3, <2>1, <2>2
<1>7. GoodRows(label_job') /\ OthersRun(label_job', i)
  <2>1. CASE AutoLabels!Replace(i)
    BY <1>4, <2>1, RowReplaced
  <2>2. CASE Moves(label_job, label_job', i, "done")
    BY <1>1, <1>4, <2>2, RowMoved DEF OthersRun
  <2> QED  BY <1>3, <2>1, <2>2
<1> QED  BY <1>3, <1>4, <1>5, <1>6, <1>7, RowsStandFirm

LEMMA LabelFail ==
  ASSUME LabelInv, NEW w \in Workers, AutoLabels!Fail(w)
  PROVE  LabelInv'
<1>1. AutoLabels!TypeOK /\ GoodRows(label_job)
  BY LabelMeans
<1>2. PICK i : i = label_worker[w].row
  OBVIOUS
<1>3. PICK s \in {"pending", "failed"} : Moves(label_job, label_job', i, s)
  BY <1>2 DEF AutoLabels!Fail, Moves
<1>4. /\ Asking(w) /\ label_worker' = [label_worker EXCEPT ![w] = AutoLabels!Idle]
      /\ LabelsStay /\ UNCHANGED label_look
  BY DEF AutoLabels!Fail, AutoLabels!settings, AutoLabels!edges, LabelsStay, Asking
<1>5. /\ i \in Rows /\ label_job[i].status = "running"
      /\ label_worker' \in [Workers -> {AutoLabels!Idle} \union
              [phase : {"asked"}, row : Rows, for : AutoLabels!Signatures]]
      /\ \A v \in Workers : Asking(v)' =>
           Asking(v) /\ label_worker'[v] = label_worker[v] /\ label_worker[v].row # i
  BY <1>2, <1>4, WorkerDone
<1>6. /\ GoodRows(label_job')
      /\ \A k \in Rows : k # i => label_job'[k] = label_job[k]
      /\ HasRoom(label_job) => HasRoom(label_job')
      /\ \A sig : FreeOf(label_job, sig) => FreeOf(label_job', sig)
  BY <1>1, <1>3, <1>5, RowMoved
<1>7. OthersRun(label_job', i)
  BY <1>6 DEF OthersRun
<1>8. \A p \in Pipelines : Looking(p) =>
        HasRoom(label_job') /\ FreeOf(label_job', label_look[p].for)
  BY <1>6, LabelMeans DEF LooksHold
<1>9. /\ label_bearing' \in [Labels -> {"none", "user", "agent"}]
      /\ \A l \in Labels : label_bearing'[l] = "agent" => l \notin label_refused
  BY <1>1, <1>4, LabelTypes, LabelMeans DEF LabelsStay, AutoLabels!RefusedStaysRefused
<1> QED  BY <1>4, <1>5, <1>6, <1>7, <1>8, <1>9, RowsStandFirm DEF LabelsStay

-----------------------------------------------------------------------------
(* Labels: the user.                                                       *)

LEMMA LabelQuiet ==
  ASSUME LabelInv, UNCHANGED <<label_job, label_look, label_worker>>,
         label_text' \in {"old", "new"}, label_enabled' \in BOOLEAN,
         label_word' \in [Labels -> {"absent", "deleted", "old", "new"}],
         label_bearing' \in [Labels -> {"none", "user", "agent"}],
         label_refused' \subseteq Labels,
         \A l \in label_refused' : label_bearing'[l] # "agent"
  PROVE  LabelInv'
<1>1. AutoLabels!TypeOK
  BY LabelMeans
<1>2. AutoLabels!TypeOK'
  BY <1>1, LabelTypes, LabelTypesSuffice
<1>3. AskersRun' /\ AskersApart' /\ OneLooks' /\ LooksHold' /\ GoodRows(label_job')
  BY LabelMeans DEF AskersRun, AskersApart, OneLooks, LooksHold, Asking, Looking
<1>4. AutoLabels!RefusedStaysRefused'
  BY DEF AutoLabels!RefusedStaysRefused
<1> QED  BY <1>2, <1>3, <1>4, LabelMeansNext

LEMMA LabelToggle ==
  ASSUME LabelInv, AutoLabels!Toggle
  PROVE  LabelInv'
<1>1. /\ label_enabled' = ~ label_enabled
      /\ UNCHANGED <<label_text, label_word, label_bearing, label_refused, label_job,
                     label_look, label_worker>>
  BY DEF AutoLabels!Toggle, AutoLabels!edges
<1>2. label_enabled' \in BOOLEAN
  BY <1>1
<1> QED  BY <1>1, <1>2, LabelMeans, LabelTypes, LabelQuiet DEF AutoLabels!RefusedStaysRefused

LEMMA LabelEdit ==
  ASSUME LabelInv, AutoLabels!Edit
  PROVE  LabelInv'
<1>1. /\ label_text' \in {"old", "new"}
      /\ UNCHANGED <<label_word, label_enabled, label_bearing, label_refused, label_job,
                     label_look, label_worker>>
  BY DEF AutoLabels!Edit, AutoLabels!edges, AutoLabels!Wordings
<1> QED  BY <1>1, LabelMeans, LabelTypes, LabelQuiet DEF AutoLabels!RefusedStaysRefused

LEMMA LabelReword ==
  ASSUME LabelInv, NEW l \in Labels, AutoLabels!Reword(l)
  PROVE  LabelInv'
<1>1. /\ \E x \in {"deleted", "old", "new"} : label_word' = [label_word EXCEPT ![l] = x]
      /\ UNCHANGED <<label_text, label_enabled, label_bearing, label_refused, label_job,
                     label_look, label_worker>>
  BY DEF AutoLabels!Reword, AutoLabels!edges, AutoLabels!Wordings
<1>2. label_word' \in [Labels -> {"absent", "deleted", "old", "new"}]
  BY <1>1, LabelMeans, LabelTypes
<1> QED  BY <1>1, <1>2, LabelMeans, LabelTypes, LabelQuiet DEF AutoLabels!RefusedStaysRefused

LEMMA LabelAssign ==
  ASSUME LabelInv, NEW l \in Labels, AutoLabels!Assign(l)
  PROVE  LabelInv'
<1>1. /\ label_bearing' = [label_bearing EXCEPT ![l] = "user"]
      /\ UNCHANGED <<label_text, label_word, label_enabled, label_refused, label_job,
                     label_look, label_worker>>
  BY DEF AutoLabels!Assign, AutoLabels!settings
<1>2. /\ label_bearing' \in [Labels -> {"none", "user", "agent"}]
      /\ \A k \in label_refused' : label_bearing'[k] # "agent"
  BY <1>1, LabelMeans, LabelTypes DEF AutoLabels!RefusedStaysRefused
<1> QED  BY <1>1, <1>2, LabelMeans, LabelTypes, LabelQuiet

LEMMA LabelRemove ==
  ASSUME LabelInv, NEW l \in Labels, AutoLabels!Remove(l)
  PROVE  LabelInv'
<1>1. /\ label_bearing' = [label_bearing EXCEPT ![l] = "none"]
      /\ label_refused' = label_refused \union {l}
      /\ UNCHANGED <<label_text, label_word, label_enabled, label_job, label_look,
                     label_worker>>
  BY DEF AutoLabels!Remove, AutoLabels!settings
<1>2. /\ label_bearing' \in [Labels -> {"none", "user", "agent"}]
      /\ label_refused' \subseteq Labels
      /\ \A k \in label_refused' : label_bearing'[k] # "agent"
  BY <1>1, LabelMeans, LabelTypes DEF AutoLabels!RefusedStaysRefused
<1> QED  BY <1>1, <1>2, LabelMeans, LabelTypes, LabelQuiet

-----------------------------------------------------------------------------
(* Labels: what is kept by every step.                                     *)

LEMMA LabelStart ==
  ASSUME AutoLabels!Init
  PROVE  LabelInv
<1>1. /\ label_text = "old" /\ label_enabled = FALSE
      /\ label_word \in [Labels -> {"absent", "old"}]
      /\ label_bearing = [l \in Labels |-> "none"] /\ label_refused = {}
      /\ label_job = [i \in Rows |-> AutoLabels!NoRow]
      /\ label_look = [p \in Pipelines |-> AutoLabels!Idle]
      /\ label_worker = [w \in Workers |-> AutoLabels!Idle]
  BY DEF AutoLabels!Init
<1>2. AutoLabels!TypeOK
  <2>1. label_word \in [Labels -> {"absent", "deleted"} \union AutoLabels!Wordings]
    BY <1>1 DEF AutoLabels!Wordings
  <2>2. label_text \in AutoLabels!Wordings
    BY <1>1 DEF AutoLabels!Wordings
  <2> QED  BY <1>1, <2>1, <2>2 DEF AutoLabels!TypeOK
<1>3. \A w \in Workers : ~ Asking(w)
  BY <1>1 DEF Asking
<1>4. \A p \in Pipelines : ~ Looking(p)
  BY <1>1 DEF Looking
<1>5. GoodRows(label_job)
  <2>1. RowsTyped(label_job) /\ Once(label_job)
    BY <1>1 DEF RowsTyped, Once
  <2>2. \A i \in Rows : label_job[i].status = "none"
    BY <1>1 DEF AutoLabels!NoRow
  <2>3. AutoLabels!Waiting(label_job) = {}
    BY <2>2, WaitingTypes
  <2>4. Within(label_job)
    BY <2>3, FS_EmptySet, DataAssumption DEF Within
  <2> QED  BY <2>1, <2>4 DEF GoodRows
<1>6. AskersRun /\ AskersApart /\ OneLooks /\ LooksHold
  BY <1>3, <1>4 DEF AskersRun, AskersApart, OneLooks, LooksHold
<1>7. AutoLabels!RefusedStaysRefused
  BY <1>1 DEF AutoLabels!RefusedStaysRefused
<1> QED  BY <1>2, <1>5, <1>6, <1>7, LabelMeans

LEMMA LabelStep ==
  ASSUME LabelInv, AutoLabels!Next
  PROVE  LabelInv'
<1>1. \/ \E p \in Pipelines : AutoLabels!Look(p) \/ AutoLabels!Enqueue(p)
      \/ \E w \in Workers, i \in Rows : AutoLabels!Ask(w, i) \/ AutoLabels!Drop(w, i)
      \/ \E w \in Workers : AutoLabels!Fail(w)
      \/ \E w \in Workers, picked \in SUBSET Labels : AutoLabels!Answer(w, picked)
      \/ AutoLabels!Toggle \/ AutoLabels!Edit
      \/ \E l \in Labels : \/ AutoLabels!Reword(l) \/ AutoLabels!Assign(l)
                           \/ AutoLabels!Remove(l)
  BY DEF AutoLabels!Next
<1> QED  BY <1>1, LabelLook, LabelEnqueue, LabelAsk, LabelDrop, LabelFail, LabelAnswer,
            LabelToggle, LabelEdit, LabelReword, LabelAssign, LabelRemove

LEMMA LabelKept ==
  ASSUME LabelInv, UNCHANGED labelVars
  PROVE  LabelInv'
BY LabelMeans, LabelTypes, LabelQuiet DEF labelVars, AutoLabels!RefusedStaysRefused

\* The model's labels appear with an answer only.
LEMMA AgentLabelsStep ==
  ASSUME LabelInv, AutoLabels!Next
  PROVE  AutoLabels!AgentLabelsAreCurrent
<1>1. AutoLabels!TypeOK
  BY LabelMeans
<1>2. ASSUME NEW w \in Workers, NEW picked \in SUBSET Labels, AutoLabels!Answer(w, picked)
      PROVE  AutoLabels!AgentLabelsAreCurrent
  <2>1. CASE AutoLabels!Lasting(label_worker[w].for)
    <3>1. label_enabled /\ label_worker[w].for = AutoLabels!Signature
      BY <2>1 DEF AutoLabels!Lasting
    <3>2. label_worker[w] # AutoLabels!Idle /\ label_worker'[w] = AutoLabels!Idle
      BY <1>1, <1>2, LabelTypes DEF AutoLabels!Answer
    <3> QED  BY <3>1, <3>2 DEF AutoLabels!AgentLabelsAreCurrent
  <2>2. CASE ~ AutoLabels!Lasting(label_worker[w].for)
    <3>1. label_bearing' = label_bearing
      BY <1>2, <2>2 DEF AutoLabels!Answer
    <3> QED  BY <3>1 DEF AutoLabels!AgentLabelsAreCurrent
  <2> QED  BY <2>1, <2>2
<1>3. ASSUME NEW l \in Labels, AutoLabels!Assign(l) \/ AutoLabels!Remove(l)
      PROVE  AutoLabels!AgentLabelsAreCurrent
  <2>1. \A k \in Labels : label_bearing'[k] = "agent" => label_bearing[k] = "agent"
    BY <1>1, <1>3, LabelTypes DEF AutoLabels!Assign, AutoLabels!Remove
  <2> QED  BY <2>1 DEF AutoLabels!AgentLabelsAreCurrent
<1>4. ASSUME label_bearing' = label_bearing
      PROVE  AutoLabels!AgentLabelsAreCurrent
  BY <1>4 DEF AutoLabels!AgentLabelsAreCurrent
<1>5. \/ \E w \in Workers, picked \in SUBSET Labels : AutoLabels!Answer(w, picked)
      \/ \E l \in Labels : AutoLabels!Assign(l) \/ AutoLabels!Remove(l)
      \/ label_bearing' = label_bearing
  BY DEF AutoLabels!Next, AutoLabels!Look, AutoLabels!Enqueue, AutoLabels!Ask,
     AutoLabels!Drop, AutoLabels!Fail, AutoLabels!Toggle, AutoLabels!Edit,
     AutoLabels!Reword, AutoLabels!edges
<1> QED  BY <1>2, <1>3, <1>4, <1>5

-----------------------------------------------------------------------------
(* Tasks: types.                                                           *)

EdgeRow == [child : Tasks, parent : Tasks, state : {"proposed", "confirmed", "rejected"}]
EdgesTyped(rows) == rows \in [Edges -> {Map!NoEdge} \union EdgeRow]

InsertPlan == [does : {"insert"}, child : Tasks, parent : Tasks,
               state : {"proposed", "confirmed", "rejected"}]
DecidePlan == [does : {"decide"}, row : Edges, from : {"proposed", "confirmed", "rejected"},
               to : {"proposed", "confirmed", "rejected", "none"}]
ModePlan == [does : {"mode"}, task : Tasks, to : Modes]
PlansTyped(plans) ==
  plans \in [Writers -> {Map!Idle} \union InsertPlan \union DecidePlan \union ModePlan]

LEMMA TaskTypes ==
  Map!TypeOK <=> /\ task_seen \in [Tasks -> {"absent", "active", "rejected", "note", "deleted"}]
                 /\ task_mode \in [Tasks -> Modes]
                 /\ EdgesTyped(task_edge) /\ PlansTyped(task_request)
<1>1. Map!States \union {"none"} = {"proposed", "confirmed", "rejected", "none"}
  BY DEF Map!States
<1> QED  BY <1>1 DEF Map!TypeOK, Map!States, EdgesTyped, PlansTyped, EdgeRow, InsertPlan,
            DecidePlan, ModePlan

LEMMA TaskTypesNext ==
  Map!TypeOK' <=>
    /\ task_seen' \in [Tasks -> {"absent", "active", "rejected", "note", "deleted"}]
    /\ task_mode' \in [Tasks -> Modes]
    /\ EdgesTyped(task_edge') /\ PlansTyped(task_request')
<1>1. Map!States \union {"none"} = {"proposed", "confirmed", "rejected", "none"}
  BY DEF Map!States
<1> QED  BY <1>1 DEF Map!TypeOK, Map!States, EdgesTyped, PlansTyped, EdgeRow, InsertPlan,
            DecidePlan, ModePlan

LEMMA EdgeTypes ==
  ASSUME NEW rows, EdgesTyped(rows), NEW e \in Edges
  PROVE  /\ rows[e] # Map!NoEdge <=> rows[e].state \in {"proposed", "confirmed", "rejected"}
         /\ rows[e] # Map!NoEdge =>
              rows[e] \in EdgeRow /\ rows[e].child \in Tasks /\ rows[e].parent \in Tasks
<1>1. Map!NoEdge.state = "none"
  BY DEF Map!NoEdge
<1> QED  BY <1>1 DEF EdgesTyped, EdgeRow

LEMMA PlanTypes ==
  ASSUME NEW plans, PlansTyped(plans), NEW w \in Writers
  PROVE  /\ plans[w] = Map!Idle <=> plans[w].does = "nothing"
         /\ plans[w].does = "insert" => plans[w] \in InsertPlan
         /\ plans[w].does = "decide" => plans[w] \in DecidePlan
         /\ plans[w].does = "mode" => plans[w] \in ModePlan
         /\ plans[w].does \in {"nothing", "insert", "decide", "mode"}
<1>1. Map!Idle.does = "nothing"
  BY DEF Map!Idle
<1>2. plans[w] \in {Map!Idle} \union InsertPlan \union DecidePlan \union ModePlan
  BY DEF PlansTyped
<1> QED  BY <1>1, <1>2 DEF InsertPlan, DecidePlan, ModePlan

\* The rows after the rejected ones that nobody refers to are forgotten.
LEMMA RememberedRows ==
  ASSUME NEW rows, EdgesTyped(rows), NEW plans
  PROVE  /\ EdgesTyped(Map!Remembered(rows, plans))
         /\ \A e \in Edges : \/ Map!Remembered(rows, plans)[e] = rows[e]
                             \/ /\ rows[e].state = "rejected"
                                /\ Map!Remembered(rows, plans)[e] = Map!NoEdge
BY DEF Map!Remembered, EdgesTyped

\* What a request that commits does to the relations: one is inserted where there is
\* none, or one gets another state or goes.
Inserted(e, plan) ==
  /\ task_edge[e] = Map!NoEdge /\ plan \in InsertPlan
  /\ task_edge'[e] = [child |-> plan.child, parent |-> plan.parent, state |-> plan.state]
  /\ \A x \in Edges : x # e => task_edge'[x] = task_edge[x]

Forgotten(x) == task_edge[x].state = "rejected" /\ task_edge'[x] = Map!NoEdge

DecidedRow(plan) ==
  /\ plan \in DecidePlan /\ task_edge[plan.row] # Map!NoEdge
  /\ \A x \in Edges : x # plan.row => task_edge'[x] = task_edge[x] \/ Forgotten(x)
  /\ \/ task_edge'[plan.row] = Map!NoEdge /\ plan.to \in {"none", "rejected"}
     \/ /\ plan.to # "none"
        /\ task_edge'[plan.row].child = task_edge[plan.row].child
        /\ task_edge'[plan.row].parent = task_edge[plan.row].parent
        /\ task_edge'[plan.row].state = plan.to

LEMMA CommitEffect ==
  ASSUME Map!TypeOK, NEW w \in Writers, Map!Commit(w), NEW plan, plan = task_request[w]
  PROVE  /\ Map!TypeOK' /\ plan # Map!Idle
         /\ task_request'[w] = Map!Idle
         /\ \A v \in Writers : v # w => task_request'[v] = task_request[v]
         /\ \/ plan.does = "insert" /\ \E e \in Edges : Inserted(e, plan)
            \/ plan.does = "decide" /\ DecidedRow(plan)
            \/ /\ plan.does = "mode" /\ plan \in ModePlan
               /\ task_mode' = [task_mode EXCEPT ![plan.task] = plan.to]
               /\ task_edge' = task_edge
         /\ task_seen' = task_seen
         /\ plan.does # "mode" => task_mode' = task_mode
<1>1. /\ task_request' = [task_request EXCEPT ![w] = Map!Idle]
      /\ \/ /\ plan.does = "insert"
            /\ \E e \in Map!Free : task_edge' =
                 [task_edge EXCEPT ![e] =
                    [child |-> plan.child, parent |-> plan.parent, state |-> plan.state]]
            /\ task_seen' = task_seen /\ task_mode' = task_mode
         \/ /\ plan.does = "decide" /\ task_edge[plan.row] # Map!NoEdge
            /\ task_edge' = Map!Remembered(
                 [task_edge EXCEPT ![plan.row] = Map!Decided(task_edge[plan.row], plan)],
                 task_request')
            /\ task_seen' = task_seen /\ task_mode' = task_mode
         \/ /\ plan.does = "mode"
            /\ task_mode' = [task_mode EXCEPT ![plan.task] = plan.to]
            /\ task_seen' = task_seen /\ task_edge' = task_edge
  BY DEF Map!Commit, Map!tasks
<1>2. /\ PlansTyped(task_request')
      /\ task_request'[w] = Map!Idle
      /\ \A v \in Writers : v # w => task_request'[v] = task_request[v]
  BY <1>1, TaskTypes DEF PlansTyped
<1>3. EdgesTyped(task_edge) /\ PlansTyped(task_request)
  BY TaskTypes
<1>4. /\ plan.does = "insert" => plan \in InsertPlan
      /\ plan.does = "decide" => plan \in DecidePlan
      /\ plan.does = "mode" => plan \in ModePlan
      /\ plan.does \in {"insert", "decide", "mode"} => plan # Map!Idle
  BY <1>3, PlanTypes
<1>5. CASE plan.does = "insert"
  <2>1. PICK e \in Map!Free : task_edge' =
          [task_edge EXCEPT ![e] =
             [child |-> plan.child, parent |-> plan.parent, state |-> plan.state]]
    BY <1>1, <1>5
  <2>2. PICK new : new = [child |-> plan.child, parent |-> plan.parent, state |-> plan.state]
    OBVIOUS
  <2>3. new \in EdgeRow
    BY <1>4, <1>5, <2>2 DEF EdgeRow, InsertPlan
  <2>4. e \in Edges /\ task_edge[e] = Map!NoEdge
    BY DEF Map!Free
  <2>5. /\ EdgesTyped(task_edge') /\ task_edge'[e] = new
        /\ \A x \in Edges : x # e => task_edge'[x] = task_edge[x]
    BY <1>3, <2>1, <2>2, <2>3, <2>4 DEF EdgesTyped
  <2>6. Inserted(e, plan)
    BY <1>4, <1>5, <2>2, <2>4, <2>5 DEF Inserted
  <2>7. Map!TypeOK'
    BY <1>1, <1>2, <1>5, <2>5, TaskTypes, TaskTypesNext
  <2> QED  BY <1>1, <1>2, <1>4, <1>5, <2>4, <2>6, <2>7
<1>6. CASE plan.does = "decide"
  <2>1. plan \in DecidePlan /\ plan.row \in Edges
    BY <1>4, <1>6 DEF DecidePlan
  <2>2. PICK new : new = Map!Decided(task_edge[plan.row], plan)
    OBVIOUS
  <2>3. PICK rows : rows = [task_edge EXCEPT ![plan.row] = new]
    OBVIOUS
  <2>4. task_edge[plan.row] # Map!NoEdge /\ task_edge' = Map!Remembered(rows, task_request')
    BY <1>1, <1>6, <2>2, <2>3
  <2>5. PICK old \in EdgeRow : old = task_edge[plan.row]
    BY <1>3, <2>1, <2>4, EdgeTypes
  <2>6. \/ plan.to = "none" /\ new = Map!NoEdge
        \/ /\ plan.to # "none" /\ new \in EdgeRow
           /\ new.child = old.child /\ new.parent = old.parent /\ new.state = plan.to
    <3>1. CASE plan.to = "none"
      BY <2>2, <2>5, <3>1 DEF Map!Decided
    <3>2. CASE plan.to # "none"
      <4>1. new = [old EXCEPT !.state = plan.to]
        BY <2>2, <2>5, <3>2 DEF Map!Decided
      <4>2. plan.to \in {"proposed", "confirmed", "rejected"}
        BY <2>1, <3>2 DEF DecidePlan
      <4> QED  BY <2>5, <3>2, <4>1, <4>2 DEF EdgeRow
    <3> QED  BY <3>1, <3>2
  <2>7. /\ EdgesTyped(rows) /\ rows[plan.row] = new
        /\ \A x \in Edges : x # plan.row => rows[x] = task_edge[x]
    BY <1>3, <2>1, <2>3, <2>6 DEF EdgesTyped
  <2>8. /\ EdgesTyped(task_edge')
        /\ \A x \in Edges : \/ task_edge'[x] = rows[x]
                            \/ rows[x].state = "rejected" /\ task_edge'[x] = Map!NoEdge
    BY <2>4, <2>7, RememberedRows
  <2>9. DecidedRow(plan)
    <3>1. \A x \in Edges : x # plan.row => task_edge'[x] = task_edge[x] \/ Forgotten(x)
      BY <2>7, <2>8 DEF Forgotten
    <3>2. \/ task_edge'[plan.row] = Map!NoEdge /\ plan.to \in {"none", "rejected"}
          \/ /\ plan.to # "none"
             /\ task_edge'[plan.row].child = old.child
             /\ task_edge'[plan.row].parent = old.parent
             /\ task_edge'[plan.row].state = plan.to
      BY <2>1, <2>6, <2>7, <2>8 DEF Map!NoEdge
    <3> QED  BY <2>1, <2>4, <2>5, <3>1, <3>2 DEF DecidedRow
  <2>10. Map!TypeOK'
    BY <1>1, <1>2, <1>6, <2>8, TaskTypes, TaskTypesNext
  <2> QED  BY <1>1, <1>2, <1>4, <1>6, <2>9, <2>10
<1>7. CASE plan.does = "mode"
  <2>1. plan \in ModePlan /\ plan.task \in Tasks /\ plan.to \in Modes
    BY <1>4, <1>7 DEF ModePlan
  <2>2. Map!TypeOK'
    BY <1>1, <1>2, <1>7, <2>1, TaskTypes, TaskTypesNext
  <2> QED  BY <1>1, <1>2, <1>4, <1>7, <2>1, <2>2
<1> QED  BY <1>1, <1>5, <1>6, <1>7

LEMMA RollBackEffect ==
  ASSUME Map!TypeOK, NEW w \in Writers, Map!RollBack(w)
  PROVE  /\ Map!TypeOK' /\ task_request[w] # Map!Idle /\ task_request'[w] = Map!Idle
         /\ \A v \in Writers : v # w => task_request'[v] = task_request[v]
         /\ \A x \in Edges : task_edge'[x] = task_edge[x] \/ Forgotten(x)
         /\ task_seen' = task_seen /\ task_mode' = task_mode
<1>1. /\ task_request[w] # Map!Idle
      /\ task_request' = [task_request EXCEPT ![w] = Map!Idle]
      /\ task_edge' = Map!Remembered(task_edge, task_request')
      /\ task_seen' = task_seen /\ task_mode' = task_mode
  BY DEF Map!RollBack, Map!tasks
<1>2. /\ PlansTyped(task_request')
      /\ task_request'[w] = Map!Idle
      /\ \A v \in Writers : v # w => task_request'[v] = task_request[v]
  BY <1>1, TaskTypes DEF PlansTyped
<1>3. /\ EdgesTyped(task_edge')
      /\ \A x \in Edges : task_edge'[x] = task_edge[x] \/ Forgotten(x)
  BY <1>1, TaskTypes, RememberedRows DEF Forgotten
<1> QED  BY <1>1, <1>2, <1>3, TaskTypes, TaskTypesNext

-----------------------------------------------------------------------------
(* Tasks: what a request has validated.                                    *)

\* The frontier grows until nothing above it is left out, in as many steps as there are
\* tasks at most.
LEMMA NoCycleMeans ==
  ASSUME Map!TypeOK, NEW child \in Tasks, NEW parent \in Tasks, NEW but,
         ~ Map!CreatesCycle(child, parent, but)
  PROVE  Acyclic(child, parent, but)
<1> DEFINE N == Cardinality(Tasks)
           occupied == Map!Occupied(but)
           Up(X) == X \union {task_edge[e].parent :
                                e \in {x \in occupied : task_edge[x].child \in X}}
           Is(h) == h = [n \in 0 .. N |-> IF n = 0 THEN {parent} ELSE Up(h[n - 1])]
           g == [X \in SUBSET Tasks |-> Up(X)]
<1>1. N \in Nat /\ IsFiniteSet(Tasks)
  BY DataAssumption, FS_CardinalityType
<1>2. child \notin (CHOOSE h : Is(h))[N]
  <2>1. Map!Cardinality(Tasks) = N
    BY DEF Map!Cardinality, Cardinality
  <2> HIDE DEF N, occupied
  <2> QED  BY <2>1 DEF Map!CreatesCycle, occupied
<1>3. \A e \in occupied : e \in Edges /\ task_edge[e].child \in Tasks
                          /\ task_edge[e].parent \in Tasks
  BY TaskTypes, EdgeTypes DEF Map!Occupied
<1>4. g \in [SUBSET Tasks -> SUBSET Tasks]
  <2> HIDE DEF occupied
  <2> QED  BY <1>3
<1>5. PICK f : /\ f \in [0 .. N -> SUBSET Tasks]
               /\ f[0] = {parent} /\ \A n \in 1 .. N : f[n] = g[f[n - 1]]
  <2> DEFINE next == [n \in 1 .. N |-> g]
  <2>1. IsNext(next, N, SUBSET Tasks)
    BY <1>4 DEF IsNext
  <2>2. {parent} \in SUBSET Tasks
    OBVIOUS
  <2>3. \E f : IsSteps(f, {parent}, next, N, SUBSET Tasks)
    <3> HIDE DEF next, g, N
    <3> QED  BY <1>1, <2>1, <2>2, StepsExist
  <2>4. \A n \in 1 .. N : next[n] = g
    OBVIOUS
  <2> HIDE DEF g, N, next
  <2> QED  BY <2>3, <2>4 DEF IsSteps
<1>6. Is(f)
  <2>1. ASSUME NEW n \in 0 .. N, n # 0
        PROVE  f[n] = Up(f[n - 1])
    <3>1. n \in 1 .. N /\ n - 1 \in 0 .. N
      BY <1>1, <2>1
    <3>2. f[n - 1] \in SUBSET Tasks
      BY <1>5, <3>1
    <3> HIDE DEF Up
    <3> QED  BY <1>5, <3>1, <3>2
  <2> HIDE DEF N, Up
  <2> QED  BY <1>5, <2>1
<1>7. PICK reached : reached = (CHOOSE h : Is(h))
  OBVIOUS
<1>8. Is(reached)
  BY <1>6, <1>7
<1>9. reached[0] = {parent} /\ \A n \in 1 .. N : reached[n] = Up(reached[n - 1])
  <2>1. 0 \in 0 .. N /\ \A n \in 1 .. N : n \in 0 .. N /\ n # 0
    BY <1>1
  <2> HIDE DEF N, Up
  <2> QED  BY <1>8, <2>1
<1> DEFINE G == {n \in 0 .. N :
                   /\ reached[n] \in SUBSET Tasks /\ parent \in reached[n]
                   /\ \/ Up(reached[n]) = reached[n]
                      \/ n < Cardinality(reached[n])}
<1>10. 0 \in G
  <2>1. Cardinality({parent}) = 1
    BY FS_Singleton
  <2> HIDE DEF Up, N
  <2> QED  BY <1>1, <1>9, <2>1
<1>11. ASSUME NEW n \in 1 .. N, n - 1 \in G
       PROVE  n \in G
  <2>1. PICK X \in SUBSET Tasks : X = reached[n - 1]
    BY <1>11
  <2>2. PICK Y : Y = Up(X)
    OBVIOUS
  <2>3. Y \in SUBSET Tasks /\ X \subseteq Y
    <3> HIDE DEF occupied
    <3> QED  BY <1>3, <2>2
  <2>4. reached[n] = Y /\ n \in 0 .. N
    BY <1>1, <1>9, <2>1, <2>2
  <2>5. parent \in X /\ (Up(X) = X \/ n - 1 < Cardinality(X))
    BY <1>11, <2>1
  <2>6. CASE Y = X
    <3> HIDE DEF Up, N
    <3> QED  BY <2>2, <2>3, <2>4, <2>5, <2>6
  <2>7. CASE Y # X
    <3>1. n - 1 < Cardinality(X)
      <4> HIDE DEF Up
      <4> QED  BY <2>2, <2>5, <2>7
    <3>2. IsFiniteSet(Y)
      BY <1>1, <2>3, FS_Subset
    <3>3. Cardinality(X) < Cardinality(Y) /\ Cardinality(X) \in Nat /\ Cardinality(Y) \in Nat
      BY <2>3, <2>7, <3>2, PartIsSmaller
    <3>4. n < Cardinality(Y)
      <4> HIDE DEF N
      <4> QED  BY <1>1, <3>1, <3>3
    <3> HIDE DEF Up, N
    <3> QED  BY <2>3, <2>4, <2>5, <3>4
  <2> HIDE DEF G
  <2> QED  BY <2>6, <2>7
<1>12. N \in G
  <2>1. N \in 0 .. N
    BY <1>1
  <2>2. \A n \in 0 .. N : n \in G
    <3> HIDE DEF G, N
    <3> QED  BY <1>1, <1>10, <1>11, StepByStep
  <2> HIDE DEF G
  <2> QED  BY <2>1, <2>2
<1>13. PICK R \in SUBSET Tasks :
         /\ R = reached[N] /\ parent \in R /\ (Up(R) = R \/ N < Cardinality(R))
  <2> HIDE DEF Up, N
  <2> QED  BY <1>12
<1>14. Up(R) = R
  <2>1. Cardinality(R) <= N /\ Cardinality(R) \in Nat
    BY <1>1, PartIsSmaller
  <2> HIDE DEF Up, N
  <2> QED  BY <1>1, <1>13, <2>1
<1>15. child \notin R
  <2> HIDE DEF Is, N
  <2> QED  BY <1>2, <1>7, <1>13
<1>16. \A e \in occupied : task_edge[e].child \in R => task_edge[e].parent \in R
  <2> HIDE DEF occupied
  <2> QED  BY <1>14
<1> HIDE DEF N
<1> QED  BY <1>13, <1>15, <1>16 DEF Acyclic

LEMMA ValidMeans ==
  ASSUME Map!TypeOK, NEW child \in Tasks, NEW parent \in Tasks, NEW but,
         Map!Valid(child, parent, but)
  PROVE  Insertable(child, parent, but)
BY NoCycleMeans DEF Map!Valid, Insertable

\* What a request reads and validates.
Validated(plan) ==
  \/ /\ plan.does = "insert" /\ plan \in InsertPlan
     /\ plan.state # "rejected" /\ Insertable(plan.child, plan.parent, {})
  \/ /\ plan.does = "decide" /\ plan \in DecidePlan
     /\ task_edge[plan.row].state = plan.from
     /\ plan.to # "proposed"
     /\ plan.to = "confirmed" =>
          /\ plan.from = "proposed"
          /\ Insertable(task_edge[plan.row].child, task_edge[plan.row].parent, {plan.row})
  \/ plan.does = "mode" /\ plan \in ModePlan /\ Map!ModeFits(plan.task, plan.to)

LEMMA BeginEffect ==
  ASSUME Map!TypeOK, NEW w \in Writers, NEW plan, Validated(plan), Map!Begin(w, plan)
  PROVE  /\ Map!TypeOK' /\ task_request[w] = Map!Idle /\ task_request'[w] = plan
         /\ \A v \in Writers : v # w => task_request'[v] = task_request[v]
         /\ UNCHANGED <<task_seen, task_mode, task_edge>>
<1>1. /\ task_request[w] = Map!Idle
      /\ task_request' = [task_request EXCEPT ![w] = plan]
      /\ UNCHANGED <<task_seen, task_mode, task_edge>>
  BY DEF Map!Begin, Map!tasks
<1>2. plan \in InsertPlan \union DecidePlan \union ModePlan
  BY DEF Validated
<1>3. /\ PlansTyped(task_request') /\ task_request'[w] = plan
      /\ \A v \in Writers : v # w => task_request'[v] = task_request[v]
  BY <1>1, <1>2, TaskTypes DEF PlansTyped
<1> QED  BY <1>1, <1>3, TaskTypes, TaskTypesNext

LEMMA WriteEffect ==
  ASSUME Map!TypeOK, NEW w \in Writers, Map!Write(w)
  PROVE  \E plan : Validated(plan) /\ Map!Begin(w, plan)
<1>1. CASE Map!Insert(w)
  <2>1. PICK child \in Tasks, parent \in Tasks, s \in {"proposed", "confirmed"} :
          /\ Map!Valid(child, parent, {})
          /\ Map!Begin(w, [does |-> "insert", child |-> child, parent |-> parent, state |-> s])
    BY <1>1 DEF Map!Insert
  <2>2. PICK plan :
          plan = [does |-> "insert", child |-> child, parent |-> parent, state |-> s]
    OBVIOUS
  <2>3. /\ plan \in InsertPlan /\ plan.does = "insert"
        /\ plan.child = child /\ plan.parent = parent /\ plan.state = s
    BY <2>2 DEF InsertPlan
  <2>4. Insertable(child, parent, {})
    BY <2>1, ValidMeans
  <2>5. Validated(plan)
    BY <2>3, <2>4 DEF Validated
  <2> QED  BY <2>1, <2>2, <2>5
<1>2. CASE Map!Confirm(w)
  <2>1. PICK e \in Edges :
          /\ task_edge[e].state = "proposed"
          /\ Map!Valid(task_edge[e].child, task_edge[e].parent, {e})
          /\ Map!Begin(w, [does |-> "decide", row |-> e, from |-> "proposed",
                           to |-> "confirmed"])
    BY <1>2 DEF Map!Confirm
  <2>2. PICK plan : plan = [does |-> "decide", row |-> e, from |-> "proposed",
                            to |-> "confirmed"]
    OBVIOUS
  <2>3. /\ plan \in DecidePlan /\ plan.does = "decide" /\ plan.row = e
        /\ plan.from = "proposed" /\ plan.to = "confirmed"
    BY <2>2 DEF DecidePlan
  <2>4. task_edge[e].child \in Tasks /\ task_edge[e].parent \in Tasks
    BY <2>1, TaskTypes, EdgeTypes
  <2>5. Insertable(task_edge[e].child, task_edge[e].parent, {e})
    BY <2>1, <2>4, ValidMeans
  <2>6. Validated(plan)
    BY <2>1, <2>3, <2>5 DEF Validated
  <2> QED  BY <2>1, <2>2, <2>6
<1>3. ASSUME NEW e \in Edges, NEW to \in {"rejected", "none"},
             task_edge[e].state \in {"proposed", "confirmed", "rejected"},
             Map!Begin(w, [does |-> "decide", row |-> e, from |-> task_edge[e].state,
                           to |-> to])
      PROVE  \E plan : Validated(plan) /\ Map!Begin(w, plan)
  <2>1. PICK plan : plan = [does |-> "decide", row |-> e, from |-> task_edge[e].state,
                            to |-> to]
    OBVIOUS
  <2>2. /\ plan \in DecidePlan /\ plan.does = "decide" /\ plan.row = e
        /\ plan.from = task_edge[e].state /\ plan.to = to
    BY <1>3, <2>1 DEF DecidePlan
  <2>3. Validated(plan)
    BY <2>2 DEF Validated
  <2> QED  BY <1>3, <2>1, <2>3
<1>4. CASE Map!Reject(w)
  <2>1. PICK e \in Map!Occupied({}) :
          Map!Begin(w, [does |-> "decide", row |-> e, from |-> task_edge[e].state,
                        to |-> "rejected"])
    BY <1>4 DEF Map!Reject
  <2>2. e \in Edges /\ task_edge[e].state \in {"proposed", "confirmed", "rejected"}
    BY DEF Map!Occupied
  <2> QED  BY <1>3, <2>1, <2>2
<1>5. CASE Map!Delete(w)
  <2>1. PICK e \in Edges :
          /\ task_edge[e].state \in Map!States
          /\ Map!Begin(w, [does |-> "decide", row |-> e, from |-> task_edge[e].state,
                           to |-> "none"])
    BY <1>5 DEF Map!Delete
  <2>2. task_edge[e].state \in {"proposed", "confirmed", "rejected"}
    BY <2>1 DEF Map!States
  <2> QED  BY <1>3, <2>1, <2>2
<1>6. CASE Map!SetMode(w)
  <2>1. PICK t \in Tasks, m \in Modes :
          /\ Map!ModeFits(t, m)
          /\ Map!Begin(w, [does |-> "mode", task |-> t, to |-> m])
    BY <1>6 DEF Map!SetMode
  <2>2. PICK plan : plan = [does |-> "mode", task |-> t, to |-> m]
    OBVIOUS
  <2>3. plan \in ModePlan /\ plan.does = "mode" /\ plan.task = t /\ plan.to = m
    BY <2>2 DEF ModePlan
  <2>4. Validated(plan)
    BY <2>1, <2>3 DEF Validated
  <2> QED  BY <2>1, <2>2, <2>4
<1> QED  BY <1>1, <1>2, <1>4, <1>5, <1>6 DEF Map!Write

-----------------------------------------------------------------------------
(* Tasks: the forest, one request at a time.                               *)

InForest(e) == task_edge[e].state \in {"proposed", "confirmed"}

LEMMA TreeMeans ==
  ASSUME Map!TypeOK
  PROVE  Map!Forest <=>
    /\ \A x, y \in Edges :
         InForest(x) /\ InForest(y) /\ task_edge[x].child = task_edge[y].child => x = y
    /\ \A S \in SUBSET Tasks : S # {} =>
         \E t \in S : \A e \in Edges :
           InForest(e) /\ task_edge[e].child = t => task_edge[e].parent \notin S
<1>1. \A e : e \in Map!Occupied({}) <=> e \in Edges /\ InForest(e)
  BY DEF Map!Occupied, InForest
<1>2. ASSUME NEW S \in SUBSET Tasks, NEW t \in S
      PROVE  (\A p \in S : ~ Map!Under(t, p)) <=>
             (\A e \in Edges :
                InForest(e) /\ task_edge[e].child = t => task_edge[e].parent \notin S)
  BY <1>1 DEF Map!Under
<1>3. (\A S \in (SUBSET Tasks) \ {{}} : \E t \in S : \A p \in S : ~ Map!Under(t, p)) <=>
      (\A S \in SUBSET Tasks : S # {} =>
         \E t \in S : \A e \in Edges :
           InForest(e) /\ task_edge[e].child = t => task_edge[e].parent \notin S)
  <2>1. ASSUME NEW S \in SUBSET Tasks
        PROVE  (\E t \in S : \A p \in S : ~ Map!Under(t, p)) <=>
               (\E t \in S : \A e \in Edges :
                  InForest(e) /\ task_edge[e].child = t => task_edge[e].parent \notin S)
    BY <1>2
  <2> QED  BY <2>1
<1>4. (\A x, y \in Map!Occupied({}) : task_edge[x].child = task_edge[y].child => x = y) <=>
      (\A x, y \in Edges :
         InForest(x) /\ InForest(y) /\ task_edge[x].child = task_edge[y].child => x = y)
  BY <1>1
<1> QED  BY <1>3, <1>4 DEF Map!Forest

LEMMA TreeMeansNext ==
  ASSUME Map!TypeOK'
  PROVE  Map!Forest' <=>
    /\ \A x, y \in Edges :
         InForest(x)' /\ InForest(y)' /\ task_edge'[x].child = task_edge'[y].child => x = y
    /\ \A S \in SUBSET Tasks : S # {} =>
         \E t \in S : \A e \in Edges :
           InForest(e)' /\ task_edge'[e].child = t => task_edge'[e].parent \notin S
<1>1. \A e : e \in Map!Occupied({})' <=> e \in Edges /\ InForest(e)'
  BY DEF Map!Occupied, InForest
<1>2. ASSUME NEW S \in SUBSET Tasks, NEW t \in S
      PROVE  (\A p \in S : ~ Map!Under(t, p)') <=>
             (\A e \in Edges :
                InForest(e)' /\ task_edge'[e].child = t => task_edge'[e].parent \notin S)
  BY <1>1 DEF Map!Under
<1>3. (\A S \in (SUBSET Tasks) \ {{}} : \E t \in S : \A p \in S : ~ Map!Under(t, p)') <=>
      (\A S \in SUBSET Tasks : S # {} =>
         \E t \in S : \A e \in Edges :
           InForest(e)' /\ task_edge'[e].child = t => task_edge'[e].parent \notin S)
  <2>1. ASSUME NEW S \in SUBSET Tasks
        PROVE  (\E t \in S : \A p \in S : ~ Map!Under(t, p)') <=>
               (\E t \in S : \A e \in Edges :
                  InForest(e)' /\ task_edge'[e].child = t => task_edge'[e].parent \notin S)
    BY <1>2
  <2> QED  BY <2>1
<1>4. (\A x, y \in Map!Occupied({})' : task_edge'[x].child = task_edge'[y].child => x = y) <=>
      (\A x, y \in Edges :
         InForest(x)' /\ InForest(y)' /\ task_edge'[x].child = task_edge'[y].child => x = y)
  BY <1>1
<1> QED  BY <1>3, <1>4 DEF Map!Forest

\* A forest loses relations.
LEMMA TreePruned ==
  ASSUME Map!TypeOK, Map!TypeOK', Map!Forest,
         \A e \in Edges : InForest(e)' =>
           /\ InForest(e) /\ task_edge'[e].child = task_edge[e].child
           /\ task_edge'[e].parent = task_edge[e].parent
  PROVE  Map!Forest'
<1>1. ASSUME NEW S \in SUBSET Tasks, S # {}
      PROVE  \E t \in S : \A e \in Edges :
               InForest(e)' /\ task_edge'[e].child = t => task_edge'[e].parent \notin S
  <2>1. PICK t \in S : \A e \in Edges :
          InForest(e) /\ task_edge[e].child = t => task_edge[e].parent \notin S
    BY <1>1, TreeMeans
  <2> QED  BY <2>1
<1>2. \A x, y \in Edges :
        InForest(x)' /\ InForest(y)' /\ task_edge'[x].child = task_edge'[y].child => x = y
  BY TreeMeans
<1> QED  BY <1>1, <1>2, TreeMeansNext

\* It grows by a relation that has been validated against it.
LEMMA TreeGrows ==
  ASSUME Map!TypeOK, Map!TypeOK', Map!Forest,
         NEW e \in Edges, NEW c \in Tasks, NEW p \in Tasks, Insertable(c, p, {}),
         ~ InForest(e), task_edge'[e].child = c, task_edge'[e].parent = p,
         \A x \in Edges : x # e => task_edge'[x] = task_edge[x]
  PROVE  Map!Forest'
<1>1. PICK R \in SUBSET Tasks :
        /\ p \in R /\ c \notin R
        /\ \A x \in Map!Occupied({}) : task_edge[x].child \in R => task_edge[x].parent \in R
  BY DEF Insertable, Acyclic
<1>2. \A x : x \in Map!Occupied({}) <=> x \in Edges /\ InForest(x)
  BY DEF Map!Occupied, InForest
<1>3. \A x \in Edges : InForest(x) => task_edge[x].child # c
  BY <1>2 DEF Insertable, Map!HasParent
<1>4. \A x \in Edges : x # e => /\ InForest(x)' <=> InForest(x)
                                /\ task_edge'[x].child = task_edge[x].child
                                /\ task_edge'[x].parent = task_edge[x].parent
  BY DEF InForest
<1>5. \A x, y \in Edges :
        InForest(x)' /\ InForest(y)' /\ task_edge'[x].child = task_edge'[y].child => x = y
  BY <1>3, <1>4, TreeMeans
<1>6. ASSUME NEW S \in SUBSET Tasks, S # {}
      PROVE  \E t \in S : \A x \in Edges :
               InForest(x)' /\ task_edge'[x].child = t => task_edge'[x].parent \notin S
  <2>1. PICK t \in S : \A x \in Edges :
          InForest(x) /\ task_edge[x].child = t => task_edge[x].parent \notin S
    BY <1>6, TreeMeans
  <2>2. CASE ~ (t = c /\ p \in S)
    BY <1>4, <2>1, <2>2
  <2>3. CASE t = c /\ p \in S
    <3>1. S \intersect R \in SUBSET Tasks /\ S \intersect R # {}
      BY <1>1, <2>3
    <3>2. PICK u \in S \intersect R : \A x \in Edges :
            InForest(x) /\ task_edge[x].child = u => task_edge[x].parent \notin S \intersect R
      BY <3>1, TreeMeans
    <3>3. ASSUME NEW x \in Edges, InForest(x)', task_edge'[x].child = u
          PROVE  task_edge'[x].parent \notin S
      <4>1. x # e
        BY <1>1, <3>2, <3>3
      <4>2. InForest(x) /\ task_edge[x].child = u
        BY <1>4, <3>3, <4>1
      <4>3. task_edge[x].parent \in R
        BY <1>1, <1>2, <3>2, <4>2
      <4> QED  BY <1>4, <3>2, <4>1, <4>2, <4>3
    <3> QED  BY <3>2, <3>3
  <2> QED  BY <2>2, <2>3
<1> QED  BY <1>5, <1>6, TreeMeansNext

\* Requests that write one task.
TaskWritten(t) ==
  /\ UNCHANGED <<task_edge, task_request>>
  /\ \A x \in Tasks : x # t => task_seen'[x] = task_seen[x] /\ task_mode'[x] = task_mode[x]
  /\ task_seen[t] # "active" \/ task_seen'[t] # "active"

LEMMA TaskEffect ==
  ASSUME Map!TypeOK, Map!CreateTask \/ Map!Rewrite
  PROVE  Map!TypeOK' /\ \E t \in Tasks : TaskWritten(t)
<1> USE TaskTypes, TaskTypesNext
<1>1. "finite" \in Modes
  BY DataAssumption
<1>2. ASSUME NEW t \in Tasks,
             NEW s \in {"absent", "active", "rejected", "note", "deleted"}, NEW m \in Modes,
             task_seen' = [task_seen EXCEPT ![t] = s],
             task_mode' = [task_mode EXCEPT ![t] = m],
             UNCHANGED <<task_edge, task_request>>,
             task_seen[t] # "active" \/ s # "active"
      PROVE  Map!TypeOK' /\ \E x \in Tasks : TaskWritten(x)
  BY <1>2 DEF TaskWritten
<1>3. \A t \in Tasks : task_mode = [task_mode EXCEPT ![t] = task_mode[t]]
                       /\ task_mode[t] \in Modes
  OBVIOUS
<1>4. CASE Map!CreateTask
  BY <1>2, <1>4 DEF Map!CreateTask
<1>5. ASSUME NEW to \in {"rejected", "note"}, Map!Hide(to)
      PROVE  Map!TypeOK' /\ \E x \in Tasks : TaskWritten(x)
  <2>1. PICK t \in Tasks :
          /\ task_seen[t] = "active"
          /\ task_seen' = [task_seen EXCEPT ![t] = to]
          /\ task_mode' = IF to = "note" THEN [task_mode EXCEPT ![t] = "finite"] ELSE task_mode
          /\ UNCHANGED <<task_edge, task_request>>
    BY <1>5 DEF Map!Hide
  <2>2. \E m \in Modes : task_mode' = [task_mode EXCEPT ![t] = m]
    BY <1>1, <1>3, <2>1
  <2> QED  BY <1>2, <2>1, <2>2
<1>6. CASE Map!Restore
  BY <1>2, <1>6 DEF Map!Restore
<1>7. CASE Map!DeleteTask
  <2>1. PICK t \in Tasks :
          /\ task_seen' = [task_seen EXCEPT ![t] = "deleted"]
          /\ task_mode' = task_mode /\ UNCHANGED <<task_edge, task_request>>
    BY <1>7 DEF Map!DeleteTask
  <2> QED  BY <1>2, <1>3, <2>1
<1> QED  BY <1>4, <1>5, <1>6, <1>7 DEF Map!Rewrite

LEMMA SameInsertable ==
  ASSUME task_mode' = task_mode, task_edge' = task_edge, NEW child, NEW parent, NEW but
  PROVE  Insertable(child, parent, but)' <=> Insertable(child, parent, but)
<1>1. Map!Occupied(but)' = Map!Occupied(but)
  BY DEF Map!Occupied
<1>2. Acyclic(child, parent, but)' <=> Acyclic(child, parent, but)
  BY <1>1 DEF Acyclic
<1>3. Map!HasParent(child, but)' <=> Map!HasParent(child, but)
  BY <1>1 DEF Map!HasParent
<1> QED  BY <1>2, <1>3 DEF Insertable, Map!Compatible

LEMMA IdleIsValid ==
  ASSUME Map!TypeOK', \A w \in Writers : task_request'[w] = Map!Idle
  PROVE  /\ \A v, w \in Writers : Busy(v)' /\ Busy(w)' => v = w
         /\ \A w \in Writers : StillValid(w)'
<1>1. Map!Idle.does = "nothing"
  BY DEF Map!Idle
<1> QED  BY <1>1 DEF Busy, StillValid

LEMMA TasksStart ==
  ASSUME Map!Init
  PROVE  TasksInv
<1>1. Map!TypeOK
  BY TaskTypes, DataAssumption DEF Map!Init, EdgesTyped, PlansTyped
<1>2. Map!Idle.does = "nothing" /\ Map!NoEdge.state = "none"
  BY DEF Map!Idle, Map!NoEdge
<1>3. \A e \in Edges : ~ InForest(e)
  BY <1>2 DEF Map!Init, InForest
<1>4. Map!Forest
  BY <1>1, <1>3, TreeMeans
<1> QED  BY <1>1, <1>2, <1>4 DEF TasksInv, Map!Init, Busy, StillValid

LEMMA TasksStep ==
  ASSUME TasksInv, Map!SerialNext
  PROVE  TasksInv'
<1>1. Map!TypeOK /\ Map!Forest
  BY DEF TasksInv
<1>2. CASE Map!AllIdle /\ (Map!CreateTask \/ Map!Rewrite)
  <2>1. Map!TypeOK' /\ UNCHANGED <<task_edge, task_request>>
    BY <1>1, <1>2, TaskEffect DEF TaskWritten
  <2>2. \A w \in Writers : task_request'[w] = Map!Idle
    BY <1>2, <2>1 DEF Map!AllIdle
  <2>3. Map!Forest'
    BY <1>1, <2>1, TreePruned DEF InForest
  <2> QED  BY <2>1, <2>2, <2>3, IdleIsValid DEF TasksInv
<1>3. ASSUME Map!AllIdle, NEW w \in Writers, Map!Write(w)
      PROVE  TasksInv'
  <2>1. PICK plan : Validated(plan) /\ Map!Begin(w, plan)
    BY <1>1, <1>3, WriteEffect
  <2>2. /\ Map!TypeOK' /\ task_request'[w] = plan
        /\ \A v \in Writers : v # w => task_request'[v] = Map!Idle
        /\ UNCHANGED <<task_seen, task_mode, task_edge>>
    BY <1>1, <1>3, <2>1, BeginEffect DEF Map!AllIdle
  <2>3. Map!Forest'
    BY <1>1, <2>2, TreePruned DEF InForest
  <2>4. \A u, v \in Writers : Busy(u)' /\ Busy(v)' => u = v
    BY <2>2 DEF Busy
  <2>5. StillValid(w)'
    <3>1. \A t, m : Map!ModeFits(t, m)' <=> Map!ModeFits(t, m)
      BY <2>2 DEF Map!ModeFits, Map!Occupied, Map!Compatible
    <3>2. \A c, p, but : Insertable(c, p, but)' <=> Insertable(c, p, but)
      BY <2>2, SameInsertable
    <3>3. plan.does = "insert" =>
            plan.state # "rejected" /\ Insertable(plan.child, plan.parent, {})'
      BY <2>1, <3>2 DEF Validated
    <3>4. PICK c : c = task_edge[plan.row].child /\ c = task_edge'[plan.row].child
      BY <2>2
    <3>5. PICK p : p = task_edge[plan.row].parent /\ p = task_edge'[plan.row].parent
      BY <2>2
    <3>6. plan.does = "decide" =>
            /\ plan.from \in Map!States' /\ task_edge'[plan.row].state = plan.from
            /\ plan.to # "proposed"
            /\ plan.to = "confirmed" =>
                 plan.from = "proposed" /\ Insertable(c, p, {plan.row})'
      BY <2>1, <2>2, <3>2, <3>4, <3>5 DEF Validated, DecidePlan, Map!States
    <3>7. plan.does = "mode" => Map!ModeFits(plan.task, plan.to)'
      BY <2>1, <3>1 DEF Validated
    <3> QED  BY <2>2, <3>3, <3>4, <3>5, <3>6, <3>7 DEF StillValid
  <2>6. \A v \in Writers : v # w => StillValid(v)'
    <3>1. Map!Idle.does = "nothing"
      BY DEF Map!Idle
    <3> QED  BY <2>2, <3>1 DEF StillValid
  <2> QED  BY <2>2, <2>3, <2>4, <2>5, <2>6 DEF TasksInv
<1>4. ASSUME NEW w \in Writers, Busy(w), Map!TypeOK', task_request'[w] = Map!Idle,
             \A v \in Writers : v # w => task_request'[v] = task_request[v], Map!Forest'
      PROVE  TasksInv'
  <2>1. \A v \in Writers : task_request'[v] = Map!Idle
    BY <1>4 DEF TasksInv, Busy
  <2> QED  BY <1>4, <2>1, IdleIsValid DEF TasksInv
<1>5. ASSUME NEW w \in Writers, Map!Commit(w)
      PROVE  TasksInv'
  <2>1. PICK plan : plan = task_request[w]
    OBVIOUS
  <2>2. /\ Map!TypeOK' /\ plan # Map!Idle /\ task_request'[w] = Map!Idle
        /\ \A v \in Writers : v # w => task_request'[v] = task_request[v]
        /\ \/ plan.does = "insert" /\ \E e \in Edges : Inserted(e, plan)
           \/ plan.does = "decide" /\ DecidedRow(plan)
           \/ plan.does = "mode" /\ task_edge' = task_edge
    BY <1>1, <1>5, <2>1, CommitEffect
  <2>3. StillValid(w)
    BY DEF TasksInv
  <2>4. CASE plan.does = "insert"
    <3>1. PICK e \in Edges : Inserted(e, plan)
      BY <2>2, <2>4
    <3>2. plan.child \in Tasks /\ plan.parent \in Tasks
      BY <3>1 DEF Inserted, InsertPlan
    <3>3. Insertable(plan.child, plan.parent, {})
      BY <2>1, <2>3, <2>4 DEF StillValid
    <3>4. ~ InForest(e)
      BY <3>1 DEF Inserted, InForest, Map!NoEdge
    <3>5. /\ task_edge'[e].child = plan.child /\ task_edge'[e].parent = plan.parent
          /\ \A x \in Edges : x # e => task_edge'[x] = task_edge[x]
      BY <3>1 DEF Inserted
    <3>6. Map!Forest'
      BY <1>1, <2>2, <3>2, <3>3, <3>4, <3>5, TreeGrows
    <3> QED  BY <1>4, <2>1, <2>2, <3>6 DEF Busy
  <2>5. CASE plan.does = "decide"
    <3>1. DecidedRow(plan) /\ plan.row \in Edges
      BY <2>2, <2>5 DEF DecidedRow, DecidePlan
    <3>2. /\ plan.to # "proposed" /\ task_edge[plan.row].state = plan.from
          /\ plan.to = "confirmed" => plan.from = "proposed"
      BY <2>1, <2>3, <2>5 DEF StillValid
    <3>3. ASSUME NEW x \in Edges, InForest(x)'
          PROVE  /\ InForest(x) /\ task_edge'[x].child = task_edge[x].child
                 /\ task_edge'[x].parent = task_edge[x].parent
      <4>1. Map!NoEdge.state = "none" /\ task_edge'[x].state \in {"proposed", "confirmed"}
        BY <3>3 DEF Map!NoEdge, InForest
      <4>2. CASE x = plan.row
        BY <3>1, <3>2, <4>1, <4>2 DEF DecidedRow, InForest
      <4>3. CASE x # plan.row
        BY <3>1, <4>1, <4>3 DEF DecidedRow, Forgotten, InForest
      <4> QED  BY <4>2, <4>3
    <3>4. Map!Forest'
      BY <1>1, <2>2, <3>3, TreePruned
    <3> QED  BY <1>4, <2>1, <2>2, <3>4 DEF Busy
  <2>6. CASE plan.does = "mode"
    <3>1. Map!Forest'
      BY <1>1, <2>2, <2>6, TreePruned DEF InForest
    <3> QED  BY <1>4, <2>1, <2>2, <3>1 DEF Busy
  <2> QED  BY <2>2, <2>4, <2>5, <2>6
<1>6. ASSUME NEW w \in Writers, Map!RollBack(w)
      PROVE  TasksInv'
  <2>1. /\ Map!TypeOK' /\ task_request[w] # Map!Idle /\ task_request'[w] = Map!Idle
        /\ \A v \in Writers : v # w => task_request'[v] = task_request[v]
        /\ \A x \in Edges : task_edge'[x] = task_edge[x] \/ Forgotten(x)
    BY <1>1, <1>6, RollBackEffect
  <2>2. \A x \in Edges : InForest(x)' => task_edge'[x] = task_edge[x]
    BY <2>1 DEF InForest, Forgotten, Map!NoEdge
  <2>3. Map!Forest'
    BY <1>1, <2>1, <2>2, TreePruned DEF InForest
  <2> QED  BY <1>4, <2>1, <2>3 DEF Busy
<1> QED  BY <1>2, <1>3, <1>5, <1>6 DEF Map!SerialNext

LEMMA TasksKept ==
  ASSUME TasksInv, UNCHANGED taskVars
  PROVE  TasksInv'
<1>1. /\ task_seen' = task_seen /\ task_mode' = task_mode
      /\ task_edge' = task_edge /\ task_request' = task_request
  BY DEF taskVars
<1>2. Map!TypeOK' /\ Map!Forest'
  <2>1. Map!TypeOK'
    BY <1>1, TaskTypes, TaskTypesNext DEF TasksInv
  <2> QED  BY <1>1, <2>1, TreePruned DEF TasksInv, InForest
<1>3. \A c, p, but : Insertable(c, p, but)' <=> Insertable(c, p, but)
  BY <1>1, SameInsertable
<1>4. \A t, m : Map!ModeFits(t, m)' <=> Map!ModeFits(t, m)
  BY <1>1 DEF Map!ModeFits, Map!Occupied, Map!Compatible
<1>5. ASSUME NEW w \in Writers
      PROVE  StillValid(w)'
  <2>1. StillValid(w)
    BY DEF TasksInv
  <2>2. PICK plan : plan = task_request[w] /\ plan = task_request'[w]
    BY <1>1
  <2>3. PICK c : c = task_edge[plan.row].child /\ c = task_edge'[plan.row].child
    BY <1>1
  <2>4. PICK p : p = task_edge[plan.row].parent /\ p = task_edge'[plan.row].parent
    BY <1>1
  <2>5. /\ Insertable(c, p, {plan.row})' <=> Insertable(c, p, {plan.row})
        /\ Insertable(plan.child, plan.parent, {})' <=> Insertable(plan.child, plan.parent, {})
        /\ Map!ModeFits(plan.task, plan.to)' <=> Map!ModeFits(plan.task, plan.to)
    BY <1>3, <1>4
  <2>6. Map!States' = Map!States
    BY DEF Map!States
  <2> QED  BY <1>1, <2>1, <2>2, <2>3, <2>4, <2>5, <2>6 DEF StillValid
<1>6. \A v, w \in Writers : Busy(v)' /\ Busy(w)' => v = w
  BY <1>1 DEF TasksInv, Busy
<1> QED  BY <1>2, <1>5, <1>6 DEF TasksInv


\* A relation in the forest whose ends stay tasks fits them, if it was there and did.
LEMMA ModesMean ==
  Map!ModesStayFit <=>
    \A e \in Edges :
      LET c == task_edge'[e].child
          p == task_edge'[e].parent
      IN  /\ InForest(e)'
          /\ task_seen[c] = "active" /\ task_seen'[c] = "active"
          /\ task_seen[p] = "active" /\ task_seen'[p] = "active"
          /\ task_edge[e] = task_edge'[e] => Map!Compatible(task_mode[c], task_mode[p])
          => Map!Compatible(task_mode'[c], task_mode'[p])
<1>1. \A e : e \in Map!Occupied({})' <=> e \in Edges /\ InForest(e)'
  BY DEF Map!Occupied, InForest
<1> QED  BY <1>1 DEF Map!ModesStayFit, Map!Fits

LEMMA ModesStayFitStep ==
  ASSUME TasksInv, Map!SerialNext
  PROVE  Map!ModesStayFit
<1>1. Map!TypeOK /\ Map!TypeOK'
  BY TasksStep DEF TasksInv
<1>2. SUFFICES ASSUME NEW e \in Edges, NEW c, c = task_edge'[e].child,
                      NEW p, p = task_edge'[e].parent, InForest(e)',
                      task_seen[c] = "active", task_seen'[c] = "active",
                      task_seen[p] = "active", task_seen'[p] = "active",
                      task_edge[e] = task_edge'[e] =>
                        Map!Compatible(task_mode[c], task_mode[p])
               PROVE  Map!Compatible(task_mode'[c], task_mode'[p])
  BY ModesMean
<1>3. c \in Tasks /\ p \in Tasks
  BY <1>1, <1>2, TaskTypesNext, EdgeTypes DEF InForest
<1>4. Map!NoEdge.state = "none" /\ task_edge'[e].state \in {"proposed", "confirmed"}
  BY <1>2 DEF Map!NoEdge, InForest
<1>5. CASE Map!CreateTask \/ Map!Rewrite
  <2>1. PICK t \in Tasks : TaskWritten(t)
    BY <1>1, <1>5, TaskEffect
  <2>2. c # t /\ p # t
    BY <1>2, <2>1 DEF TaskWritten
  <2>3. task_mode'[c] = task_mode[c] /\ task_mode'[p] = task_mode[p]
        /\ task_edge' = task_edge
    BY <1>3, <2>1, <2>2 DEF TaskWritten
  <2> QED  BY <1>2, <2>3
<1>6. ASSUME NEW w \in Writers, Map!Write(w)
      PROVE  Map!Compatible(task_mode'[c], task_mode'[p])
  <2>1. task_mode' = task_mode /\ task_edge' = task_edge
    BY <1>1, <1>6, WriteEffect, BeginEffect
  <2> QED  BY <1>2, <2>1
<1>7. ASSUME NEW w \in Writers, Map!RollBack(w)
      PROVE  Map!Compatible(task_mode'[c], task_mode'[p])
  <2>1. /\ task_edge'[e] = task_edge[e] \/ Forgotten(e)
        /\ task_mode' = task_mode
    BY <1>1, <1>7, RollBackEffect
  <2>2. task_edge'[e] = task_edge[e]
    BY <1>4, <2>1 DEF Forgotten
  <2> QED  BY <1>2, <2>1, <2>2
<1>8. ASSUME NEW w \in Writers, Map!Commit(w)
      PROVE  Map!Compatible(task_mode'[c], task_mode'[p])
  <2>1. PICK plan : plan = task_request[w]
    OBVIOUS
  <2>2. /\ \/ plan.does = "insert" /\ \E x \in Edges : Inserted(x, plan)
           \/ plan.does = "decide" /\ DecidedRow(plan)
           \/ /\ plan.does = "mode" /\ plan \in ModePlan
              /\ task_mode' = [task_mode EXCEPT ![plan.task] = plan.to]
              /\ task_edge' = task_edge
        /\ plan.does # "mode" => task_mode' = task_mode
    BY <1>1, <1>8, <2>1, CommitEffect
  <2>3. StillValid(w)
    BY DEF TasksInv
  <2>4. CASE plan.does = "insert"
    <3>1. PICK x \in Edges : Inserted(x, plan)
      BY <2>2, <2>4
    <3>2. CASE e = x
      <4>1. c = plan.child /\ p = plan.parent
        BY <1>2, <3>1, <3>2 DEF Inserted
      <4>2. Map!Compatible(task_mode[c], task_mode[p])
        BY <2>1, <2>3, <2>4, <4>1 DEF StillValid, Insertable
      <4> QED  BY <2>2, <2>4, <4>2
    <3>3. CASE e # x
      <4>1. task_edge'[e] = task_edge[e]
        BY <3>1, <3>3 DEF Inserted
      <4> QED  BY <1>2, <2>2, <2>4, <4>1
    <3> QED  BY <3>2, <3>3
  <2>5. CASE plan.does = "decide"
    <3>1. DecidedRow(plan) /\ plan.row \in Edges
      BY <2>2, <2>5 DEF DecidedRow, DecidePlan
    <3>2. CASE e = plan.row
      <4>1. /\ task_edge'[e].child = task_edge[e].child
            /\ task_edge'[e].parent = task_edge[e].parent
            /\ task_edge'[e].state = plan.to
        BY <1>4, <3>1, <3>2 DEF DecidedRow
      <4>2. plan.to = "confirmed"
        BY <1>4, <2>1, <2>3, <2>5, <4>1 DEF StillValid
      <4>3. Map!Compatible(task_mode[c], task_mode[p])
        BY <1>2, <2>1, <2>3, <2>5, <3>2, <4>1, <4>2 DEF StillValid, Insertable
      <4> QED  BY <2>2, <2>5, <4>3
    <3>3. CASE e # plan.row
      <4>1. task_edge'[e] = task_edge[e]
        BY <1>4, <3>1, <3>3 DEF DecidedRow, Forgotten
      <4> QED  BY <1>2, <2>2, <2>5, <4>1
    <3> QED  BY <3>2, <3>3
  <2>6. CASE plan.does = "mode"
    <3>1. PICK t \in Tasks : t = plan.task
      BY <2>2, <2>6 DEF ModePlan
    <3>2. PICK m : m = plan.to
      OBVIOUS
    <3>3. task_mode \in [Tasks -> Modes]
      BY <1>1, TaskTypes
    <3>4. task_mode'[t] = m /\ \A x \in Tasks : x # t => task_mode'[x] = task_mode[x]
      BY <2>2, <2>6, <3>1, <3>2, <3>3
    <3>5. /\ task_edge' = task_edge /\ e \in Map!Occupied({})
          /\ c = task_edge[e].child /\ p = task_edge[e].parent
      BY <1>2, <1>4, <2>2, <2>6 DEF Map!Occupied
    <3>6. /\ c = t => Map!Compatible(m, task_mode[p])
          /\ p = t => Map!Compatible(task_mode[c], m)
      BY <1>2, <2>1, <2>3, <2>6, <3>1, <3>2, <3>5 DEF StillValid, Map!ModeFits
    <3>7. Map!Compatible(task_mode[c], task_mode[p])
      BY <1>2, <3>5
    <3> QED  BY <1>3, <3>4, <3>6, <3>7 DEF Map!Compatible
  <2> QED  BY <2>2, <2>4, <2>5, <2>6
<1> QED  BY <1>5, <1>6, <1>7, <1>8 DEF Map!SerialNext

-----------------------------------------------------------------------------
(* The map.                                                                *)

MapRest == [at |-> "rest"]
MapClients ==
  {MapRest, [at |-> "layout"], [at |-> "revision"]} \union
  [at : {"tasks"}, tasks : SUBSET Tasks] \union
  [at : {"edges"}, tasks : SUBSET Tasks, edges : SUBSET (Tasks \X Tasks)]

MapTyped ==
  /\ Map!TypeOK
  /\ map_stored \in BOOLEAN /\ map_current \subseteq {"snapshot", "client"}
  /\ map_placed \subseteq Tasks /\ map_drawn \subseteq Tasks \X Tasks
  /\ map_client \in MapClients
  /\ map_saw \subseteq Writers /\ map_missed \subseteq Edges

LEMMA MapTypes ==
  /\ Map!MapTypeOK <=> MapTyped
  /\ Map!MapTypeOK' <=> MapTyped'
BY DEF Map!MapTypeOK, MapTyped, MapClients, MapRest, Map!Resting, Map!Relations

LEMMA ClientTypes ==
  ASSUME NEW client \in MapClients
  PROVE  /\ client = MapRest <=> client.at = "rest"
         /\ client.at = "layout" => client = [at |-> "layout"]
         /\ client.at = "revision" => client = [at |-> "revision"]
         /\ client.at = "tasks" => client.tasks \in SUBSET Tasks
         /\ client.at = "edges" =>
              client.tasks \in SUBSET Tasks /\ client.edges \in SUBSET (Tasks \X Tasks)
         /\ client.at \in {"rest", "layout", "revision", "tasks", "edges"}
<1>1. CASE client \in {MapRest, [at |-> "layout"], [at |-> "revision"]}
  BY <1>1 DEF MapRest
<1>2. CASE client \in [at : {"tasks"}, tasks : SUBSET Tasks]
  BY <1>2 DEF MapRest
<1>3. CASE client \in [at : {"edges"}, tasks : SUBSET Tasks, edges : SUBSET (Tasks \X Tasks)]
  BY <1>3 DEF MapRest
<1> QED  BY <1>1, <1>2, <1>3 DEF MapClients

ToConfirm(plans) ==
  \A w \in Writers :
    plans[w].does = "decide" =>
      plans[w].to # "proposed" /\ (plans[w].to = "confirmed" => plans[w].from = "proposed")

\* What is shown is shown as it was read.
SnapshotHolds ==
  "snapshot" \in map_current => InView(map_placed) \subseteq map_drawn
ClientHolds ==
  "client" \in map_current /\ map_client.at = "edges" =>
    InView(map_client.tasks) \subseteq map_client.edges

LEMMA LayoutHolds ==
  /\ SnapshotHolds => Map!LayoutIsCurrent
  /\ SnapshotHolds' => Map!LayoutIsCurrent'
<1>1. SnapshotHolds => Map!LayoutIsCurrent
  BY DEF SnapshotHolds, InView, Map!LayoutIsCurrent, Map!Usable
<1>2. SnapshotHolds' => Map!LayoutIsCurrent'
  BY DEF SnapshotHolds, InView, Map!LayoutIsCurrent, Map!Usable
<1> QED  BY <1>1, <1>2

Untouched == ~ map_stored => map_current = {} /\ map_client = MapRest

LEMMA MapParts ==
  /\ MapInv <=> /\ MapTyped /\ Untouched /\ ToConfirm(task_request)
                /\ SnapshotHolds /\ ClientHolds
  /\ MapInv' <=> /\ MapTyped' /\ Untouched' /\ ToConfirm(task_request')
                 /\ SnapshotHolds' /\ ClientHolds'
<1>1. /\ Map!MapTypeOK <=> MapTyped
      /\ Map!MapTypeOK' <=> MapTyped'
      /\ SnapshotHolds => Map!LayoutIsCurrent
      /\ SnapshotHolds' => Map!LayoutIsCurrent'
  BY MapTypes, LayoutHolds
<1>2. MapInv <=> /\ Map!MapTypeOK /\ Untouched /\ ToConfirm(task_request)
                 /\ SnapshotHolds /\ ClientHolds /\ Map!LayoutIsCurrent
  BY DEF MapInv, Untouched, ToConfirm, SnapshotHolds, ClientHolds, MapRest
<1>3. MapInv' <=> /\ Map!MapTypeOK' /\ Untouched' /\ ToConfirm(task_request')
                  /\ SnapshotHolds' /\ ClientHolds' /\ Map!LayoutIsCurrent'
  BY DEF MapInv, Untouched, ToConfirm, SnapshotHolds, ClientHolds, MapRest
<1> QED  BY <1>1, <1>2, <1>3

\* A step after which nothing more is to be seen than before.
LEMMA ViewsShrink ==
  ASSUME MapInv, MapTyped', Untouched', ToConfirm(task_request'),
         map_placed' = map_placed, map_drawn' = map_drawn,
         map_client' = map_client \/ map_client'.at # "edges",
         "snapshot" \in map_current' => "snapshot" \in map_current,
         "client" \in map_current' /\ map_client'.at = "edges" => "client" \in map_current,
         map_current' # {} => \A T : InView(T)' \subseteq InView(T)
  PROVE  MapInv'
<1>1. SnapshotHolds /\ ClientHolds
  BY MapParts
<1>2. SnapshotHolds'
  <2>1. SUFFICES ASSUME "snapshot" \in map_current'
                 PROVE  InView(map_placed)' \subseteq map_drawn'
    BY DEF SnapshotHolds
  <2>2. PICK T : T = map_placed /\ T = map_placed'
    OBVIOUS
  <2>3. InView(T)' \subseteq InView(T) /\ InView(T) \subseteq map_drawn
    BY <1>1, <2>1, <2>2 DEF SnapshotHolds
  <2> QED  BY <2>2, <2>3 DEF InView
<1>3. ClientHolds'
  <2>1. SUFFICES ASSUME "client" \in map_current', map_client'.at = "edges"
                 PROVE  InView(map_client.tasks)' \subseteq map_client'.edges
    BY DEF ClientHolds
  <2>2. PICK T : T = map_client.tasks /\ T = map_client'.tasks
    BY <2>1
  <2>3. InView(T)' \subseteq InView(T) /\ InView(T) \subseteq map_client.edges
    BY <1>1, <2>1, <2>2 DEF ClientHolds
  <2>4. map_client' = map_client
    BY <2>1
  <2> QED  BY <2>2, <2>3, <2>4 DEF InView
<1> QED  BY <1>2, <1>3, MapParts

LEMMA SameViews ==
  ASSUME task_edge' = task_edge, map_missed' = map_missed
  PROVE  \A T : InView(T)' \subseteq InView(T)
BY DEF InView, Map!OnMap

LEMMA MapStart ==
  ASSUME Map!MapInit
  PROVE  MapInv
<1>1. Map!TypeOK /\ \A w \in Writers : task_request[w] = Map!Idle
  BY TasksStart DEF TasksInv, Map!MapInit, Map!Init
<1>2. MapTyped /\ Untouched /\ map_current = {}
  BY <1>1 DEF Map!MapInit, MapTyped, Untouched, MapClients, MapRest, Map!Resting
<1>3. ToConfirm(task_request)
  BY <1>1 DEF ToConfirm, Map!Idle
<1>4. SnapshotHolds /\ ClientHolds
  BY <1>2 DEF SnapshotHolds, ClientHolds
<1> QED  BY <1>2, <1>3, <1>4, MapParts

LEMMA MapKept ==
  ASSUME MapInv, UNCHANGED <<taskVars, mapVars>>
  PROVE  MapInv'
<1>1. /\ task_seen' = task_seen /\ task_mode' = task_mode
      /\ task_edge' = task_edge /\ task_request' = task_request
  BY DEF taskVars
<1>2. /\ map_stored' = map_stored /\ map_current' = map_current
      /\ map_placed' = map_placed /\ map_drawn' = map_drawn
      /\ map_client' = map_client /\ map_saw' = map_saw /\ map_missed' = map_missed
  BY DEF mapVars
<1>3. MapTyped /\ Untouched /\ ToConfirm(task_request)
  BY MapParts
<1>4. MapTyped'
  BY <1>1, <1>2, <1>3, TaskTypes, TaskTypesNext DEF MapTyped
<1>5. Untouched' /\ ToConfirm(task_request')
  BY <1>1, <1>2, <1>3 DEF Untouched
<1> QED  BY <1>1, <1>2, <1>4, <1>5, SameViews, ViewsShrink


\* Requests.
LEMMA CommitShows ==
  ASSUME MapInv, NEW r \in Writers, Map!CommitOnMap(r)
  PROVE  MapInv'
<1>1. /\ MapTyped /\ Map!TypeOK /\ Untouched /\ ToConfirm(task_request)
  BY MapParts DEF MapTyped
<1>2. PICK plan : plan = task_request[r]
  OBVIOUS
<1>3. /\ Map!Commit(r)
      /\ map_current' = IF Map!Affects(plan) /\ r \in map_saw THEN {} ELSE map_current
      /\ map_missed' = {e \in Edges : e \in map_missed /\ task_edge'[e] = task_edge[e]} \union
           {e \in Edges : task_edge'[e] # task_edge[e] /\ map_stored /\ r \notin map_saw}
      /\ map_saw' = map_saw \ {r}
      /\ UNCHANGED <<map_stored, map_placed, map_drawn, map_client>>
  BY <1>2 DEF Map!CommitOnMap, Map!Bumped
<1>4. /\ Map!TypeOK' /\ task_request'[r] = Map!Idle
      /\ \A v \in Writers : v # r => task_request'[v] = task_request[v]
      /\ \/ plan.does = "insert" /\ \E e \in Edges : Inserted(e, plan)
         \/ plan.does = "decide" /\ DecidedRow(plan)
         \/ plan.does = "mode" /\ task_edge' = task_edge
  BY <1>1, <1>2, <1>3, CommitEffect
<1>5. MapTyped' /\ Untouched'
  BY <1>1, <1>3, <1>4 DEF MapTyped, Untouched
<1>6. ToConfirm(task_request')
  BY <1>1, <1>4 DEF ToConfirm, Map!Idle
<1>7. ASSUME map_current' # {}, NEW T
      PROVE  InView(T)' \subseteq InView(T)
  <2>1. map_stored /\ ~ (Map!Affects(plan) /\ r \in map_saw)
    BY <1>1, <1>3, <1>7 DEF Untouched
  <2>2. ASSUME NEW x \in Edges, x \notin map_missed', task_edge'[x].state = "confirmed"
        PROVE  x \notin map_missed /\ task_edge'[x] = task_edge[x]
    <3>1. SUFFICES ASSUME task_edge'[x] # task_edge[x] PROVE FALSE
      BY <1>3, <2>2
    <3>2. ~ Map!Affects(plan)
      BY <1>3, <2>1, <2>2, <3>1
    <3>3. Map!NoEdge.state = "none"
      BY DEF Map!NoEdge
    <3>4. CASE plan.does = "insert"
      <4>1. task_edge'[x].state = plan.state
        BY <1>4, <3>1, <3>4 DEF Inserted
      <4> QED  BY <2>2, <3>2, <3>4, <4>1 DEF Map!Affects, Map!OnMap
    <3>5. CASE plan.does = "decide"
      <4>1. DecidedRow(plan)
        BY <1>4, <3>5
      <4>2. x = plan.row /\ task_edge'[x].state = plan.to
        BY <2>2, <3>1, <3>3, <4>1 DEF DecidedRow, Forgotten
      <4>3. plan.to = "confirmed" /\ plan.from = "proposed"
        BY <1>1, <1>2, <2>2, <3>5, <4>2 DEF ToConfirm
      <4> QED  BY <3>2, <3>5, <4>3 DEF Map!Affects, Map!OnMap
    <3> QED  BY <1>4, <3>1, <3>4, <3>5
  <2> QED  BY <2>2 DEF InView, Map!OnMap
<1> QED  BY <1>3, <1>5, <1>6, <1>7, ViewsShrink

LEMMA RequestShows ==
  ASSUME MapInv, NEW r \in Writers,
         Map!WriteOnMap(r) \/ Map!RollBackOnMap(r)
  PROVE  MapInv'
<1>1. /\ MapTyped /\ Map!TypeOK /\ Untouched /\ ToConfirm(task_request)
  BY MapParts DEF MapTyped
<1>2. CASE Map!WriteOnMap(r)
  <2>1. /\ Map!Write(r)
        /\ map_saw' = IF map_stored THEN map_saw \union {r} ELSE map_saw \ {r}
        /\ map_stored' = map_stored /\ map_current' = map_current
        /\ map_placed' = map_placed /\ map_drawn' = map_drawn
        /\ map_client' = map_client /\ map_missed' = map_missed
    BY <1>2 DEF Map!WriteOnMap, Map!layout
  <2>2. PICK plan : Validated(plan) /\ Map!Begin(r, plan)
    BY <1>1, <2>1, WriteEffect
  <2>3. /\ Map!TypeOK' /\ task_request'[r] = plan
        /\ \A v \in Writers : v # r => task_request'[v] = task_request[v]
        /\ task_edge' = task_edge
    BY <1>1, <2>2, BeginEffect
  <2>4. MapTyped' /\ Untouched'
    BY <1>1, <2>1, <2>3 DEF MapTyped, Untouched
  <2>5. ToConfirm(task_request')
    <3>1. plan.does = "decide" =>
            plan.to # "proposed" /\ (plan.to = "confirmed" => plan.from = "proposed")
      BY <2>2 DEF Validated
    <3> QED  BY <1>1, <2>3, <3>1 DEF ToConfirm
  <2> QED  BY <2>1, <2>3, <2>4, <2>5, SameViews, ViewsShrink
<1>3. CASE Map!RollBackOnMap(r)
  <2>1. /\ Map!RollBack(r) /\ map_saw' = map_saw \ {r}
        /\ map_stored' = map_stored /\ map_current' = map_current
        /\ map_placed' = map_placed /\ map_drawn' = map_drawn
        /\ map_client' = map_client /\ map_missed' = map_missed
    BY <1>3 DEF Map!RollBackOnMap, Map!layout
  <2>2. /\ Map!TypeOK' /\ task_request'[r] = Map!Idle
        /\ \A v \in Writers : v # r => task_request'[v] = task_request[v]
        /\ \A x \in Edges : task_edge'[x] = task_edge[x] \/ Forgotten(x)
    BY <1>1, <2>1, RollBackEffect
  <2>3. MapTyped' /\ Untouched'
    BY <1>1, <2>1, <2>2 DEF MapTyped, Untouched
  <2>4. ToConfirm(task_request')
    BY <1>1, <2>2 DEF ToConfirm, Map!Idle
  <2>5. ASSUME NEW T
        PROVE  InView(T)' \subseteq InView(T)
    <3>1. \A x \in Edges : task_edge'[x].state = "confirmed" => task_edge'[x] = task_edge[x]
      BY <2>2 DEF Forgotten, Map!NoEdge
    <3> QED  BY <2>1, <3>1 DEF InView, Map!OnMap
  <2> QED  BY <2>1, <2>3, <2>4, <2>5, ViewsShrink
<1> QED  BY <1>2, <1>3

LEMMA TaskShows ==
  ASSUME MapInv, Map!CreateOnMap \/ Map!RewriteOnMap
  PROVE  MapInv'
<1>1. /\ MapTyped /\ Map!TypeOK /\ Untouched /\ ToConfirm(task_request)
  BY MapParts DEF MapTyped
<1>2. /\ map_current' \in {{}, map_current}
      /\ map_stored' = map_stored /\ map_placed' = map_placed /\ map_drawn' = map_drawn
      /\ map_client' = map_client /\ map_saw' = map_saw /\ map_missed' = map_missed
  BY DEF Map!CreateOnMap, Map!RewriteOnMap, Map!Bumped, Map!layout
<1>3. Map!TypeOK' /\ task_edge' = task_edge /\ task_request' = task_request
  <2>1. Map!CreateTask \/ Map!Rewrite
    BY DEF Map!CreateOnMap, Map!RewriteOnMap
  <2> QED  BY <1>1, <2>1, TaskEffect DEF TaskWritten
<1>4. MapTyped' /\ Untouched' /\ ToConfirm(task_request')
  BY <1>1, <1>2, <1>3 DEF MapTyped, Untouched
<1> QED  BY <1>2, <1>3, <1>4, SameViews, ViewsShrink

\* The client.
LEMMA ClientShows ==
  ASSUME MapInv,
         \/ Map!ReadLayout \/ Map!ReadRevision \/ Map!ReadTasks
         \/ Map!ReadEdges \/ Map!Replace \/ Map!GiveUp
  PROVE  MapInv'
<1>1. /\ MapTyped /\ Map!TypeOK /\ Untouched /\ ToConfirm(task_request)
      /\ SnapshotHolds /\ ClientHolds
  BY MapParts DEF MapTyped
<1>2. /\ task_seen' = task_seen /\ task_mode' = task_mode
      /\ task_edge' = task_edge /\ task_request' = task_request
      /\ map_saw' = map_saw /\ map_missed' = map_missed
  BY DEF Map!ReadLayout, Map!ReadRevision, Map!ReadTasks, Map!ReadEdges, Map!Replace,
         Map!GiveUp, Map!compositionVars, Map!tasks, Map!layout
<1>3. Map!TypeOK' /\ ToConfirm(task_request')
  BY <1>1, <1>2, TaskTypes, TaskTypesNext
<1>4. \A T : InView(T)' \subseteq InView(T)
  BY <1>2, SameViews
<1>5. Map!Resting = MapRest /\ MapRest \in MapClients /\ MapRest.at = "rest"
  BY DEF Map!Resting, MapRest, MapClients
<1>6. map_client \in MapClients
  BY <1>1 DEF MapTyped
<1>7. CASE Map!ReadLayout
  <2>1. /\ map_stored' = TRUE /\ map_client' \in {MapRest, [at |-> "layout"]}
        /\ map_current' = map_current /\ map_placed' = map_placed /\ map_drawn' = map_drawn
    BY <1>5, <1>7 DEF Map!ReadLayout
  <2>2. map_client' \in MapClients /\ map_client'.at # "edges"
    BY <1>5, <2>1 DEF MapClients
  <2>3. MapTyped' /\ Untouched'
    BY <1>1, <1>2, <1>3, <2>1, <2>2 DEF MapTyped, Untouched
  <2> QED  BY <1>3, <1>4, <2>1, <2>2, <2>3, ViewsShrink
<1>8. CASE Map!ReadRevision
  <2>1. /\ map_client.at = "layout" /\ map_client' = [at |-> "revision"]
        /\ map_current' = map_current \union {"client"}
        /\ map_stored' = map_stored /\ map_placed' = map_placed /\ map_drawn' = map_drawn
    BY <1>8 DEF Map!ReadRevision
  <2>2. map_client' \in MapClients /\ map_client'.at = "revision"
    BY <2>1 DEF MapClients
  <2>3. map_stored
    BY <1>1, <1>5, <2>1 DEF Untouched
  <2>4. MapTyped' /\ Untouched'
    BY <1>1, <1>2, <1>3, <2>1, <2>2, <2>3 DEF MapTyped, Untouched
  <2> QED  BY <1>3, <1>4, <2>1, <2>2, <2>4, ViewsShrink
<1>9. CASE Map!ReadTasks
  <2>1. /\ map_client.at = "revision"
        /\ map_client' = [at |-> "tasks", tasks |-> Map!Eligible]
        /\ map_current' = map_current
        /\ map_stored' = map_stored /\ map_placed' = map_placed /\ map_drawn' = map_drawn
    BY <1>9 DEF Map!ReadTasks, Map!layout
  <2>2. map_client' \in MapClients /\ map_client'.at = "tasks"
    <3>1. Map!Eligible \in SUBSET Tasks
      BY DEF Map!Eligible
    <3> QED  BY <2>1, <3>1 DEF MapClients
  <2>3. map_stored
    BY <1>1, <1>5, <2>1 DEF Untouched
  <2>4. MapTyped' /\ Untouched'
    BY <1>1, <1>2, <1>3, <2>1, <2>2, <2>3 DEF MapTyped, Untouched
  <2> QED  BY <1>3, <1>4, <2>1, <2>2, <2>4, ViewsShrink
<1>10. CASE Map!ReadEdges
  <2>1. /\ map_client.at = "tasks"
        /\ map_client' = [at |-> "edges", tasks |-> map_client.tasks,
                          edges |-> Map!Among(map_client.tasks)]
        /\ map_current' = map_current
        /\ map_stored' = map_stored /\ map_placed' = map_placed /\ map_drawn' = map_drawn
    BY <1>10 DEF Map!ReadEdges, Map!layout
  <2>2. PICK T \in SUBSET Tasks : T = map_client.tasks
    BY <1>6, <2>1, ClientTypes
  <2>3. Map!Among(T) \in SUBSET (Tasks \X Tasks) /\ InView(T) \subseteq Map!Among(T)
    BY DEF Map!Among, InView
  <2>4. /\ map_client'.at = "edges" /\ map_client'.tasks = T
        /\ map_client'.edges = Map!Among(T)
    BY <2>1, <2>2
  <2>5. map_client' \in MapClients
    BY <2>1, <2>2, <2>3 DEF MapClients
  <2>6. map_stored
    BY <1>1, <1>5, <2>1 DEF Untouched
  <2>7. MapTyped' /\ Untouched'
    BY <1>1, <1>2, <1>3, <2>1, <2>5, <2>6 DEF MapTyped, Untouched
  <2>8. InView(T)' \subseteq map_client'.edges
    BY <1>4, <2>3, <2>4
  <2>9. ClientHolds'
    BY <2>4, <2>8 DEF ClientHolds, InView
  <2>10. SnapshotHolds'
    <3>1. PICK P : P = map_placed /\ P = map_placed'
      BY <2>1
    <3>2. "snapshot" \in map_current => InView(P)' \subseteq map_drawn'
      BY <1>1, <1>4, <2>1, <3>1 DEF SnapshotHolds
    <3> QED  BY <2>1, <3>1, <3>2 DEF SnapshotHolds, InView
  <2> QED  BY <1>3, <2>7, <2>9, <2>10, MapParts
<1>11. CASE Map!Replace
  <2>1. /\ map_client.at = "edges" /\ map_client' = MapRest /\ map_stored' = map_stored
        /\ \/ /\ "client" \in map_current /\ map_current' = {"snapshot"}
              /\ map_placed' = map_client.tasks /\ map_drawn' = map_client.edges
           \/ /\ map_current' = map_current \ {"client"}
              /\ map_placed' = map_placed /\ map_drawn' = map_drawn
    BY <1>5, <1>11 DEF Map!Replace, Map!Expected
  <2>2. map_stored
    BY <1>1, <1>5, <2>1 DEF Untouched
  <2>3. /\ map_client.tasks \in SUBSET Tasks
        /\ map_client.edges \in SUBSET (Tasks \X Tasks)
    BY <1>6, <2>1, ClientTypes
  <2>4. MapTyped' /\ Untouched'
    BY <1>1, <1>2, <1>3, <1>5, <2>1, <2>2, <2>3 DEF MapTyped, Untouched
  <2>5. map_client'.at # "edges"
    BY <1>5, <2>1
  <2>6. CASE /\ "client" \in map_current /\ map_current' = {"snapshot"}
             /\ map_placed' = map_client.tasks /\ map_drawn' = map_client.edges
    <3>1. PICK T : T = map_client.tasks /\ T = map_placed'
      BY <2>6
    <3>2. InView(T) \subseteq map_drawn'
      BY <1>1, <2>1, <2>6, <3>1 DEF ClientHolds
    <3>3. InView(T)' \subseteq map_drawn'
      BY <1>4, <3>2
    <3>4. SnapshotHolds'
      BY <3>1, <3>3 DEF SnapshotHolds, InView
    <3> QED  BY <1>3, <2>4, <2>5, <3>4, MapParts DEF ClientHolds
  <2>7. CASE /\ map_current' = map_current \ {"client"}
             /\ map_placed' = map_placed /\ map_drawn' = map_drawn
    BY <1>3, <1>4, <2>4, <2>5, <2>7, ViewsShrink
  <2> QED  BY <2>1, <2>6, <2>7
<1>12. CASE Map!GiveUp
  <2>1. /\ map_client # MapRest /\ map_client' = MapRest
        /\ map_current' = map_current \ {"client"}
        /\ map_stored' = map_stored /\ map_placed' = map_placed /\ map_drawn' = map_drawn
    BY <1>5, <1>12 DEF Map!GiveUp
  <2>2. MapTyped' /\ Untouched' /\ map_client'.at # "edges"
    BY <1>1, <1>2, <1>3, <1>5, <2>1 DEF MapTyped, Untouched
  <2> QED  BY <1>3, <1>4, <2>1, <2>2, ViewsShrink
<1> QED  BY <1>7, <1>8, <1>9, <1>10, <1>11, <1>12

LEMMA MapStep ==
  ASSUME MapInv, Map!MapNext
  PROVE  MapInv'
BY CommitShows, RequestShows, TaskShows, ClientShows DEF Map!MapNext

-----------------------------------------------------------------------------
(* Sums and selections of the libraries.                                   *)

LEMMA SumIs ==
  ASSUME NEW S, IsFiniteSet(S), NEW f \in [S -> Nat]
  PROVE  \E g : IsSum(g, f, S) /\ SumFunction(f) = g[S]
<1> DEFINE Is(it) == it = [s \in SUBSET S |->
                 IF s = {} THEN 0
                 ELSE f[CHOOSE x \in s : TRUE] + it[s \ {CHOOSE x \in s : TRUE}]]
<1>1. SumFunction(f) = (CHOOSE it : Is(it))[S]
  <2>1. DOMAIN f = S
    OBVIOUS
  <2> QED  BY <2>1 DEF SumFunction, SumFunctionOnSet, FoldFunctionOnSet, MapThenFoldSet
<1>2. PICK g0 : IsSum(g0, f, S)
  BY SumExists
<1>3. Is(g0)
  BY <1>2 DEF IsSum, AnyOf
<1>4. PICK g : g = (CHOOSE it : Is(it))
  OBVIOUS
<1>5. Is(g)
  <2> HIDE DEF Is
  <2> QED  BY <1>3, <1>4
<1>6. IsSum(g, f, S)
  <2>1. g = [T \in SUBSET S |-> IF T = {} THEN 0 ELSE f[AnyOf(T)] + g[T \ {AnyOf(T)}]]
    BY <1>5 DEF AnyOf
  <2> QED  BY <2>1, SumIsThat
<1> HIDE DEF Is
<1> QED  BY <1>1, <1>4, <1>6

\* A sum grows and falls with its summands.
LEMMA SumMoves ==
  ASSUME NEW S, IsFiniteSet(S), NEW f \in [S -> Nat], NEW h \in [S -> Nat],
         NEW o \in S, \A x \in S : x # o => h[x] = f[x]
  PROVE  /\ SumFunction(f) \in Nat /\ SumFunction(h) \in Nat
         /\ SumFunction(h) - SumFunction(f) = h[o] - f[o]
<1>1. PICK g : IsSum(g, f, S) /\ SumFunction(f) = g[S]
  BY SumIs
<1>2. PICK k : IsSum(k, h, S) /\ SumFunction(h) = k[S]
  BY SumIs
<1> QED  BY <1>1, <1>2, SumMovesBy

LEMMA SumOfZeros ==
  ASSUME NEW S, IsFiniteSet(S), NEW f \in [S -> Nat], \A x \in S : f[x] = 0
  PROVE  SumFunction(f) = 0
<1>1. PICK g : IsSum(g, f, S) /\ SumFunction(f) = g[S]
  BY SumIs
<1> QED  BY <1>1, SumIsZero

LEMMA AppendedIsIn ==
  ASSUME NEW S, NEW q \in Seq(S), NEW x \in S
  PROVE  /\ Append(q, x) \in Seq(S) /\ IsIn(Append(q, x), x)
         /\ \A y : IsIn(q, y) => IsIn(Append(q, x), y)
<1>1. PICK p : p = Append(q, x)
  OBVIOUS
<1>2. /\ p \in Seq(S) /\ Len(q) \in Nat /\ Len(p) = Len(q) + 1 /\ p[Len(p)] = x
      /\ \A i \in 1 .. Len(q) : p[i] = q[i]
  BY <1>1
<1>3. Len(p) \in 1 .. Len(p) /\ \A i \in 1 .. Len(q) : i \in 1 .. Len(p)
  BY <1>2
<1> QED  BY <1>1, <1>2, <1>3 DEF IsIn

\* What is kept of a sequence over S is one, and has what is to be kept.
LEMMA OnlyIsSeq ==
  ASSUME NEW S, NEW s \in Seq(S), NEW K
  PROVE  /\ Only(s, K) \in Seq(S)
         /\ \A x \in K : IsIn(s, x) => IsIn(Only(s, K), x)
<1> DEFINE N == Len(s)
           Is(f) == f = [n \in 0 .. N |-> IF n = 0 THEN << >>
                          ELSE IF s[n] \in K THEN Append(f[n - 1], s[n]) ELSE f[n - 1]]
           More(n, q) == IF s[n] \in K THEN Append(q, s[n]) ELSE q
           next == [n \in 1 .. N |-> [q \in Seq(S) |-> More(n, q)]]
<1>1. Only(s, K) = (CHOOSE f : Is(f))[N]
  BY DEF Only
<1>2. N \in Nat
  OBVIOUS
<1>3. \A n \in 1 .. N, q \in Seq(S) : More(n, q) \in Seq(S)
  OBVIOUS
<1>4. IsNext(next, N, Seq(S))
  <2> HIDE DEF N, More
  <2> QED  BY <1>3 DEF IsNext
<1>5. PICK f : IsSteps(f, << >>, next, N, Seq(S))
  <2>1. << >> \in Seq(S)
    OBVIOUS
  <2> HIDE DEF next, N
  <2> QED  BY <1>2, <1>4, <2>1, StepsExist
<1>6. f \in [0 .. N -> Seq(S)] /\ f[0] = << >>
  <2> HIDE DEF N, next
  <2> QED  BY <1>5 DEF IsSteps
<1>7. ASSUME NEW n \in 1 .. N
      PROVE  f[n] = More(n, f[n - 1])
  <2>1. n - 1 \in 0 .. N
    BY <1>2
  <2>2. f[n - 1] \in Seq(S)
    <3> HIDE DEF N
    <3> QED  BY <1>6, <2>1
  <2>3. f[n] = next[n][f[n - 1]]
    <3> HIDE DEF N, next
    <3> QED  BY <1>5 DEF IsSteps
  <2> HIDE DEF N, More
  <2> QED  BY <2>2, <2>3
<1>8. Is(f)
  <2>1. \A n \in 0 .. N : n # 0 => n \in 1 .. N
    BY <1>2
  <2> HIDE DEF N
  <2> QED  BY <1>6, <1>7, <2>1
<1>9. PICK g : g = (CHOOSE h : Is(h))
  OBVIOUS
<1>10. Is(g)
  <2> HIDE DEF Is
  <2> QED  BY <1>8, <1>9
<1> DEFINE Has(n) == \A i \in 1 .. n : s[i] \in K => IsIn(g[n], s[i])
           G == {n \in 0 .. N : g[n] \in Seq(S) /\ Has(n)}
<1>11. 0 \in G
  <2>1. 0 \in 0 .. N /\ << >> \in Seq(S) /\ 1 .. 0 = {}
    BY <1>2
  <2> HIDE DEF N
  <2> QED  BY <1>10, <2>1
<1>12. ASSUME NEW n \in 1 .. N, n - 1 \in G
       PROVE  n \in G
  <2>1. n \in 0 .. N /\ n # 0 /\ n - 1 \in 0 .. N
    BY <1>2
  <2>2. g[n] = More(n, g[n - 1])
    <3> HIDE DEF N
    <3> QED  BY <1>10, <2>1
  <2>3. g[n - 1] \in Seq(S) /\ Has(n - 1)
    BY <1>12
  <2>4. g[n] \in Seq(S)
    <3> HIDE DEF N, More, Has
    <3> QED  BY <1>3, <2>1, <2>2, <2>3
  <2>5. Has(n)
    <3>1. SUFFICES ASSUME NEW i \in 1 .. n, s[i] \in K
                   PROVE  IsIn(g[n], s[i])
      OBVIOUS
    <3>2. i \in Int /\ n \in Int
      OBVIOUS
    <3>3. CASE i = n
      BY <2>2, <2>3, <3>1, <3>3, AppendedIsIn
    <3>4. CASE i # n
      <4>1. i \in 1 .. n - 1
        BY <3>2, <3>4
      <4>2. IsIn(g[n - 1], s[i])
        BY <2>3, <3>1, <4>1
      <4>3. s[n] \in S
        OBVIOUS
      <4> QED  BY <2>2, <2>3, <4>2, <4>3, AppendedIsIn
    <3> QED  BY <3>3, <3>4
  <2> HIDE DEF N, More, Has
  <2> QED  BY <2>1, <2>4, <2>5
<1>13. \A n \in 0 .. N : n \in G
  <2> HIDE DEF G, N
  <2> QED  BY <1>2, <1>11, <1>12, StepByStep
<1>14. N \in 0 .. N
  BY <1>2
<1>15. g[N] \in Seq(S) /\ Has(N)
  <2> HIDE DEF N, Has
  <2> QED  BY <1>13, <1>14
<1>16. Only(s, K) = g[N]
  <2> HIDE DEF Is
  <2> QED  BY <1>1, <1>9
<1> HIDE DEF Is
<1> QED  BY <1>15, <1>16 DEF IsIn

-----------------------------------------------------------------------------
(* Reviews: types.                                                         *)

SyncStates ==
  {NoSync} \union [by : Threads \union {Request}, enabled : BOOLEAN, plan : Plans,
                   seen : [Slots -> JobRow]]
ThreadStates ==
  {Idle, Maintaining}
  \union [phase : {"claimed", "gated", "stopping"}, id : Slots]
  \union [phase : {"decided"}, id : Slots, about : Decisions]
  \union [phase : {"holding"}, id : Slots, about : Decisions, enabled : BOOLEAN]

QueueTyped ==
  /\ enabled \in BOOLEAN
  /\ job \in [Slots -> JobRow] /\ waiting \subseteq Slots /\ order \in Seq(Slots)
NotesTyped == unresolved \in [Sources -> Nat] /\ recent \in [Sources -> [Insights -> Nat]]

LEMMA ReviewTypes ==
  /\ TypeOK <=> /\ QueueTyped /\ NotesTyped
                /\ sync \in SyncStates /\ thread \in [Threads -> ThreadStates]
  /\ TypeOK' <=> /\ QueueTyped' /\ NotesTyped'
                 /\ sync' \in SyncStates /\ thread' \in [Threads -> ThreadStates]
<1>1. TypeOK <=> /\ QueueTyped /\ NotesTyped
                 /\ sync \in SyncStates /\ thread \in [Threads -> ThreadStates]
  BY DEF TypeOK, QueueTyped, NotesTyped, SyncStates, ThreadStates
<1>2. TypeOK' <=> /\ QueueTyped' /\ NotesTyped'
                  /\ sync' \in SyncStates /\ thread' \in [Threads -> ThreadStates]
  BY DEF TypeOK, QueueTyped, NotesTyped, SyncStates, ThreadStates
<1> QED  BY <1>1, <1>2

LEMMA ThreadMeans ==
  ASSUME NEW h \in ThreadStates
  PROVE  /\ h.phase = "idle" <=> h = Idle
         /\ h.phase = "maintaining" <=> h = Maintaining
         /\ h \notin {Idle, Maintaining} => h.id \in Slots
         /\ h.phase \in {"decided", "holding"} => h.about \in Decisions
         /\ h.phase = "holding" => h.enabled \in BOOLEAN
         /\ h.phase \in {"idle", "maintaining", "claimed", "gated", "stopping", "decided",
                         "holding"}
<1>1. CASE h \in {Idle, Maintaining}
  BY <1>1 DEF Idle, Maintaining
<1>2. CASE h \in [phase : {"claimed", "gated", "stopping"}, id : Slots]
  BY <1>2 DEF Idle, Maintaining
<1>3. CASE h \in [phase : {"decided"}, id : Slots, about : Decisions]
  BY <1>3 DEF Idle, Maintaining
<1>4. CASE h \in [phase : {"holding"}, id : Slots, about : Decisions, enabled : BOOLEAN]
  BY <1>4 DEF Idle, Maintaining
<1> QED  BY <1>1, <1>2, <1>3, <1>4 DEF ThreadStates

LEMMA SyncMeans ==
  ASSUME NEW pass \in SyncStates, pass # NoSync
  PROVE  /\ pass.by \in Threads \union {Request} /\ pass.enabled \in BOOLEAN
         /\ pass.plan \in Plans /\ pass.seen \in [Slots -> JobRow]
BY DEF SyncStates

LEMMA ReviewRowTypes ==
  ASSUME NEW row \in JobRow
  PROVE  /\ NoRow \in JobRow /\ Enqueued \in JobRow
         /\ Claimed(row) \in JobRow /\ Done(row) \in JobRow
         /\ Retired(row) \in JobRow /\ Rearmed(row) \in JobRow
         /\ Parked(row) \in JobRow
         /\ \A error \in Errors : AfterFailure("proactive", error, row) \in JobRow
<1>1. /\ row.status \in Statuses /\ row.attempts \in Nat
      /\ row.lease \in {"none", "held", "stale"}
      /\ row.parked \in BOOLEAN /\ row.transient \in BOOLEAN
  BY DEF JobRow
<1>2. ASSUME NEW status \in Statuses, NEW n \in Nat, NEW lease \in {"none", "held", "stale"},
             NEW parked \in BOOLEAN, NEW transient \in BOOLEAN
      PROVE  Row(status, n, lease, parked, transient) \in JobRow
  BY DEF Row, JobRow
<1>3. {"absent", "pending", "running", "done", "failed"} = Statuses
  BY DEF Statuses
<1>4. NoRow \in JobRow /\ Enqueued \in JobRow
  BY <1>2, <1>3 DEF NoRow, Enqueued
<1>5. Claimed(row) \in JobRow /\ Done(row) \in JobRow
  BY <1>1, <1>2, <1>3 DEF Claimed, Done
<1>6. Retired(row) \in JobRow /\ Rearmed(row) \in JobRow
  BY <1>1, <1>2, <1>3 DEF Retired, Rearmed
<1>7. Parked(row) \in JobRow
  <2>1. (IF row.attempts > 0 THEN row.attempts - 1 ELSE 0) \in Nat
    BY <1>1
  <2> QED  BY <1>1, <1>2, <1>3, <2>1 DEF Parked
<1>8. ASSUME NEW error \in Errors
      PROVE  AfterFailure("proactive", error, row) \in JobRow
  <2>1. AfterFailure("proactive", error, row) = Retried("proactive", error, row)
    BY DEF AfterFailure
  <2>2. Failed(row) \in JobRow /\ Requeued(row, 0) \in JobRow
        /\ Requeued(row, row.attempts) \in JobRow
    BY <1>1, <1>2, <1>3 DEF Failed, Requeued
  <2>3. Retried("proactive", error, row) \in
          {Failed(row), Requeued(row, 0), Requeued(row, row.attempts)}
    BY DEF Retried, SourceKinds
  <2> QED  BY <2>1, <2>2, <2>3
<1> QED  BY <1>4, <1>5, <1>6, <1>7, <1>8

LEMMA WrittenTypes ==
  ASSUME NEW now \in JobRow, NEW seen \in JobRow, NEW want \in JobRow
  PROVE  /\ Written(now, seen, want) \in JobRow
         /\ want.status # seen.status => Written(now, seen, want).status = want.status
<1>1. PICK fields : fields = {"status", "attempts", "lease", "parked", "transient"}
  OBVIOUS
<1>2. DOMAIN now = fields
  BY <1>1 DEF JobRow
<1>3. \A f \in fields :
        Written(now, seen, want)[f] = IF want[f] = seen[f] THEN now[f] ELSE want[f]
  BY <1>2 DEF Written
<1>4. Written(now, seen, want) \in JobRow
  <2>1. PICK w : w = Written(now, seen, want)
    OBVIOUS
  <2>2. /\ w.status \in Statuses /\ w.attempts \in Nat
        /\ w.lease \in {"none", "held", "stale"}
        /\ w.parked \in BOOLEAN /\ w.transient \in BOOLEAN
    BY <1>1, <1>3, <2>1 DEF JobRow
  <2>3. w = [f \in fields |-> w[f]]
    BY <1>2, <2>1 DEF Written
  <2> QED  BY <1>1, <2>1, <2>2, <2>3 DEF JobRow
<1>5. Written(now, seen, want).status =
        IF want.status = seen.status THEN now.status ELSE want.status
  BY <1>1, <1>3
<1> QED  BY <1>4, <1>5

LEMMA Updated ==
  ASSUME NEW rows \in [Slots -> JobRow], NEW line \in Seq(Slots), NEW later \in SUBSET Slots,
         NEW held, NEW pass, Update(rows, line, later, held, pass),
         \A s \in Kept(rows, held, pass) : IsIn(line, s)
  PROVE  /\ job' \in [Slots -> JobRow] /\ waiting' \subseteq Slots /\ order' \in Seq(Slots)
         /\ \A s \in Slots : job'[s] = rows[s] \/ job'[s] = NoRow
         /\ thread' = held /\ sync' = pass
         /\ RowsAreInLine'
<1>1. PICK kept : kept = Kept(rows, held, pass)
  OBVIOUS
<1>2. /\ job' = [s \in Slots |-> IF s \in kept THEN rows[s] ELSE NoRow]
      /\ order' = Only(line, kept)
      /\ waiting' = later \intersect kept
      /\ thread' = held /\ sync' = pass
  BY <1>1 DEF Update
<1>3. \A s \in Slots : rows[s] \in JobRow /\ NoRow \in JobRow
  BY ReviewRowTypes
<1>4. order' \in Seq(Slots) /\ \A s \in kept : IsIn(order', s)
  BY <1>1, <1>2, OnlyIsSeq
<1>5. ~ Held(NoRow)
  BY DEF Held, NoRow, Row
<1>6. \A s \in Slots : Held(job'[s]) => s \in kept
  BY <1>2, <1>5
<1>7. \A s \in Kept(job', held, pass) : s \in kept
  <2>1. SUFFICES ASSUME NEW s \in Slots, s \in Kept(job', held, pass) PROVE s \in kept
    BY DEF Kept
  <2> QED  BY <1>1, <1>6, <2>1 DEF Kept
<1>8. Kept(job, thread, sync)' = Kept(job', held, pass)
  BY <1>2 DEF Kept
<1>9. RowsAreInLine'
  BY <1>4, <1>7, <1>8 DEF RowsAreInLine
<1> QED  BY <1>2, <1>3, <1>4, <1>9

-----------------------------------------------------------------------------
(* Reviews: steps.                                                         *)

LEMMA LikelyCount ==
  ASSUME NEW held
  PROVE  /\ Likely(held) \subseteq Threads /\ IsFiniteSet(Likely(held))
         /\ Cardinality(Likely(held)) \in Nat /\ Cardinality(Threads) \in Nat
         /\ Cardinality(Likely(held)) <= Cardinality(Threads)
<1>1. IsFiniteSet(Threads) /\ Likely(held) \in SUBSET Threads
  BY ReviewAssumption DEF Likely
<1> QED  BY <1>1, PartIsSmaller

LEMMA UnresolvedCount ==
  ASSUME NotesTyped
  PROVE  Unresolved \in Nat
<1>1. IsFiniteSet(Sources) /\ unresolved \in [Sources -> Nat]
  BY ReviewAssumption DEF NotesTyped
<1>2. CASE Sources = {}
  <2>1. PICK f \in [Sources -> Nat] : f = unresolved
    BY <1>1
  <2>2. \A x \in Sources : f[x] = 0
    BY <1>2
  <2>3. SumFunction(f) = 0
    BY <1>1, <2>2, SumOfZeros
  <2> QED  BY <2>1, <2>3 DEF Unresolved
<1>3. ASSUME NEW o \in Sources
      PROVE  Unresolved \in Nat
  <2>1. PICK f \in [Sources -> Nat] : f = unresolved
    BY <1>1
  <2>2. SumFunction(f) \in Nat
    BY <1>1, SumMoves
  <2> QED  BY <2>1, <2>2 DEF Unresolved
<1> QED  BY <1>2, <1>3

\* Nobody becomes likely to notify.
LEMMA CapKept ==
  ASSUME TypeOK, WithinCap, unresolved' = unresolved,
         \A t \in Threads : t \in Likely(thread') => t \in Likely(thread)
  PROVE  WithinCap'
<1>1. Cardinality(Likely(thread')) <= Cardinality(Likely(thread))
  <2>1. Likely(thread') \in SUBSET Likely(thread) /\ IsFiniteSet(Likely(thread))
    BY LikelyCount
  <2> QED  BY <2>1, PartIsSmaller
<1>2. Unresolved' = Unresolved /\ Unresolved \in Nat
  BY ReviewTypes, UnresolvedCount DEF Unresolved
<1>3. Likely(thread)' = Likely(thread')
  BY DEF Likely
<1>4. /\ Cardinality(Likely(thread')) \in Nat /\ Cardinality(Likely(thread)) \in Nat
      /\ Cardinality(Threads) \in Nat /\ MaxUnresolved \in Nat
  BY LikelyCount, ReviewAssumption
<1>5. Unresolved + Cardinality(Likely(thread)) <= MaxUnresolved - 1 + Cardinality(Threads)
  BY DEF WithinCap
<1>6. Unresolved' + Cardinality(Likely(thread')) <= MaxUnresolved - 1 + Cardinality(Threads)
  BY <1>1, <1>2, <1>4, <1>5
<1> QED  BY <1>3, <1>6 DEF WithinCap

LEMMA HoldersStay ==
  ASSUME HoldersAreAlone, sync' = sync, enabled' = enabled,
         \A t \in Threads : thread'[t].phase = "holding" => thread'[t] = thread[t]
  PROVE  HoldersAreAlone'
BY DEF HoldersAreAlone

LEMMA NoHolders ==
  ASSUME \A t \in Threads : thread'[t].phase # "holding"
  PROVE  HoldersAreAlone'
BY DEF HoldersAreAlone

LEMMA PassStays ==
  ASSUME PassFollowsOptIn, sync' = sync
  PROVE  PassFollowsOptIn'
BY DEF PassFollowsOptIn

\* A thread that goes on to something else, or is done.
LEMMA ThreadMoved ==
  ASSUME thread \in [Threads -> ThreadStates], NEW t \in Threads, NEW h \in ThreadStates,
         thread' = [thread EXCEPT ![t] = h]
  PROVE  /\ thread' \in [Threads -> ThreadStates] /\ thread'[t] = h
         /\ \A u \in Threads : u # t => thread'[u] = thread[u]
         /\ h.phase # "holding" =>
              \A u \in Threads : thread'[u].phase = "holding" => thread'[u] = thread[u]
         /\ t \notin Likely(thread') \/ t \in Likely(thread) =>
              \A u \in Threads : u \in Likely(thread') => u \in Likely(thread)
<1>1. /\ thread' \in [Threads -> ThreadStates] /\ thread'[t] = h
      /\ \A u \in Threads : u # t => thread'[u] = thread[u]
  OBVIOUS
<1> QED  BY <1>1 DEF Likely

LEMMA ReviewStart ==
  ASSUME Init
  PROVE  ReviewInv
<1>1. /\ enabled = FALSE /\ job = [s \in Slots |-> NoRow] /\ waiting = {} /\ order = << >>
      /\ sync = NoSync /\ thread = [t \in Threads |-> Idle]
      /\ unresolved = [o \in Sources |-> 0]
      /\ recent = [o \in Sources |-> [i \in Insights |-> 0]]
  BY DEF Init, NothingSaid
<1>2. Idle \in ThreadStates /\ NoSync \in SyncStates /\ Idle.phase = "idle"
  BY DEF ThreadStates, SyncStates, Idle
<1>3. NoRow \in JobRow
  BY DEF NoRow, Row, JobRow, Statuses
<1>4. TypeOK
  <2>1. << >> \in Seq(Slots)
    OBVIOUS
  <2> QED  BY <1>1, <1>2, <1>3, <2>1, ReviewTypes DEF QueueTyped, NotesTyped
<1>5. HoldersAreAlone /\ PassFollowsOptIn /\ NoRepeat /\ RowsAreInLine
  <2>1. ~ Held(NoRow)
    BY DEF Held, NoRow, Row
  <2>2. Kept(job, thread, sync) = {}
    BY <1>1, <2>1 DEF Kept
  <2> QED  BY <1>1, <1>2, <2>2 DEF HoldersAreAlone, PassFollowsOptIn, NoRepeat, RowsAreInLine
<1>6. Unresolved = 0
  BY <1>1, ReviewAssumption, SumOfZeros DEF Unresolved
<1>7. Likely(thread) = {}
  BY <1>1, <1>2 DEF Likely
<1>8. WithinCap
  <2>1. Cardinality(Likely(thread)) = 0
    BY <1>7, FS_EmptySet
  <2>2. MaxUnresolved \in Nat \ {0} /\ Cardinality(Threads) \in Nat
    BY ReviewAssumption, FS_CardinalityType
  <2> QED  BY <1>6, <2>1, <2>2 DEF WithinCap
<1> QED  BY <1>4, <1>5, <1>8 DEF ReviewInv

\* What a step leaves alone.
LEMMA ReviewKept ==
  ASSUME ReviewInv, UNCHANGED vars
  PROVE  ReviewInv'
<1>1. /\ enabled' = enabled /\ job' = job /\ waiting' = waiting /\ order' = order
      /\ sync' = sync /\ thread' = thread /\ unresolved' = unresolved /\ recent' = recent
  BY DEF vars, queue, notes
<1>2. TypeOK'
  BY <1>1, ReviewTypes DEF ReviewInv, QueueTyped, NotesTyped
<1>3. HoldersAreAlone' /\ PassFollowsOptIn' /\ NoRepeat' /\ RowsAreInLine'
  BY <1>1 DEF ReviewInv, HoldersAreAlone, PassFollowsOptIn, NoRepeat, RowsAreInLine, Kept,
              IsIn
<1>4. WithinCap'
  BY <1>1, CapKept DEF ReviewInv
<1> QED  BY <1>2, <1>3, <1>4 DEF ReviewInv

\* The held row created first is one of them.
LEMMA OldestMeans ==
  ASSUME order \in Seq(Slots), NEW S \in SUBSET Slots, S # {},
         \A s \in S : IsIn(order, s)
  PROVE  Oldest(S) \in S
<1> DEFINE I == {i \in 1 .. Len(order) : order[i] \in S}
<1>1. I # {}
  BY DEF IsIn
<1>2. I \in SUBSET Int /\ IsFiniteSet(I)
  <2>1. IsFiniteSet(1 .. Len(order)) /\ 1 .. Len(order) \subseteq Int
    BY FS_Interval
  <2>2. I \in SUBSET (1 .. Len(order))
    OBVIOUS
  <2> HIDE DEF I
  <2> QED  BY <2>1, <2>2, FS_Subset
<1>3. PICK m \in I : \A i \in I : m <= i
  <2> HIDE DEF I
  <2> QED  BY <1>1, <1>2, LeastExists
<1>4. \A k \in 1 .. m - 1 : order[k] \notin S
  <2>1. m \in 1 .. Len(order)
    OBVIOUS
  <2>2. ASSUME NEW k \in 1 .. m - 1
        PROVE  k \in 1 .. Len(order) /\ ~ (m <= k)
    BY <2>1
  <2> QED  BY <1>3, <2>2
<1>5. PICK i : i = CHOOSE j \in 1 .. Len(order) :
                 order[j] \in S /\ \A k \in 1 .. j - 1 : order[k] \notin S
  OBVIOUS
<1>6. order[i] \in S
  BY <1>3, <1>4, <1>5
<1> QED  BY <1>5, <1>6 DEF Oldest

\* A pass begins.
LEMMA BegunMeans ==
  ASSUME TypeOK, RowsAreInLine, NEW who \in Threads \union {Request}, NEW on \in BOOLEAN
  PROVE  /\ Begun(who, on) \in SyncStates
         /\ Begun(who, on).plan.retire \intersect Begun(who, on).plan.rearm = {}
         /\ Begun(who, on).plan.add \/ Begun(who, on).plan.rearm # {} =>
              Begun(who, on).enabled
         /\ \A s \in Begun(who, on).plan.retire : Begun(who, on).seen[s].status # "done"
         /\ \A s \in Begun(who, on).plan.retire \union Begun(who, on).plan.rearm :
              IsIn(order, s)
<1>1. job \in [Slots -> JobRow] /\ NoRow \in JobRow /\ order \in Seq(Slots)
  BY DEF TypeOK, NoRow, Row, JobRow, Statuses
<1>2. PICK active : active = {s \in HeldJobs : Active(job[s])}
  OBVIOUS
<1>3. PICK ready : ready = HeldJobs \ (active \union waiting)
  OBVIOUS
<1>4. PICK idle : idle = {s \in HeldJobs : job[s].status # "running"}
  OBVIOUS
<1>5. PICK retire : retire = CASE ~on -> idle
                  [] on /\ active # {} -> (active \ {Oldest(active)}) \intersect idle
                  [] on /\ active = {} /\ ready # {} -> ready \ {Oldest(ready)}
                  [] OTHER -> {}
  OBVIOUS
<1>6. PICK rearm : rearm = IF on /\ active = {} /\ ready # {} THEN {Oldest(ready)} ELSE {}
  OBVIOUS
<1>7. PICK plan : plan = [retire |-> retire, rearm |-> rearm, add |-> on /\ HeldJobs = {}]
  OBVIOUS
<1>8. PlanFor(on) = plan
  BY <1>2, <1>3, <1>4, <1>5, <1>6, <1>7 DEF PlanFor
<1>9. /\ HeldJobs \subseteq Slots
      /\ \A s \in HeldJobs : job[s].status # "done" /\ IsIn(order, s)
  BY DEF HeldJobs, Held, RowsAreInLine, Kept
<1>10. retire \subseteq HeldJobs
  BY <1>2, <1>3, <1>4, <1>5
<1>11. rearm \subseteq HeldJobs /\ (rearm # {} => on)
  <2>1. ready \subseteq HeldJobs
    BY <1>3
  <2>2. ready # {} => Oldest(ready) \in ready
    BY <1>1, <1>9, <2>1, OldestMeans
  <2> QED  BY <1>6, <2>1, <2>2
<1>12. retire \intersect rearm = {}
  BY <1>5, <1>6
<1>13. plan \in Plans /\ plan.retire = retire /\ plan.rearm = rearm
       /\ (plan.add => on)
  BY <1>7, <1>9, <1>10, <1>11 DEF Plans
<1>14. PICK seen : seen = [s \in Slots |->
                            IF s \in plan.retire \union plan.rearm THEN job[s] ELSE NoRow]
  OBVIOUS
<1>15. seen \in [Slots -> JobRow] /\ \A s \in retire : seen[s] = job[s]
  BY <1>1, <1>9, <1>10, <1>13, <1>14
<1>16. Begun(who, on) = [by |-> who, enabled |-> on, plan |-> plan, seen |-> seen]
  BY <1>8, <1>14 DEF Begun
<1> QED  BY <1>9, <1>10, <1>11, <1>13, <1>15, <1>16, <1>12 DEF SyncStates


\* Once the user has opted out, nothing is counted up and no row comes back but that of a
\* review that failed.
QuietOnceOut ==
  ~ enabled' =>
    /\ \A o \in Sources : unresolved'[o] <= unresolved[o]
    /\ \A s \in Slots :
         job'[s] = Enqueued =>
           \/ job[s] = Enqueued
           \/ \E t \in Threads : /\ thread[t].phase \notin {"idle", "maintaining", "holding"}
                                 /\ thread[t].id = s

LEMMA NothingNew ==
  ASSUME TypeOK, unresolved' = unresolved,
         \A s \in Slots : job'[s] = Enqueued => job[s] = Enqueued
  PROVE  QuietOnceOut
<1>1. \A o \in Sources : unresolved[o] \in Nat
  BY DEF TypeOK
<1>2. \A o \in Sources : unresolved'[o] <= unresolved[o]
  BY <1>1
<1> QED  BY <1>2 DEF QuietOnceOut

LEMMA PassBegins ==
  ASSUME ReviewInv, SettingsFree, NEW who \in Threads \union {Request}, NEW on \in BOOLEAN,
         sync' = Begun(who, on), UNCHANGED <<enabled, queue, thread, notes>>
  PROVE  ReviewInv' /\ QuietOnceOut
<1>1. /\ TypeOK /\ RowsAreInLine /\ WithinCap /\ NoRepeat
  BY DEF ReviewInv
<1>2. /\ enabled' = enabled /\ job' = job /\ waiting' = waiting /\ order' = order
      /\ thread' = thread /\ unresolved' = unresolved /\ recent' = recent
  BY DEF queue, notes
<1>3. /\ sync' \in SyncStates
      /\ sync'.plan.retire \intersect sync'.plan.rearm = {}
      /\ sync'.plan.add \/ sync'.plan.rearm # {} => sync'.enabled
      /\ \A s \in sync'.plan.retire : sync'.seen[s].status # "done"
      /\ \A s \in sync'.plan.retire \union sync'.plan.rearm : IsIn(order, s)
  BY <1>1, BegunMeans
<1>4. TypeOK'
  BY <1>1, <1>2, <1>3, ReviewTypes DEF QueueTyped, NotesTyped
<1>5. HoldersAreAlone'
  BY <1>2, NoHolders DEF SettingsFree
<1>6. PassFollowsOptIn'
  BY <1>3 DEF PassFollowsOptIn
<1>7. RowsAreInLine'
  <2>1. ASSUME NEW s \in Kept(job, thread, sync)'
        PROVE  IsIn(order, s)
    <3>1. s \in Kept(job, thread, sync) \/ s \in sync'.plan.retire \union sync'.plan.rearm
      BY <1>2, <2>1 DEF Kept
    <3> QED  BY <1>1, <1>3, <3>1 DEF RowsAreInLine
  <2> QED  BY <1>2, <2>1 DEF RowsAreInLine
<1>8. WithinCap' /\ NoRepeat'
  <2>1. WithinCap'
    BY <1>1, <1>2, CapKept
  <2> QED  BY <1>1, <1>2, <2>1 DEF NoRepeat
<1>9. QuietOnceOut
  BY <1>1, <1>2, NothingNew
<1> QED  BY <1>4, <1>5, <1>6, <1>7, <1>8, <1>9 DEF ReviewInv

LEMMA CarriedMeans ==
  ASSUME TypeOK, PassFollowsOptIn, sync # NoSync, NEW s \in Slots
  PROVE  /\ Carried(s) \in JobRow
         /\ s \in sync.plan.retire => Carried(s).status = "done"
         /\ s \notin sync.plan.retire \union sync.plan.rearm => Carried(s) = job[s]
<1>1. job[s] \in JobRow
  BY DEF TypeOK
<1>2. PICK seen \in JobRow : seen = sync.seen[s]
  BY ReviewTypes, SyncMeans
<1>3. Retired(seen) \in JobRow /\ Rearmed(seen) \in JobRow /\ Retired(seen).status = "done"
  <2>1. Retired(seen) \in JobRow /\ Rearmed(seen) \in JobRow
    BY ReviewRowTypes
  <2> QED  BY <2>1 DEF Retired, Row
<1>4. CASE s \in sync.plan.retire
  <2>1. Carried(s) = Written(job[s], seen, Retired(seen))
    BY <1>2, <1>4 DEF Carried, PassFollowsOptIn
  <2>2. seen.status # "done"
    BY <1>2, <1>4 DEF PassFollowsOptIn
  <2> QED  BY <1>1, <1>3, <1>4, <2>1, <2>2, WrittenTypes
<1>5. CASE s \notin sync.plan.retire /\ s \in sync.plan.rearm
  <2>1. Carried(s) = Written(job[s], seen, Rearmed(seen))
    BY <1>2, <1>5 DEF Carried
  <2> QED  BY <1>1, <1>3, <1>5, <2>1, WrittenTypes
<1>6. CASE s \notin sync.plan.retire /\ s \notin sync.plan.rearm
  <2>1. Carried(s) = job[s]
    BY <1>6 DEF Carried
  <2> QED  BY <1>1, <1>6, <2>1
<1> QED  BY <1>4, <1>5, <1>6

LEMMA PassEnds ==
  ASSUME ReviewInv, SyncUser
  PROVE  ReviewInv' /\ QuietOnceOut
<1>1. /\ TypeOK /\ HoldersAreAlone /\ PassFollowsOptIn /\ RowsAreInLine /\ WithinCap
      /\ NoRepeat
  BY DEF ReviewInv
<1>2. /\ QueueTyped /\ NotesTyped /\ sync \in SyncStates
      /\ thread \in [Threads -> ThreadStates]
  BY <1>1, ReviewTypes
<1>3. PICK rows : rows = [s \in Slots |-> Carried(s)]
  OBVIOUS
<1>4. PICK held : held = [t \in Threads |-> IF sync.by = t THEN Idle ELSE thread[t]]
  OBVIOUS
<1>5. /\ sync # NoSync
      /\ \/ /\ sync.plan.add
            /\ \E s \in Free(rows, held, NoSync) :
                 Update([rows EXCEPT ![s] = Enqueued], Append(order, s), waiting, held, NoSync)
         \/ ~ sync.plan.add /\ Update(rows, order, waiting, held, NoSync)
      /\ enabled' = sync.enabled /\ unresolved' = unresolved /\ recent' = recent
  BY <1>3, <1>4 DEF SyncUser, notes
<1>6. /\ rows \in [Slots -> JobRow]
      /\ \A s \in Slots : s \in sync.plan.retire => rows[s].status = "done"
      /\ \A s \in Slots : s \notin sync.plan.retire \union sync.plan.rearm => rows[s] = job[s]
  BY <1>1, <1>3, <1>5, CarriedMeans
<1>7. /\ held \in [Threads -> ThreadStates]
      /\ \A t \in Threads : held[t] = Idle \/ held[t] = thread[t]
  <2>1. Idle \in ThreadStates
    BY DEF ThreadStates
  <2> QED  BY <1>2, <1>4, <2>1
<1>8. ASSUME NEW s \in Kept(rows, held, NoSync)
      PROVE  IsIn(order, s)
  <2>1. s \in Slots /\ (Held(rows[s]) \/ \E t \in Threads :
                          held[t] \notin {Idle, Maintaining} /\ held[t].id = s)
    BY <1>8 DEF Kept
  <2>2. s \in Kept(job, thread, sync)
    BY <1>5, <1>6, <1>7, <2>1 DEF Kept
  <2> QED  BY <1>1, <2>2 DEF RowsAreInLine
<1>9. \E new \in [Slots -> JobRow] :
        /\ \A s \in Slots : new[s] = rows[s] \/ (new[s] = Enqueued /\ sync.plan.add)
        /\ job' \in [Slots -> JobRow] /\ waiting' \subseteq Slots /\ order' \in Seq(Slots)
        /\ \A s \in Slots : job'[s] = new[s] \/ job'[s] = NoRow
        /\ thread' = held /\ sync' = NoSync
        /\ RowsAreInLine'
  <2>1. waiting \in SUBSET Slots /\ order \in Seq(Slots)
    BY <1>2 DEF QueueTyped
  <2>2. CASE /\ sync.plan.add
             /\ \E s \in Free(rows, held, NoSync) :
                  Update([rows EXCEPT ![s] = Enqueued], Append(order, s), waiting, held, NoSync)
    <3>1. PICK s \in Free(rows, held, NoSync) :
            Update([rows EXCEPT ![s] = Enqueued], Append(order, s), waiting, held, NoSync)
      BY <2>2
    <3>2. s \in Slots
      BY DEF Free
    <3>3. PICK new : new = [rows EXCEPT ![s] = Enqueued]
      OBVIOUS
    <3>4. Enqueued \in JobRow
      BY <1>6, <3>2, ReviewRowTypes
    <3>5. /\ new \in [Slots -> JobRow] /\ new[s] = Enqueued
          /\ \A x \in Slots : x # s => new[x] = rows[x]
      BY <1>6, <3>2, <3>3, <3>4
    <3>6. PICK line \in Seq(Slots) : line = Append(order, s)
      BY <2>1, <3>2, AppendedIsIn
    <3>7. Update(new, line, waiting, held, NoSync)
      BY <3>1, <3>3, <3>6
    <3>8. ASSUME NEW x \in Kept(new, held, NoSync)
          PROVE  IsIn(line, x)
      <4>1. CASE x = s
        BY <2>1, <3>2, <3>6, <4>1, AppendedIsIn
      <4>2. CASE x # s
        <5>1. x \in Kept(rows, held, NoSync)
          BY <3>5, <3>8, <4>2 DEF Kept
        <5> QED  BY <1>8, <2>1, <3>2, <3>6, <5>1, AppendedIsIn
      <4> QED  BY <4>1, <4>2
    <3>9. /\ job' \in [Slots -> JobRow] /\ waiting' \subseteq Slots /\ order' \in Seq(Slots)
          /\ \A x \in Slots : job'[x] = new[x] \/ job'[x] = NoRow
          /\ thread' = held /\ sync' = NoSync
          /\ RowsAreInLine'
      BY <2>1, <3>5, <3>7, <3>8, Updated
    <3>10. \A x \in Slots : new[x] = rows[x] \/ (new[x] = Enqueued /\ sync.plan.add)
      BY <2>2, <3>5
    <3> QED  BY <3>5, <3>9, <3>10
  <2>3. CASE ~ sync.plan.add /\ Update(rows, order, waiting, held, NoSync)
    <3>1. /\ job' \in [Slots -> JobRow] /\ waiting' \subseteq Slots /\ order' \in Seq(Slots)
          /\ \A x \in Slots : job'[x] = rows[x] \/ job'[x] = NoRow
          /\ thread' = held /\ sync' = NoSync
          /\ RowsAreInLine'
      BY <1>6, <1>8, <2>1, <2>3, Updated
    <3> QED  BY <1>6, <3>1
  <2> QED  BY <1>5, <2>2, <2>3
<1>10. /\ TypeOK' /\ RowsAreInLine' /\ thread' = held /\ sync' = NoSync
  <2>1. sync' \in SyncStates /\ enabled' \in BOOLEAN
    BY <1>2, <1>5, <1>9, SyncMeans DEF SyncStates
  <2> QED  BY <1>2, <1>5, <1>7, <1>9, <2>1, ReviewTypes DEF QueueTyped, NotesTyped
<1>11. HoldersAreAlone'
  <2>1. \A t \in Threads : thread'[t].phase # "holding"
    BY <1>1, <1>5, <1>7, <1>10 DEF HoldersAreAlone, Idle
  <2> QED  BY <2>1, NoHolders
<1>12. PassFollowsOptIn'
  BY <1>10 DEF PassFollowsOptIn
<1>13. WithinCap' /\ NoRepeat'
  <2>1. \A t \in Threads : t \in Likely(thread') => t \in Likely(thread)
    BY <1>7, <1>10 DEF Likely, Idle
  <2>2. WithinCap'
    BY <1>1, <1>5, <2>1, CapKept
  <2> QED  BY <1>1, <1>5, <2>2 DEF NoRepeat
<1>14. QuietOnceOut
  <2>1. CASE enabled'
    BY <2>1 DEF QuietOnceOut
  <2>2. CASE ~ enabled'
    <3>1. ~ sync.plan.add /\ sync.plan.rearm = {}
      BY <1>1, <1>5, <2>2 DEF PassFollowsOptIn
    <3>2. Enqueued.status = "pending" /\ NoRow # Enqueued
      BY DEF Enqueued, NoRow, Row
    <3>3. \A s \in Slots : job'[s] = Enqueued => rows[s] = Enqueued
      BY <1>9, <3>1, <3>2
    <3>4. \A s \in Slots : job'[s] = Enqueued => job[s] = Enqueued
      BY <1>6, <3>1, <3>2, <3>3
    <3> QED  BY <1>1, <1>5, <3>4, NothingNew
  <2> QED  BY <2>1, <2>2
<1> QED  BY <1>1, <1>10, <1>11, <1>12, <1>13, <1>14 DEF ReviewInv


\* A thread that touches no row goes on.
LEMMA ThreadGoes ==
  ASSUME ReviewInv, NEW t \in Threads, NEW h \in ThreadStates,
         thread' = [thread EXCEPT ![t] = h],
         UNCHANGED <<enabled, queue, sync, notes>>,
         h.phase # "holding" \/ (SettingsFree /\ h.enabled = enabled),
         \/ h = Maintaining
         \/ thread[t] \notin {Idle, Maintaining} /\ h.id = thread[t].id,
         t \in Likely(thread') => t \in Likely(thread) \/ Unresolved < MaxUnresolved
  PROVE  ReviewInv' /\ QuietOnceOut
<1>1. /\ TypeOK /\ HoldersAreAlone /\ PassFollowsOptIn /\ RowsAreInLine /\ WithinCap
      /\ NoRepeat
  BY DEF ReviewInv
<1>2. /\ enabled' = enabled /\ job' = job /\ waiting' = waiting /\ order' = order
      /\ sync' = sync /\ unresolved' = unresolved /\ recent' = recent
  BY DEF queue, notes
<1>3. /\ QueueTyped /\ NotesTyped /\ thread \in [Threads -> ThreadStates]
      /\ sync \in SyncStates
  BY <1>1, ReviewTypes
<1>4. /\ thread' \in [Threads -> ThreadStates] /\ thread'[t] = h
      /\ \A u \in Threads : u # t => thread'[u] = thread[u]
      /\ h.phase # "holding" =>
           \A u \in Threads : thread'[u].phase = "holding" => thread'[u] = thread[u]
      /\ t \notin Likely(thread') \/ t \in Likely(thread) =>
           \A u \in Threads : u \in Likely(thread') => u \in Likely(thread)
  BY <1>3, ThreadMoved
<1>5. TypeOK'
  BY <1>2, <1>3, <1>4, ReviewTypes DEF QueueTyped, NotesTyped
<1>6. HoldersAreAlone'
  <2>1. CASE h.phase # "holding"
    BY <1>1, <1>2, <1>4, <2>1, HoldersStay
  <2>2. CASE h.phase = "holding"
    <3>1. sync = NoSync /\ h.enabled = enabled
          /\ \A u \in Threads : thread[u].phase # "holding"
      BY <2>2 DEF SettingsFree
    <3> QED  BY <1>2, <1>4, <3>1 DEF HoldersAreAlone
  <2> QED  BY <2>1, <2>2
<1>7. PassFollowsOptIn'
  BY <1>1, <1>2, PassStays
<1>8. RowsAreInLine'
  <2>1. ASSUME NEW s \in Kept(job, thread, sync)'
        PROVE  s \in Kept(job, thread, sync)
    <3>1. s \in Slots
      BY DEF Kept
    <3>2. CASE \E u \in Threads : thread'[u] \notin {Idle, Maintaining} /\ thread'[u].id = s
      <4>1. PICK u \in Threads : thread'[u] \notin {Idle, Maintaining} /\ thread'[u].id = s
        BY <3>2
      <4>2. thread[u] \notin {Idle, Maintaining} /\ thread[u].id = s
        BY <1>4, <4>1
      <4> QED  BY <3>1, <4>2 DEF Kept
    <3>3. CASE ~ \E u \in Threads : thread'[u] \notin {Idle, Maintaining} /\ thread'[u].id = s
      BY <1>2, <2>1, <3>1, <3>3 DEF Kept
    <3> QED  BY <3>2, <3>3
  <2> QED  BY <1>1, <1>2, <2>1 DEF RowsAreInLine
<1>9. WithinCap'
  <2>1. CASE t \notin Likely(thread') \/ t \in Likely(thread)
    BY <1>1, <1>2, <1>4, <2>1, CapKept
  <2>2. CASE Unresolved < MaxUnresolved
    <3>1. /\ Cardinality(Likely(thread')) \in Nat /\ Cardinality(Threads) \in Nat
          /\ Cardinality(Likely(thread')) <= Cardinality(Threads)
      BY LikelyCount
    <3>2. Unresolved \in Nat /\ MaxUnresolved \in Nat /\ Unresolved' = Unresolved
      BY <1>2, <1>3, UnresolvedCount, ReviewAssumption DEF Unresolved
    <3>3. Likely(thread)' = Likely(thread')
      BY DEF Likely
    <3>4. Unresolved' + Cardinality(Likely(thread')) <= MaxUnresolved - 1 + Cardinality(Threads)
      BY <2>2, <3>1, <3>2
    <3> QED  BY <3>3, <3>4 DEF WithinCap
  <2> QED  BY <2>1, <2>2
<1>10. NoRepeat'
  BY <1>1, <1>2 DEF NoRepeat
<1>11. QuietOnceOut
  BY <1>1, <1>2, NothingNew
<1> QED  BY <1>5, <1>6, <1>7, <1>8, <1>9, <1>10, <1>11 DEF ReviewInv

LEMMA ReviewGoes ==
  ASSUME ReviewInv, NEW t \in Threads,
         \/ MaintenanceBegins(t) \/ ReadControl(t) \/ LockSettings(t)
         \/ \E about \in Decisions : AskModel(t, about)
  PROVE  ReviewInv' /\ QuietOnceOut
<1>1. thread \in [Threads -> ThreadStates] /\ enabled \in BOOLEAN
  BY ReviewTypes DEF ReviewInv, QueueTyped
<1>2. PICK s : s = thread[t].id
  OBVIOUS
<1>3. thread[t] \in ThreadStates
  BY <1>1
<1>4. thread[t] \notin {Idle, Maintaining} => s \in Slots
  BY <1>2, <1>3, ThreadMeans
<1>5. Nobody \in Decisions
  BY DEF Decisions
<1>6. CASE MaintenanceBegins(t)
  <2>1. Maintaining \in ThreadStates /\ Maintaining.phase = "maintaining"
    BY DEF Maintaining, ThreadStates
  <2>2. /\ thread' = [thread EXCEPT ![t] = Maintaining]
        /\ UNCHANGED <<enabled, queue, sync, notes>>
    BY <1>6 DEF MaintenanceBegins
  <2>3. t \notin Likely(thread')
    BY <1>1, <2>1, <2>2 DEF Likely
  <2> QED  BY <2>1, <2>2, <2>3, ThreadGoes
<1>7. CASE ReadControl(t)
  <2>1. thread[t].phase = "claimed" /\ thread[t] \notin {Idle, Maintaining} /\ s \in Slots
    BY <1>3, <1>4, <1>7, ThreadMeans DEF ReadControl
  <2>2. PICK h \in {At("stopping", s), Decided(s, Nobody), At("gated", s)} :
          /\ Move(t, h)
          /\ h = At("gated", s) => Unresolved < MaxUnresolved
    <3>1. At("stopping", s) # At("gated", s) /\ Decided(s, Nobody) # At("gated", s)
      BY DEF At, Decided
    <3> QED  BY <1>2, <1>7, <3>1 DEF ReadControl
  <2>3. /\ h \in ThreadStates /\ h.id = s /\ h.phase # "holding"
        /\ h # At("gated", s) =>
             h.phase = "stopping" \/ (h.phase = "decided" /\ h.about = Nobody)
    BY <1>5, <2>1 DEF At, Decided, ThreadStates
  <2>4. /\ thread' = [thread EXCEPT ![t] = h]
        /\ UNCHANGED <<enabled, queue, sync, notes>>
    BY <2>2 DEF Move
  <2>5. t \in Likely(thread') => Unresolved < MaxUnresolved
    <3>1. thread'[t] = h
      BY <1>1, <2>4
    <3> QED  BY <2>2, <2>3, <3>1 DEF Likely
  <2> QED  BY <1>2, <2>1, <2>3, <2>4, <2>5, ThreadGoes
<1>8. ASSUME NEW about \in Decisions, AskModel(t, about)
      PROVE  ReviewInv' /\ QuietOnceOut
  <2>1. thread[t].phase = "gated" /\ thread[t] \notin {Idle, Maintaining} /\ s \in Slots
    BY <1>3, <1>4, <1>8, ThreadMeans DEF AskModel
  <2>2. PICK h \in {At("stopping", s), Decided(s, Nobody), Decided(s, about)} : Move(t, h)
    BY <1>2, <1>8 DEF AskModel
  <2>3. h \in ThreadStates /\ h.id = s /\ h.phase # "holding"
    BY <1>5, <2>1 DEF At, Decided, ThreadStates
  <2>4. /\ thread' = [thread EXCEPT ![t] = h]
        /\ UNCHANGED <<enabled, queue, sync, notes>>
    BY <2>2 DEF Move
  <2>5. t \in Likely(thread)
    BY <2>1 DEF Likely
  <2> QED  BY <1>2, <2>1, <2>3, <2>4, <2>5, ThreadGoes
<1>9. CASE LockSettings(t)
  <2>1. /\ thread[t].phase = "decided" /\ thread[t] \notin {Idle, Maintaining} /\ s \in Slots
        /\ thread[t].about \in Decisions
    BY <1>3, <1>4, <1>9, ThreadMeans DEF LockSettings
  <2>2. PICK h : h = [phase |-> "holding", id |-> s, about |-> thread[t].about,
                      enabled |-> enabled]
    OBVIOUS
  <2>3. /\ h \in ThreadStates /\ h.id = s /\ h.phase = "holding" /\ h.enabled = enabled
        /\ h.about = thread[t].about
    BY <1>1, <2>1, <2>2 DEF ThreadStates
  <2>4. /\ SettingsFree /\ thread' = [thread EXCEPT ![t] = h]
        /\ UNCHANGED <<enabled, queue, sync, notes>>
    BY <1>2, <1>9, <2>2 DEF LockSettings, Move
  <2>5. t \in Likely(thread') => t \in Likely(thread)
    <3>1. thread'[t] = h
      BY <1>1, <2>4
    <3> QED  BY <2>1, <2>3, <3>1 DEF Likely
  <2> QED  BY <1>2, <2>1, <2>3, <2>4, <2>5, ThreadGoes
<1> QED  BY <1>6, <1>7, <1>8, <1>9

LEMMA ReviewClaims ==
  ASSUME ReviewInv, NEW t \in Threads, NEW s \in Slots, Claim(t, s)
  PROVE  ReviewInv' /\ QuietOnceOut
<1>1. /\ TypeOK /\ HoldersAreAlone /\ PassFollowsOptIn /\ RowsAreInLine /\ WithinCap
      /\ NoRepeat
  BY DEF ReviewInv
<1>2. PICK row : row = Claimed(job[s])
  OBVIOUS
<1>3. PICK h : h = At("claimed", s)
  OBVIOUS
<1>4. /\ thread[t] = Idle /\ job[s].status \in {"pending", "running"}
      /\ job' = [job EXCEPT ![s] = row] /\ thread' = [thread EXCEPT ![t] = h]
      /\ enabled' = enabled /\ waiting' = waiting /\ order' = order
      /\ sync' = sync /\ unresolved' = unresolved /\ recent' = recent
  BY <1>2, <1>3 DEF Claim, notes
<1>5. /\ QueueTyped /\ NotesTyped /\ thread \in [Threads -> ThreadStates]
      /\ sync \in SyncStates /\ job \in [Slots -> JobRow]
  BY <1>1, ReviewTypes DEF QueueTyped
<1>6. /\ row \in JobRow /\ row.status = "running"
  <2>1. row \in JobRow
    BY <1>2, <1>5, ReviewRowTypes
  <2> QED  BY <1>2, <2>1 DEF Claimed, Row
<1>7. h \in ThreadStates /\ h.phase = "claimed" /\ h.id = s
  BY <1>3 DEF At, ThreadStates
<1>8. /\ thread' \in [Threads -> ThreadStates] /\ thread'[t] = h
      /\ \A u \in Threads : u # t => thread'[u] = thread[u]
      /\ \A u \in Threads : thread'[u].phase = "holding" => thread'[u] = thread[u]
      /\ t \notin Likely(thread') \/ t \in Likely(thread) =>
           \A u \in Threads : u \in Likely(thread') => u \in Likely(thread)
  BY <1>4, <1>5, <1>7, ThreadMoved
<1>9. /\ job' \in [Slots -> JobRow] /\ job'[s] = row
      /\ \A x \in Slots : x # s => job'[x] = job[x]
  BY <1>4, <1>5, <1>6
<1>10. TypeOK'
  BY <1>4, <1>5, <1>8, <1>9, ReviewTypes DEF QueueTyped, NotesTyped
<1>11. HoldersAreAlone' /\ PassFollowsOptIn'
  BY <1>1, <1>4, <1>8, HoldersStay, PassStays
<1>12. RowsAreInLine'
  <2>1. Held(job[s])
    BY <1>4 DEF Held
  <2>2. ASSUME NEW x \in Kept(job, thread, sync)'
        PROVE  x \in Kept(job, thread, sync)
    <3>1. x \in Slots
      BY DEF Kept
    <3>2. CASE x = s
      BY <2>1, <3>1, <3>2 DEF Kept
    <3>3. CASE x # s
      <4>1. \A u \in Threads : thread'[u].id = x => thread'[u] = thread[u]
        BY <1>7, <1>8, <3>3
      <4> QED  BY <1>4, <1>9, <2>2, <3>1, <3>3, <4>1 DEF Kept
    <3> QED  BY <3>2, <3>3
  <2> QED  BY <1>1, <1>4, <2>2 DEF RowsAreInLine
<1>13. WithinCap' /\ NoRepeat'
  <2>1. t \notin Likely(thread')
    BY <1>7, <1>8 DEF Likely
  <2>2. WithinCap'
    BY <1>1, <1>4, <1>8, <2>1, CapKept
  <2> QED  BY <1>1, <1>4, <2>2 DEF NoRepeat
<1>14. QuietOnceOut
  <2>1. Enqueued.status = "pending"
    BY DEF Enqueued, Row
  <2>2. \A x \in Slots : job'[x] = Enqueued => job[x] = Enqueued
    BY <1>6, <1>9, <2>1
  <2> QED  BY <1>1, <1>4, <2>2, NothingNew
<1> QED  BY <1>1, <1>10, <1>11, <1>12, <1>13, <1>14 DEF ReviewInv


\* A thread leaves its row as it may.
LEMMA RowLeft ==
  ASSUME ReviewInv, NEW t \in Threads, thread[t] \notin {Idle, Maintaining},
         NEW s, s = thread[t].id, NEW rows \in [Slots -> JobRow],
         \A x \in Slots : x # s => rows[x] = job[x],
         NEW later \in SUBSET Slots, NEW held, held = [thread EXCEPT ![t] = Idle],
         Update(rows, order, later, held, sync), UNCHANGED <<enabled, notes>>,
         thread[t].phase # "holding" \/ rows[s] # Enqueued \/ rows[s] = job[s]
  PROVE  ReviewInv' /\ QuietOnceOut
<1>1. /\ TypeOK /\ HoldersAreAlone /\ PassFollowsOptIn /\ RowsAreInLine /\ WithinCap
      /\ NoRepeat
  BY DEF ReviewInv
<1>2. enabled' = enabled /\ unresolved' = unresolved /\ recent' = recent
  BY DEF notes
<1>3. /\ QueueTyped /\ NotesTyped /\ thread \in [Threads -> ThreadStates]
      /\ sync \in SyncStates
  BY <1>1, ReviewTypes
<1>4. s \in Slots /\ s \in Kept(job, thread, sync) /\ order \in Seq(Slots)
  <2>1. s \in Slots
    BY <1>3, ThreadMeans
  <2> QED  BY <1>3, <2>1 DEF Kept, QueueTyped
<1>5. Idle \in ThreadStates /\ Idle.phase = "idle"
  BY DEF Idle, ThreadStates
<1>6. /\ held \in [Threads -> ThreadStates] /\ held[t] = Idle
      /\ \A u \in Threads : u # t => held[u] = thread[u]
  BY <1>3, <1>5
<1>7. ASSUME NEW x \in Kept(rows, held, sync)
      PROVE  IsIn(order, x)
  <2>1. x \in Slots
    BY DEF Kept
  <2>2. CASE x = s
    BY <1>1, <1>4, <2>2 DEF RowsAreInLine
  <2>3. CASE x # s
    <3>1. x \in Kept(job, thread, sync)
      BY <1>6, <1>7, <2>1, <2>3 DEF Kept
    <3> QED  BY <1>1, <3>1 DEF RowsAreInLine
  <2> QED  BY <2>2, <2>3
<1>8. /\ job' \in [Slots -> JobRow] /\ waiting' \subseteq Slots /\ order' \in Seq(Slots)
      /\ \A x \in Slots : job'[x] = rows[x] \/ job'[x] = NoRow
      /\ thread' = held /\ sync' = sync
      /\ RowsAreInLine'
  BY <1>4, <1>7, Updated
<1>9. /\ thread' = [thread EXCEPT ![t] = Idle]
      /\ \A u \in Threads : thread'[u].phase = "holding" => thread'[u] = thread[u]
      /\ \A u \in Threads : u \in Likely(thread') => u \in Likely(thread)
  <2>1. t \notin Likely(thread')
    BY <1>5, <1>6, <1>8 DEF Likely
  <2> QED  BY <1>3, <1>5, <1>8, <2>1, ThreadMoved
<1>10. TypeOK'
  BY <1>2, <1>3, <1>6, <1>8, ReviewTypes DEF QueueTyped, NotesTyped
<1>11. HoldersAreAlone' /\ PassFollowsOptIn'
  BY <1>1, <1>2, <1>8, <1>9, HoldersStay, PassStays
<1>12. WithinCap' /\ NoRepeat'
  <2>1. WithinCap'
    BY <1>1, <1>2, <1>9, CapKept
  <2> QED  BY <1>1, <1>2, <2>1 DEF NoRepeat
<1>13. QuietOnceOut
  <2>1. NoRow # Enqueued
    BY DEF NoRow, Enqueued, Row
  <2>2. CASE thread[t].phase # "holding"
    <3>1. thread[t].phase \notin {"idle", "maintaining", "holding"}
      BY <1>3, <2>2, ThreadMeans
    <3>2. \A o \in Sources : unresolved'[o] <= unresolved[o]
      <4>1. \A o \in Sources : unresolved[o] \in Nat
        BY <1>3 DEF NotesTyped
      <4> QED  BY <1>2, <4>1
    <3>3. \A x \in Slots : job'[x] = Enqueued => job[x] = Enqueued \/ thread[t].id = x
      BY <1>8, <2>1
    <3> QED  BY <3>1, <3>2, <3>3 DEF QuietOnceOut
  <2>3. CASE rows[s] # Enqueued \/ rows[s] = job[s]
    <3>1. \A x \in Slots : job'[x] = Enqueued => job[x] = Enqueued
      BY <1>8, <2>1, <2>3
    <3> QED  BY <1>1, <1>2, <3>1, NothingNew
  <2> QED  BY <2>2, <2>3
<1> QED  BY <1>8, <1>10, <1>11, <1>12, <1>13 DEF ReviewInv

LEMMA ReviewLeaves ==
  ASSUME ReviewInv, NEW t \in Threads,
         Stop(t) \/ Die(t) \/ \E error \in Errors : HandlerRaises(t, error)
  PROVE  ReviewInv' /\ QuietOnceOut
<1>1. /\ thread \in [Threads -> ThreadStates] /\ job \in [Slots -> JobRow]
      /\ waiting \in SUBSET Slots
  BY ReviewTypes DEF ReviewInv, QueueTyped
<1>2. PICK s : s = thread[t].id
  OBVIOUS
<1>3. PICK held : held = [thread EXCEPT ![t] = Idle]
  OBVIOUS
<1>4. /\ thread[t].phase \notin {"idle", "maintaining"} <=>
           thread[t] \notin {Idle, Maintaining}
      /\ thread[t] \notin {Idle, Maintaining} => s \in Slots
  BY <1>1, <1>2, ThreadMeans
<1>5. CASE Stop(t)
  <2>1. thread[t] \notin {Idle, Maintaining} /\ s \in Slots
    BY <1>4, <1>5 DEF Stop
  <2>2. PICK row : row = Done(job[s])
    OBVIOUS
  <2>3. row \in JobRow /\ row # Enqueued
    <3>1. row \in JobRow
      BY <1>1, <2>1, <2>2, ReviewRowTypes
    <3> QED  BY <2>2, <3>1 DEF Done, Enqueued, Row
  <2>4. PICK rows : rows = [job EXCEPT ![s] = row]
    OBVIOUS
  <2>5. /\ rows \in [Slots -> JobRow] /\ rows[s] = row
        /\ \A x \in Slots : x # s => rows[x] = job[x]
    BY <1>1, <2>1, <2>3, <2>4
  <2>6. Update(rows, order, waiting, held, sync) /\ UNCHANGED <<enabled, notes>>
    BY <1>2, <1>3, <1>5, <2>2, <2>4 DEF Stop
  <2> QED  BY <1>1, <1>2, <1>3, <2>1, <2>3, <2>5, <2>6, RowLeft
<1>6. CASE Die(t)
  <2>1. thread[t] \notin {Idle, Maintaining} /\ s \in Slots
    BY <1>4, <1>6 DEF Die
  <2>2. Update(job, order, waiting, held, sync) /\ UNCHANGED <<enabled, notes>>
    BY <1>3, <1>6 DEF Die
  <2> QED  BY <1>1, <1>2, <1>3, <2>1, <2>2, RowLeft
<1>7. ASSUME NEW error \in Errors, HandlerRaises(t, error)
      PROVE  ReviewInv' /\ QuietOnceOut
  <2>1. thread[t].phase \in {"claimed", "gated", "decided", "stopping"}
    BY <1>7 DEF HandlerRaises
  <2>2. thread[t] \notin {Idle, Maintaining} /\ s \in Slots
    BY <1>4, <2>1
  <2>3. PICK row : row = IF error = "budget" THEN Parked(job[s])
                         ELSE AfterFailure("proactive", error, job[s])
    OBVIOUS
  <2>4. row \in JobRow
    BY <1>1, <2>2, <2>3, ReviewRowTypes
  <2>5. PICK rows : rows = [job EXCEPT ![s] = row]
    OBVIOUS
  <2>6. /\ rows \in [Slots -> JobRow]
        /\ \A x \in Slots : x # s => rows[x] = job[x]
    BY <1>1, <2>2, <2>4, <2>5
  <2>7. PICK later \in SUBSET Slots : Update(rows, order, later, held, sync)
    <3>1. PICK later : /\ later \in {waiting, waiting \union {s}}
                       /\ Update(rows, order, later, held, sync)
      BY <1>2, <1>3, <1>7, <2>3, <2>5 DEF HandlerRaises
    <3> QED  BY <1>1, <2>2, <3>1
  <2>8. UNCHANGED <<enabled, notes>>
    BY <1>7 DEF HandlerRaises
  <2> QED  BY <1>1, <1>2, <1>3, <2>1, <2>2, <2>6, <2>7, <2>8, RowLeft
<1> QED  BY <1>5, <1>6, <1>7

\* The review notifies and makes itself a successor: what was likely is unresolved.
LEMMA NotesMove ==
  ASSUME TypeOK, NEW t \in Threads, thread[t].phase = "holding", NEW o, o = thread[t].about,
         NoRepeat, WithinCap, thread' = [thread EXCEPT ![t] = Idle],
         \/ o # Nobody /\ \E i \in Insights : MayNotify(o, i) /\ Notify(o, i)
         \/ UNCHANGED notes
  PROVE  NotesTyped' /\ NoRepeat' /\ WithinCap'
<1>1. /\ NotesTyped /\ thread \in [Threads -> ThreadStates]
  BY ReviewTypes
<1>2. Idle \in ThreadStates /\ Idle.phase = "idle"
  BY DEF Idle, ThreadStates
<1>3. /\ thread'[t] = Idle /\ \A u \in Threads : u # t => thread'[u] = thread[u]
      /\ t \notin Likely(thread')
      /\ \A u \in Threads : u \in Likely(thread') => u \in Likely(thread)
  <2>1. thread'[t] = Idle
    BY <1>1
  <2>2. t \notin Likely(thread')
    BY <1>2, <2>1 DEF Likely
  <2> QED  BY <1>1, <1>2, <2>1, <2>2, ThreadMoved
<1>4. CASE UNCHANGED notes
  <2>1. unresolved' = unresolved /\ recent' = recent
    BY <1>4 DEF notes
  <2>2. WithinCap'
    BY <1>3, <2>1, CapKept
  <2> QED  BY <1>1, <2>1, <2>2 DEF NotesTyped, NoRepeat
<1>5. CASE o # Nobody /\ \E i \in Insights : MayNotify(o, i) /\ Notify(o, i)
  <2>1. o \in Sources
    BY <1>1, <1>5, ThreadMeans DEF Decisions
  <2>0. PICK i \in Insights : MayNotify(o, i) /\ Notify(o, i)
    BY <1>5
  <2>2. /\ unresolved[o] = 0 /\ recent[o][i] = 0
        /\ unresolved' = [unresolved EXCEPT ![o] = unresolved[o] + 1]
        /\ recent' = [recent EXCEPT ![o][i] = recent[o][i] + 1]
    BY <2>0 DEF MayNotify, Notify
  <2>3. /\ unresolved \in [Sources -> Nat] /\ recent \in [Sources -> [Insights -> Nat]]
    BY <1>1 DEF NotesTyped
  <2>4. /\ unresolved' \in [Sources -> Nat] /\ unresolved'[o] = 1
        /\ \A x \in Sources : x # o => unresolved'[x] = unresolved[x]
    BY <2>1, <2>2, <2>3
  <2>12. /\ recent' \in [Sources -> [Insights -> Nat]]
         /\ \A x \in Sources, j \in Insights : recent'[x][j] =
              IF x = o /\ j = i THEN 1 ELSE recent[x][j]
    <3>1. recent' = [recent EXCEPT ![o][i] = 1]
      BY <2>2
    <3> QED  BY <2>1, <2>3, <3>1
  <2>5. NotesTyped'
    BY <2>4, <2>12 DEF NotesTyped
  <2>13. NoRepeat'
    <3>1. ASSUME NEW x \in Sources
          PROVE  unresolved'[x] <= 1 /\ \A j \in Insights : recent'[x][j] <= 1
      BY <2>4, <2>12 DEF NoRepeat
    <3> QED  BY <3>1 DEF NoRepeat
  <2>6. Unresolved' = Unresolved + 1 /\ Unresolved \in Nat
    <3>1. PICK f \in [Sources -> Nat] : f = unresolved
      BY <2>3
    <3>2. PICK h \in [Sources -> Nat] : h = unresolved'
      BY <2>4
    <3>3. IsFiniteSet(Sources) /\ \A x \in Sources : x # o => h[x] = f[x]
      BY <2>4, <3>1, <3>2, ReviewAssumption
    <3>4. /\ SumFunction(f) \in Nat /\ SumFunction(h) \in Nat
          /\ SumFunction(h) - SumFunction(f) = h[o] - f[o]
      BY <2>1, <3>3, SumMoves
    <3>5. h[o] = 1 /\ f[o] = 0
      BY <2>2, <2>4, <3>1, <3>2
    <3>6. SumFunction(h) = SumFunction(f) + 1
      BY <3>4, <3>5
    <3> QED  BY <3>1, <3>2, <3>4, <3>6 DEF Unresolved
  <2>7. Cardinality(Likely(thread')) < Cardinality(Likely(thread))
    <3>1. t \in Likely(thread)
      BY <1>5 DEF Likely
    <3>2. /\ Likely(thread') \in SUBSET Likely(thread) /\ Likely(thread') # Likely(thread)
          /\ IsFiniteSet(Likely(thread))
      BY <1>3, <3>1, LikelyCount
    <3> QED  BY <3>2, PartIsSmaller
  <2>8. /\ Cardinality(Likely(thread')) \in Nat /\ Cardinality(Likely(thread)) \in Nat
        /\ Cardinality(Threads) \in Nat /\ MaxUnresolved \in Nat
    BY LikelyCount, ReviewAssumption
  <2>9. Likely(thread)' = Likely(thread')
    BY DEF Likely
  <2>10. Unresolved + Cardinality(Likely(thread)) <= MaxUnresolved - 1 + Cardinality(Threads)
    BY DEF WithinCap
  <2>11. Unresolved' + Cardinality(Likely(thread')) <= MaxUnresolved - 1 + Cardinality(Threads)
    BY <2>6, <2>7, <2>8, <2>10
  <2> QED  BY <2>5, <2>9, <2>11, <2>13 DEF WithinCap
<1> QED  BY <1>4, <1>5

LEMMA ReviewConcludes ==
  ASSUME ReviewInv, NEW t \in Threads, Conclude(t)
  PROVE  ReviewInv' /\ QuietOnceOut
<1>1. /\ TypeOK /\ HoldersAreAlone /\ PassFollowsOptIn /\ RowsAreInLine /\ WithinCap
      /\ NoRepeat
  BY DEF ReviewInv
<1>2. /\ QueueTyped /\ NotesTyped /\ thread \in [Threads -> ThreadStates]
      /\ sync \in SyncStates /\ job \in [Slots -> JobRow] /\ waiting \in SUBSET Slots
      /\ order \in Seq(Slots)
  BY <1>1, ReviewTypes DEF QueueTyped
<1>3. PICK s : s = thread[t].id
  OBVIOUS
<1>4. PICK o : o = thread[t].about
  OBVIOUS
<1>5. PICK row : row = Done(job[s])
  OBVIOUS
<1>6. PICK rows : rows = [job EXCEPT ![s] = row]
  OBVIOUS
<1>7. PICK held : held = [thread EXCEPT ![t] = Idle]
  OBVIOUS
<1>8. /\ thread[t].phase = "holding" /\ thread[t].enabled /\ enabled' = enabled
      /\ \/ o # Nobody /\ \E i \in Insights : MayNotify(o, i) /\ Notify(o, i)
         \/ UNCHANGED notes
  BY <1>4 DEF Conclude
<1>9. PICK new \in Free(rows, held, sync) :
        Update([rows EXCEPT ![new] = Enqueued],
               Append(Only(order, Slots \ {new}), new), waiting \union {new}, held, sync)
  BY <1>3, <1>5, <1>6, <1>7 DEF Conclude
<1>10. /\ s \in Slots /\ s \in Kept(job, thread, sync) /\ enabled = TRUE
  <2>1. thread[t] \notin {Idle, Maintaining} /\ s \in Slots
    BY <1>2, <1>3, <1>8, ThreadMeans
  <2>2. thread[t].enabled = enabled
    BY <1>1, <1>8 DEF HoldersAreAlone
  <2> QED  BY <1>2, <1>3, <1>8, <2>1, <2>2 DEF Kept, QueueTyped
<1>11. new \in Slots
  BY DEF Free
<1>12. row \in JobRow /\ Enqueued \in JobRow
  BY <1>2, <1>5, <1>10, ReviewRowTypes
<1>13. /\ rows \in [Slots -> JobRow] /\ \A x \in Slots : x # s => rows[x] = job[x]
  BY <1>2, <1>6, <1>10, <1>12
<1>14. PICK after : after = [rows EXCEPT ![new] = Enqueued]
  OBVIOUS
<1>15. /\ after \in [Slots -> JobRow]
       /\ \A x \in Slots : x # new => after[x] = rows[x]
  BY <1>11, <1>12, <1>13, <1>14
<1>16. PICK line : line = Append(Only(order, Slots \ {new}), new)
  OBVIOUS
<1>17. /\ Only(order, Slots \ {new}) \in Seq(Slots)
       /\ \A x \in Slots \ {new} : IsIn(order, x) => IsIn(Only(order, Slots \ {new}), x)
  BY <1>2, OnlyIsSeq
<1>18. /\ line \in Seq(Slots) /\ IsIn(line, new)
       /\ \A x \in Slots \ {new} : IsIn(order, x) => IsIn(line, x)
  BY <1>11, <1>16, <1>17, AppendedIsIn
<1>19. Idle \in ThreadStates /\ Idle.phase = "idle"
  BY DEF Idle, ThreadStates
<1>20. /\ held \in [Threads -> ThreadStates] /\ held[t] = Idle
       /\ \A u \in Threads : u # t => held[u] = thread[u]
  BY <1>2, <1>7, <1>19
<1>21. ASSUME NEW x \in Kept(after, held, sync)
       PROVE  IsIn(line, x)
  <2>1. x \in Slots
    BY DEF Kept
  <2>2. CASE x = new
    BY <1>18, <2>2
  <2>3. CASE x # new /\ x = s
    BY <1>1, <1>10, <1>18, <2>3 DEF RowsAreInLine
  <2>4. CASE x # new /\ x # s
    <3>1. x \in Kept(job, thread, sync)
      BY <1>13, <1>15, <1>20, <1>21, <2>1, <2>4 DEF Kept
    <3> QED  BY <1>1, <1>18, <2>1, <2>4, <3>1 DEF RowsAreInLine
  <2> QED  BY <2>2, <2>3, <2>4
<1>22. PICK later \in SUBSET Slots : later = waiting \union {new}
  BY <1>2, <1>11
<1>23. Update(after, line, later, held, sync)
  BY <1>9, <1>14, <1>16, <1>22
<1>24. /\ job' \in [Slots -> JobRow] /\ waiting' \subseteq Slots /\ order' \in Seq(Slots)
       /\ thread' = held /\ sync' = sync
       /\ RowsAreInLine'
  <2>1. PICK a \in [Slots -> JobRow], l \in Seq(Slots) : a = after /\ l = line
    BY <1>15, <1>18
  <2>2. PICK pass : pass = sync
    OBVIOUS
  <2>3. Update(a, l, later, held, pass)
    BY <1>23, <2>1, <2>2
  <2>4. \A x \in Kept(a, held, pass) : IsIn(l, x)
    BY <1>21, <2>1, <2>2
  <2>5. job' \in [Slots -> JobRow] /\ waiting' \subseteq Slots
    BY <2>3, <2>4, Updated
  <2>6. order' \in Seq(Slots)
    BY <2>3, <2>4, Updated
  <2>7. thread' = held /\ sync' = pass
    BY <2>3, <2>4, Updated
  <2>8. RowsAreInLine'
    BY <2>3, <2>4, Updated
  <2> QED  BY <2>2, <2>5, <2>6, <2>7, <2>8
<1>25. NotesTyped' /\ NoRepeat' /\ WithinCap'
  BY <1>1, <1>4, <1>7, <1>8, <1>24, NotesMove
<1>26. TypeOK'
  BY <1>2, <1>8, <1>20, <1>24, <1>25, ReviewTypes DEF QueueTyped
<1>27. HoldersAreAlone' /\ PassFollowsOptIn'
  <2>1. \A u \in Threads : thread'[u].phase = "holding" => thread'[u] = thread[u]
    BY <1>19, <1>20, <1>24
  <2> QED  BY <1>1, <1>8, <1>24, <2>1, HoldersStay, PassStays
<1>28. QuietOnceOut
  BY <1>8, <1>10 DEF QuietOnceOut
<1> QED  BY <1>24, <1>25, <1>26, <1>27, <1>28 DEF ReviewInv

LEMMA TimePasses ==
  ASSUME ReviewInv, NEW s \in Slots, BecomeDue(s) \/ LeaseExpires(s)
  PROVE  ReviewInv' /\ QuietOnceOut
<1>1. /\ TypeOK /\ HoldersAreAlone /\ PassFollowsOptIn /\ RowsAreInLine /\ WithinCap
      /\ NoRepeat
  BY DEF ReviewInv
<1>2. /\ QueueTyped /\ NotesTyped /\ thread \in [Threads -> ThreadStates]
      /\ sync \in SyncStates /\ job \in [Slots -> JobRow]
  BY <1>1, ReviewTypes DEF QueueTyped
<1>3. /\ enabled' = enabled /\ order' = order /\ sync' = sync /\ thread' = thread
      /\ unresolved' = unresolved /\ recent' = recent /\ waiting' \in {waiting, waiting \ {s}}
  BY DEF BecomeDue, LeaseExpires, notes
<1>4. /\ job' \in [Slots -> JobRow]
      /\ \A x \in Slots : /\ job'[x].status = job[x].status
                          /\ job'[x] = Enqueued => job[x] = Enqueued
  <2>1. CASE BecomeDue(s)
    BY <1>2, <2>1 DEF BecomeDue
  <2>2. CASE LeaseExpires(s)
    <3>1. PICK row : row = [job[s] EXCEPT !.lease = "stale"]
      OBVIOUS
    <3>2. row \in JobRow /\ row.status = job[s].status /\ row.lease = "stale"
      <4>1. job[s] \in JobRow
        BY <1>2
      <4> QED  BY <3>1, <4>1 DEF JobRow
    <3>3. job' = [job EXCEPT ![s] = row]
      BY <2>2, <3>1 DEF LeaseExpires
    <3>4. Enqueued.lease = "none"
      BY DEF Enqueued, Row
    <3> QED  BY <1>2, <3>2, <3>3, <3>4
  <2> QED  BY <2>1, <2>2
<1>5. TypeOK'
  BY <1>2, <1>3, <1>4, ReviewTypes DEF QueueTyped, NotesTyped
<1>6. HoldersAreAlone' /\ PassFollowsOptIn' /\ NoRepeat'
  BY <1>1, <1>3 DEF HoldersAreAlone, PassFollowsOptIn, NoRepeat
<1>7. RowsAreInLine'
  <2>1. ASSUME NEW x \in Kept(job, thread, sync)'
        PROVE  x \in Kept(job, thread, sync)
    BY <1>3, <1>4, <2>1 DEF Kept, Held
  <2> QED  BY <1>1, <1>3, <2>1 DEF RowsAreInLine
<1>8. WithinCap'
  BY <1>1, <1>3, CapKept
<1>9. QuietOnceOut
  BY <1>1, <1>3, <1>4, NothingNew
<1> QED  BY <1>5, <1>6, <1>7, <1>8, <1>9 DEF ReviewInv

LEMMA UserActs ==
  ASSUME ReviewInv, NEW o \in Sources,
         Resolve(o) \/ Revise(o) \/ \E i \in Insights : Forget(o, i)
  PROVE  ReviewInv' /\ QuietOnceOut
<1>1. /\ TypeOK /\ HoldersAreAlone /\ PassFollowsOptIn /\ RowsAreInLine /\ WithinCap
      /\ NoRepeat
  BY DEF ReviewInv
<1>2. /\ QueueTyped /\ NotesTyped /\ thread \in [Threads -> ThreadStates]
      /\ sync \in SyncStates
  BY <1>1, ReviewTypes
<1>3. /\ enabled' = enabled /\ job' = job /\ waiting' = waiting /\ order' = order
      /\ sync' = sync /\ thread' = thread
  BY DEF Resolve, Revise, Forget, queue
<1>4. unresolved \in [Sources -> Nat] /\ recent \in [Sources -> [Insights -> Nat]]
  BY <1>2 DEF NotesTyped
<1>5. HoldersAreAlone' /\ PassFollowsOptIn' /\ RowsAreInLine'
  BY <1>1, <1>3 DEF HoldersAreAlone, PassFollowsOptIn, RowsAreInLine, Kept
<1>6. CASE Resolve(o)
  <2>1. /\ unresolved[o] > 0 /\ unresolved' = [unresolved EXCEPT ![o] = unresolved[o] - 1]
        /\ recent' = recent
    BY <1>6 DEF Resolve
  <2>2. /\ unresolved' \in [Sources -> Nat] /\ unresolved'[o] = unresolved[o] - 1
        /\ \A x \in Sources : x # o => unresolved'[x] = unresolved[x]
    BY <1>4, <2>1
  <2>3. NotesTyped' /\ NoRepeat'
    <3>1. \A x \in Sources : unresolved'[x] \in Nat /\ unresolved[x] \in Nat
                             /\ unresolved'[x] <= unresolved[x]
      BY <1>4, <2>2
    <3> QED  BY <1>1, <1>4, <2>1, <2>2, <3>1 DEF NotesTyped, NoRepeat
  <2>4. Unresolved' <= Unresolved /\ Unresolved \in Nat /\ Unresolved' \in Nat
    <3>1. PICK f \in [Sources -> Nat] : f = unresolved
      BY <1>4
    <3>2. PICK h \in [Sources -> Nat] : h = unresolved'
      BY <2>2
    <3>3. IsFiniteSet(Sources) /\ \A x \in Sources : x # o => h[x] = f[x]
      BY <2>2, <3>1, <3>2, ReviewAssumption
    <3>4. /\ SumFunction(f) \in Nat /\ SumFunction(h) \in Nat
          /\ SumFunction(h) - SumFunction(f) = h[o] - f[o]
      BY <3>3, SumMoves
    <3>5. h[o] = f[o] - 1 /\ f[o] \in Nat
      BY <2>2, <3>1, <3>2
    <3>6. SumFunction(h) <= SumFunction(f)
      BY <3>4, <3>5
    <3> QED  BY <3>1, <3>2, <3>4, <3>6 DEF Unresolved
  <2>5. WithinCap'
    <3>1. Likely(thread)' = Likely(thread)
      BY <1>3 DEF Likely
    <3>2. /\ Cardinality(Likely(thread)) \in Nat /\ Cardinality(Threads) \in Nat
          /\ MaxUnresolved \in Nat
      BY LikelyCount, ReviewAssumption
    <3>3. Unresolved + Cardinality(Likely(thread)) <= MaxUnresolved - 1 + Cardinality(Threads)
      BY <1>1 DEF WithinCap
    <3>4. Unresolved' + Cardinality(Likely(thread)) <= MaxUnresolved - 1 + Cardinality(Threads)
      BY <2>4, <3>2, <3>3
    <3> QED  BY <3>1, <3>4 DEF WithinCap
  <2>6. QuietOnceOut
    <3>1. \A x \in Sources : unresolved'[x] <= unresolved[x]
      BY <1>4, <2>2
    <3> QED  BY <1>3, <3>1 DEF QuietOnceOut
  <2>7. TypeOK'
    BY <1>2, <1>3, <2>3, ReviewTypes DEF QueueTyped
  <2> QED  BY <1>5, <2>3, <2>5, <2>6, <2>7 DEF ReviewInv
<1>7. CASE Revise(o) \/ \E i \in Insights : Forget(o, i)
  <2>1. /\ unresolved' = unresolved /\ recent' \in [Sources -> [Insights -> Nat]]
        /\ \A x \in Sources, j \in Insights : recent'[x][j] \in {0, recent[x][j]}
    <3>1. CASE Revise(o)
      BY <1>4, <3>1 DEF Revise, NothingSaid
    <3>2. ASSUME NEW i \in Insights, Forget(o, i)
          PROVE  /\ unresolved' = unresolved /\ recent' \in [Sources -> [Insights -> Nat]]
                 /\ \A x \in Sources, j \in Insights : recent'[x][j] \in {0, recent[x][j]}
      <4>1. PICK said \in [Insights -> Nat] : said = [recent[o] EXCEPT ![i] = 0]
        BY <1>4
      <4>2. recent' = [recent EXCEPT ![o] = said] /\ unresolved' = unresolved
        BY <3>2, <4>1 DEF Forget
      <4>3. \A j \in Insights : said[j] \in {0, recent[o][j]}
        BY <1>4, <4>1
      <4> QED  BY <1>4, <4>2, <4>3
    <3> QED  BY <1>7, <3>1, <3>2
  <2>2. NotesTyped' /\ NoRepeat'
    BY <1>1, <1>4, <2>1 DEF NotesTyped, NoRepeat
  <2>3. WithinCap'
    BY <1>1, <1>3, <2>1, CapKept
  <2>4. QuietOnceOut
    BY <1>1, <1>3, <2>1, NothingNew
  <2>5. TypeOK'
    BY <1>2, <1>3, <2>2, ReviewTypes DEF QueueTyped
  <2> QED  BY <1>5, <2>2, <2>3, <2>4, <2>5 DEF ReviewInv
<1> QED  BY <1>6, <1>7

LEMMA ReviewStepKeeps ==
  ASSUME ReviewInv, Next
  PROVE  ReviewInv' /\ QuietOnceOut
<1>1. ASSUME NEW value \in BOOLEAN, RequestBegins(value)
      PROVE  ReviewInv' /\ QuietOnceOut
  BY <1>1, PassBegins DEF RequestBegins
<1>2. ASSUME NEW t \in Threads, MaintenanceLocks(t)
      PROVE  ReviewInv' /\ QuietOnceOut
  <2>1. enabled \in BOOLEAN
    BY DEF ReviewInv, TypeOK
  <2> QED  BY <1>2, <2>1, PassBegins DEF MaintenanceLocks
<1>3. ASSUME NEW t \in Threads, ReviewStep(t)
      PROVE  ReviewInv' /\ QuietOnceOut
  BY <1>3, ReviewGoes, ReviewConcludes, ReviewLeaves DEF ReviewStep
<1> QED  BY <1>1, <1>2, <1>3, PassEnds, ReviewGoes, ReviewClaims, ReviewLeaves, TimePasses,
            UserActs DEF Next

-----------------------------------------------------------------------------
(* All parts.                                                              *)

DataStep ==
  /\ which' = which
  /\ IF which = "review" THEN Next \/ UNCHANGED vars ELSE UNCHANGED vars
  /\ which \in OfPeople => Merging!Next \/ UNCHANGED peopleVars
  /\ which = "assistant" => Assistant!Next \/ UNCHANGED convVars
  /\ IF which = "labels" THEN AutoLabels!Next \/ UNCHANGED labelVars ELSE UNCHANGED labelVars
  /\ IF which = "tasks" THEN Map!SerialNext \/ UNCHANGED taskVars
     ELSE which = "map" \/ UNCHANGED taskVars
  /\ which = "map" => Map!MapNext \/ UNCHANGED <<taskVars, mapVars>>

LEMMA StepsOfData ==
  ASSUME [DataNext]_dataVars
  PROVE  DataStep
<1>1. CASE UNCHANGED dataVars
  BY <1>1 DEF DataStep, dataVars
<1>2. CASE DataNext
  BY <1>2 DEF DataNext, DataStep
<1> QED  BY <1>1, <1>2

LEMMA DataStart ==
  ASSUME DataInit
  PROVE  DataInv
<1>1. /\ which \in {"review", "nested", "many", "late", "assistant", "labels", "tasks", "map"}
      /\ Init
      /\ which \in OfPeople => Merging!Init
      /\ which = "assistant" => Assistant!Init
      /\ which = "labels" => AutoLabels!Init
      /\ which = "tasks" => Map!Init
      /\ which = "map" => Map!MapInit
  BY DEF DataInit
<1> QED  BY <1>1, ReviewStart, PeopleStart, ConvStart, LabelStart, TasksStart, MapStart
         DEF DataInv

LEMMA DataKeeps ==
  ASSUME DataInv, DataStep
  PROVE  DataInv'
<1>1. which' = which
  BY DEF DataStep
<1>2. ASSUME which = "review" PROVE ReviewInv'
  BY <1>2, ReviewStepKeeps, ReviewKept DEF DataInv, DataStep
<1>3. ASSUME which \in OfPeople PROVE PeopleInv'
  BY <1>3, PeopleStep, PeopleKept DEF DataInv, DataStep
<1>4. ASSUME which = "assistant" PROVE ConvInv'
  BY <1>4, ConvStep, ConvKept DEF DataInv, DataStep
<1>5. ASSUME which = "labels" PROVE LabelInv'
  BY <1>5, LabelStep, LabelKept DEF DataInv, DataStep
<1>6. ASSUME which = "tasks" PROVE TasksInv'
  BY <1>6, TasksStep, TasksKept DEF DataInv, DataStep
<1>7. ASSUME which = "map" PROVE MapInv'
  BY <1>7, MapStep, MapKept DEF DataInv, DataStep
<1> QED  BY <1>1, <1>2, <1>3, <1>4, <1>5, <1>6, <1>7 DEF DataInv

LEMMA DataAlways == DataSpec => []DataInv
<1>1. DataInit => DataInv
  BY DataStart
<1>2. DataInv /\ [DataNext]_dataVars => DataInv'
  BY StepsOfData, DataKeeps
<1> QED  BY <1>1, <1>2, PTL DEF DataSpec

\* The cap counts what may still come.
LEMMA CapHolds ==
  ASSUME ReviewInv
  PROVE  AttentionNearCap
<1>1. /\ Unresolved \in Nat /\ Cardinality(Likely(thread)) \in Nat
      /\ Cardinality(Threads) \in Nat /\ MaxUnresolved \in Nat
  BY LikelyCount, UnresolvedCount, ReviewTypes, ReviewAssumption DEF ReviewInv
<1>2. Unresolved + Cardinality(Likely(thread)) <= MaxUnresolved - 1 + Cardinality(Threads)
  BY DEF ReviewInv, WithinCap
<1>3. Unresolved <= MaxUnresolved + Cardinality(Threads) - 1
  BY <1>1, <1>2
<1> QED  BY <1>3 DEF AttentionNearCap

\* Settings, review rows and threads, people, conversations, labels, tasks and the map
\* keep their types (the tables and requests of the user's data).
THEOREM DataIsTyped == DataSpec => []DataTypeOK
<1>1. DataInv => DataTypeOK
  BY DEF DataInv, DataTypeOK, ReviewInv, PeopleInv, ConvInv, LabelInv, TasksInv, MapInv
<1> QED  BY <1>1, DataAlways, PTL

\* Reviews that overlap or are repeated leave no two unresolved notifications of one object,
\* say nothing of one version twice in the cooldown (_maybe_notify) and exceed the cap by those
\* in flight at most (run), whatever fails or dies; auto labels keep the limit of waiting
\* jobs and ask nothing twice (enqueue_auto_label).
THEOREM WorkStaysBounded == DataSpec => []BackgroundWorkIsBounded
<1>1. DataInv => BackgroundWorkIsBounded
  BY CapHolds DEF DataInv, ReviewInv, LabelInv, BackgroundWorkIsBounded
<1> QED  BY <1>1, DataAlways, PTL

\* However merges are nested and undone, an identity is with the person the user gave it
\* to or with whom that person has become, and no fact is lost or stays behind (merge,
\* undo); a label the user took away stays away (the auto label job).
THEOREM UserDecides == DataSpec => []UserHasTheLastWord
<1>1. DataInv => UserHasTheLastWord
  BY PeopleAreSafe DEF DataInv, LabelInv, UserHasTheLastWord
<1> QED  BY <1>1, DataAlways, PTL

\* Clients and the transcript do not contradict each other, and no undecided plan stays
\* in another conversation, whichever requests are lost, late or cut short (begin_turn,
\* complete_turn and the finishing of plans).
THEOREM ConversationsStaySound == DataSpec => []ConversationsAreSound
<1>1. DataInv => ConversationsAreSound
  BY DEF DataInv, ConvInv, ConversationsAreSound
<1> QED  BY <1>1, DataAlways, PTL

\* What a model answers about a state the user has left is dropped: no review notifies or
\* goes on after the opt-out, no label comes for a former text, former labels or a user
\* who has switched them off (run, the auto label job).
THEOREM StaleAnswersDropped == DataSpec => StaleAnswersAreDropped
<1>1. DataInv /\ DataStep =>
        [~enabled' =>
           /\ \A o \in Sources : unresolved'[o] <= unresolved[o]
           /\ \A s \in Slots :
                job'[s] = Enqueued =>
                  \/ job[s] = Enqueued
                  \/ \E t \in Threads :
                       /\ thread[t].phase \notin {"idle", "maintaining", "holding"}
                       /\ thread[t].id = s]_vars
  BY ReviewStepKeeps DEF DataInv, DataStep, QuietOnceOut
<1>2. DataInv /\ DataStep => [which = "labels" => AutoLabels!AgentLabelsAreCurrent]_labelVars
  BY AgentLabelsStep DEF DataInv, DataStep
<1>3. [DataNext]_dataVars => DataStep
  BY StepsOfData
<1> QED  BY <1>1, <1>2, <1>3, DataAlways, PTL
         DEF DataSpec, StaleAnswersAreDropped, NothingAfterOptOut

\* The part_of relation of tasks stays a forest that fits the completion modes, after any
\* requests one after another (validate_child, _sync_mode); a task map handed out as usable
\* was drawn from every confirmed relation, whichever requests overlap (the layout's
\* generation).
THEOREM TasksAreInOrder == DataSpec => TasksStayInOrder
<1>1. DataInv => (which = "tasks" => Map!Forest)
  BY DEF DataInv, TasksInv
<1>2. DataInv /\ DataStep => [which = "tasks" => Map!ModesStayFit]_taskVars
  BY ModesStayFitStep DEF DataInv, DataStep
<1>3. DataInv => (which = "map" => Map!LayoutIsCurrent)
  BY DEF DataInv, MapInv
<1>4. [DataNext]_dataVars => DataStep
  BY StepsOfData
<1> QED  BY <1>1, <1>2, <1>3, <1>4, DataAlways, PTL DEF DataSpec, TasksStayInOrder

=============================================================================
