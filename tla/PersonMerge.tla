---------------------------- MODULE PersonMerge -----------------------------
(***************************************************************************)
(* People of one user, and the merging of two of them: the identities a    *)
(* person holds, what the user confirmed about them, the person's roles    *)
(* and task roles, and the audit a merge leaves on the duplicate, by which *)
(* it is undone.                                                           *)
(*                                                                         *)
(* Merging, undoing a merge, roles and task roles take the user's row lock  *)
(* before they read anything: each is one step.  A request about an        *)
(* identity reads first and takes the lock to write, if at all, so it is   *)
(* two steps, and a merge may commit between them.  Rows are never         *)
(* revived: a row that was rejected or retracted and comes back is another *)
(* row, with another id.                                                   *)
(***************************************************************************)
EXTENDS FiniteSets, Naturals

CONSTANTS
  Persons, Keys,    \* people; exact identities: an address, an account
  Roles, TaskRoles, \* what a person can be: in general, and in a task
  Proposed,         \* the task roles that are proposals
  Slot,             \* the task and the kind of role of a task role
  MaxRoles,         \* MAX_ACTIVE_ASSIGNMENTS
  MaxAsked,         \* bound: requests about identities under way at once
  Nobody

Facts == Roles \union TaskRoles

\* A confirmation of an identity, and the row it links: none, the identity's row
\* of now, or a row that has been replaced since.
Links == {"unlinked", "linked", "stale"}

VARIABLES
  hidden,    \* people deleted or merged away
  holder,    \* who holds each identity
  confirmed, \* each person's active confirmations, by identity
  has,       \* each person's active roles and task roles
  audit,     \* the merge each person was lost in, if it can still be undone
  asked,     \* requests about identities that have read and not yet written
  mine,      \* ghost: whom the user gave each identity
  said,      \* ghost: what the user said of each person
  stray      \* ghost: identities a late request gave to a person merged away by then

vars == <<hidden, holder, confirmed, has, audit, asked, mine, said, stray>>

\* A request remembers whether it saw the identity as p's own: held by p when it is
\* confirmed, linked to the confirmation when that is retracted.
Asks == [does : {"attach", "bind", "retract"}, who : Persons, key : Keys, own : BOOLEAN]
Request(does, p, k, own) == [does |-> does, who |-> p, key |-> k, own |-> own]

NoAudit == [active |-> FALSE]
Audit == [active : {TRUE}, survivor : Persons, intact : BOOLEAN,
          keys : SUBSET Keys, earlier : SUBSET Keys,
          copied : SUBSET Keys, facts : SUBSET Facts]

TypeOK ==
  /\ hidden \subseteq Persons
  /\ holder \in [Keys -> Persons \union {Nobody}]
  /\ confirmed \in [Persons -> [Keys -> Links \union {"none"}]]
  /\ has \in [Persons -> SUBSET Facts]
  /\ audit \in [Persons -> Audit \union {NoAudit}]
  /\ asked \subseteq Asks
  /\ mine \in [Keys -> Persons \union {Nobody}]
  /\ said \in [Persons -> SUBSET Facts]
  /\ stray \subseteq Keys

Init ==
  /\ hidden = {}
  /\ holder = [k \in Keys |-> Nobody]
  /\ confirmed = [p \in Persons |-> [k \in Keys |-> "none"]]
  /\ has = [p \in Persons |-> {}]
  /\ audit = [p \in Persons |-> NoAudit]
  /\ asked = {}
  /\ mine = [k \in Keys |-> Nobody]
  /\ said = [p \in Persons |-> {}]
  /\ stray = {}

Held(p) == {k \in Keys : holder[k] = p}
Confirmations(p) == {k \in Keys : confirmed[p][k] # "none"}

\* The audits after rows of p have gone: identities, confirmations, facts.  A merge
\* into p that made one of them can no longer be undone.
Disturbed(p, keys, confirmations, facts) ==
  [d \in Persons |->
     IF audit[d].active /\ audit[d].survivor = p
     THEN [audit[d] EXCEPT
             !.intact = /\ audit[d].intact
                        /\ audit[d].keys \intersect keys = {}
                        /\ audit[d].copied \intersect confirmations = {}
                        /\ audit[d].facts \intersect facts = {},
             !.earlier = @ \ confirmations]
     ELSE audit[d]]

-----------------------------------------------------------------------------
(* Identities: what a request reads.                                       *)

\* resolve: an identity that a hidden person holds is found with nobody.
Resolved(k) == IF holder[k] \in hidden THEN Nobody ELSE holder[k]
Confirmers(k) == {p \in Persons \ hidden : confirmed[p][k] # "none"}

\* The enrichment attaches what one person has confirmed and nobody holds.
AskAttach(p, k) ==
  /\ Resolved(k) = Nobody
  /\ Confirmers(k) = {p}
  /\ asked' = asked \union {Request("attach", p, k, FALSE)}

\* bind_email: refused while somebody else is found to hold or has confirmed the address.
AskBind(p, k) ==
  /\ Resolved(k) \in {Nobody, p}
  /\ Confirmers(k) \subseteq {p}
  /\ asked' = asked \union {Request("bind", p, k, Resolved(k) = p)}

\* correct_identity's retract reads the confirmation and its link.  Bound: one request
\* at a time retracts a confirmation.
AskRetract(p, k) ==
  /\ confirmed[p][k] # "none"
  /\ \A r \in asked : r.does = "retract" => <<r.who, r.key>> # <<p, k>>
  /\ asked' = asked \union {Request("retract", p, k, confirmed[p][k] = "linked")}

Ask(p, k) ==
  /\ p \notin hidden
  /\ Cardinality(asked) < MaxAsked
  /\ AskAttach(p, k) \/ AskBind(p, k) \/ AskRetract(p, k)
  /\ UNCHANGED <<hidden, holder, confirmed, has, audit, mine, said, stray>>

-----------------------------------------------------------------------------
(* Identities: what it writes, whatever has become of the person.          *)

\* attach under the lock: only the identity itself is looked at again.
Give(p, k) ==
  IF holder[k] = Nobody
  THEN /\ holder' = [holder EXCEPT ![k] = p]
       /\ mine' = [mine EXCEPT ![k] = p]
       /\ stray' = IF audit[p].active THEN stray \union {k} ELSE stray \ {k}
  ELSE UNCHANGED <<holder, mine, stray>>

Attach(r) ==
  /\ r.does = "attach"
  /\ Give(r.who, r.key)
  /\ asked' = asked \ {r}
  /\ UNCHANGED <<hidden, confirmed, has, audit, said>>

\* The confirmation a request leaves on link: an identity the person was seen to hold
\* is not linked; one that somebody else has taken is a conflict, and nothing is stored.
ConfirmedBy(r, link) ==
  CASE r.own /\ link = "none" -> "unlinked"
    [] ~ r.own /\ holder[r.key] \in {Nobody, r.who} /\ link # "stale" -> "linked"
    [] OTHER -> link

Bind(r) ==
  /\ r.does = "bind"
  /\ confirmed' = [confirmed EXCEPT ![r.who][r.key] = ConfirmedBy(r, @)]
  /\ IF r.own THEN UNCHANGED <<holder, mine, stray>> ELSE Give(r.who, r.key)
  /\ asked' = asked \ {r}
  /\ UNCHANGED <<hidden, has, audit, said>>

\* The confirmation goes, and the identity it was seen to link if that row is still the
\* person's.
Retract(r) ==
  /\ r.does = "retract"
  /\ LET detached == IF r.own /\ confirmed[r.who][r.key] = "linked" THEN {r.key} ELSE {}
     IN  /\ holder' = [x \in Keys |-> IF x \in detached THEN Nobody ELSE holder[x]]
         /\ mine' = [x \in Keys |-> IF x \in detached THEN Nobody ELSE mine[x]]
         /\ stray' = stray \ detached
         /\ audit' = Disturbed(r.who, detached, {r.key}, {})
  /\ confirmed' = [confirmed EXCEPT ![r.who][r.key] = "none"]
  /\ asked' = asked \ {r}
  /\ UNCHANGED <<hidden, has, said>>

-----------------------------------------------------------------------------
(* Roles and deletion.                                                     *)

\* The active task roles of p in the slot of f.
Rivals(p, f) == {g \in has[p] \intersect TaskRoles : f \in TaskRoles /\ Slot[g] = Slot[f]}

\* assign_outcome and add_actor: a role within the cap; a task role unless the task
\* has one for the person already, which a confirmed one replaces if it is proposed.
Say(p, f) ==
  /\ p \notin hidden
  /\ f \notin has[p]
  /\ f \in Roles => Cardinality(has[p] \intersect Roles) < MaxRoles
  /\ f \in Proposed => Rivals(p, f) = {}
  /\ Rivals(p, f) \subseteq Proposed
  /\ has' = [has EXCEPT ![p] = (@ \ Rivals(p, f)) \union {f}]
  /\ said' = [said EXCEPT ![p] = (@ \ Rivals(p, f)) \union {f}]
  /\ audit' = Disturbed(p, {}, {}, Rivals(p, f))
  /\ UNCHANGED <<hidden, holder, confirmed, asked, mine, stray>>

\* retract_outcome asks for a visible person, remove_actor only for the task.
Unsay(p, f) ==
  /\ f \in has[p]
  /\ f \in Roles => p \notin hidden
  /\ has' = [has EXCEPT ![p] = @ \ {f}]
  /\ said' = [said EXCEPT ![p] = @ \ {f}]
  /\ audit' = Disturbed(p, {}, {}, {f})
  /\ UNCHANGED <<hidden, holder, confirmed, asked, mine, stray>>

\* delete_object on a person, without a lock: only the tombstone, so that one written
\* late, on a person merged away, changes nothing.  Bound: one person stays.
Delete(p) ==
  /\ p \notin hidden
  /\ hidden \union {p} # Persons
  /\ hidden' = hidden \union {p}
  /\ UNCHANGED <<holder, confirmed, has, audit, asked, mine, said, stray>>

-----------------------------------------------------------------------------
(* Merging.                                                                *)

\* The confirmations after the rows of keys have been replaced: their links are stale.
Unlinked(keys) ==
  [p \in Persons |-> [k \in Keys |->
     IF k \in keys /\ confirmed[p][k] = "linked" THEN "stale" ELSE confirmed[p][k]]]

\* _assess: no other role of the survivor in the same task, and room for the roles.
CanMerge(s, d) ==
  /\ s # d /\ s \notin hidden /\ d \notin hidden
  /\ \A f \in has[d] : Rivals(s, f) \subseteq {f}
  /\ Cardinality((has[s] \union has[d]) \intersect Roles) <= MaxRoles

\* Mutant of Merge: the survivor's own facts are put in the audit too.
BugMergeRecordsAll(s, d) ==
  /\ CanMerge(s, d)
  /\ hidden' = hidden \union {d}
  /\ holder' = [k \in Keys |-> IF holder[k] = d THEN s ELSE holder[k]]
  /\ has' = [has EXCEPT ![s] = @ \union has[d]]
  /\ audit' = [audit EXCEPT ![d] =
       [active |-> TRUE, survivor |-> s, intact |-> TRUE, keys |-> Held(d),
        earlier |-> {}, copied |-> {}, facts |-> has[d]]]
  /\ UNCHANGED <<confirmed, asked, mine, said, stray>>

\* _transfer: identities move, as new rows; confirmations, roles and task roles the
\* survivor lacks are copied, a copy linked to the identity that moved with it; the
\* duplicate is hidden and remembers which rows are new.
Merge(s, d) ==
  /\ CanMerge(s, d)
  /\ LET keys   == Held(d)
         copied == Confirmations(d) \ Confirmations(s)
         facts  == has[d] \ has[s]
     IN  /\ holder' = [k \in Keys |-> IF k \in keys THEN s ELSE holder[k]]
         /\ confirmed' =
              [Unlinked(keys) EXCEPT ![s] =
                 [k \in Keys |->
                    IF k \notin copied THEN @[k]
                    ELSE IF k \in keys THEN "linked" ELSE "unlinked"]]
         /\ has' = [has EXCEPT ![s] = @ \union facts]
         /\ audit' = [Disturbed(d, keys, {}, {}) EXCEPT ![d] =
              [active |-> TRUE, survivor |-> s, intact |-> TRUE, keys |-> keys,
               earlier |-> Confirmations(s) \intersect keys,
               copied |-> copied, facts |-> facts]]
  /\ hidden' = hidden \union {d}
  /\ UNCHANGED <<asked, mine, said, stray>>

\* Mutant of CanUndo: what changed since the merge is not looked at.
BugCanUndoAlways(s, d) ==
  audit[d].active /\ audit[d].survivor = s /\ s \notin hidden

\* _require_undo_safe: every row of the merge is still there, and the survivor has no
\* later confirmation of an identity that would leave.
CanUndo(s, d) ==
  /\ audit[d].active
  /\ audit[d].survivor = s
  /\ s \notin hidden
  /\ audit[d].intact
  /\ Confirmations(s) \intersect audit[d].keys
       \subseteq audit[d].copied \union audit[d].earlier

\* The requests that have read none of the confirmations of p in keys: the others find
\* them retracted, and change nothing any more.
StillToRetract(p, keys) ==
  {r \in asked : ~ (r.does = "retract" /\ r.who = p /\ r.key \in keys)}

\* _reverse: the identities go back, as new rows again, and the copies are retracted.
\* What a late request gave to the duplicate is where it belongs again.
Undo(s, d) ==
  /\ CanUndo(s, d)
  /\ LET keys == audit[d].keys
     IN  /\ holder' = [k \in Keys |-> IF k \in keys THEN d ELSE holder[k]]
         /\ confirmed' =
              [Unlinked(keys) EXCEPT ![s] =
                 [k \in Keys |-> IF k \in audit[d].copied THEN "none" ELSE @[k]]]
  /\ has' = [has EXCEPT ![s] = @ \ audit[d].facts]
  /\ hidden' = hidden \ {d}
  /\ audit' = [audit EXCEPT ![d] = NoAudit]
  /\ asked' = StillToRetract(s, audit[d].copied)
  /\ stray' = stray \ Held(d)
  /\ UNCHANGED <<mine, said>>

Next ==
  \/ \E p \in Persons, k \in Keys : Ask(p, k)
  \/ \E r \in asked : Attach(r) \/ Bind(r) \/ Retract(r)
  \/ \E p \in Persons, f \in Facts : Say(p, f) \/ Unsay(p, f)
  \/ \E p \in Persons : Delete(p)
  \/ \E s, d \in Persons : Merge(s, d) \/ Undo(s, d)

Spec == Init /\ [][Next]_vars

-----------------------------------------------------------------------------

\* The person p has become by the merges that stand.
Become(p) ==
  LET step[n \in 0 .. Cardinality(Persons)] ==
        IF n = 0 THEN p
        ELSE LET q == step[n - 1]
             IN  IF audit[q].active THEN audit[q].survivor ELSE q
  IN  step[Cardinality(Persons)]

\* Through any sequence of merges and undone merges, nested ones too, an identity is
\* with the person the user gave it, or with the one that person has become: the first
\* only until the merge is undone, when a request gave it after a merge it had not seen.
IdentitiesFollowMerges ==
  \A k \in Keys :
    holder[k] = CASE mine[k] = Nobody -> Nobody
                  [] mine[k] # Nobody /\ k \in stray -> mine[k]
                  [] OTHER -> Become(mine[k])

\* Undoing takes back exactly what merging gave: whatever the user said of a person
\* stays, and what else the person has comes from a merge that stands.
FactsAreAccounted ==
  \A p \in Persons :
    /\ said[p] \subseteq has[p]
    /\ has[p] \ said[p] \subseteq
         UNION {audit[d].facts :
                  d \in {q \in Persons : audit[q].active /\ audit[q].survivor = p}}
=============================================================================
