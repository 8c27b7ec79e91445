----------------------------- MODULE AutoLabel ------------------------------
(***************************************************************************)
(* Labels of one object, and the background jobs in which a language model *)
(* adds some.  (backend/app/services/auto_label_service.py and             *)
(* label_service.py.)                                                      *)
(*                                                                         *)
(* A job is for a signature: what the model is shown of the object, of the *)
(* labels and of the user.  It is computed when the job is enqueued, again *)
(* when a worker reads what it asks about, and again, under locks, when    *)
(* the model has answered.  What locks the user's row (the "gate") is one  *)
(* step, but for an enqueuing pipeline: its transaction looks and inserts  *)
(* while objects change.  The user's own description, which is written     *)
(* under the gate like the labels, counts as a label that is reworded.     *)
(*                                                                         *)
(* Bounds: Rows, and two wordings of everything.  That two workers run one *)
(* job after its lease is over is in JobQueue and left out here.           *)
(***************************************************************************)
EXTENDS FiniteSets, Naturals

CONSTANTS
  Labels,    \* the labels that are ever created
  Rows,      \* the rows of type auto_label_object there can be
  Pipelines, \* the transactions that enqueue, one at a time each
  Workers,
  MaxPending \* AUTO_LABEL_MAX_PENDING_PER_USER

VARIABLES
  text,    \* what the object says
  word,    \* word[l] is what label l says, or "absent" or "deleted"
  bearing, \* bearing[l] is whose labeled_with edge to l is active, or "none"
  refused, \* labels with a rejected edge
  enabled, \* auto_label_enabled
  job,     \* job[i] is a row's status and signature
  look,    \* look[p] is the signature p inserts a row for
  worker   \* what each worker has asked the model about

settings == <<text, word, enabled>>
edges == <<bearing, refused>>
vars == <<settings, edges, job, look, worker>>

Wordings == {"old", "new"}
NoRow == [status |-> "none"]
Idle == [phase |-> "idle"]

\* classification_signature; deleted labels are not in the vocabulary.
Live == {l \in Labels : word[l] \in Wordings}
Signature == [text |-> text, words |-> [l \in Live |-> word[l]]]
Signatures == [text : Wordings, words : UNION {[S -> Wordings] : S \in SUBSET Labels}]

TypeOK ==
  /\ text \in Wordings /\ enabled \in BOOLEAN
  /\ word \in [Labels -> {"absent", "deleted"} \union Wordings]
  /\ bearing \in [Labels -> {"none", "user", "agent"}] /\ refused \subseteq Labels
  /\ job \in [Rows -> {NoRow} \union
       [status : {"pending", "running", "done", "failed"}, for : Signatures]]
  /\ look \in [Pipelines -> {Idle} \union [phase : {"locked"}, for : Signatures]]
  /\ worker \in [Workers -> {Idle} \union
       [phase : {"asked"}, row : Rows, for : Signatures]]

Init ==
  /\ text = "old" /\ enabled = FALSE
  /\ word \in [Labels -> {"absent", "old"}]
  /\ bearing = [l \in Labels |-> "none"] /\ refused = {}
  /\ job = [i \in Rows |-> NoRow]
  /\ look = [p \in Pipelines |-> Idle]
  /\ worker = [w \in Workers |-> Idle]

-----------------------------------------------------------------------------
(* Enqueuing.                                                              *)

\* Mutant of GateFree: the user's row is read without a lock.
BugGateFree == TRUE

\* acquire_auto_label_user_gate does not wait.
GateFree == \A p \in Pipelines : look[p] = Idle

\* _pending_or_running_count, of the rows r.
Waiting(r) == {i \in Rows : r[i].status \in {"pending", "running"}}

\* Mutant of Wanted: a row that runs already is not looked for.
BugWantedAgain ==
  /\ enabled /\ Live # {}
  /\ ~ \E i \in Rows : job[i].status \in {"pending", "done"} /\ job[i].for = Signature
  /\ Cardinality(Waiting(job)) < MaxPending

\* enqueue_auto_label_object inserts a row for the current signature: there is none that
\* is or was run to its end, and the user's queue has room.
Wanted ==
  /\ enabled /\ Live # {}
  /\ ~ \E i \in Rows :
       job[i].status \in {"pending", "running", "done"} /\ job[i].for = Signature
  /\ Cardinality(Waiting(job)) < MaxPending

Insert(sig, rows) ==
  \E i \in Rows :
    /\ rows[i] = NoRow
    /\ job' = [rows EXCEPT ![i] = [status |-> "pending", for |-> sig]]

\* The pipeline of an object that was embedded; it goes on when there is nothing to do.
Look(p) ==
  /\ look[p] = Idle /\ GateFree /\ Wanted
  /\ look' = [look EXCEPT ![p] = [phase |-> "locked", for |-> Signature]]
  /\ UNCHANGED <<settings, edges, job, worker>>

Enqueue(p) ==
  /\ look[p] # Idle
  /\ Insert(look[p].for, job)
  /\ look' = [look EXCEPT ![p] = Idle]
  /\ UNCHANGED <<settings, edges, worker>>

-----------------------------------------------------------------------------
(* A job.                                                                  *)

\* A job that is out of date is done, and one for the current signature is enqueued.
\* It is running still when the others are counted.
Replace(i) ==
  LET rows == [job EXCEPT ![i].status = "done"]
  IN  IF Wanted THEN Insert(Signature, rows) ELSE job' = rows

\* run_job reads what it asks about, in the transaction after the claim.
Ask(w, i) ==
  /\ worker[w] = Idle /\ job[i].status = "pending"
  /\ enabled /\ job[i].for = Signature
  /\ job' = [job EXCEPT ![i].status = "running"]
  /\ worker' = [worker EXCEPT ![w] = [phase |-> "asked", row |-> i, for |-> Signature]]
  /\ UNCHANGED <<settings, edges, look>>

\* Nothing is asked with auto labels off, without labels, or about what has changed.
Drop(w, i) ==
  /\ worker[w] = Idle /\ job[i].status = "pending"
  /\ ~ enabled \/ job[i].for # Signature
  /\ IF enabled /\ Live # {} THEN GateFree /\ Replace(i)
                             ELSE job' = [job EXCEPT ![i].status = "done"]
  /\ UNCHANGED <<settings, edges, look, worker>>

\* Mutant of Lasting: the answer is used whatever has changed meanwhile.
BugLasting(sig) == enabled /\ Live # {}

\* _post_model_fence: nothing of what the model was shown has changed.
Lasting(sig) == enabled /\ Live # {} /\ sig = Signature

\* Mutant of Addable: what the user has removed is added again.
BugAddable == {l \in Live : bearing[l] = "none"}

\* assign_label_background: neither there nor removed by the user.
Addable == {l \in Live : bearing[l] = "none" /\ l \notin refused}

\* The model has answered with the labels picked.
Answer(w, picked) ==
  /\ worker[w] # Idle /\ GateFree
  /\ picked \subseteq DOMAIN worker[w].for.words
  /\ LET i == worker[w].row
     IN  IF Lasting(worker[w].for)
         THEN /\ bearing' = [l \in Labels |->
                   IF l \in picked \intersect Addable THEN "agent" ELSE bearing[l]]
              /\ job' = [job EXCEPT ![i].status = "done"]
         ELSE /\ UNCHANGED bearing
              /\ Replace(i)
  /\ worker' = [worker EXCEPT ![w] = Idle]
  /\ UNCHANGED <<settings, refused, look>>

\* The model or the budget fails the job, or the worker dies: it is run again or fails.
Fail(w) ==
  /\ worker[w] # Idle
  /\ \E s \in {"pending", "failed"} : job' = [job EXCEPT ![worker[w].row].status = s]
  /\ worker' = [worker EXCEPT ![w] = Idle]
  /\ UNCHANGED <<settings, edges, look>>

-----------------------------------------------------------------------------
(* The user.                                                               *)

\* update_settings writes a row that the gate's owner has locked too.
Toggle ==
  /\ GateFree
  /\ enabled' = ~ enabled
  /\ UNCHANGED <<text, word, edges, job, look, worker>>

\* A source or the user changes the object, without the gate.
Edit ==
  /\ text' \in Wordings \ {text}
  /\ UNCHANGED <<word, enabled, edges, job, look, worker>>

\* create_label, update_label and delete_label.
Reword(l) ==
  /\ GateFree
  /\ \/ word[l] = "absent" /\ word' = [word EXCEPT ![l] = "old"]
     \/ word[l] \in Wordings
        /\ \E x \in (Wordings \union {"deleted"}) \ {word[l]} : word' = [word EXCEPT ![l] = x]
  /\ UNCHANGED <<text, enabled, edges, job, look, worker>>

\* assign_label: a rejected edge does not matter.
Assign(l) ==
  /\ l \in Live /\ bearing[l] = "none"
  /\ bearing' = [bearing EXCEPT ![l] = "user"]
  /\ UNCHANGED <<settings, refused, job, look, worker>>

\* remove_label, of a label that may be deleted.
Remove(l) ==
  /\ bearing[l] # "none"
  /\ bearing' = [bearing EXCEPT ![l] = "none"]
  /\ refused' = refused \union {l}
  /\ UNCHANGED <<settings, job, look, worker>>

Next ==
  \/ \E p \in Pipelines : Look(p) \/ Enqueue(p)
  \/ \E w \in Workers : \E i \in Rows : Ask(w, i) \/ Drop(w, i)
  \/ \E w \in Workers : Fail(w) \/ \E picked \in SUBSET Labels : Answer(w, picked)
  \/ Toggle \/ Edit
  \/ \E l \in Labels : Reword(l) \/ Assign(l) \/ Remove(l)

Spec == Init /\ [][Next]_vars

-----------------------------------------------------------------------------

\* However pipelines and workers meet, the user's queue keeps its limit, and no signature
\* is put to the model by two jobs.
QueueIsBounded ==
  /\ Cardinality(Waiting(job)) <= MaxPending
  /\ \A i, k \in Rows :
       i # k /\ job[i] # NoRow /\ job[k] # NoRow /\ job[i].for = job[k].for
         => "failed" \in {job[i].status, job[k].status}

\* The model never puts back a label that the user has taken away.
RefusedStaysRefused == \A l \in refused : bearing[l] # "agent"

\* The model's labels come from an answer about what is there when they are written,
\* while the user wants them: what it says of a former text or former labels is dropped.
\* (A condition on steps.)
AgentLabelsAreCurrent ==
  \A l \in Labels :
    bearing'[l] = "agent" /\ bearing[l] # "agent"
      => /\ enabled
         /\ \E w \in Workers : worker[w] # Idle /\ worker'[w] = Idle
                               /\ worker[w].for = Signature
=============================================================================
