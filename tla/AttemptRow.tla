----------------------------- MODULE AttemptRow -----------------------------
(***************************************************************************)
(* A row of external_action_attempts: what is known of one approved send.  *)
(* The e-mail, calendar and chat services keep the same row and share its  *)
(* transitions.  The row is read and written in two statements with no     *)
(* lock in between, so a write is computed from what its caller has seen.  *)
(***************************************************************************)

\* "none": nobody has claimed the operation, there is no row.
AttemptStates == {"none", "started", "succeeded", "failed_definite", "uncertain"}

Final(state) == state \in {"succeeded", "failed_definite"}

\* The caller saw a final state, and it does not give way to another one.
Settled(seen, want) == Final(seen) /\ want # seen

\* The state after a caller that saw "seen" has stored "want".  Only a changed
\* column is sent, so storing what was seen leaves a newer state alone.
Stored(now, seen, want) ==
  IF Settled(seen, want) \/ want = seen THEN now ELSE want
=============================================================================
