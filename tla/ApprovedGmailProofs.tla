------------------------ MODULE ApprovedGmailProofs -------------------------
(***************************************************************************)
(* Proofs about GmailSend and ApprovedGmail, for any number of overlapping *)
(* calls and requests: one operation sends once, what is recorded and told *)
(* of it is true, a plan is decided once and agrees with its attempt, and  *)
(* approving it implements SendOnce.  What a plan does is a step of        *)
(* GmailSend, so what is true of overlapping calls is true of plans.       *)
(***************************************************************************)
EXTENDS ApprovedGmail, TLAPS

-----------------------------------------------------------------------------
(* Overlapping calls.                                                      *)

\* A state, or an answer, that is true of the message.
StateTrue(state) ==
  /\ state = "succeeded" => Delivered
  /\ state = "failed_definite" => message \in {"refused", "altered"}
AnswerTrue(answer) ==
  /\ answer \in {"sent", "already_sent"} => Delivered
  /\ answer = "failed" => message \in {"refused", "altered"}

\* What a call knows, by its phase.  Only the call that inserted the row ever
\* stands at "claimed", and until it moves on nothing has been sent.
HeldTrue(held) ==
  /\ held.phase \in {"idle", "answered"} \/ attempt # "none"
  /\ held.phase = "claimed" => sends = 0
  /\ held.phase = "answered" => AnswerTrue(held.answer)
  /\ held.phase \in {"store", "storing"} =>
       /\ held.want # "none" /\ StateTrue(held.want)
       /\ held.next.phase = "answered" => AnswerTrue(held.next.answer)

OneClaims ==
  \A c, d \in Callers :
    caller[c].phase = "claimed" /\ caller[d].phase = "claimed" => c = d

SendInv ==
  /\ sends \in {0, 1}
  /\ sends = 0 => message = "unsent"
  /\ attempt = "none" => sends = 0
  /\ StateTrue(attempt)
  /\ \A answer \in told : AnswerTrue(answer)

Inv == TypeOK /\ OneClaims /\ SendInv /\ \A c \in Callers : HeldTrue(caller[c])

Helds == Waiting \union Replies \union Stores

-----------------------------------------------------------------------------
(* What a call may hold.                                                   *)

LEMMA HeldForms ==
  /\ Idle \in Helds /\ Idle.phase = "idle"
  /\ \A p \in {"claimed", "sending", "resumed", "reconciling"} :
       At(p) \in Helds /\ At(p).phase = p
  /\ \A answer \in Answers :
       /\ Answered(answer) \in Helds /\ Answered(answer) \in Nexts
       /\ Answered(answer).phase = "answered" /\ Answered(answer).answer = answer
  /\ At("reconciling") \in Nexts
  /\ \A held \in Helds : held.phase = "answered" => held.answer \in Answers
  /\ \A held \in Helds : held.phase \in {"store", "storing"} =>
       held.want \in AttemptStates /\ held.next \in Nexts
  /\ \A held \in Helds : held.phase = "storing" => held.seen \in AttemptStates
  /\ \A held \in Nexts : held \in Helds /\ held.phase \in {"answered", "reconciling"}
BY DEF Helds, Waiting, Replies, Stores, Nexts, Idle, At, Answered

LEMMA StoringForms ==
  ASSUME NEW want \in AttemptStates, NEW next \in Nexts
  PROVE  /\ Storing(want, next) \in Helds
         /\ Storing(want, next).phase = "store"
         /\ Storing(want, next).want = want /\ Storing(want, next).next = next
         /\ \A seen \in AttemptStates :
              LET held == [phase |-> "storing", want |-> want, next |-> next,
                           seen |-> seen]
              IN  held \in Helds /\ held.phase = "storing"
                  /\ held.want = want /\ held.next = next
BY DEF Storing, Helds, Stores

\* Once the message is decided, what is true of it stays true.
LEMMA TruthKept ==
  ASSUME message' = message \/ message \in {"unsent", "handed"}
  PROVE  /\ \A state : StateTrue(state) => StateTrue(state)'
         /\ \A answer : AnswerTrue(answer) => AnswerTrue(answer)'
BY DEF StateTrue, AnswerTrue, Delivered

\* A call's step, with what is left to show of each action.
LEMMA Moves ==
  ASSUME Inv, NEW c \in Callers, NEW held \in Helds, Move(c, held),
         attempt' \in AttemptStates, attempt' = "none" => attempt = "none",
         sends' \in {0, 1}, message' \in Messages,
         message' = message \/ message \in {"unsent", "handed"},
         sends' = 0 => message' = "unsent", attempt' = "none" => sends' = 0,
         StateTrue(attempt)', HeldTrue(held)',
         \A d \in Callers \ {c} :
           caller[d].phase = "claimed" => sends' = 0 /\ held.phase # "claimed"
  PROVE  Inv'
<1>1. /\ caller \in [Callers -> Helds] /\ told \subseteq Answers
      /\ caller' = [caller EXCEPT ![c] = held]
  BY DEF Inv, TypeOK, Move, Helds
<1>2. caller' \in [Callers -> Helds] /\ caller'[c] = held
      /\ \A d \in Callers \ {c} : caller'[d] = caller[d]
  BY <1>1
<1>3. held.phase = "answered" => held.answer \in Answers /\ AnswerTrue(held.answer)'
  BY HeldForms DEF HeldTrue
<1>4. \A answer \in told' : answer \in Answers /\ AnswerTrue(answer)'
  <2>1. \A answer \in told : AnswerTrue(answer)'
    BY TruthKept DEF Inv, SendInv
  <2> QED  BY <2>1, <1>1, <1>3 DEF Move
<1>5. TypeOK'
  BY <1>2, <1>4 DEF TypeOK, Helds
<1>6. OneClaims'
  BY <1>2 DEF OneClaims, Inv
<1>7. SendInv'
  BY <1>4 DEF SendInv
<1>8. ASSUME NEW d \in Callers \ {c}
      PROVE  HeldTrue(caller[d])'
  <2> DEFINE kept == caller[d]
  <2>1. HeldTrue(kept)
    BY DEF Inv
  <2>2. caller'[d] = kept /\ (kept.phase = "claimed" => sends' = 0)
    BY <1>2
  <2> HIDE DEF kept
  <2>3. \A state : StateTrue(state) => StateTrue(state)'
    BY TruthKept
  <2>4. \A answer : AnswerTrue(answer) => AnswerTrue(answer)'
    BY TruthKept
  <2> QED  BY <2>1, <2>2, <2>3, <2>4 DEF HeldTrue
<1> QED  BY <1>2, <1>5, <1>6, <1>7, <1>8 DEF Inv

\* A step that changes nothing but where the call stands.
LEMMA QuietMoves ==
  ASSUME Inv, NEW c \in Callers, NEW held \in Helds, Move(c, held),
         UNCHANGED <<attempt, sends, message>>,
         held.phase # "claimed", HeldTrue(held)
  PROVE  Inv'
<1>1. HeldTrue(held)'
  BY DEF HeldTrue, StateTrue, AnswerTrue, Delivered
<1>2. StateTrue(attempt)'
  BY DEF Inv, SendInv, StateTrue, Delivered
<1>3. \A d \in Callers \ {c} : caller[d].phase = "claimed" => sends' = 0
  BY DEF Inv, HeldTrue
<1>4. /\ attempt' \in AttemptStates /\ sends' \in {0, 1} /\ message' \in Messages
      /\ sends' = 0 => message' = "unsent"
      /\ attempt' = "none" => sends' = 0
  BY DEF Inv, TypeOK, SendInv
<1> QED  BY <1>1, <1>2, <1>3, <1>4, Moves

-----------------------------------------------------------------------------
(* The actions.                                                            *)

LEMMA Answering ==
  ASSUME NEW answer \in Answers, AnswerTrue(answer)
  PROVE  HeldTrue(Answered(answer))
BY HeldForms DEF HeldTrue

LEMMA ToStore ==
  ASSUME NEW want \in AttemptStates, NEW next \in Nexts,
         attempt # "none", want # "none", StateTrue(want),
         next.phase = "answered" => AnswerTrue(next.answer)
  PROVE  HeldTrue(Storing(want, next))
BY StoringForms DEF HeldTrue

LEMMA FoundIsTrue ==
  ASSUME Inv, attempt # "none", NEW n \in Nat, n > 0 => Delivered
  PROVE  Found(n) \in Helds /\ HeldTrue(Found(n)) /\ Found(n).phase = "store"
<1> /\ {"uncertain", "succeeded", "failed_definite"} \subseteq AttemptStates
    /\ {"uncertain", "already_sent", "failed"} \subseteq Answers
  BY DEF AttemptStates, Answers
<1>1. CASE n = 1 /\ message = "altered"
  <2>1. StateTrue("failed_definite") /\ AnswerTrue("failed")
    BY <1>1 DEF StateTrue, AnswerTrue
  <2> QED  BY <1>1, <2>1, HeldForms, StoringForms, ToStore DEF Found
<1>2. CASE n = 1 /\ message # "altered"
  <2>1. StateTrue("succeeded") /\ AnswerTrue("already_sent")
    BY <1>2 DEF StateTrue, AnswerTrue
  <2> QED  BY <1>2, <2>1, HeldForms, StoringForms, ToStore DEF Found
<1>3. CASE n # 1
  <2>1. StateTrue("uncertain") /\ AnswerTrue("uncertain")
    BY DEF StateTrue, AnswerTrue
  <2> QED  BY <1>3, <2>1, HeldForms, StoringForms, ToStore DEF Found
<1> QED  BY <1>1, <1>2, <1>3

LEMMA Errors ==
  ASSUME Inv, NEW c \in Callers, Move(c, Answered("error")),
         UNCHANGED <<attempt, sends, message>>
  PROVE  Inv'
<1>1. "error" \in Answers /\ AnswerTrue("error")
  BY DEF Answers, AnswerTrue
<1> QED  BY <1>1, HeldForms, Answering, QuietMoves

LEMMA Resumes ==
  ASSUME Inv, attempt # "none"
  PROVE  /\ Resume(attempt) \in Helds /\ HeldTrue(Resume(attempt))
         /\ Resume(attempt).phase # "claimed"
<1> "already_sent" \in Answers /\ "failed" \in Answers
  BY DEF Answers
<1>1. StateTrue(attempt)
  BY DEF Inv, SendInv
<1>2. CASE attempt = "succeeded"
  <2>1. AnswerTrue("already_sent")
    BY <1>1, <1>2 DEF StateTrue, AnswerTrue
  <2> QED  BY <1>2, <2>1, HeldForms, Answering DEF Resume
<1>3. CASE attempt = "failed_definite"
  <2>1. AnswerTrue("failed")
    BY <1>1, <1>3 DEF StateTrue, AnswerTrue
  <2> QED  BY <1>3, <2>1, HeldForms, Answering DEF Resume
<1>4. CASE attempt \notin {"succeeded", "failed_definite"}
  <2>1. Resume(attempt) = At("resumed")
    BY <1>4 DEF Resume
  <2> QED  BY <2>1, HeldForms DEF HeldTrue
<1> QED  BY <1>2, <1>3, <1>4

LEMMA ClaimStartedStep ==
  ASSUME Inv, NEW c \in Callers, ClaimStarted(c)
  PROVE  Inv'
<1>1. CASE attempt = "none"
  <2> At("claimed") \in Helds /\ At("claimed").phase = "claimed"
    BY HeldForms
  <2>1. Move(c, At("claimed")) /\ attempt' = "started" /\ UNCHANGED <<sends, message>>
    BY <1>1 DEF ClaimStarted
  <2>2. sends = 0 /\ message = "unsent"
    BY <1>1 DEF Inv, SendInv
  <2>3. \A d \in Callers : caller[d].phase # "claimed"
    BY <1>1 DEF Inv, HeldTrue
  <2>4. StateTrue(attempt)' /\ HeldTrue(At("claimed"))'
    BY <2>1, <2>2 DEF StateTrue, HeldTrue
  <2>5. attempt' \in AttemptStates /\ message' \in Messages
    BY <2>1, <2>2 DEF AttemptStates, Messages
  <2> QED  BY <2>1, <2>2, <2>3, <2>4, <2>5, Moves
<1>2. CASE attempt # "none"
  BY <1>2, Resumes, QuietMoves DEF ClaimStarted
<1> QED  BY <1>1, <1>2

LEMMA SendMessageStep ==
  ASSUME Inv, NEW c \in Callers, SendMessage(c)
  PROVE  Inv'
<1> At("sending") \in Helds /\ At("sending").phase = "sending"
  BY HeldForms
<1>1. /\ caller[c].phase = "claimed" /\ Move(c, At("sending"))
      /\ sends' = sends + 1 /\ message' = "handed" /\ attempt' = attempt
  BY DEF SendMessage
<1>2. sends = 0 /\ attempt # "none" /\ message = "unsent" /\ StateTrue(attempt)
  BY <1>1 DEF Inv, HeldTrue, SendInv
<1>3. \A d \in Callers \ {c} : caller[d].phase # "claimed"
  BY <1>1 DEF Inv, OneClaims
<1>4. StateTrue(attempt)'
  BY <1>1, <1>2 DEF StateTrue, Delivered
<1>5. HeldTrue(At("sending"))'
  BY <1>1, <1>2 DEF HeldTrue
<1>6. attempt' \in AttemptStates /\ message' \in Messages /\ sends' = 1
  BY <1>1, <1>2 DEF Inv, TypeOK, Messages
<1> QED  BY <1>1, <1>2, <1>3, <1>4, <1>5, <1>6, Moves

LEMMA VerdictSteps ==
  ASSUME Inv, NEW c \in Callers,
         SendSucceeds(c) \/ SendRefused(c) \/ SendAmbiguous(c)
  PROVE  Inv'
<1> /\ {"uncertain", "succeeded", "failed_definite"} \subseteq AttemptStates
    /\ {"sent", "failed"} \subseteq Answers
  BY DEF AttemptStates, Answers
<1>1. attempt # "none"
  BY DEF Inv, HeldTrue, SendSucceeds, SendRefused, SendAmbiguous
<1>2. CASE SendSucceeds(c)
  <2>1. StateTrue("succeeded") /\ AnswerTrue("sent")
    BY <1>2 DEF SendSucceeds, StateTrue, AnswerTrue
  <2> QED  BY <1>1, <1>2, <2>1, HeldForms, StoringForms, ToStore, QuietMoves
           DEF SendSucceeds
<1>3. CASE SendRefused(c)
  <2>1. StateTrue("failed_definite") /\ AnswerTrue("failed")
    BY <1>3 DEF SendRefused, StateTrue, AnswerTrue
  <2> QED  BY <1>1, <1>3, <2>1, HeldForms, StoringForms, ToStore, QuietMoves
           DEF SendRefused
<1>4. CASE SendAmbiguous(c)
  <2>1. StateTrue("uncertain")
    BY DEF StateTrue
  <2> QED  BY <1>1, <1>4, <2>1, HeldForms, StoringForms, ToStore, QuietMoves
           DEF SendAmbiguous
<1> QED  BY <1>2, <1>3, <1>4

LEMMA ReconcileStep ==
  ASSUME Inv, NEW c \in Callers, ReconcileSent(c)
  PROVE  Inv'
<1>1. attempt # "none" /\ UNCHANGED <<attempt, sends, message>>
  BY DEF Inv, HeldTrue, ReconcileSent
<1>2. CASE Move(c, Storing("uncertain", Answered("uncertain")))
  <2>1. "uncertain" \in AttemptStates /\ "uncertain" \in Answers
    BY DEF AttemptStates, Answers
  <2>2. StateTrue("uncertain") /\ AnswerTrue("uncertain")
    BY DEF StateTrue, AnswerTrue
  <2> QED  BY <1>1, <1>2, <2>1, <2>2, HeldForms, StoringForms, ToStore, QuietMoves
<1>3. ASSUME NEW n \in 0 .. (IF Delivered THEN sends ELSE 0), Move(c, Found(n))
      PROVE  Inv'
  <2>1. n \in Nat /\ (n > 0 => Delivered)
    BY DEF Inv, SendInv
  <2> QED  BY <1>1, <1>3, <2>1, FoundIsTrue, QuietMoves
<1> QED  BY <1>2, <1>3 DEF ReconcileSent

LEMMA ReadRowStep ==
  ASSUME Inv, NEW c \in Callers, ReadRow(c)
  PROVE  Inv'
<1> DEFINE want == caller[c].want
           next == caller[c].next
           held == [phase |-> "storing", want |-> want, next |-> next,
                    seen |-> attempt]
<1>1. caller[c] \in Helds /\ caller[c].phase = "store" /\ HeldTrue(caller[c])
      /\ attempt \in AttemptStates
  BY DEF Inv, TypeOK, ReadRow, Helds
<1>2. want \in AttemptStates /\ next \in Nexts
  BY <1>1, HeldForms
<1>3. Move(c, held) /\ UNCHANGED <<attempt, sends, message>>
  BY DEF ReadRow
<1>4. /\ attempt # "none" /\ want # "none" /\ StateTrue(want)
      /\ next.phase = "answered" => AnswerTrue(next.answer)
  BY <1>1 DEF HeldTrue
<1> HIDE DEF want, next
<1>5. held \in Helds /\ held.phase = "storing" /\ held.want = want /\ held.next = next
  BY <1>1, <1>2, StoringForms
<1> HIDE DEF held
<1>6. HeldTrue(held)
  BY <1>4, <1>5 DEF HeldTrue
<1> QED  BY <1>3, <1>5, <1>6, QuietMoves

LEMMA WriteRowStep ==
  ASSUME Inv, NEW c \in Callers, WriteRow(c)
  PROVE  Inv'
<1> PICK want, next : want = caller[c].want /\ next = caller[c].next
  OBVIOUS
<1>1. caller[c] \in Helds /\ caller[c].phase = "storing" /\ HeldTrue(caller[c])
      /\ attempt \in AttemptStates
  BY DEF Inv, TypeOK, WriteRow, Helds
<1>2. /\ want \in AttemptStates /\ next \in Nexts
      /\ next \in Helds /\ next.phase \in {"answered", "reconciling"}
  BY <1>1, HeldForms
<1>3. /\ attempt' \in {attempt, want} /\ Move(c, next)
      /\ UNCHANGED <<sends, message>>
  BY DEF WriteRow, Stored
<1>4. /\ attempt # "none" /\ want # "none" /\ StateTrue(want) /\ StateTrue(attempt)
      /\ next.phase = "answered" => AnswerTrue(next.answer)
  BY <1>1 DEF HeldTrue, Inv, SendInv
<1>5. attempt' # "none" /\ attempt' \in AttemptStates /\ StateTrue(attempt)'
  BY <1>1, <1>2, <1>3, <1>4 DEF StateTrue, Delivered
<1>6. HeldTrue(next)'
  BY <1>2, <1>3, <1>4, <1>5 DEF HeldTrue, AnswerTrue, Delivered
<1>7. /\ sends' \in {0, 1} /\ message' \in Messages
      /\ sends' = 0 => message' = "unsent"
      /\ \A d \in Callers : caller[d].phase = "claimed" => sends' = 0
  BY <1>3 DEF Inv, SendInv, TypeOK, HeldTrue
<1> QED  BY <1>2, <1>3, <1>4, <1>5, <1>6, <1>7, Moves

LEMMA DecidesStep ==
  ASSUME Inv, GmailDecides
  PROVE  Inv'
<1>1. /\ message = "handed" /\ message' \in {"delivered", "altered", "refused"}
      /\ UNCHANGED <<attempt, caller, sends, told>>
  BY DEF GmailDecides
<1>2. /\ \A state : StateTrue(state) => StateTrue(state)'
      /\ \A answer : AnswerTrue(answer) => AnswerTrue(answer)'
  BY <1>1, TruthKept
<1>3. TypeOK'
  BY <1>1 DEF Inv, TypeOK, Messages
<1>4. OneClaims'
  BY <1>1 DEF Inv, OneClaims
<1>5. SendInv'
  BY <1>1, <1>2 DEF Inv, SendInv
<1>6. ASSUME NEW c \in Callers
      PROVE  HeldTrue(caller[c])'
  <2> DEFINE kept == caller[c]
  <2>1. HeldTrue(kept) /\ caller'[c] = kept
    BY <1>1 DEF Inv
  <2> HIDE DEF kept
  <2> QED  BY <1>1, <1>2, <2>1 DEF HeldTrue
<1> QED  BY <1>3, <1>4, <1>5, <1>6 DEF Inv

-----------------------------------------------------------------------------

LEMMA InvInit ==
  ASSUME Init
  PROVE  Inv
<1>1. TypeOK
  BY HeldForms DEF Init, TypeOK, Helds, AttemptStates, Messages
<1>2. \A c \in Callers : caller[c].phase = "idle"
  BY HeldForms DEF Init
<1> QED  BY <1>1, <1>2 DEF Init, Inv, OneClaims, SendInv, StateTrue, HeldTrue

LEMMA InvStep ==
  ASSUME Inv, [Next]_vars
  PROVE  Inv'
<1>1. CASE UNCHANGED vars
  BY <1>1 DEF vars, Inv, TypeOK, OneClaims, SendInv, HeldTrue, StateTrue, AnswerTrue,
              Delivered
<1>2. CASE GmailDecides
  BY <1>2, DecidesStep
<1>3. ASSUME NEW c \in Callers, CallStep(c)
      PROVE  Inv'
  <2>1. CASE AccountMissing(c) \/ TokenMissing(c) \/ StoreFails(c)
    BY <2>1, Errors DEF AccountMissing, TokenMissing, StoreFails
  <2>2. CASE GetToken(c)
    <3>1. attempt # "none"
      BY <2>2 DEF GetToken, Inv, HeldTrue
    <3>2. At("reconciling") \in Helds /\ At("reconciling").phase = "reconciling"
      BY HeldForms
    <3>3. HeldTrue(At("reconciling"))
      BY <3>1, <3>2 DEF HeldTrue
    <3> QED  BY <2>2, <3>2, <3>3, QuietMoves DEF GetToken
  <2> QED  BY <1>3, <2>1, <2>2, ClaimStartedStep, SendMessageStep, VerdictSteps,
              ReconcileStep, ReadRowStep, WriteRowStep DEF CallStep
<1>4. ASSUME NEW c \in Callers, Leave(c)
      PROVE  Inv'
  <2>1. HeldTrue(Idle)
    BY HeldForms DEF HeldTrue
  <2> QED  BY <1>4, <2>1, HeldForms, QuietMoves DEF Leave
<1> QED  BY <1>1, <1>2, <1>3, <1>4 DEF Next

LEMMA InvAlways == Spec => []Inv
BY InvInit, InvStep, PTL DEF Spec

\* Every row and every call of a send is well formed in every reachable state.
THEOREM GmailTypes == Spec => []TypeOK
<1>1. Inv => TypeOK
  BY DEF Inv
<1> QED  BY <1>1, InvAlways, PTL

\* However many calls of one approved operation overlap, crash and are repeated,
\* Gmail is asked to send the message once at most (the unique row claimed before
\* the request, email_external_action_service.py).
THEOREM GmailSendsOnce == Spec => []AtMostOneSend
<1>1. Inv => AtMostOneSend
  BY DEF Inv, SendInv, AtMostOneSend
<1> QED  BY <1>1, InvAlways, PTL

\* The final state recorded of a send is the truth about the message, whatever
\* stale write lands last.
THEOREM GmailRowIsTrue == Spec => []RowIsTrue
<1>1. Inv => RowIsTrue
  BY DEF Inv, SendInv, StateTrue, RowIsTrue
<1> QED  BY <1>1, InvAlways, PTL

\* No caller is ever told that a message was sent that is not there, nor to make a
\* new plan for one that arrives as approved.
THEOREM GmailAnswersAreTrue == Spec => []AnswersAreTrue
<1>1. Inv => AnswersAreTrue
  BY DEF Inv, SendInv, AnswerTrue, AnswersAreTrue
<1> QED  BY <1>1, InvAlways, PTL

-----------------------------------------------------------------------------
(* A plan and its attempt.                                                 *)

Open(state) == state \in {"started", "uncertain"}

\* An answer the plan takes for success.
Good(answer) == answer \in {"sent", "already_sent"}

\* What a call knows when nobody else writes the row: that it is open until the call has
\* stored what it wants, and that it says succeeded when the answer does.
HeldAlone(held) ==
  /\ held.phase \notin {"idle", "answered"} => Open(attempt)
  /\ held.phase = "answered" /\ Good(held.answer) => attempt = "succeeded"
  /\ held.phase \in {"store", "storing"} =>
       /\ held.next.phase = "reconciling" => held.want = "uncertain"
       /\ held.next.phase = "answered" /\ Good(held.next.answer) =>
            held.want = "succeeded"
  /\ held.phase = "storing" => held.seen = attempt

LockInv ==
  /\ plan \in Statuses /\ overdue \in BOOLEAN
  /\ lock \in {Free} \union {{c} : c \in Callers}
  /\ lock # Free => plan = "pending"
  /\ \A c \in Callers : c \notin lock => caller[c] = Idle

ExecutedInv == plan = "executed" => attempt = "succeeded"

PlanInv ==
  Inv /\ LockInv /\ ExecutedInv /\ \A c \in Callers : HeldAlone(caller[c])

-----------------------------------------------------------------------------
(* A plan's steps are steps of GmailSend.                                  *)

LEMMA PlanStepIsCallStep ==
  ASSUME LockInv, [PlanNext]_allVars
  PROVE  [Next]_vars
<1>1. CASE TtlPasses \/ FindExpired \/ Reject \/ UNCHANGED allVars
  BY <1>1 DEF TtlPasses, FindExpired, Reject, allVars
<1>2. CASE GmailDecides
  BY <1>2 DEF Next
<1>3. ASSUME NEW c \in Callers, Approve(c) \/ Execute(c)
      PROVE  [Next]_vars
  <2>1. CallStep(c)
    BY <1>3 DEF Approve, Execute, CallStep
  <2> QED  BY <2>1 DEF Next
<1>4. ASSUME NEW c \in Callers, Conclude(c) \/ Abort(c)
      PROVE  [Next]_vars
  BY <1>4 DEF Conclude, Abort, Next
<1> QED  BY <1>1, <1>2, <1>3, <1>4 DEF PlanNext

-----------------------------------------------------------------------------
(* What a step of the call under the lock leaves true.                     *)

\* Storing is what it says, and sees the row it will write over.
LEMMA AloneForms ==
  ASSUME NEW want, NEW next, Open(attempt),
         next.phase = "reconciling" => want = "uncertain",
         next.phase = "answered" /\ Good(next.answer) => want = "succeeded"
  PROVE  HeldAlone(Storing(want, next))
BY DEF HeldAlone, Storing

\* One call moves; whoever has no lock is idle.
LEMMA AloneMoves ==
  ASSUME PlanInv, NEW c \in Callers, c \in lock \/ lock = Free, NEW held, Move(c, held),
         HeldAlone(held)'
  PROVE  /\ \A d \in Callers : HeldAlone(caller[d])'
         /\ \A d \in Callers : d # c => caller'[d] = Idle
         /\ caller'[c] = held
<1>1. /\ \A d \in Callers : d # c => caller[d] = Idle
      /\ caller \in [Callers -> Helds]
  BY DEF PlanInv, Inv, LockInv, Free, TypeOK, Helds
<1>2. /\ caller'[c] = held
      /\ \A d \in Callers : d # c => caller'[d] = Idle
  BY <1>1 DEF Move
<1>3. HeldAlone(Idle)'
  BY HeldForms DEF HeldAlone
<1>4. ASSUME NEW d \in Callers
      PROVE  HeldAlone(caller[d])'
  <2> PICK kept : kept = caller'[d]
    OBVIOUS
  <2>1. kept = held \/ kept = Idle
    BY <1>2
  <2>2. HeldAlone(kept)'
    BY <1>3, <2>1
  <2> QED  BY <2>2 DEF HeldAlone
<1> QED  BY <1>2, <1>4

LEMMA QuietAlone ==
  ASSUME NEW held, HeldAlone(held), UNCHANGED attempt
  PROVE  HeldAlone(held)'
BY DEF HeldAlone, Open

LEMMA ErrorAlone ==
  HeldAlone(Answered("error"))'
BY HeldForms DEF HeldAlone, Good, Answered

\* A step of the call that holds the lock.
LEMMA UnderLock ==
  ASSUME PlanInv, NEW c \in Callers, c \in lock, NEW held, Move(c, held),
         HeldAlone(held)', UNCHANGED planVars, [Next]_vars
  PROVE  PlanInv'
<1>1. Inv'
  BY InvStep DEF PlanInv
<1>2. /\ \A d \in Callers : HeldAlone(caller[d])'
      /\ \A d \in Callers : d # c => caller'[d] = Idle
  BY AloneMoves
<1>3. LockInv'
  BY <1>2 DEF PlanInv, LockInv, planVars
<1>4. ExecutedInv'
  <2>1. lock # Free
    BY DEF Free
  <2> QED  BY <2>1 DEF PlanInv, LockInv, planVars, ExecutedInv
<1> QED  BY <1>1, <1>2, <1>3, <1>4 DEF PlanInv

LEMMA SendAlone ==
  ASSUME PlanInv, NEW c \in Callers, c \in lock, UNCHANGED planVars, [Next]_vars,
         \/ TokenMissing(c) \/ SendMessage(c) \/ SendSucceeds(c) \/ SendRefused(c)
         \/ SendAmbiguous(c) \/ GetToken(c) \/ StoreFails(c)
  PROVE  PlanInv'
<1>1. HeldAlone(caller[c])
  BY DEF PlanInv
<1>2. CASE TokenMissing(c) \/ StoreFails(c)
  BY <1>2, ErrorAlone, UnderLock DEF TokenMissing, StoreFails
<1>3. CASE SendMessage(c) \/ GetToken(c)
  <2>1. PICK p \in {"sending", "reconciling"} : Move(c, At(p)) /\ UNCHANGED attempt
    BY <1>3 DEF SendMessage, GetToken
  <2>2. Open(attempt)
    BY <1>1, <1>3 DEF HeldAlone, SendMessage, GetToken
  <2>3. HeldAlone(At(p))
    BY <2>2, HeldForms DEF HeldAlone
  <2> QED  BY <2>1, <2>3, QuietAlone, UnderLock
<1>4. CASE SendSucceeds(c) \/ SendRefused(c) \/ SendAmbiguous(c)
  <2>1. Open(attempt) /\ UNCHANGED attempt
    BY <1>1, <1>4 DEF HeldAlone, SendSucceeds, SendRefused, SendAmbiguous
  <2>2. /\ HeldAlone(Storing("succeeded", Answered("sent")))
        /\ HeldAlone(Storing("failed_definite", Answered("failed")))
        /\ HeldAlone(Storing("uncertain", At("reconciling")))
    <3>1. {"sent", "failed"} \subseteq Answers
      BY DEF Answers
    <3> QED  BY <2>1, <3>1, HeldForms, AloneForms DEF Good
  <2> QED  BY <1>4, <2>1, <2>2, QuietAlone, UnderLock
           DEF SendSucceeds, SendRefused, SendAmbiguous
<1> QED  BY <1>2, <1>3, <1>4

LEMMA ReconcileAlone ==
  ASSUME PlanInv, NEW c \in Callers, c \in lock, UNCHANGED planVars, [Next]_vars,
         ReconcileSent(c)
  PROVE  PlanInv'
<1>1. Open(attempt) /\ UNCHANGED attempt
  BY DEF PlanInv, HeldAlone, ReconcileSent
<1>2. /\ HeldAlone(Storing("uncertain", Answered("uncertain")))
      /\ HeldAlone(Storing("failed_definite", Answered("failed")))
      /\ HeldAlone(Storing("succeeded", Answered("already_sent")))
  <2>1. {"uncertain", "failed", "already_sent"} \subseteq Answers
    BY DEF Answers
  <2> QED  BY <1>1, <2>1, HeldForms, AloneForms DEF Good
<1>3. PICK held : /\ Move(c, held)
                  /\ \/ held = Storing("uncertain", Answered("uncertain"))
                     \/ \E n \in 0 .. (IF Delivered THEN sends ELSE 0) : held = Found(n)
  BY DEF ReconcileSent
<1>4. HeldAlone(held)
  BY <1>2, <1>3 DEF Found
<1> QED  BY <1>1, <1>3, <1>4, QuietAlone, UnderLock

LEMMA RowAlone ==
  ASSUME PlanInv, NEW c \in Callers, c \in lock, UNCHANGED planVars, [Next]_vars,
         ReadRow(c) \/ WriteRow(c)
  PROVE  PlanInv'
<1> PICK want, next : want = caller[c].want /\ next = caller[c].next
  OBVIOUS
<1>1. caller[c] \in Helds /\ HeldAlone(caller[c]) /\ caller[c].phase \in {"store", "storing"}
  BY DEF PlanInv, Inv, TypeOK, Helds, ReadRow, WriteRow
<1>2. next \in Nexts /\ next.phase \in {"answered", "reconciling"}
  BY <1>1, HeldForms
<1>3. /\ Open(attempt)
      /\ next.phase = "reconciling" => want = "uncertain"
      /\ next.phase = "answered" /\ Good(next.answer) => want = "succeeded"
  BY <1>1 DEF HeldAlone
<1>4. CASE ReadRow(c)
  <2> DEFINE held == [phase |-> "storing", want |-> want, next |-> next, seen |-> attempt]
  <2>1. Move(c, held) /\ UNCHANGED attempt
    BY <1>4 DEF ReadRow
  <2>2. /\ held.phase = "storing" /\ held.want = want /\ held.next = next
        /\ held.seen = attempt
    OBVIOUS
  <2> HIDE DEF held
  <2>3. HeldAlone(held)
    BY <1>3, <2>2 DEF HeldAlone
  <2> QED  BY <2>1, <2>3, QuietAlone, UnderLock
<1>5. CASE WriteRow(c)
  <2>1. Move(c, next) /\ attempt' = want
    <3>1. caller[c].seen = attempt
      BY <1>1, <1>5 DEF HeldAlone, WriteRow
    <3> QED  BY <1>3, <1>5, <3>1 DEF WriteRow, Stored, Settled, Final, Open
  <2>2. HeldAlone(next)'
    BY <1>2, <1>3, <2>1 DEF HeldAlone, Open
  <2> QED  BY <2>1, <2>2, UnderLock
<1> QED  BY <1>4, <1>5

-----------------------------------------------------------------------------
(* The plan's own steps.                                                   *)

LEMMA ApproveStep ==
  ASSUME PlanInv, NEW c \in Callers, Approve(c), [Next]_vars
  PROVE  PlanInv'
<1>1. /\ lock = Free /\ lock' = {c} /\ plan = "pending" /\ UNCHANGED <<plan, overdue>>
      /\ AccountMissing(c) \/ ClaimStarted(c)
  BY DEF Approve
<1>2. PICK held : Move(c, held) /\ HeldAlone(held)'
  <2>1. CASE AccountMissing(c)
    BY <2>1, ErrorAlone DEF AccountMissing
  <2>2. CASE ClaimStarted(c) /\ attempt = "none"
    <3>1. HeldAlone(At("claimed"))'
      BY <2>2, HeldForms DEF HeldAlone, ClaimStarted, Open
    <3> QED  BY <2>2, <3>1 DEF ClaimStarted
  <2>3. CASE ClaimStarted(c) /\ attempt # "none"
    <3>1. Move(c, Resume(attempt)) /\ UNCHANGED attempt
      BY <2>3 DEF ClaimStarted
    <3>2. HeldAlone(Resume(attempt))
      <4>1. {"already_sent", "failed"} \subseteq Answers /\ attempt \in AttemptStates
        BY DEF Answers, PlanInv, Inv, TypeOK
      <4>2. CASE attempt = "succeeded"
        BY <4>1, <4>2, HeldForms DEF Resume, HeldAlone
      <4>3. CASE attempt = "failed_definite"
        BY <4>1, <4>3, HeldForms DEF Resume, HeldAlone, Good
      <4>4. CASE Open(attempt)
        <5>1. Resume(attempt) = At("resumed")
          BY <4>4 DEF Open, Resume
        <5> QED  BY <4>4, <5>1, HeldForms DEF HeldAlone
      <4> QED  BY <2>3, <4>1, <4>2, <4>3, <4>4 DEF AttemptStates, Open
    <3> QED  BY <3>1, <3>2, QuietAlone
  <2> QED  BY <1>1, <2>1, <2>2, <2>3
<1>3. Inv'
  BY InvStep DEF PlanInv
<1>4. /\ \A d \in Callers : HeldAlone(caller[d])'
      /\ \A d \in Callers : d # c => caller'[d] = Idle
  BY <1>1, <1>2, AloneMoves
<1>5. LockInv'
  BY <1>1, <1>4 DEF PlanInv, LockInv
<1>6. ExecutedInv'
  BY <1>1 DEF ExecutedInv
<1> QED  BY <1>3, <1>4, <1>5, <1>6 DEF PlanInv

\* The request ends, with the plan decided or as it was.
LEMMA EndStep ==
  ASSUME PlanInv, NEW c \in Callers, Conclude(c) \/ Abort(c), [Next]_vars
  PROVE  PlanInv'
<1>1. /\ c \in lock /\ Move(c, Idle) /\ UNCHANGED <<attempt, overdue>>
      /\ lock' = lock \ {c}
  BY DEF Conclude, Abort, Leave
<1>2. lock = {c} /\ lock' = Free
  BY <1>1 DEF PlanInv, LockInv, Free
<1>3. Inv'
  BY InvStep DEF PlanInv
<1>4. /\ \A d \in Callers : HeldAlone(caller[d])'
      /\ \A d \in Callers : d # c => caller'[d] = Idle
      /\ caller'[c] = Idle
  <2>1. HeldAlone(Idle)'
    BY HeldForms DEF HeldAlone
  <2> QED  BY <1>1, <2>1, AloneMoves
<1>5. ExecutedInv' /\ plan' \in Statuses
  <2>1. CASE Conclude(c)
    <3>1. caller[c].phase = "answered" /\ HeldAlone(caller[c])
      BY <2>1 DEF Conclude, PlanInv
    <3>2. Good(caller[c].answer) => attempt = "succeeded"
      BY <3>1 DEF HeldAlone
    <3> QED  BY <1>1, <2>1, <3>2 DEF Conclude, Good, ExecutedInv, Statuses
  <2>2. CASE Abort(c)
    BY <1>1, <2>2 DEF Abort, PlanInv, ExecutedInv, LockInv
  <2> QED  BY <2>1, <2>2
<1>6. LockInv'
  BY <1>1, <1>2, <1>4, <1>5 DEF PlanInv, LockInv
<1> QED  BY <1>3, <1>4, <1>5, <1>6 DEF PlanInv

\* Steps in which no call moves.
LEMMA StandStep ==
  ASSUME PlanInv, [Next]_vars,
         \/ TtlPasses \/ FindExpired \/ Reject \/ UNCHANGED allVars
         \/ GmailDecides /\ UNCHANGED planVars
  PROVE  PlanInv'
<1>1. UNCHANGED <<attempt, caller, lock>>
  BY DEF TtlPasses, FindExpired, Reject, allVars, vars, planVars, GmailDecides
<1>2. Inv'
  BY InvStep DEF PlanInv
<1>3. LockInv'
  BY <1>1 DEF PlanInv, LockInv, TtlPasses, FindExpired, Reject, allVars, planVars, Statuses
<1>4. ExecutedInv'
  BY <1>1 DEF PlanInv, ExecutedInv, TtlPasses, FindExpired, Reject, allVars, planVars
<1>5. ASSUME NEW c \in Callers
      PROVE  HeldAlone(caller[c])'
  <2> PICK kept : kept = caller[c] /\ HeldAlone(kept)
    BY DEF PlanInv
  <2>1. HeldAlone(kept)' /\ caller'[c] = kept
    BY <1>1, QuietAlone
  <2> QED  BY <2>1 DEF HeldAlone
<1> QED  BY <1>2, <1>3, <1>4, <1>5 DEF PlanInv

LEMMA PlanInvInit ==
  ASSUME PlanInit
  PROVE  PlanInv
<1>1. Inv
  BY InvInit DEF PlanInit
<1>2. LockInv /\ ExecutedInv
  BY DEF PlanInit, Init, LockInv, ExecutedInv, Statuses
<1>3. \A c \in Callers : caller[c] = Idle
  BY DEF PlanInit, Init
<1>4. HeldAlone(Idle)
  BY HeldForms DEF HeldAlone
<1> QED  BY <1>1, <1>2, <1>3, <1>4 DEF PlanInv

LEMMA PlanInvStep ==
  ASSUME PlanInv, [PlanNext]_allVars
  PROVE  PlanInv'
<1>1. [Next]_vars
  BY PlanStepIsCallStep DEF PlanInv
<1>2. ASSUME NEW c \in Callers, Execute(c)
      PROVE  PlanInv'
  BY <1>1, <1>2, SendAlone, ReconcileAlone, RowAlone DEF Execute
<1>3. ASSUME NEW c \in Callers, Approve(c)
      PROVE  PlanInv'
  BY <1>1, <1>3, ApproveStep
<1>4. ASSUME NEW c \in Callers, Conclude(c) \/ Abort(c)
      PROVE  PlanInv'
  BY <1>1, <1>4, EndStep
<1> QED  BY <1>1, <1>2, <1>3, <1>4, StandStep DEF PlanNext

LEMMA PlanInvAlways == PlanSpec => []PlanInv
BY PlanInvInit, PlanInvStep, PTL DEF PlanSpec

-----------------------------------------------------------------------------

\* A plan and its attempt, which are committed apart, agree: a plan that counts as
\* executed was delivered and is recorded so, and a recorded failure is not executed
\* (ActionPlanService.approve and the e-mail service, whatever request dies between
\* the two commits).
THEOREM PlanAndAttemptAgree == PlanSpec => []PlanAgreesWithAttempt
<1>1. PlanInv => PlanAgreesWithAttempt
  BY DEF PlanInv, ExecutedInv, Inv, SendInv, StateTrue, PlanAgreesWithAttempt
<1> QED  BY <1>1, PlanInvAlways, PTL

\* A decided plan stays decided and nothing is sent for it any more, however many
\* requests click on it at once and whichever of them die (the row lock of approve).
THEOREM PlansAreDecidedOnce == PlanSpec => DecidedPlanIsOver
<1>1. ASSUME PlanInv, [PlanNext]_allVars, plan # "pending"
      PROVE  plan' = plan /\ sends' = sends
  <2>1. lock = Free
    BY <1>1 DEF PlanInv, LockInv
  <2>2. \A c \in Callers : ~ (Approve(c) \/ Execute(c) \/ Conclude(c) \/ Abort(c))
    BY <1>1, <2>1 DEF Free, Approve, Execute, Conclude, Abort
  <2> QED  BY <1>1, <2>2 DEF PlanNext, TtlPasses, FindExpired, Reject, GmailDecides,
                             planVars, allVars, vars
<1>2. ASSUME PlanInv, [PlanNext]_allVars
      PROVE  [plan # "pending" => plan' = plan /\ sends' = sends]_allVars
  BY <1>1, <1>2
<1> QED  BY <1>2, PlanInvAlways, PTL DEF PlanSpec, DecidedPlanIsOver

-----------------------------------------------------------------------------
(* Approving a plan implements SendOnce.                                   *)

LEMMA PromiseInit ==
  ASSUME PlanInit
  PROVE  Promise!Init
BY DEF PlanInit, Init, Promise!Init, verdict

LEMMA PromiseUnderLock ==
  ASSUME PlanInv, NEW c \in Callers, Execute(c)
  PROVE  [Promise!Next]_<<message, verdict>>
<1>1. CASE SendMessage(c)
  <2>1. Open(attempt) /\ message = "unsent"
    BY <1>1 DEF PlanInv, HeldAlone, Inv, HeldTrue, SendInv, SendMessage
  <2>2. Promise!Hand
    BY <1>1, <2>1 DEF SendMessage, Promise!Hand, verdict, Open
  <2> QED  BY <2>2 DEF Promise!Next
<1>2. CASE WriteRow(c)
  <2> PICK want : want = caller[c].want
    OBVIOUS
  <2>1. /\ caller[c].phase = "storing" /\ HeldAlone(caller[c]) /\ HeldTrue(caller[c])
        /\ caller[c] \in Helds
    BY <1>2 DEF PlanInv, Inv, TypeOK, Helds, WriteRow
  <2>2. Open(attempt) /\ caller[c].seen = attempt /\ StateTrue(want)
    BY <2>1 DEF HeldAlone, HeldTrue
  <2>3. want \in AttemptStates \ {"none"}
    BY <2>1, HeldForms DEF HeldTrue
  <2>4. attempt' = want /\ message' = message
    BY <1>2, <2>2 DEF WriteRow, Stored, Settled, Final, Open
  <2>5. CASE Open(want)
    BY <2>2, <2>4, <2>5 DEF verdict, Open
  <2>6. CASE want = "succeeded"
    <3>1. Promise!LearnDelivered
      BY <2>2, <2>4, <2>6 DEF Promise!LearnDelivered, verdict, Open, StateTrue, Delivered
    <3> QED  BY <3>1 DEF Promise!Next
  <2>7. CASE want = "failed_definite"
    <3>1. Promise!LearnFailed
      BY <2>2, <2>4, <2>7 DEF Promise!LearnFailed, verdict, Open, StateTrue
    <3> QED  BY <3>1 DEF Promise!Next
  <2> QED  BY <2>3, <2>5, <2>6, <2>7 DEF AttemptStates, Open
<1>3. CASE ~ SendMessage(c) /\ ~ WriteRow(c)
  <2>1. UNCHANGED <<attempt, message>>
    BY <1>3 DEF Execute, TokenMissing, SendSucceeds, SendRefused, SendAmbiguous, GetToken,
                ReconcileSent, ReadRow, StoreFails
  <2> QED  BY <2>1 DEF verdict
<1> QED  BY <1>1, <1>2, <1>3

LEMMA PromiseStep ==
  ASSUME PlanInv, [PlanNext]_allVars
  PROVE  [Promise!Next]_<<message, verdict>>
<1>1. CASE TtlPasses \/ FindExpired \/ Reject \/ UNCHANGED allVars
  BY <1>1 DEF TtlPasses, FindExpired, Reject, allVars, vars, verdict
<1>2. CASE GmailDecides
  <2>1. Promise!Decide
    BY <1>2 DEF GmailDecides, Promise!Decide, verdict
  <2> QED  BY <2>1 DEF Promise!Next
<1>3. ASSUME NEW c \in Callers, Approve(c)
      PROVE  [Promise!Next]_<<message, verdict>>
  <2>1. CASE ClaimStarted(c) /\ attempt = "none"
    <3>1. Promise!Claim
      BY <2>1 DEF ClaimStarted, Promise!Claim, verdict
    <3> QED  BY <3>1 DEF Promise!Next
  <2>2. CASE AccountMissing(c) \/ (ClaimStarted(c) /\ attempt # "none")
    BY <2>2 DEF AccountMissing, ClaimStarted, verdict
  <2> QED  BY <1>3, <2>1, <2>2 DEF Approve
<1>4. ASSUME NEW c \in Callers, Conclude(c) \/ Abort(c)
      PROVE  [Promise!Next]_<<message, verdict>>
  BY <1>4 DEF Conclude, Abort, Leave, verdict
<1> QED  BY <1>1, <1>2, <1>3, <1>4, PromiseUnderLock DEF PlanNext

\* Approving a plan with an e-mail keeps the promise of SendOnce: the message is handed
\* to Gmail once at most, the recorded verdict is the truth and stands, through any
\* number of clicks, dead requests and lost answers (ActionPlanService.approve around
\* send_email).
THEOREM ApprovedGmailSendsOnce == PlanSpec => SendsOnce
<1>1. PlanSpec => Promise!Init
  BY PromiseInit DEF PlanSpec
<1>2. PlanInv /\ [PlanNext]_allVars => [Promise!Next]_<<message, verdict>>
  BY PromiseStep
<1> QED  BY <1>1, <1>2, PlanInvAlways, PTL DEF PlanSpec, SendsOnce, Promise!Spec
=============================================================================
