----------------------- MODULE ActionsAndChatsProofs ------------------------
(***************************************************************************)
(* Proofs about MCActionsAndChats, for any number of calls and any bounds: *)
(* the approved actions keep the promise of SendOnce and say what is true  *)
(* of what became of them, copies in a mailbox are sound, a changed event  *)
(* is not written over, and what the readers of chats rely on is stored.   *)
(*                                                                         *)
(* The plan's lock leaves one call of an action under way at a time.  Each *)
(* part has its inductive invariant: types, what the row and the provider  *)
(* have in common, and what the call under way knows at the phase it is    *)
(* in.  The Gmail part is proved in ApprovedGmailProofs, the Mattermost    *)
(* and Teams parts in ChatReadersProofs.                                   *)
(***************************************************************************)
EXTENDS MCActionsAndChats, ApprovedGmailProofs, ChatReadersProofs
-----------------------------------------------------------------------------
(* A chat message, sent by calls of which one is under way at a time.      *)

\* What a final state of the row, or an answer, says of the message.
ChatTrue(state) ==
  /\ state = "succeeded" => chat_message = "delivered"
  /\ state = "failed_definite" => chat_message \in {"unsent", "refused"}
ChatSaid(answer) ==
  /\ answer \in {"sent", "already_sent"} => chat_message = "delivered"
  /\ answer = "failed" => chat_row = "failed_definite"

ChatOpen == chat_row \in {"started", "uncertain"}

\* What the call under way knows.  Only the one that inserted the row ever stands at
\* "claimed"; what it stores, and what it does next, fit together.
ChatHeld(held) ==
  /\ held.phase = "claimed" => chat_row = "started" /\ chat_message = "unsent"
  /\ held.phase = "sending" => chat_row = "started"
  /\ held.phase = "found" => chat_row # "none"
  /\ held.phase = "reconcile" => ChatOpen
  /\ held.phase = "materialize" => chat_row = "succeeded"
  /\ held.phase = "answered" => ChatSaid(held.answer)
  /\ held.phase = "store" =>
       /\ ChatOpen /\ ChatTrue(held.want)
       /\ \/ /\ held.want = "succeeded"
             /\ held.next \in {Chat!At("materialize"), Chat!Answered("already_sent")}
          \/ held.want = "failed_definite" /\ held.next = Chat!Answered("failed")
          \/ /\ held.want = "uncertain"
             /\ held.next \in {Chat!At("reconcile"), Chat!Answered("uncertain")}

ChatFacts ==
  /\ ChatTrue(chat_row)
  /\ chat_row = "none" => chat_message = "unsent"
  /\ chat_object => chat_message = "delivered"
  /\ \A answer \in chat_told : ChatSaid(answer)

ChatInv ==
  /\ Chat!TypeOK /\ Chat!OneAtATime /\ ChatFacts
  /\ \A c \in Callers : ChatHeld(chat_caller[c])

LEMMA ChatForms ==
  /\ Chat!Idle \in Chat!Calls /\ Chat!Idle.phase = "idle"
  /\ \A p \in {"claimed", "sending", "found", "reconcile", "materialize"} :
       /\ Chat!At(p) \in Chat!Calls /\ Chat!At(p).phase = p
       /\ Chat!At(p) \in Chat!Replies \union Chat!Plain
  /\ \A answer \in Chat!Answers :
       /\ Chat!Answered(answer) \in Chat!Calls
       /\ Chat!Answered(answer) \in Chat!Replies \union Chat!Plain
       /\ Chat!Answered(answer).phase = "answered"
       /\ Chat!Answered(answer).answer = answer
  /\ \A want \in Chat!AttemptStates, next \in Chat!Replies \union Chat!Plain :
       /\ Chat!Storing(want, next) \in Chat!Calls
       /\ Chat!Storing(want, next).phase = "store"
       /\ Chat!Storing(want, next).want = want /\ Chat!Storing(want, next).next = next
  /\ \A held \in Chat!Calls : held.phase = "answered" => held.answer \in Chat!Answers
BY DEF Chat!Calls, Chat!Plain, Chat!Replies, Chat!Idle, Chat!At, Chat!Answered,
       Chat!Storing

\* A call's step, with what is left to show of each action.
LEMMA ChatMoves ==
  ASSUME ChatInv, Chat!OneAtATime', NEW c \in Callers, NEW held \in Chat!Calls,
         Chat!Move(c, held), chat_caller[c] # Chat!Idle \/ held # Chat!Idle,
         chat_provider' = chat_provider,
         chat_row' \in Chat!AttemptStates, chat_sends' \in Nat,
         chat_message' \in Chat!Messages, chat_object' \in BOOLEAN,
         ChatTrue(chat_row)', chat_row' = "none" => chat_message' = "unsent",
         chat_object' => chat_message' = "delivered",
         chat_message = "delivered" => chat_message' = "delivered",
         chat_row = "failed_definite" => chat_row' = "failed_definite",
         ChatHeld(held)'
  PROVE  ChatInv'
<1>1. /\ chat_caller \in [Callers -> Chat!Calls] /\ chat_told \subseteq Chat!Answers
      /\ chat_caller' = [chat_caller EXCEPT ![c] = held]
  BY DEF ChatInv, Chat!TypeOK, Chat!Move
<1>2. /\ chat_caller' \in [Callers -> Chat!Calls] /\ chat_caller'[c] = held
      /\ \A d \in Callers \ {c} : chat_caller'[d] = chat_caller[d]
  BY <1>1
<1>3. \A d \in Callers \ {c} : chat_caller'[d] = Chat!Idle
  BY <1>2 DEF ChatInv, Chat!OneAtATime
<1>4. \A answer \in chat_told' : answer \in Chat!Answers /\ ChatSaid(answer)'
  <2>1. held.phase = "answered" => held.answer \in Chat!Answers /\ ChatSaid(held.answer)'
    BY ChatForms DEF ChatHeld
  <2>2. \A answer \in chat_told : ChatSaid(answer)'
    BY DEF ChatInv, ChatFacts, ChatSaid
  <2> QED  BY <1>1, <2>1, <2>2 DEF Chat!Move
<1>5. Chat!TypeOK'
  BY <1>2, <1>4 DEF ChatInv, Chat!TypeOK
<1>6. ASSUME NEW d \in Callers
      PROVE  ChatHeld(chat_caller[d])'
  <2>1. CASE d = c
    BY <1>2, <2>1
  <2>2. CASE d # c
    BY <1>3, <2>2, ChatForms DEF ChatHeld
  <2> QED  BY <2>1, <2>2
<1> QED  BY <1>4, <1>5, <1>6 DEF ChatInv, ChatFacts

\* A call that moves on and changes nothing else.
LEMMA ChatWaits ==
  ASSUME ChatInv, Chat!OneAtATime', NEW c \in Callers, NEW held \in Chat!Calls,
         Chat!Move(c, held), chat_caller[c] # Chat!Idle \/ held # Chat!Idle,
         UNCHANGED <<chat_provider, chat_row, Chat!outside>>, ChatHeld(held)
  PROVE  ChatInv'
<1>1. /\ chat_provider' = chat_provider /\ chat_row' = chat_row
      /\ chat_sends' = chat_sends /\ chat_message' = chat_message
      /\ chat_object' = chat_object
  BY DEF Chat!outside
<1>2. ChatHeld(held)' /\ ChatTrue(chat_row)'
  BY <1>1 DEF ChatHeld, ChatInv, ChatFacts, ChatTrue, ChatSaid, ChatOpen
<1> QED  BY <1>1, <1>2, ChatMoves DEF ChatInv, ChatFacts, Chat!TypeOK

LEMMA ChatCallKeeps ==
  ASSUME ChatInv, Chat!OneAtATime', NEW c \in Callers, Chat!CallStep(c)
  PROVE  ChatInv'
<1> DEFINE held == chat_caller[c]
<1>1. ChatHeld(held) /\ held \in Chat!Calls /\ ChatFacts /\ Chat!TypeOK
  BY DEF ChatInv, Chat!TypeOK
<1>2. \A p \in {"claimed", "sending", "found", "reconcile", "materialize", "store"} :
        held.phase = p => held # Chat!Idle
  BY ChatForms
<1> DEFINE quiet == UNCHANGED <<chat_provider, chat_row, Chat!outside>>
<1>3. ASSUME NEW next \in Chat!Calls, Chat!Move(c, next), quiet, ChatHeld(next),
             held # Chat!Idle \/ next # Chat!Idle
      PROVE  ChatInv'
  BY <1>3, ChatWaits
<1>4. CASE Chat!AccountMissing(c)
  <2>1. Chat!Move(c, Chat!Answered("error")) /\ quiet
    BY <1>4 DEF Chat!AccountMissing
  <2>2. "error" \in Chat!Answers
    BY DEF Chat!Answers
  <2>3. ChatHeld(Chat!Answered("error")) /\ Chat!Answered("error") # Chat!Idle
    BY <2>2, ChatForms DEF ChatHeld, ChatSaid
  <2> QED  BY <1>3, <2>1, <2>2, <2>3, ChatForms
<1>5. CASE Chat!ClaimStarted(c)
  <2>1. CASE chat_row = "none"
    <3>1. /\ Chat!Move(c, Chat!At("claimed")) /\ chat_row' = "started"
          /\ UNCHANGED <<chat_provider, chat_sends, chat_message, chat_object>>
      BY <1>5, <2>1 DEF Chat!ClaimStarted, Chat!outside
    <3>2. ChatHeld(Chat!At("claimed"))' /\ ChatTrue(chat_row)'
      BY <1>1, <2>1, <3>1, ChatForms DEF ChatHeld, ChatFacts, ChatTrue
    <3>3. Chat!At("claimed") # Chat!Idle /\ chat_row' \in Chat!AttemptStates
      BY <3>1, ChatForms DEF Chat!AttemptStates
    <3> QED  BY <1>1, <2>1, <3>1, <3>2, <3>3, ChatForms, ChatMoves DEF ChatFacts, Chat!TypeOK
  <2>2. CASE chat_row # "none"
    <3>1. Chat!Move(c, Chat!At("found")) /\ quiet
      BY <1>5, <2>2 DEF Chat!ClaimStarted
    <3>2. ChatHeld(Chat!At("found")) /\ Chat!At("found") # Chat!Idle
      BY <2>2, ChatForms DEF ChatHeld
    <3> QED  BY <1>3, <3>1, <3>2, ChatForms
  <2> QED  BY <2>1, <2>2
<1>6. CASE Chat!RouteMissing(c)
  <2> DEFINE next == Chat!Storing("failed_definite", Chat!Answered("failed"))
  <2>1. Chat!Move(c, next) /\ quiet /\ held.phase = "claimed"
    BY <1>6 DEF Chat!RouteMissing
  <2>2. "failed" \in Chat!Answers /\ "failed_definite" \in Chat!AttemptStates
    BY DEF Chat!Answers, Chat!AttemptStates
  <2>3. ChatHeld(next) /\ next \in Chat!Calls
    BY <1>1, <2>1, <2>2, ChatForms DEF ChatHeld, ChatTrue, ChatOpen
  <2> QED  BY <1>2, <1>3, <2>1, <2>3
<1>7. CASE Chat!SendMessage(c)
  <2>1. /\ Chat!Move(c, Chat!At("sending")) /\ held.phase = "claimed"
        /\ chat_sends' = chat_sends + 1 /\ chat_message' = "handed"
        /\ UNCHANGED <<chat_provider, chat_row, chat_object>>
    BY <1>7 DEF Chat!SendMessage
  <2>2. chat_row = "started" /\ chat_message = "unsent"
    BY <1>1, <2>1 DEF ChatHeld
  <2>3. ChatHeld(Chat!At("sending"))' /\ ChatTrue(chat_row)'
    BY <2>1, <2>2, ChatForms DEF ChatHeld, ChatTrue
  <2>4. chat_message' \in Chat!Messages /\ chat_sends' \in Nat
    BY <1>1, <2>1 DEF Chat!Messages, Chat!TypeOK
  <2> QED  BY <1>1, <1>2, <2>1, <2>2, <2>3, <2>4, ChatForms, ChatMoves
           DEF ChatFacts, Chat!TypeOK
<1>8. CASE Chat!SendSucceeds(c)
  <2> DEFINE next == Chat!Storing("succeeded", Chat!At("materialize"))
  <2>1. Chat!Move(c, next) /\ quiet /\ held.phase = "sending" /\ chat_message = "delivered"
    BY <1>8 DEF Chat!SendSucceeds
  <2>2. "succeeded" \in Chat!AttemptStates
    BY DEF Chat!AttemptStates
  <2>3. ChatHeld(next) /\ next \in Chat!Calls
    BY <1>1, <2>1, <2>2, ChatForms DEF ChatHeld, ChatTrue, ChatOpen
  <2> QED  BY <1>2, <1>3, <2>1, <2>3
<1>9. CASE Chat!SendRefused(c)
  <2> DEFINE next == Chat!Storing("failed_definite", Chat!Answered("failed"))
  <2>1. Chat!Move(c, next) /\ quiet /\ held.phase = "sending" /\ chat_message = "refused"
    BY <1>9 DEF Chat!SendRefused
  <2>2. "failed" \in Chat!Answers /\ "failed_definite" \in Chat!AttemptStates
    BY DEF Chat!Answers, Chat!AttemptStates
  <2>3. ChatHeld(next) /\ next \in Chat!Calls
    BY <1>1, <2>1, <2>2, ChatForms DEF ChatHeld, ChatTrue, ChatOpen
  <2> QED  BY <1>2, <1>3, <2>1, <2>3
<1>10. CASE Chat!SendUnclear(c)
  <2>1. PICK next \in {Chat!At("reconcile"), Chat!Answered("uncertain")} :
          Chat!Move(c, Chat!Storing("uncertain", next)) /\ quiet /\ held.phase = "sending"
    BY <1>10 DEF Chat!SendUnclear
  <2>2. "uncertain" \in Chat!Answers /\ "uncertain" \in Chat!AttemptStates
    BY DEF Chat!Answers, Chat!AttemptStates
  <2>3. next \in Chat!Replies \union Chat!Plain
    BY <2>1, <2>2, ChatForms
  <2>4. ChatHeld(Chat!Storing("uncertain", next))
    BY <1>1, <2>1, <2>2, <2>3, ChatForms DEF ChatHeld, ChatTrue, ChatOpen
  <2> QED  BY <1>2, <1>3, <2>1, <2>2, <2>3, <2>4, ChatForms
<1>11. CASE Chat!Reconcile(c)
  <2> DEFINE done == Chat!Storing("succeeded", Chat!Answered("already_sent"))
             open == Chat!Answered("uncertain")
  <2>1. /\ quiet /\ held.phase = "reconcile"
        /\ (chat_object /\ Chat!Move(c, done)) \/ Chat!Move(c, open)
    BY <1>11 DEF Chat!Reconcile
  <2>2. {"already_sent", "uncertain"} \subseteq Chat!Answers /\ "succeeded" \in Chat!AttemptStates
    BY DEF Chat!Answers, Chat!AttemptStates
  <2>3. open \in Chat!Calls /\ ChatHeld(open)
    BY <2>2, ChatForms DEF ChatHeld, ChatSaid
  <2>4. chat_object => done \in Chat!Calls /\ ChatHeld(done)
    BY <1>1, <2>1, <2>2, ChatForms DEF ChatHeld, ChatTrue, ChatFacts, ChatOpen
  <2> QED  BY <1>2, <1>3, <2>1, <2>3, <2>4
<1>12. CASE Chat!Resume(c)
  <2>1. Chat!Move(c, Chat!Resumed) /\ quiet /\ held.phase = "found"
    BY <1>12 DEF Chat!Resume
  <2>2. /\ {"already_sent", "uncertain", "failed"} \subseteq Chat!Answers
        /\ {"succeeded", "uncertain"} \subseteq Chat!AttemptStates
    BY DEF Chat!Answers, Chat!AttemptStates
  <2>3. ChatOpen \/ chat_row \in {"succeeded", "failed_definite"}
    BY <1>1, <2>1 DEF ChatHeld, ChatOpen, Chat!TypeOK, Chat!AttemptStates
  <2>4. CASE chat_row = "succeeded"
    <3>1. Chat!Resumed = Chat!Answered("already_sent")
      BY <2>4 DEF Chat!Resumed
    <3>2. ChatHeld(Chat!Answered("already_sent"))
      BY <1>1, <2>2, <2>4, ChatForms DEF ChatHeld, ChatSaid, ChatFacts, ChatTrue
    <3> QED  BY <1>2, <1>3, <2>1, <2>2, <3>1, <3>2, ChatForms
  <2>5. CASE chat_row = "failed_definite"
    <3>1. Chat!Resumed = Chat!Answered("failed")
      BY <2>5 DEF Chat!Resumed
    <3>2. ChatHeld(Chat!Answered("failed"))
      BY <2>2, <2>5, ChatForms DEF ChatHeld, ChatSaid
    <3> QED  BY <1>2, <1>3, <2>1, <2>2, <3>1, <3>2, ChatForms
  <2>6. CASE ChatOpen
    <3> DEFINE done == Chat!Storing("succeeded", Chat!Answered("already_sent"))
               open == Chat!Storing("uncertain", Chat!Answered("uncertain"))
               said == Chat!Answered("uncertain")
    <3>1. (chat_object /\ Chat!Resumed = done) \/ Chat!Resumed = open \/ Chat!Resumed = said
      BY <2>6 DEF Chat!Resumed, Chat!FromObject, ChatOpen
    <3>2. chat_object => done \in Chat!Calls /\ ChatHeld(done)
      BY <1>1, <2>2, <2>6, ChatForms DEF ChatHeld, ChatTrue, ChatFacts
    <3>3. open \in Chat!Calls /\ ChatHeld(open)
      BY <2>2, <2>6, ChatForms DEF ChatHeld, ChatTrue
    <3>4. said \in Chat!Calls /\ ChatHeld(said)
      BY <2>2, ChatForms DEF ChatHeld, ChatSaid
    <3> HIDE DEF done, open, said
    <3> QED  BY <1>2, <1>3, <2>1, <3>1, <3>2, <3>3, <3>4
  <2> QED  BY <2>3, <2>4, <2>5, <2>6
<1>13. CASE Chat!Materialize(c)
  <2>1. /\ Chat!Move(c, Chat!Answered("sent")) /\ held.phase = "materialize"
        /\ chat_object' = TRUE
        /\ UNCHANGED <<chat_provider, chat_row, chat_sends, chat_message>>
    BY <1>13 DEF Chat!Materialize
  <2>2. chat_row = "succeeded" /\ chat_message = "delivered" /\ "sent" \in Chat!Answers
    BY <1>1, <2>1 DEF ChatHeld, ChatFacts, ChatTrue, Chat!Answers
  <2>3. ChatHeld(Chat!Answered("sent"))' /\ ChatTrue(chat_row)'
    BY <2>1, <2>2, ChatForms DEF ChatHeld, ChatSaid, ChatTrue
  <2> QED  BY <1>1, <1>2, <2>1, <2>2, <2>3, ChatForms, ChatMoves DEF ChatFacts, Chat!TypeOK
<1>14. CASE Chat!Store(c)
  <2>1. PICK want, next : want = held.want /\ next = held.next
    OBVIOUS
  <2>2. /\ Chat!Move(c, next) /\ held.phase = "store"
        /\ chat_row' = Chat!Stored(chat_row, chat_row, want)
        /\ UNCHANGED <<chat_provider, chat_sends, chat_message, chat_object>>
    BY <1>14, <2>1 DEF Chat!Store, Chat!outside
  <2>3. /\ ChatOpen /\ ChatTrue(want)
        /\ \/ /\ want = "succeeded"
              /\ next \in {Chat!At("materialize"), Chat!Answered("already_sent")}
           \/ want = "failed_definite" /\ next = Chat!Answered("failed")
           \/ /\ want = "uncertain"
              /\ next \in {Chat!At("reconcile"), Chat!Answered("uncertain")}
    BY <1>1, <2>1, <2>2 DEF ChatHeld
  <2>4. chat_row' = want
    BY <2>2, <2>3 DEF Chat!Stored, Chat!Settled, Chat!Final, ChatOpen
  <2>5. {"already_sent", "uncertain", "failed"} \subseteq Chat!Answers
    BY DEF Chat!Answers
  <2>6. ChatHeld(next)' /\ next \in Chat!Calls
    BY <2>2, <2>3, <2>4, <2>5, ChatForms DEF ChatHeld, ChatSaid, ChatOpen, ChatTrue
  <2>7. ChatTrue(chat_row)' /\ chat_row' \in Chat!AttemptStates \ {"none"}
    BY <2>2, <2>3, <2>4 DEF ChatTrue, Chat!AttemptStates
  <2>8. chat_row # "failed_definite" /\ held # Chat!Idle
    BY <1>2, <2>2, <2>3 DEF ChatOpen
  <2> QED  BY <1>1, <2>2, <2>6, <2>7, <2>8, ChatMoves DEF ChatFacts, Chat!TypeOK
<1>15. CASE Chat!Breaks(c)
  <2>1. Chat!Move(c, Chat!Answered("error")) /\ quiet
    BY <1>15 DEF Chat!Breaks
  <2>2. "error" \in Chat!Answers
    BY DEF Chat!Answers
  <2>3. ChatHeld(Chat!Answered("error")) /\ Chat!Answered("error") # Chat!Idle
    BY <2>2, ChatForms DEF ChatHeld, ChatSaid
  <2> QED  BY <1>3, <2>1, <2>2, <2>3, ChatForms
<1>16. CASE Chat!Leave(c)
  <2>1. Chat!Move(c, Chat!Idle) /\ quiet /\ held # Chat!Idle
    BY <1>16 DEF Chat!Leave
  <2>2. ChatHeld(Chat!Idle)
    BY ChatForms DEF ChatHeld
  <2> QED  BY <1>3, <2>1, <2>2, ChatForms
<1> QED
  BY <1>4, <1>5, <1>6, <1>7, <1>8, <1>9, <1>10, <1>11, <1>12, <1>13, <1>14, <1>15, <1>16
  DEF Chat!CallStep

LEMMA ChatStep ==
  ASSUME ChatInv, Chat!SerialNext
  PROVE  ChatInv'
<1>1. CASE Chat!ProviderDecides
  BY <1>1 DEF Chat!ProviderDecides, ChatInv, ChatFacts, Chat!TypeOK, Chat!OneAtATime,
              Chat!Messages, ChatHeld, ChatTrue, ChatSaid, ChatOpen
<1>2. CASE Chat!Synchronised
  BY <1>2 DEF Chat!Synchronised, ChatInv, ChatFacts, Chat!TypeOK, Chat!OneAtATime,
              ChatHeld, ChatTrue, ChatSaid, ChatOpen
<1> QED  BY <1>1, <1>2, ChatCallKeeps DEF Chat!SerialNext, Chat!Next

LEMMA ChatStart ==
  ASSUME Chat!Init
  PROVE  ChatInv
<1>1. /\ chat_row = "none" /\ chat_message = "unsent" /\ chat_object = FALSE
      /\ chat_told = {} /\ chat_sends = 0 /\ chat_provider \in Chat!Providers
      /\ chat_caller = [c \in Callers |-> Chat!Idle]
  BY DEF Chat!Init
<1>2. Chat!TypeOK
  BY <1>1, ChatForms DEF Chat!TypeOK, Chat!AttemptStates, Chat!Messages
<1>3. Chat!OneAtATime /\ \A c \in Callers : ChatHeld(chat_caller[c])
  BY <1>1, ChatForms DEF Chat!OneAtATime, ChatHeld
<1> QED  BY <1>1, <1>2, <1>3 DEF ChatInv, ChatFacts, ChatTrue

\* The step seen from SendOnce.
LEMMA ChatPromise ==
  ASSUME ChatInv, Chat!SerialNext
  PROVE  [Chat!Promise!Next]_<<chat_message, Chat!verdict>>
<1>1. CASE Chat!ProviderDecides
  <2>1. Chat!Promise!Decide
    BY <1>1 DEF Chat!ProviderDecides, Chat!Promise!Decide, Chat!verdict
  <2> QED  BY <2>1 DEF Chat!Promise!Next
<1>2. CASE Chat!Synchronised
  BY <1>2 DEF Chat!Synchronised, Chat!verdict
<1>3. ASSUME NEW c \in Callers, Chat!CallStep(c)
      PROVE  [Chat!Promise!Next]_<<chat_message, Chat!verdict>>
  <2>1. ChatHeld(chat_caller[c])
    BY DEF ChatInv
  <2>2. CASE Chat!ClaimStarted(c) /\ chat_row = "none"
    <3>1. Chat!Promise!Claim
      BY <2>2 DEF Chat!ClaimStarted, Chat!Promise!Claim, Chat!verdict, Chat!outside
    <3> QED  BY <3>1 DEF Chat!Promise!Next
  <2>3. CASE Chat!SendMessage(c)
    <3>1. Chat!Promise!Hand
      BY <2>1, <2>3 DEF ChatHeld, Chat!SendMessage, Chat!Promise!Hand, Chat!verdict
    <3> QED  BY <3>1 DEF Chat!Promise!Next
  <2>4. CASE Chat!Store(c)
    <3>1. PICK want : want = chat_caller[c].want
      OBVIOUS
    <3>2. /\ ChatOpen /\ ChatTrue(want)
          /\ want \in {"succeeded", "failed_definite", "uncertain"}
      BY <2>1, <2>4, <3>1 DEF ChatHeld, Chat!Store
    <3>3. chat_row' = want /\ chat_message' = chat_message
      BY <2>4, <3>1, <3>2 DEF Chat!Store, Chat!outside, Chat!Stored, Chat!Settled,
                              Chat!Final, ChatOpen
    <3>4. CASE want = "succeeded"
      <4>1. Chat!Promise!LearnDelivered
        BY <3>2, <3>3, <3>4 DEF ChatTrue, ChatOpen, Chat!Promise!LearnDelivered, Chat!verdict
      <4> QED  BY <4>1 DEF Chat!Promise!Next
    <3>5. CASE want = "failed_definite"
      <4>1. Chat!Promise!LearnFailed
        BY <3>2, <3>3, <3>5 DEF ChatTrue, ChatOpen, Chat!Promise!LearnFailed, Chat!verdict
      <4> QED  BY <4>1 DEF Chat!Promise!Next
    <3>6. CASE want = "uncertain"
      BY <3>2, <3>3, <3>6 DEF ChatOpen, Chat!verdict
    <3> QED  BY <3>2, <3>4, <3>5, <3>6
  <2>5. CASE ~ (Chat!ClaimStarted(c) /\ chat_row = "none") /\ ~ Chat!SendMessage(c)
             /\ ~ Chat!Store(c)
    <3>1. UNCHANGED <<chat_row, chat_message>>
      BY <1>3, <2>5 DEF Chat!CallStep, Chat!AccountMissing, Chat!ClaimStarted,
           Chat!RouteMissing, Chat!SendSucceeds, Chat!SendRefused, Chat!SendUnclear,
           Chat!Reconcile, Chat!Resume, Chat!Materialize, Chat!Breaks, Chat!Leave,
           Chat!outside
    <3> QED  BY <3>1 DEF Chat!verdict
  <2> QED  BY <2>2, <2>3, <2>4, <2>5
<1> QED  BY <1>1, <1>2, <1>3 DEF Chat!SerialNext, Chat!Next

-----------------------------------------------------------------------------
(* A calendar event, created by calls of which one is under way at a time. *)

\* A PUT that has ended without the event as it was asked for, and will not have it.
EventFailed == event_wire \in {"refused", "landed"} /\ event # "ours"

EventTrue(state) ==
  /\ state = "succeeded" => event_wire = "landed"
  /\ state = "failed_definite" => EventFailed
EventSaid(answer) ==
  /\ answer \in {"created", "exists", "missing", "mismatch"} => event # "absent"
  /\ answer = "missing" =>
       event_provider = "yandex" /\ event_row = "succeeded" /\ event = "deleted"
  /\ answer = "refused" /\ event_provider = "yandex" => event_row = "failed_definite"

EventOpen == event_row \in {"started", "uncertain"}

\* What the call under way knows: with Google its answer at most, with Yandex what it
\* stores.  The one PUT belongs to the call that inserted the row.
EventHeld(held) ==
  /\ event_provider = "google" =>
       held.phase \in {"idle", "create", "waiting", "confirm", "answered"}
  /\ held.phase = "confirm" => event_provider = "google"
  /\ held.phase \in {"claimed", "create"} /\ event_provider = "yandex" =>
       event_row = "started" /\ event_wire = "none"
  /\ held.phase = "waiting" /\ event_provider = "yandex" => event_row = "started"
  /\ held.phase = "found" => event_row # "none"
  /\ held.phase = "recheck" => EventOpen
  /\ held.phase = "answered" => EventSaid(held.answer)
  /\ held.phase = "store" =>
       /\ EventOpen /\ EventTrue(held.want)
       /\ \/ /\ held.want = "succeeded"
             /\ held.next \in {Calendar!Answered("created"), Calendar!Answered("exists")}
          \/ held.want = "failed_definite" /\ held.next = Calendar!Answered("refused")
          \/ /\ held.want = "failed_definite" /\ event # "absent"
             /\ held.next = Calendar!Answered("mismatch")
          \/ /\ held.want = "uncertain"
             /\ held.next \in {Calendar!At("recheck"), Calendar!Answered("unconfirmed")}

\* With Google nothing is recorded; with Yandex the one request that is ever made
\* is on its way, or has ended, and nothing else creates the event.
EventFacts ==
  /\ event = "absent" <=> event_created = 0
  /\ event_wire = "landed" => event # "absent"
  /\ event_provider = "google" => event_row = "none"
  /\ event_provider = "yandex" =>
       /\ ~ event_stray /\ event_wire # "conflict"
       /\ event # "absent" => event_wire = "landed"
       /\ EventTrue(event_row)
       /\ event_row = "none" => event_wire = "none"
  /\ \A answer \in event_told : EventSaid(answer)

EventInv ==
  /\ Calendar!TypeOK /\ Calendar!OneAtATime /\ EventFacts
  /\ \A c \in Callers : EventHeld(event_caller[c])

LEMMA EventForms ==
  /\ Calendar!Idle \in Calendar!Calls /\ Calendar!Idle.phase = "idle"
  /\ \A p \in Calendar!Phases :
       /\ Calendar!At(p) \in Calendar!Calls /\ Calendar!At(p).phase = p
  /\ Calendar!At("recheck") \in Calendar!Replies \union {Calendar!At("recheck")}
  /\ \A answer \in Calendar!Answers :
       /\ Calendar!Answered(answer) \in Calendar!Calls
       /\ Calendar!Answered(answer) \in Calendar!Replies \union {Calendar!At("recheck")}
       /\ Calendar!Answered(answer).phase = "answered"
       /\ Calendar!Answered(answer).answer = answer
  /\ \A want \in Calendar!AttemptStates,
        next \in Calendar!Replies \union {Calendar!At("recheck")} :
       /\ Calendar!Storing(want, next) \in Calendar!Calls
       /\ Calendar!Storing(want, next).phase = "store"
       /\ Calendar!Storing(want, next).want = want
       /\ Calendar!Storing(want, next).next = next
  /\ \A held \in Calendar!Calls :
       held.phase = "answered" => held.answer \in Calendar!Answers
BY DEF Calendar!Calls, Calendar!Phases, Calendar!Replies, Calendar!Idle, Calendar!At,
       Calendar!Answered, Calendar!Storing

LEMMA EventNames ==
  /\ Calendar!Answers = {"created", "exists", "refused", "mismatch", "missing", "failed",
                         "unconfirmed", "error"}
  /\ Calendar!Phases = {"create", "waiting", "confirm", "claimed", "found", "recheck"}
  /\ Calendar!AttemptStates =
       {"none", "started", "succeeded", "failed_definite", "uncertain"}
BY DEF Calendar!Answers, Calendar!Phases, Calendar!AttemptStates

\* A call's step, with what is left to show of each action.
LEMMA EventMoves ==
  ASSUME EventInv, Calendar!OneAtATime', NEW c \in Callers, NEW held \in Calendar!Calls,
         Calendar!Move(c, held), event_caller[c] # Calendar!Idle \/ held # Calendar!Idle,
         event_provider' = event_provider, event' = event, event_created' = event_created,
         event_row' \in Calendar!AttemptStates, event_wire' \in Calendar!Requests,
         event_stray' \in BOOLEAN,
         event_wire' = "landed" => event # "absent",
         event_provider = "google" => event_row' = "none",
         event_provider = "yandex" =>
           /\ ~ event_stray' /\ event_wire' # "conflict"
           /\ event # "absent" => event_wire' = "landed"
           /\ EventTrue(event_row)'
           /\ event_row' = "none" => event_wire' = "none",
         event_row \in {"succeeded", "failed_definite"} => event_row' = event_row,
         EventHeld(held)'
  PROVE  EventInv'
<1>1. /\ event_caller \in [Callers -> Calendar!Calls] /\ event_told \subseteq Calendar!Answers
      /\ event_caller' = [event_caller EXCEPT ![c] = held]
  BY DEF EventInv, Calendar!TypeOK, Calendar!Move
<1>2. /\ event_caller' \in [Callers -> Calendar!Calls] /\ event_caller'[c] = held
      /\ \A d \in Callers \ {c} : event_caller'[d] = event_caller[d]
  BY <1>1
<1>3. \A d \in Callers \ {c} : event_caller'[d] = Calendar!Idle
  BY <1>2 DEF EventInv, Calendar!OneAtATime
<1>4. \A answer \in event_told' : answer \in Calendar!Answers /\ EventSaid(answer)'
  <2>1. held.phase = "answered" =>
          held.answer \in Calendar!Answers /\ EventSaid(held.answer)'
    BY EventForms DEF EventHeld
  <2>2. \A answer \in event_told : EventSaid(answer)'
    BY DEF EventInv, EventFacts, EventSaid
  <2> QED  BY <1>1, <2>1, <2>2 DEF Calendar!Move
<1>5. Calendar!TypeOK'
  BY <1>2, <1>4 DEF EventInv, Calendar!TypeOK
<1>6. ASSUME NEW d \in Callers
      PROVE  EventHeld(event_caller[d])'
  <2>1. CASE d = c
    BY <1>2, <2>1
  <2>2. CASE d # c
    BY <1>3, <2>2, EventForms DEF EventHeld
  <2> QED  BY <2>1, <2>2
<1> QED  BY <1>4, <1>5, <1>6 DEF EventInv, EventFacts

\* A call that moves on and changes nothing else.
LEMMA EventWaits ==
  ASSUME EventInv, Calendar!OneAtATime', NEW c \in Callers, NEW held \in Calendar!Calls,
         Calendar!Move(c, held), event_caller[c] # Calendar!Idle \/ held # Calendar!Idle,
         UNCHANGED <<event_provider, event_row, Calendar!calendar>>, EventHeld(held)
  PROVE  EventInv'
<1>1. /\ event_provider' = event_provider /\ event_row' = event_row
      /\ event_wire' = event_wire /\ event_stray' = event_stray
      /\ event' = event /\ event_created' = event_created
  BY DEF Calendar!calendar
<1>2. EventHeld(held)' /\ (EventTrue(event_row) => EventTrue(event_row)')
  BY <1>1 DEF EventHeld, EventTrue, EventSaid, EventOpen, EventFailed
<1> QED  BY <1>1, <1>2, EventMoves DEF EventInv, EventFacts, Calendar!TypeOK

\* What a look at the address proves of an attempt that is open.
LEMMA EventDecided ==
  ASSUME EventInv, NEW shown \in Calendar!Shown, NEW answer \in {"created", "exists"},
         event_provider = "yandex", EventOpen
  PROVE  /\ Calendar!Decided(shown, answer) \in Calendar!Calls
         /\ EventHeld(Calendar!Decided(shown, answer))
         /\ Calendar!Decided(shown, answer).phase = "store"
<1> USE EventNames
<1>1. event # "absent" => event_wire = "landed"
  BY DEF EventInv, EventFacts
<1>2. CASE shown = "match"
  <2>1. event = "ours"
    BY <1>2 DEF Calendar!Shown
  <2>2. Calendar!Decided(shown, answer) = Calendar!Storing("succeeded", Calendar!Answered(answer))
    BY <1>2 DEF Calendar!Decided
  <2> QED  BY <1>1, <2>1, <2>2, EventForms DEF EventHeld, EventTrue
<1>3. CASE shown = "mismatch"
  <2>1. event = "edited"
    BY <1>3 DEF Calendar!Shown
  <2>2. Calendar!Decided(shown, answer) =
          Calendar!Storing("failed_definite", Calendar!Answered("mismatch"))
    BY <1>3 DEF Calendar!Decided
  <2> QED  BY <1>1, <2>1, <2>2, EventForms DEF EventHeld, EventTrue, EventFailed
<1>4. CASE shown \notin {"match", "mismatch"}
  <2>1. Calendar!Decided(shown, answer) =
          Calendar!Storing("uncertain", Calendar!Answered("unconfirmed"))
    BY <1>4 DEF Calendar!Decided
  <2> QED  BY <2>1, EventForms DEF EventHeld, EventTrue
<1> QED  BY <1>2, <1>3, <1>4

\* The steps of a call that only look, or end it.
LEMMA EventLooks ==
  ASSUME EventInv, Calendar!OneAtATime', NEW c \in Callers,
         \/ Calendar!AccountMissing(c) \/ Calendar!Begin(c) \/ Calendar!InsertSucceeds(c)
         \/ Calendar!InsertUnclear(c) \/ Calendar!InsertRefused(c) \/ Calendar!Confirm(c)
         \/ Calendar!InspectFirst(c) \/ Calendar!Resume(c) \/ Calendar!PutSucceeds(c)
         \/ Calendar!PutRefused(c) \/ Calendar!PutAmbiguous(c) \/ Calendar!Recheck(c)
         \/ Calendar!StoreFails(c) \/ Calendar!Leave(c)
  PROVE  EventInv'
<1> DEFINE held == event_caller[c]
           quiet == UNCHANGED <<event_provider, event_row, Calendar!calendar>>
<1>1. EventHeld(held) /\ held \in Calendar!Calls /\ EventFacts /\ Calendar!TypeOK
  BY DEF EventInv, Calendar!TypeOK
<1>2. held.phase \in Calendar!Phases \union {"store"} => held # Calendar!Idle
  BY EventForms, EventNames
<1>3. \A p \in Calendar!Phases :
        /\ Calendar!At(p) \in Calendar!Calls /\ Calendar!At(p).phase = p
        /\ Calendar!At(p) # Calendar!Idle
  BY EventForms, EventNames
<1>4. \A answer \in Calendar!Answers :
        /\ Calendar!Answered(answer) \in Calendar!Calls
        /\ Calendar!Answered(answer) # Calendar!Idle
        /\ EventSaid(answer) => EventHeld(Calendar!Answered(answer))
  BY EventForms DEF EventHeld
<1>5. event_provider \in {"google", "yandex"}
  BY <1>1 DEF Calendar!TypeOK
<1>6. \E next \in Calendar!Calls :
        /\ Calendar!Move(c, next) /\ EventHeld(next) /\ quiet
        /\ held # Calendar!Idle \/ next # Calendar!Idle
  <2> USE EventNames
  <2>1. CASE Calendar!AccountMissing(c) \/ Calendar!StoreFails(c)
    <3>1. Calendar!Move(c, Calendar!Answered("error")) /\ quiet
      BY <2>1 DEF Calendar!AccountMissing, Calendar!StoreFails
    <3>2. EventSaid("error")
      BY DEF EventSaid
    <3> QED  BY <1>4, <3>1, <3>2
  <2>2. CASE Calendar!Begin(c)
    <3>1. Calendar!Move(c, Calendar!At("create")) /\ quiet /\ event_provider = "google"
      BY <2>2 DEF Calendar!Begin
    <3>2. EventHeld(Calendar!At("create"))
      BY <1>3, <3>1 DEF EventHeld
    <3> QED  BY <1>3, <3>1, <3>2
  <2>3. CASE Calendar!InsertSucceeds(c)
    <3>1. Calendar!Move(c, Calendar!Answered("created")) /\ quiet /\ event_wire = "landed"
      BY <2>3 DEF Calendar!InsertSucceeds
    <3>2. EventSaid("created")
      BY <1>1, <3>1 DEF EventSaid, EventFacts
    <3> QED  BY <1>4, <3>1, <3>2
  <2>4. CASE Calendar!InsertUnclear(c)
    <3>1. Calendar!Move(c, Calendar!At("confirm")) /\ quiet /\ event_provider = "google"
      BY <2>4 DEF Calendar!InsertUnclear
    <3>2. EventHeld(Calendar!At("confirm"))
      BY <1>3, <3>1 DEF EventHeld
    <3> QED  BY <1>3, <3>1, <3>2
  <2>5. CASE Calendar!InsertRefused(c)
    <3>1. Calendar!Move(c, Calendar!Answered("refused")) /\ quiet /\ event_provider = "google"
      BY <2>5 DEF Calendar!InsertRefused
    <3>2. EventSaid("refused")
      BY <3>1 DEF EventSaid
    <3> QED  BY <1>4, <3>1, <3>2
  <2>6. CASE Calendar!Confirm(c)
    <3>1. PICK shown \in Calendar!Shown :
            Calendar!Move(c, Calendar!Answered(Calendar!Confirmed(shown))) /\ quiet
      BY <2>6 DEF Calendar!Confirm
    <3>2. \/ Calendar!Confirmed(shown) \in {"exists", "mismatch"} /\ event \in {"ours", "edited"}
          \/ Calendar!Confirmed(shown) \in {"failed", "unconfirmed"}
      BY <3>1 DEF Calendar!Confirmed, Calendar!Shown
    <3>3. EventSaid(Calendar!Confirmed(shown)) /\ Calendar!Confirmed(shown) \in Calendar!Answers
      BY <3>2 DEF EventSaid
    <3> QED  BY <1>4, <3>1, <3>3
  <2>7. CASE Calendar!InspectFirst(c)
    <3>1. PICK shown \in Calendar!Shown :
            /\ Calendar!Move(c, IF shown = "absent" THEN Calendar!At("create")
                                ELSE Calendar!Decided(shown, "exists"))
            /\ quiet /\ held.phase = "claimed"
      BY <2>7 DEF Calendar!InspectFirst
    <3>2. event_provider = "yandex" /\ event_row = "started" /\ event_wire = "none"
      BY <1>1, <1>5, <3>1 DEF EventHeld
    <3>3. EventHeld(Calendar!At("create"))
      BY <1>3, <3>2 DEF EventHeld
    <3>4. CASE shown = "absent"
      BY <1>2, <1>3, <3>1, <3>3, <3>4
    <3>5. CASE shown # "absent"
      <4>1. shown = "unverifiable"
        BY <1>1, <3>2, <3>5 DEF Calendar!Shown, EventFacts
      <4>2. Calendar!Decided(shown, "exists") =
              Calendar!Storing("uncertain", Calendar!Answered("unconfirmed"))
        BY <4>1 DEF Calendar!Decided
      <4>3. /\ Calendar!Decided(shown, "exists") \in Calendar!Calls
            /\ EventHeld(Calendar!Decided(shown, "exists"))
        BY <3>2, <4>2, EventForms DEF EventHeld, EventTrue, EventOpen
      <4> QED  BY <1>2, <3>1, <3>5, <4>3
    <3> QED  BY <3>4, <3>5
  <2>8. CASE Calendar!Resume(c)
    <3>1. PICK shown \in Calendar!Shown :
            Calendar!Move(c, Calendar!Resumed(event_row, shown)) /\ quiet /\ held.phase = "found"
      BY <2>8 DEF Calendar!Resume
    <3>2. event_provider = "yandex" /\ event_row # "none"
      BY <1>1, <1>5, <3>1 DEF EventHeld
    <3>3. CASE event_row = "failed_definite"
      <4>1. Calendar!Resumed(event_row, shown) = Calendar!Answered("refused")
        BY <3>3 DEF Calendar!Resumed
      <4>2. EventSaid("refused")
        BY <3>3 DEF EventSaid
      <4> QED  BY <1>2, <1>4, <3>1, <4>1, <4>2
    <3>4. CASE event_row = "succeeded"
      <4>1. event # "absent"
        BY <1>1, <3>2, <3>4 DEF EventFacts, EventTrue
      <4>2. PICK answer \in {"exists", "missing", "mismatch", "unconfirmed"} :
              /\ Calendar!Resumed(event_row, shown) = Calendar!Answered(answer)
              /\ answer = "missing" => shown = "absent"
        BY <3>4 DEF Calendar!Resumed
      <4>3. shown = "absent" => event = "deleted"
        BY <1>1, <4>1 DEF Calendar!Shown, Calendar!TypeOK, Calendar!Events
      <4>4. EventSaid(answer)
        BY <3>2, <3>4, <4>1, <4>2, <4>3 DEF EventSaid
      <4> QED  BY <1>2, <1>4, <3>1, <4>2, <4>4
    <3>5. CASE EventOpen
      <4>1. Calendar!Resumed(event_row, shown) = Calendar!Decided(shown, "exists")
        BY <3>5 DEF Calendar!Resumed, EventOpen
      <4>2. /\ Calendar!Decided(shown, "exists") \in Calendar!Calls
            /\ EventHeld(Calendar!Decided(shown, "exists"))
        BY <3>2, <3>5, EventDecided
      <4> QED  BY <1>2, <3>1, <4>1, <4>2
    <3>6. event_row \in Calendar!AttemptStates
      BY <1>1 DEF Calendar!TypeOK
    <3> QED  BY <3>2, <3>3, <3>4, <3>5, <3>6 DEF EventOpen
  <2>9. CASE Calendar!PutSucceeds(c)
    <3> DEFINE next == Calendar!Storing("succeeded", Calendar!Answered("created"))
    <3>1. /\ Calendar!Move(c, next) /\ quiet /\ held.phase = "waiting"
          /\ event_provider = "yandex" /\ event_wire = "landed"
      BY <2>9 DEF Calendar!PutSucceeds
    <3>2. EventHeld(next) /\ next \in Calendar!Calls
      BY <1>1, <3>1, EventForms DEF EventHeld, EventTrue, EventOpen
    <3> QED  BY <1>2, <3>1, <3>2
  <2>10. CASE Calendar!PutRefused(c)
    <3> DEFINE next == Calendar!Storing("failed_definite", Calendar!Answered("refused"))
    <3>1. /\ Calendar!Move(c, next) /\ quiet /\ held.phase = "waiting"
          /\ event_provider = "yandex" /\ event_wire = "refused"
      BY <2>10 DEF Calendar!PutRefused
    <3>2. event = "absent"
      BY <1>1, <3>1 DEF EventFacts
    <3>3. EventHeld(next) /\ next \in Calendar!Calls
      BY <1>1, <3>1, <3>2, EventForms DEF EventHeld, EventTrue, EventOpen, EventFailed
    <3> QED  BY <1>2, <3>1, <3>3
  <2>11. CASE Calendar!PutAmbiguous(c)
    <3> DEFINE next == Calendar!Storing("uncertain", Calendar!At("recheck"))
    <3>1. Calendar!Move(c, next) /\ quiet /\ held.phase = "waiting" /\ event_provider = "yandex"
      BY <2>11 DEF Calendar!PutAmbiguous
    <3>2. EventHeld(next) /\ next \in Calendar!Calls
      BY <1>1, <3>1, EventForms DEF EventHeld, EventTrue, EventOpen
    <3> QED  BY <1>2, <3>1, <3>2
  <2>12. CASE Calendar!Recheck(c)
    <3>1. PICK shown \in Calendar!Shown :
            /\ Calendar!Move(c, IF shown \in {"match", "mismatch"}
                                THEN Calendar!Decided(shown, "created")
                                ELSE Calendar!Answered("unconfirmed"))
            /\ quiet /\ held.phase = "recheck"
      BY <2>12 DEF Calendar!Recheck
    <3>2. event_provider = "yandex" /\ EventOpen
      BY <1>1, <1>5, <3>1 DEF EventHeld
    <3>3. /\ Calendar!Decided(shown, "created") \in Calendar!Calls
          /\ EventHeld(Calendar!Decided(shown, "created"))
      BY <3>2, EventDecided
    <3>4. EventSaid("unconfirmed")
      BY DEF EventSaid
    <3> QED  BY <1>2, <1>4, <3>1, <3>3, <3>4
  <2>13. CASE Calendar!Leave(c)
    <3>1. Calendar!Move(c, Calendar!Idle) /\ quiet /\ held # Calendar!Idle
      BY <2>13 DEF Calendar!Leave
    <3>2. EventHeld(Calendar!Idle)
      BY EventForms DEF EventHeld
    <3> QED  BY <3>1, <3>2, EventForms
  <2> QED  BY <2>1, <2>2, <2>3, <2>4, <2>5, <2>6, <2>7, <2>8, <2>9, <2>10, <2>11, <2>12,
              <2>13
<1> QED  BY <1>6, EventWaits

LEMMA EventCallKeeps ==
  ASSUME EventInv, Calendar!OneAtATime', NEW c \in Callers, Calendar!CallStep(c)
  PROVE  EventInv'
<1> DEFINE held == event_caller[c]
<1>1. EventHeld(held) /\ held \in Calendar!Calls /\ EventFacts /\ Calendar!TypeOK
  BY DEF EventInv, Calendar!TypeOK
<1>2. CASE Calendar!ClaimStarted(c)
  <2>1. CASE event_row = "none"
    <3>1. /\ Calendar!Move(c, Calendar!At("claimed")) /\ event_row' = "started"
          /\ event_provider = "yandex"
          /\ UNCHANGED <<event_provider, event_wire, event_stray, event, event_created>>
      BY <1>2, <2>1 DEF Calendar!ClaimStarted, Calendar!calendar
    <3>2. Calendar!At("claimed") \in Calendar!Calls /\ Calendar!At("claimed") # Calendar!Idle
      BY EventForms, EventNames
    <3>3. EventHeld(Calendar!At("claimed"))' /\ EventTrue(event_row)'
      BY <1>1, <2>1, <3>1, EventForms, EventNames DEF EventHeld, EventFacts, EventTrue
    <3> QED  BY <1>1, <2>1, <3>1, <3>2, <3>3, EventNames, EventMoves
             DEF EventFacts, Calendar!TypeOK
  <2>2. CASE event_row # "none"
    <3>1. /\ Calendar!Move(c, Calendar!At("found")) /\ event_provider = "yandex"
          /\ UNCHANGED <<event_provider, event_row, Calendar!calendar>>
      BY <1>2, <2>2 DEF Calendar!ClaimStarted
    <3>2. /\ Calendar!At("found") \in Calendar!Calls /\ Calendar!At("found") # Calendar!Idle
          /\ EventHeld(Calendar!At("found"))
      BY <2>2, <3>1, EventForms, EventNames DEF EventHeld
    <3> QED  BY <3>1, <3>2, EventWaits
  <2> QED  BY <2>1, <2>2
<1>3. CASE Calendar!SendCreate(c)
  <2>1. /\ Calendar!Move(c, Calendar!At("waiting")) /\ held.phase = "create"
        /\ event_wire' = "flying" /\ event_stray' = (event_stray \/ event_wire = "flying")
        /\ UNCHANGED <<event_provider, event_row, event, event_created>>
    BY <1>3 DEF Calendar!SendCreate
  <2>2. event_provider = "yandex" =>
          event_row = "started" /\ event_wire = "none" /\ event = "absent" /\ ~ event_stray
    BY <1>1, <2>1 DEF EventHeld, EventFacts
  <2>3. /\ Calendar!At("waiting") \in Calendar!Calls /\ held # Calendar!Idle
        /\ Calendar!At("waiting").phase = "waiting"
    BY <2>1, EventForms, EventNames
  <2>4. event_provider = "yandex" => ~ event_stray' /\ EventTrue(event_row)'
    BY <2>1, <2>2 DEF EventTrue
  <2>5. EventHeld(Calendar!At("waiting"))'
    BY <2>1, <2>2, <2>3 DEF EventHeld
  <2>6. event_stray' \in BOOLEAN /\ event_wire' \in Calendar!Requests
    BY <2>1 DEF Calendar!Requests
  <2>7. event_provider = "google" => event_row = "none"
    BY <1>1 DEF EventFacts
  <2> QED  BY <1>1, <2>1, <2>2, <2>3, <2>4, <2>5, <2>6, <2>7, EventMoves DEF Calendar!TypeOK
<1>4. CASE Calendar!Store(c)
  <2>1. PICK want, next : want = held.want /\ next = held.next
    OBVIOUS
  <2>2. /\ Calendar!Move(c, next) /\ held.phase = "store"
        /\ event_row' = Calendar!Stored(event_row, event_row, want)
        /\ UNCHANGED <<event_provider, event_wire, event_stray, event, event_created>>
    BY <1>4, <2>1 DEF Calendar!Store, Calendar!calendar
  <2>3. /\ EventOpen /\ EventTrue(want)
        /\ \/ /\ want = "succeeded"
              /\ next \in {Calendar!Answered("created"), Calendar!Answered("exists")}
           \/ want = "failed_definite" /\ next = Calendar!Answered("refused")
           \/ /\ want = "failed_definite" /\ event # "absent"
              /\ next = Calendar!Answered("mismatch")
           \/ /\ want = "uncertain"
              /\ next \in {Calendar!At("recheck"), Calendar!Answered("unconfirmed")}
    BY <1>1, <2>1, <2>2 DEF EventHeld
  <2>4. event_provider = "yandex"
    BY <1>1, <2>2 DEF EventHeld, Calendar!TypeOK
  <2>5. event_row' = want
    BY <2>2, <2>3 DEF Calendar!Stored, Calendar!Settled, Calendar!Final, EventOpen
  <2>6. want = "succeeded" => event # "absent"
    BY <1>1, <2>3 DEF EventTrue, EventFacts
  <2>7. next \in Calendar!Calls
    BY <2>3, EventForms, EventNames
  <2>8. EventHeld(next)'
    BY <2>2, <2>3, <2>4, <2>5, <2>6, EventForms, EventNames
    DEF EventHeld, EventSaid, EventOpen
  <2>9. EventTrue(event_row)' /\ event_row' \in Calendar!AttemptStates \ {"none"}
    BY <2>2, <2>3, <2>5, EventNames DEF EventTrue, EventFailed
  <2>10. event_row \notin {"succeeded", "failed_definite"} /\ held # Calendar!Idle
    BY <2>2, <2>3, EventForms DEF EventOpen
  <2> QED  BY <1>1, <2>2, <2>4, <2>7, <2>8, <2>9, <2>10, EventMoves
           DEF EventFacts, Calendar!TypeOK
<1> QED  BY <1>2, <1>3, <1>4, EventLooks DEF Calendar!CallStep

\* The calendar, its user, and requests nobody waits for.
LEMMA EventOutside ==
  ASSUME EventInv,
         \/ Calendar!ProviderTakes \/ Calendar!ProviderRefuses \/ Calendar!StrayTaken
         \/ Calendar!UserEdits \/ Calendar!UserDeletes
  PROVE  EventInv'
<1> DEFINE stands ==
             /\ UNCHANGED <<event_provider, event_row, event_caller, event_told>>
             /\ event_wire' \in Calendar!Requests
             /\ event' \in Calendar!Events /\ event_created' \in Nat
             /\ event # "absent" => event' # "absent"
             /\ event_wire = "landed" => event_wire' = "landed"
             /\ event_wire = "none" => event_wire' = "none"
             /\ event' = "absent" <=> event_created' = 0
             /\ event_wire' = "landed" => event' # "absent"
<1>0. /\ event_wire \in Calendar!Requests /\ event_stray \in BOOLEAN
      /\ event \in Calendar!Events /\ event_created \in Nat
      /\ event = "absent" <=> event_created = 0
      /\ event_wire = "landed" => event # "absent"
  BY DEF EventInv, EventFacts, Calendar!TypeOK
<1>1. stands /\ event_stray' \in BOOLEAN
  <2>1. CASE Calendar!ProviderTakes
    BY <1>0, <2>1 DEF Calendar!ProviderTakes, Calendar!Lands, Calendar!Requests,
                      Calendar!Events
  <2>2. CASE Calendar!ProviderRefuses
    BY <1>0, <2>2 DEF Calendar!ProviderRefuses, Calendar!Requests
  <2>3. CASE Calendar!StrayTaken
    <3>1. stands
      BY <1>0, <2>3 DEF Calendar!StrayTaken, Calendar!Events
    <3>2. event_stray' = FALSE
      BY <2>3 DEF Calendar!StrayTaken
    <3> QED  BY <3>1, <3>2
  <2>4. CASE Calendar!UserEdits \/ Calendar!UserDeletes
    BY <1>0, <2>4 DEF Calendar!UserEdits, Calendar!UserDeletes, Calendar!Events
  <2> QED  BY <2>1, <2>2, <2>3, <2>4
<1>2. event_provider = "yandex" =>
        /\ ~ event_stray' /\ event_wire' # "conflict"
        /\ event' # "absent" => event_wire' = "landed"
        /\ event = "deleted" => event' = "deleted"
        /\ EventFailed => EventFailed'
  BY DEF Calendar!ProviderTakes, Calendar!ProviderRefuses, Calendar!StrayTaken,
         Calendar!UserEdits, Calendar!UserDeletes, Calendar!Lands, EventInv, EventFacts,
         EventFailed
<1>3. \A answer : EventSaid(answer) => EventSaid(answer)'
  BY <1>1, <1>2 DEF EventSaid
<1>4. event_provider = "yandex" => \A state : EventTrue(state) => EventTrue(state)'
  BY <1>1, <1>2 DEF EventTrue
<1>5. event_row \in Calendar!AttemptStates /\ event_provider \in {"google", "yandex"}
  BY DEF EventInv, Calendar!TypeOK
<1>6. ASSUME NEW held, EventHeld(held)
      PROVE  EventHeld(held)'
  BY <1>1, <1>3, <1>4, <1>5, <1>6 DEF EventHeld, EventOpen
<1>7. \A c \in Callers : EventHeld(event_caller[c])'
  <2> TAKE c \in Callers
  <2> DEFINE held == event_caller[c]
  <2>1. EventHeld(held) /\ event_caller'[c] = held
    BY <1>1 DEF EventInv
  <2> HIDE DEF held
  <2> QED  BY <1>6, <2>1
<1>8. Calendar!TypeOK' /\ Calendar!OneAtATime'
  BY <1>1 DEF EventInv, Calendar!TypeOK, Calendar!OneAtATime
<1>9. EventFacts'
  BY <1>1, <1>2, <1>3, <1>4 DEF EventInv, EventFacts
<1> QED  BY <1>7, <1>8, <1>9 DEF EventInv

LEMMA EventStep ==
  ASSUME EventInv, Calendar!SerialNext
  PROVE  EventInv'
BY EventOutside, EventCallKeeps DEF Calendar!SerialNext, Calendar!Next

LEMMA EventStart ==
  ASSUME Calendar!Init
  PROVE  EventInv
<1>1. /\ event_row = "none" /\ event_wire = "none" /\ event_stray = FALSE
      /\ event = "absent" /\ event_created = 0 /\ event_told = {}
      /\ event_provider \in {"google", "yandex"}
      /\ event_caller = [c \in Callers |-> Calendar!Idle]
  BY DEF Calendar!Init
<1>2. Calendar!TypeOK
  BY <1>1, EventForms, EventNames DEF Calendar!TypeOK, Calendar!Requests, Calendar!Events
<1>3. Calendar!OneAtATime /\ \A c \in Callers : EventHeld(event_caller[c])
  BY <1>1, EventForms DEF Calendar!OneAtATime, EventHeld
<1> QED  BY <1>1, <1>2, <1>3 DEF EventInv, EventFacts, EventTrue

\* No step creates an event where there was one before.
LEMMA EventNotOverwritten ==
  ASSUME EventInv, Calendar!SerialNext
  PROVE  Calendar!NothingIsOverwritten
<1>1. CASE Calendar!ProviderTakes \/ Calendar!StrayTaken
  BY <1>1 DEF Calendar!ProviderTakes, Calendar!StrayTaken, Calendar!Lands, EventInv,
              EventFacts, Calendar!TypeOK, Calendar!NothingIsOverwritten
<1>2. CASE ~ (Calendar!ProviderTakes \/ Calendar!StrayTaken)
  <2>1. event_created' = event_created
    BY <1>2 DEF Calendar!SerialNext, Calendar!Next, Calendar!ProviderRefuses,
         Calendar!UserEdits, Calendar!UserDeletes, Calendar!CallStep,
         Calendar!AccountMissing, Calendar!Begin, Calendar!SendCreate,
         Calendar!InsertSucceeds, Calendar!InsertUnclear, Calendar!InsertRefused,
         Calendar!Confirm, Calendar!ClaimStarted, Calendar!InspectFirst, Calendar!Resume,
         Calendar!PutSucceeds, Calendar!PutRefused, Calendar!PutAmbiguous,
         Calendar!Recheck, Calendar!Store, Calendar!StoreFails, Calendar!Leave,
         Calendar!calendar
  <2> QED  BY <2>1 DEF Calendar!NothingIsOverwritten
<1> QED  BY <1>1, <1>2

\* The step seen from SendOnce.
LEMMA EventPromise ==
  ASSUME EventInv, Calendar!SerialNext
  PROVE  [Calendar!Promise!Next]_<<Calendar!message, Calendar!verdict>>
<1>1. CASE event_provider = "google"
  <2>1. event_provider' = "google" /\ event_row = "none" /\ event_row' = "none"
    BY <1>1, EventStep DEF EventInv, EventFacts, Calendar!TypeOK, Calendar!SerialNext,
         Calendar!Next, Calendar!ProviderTakes, Calendar!ProviderRefuses,
         Calendar!StrayTaken, Calendar!UserEdits, Calendar!UserDeletes, Calendar!CallStep,
         Calendar!AccountMissing, Calendar!Begin, Calendar!SendCreate,
         Calendar!InsertSucceeds, Calendar!InsertUnclear, Calendar!InsertRefused,
         Calendar!Confirm, Calendar!ClaimStarted, Calendar!InspectFirst, Calendar!Resume,
         Calendar!PutSucceeds, Calendar!PutRefused, Calendar!PutAmbiguous,
         Calendar!Recheck, Calendar!Store, Calendar!StoreFails, Calendar!Leave
  <2> QED  BY <1>1, <2>1 DEF Calendar!message, Calendar!verdict
<1>2. CASE event_provider = "yandex"
  <2>1. EventFacts /\ Calendar!TypeOK
    BY DEF EventInv
  <2>2. CASE Calendar!ProviderTakes \/ Calendar!ProviderRefuses
    <3>1. Calendar!Promise!Decide
      BY <1>2, <2>1, <2>2 DEF EventFacts, Calendar!ProviderTakes, Calendar!ProviderRefuses,
           Calendar!Lands, Calendar!Promise!Decide, Calendar!message, Calendar!verdict
    <3> QED  BY <3>1 DEF Calendar!Promise!Next
  <2>3. CASE Calendar!StrayTaken
    BY <1>2, <2>1, <2>3 DEF EventFacts, Calendar!StrayTaken
  <2>4. CASE Calendar!UserEdits \/ (Calendar!UserDeletes /\ event = "ours")
    <3>1. event_wire = "landed"
      BY <1>2, <2>1, <2>4 DEF EventFacts, Calendar!UserEdits
    <3>2. Calendar!Promise!Alter
      BY <1>2, <2>4, <3>1 DEF Calendar!UserEdits, Calendar!UserDeletes,
           Calendar!Promise!Alter, Calendar!message, Calendar!verdict
    <3> QED  BY <3>2 DEF Calendar!Promise!Next
  <2>5. CASE Calendar!UserDeletes /\ event # "ours"
    <3>1. event_wire = "landed"
      BY <1>2, <2>1, <2>5 DEF EventFacts, Calendar!UserDeletes
    <3> QED  BY <1>2, <2>5, <3>1 DEF Calendar!UserDeletes, Calendar!message, Calendar!verdict
  <2>6. ASSUME NEW c \in Callers, Calendar!CallStep(c)
        PROVE  [Calendar!Promise!Next]_<<Calendar!message, Calendar!verdict>>
    <3>1. EventHeld(event_caller[c])
      BY DEF EventInv
    <3>2. CASE Calendar!ClaimStarted(c) /\ event_row = "none"
      <4>1. Calendar!Promise!Claim
        BY <1>2, <3>2 DEF Calendar!ClaimStarted, Calendar!Promise!Claim, Calendar!verdict,
                          Calendar!message, Calendar!calendar
      <4> QED  BY <4>1 DEF Calendar!Promise!Next
    <3>3. CASE Calendar!SendCreate(c)
      <4>1. event_row = "started" /\ event_wire = "none"
        BY <1>2, <3>1, <3>3 DEF EventHeld, Calendar!SendCreate
      <4>2. Calendar!Promise!Hand
        BY <1>2, <3>3, <4>1 DEF Calendar!SendCreate, Calendar!Promise!Hand,
                                Calendar!verdict, Calendar!message
      <4> QED  BY <4>2 DEF Calendar!Promise!Next
    <3>4. CASE Calendar!Store(c)
      <4>1. PICK want : want = event_caller[c].want
        OBVIOUS
      <4>2. /\ EventOpen /\ EventTrue(want)
            /\ want \in {"succeeded", "failed_definite", "uncertain"}
        BY <3>1, <3>4, <4>1 DEF EventHeld, Calendar!Store
      <4>3. /\ event_row' = want
            /\ UNCHANGED <<event_provider, event_wire, event>>
        BY <3>4, <4>1, <4>2 DEF Calendar!Store, Calendar!calendar, Calendar!Stored,
                                Calendar!Settled, Calendar!Final, EventOpen
      <4>4. Calendar!message' = Calendar!message
        BY <4>3 DEF Calendar!message
      <4>5. Calendar!verdict = "open"
        BY <4>2 DEF EventOpen, Calendar!verdict
      <4>6. CASE want = "succeeded"
        <5>1. Calendar!message \in {"delivered", "altered"}
          BY <1>2, <4>2, <4>6 DEF EventTrue, Calendar!message
        <5>2. Calendar!verdict' = "delivered"
          BY <4>3, <4>6 DEF Calendar!verdict
        <5> QED  BY <4>4, <4>5, <5>1, <5>2
                 DEF Calendar!Promise!LearnDelivered, Calendar!Promise!Next
      <4>7. CASE want = "failed_definite"
        <5>1. Calendar!message \in {"refused", "altered"}
          BY <1>2, <4>2, <4>7 DEF EventTrue, EventFailed, Calendar!message
        <5>2. Calendar!verdict' = "failed"
          BY <4>3, <4>7 DEF Calendar!verdict
        <5> QED  BY <4>4, <4>5, <5>1, <5>2
                 DEF Calendar!Promise!LearnFailed, Calendar!Promise!Next
      <4>8. CASE want = "uncertain"
        BY <4>3, <4>4, <4>5, <4>8 DEF Calendar!verdict
      <4> QED  BY <4>2, <4>6, <4>7, <4>8
    <3>5. CASE ~ (Calendar!ClaimStarted(c) /\ event_row = "none")
               /\ ~ Calendar!SendCreate(c) /\ ~ Calendar!Store(c)
      <4>1. UNCHANGED <<event_provider, event_row, event_wire, event>>
        BY <2>6, <3>5 DEF Calendar!CallStep, Calendar!AccountMissing, Calendar!Begin,
             Calendar!InsertSucceeds, Calendar!InsertUnclear, Calendar!InsertRefused,
             Calendar!Confirm, Calendar!ClaimStarted, Calendar!InspectFirst,
             Calendar!Resume, Calendar!PutSucceeds, Calendar!PutRefused,
             Calendar!PutAmbiguous, Calendar!Recheck, Calendar!StoreFails,
             Calendar!Leave, Calendar!calendar
      <4> QED  BY <4>1 DEF Calendar!message, Calendar!verdict
    <3> QED  BY <3>2, <3>3, <3>4, <3>5
  <2> QED  BY <2>2, <2>3, <2>4, <2>5, <2>6 DEF Calendar!SerialNext, Calendar!Next
<1> QED  BY <1>1, <1>2 DEF EventInv, Calendar!TypeOK

-----------------------------------------------------------------------------
(* A message through Yandex and its copies.                                *)

YandexCalls ==
  {Yandex!Idle} \union Yandex!Replies \union Yandex!SendWork \union Yandex!CopyWork

YandexSaid(answer) ==
  /\ answer \in {"sent", "already_sent"} => yandex_message = "delivered"
  /\ answer = "failed" => yandex_row.state = "failed_definite"

\* A copy in Sent is made of a message that counts as sent, one in Secretary-Uncertain
\* of a message in doubt.
CopyDue(f) == yandex_row.state = (IF f = "sent" THEN "succeeded" ELSE "uncertain")

\* The call at work on a copy: an answer that fits the folder, one APPEND after the one
\* claim, and nothing recorded that was not found.
CopyHeld(held) ==
  /\ CopyDue(held.folder)
  /\ held.answer \in (IF held.folder = "sent" THEN {"sent", "already_sent"}
                      ELSE {"uncertain"})
  /\ held.phase = "append" =>
       yandex_row.copy[held.folder] = "started" /\ yandex_appends[held.folder] = 0
  /\ held.phase \in {"set", "setting"} =>
       /\ held.value # "not_started"
       /\ held.value = "stored" => yandex_mailbox[held.folder] > 0

StoreHeld(held) ==
  \/ /\ held.want = "succeeded" /\ held.next = Yandex!Copying("claim", "sent", "sent")
     /\ yandex_row.state = "started" /\ yandex_message = "delivered"
  \/ /\ held.want = "failed_definite" /\ held.next = Yandex!Answered("failed")
     /\ yandex_row.state = "started" /\ yandex_message = "refused"
  \/ /\ held.want = "uncertain"
     /\ held.next = Yandex!Copying("look", "uncertain", "uncertain")
     /\ yandex_row.state \in {"started", "uncertain"}

AtCopy == Yandex!CopyPhases \union {"looked", "set", "setting"}

\* The row a call has read is the row, as no other call is under way.
YandexHeld(held) ==
  /\ held.phase = "claimed" => yandex_row.state = "started" /\ yandex_message = "unsent"
  /\ held.phase = "sending" => yandex_row.state = "started"
  /\ held.phase = "found" => yandex_row.state # "none"
  /\ held.phase \in {"found", "storing", "setting"} => held.seen = yandex_row
  /\ held.phase = "answered" => YandexSaid(held.answer)
  /\ held.phase \in {"store", "storing"} => StoreHeld(held)
  /\ held.phase \in AtCopy => CopyHeld(held)

YandexTrue ==
  /\ yandex_row.state = "none" => yandex_message = "unsent"
  /\ yandex_row.state = "succeeded" => yandex_message = "delivered"
  /\ yandex_row.state = "failed_definite" => yandex_message = "refused"

CopyTrue(f) ==
  /\ yandex_appends[f] <= 1 /\ yandex_mailbox[f] <= yandex_appends[f]
  /\ yandex_row.copy[f] = "not_started" => yandex_appends[f] = 0
  /\ yandex_row.copy[f] = "stored" => yandex_mailbox[f] > 0
  /\ ~ CopyDue(f) => yandex_row.copy[f] = "not_started"

YandexInv ==
  /\ Yandex!TypeOK /\ Yandex!OneAtATime /\ YandexTrue
  /\ \A f \in Yandex!Folders : CopyTrue(f)
  /\ \A answer \in yandex_told : YandexSaid(answer)
  /\ \A c \in Callers : YandexHeld(yandex_caller[c])

LEMMA YandexNames ==
  /\ Yandex!Folders = {"sent", "uncertain"}
  /\ Yandex!CopyStates = {"not_started", "started", "stored", "uncertain",
                          "failed_definite"}
  /\ Yandex!Answers = {"sent", "already_sent", "uncertain", "failed", "error"}
  /\ Yandex!AttemptStates =
       {"none", "started", "succeeded", "failed_definite", "uncertain"}
  /\ Yandex!CopyPhases = {"claim", "append", "search", "missing", "look"}
  /\ AtCopy = {"claim", "append", "search", "missing", "look", "looked", "set", "setting"}
BY DEF Yandex!Folders, Yandex!CopyStates, Yandex!Answers, Yandex!AttemptStates,
       Yandex!CopyPhases, AtCopy

LEMMA YandexForms ==
  /\ Yandex!Idle \in YandexCalls /\ Yandex!Idle.phase = "idle"
  /\ \A p \in {"claimed", "sending"} :
       Yandex!At(p) \in YandexCalls /\ Yandex!At(p).phase = p
  /\ \A answer \in Yandex!Answers :
       /\ Yandex!Answered(answer) \in YandexCalls
       /\ Yandex!Answered(answer) \in Yandex!Replies
       /\ Yandex!Answered(answer).phase = "answered"
       /\ Yandex!Answered(answer).answer = answer
  /\ \A seen \in Yandex!Rows :
       /\ [phase |-> "found", seen |-> seen] \in YandexCalls
       /\ [phase |-> "found", seen |-> seen].phase = "found"
       /\ [phase |-> "found", seen |-> seen].seen = seen
  /\ \A held \in YandexCalls :
       held.phase = "answered" => held.answer \in Yandex!Answers
BY DEF YandexCalls, Yandex!Idle, Yandex!At, Yandex!Answered, Yandex!Replies,
       Yandex!SendWork, Yandex!CopyWork, Yandex!CopyPhases

LEMMA YandexStores ==
  ASSUME NEW want \in Yandex!AttemptStates,
         NEW next \in Yandex!Replies \union Yandex!CopyWork
  PROVE  /\ Yandex!Storing(want, next) \in YandexCalls
         /\ Yandex!Storing(want, next).phase = "store"
         /\ Yandex!Storing(want, next).want = want
         /\ Yandex!Storing(want, next).next = next
         /\ \A seen \in Yandex!Rows :
              LET held == [phase |-> "storing", want |-> want, next |-> next, seen |-> seen]
              IN  held \in YandexCalls /\ held.phase = "storing" /\ held.want = want
                  /\ held.next = next /\ held.seen = seen
BY DEF YandexCalls, Yandex!Storing, Yandex!SendWork

LEMMA YandexCopies ==
  ASSUME NEW f \in Yandex!Folders, NEW answer \in Yandex!Answers
  PROVE  /\ \A phase \in Yandex!CopyPhases :
              LET held == Yandex!Copying(phase, f, answer)
              IN  held \in YandexCalls /\ held \in Yandex!CopyWork /\ held.phase = phase
                  /\ held.folder = f /\ held.answer = answer
         /\ \A value \in Yandex!CopyStates :
              LET held == Yandex!Setting(f, value, answer)
              IN  held \in YandexCalls /\ held.phase = "set" /\ held.folder = f
                  /\ held.value = value /\ held.answer = answer
         /\ \A state \in Yandex!CopyStates :
              LET held == [phase |-> "looked", folder |-> f, answer |-> answer,
                           state |-> state]
              IN  held \in YandexCalls /\ held.phase = "looked" /\ held.folder = f
                  /\ held.answer = answer
         /\ \A value \in Yandex!CopyStates, seen \in Yandex!Rows :
              LET held == [phase |-> "setting", folder |-> f, value |-> value,
                           answer |-> answer, seen |-> seen]
              IN  held \in YandexCalls /\ held.phase = "setting" /\ held.folder = f
                  /\ held.value = value /\ held.answer = answer /\ held.seen = seen
BY DEF YandexCalls, Yandex!CopyWork, Yandex!Copying, Yandex!Setting

\* What a call at work on a copy carries with it.
LEMMA YandexCopyFields ==
  ASSUME NEW held \in YandexCalls, held.phase \in AtCopy
  PROVE  /\ held.folder \in Yandex!Folders /\ held.answer \in Yandex!Answers
         /\ held.phase \in {"set", "setting"} => held.value \in Yandex!CopyStates
         /\ held.phase = "setting" => held.seen \in Yandex!Rows
BY YandexNames DEF YandexCalls, Yandex!Idle, Yandex!At, Yandex!Replies, Yandex!SendWork,
                   Yandex!CopyWork

LEMMA YandexStoreFields ==
  ASSUME NEW held \in YandexCalls, held.phase \in {"store", "storing"}
  PROVE  /\ held.want \in Yandex!AttemptStates
         /\ held.next \in Yandex!Replies \union Yandex!CopyWork
BY DEF YandexCalls, Yandex!Idle, Yandex!At, Yandex!Replies, Yandex!SendWork,
       Yandex!CopyWork, Yandex!CopyPhases

\* A call's step, with what is left to show of each action.
LEMMA YandexMoves ==
  ASSUME YandexInv, Yandex!OneAtATime', NEW c \in Callers, NEW held \in YandexCalls,
         Yandex!Move(c, held), yandex_caller[c] # Yandex!Idle \/ held # Yandex!Idle,
         yandex_row' \in Yandex!Rows, yandex_sends' \in Nat,
         yandex_message' \in Yandex!Messages,
         yandex_appends' \in [Yandex!Folders -> Nat],
         yandex_mailbox' \in [Yandex!Folders -> Nat],
         YandexTrue', \A f \in Yandex!Folders : CopyTrue(f)',
         yandex_message = "delivered" => yandex_message' = "delivered",
         yandex_row.state = "failed_definite" => yandex_row'.state = "failed_definite",
         YandexHeld(held)'
  PROVE  YandexInv'
<1>1. /\ yandex_caller \in [Callers -> YandexCalls] /\ yandex_told \subseteq Yandex!Answers
      /\ yandex_caller' = [yandex_caller EXCEPT ![c] = held]
  BY DEF YandexInv, Yandex!TypeOK, Yandex!Move, YandexCalls
<1>2. /\ yandex_caller' \in [Callers -> YandexCalls] /\ yandex_caller'[c] = held
      /\ \A d \in Callers \ {c} : yandex_caller'[d] = yandex_caller[d]
  BY <1>1
<1>3. \A d \in Callers \ {c} : yandex_caller'[d] = Yandex!Idle
  BY <1>2 DEF YandexInv, Yandex!OneAtATime
<1>4. \A answer \in yandex_told' : answer \in Yandex!Answers /\ YandexSaid(answer)'
  <2>1. held.phase = "answered" => held.answer \in Yandex!Answers /\ YandexSaid(held.answer)'
    BY YandexForms DEF YandexHeld
  <2>2. \A answer \in yandex_told : YandexSaid(answer)'
    BY DEF YandexInv, YandexSaid
  <2> QED  BY <1>1, <2>1, <2>2 DEF Yandex!Move
<1>5. Yandex!TypeOK'
  BY <1>2, <1>4 DEF YandexInv, Yandex!TypeOK, YandexCalls
<1>6. ASSUME NEW d \in Callers
      PROVE  YandexHeld(yandex_caller[d])'
  <2>1. CASE d = c
    BY <1>2, <2>1
  <2>2. CASE d # c
    BY <1>3, <2>2, YandexForms, YandexNames DEF YandexHeld
  <2> QED  BY <2>1, <2>2
<1> QED  BY <1>4, <1>5, <1>6 DEF YandexInv

\* A call that moves on and changes nothing else.
LEMMA YandexWaits ==
  ASSUME YandexInv, Yandex!OneAtATime', NEW c \in Callers, NEW held \in YandexCalls,
         Yandex!Move(c, held), yandex_caller[c] # Yandex!Idle \/ held # Yandex!Idle,
         UNCHANGED <<yandex_row, Yandex!mail, Yandex!imap>>, YandexHeld(held)
  PROVE  YandexInv'
<1>1. /\ yandex_row' = yandex_row /\ yandex_sends' = yandex_sends
      /\ yandex_message' = yandex_message /\ yandex_appends' = yandex_appends
      /\ yandex_mailbox' = yandex_mailbox
  BY DEF Yandex!mail, Yandex!imap
<1>2. YandexHeld(held)'
  BY <1>1 DEF YandexHeld, YandexSaid, StoreHeld, CopyHeld, CopyDue
<1>3. YandexTrue'
  BY <1>1 DEF YandexInv, YandexTrue
<1>4. \A f \in Yandex!Folders : CopyTrue(f)'
  BY <1>1 DEF YandexInv, CopyTrue, CopyDue
<1> QED  BY <1>1, <1>2, <1>3, <1>4, YandexMoves DEF YandexInv, Yandex!TypeOK

\* Where a call at work on a copy may go next when it has changed nothing.
LEMMA YandexGoesOn ==
  ASSUME YandexInv, NEW c \in Callers, yandex_caller[c].phase \in AtCopy,
         NEW f, NEW answer, f = yandex_caller[c].folder, answer = yandex_caller[c].answer
  PROVE  /\ f \in Yandex!Folders /\ answer \in Yandex!Answers
         /\ yandex_caller[c] \in YandexCalls /\ yandex_caller[c] # Yandex!Idle
         /\ CopyHeld(yandex_caller[c])
         /\ \A phase \in Yandex!CopyPhases \ {"append"} :
              YandexHeld(Yandex!Copying(phase, f, answer))
         /\ \A value \in Yandex!CopyStates \ {"not_started"} :
              (value = "stored" => yandex_mailbox[f] > 0) =>
                YandexHeld(Yandex!Setting(f, value, answer))
         /\ \A said \in {answer, "error"} : YandexHeld(Yandex!Answered(said))
<1>1. yandex_caller[c] \in YandexCalls /\ YandexHeld(yandex_caller[c]) /\ YandexTrue
  BY DEF YandexInv, Yandex!TypeOK, YandexCalls
<1>2. f \in Yandex!Folders /\ answer \in Yandex!Answers /\ CopyHeld(yandex_caller[c])
  BY <1>1, YandexCopyFields DEF YandexHeld
<1>3. yandex_caller[c] # Yandex!Idle
  BY YandexForms, YandexNames
<1>4. CopyDue(f) /\ answer \in (IF f = "sent" THEN {"sent", "already_sent"} ELSE {"uncertain"})
  BY <1>2 DEF CopyHeld
<1>5. ASSUME NEW phase \in Yandex!CopyPhases \ {"append"}
      PROVE  YandexHeld(Yandex!Copying(phase, f, answer))
  <2>1. PICK held : held = Yandex!Copying(phase, f, answer)
    OBVIOUS
  <2>2. held.phase = phase /\ held.folder = f /\ held.answer = answer
    BY <1>2, <2>1, YandexCopies
  <2> QED  BY <1>4, <2>1, <2>2, YandexNames DEF YandexHeld, CopyHeld
<1>6. ASSUME NEW value \in Yandex!CopyStates \ {"not_started"},
             value = "stored" => yandex_mailbox[f] > 0
      PROVE  YandexHeld(Yandex!Setting(f, value, answer))
  <2>1. PICK held : held = Yandex!Setting(f, value, answer)
    OBVIOUS
  <2>2. held.phase = "set" /\ held.folder = f /\ held.answer = answer /\ held.value = value
    BY <1>2, <2>1, YandexCopies
  <2> QED  BY <1>4, <1>6, <2>1, <2>2, YandexNames DEF YandexHeld, CopyHeld
<1>7. ASSUME NEW said \in {answer, "error"}
      PROVE  YandexHeld(Yandex!Answered(said))
  <2>1. PICK held : held = Yandex!Answered(said)
    OBVIOUS
  <2>2. held.phase = "answered" /\ held.answer = said
    BY <1>2, <2>1, YandexForms, YandexNames
  <2>3. YandexSaid(said)
    BY <1>1, <1>4 DEF YandexSaid, YandexTrue, CopyDue
  <2> QED  BY <2>1, <2>2, <2>3, YandexNames DEF YandexHeld
<1> QED  BY <1>1, <1>2, <1>3, <1>5, <1>6, <1>7

\* The steps of a call that change nothing but where it stands, on the way of the send.
LEMMA YandexSendLooks ==
  ASSUME YandexInv, Yandex!OneAtATime', NEW c \in Callers,
         \/ Yandex!AccountMissing(c) \/ Yandex!PasswordMissing(c) \/ Yandex!SendSucceeds(c)
         \/ Yandex!SendRefused(c) \/ Yandex!SendAmbiguous(c) \/ Yandex!ResumeAttempt(c)
         \/ Yandex!ReadRow(c) \/ Yandex!StoreFails(c) \/ Yandex!Leave(c)
  PROVE  YandexInv'
<1> DEFINE now == yandex_caller[c]
           quiet == UNCHANGED <<yandex_row, Yandex!mail, Yandex!imap>>
<1>1. YandexHeld(now) /\ now \in YandexCalls /\ YandexTrue /\ yandex_row \in Yandex!Rows
  BY DEF YandexInv, Yandex!TypeOK, YandexCalls
<1>2. now.phase \in {"claimed", "sending", "found", "store", "storing"} => now # Yandex!Idle
  BY YandexForms
<1>3. \A answer \in Yandex!Answers :
        /\ Yandex!Answered(answer) # Yandex!Idle
        /\ YandexSaid(answer) => YandexHeld(Yandex!Answered(answer))
  BY YandexForms, YandexNames DEF YandexHeld
<1>4. \E next \in YandexCalls :
        /\ Yandex!Move(c, next) /\ YandexHeld(next) /\ quiet
        /\ now # Yandex!Idle \/ next # Yandex!Idle
  <2>1. CASE Yandex!AccountMissing(c) \/ Yandex!PasswordMissing(c) \/ Yandex!StoreFails(c)
    <3>1. Yandex!Move(c, Yandex!Answered("error")) /\ quiet
      BY <2>1 DEF Yandex!AccountMissing, Yandex!PasswordMissing, Yandex!StoreFails
    <3>2. YandexSaid("error") /\ "error" \in Yandex!Answers
      BY YandexNames DEF YandexSaid
    <3> QED  BY <1>3, <3>1, <3>2, YandexForms
  <2>2. CASE Yandex!SendSucceeds(c)
    <3> DEFINE after == Yandex!Copying("claim", "sent", "sent")
               next == Yandex!Storing("succeeded", after)
    <3>1. /\ Yandex!Move(c, next) /\ quiet /\ now.phase = "sending"
          /\ yandex_message = "delivered"
      BY <2>2 DEF Yandex!SendSucceeds
    <3>2. after \in Yandex!CopyWork
      BY YandexCopies, YandexNames
    <3>3. next \in YandexCalls /\ next.phase = "store" /\ next.want = "succeeded"
          /\ next.next = after
      BY <3>2, YandexStores, YandexNames
    <3>4. yandex_row.state = "started"
      BY <1>1, <3>1 DEF YandexHeld
    <3>5. YandexHeld(next)
      BY <3>1, <3>3, <3>4, YandexNames DEF YandexHeld, StoreHeld
    <3> QED  BY <1>2, <3>1, <3>3, <3>5
  <2>3. CASE Yandex!SendRefused(c)
    <3> DEFINE after == Yandex!Answered("failed")
               next == Yandex!Storing("failed_definite", after)
    <3>1. /\ Yandex!Move(c, next) /\ quiet /\ now.phase = "sending"
          /\ yandex_message = "refused"
      BY <2>3 DEF Yandex!SendRefused
    <3>2. after \in Yandex!Replies
      BY YandexForms, YandexNames
    <3>3. next \in YandexCalls /\ next.phase = "store" /\ next.want = "failed_definite"
          /\ next.next = after
      BY <3>2, YandexStores, YandexNames
    <3>4. yandex_row.state = "started"
      BY <1>1, <3>1 DEF YandexHeld
    <3>5. YandexHeld(next)
      BY <3>1, <3>3, <3>4, YandexNames DEF YandexHeld, StoreHeld
    <3> QED  BY <1>2, <3>1, <3>3, <3>5
  <2>4. ASSUME yandex_row.state \in {"started", "uncertain"}
        PROVE  LET next == Yandex!Storing("uncertain",
                                          Yandex!Copying("look", "uncertain", "uncertain"))
               IN  next \in YandexCalls /\ YandexHeld(next)
    <3> DEFINE after == Yandex!Copying("look", "uncertain", "uncertain")
               next == Yandex!Storing("uncertain", after)
    <3>1. after \in Yandex!CopyWork
      BY YandexCopies, YandexNames
    <3>2. next \in YandexCalls /\ next.phase = "store" /\ next.want = "uncertain"
          /\ next.next = after
      BY <3>1, YandexStores, YandexNames
    <3>3. YandexHeld(next)
      BY <2>4, <3>2, YandexNames DEF YandexHeld, StoreHeld
    <3> QED  BY <3>2, <3>3
  <2>5. CASE Yandex!SendAmbiguous(c)
    <3>1. /\ Yandex!Move(c, Yandex!Storing("uncertain",
                              Yandex!Copying("look", "uncertain", "uncertain")))
          /\ quiet /\ now.phase = "sending"
      BY <2>5 DEF Yandex!SendAmbiguous
    <3>2. yandex_row.state = "started"
      BY <1>1, <3>1 DEF YandexHeld
    <3> QED  BY <1>2, <2>4, <3>1, <3>2
  <2>6. CASE Yandex!ResumeAttempt(c)
    <3>1. PICK next : next = Yandex!Resume(now.seen)
      OBVIOUS
    <3>2. Yandex!Move(c, next) /\ quiet /\ now.phase = "found"
      BY <2>6, <3>1 DEF Yandex!ResumeAttempt
    <3>3. now.seen = yandex_row /\ yandex_row.state # "none"
      BY <1>1, <3>2 DEF YandexHeld
    <3>4. yandex_row.state \in {"started", "succeeded", "failed_definite", "uncertain"}
      BY <1>1, <3>3, YandexNames DEF Yandex!Rows
    <3>5. CASE yandex_row.state = "failed_definite"
      <4>1. next = Yandex!Answered("failed")
        BY <3>1, <3>3, <3>5 DEF Yandex!Resume
      <4>2. YandexSaid("failed") /\ "failed" \in Yandex!Answers
        BY <3>5, YandexNames DEF YandexSaid
      <4> QED  BY <1>2, <1>3, <3>2, <4>1, <4>2, YandexForms
    <3>6. CASE yandex_row.state = "started"
      <4>1. next = Yandex!Answered("uncertain")
        BY <3>1, <3>3, <3>6 DEF Yandex!Resume
      <4>2. YandexSaid("uncertain") /\ "uncertain" \in Yandex!Answers
        BY YandexNames DEF YandexSaid
      <4> QED  BY <1>2, <1>3, <3>2, <4>1, <4>2, YandexForms
    <3>7. CASE yandex_row.state = "uncertain"
      <4>1. next = Yandex!Storing("uncertain", Yandex!Copying("look", "uncertain", "uncertain"))
        BY <3>1, <3>3, <3>7 DEF Yandex!Resume
      <4> QED  BY <1>2, <2>4, <3>2, <3>7, <4>1
    <3>8. CASE yandex_row.state = "succeeded"
      <4>1. \/ next = Yandex!Answered("already_sent")
            \/ next = Yandex!Copying("claim", "sent", "already_sent")
            \/ next = Yandex!Copying("search", "sent", "already_sent")
        BY <3>1, <3>3, <3>8 DEF Yandex!Resume
      <4>2. YandexSaid("already_sent") /\ "already_sent" \in Yandex!Answers
        BY <1>1, <3>8, YandexNames DEF YandexSaid, YandexTrue
      <4>3. ASSUME NEW phase \in {"claim", "search"}, next = Yandex!Copying(phase, "sent", "already_sent")
            PROVE  next \in YandexCalls /\ YandexHeld(next)
        <5>1. /\ next \in YandexCalls /\ next.phase = phase /\ next.folder = "sent"
              /\ next.answer = "already_sent"
          BY <4>3, YandexCopies, YandexNames
        <5> QED  BY <3>8, <4>3, <5>1, YandexNames DEF YandexHeld, CopyHeld, CopyDue
      <4>4. next \in YandexCalls /\ YandexHeld(next)
        BY <1>3, <4>1, <4>2, <4>3, YandexForms
      <4> QED  BY <1>2, <3>2, <4>4
    <3> QED  BY <3>4, <3>5, <3>6, <3>7, <3>8
  <2>7. CASE Yandex!ReadRow(c)
    <3>1. PICK want, after : want = now.want /\ after = now.next
      OBVIOUS
    <3>2. PICK next : next = [phase |-> "storing", want |-> want, next |-> after,
                              seen |-> yandex_row]
      OBVIOUS
    <3>3. Yandex!Move(c, next) /\ quiet /\ now.phase = "store"
      BY <2>7, <3>1, <3>2 DEF Yandex!ReadRow
    <3>4. want \in Yandex!AttemptStates /\ after \in Yandex!Replies \union Yandex!CopyWork
      BY <1>1, <3>1, <3>3, YandexStoreFields
    <3>5. /\ next \in YandexCalls /\ next.phase = "storing" /\ next.want = want
          /\ next.next = after /\ next.seen = yandex_row
      BY <1>1, <3>2, <3>4, YandexStores
    <3>6. StoreHeld(now)
      BY <1>1, <3>3 DEF YandexHeld
    <3>7. StoreHeld(next)
      BY <3>1, <3>5, <3>6 DEF StoreHeld
    <3>8. YandexHeld(next)
      BY <3>5, <3>7, YandexNames DEF YandexHeld
    <3> QED  BY <1>2, <3>3, <3>5, <3>8
  <2>8. CASE Yandex!Leave(c)
    <3>1. Yandex!Move(c, Yandex!Idle) /\ quiet /\ now # Yandex!Idle
      BY <2>8 DEF Yandex!Leave
    <3>2. YandexHeld(Yandex!Idle)
      BY YandexForms, YandexNames DEF YandexHeld
    <3> QED  BY <3>1, <3>2, YandexForms
  <2> QED  BY <2>1, <2>2, <2>3, <2>5, <2>6, <2>7, <2>8
<1> QED  BY <1>4, YandexWaits

\* The steps of a call at work on a copy that change nothing but where it stands.
LEMMA YandexCopyLooks ==
  ASSUME YandexInv, Yandex!OneAtATime', NEW c \in Callers,
         \/ Yandex!LoadCopyState(c) \/ Yandex!LookIntoFolder(c) \/ Yandex!AppendRefused(c)
         \/ Yandex!SearchFolder(c) \/ Yandex!CopyMissing(c) \/ Yandex!ReadCopies(c)
         \/ Yandex!CopyBreaks(c)
  PROVE  YandexInv'
<1> DEFINE now == yandex_caller[c]
           quiet == UNCHANGED <<yandex_row, Yandex!mail, Yandex!imap>>
<1>1. PICK f, answer : f = now.folder /\ answer = now.answer
  OBVIOUS
<1>2. now.phase \in AtCopy
  BY YandexNames DEF Yandex!LoadCopyState, Yandex!LookIntoFolder, Yandex!AppendRefused,
     Yandex!SearchFolder, Yandex!CopyMissing, Yandex!ReadCopies, Yandex!CopyBreaks
<1>3. /\ f \in Yandex!Folders /\ answer \in Yandex!Answers
      /\ now \in YandexCalls /\ now # Yandex!Idle /\ CopyHeld(now)
  BY <1>1, <1>2, YandexGoesOn
<1>4. \A phase \in Yandex!CopyPhases \ {"append"} :
        /\ Yandex!Copying(phase, f, answer) \in YandexCalls
        /\ YandexHeld(Yandex!Copying(phase, f, answer))
  BY <1>1, <1>2, <1>3, YandexGoesOn, YandexCopies
<1>5. \A value \in Yandex!CopyStates \ {"not_started"} :
        (value = "stored" => yandex_mailbox[f] > 0) =>
          /\ Yandex!Setting(f, value, answer) \in YandexCalls
          /\ YandexHeld(Yandex!Setting(f, value, answer))
  BY <1>1, <1>2, <1>3, YandexGoesOn, YandexCopies
<1>6. \A said \in {answer, "error"} :
        /\ Yandex!Answered(said) \in YandexCalls
        /\ YandexHeld(Yandex!Answered(said))
  BY <1>1, <1>2, <1>3, YandexGoesOn, YandexForms, YandexNames
<1>7. yandex_mailbox[f] \in Nat /\ yandex_row.copy[f] \in Yandex!CopyStates
  BY <1>3 DEF YandexInv, Yandex!TypeOK, Yandex!Rows
<1>8. \E next \in YandexCalls : Yandex!Move(c, next) /\ YandexHeld(next) /\ quiet
  <2>1. CASE Yandex!LoadCopyState(c)
    <3>1. PICK state : state = yandex_row.copy[f]
      OBVIOUS
    <3>2. PICK next : next = [phase |-> "looked", folder |-> f, answer |-> answer,
                              state |-> state]
      OBVIOUS
    <3>3. /\ Yandex!Move(c, IF state = "stored" THEN Yandex!Answered(answer) ELSE next)
          /\ quiet
      BY <1>1, <2>1, <3>1, <3>2 DEF Yandex!LoadCopyState
    <3>4. /\ next \in YandexCalls /\ next.phase = "looked" /\ next.folder = f
          /\ next.answer = answer
      BY <1>3, <1>7, <3>1, <3>2, YandexCopies
    <3>5. CopyHeld(next)
      BY <1>1, <1>3, <3>4 DEF CopyHeld
    <3>6. YandexHeld(next)
      BY <3>4, <3>5, YandexNames DEF YandexHeld
    <3> QED  BY <1>6, <3>3, <3>4, <3>6
  <2>2. CASE Yandex!LookIntoFolder(c)
    <3>1. PICK n \in 0 .. yandex_mailbox[f] :
            Yandex!Move(c, Yandex!AfterLook(n, f, now.state, answer)) /\ quiet
      BY <1>1, <2>2 DEF Yandex!LookIntoFolder
    <3>2. n \in Nat /\ (n = 1 => yandex_mailbox[f] > 0)
      BY <1>7, <3>1
    <3>3. PICK next : next = Yandex!AfterLook(n, f, now.state, answer)
      OBVIOUS
    <3>4. CASE n = 1
      <4>1. next = Yandex!Setting(f, "stored", answer)
        BY <3>3, <3>4 DEF Yandex!AfterLook
      <4> QED  BY <1>5, <3>1, <3>2, <3>3, <3>4, <4>1, YandexNames
    <3>5. CASE n > 1
      <4>1. next = Yandex!Setting(f, "uncertain", answer)
        BY <3>2, <3>3, <3>5 DEF Yandex!AfterLook
      <4> QED  BY <1>5, <3>1, <3>3, <4>1, YandexNames
    <3>6. CASE n = 0
      <4>1. next \in {Yandex!Copying("claim", f, answer), Yandex!Copying("search", f, answer)}
        BY <3>3, <3>6 DEF Yandex!AfterLook
      <4> QED  BY <1>4, <3>1, <3>3, <4>1, YandexNames
    <3> QED  BY <3>2, <3>4, <3>5, <3>6
  <2>3. CASE Yandex!AppendRefused(c)
    <3>1. Yandex!Move(c, Yandex!Setting(f, "failed_definite", answer)) /\ quiet
      BY <1>1, <2>3 DEF Yandex!AppendRefused
    <3> QED  BY <1>5, <3>1, YandexNames
  <2>4. CASE Yandex!SearchFolder(c)
    <3>1. CASE Yandex!Move(c, Yandex!Setting(f, "uncertain", answer)) /\ quiet
      BY <1>5, <3>1, YandexNames
    <3>2. CASE \E n \in 0 .. yandex_mailbox[f] :
                 /\ Yandex!Move(c, CASE n = 0 -> Yandex!Copying("missing", f, answer)
                                     [] n = 1 -> Yandex!Setting(f, "stored", answer)
                                     [] OTHER -> Yandex!Setting(f, "uncertain", answer))
                 /\ quiet
      <4>1. PICK n, next :
              /\ n \in 0 .. yandex_mailbox[f]
              /\ Yandex!Move(c, next) /\ quiet
              /\ next = CASE n = 0 -> Yandex!Copying("missing", f, answer)
                          [] n = 1 -> Yandex!Setting(f, "stored", answer)
                          [] OTHER -> Yandex!Setting(f, "uncertain", answer)
        BY <3>2
      <4>2. n = 1 => yandex_mailbox[f] > 0
        <5>1. n \in 0 .. yandex_mailbox[f]
          BY <4>1
        <5> QED  BY <1>7, <5>1
      <4>3. CASE n = 0
        <5>1. next = Yandex!Copying("missing", f, answer)
          BY <4>1, <4>3
        <5> QED  BY <1>4, <4>1, <5>1, YandexNames
      <4>4. CASE n = 1
        <5>1. next = Yandex!Setting(f, "stored", answer)
          BY <4>1, <4>4
        <5> QED  BY <1>5, <4>1, <4>2, <4>4, <5>1, YandexNames
      <4>5. CASE n # 0 /\ n # 1
        <5>1. next = Yandex!Setting(f, "uncertain", answer)
          BY <4>1, <4>5
        <5> QED  BY <1>5, <4>1, <5>1, YandexNames
      <4> QED  BY <4>3, <4>4, <4>5
    <3> QED  BY <1>1, <2>4, <3>1, <3>2 DEF Yandex!SearchFolder
  <2>5. CASE Yandex!CopyMissing(c)
    <3>1. /\ \/ Yandex!Move(c, Yandex!Answered(answer))
             \/ Yandex!Move(c, Yandex!Setting(f, "uncertain", answer))
          /\ quiet
      BY <1>1, <2>5 DEF Yandex!CopyMissing
    <3> QED  BY <1>5, <1>6, <3>1, YandexNames
  <2>6. CASE Yandex!ReadCopies(c)
    <3>1. PICK value : value = now.value
      OBVIOUS
    <3>2. PICK next : next = [phase |-> "setting", folder |-> f, value |-> value,
                              answer |-> answer, seen |-> yandex_row]
      OBVIOUS
    <3>3. Yandex!Move(c, next) /\ quiet /\ now.phase = "set"
      BY <1>1, <2>6, <3>1, <3>2 DEF Yandex!ReadCopies
    <3>4. value \in Yandex!CopyStates /\ yandex_row \in Yandex!Rows
      BY <1>2, <1>3, <3>1, <3>3, YandexCopyFields DEF YandexInv, Yandex!TypeOK
    <3>5. /\ next \in YandexCalls /\ next.phase = "setting" /\ next.folder = f
          /\ next.value = value /\ next.answer = answer /\ next.seen = yandex_row
      BY <1>3, <3>2, <3>4, YandexCopies
    <3>6. CopyHeld(next)
      BY <1>1, <1>3, <3>1, <3>3, <3>5 DEF CopyHeld
    <3>7. YandexHeld(next)
      BY <3>5, <3>6, YandexNames DEF YandexHeld
    <3> QED  BY <3>3, <3>5, <3>7
  <2>7. CASE Yandex!CopyBreaks(c)
    <3>1. CASE f = "sent"
      <4>1. /\ \/ Yandex!Move(c, Yandex!Setting(f, "uncertain", answer))
               \/ Yandex!Move(c, Yandex!Answered(answer))
            /\ quiet
        BY <1>1, <2>7, <3>1 DEF Yandex!CopyBreaks
      <4> QED  BY <1>5, <1>6, <4>1, YandexNames
    <3>2. CASE f # "sent"
      <4>1. Yandex!Move(c, Yandex!Answered("error")) /\ quiet
        BY <1>1, <2>7, <3>2 DEF Yandex!CopyBreaks
      <4> QED  BY <1>6, <4>1
    <3> QED  BY <3>1, <3>2
  <2> QED  BY <2>1, <2>2, <2>3, <2>4, <2>5, <2>6, <2>7
<1> QED  BY <1>3, <1>8, YandexWaits

\* The row of a new operation is claimed, or the call finds what there is.
LEMMA YandexClaims ==
  ASSUME YandexInv, Yandex!OneAtATime', NEW c \in Callers, Yandex!ClaimStarted(c)
  PROVE  YandexInv'
<1>1. /\ yandex_row \in Yandex!Rows /\ YandexTrue
      /\ yandex_row.copy \in [Yandex!Folders -> Yandex!CopyStates]
  BY DEF YandexInv, Yandex!TypeOK, Yandex!Rows
<1>2. CASE yandex_row.state = "none"
  <2>1. /\ Yandex!Move(c, Yandex!At("claimed"))
        /\ yandex_sends' = yandex_sends /\ yandex_message' = yandex_message
        /\ yandex_appends' = yandex_appends /\ yandex_mailbox' = yandex_mailbox
    BY <1>2 DEF Yandex!ClaimStarted, Yandex!mail, Yandex!imap
  <2>2. /\ yandex_row' \in Yandex!Rows /\ yandex_row'.state = "started"
        /\ yandex_row'.copy = yandex_row.copy
    BY <1>1, <1>2, YandexNames DEF Yandex!ClaimStarted, Yandex!Rows
  <2>3. Yandex!At("claimed") \in YandexCalls /\ Yandex!At("claimed") # Yandex!Idle
    BY YandexForms
  <2>4. YandexHeld(Yandex!At("claimed"))' /\ YandexTrue'
    BY <1>1, <1>2, <2>1, <2>2, YandexForms, YandexNames DEF YandexHeld, YandexTrue
  <2>5. \A f \in Yandex!Folders : CopyTrue(f)'
    BY <1>2, <2>1, <2>2 DEF YandexInv, CopyTrue, CopyDue
  <2> QED  BY <1>2, <2>1, <2>2, <2>3, <2>4, <2>5, YandexMoves DEF YandexInv, Yandex!TypeOK
<1>3. CASE yandex_row.state # "none"
  <2>1. PICK next : next = [phase |-> "found", seen |-> yandex_row]
    OBVIOUS
  <2>2. Yandex!Move(c, next) /\ UNCHANGED <<yandex_row, Yandex!mail, Yandex!imap>>
    BY <1>3, <2>1 DEF Yandex!ClaimStarted
  <2>3. next \in YandexCalls /\ next.phase = "found" /\ next.seen = yandex_row
    BY <1>1, <2>1, YandexForms
  <2>4. YandexHeld(next) /\ next # Yandex!Idle
    BY <1>3, <2>3, YandexForms, YandexNames DEF YandexHeld
  <2> QED  BY <2>2, <2>3, <2>4, YandexWaits
<1> QED  BY <1>2, <1>3

LEMMA YandexHands ==
  ASSUME YandexInv, Yandex!OneAtATime', NEW c \in Callers, Yandex!SendRfc822(c)
  PROVE  YandexInv'
<1>1. /\ Yandex!Move(c, Yandex!At("sending")) /\ yandex_caller[c].phase = "claimed"
      /\ yandex_sends' = yandex_sends + 1 /\ yandex_message' = "handed"
      /\ yandex_row' = yandex_row
      /\ yandex_appends' = yandex_appends /\ yandex_mailbox' = yandex_mailbox
  BY DEF Yandex!SendRfc822, Yandex!imap
<1>2. yandex_row.state = "started" /\ yandex_message = "unsent"
  BY <1>1 DEF YandexInv, YandexHeld
<1>3. Yandex!At("sending") \in YandexCalls /\ Yandex!At("sending") # Yandex!Idle
  BY YandexForms
<1>4. YandexHeld(Yandex!At("sending"))' /\ YandexTrue'
  BY <1>1, <1>2, YandexForms, YandexNames DEF YandexHeld, YandexTrue
<1>5. \A f \in Yandex!Folders : CopyTrue(f)'
  BY <1>1 DEF YandexInv, CopyTrue, CopyDue
<1> QED  BY <1>1, <1>2, <1>3, <1>4, <1>5, YandexMoves
         DEF YandexInv, Yandex!TypeOK, Yandex!Messages

\* What a call that stores the outcome makes of the row.
LEMMA YandexWritten ==
  ASSUME YandexInv, NEW c \in Callers, Yandex!WriteRow(c)
  PROVE  /\ yandex_row' \in Yandex!Rows
         /\ yandex_row'.state = yandex_caller[c].want
         /\ yandex_row'.copy = yandex_row.copy
         /\ StoreHeld(yandex_caller[c])
         /\ yandex_caller[c] \in YandexCalls /\ yandex_caller[c].phase = "storing"
<1>1. PICK want, seen : want = yandex_caller[c].want /\ seen = yandex_caller[c].seen
  OBVIOUS
<1>2. /\ yandex_caller[c].phase = "storing" /\ yandex_caller[c] \in YandexCalls
      /\ YandexHeld(yandex_caller[c]) /\ yandex_row \in Yandex!Rows
  BY DEF YandexInv, Yandex!TypeOK, YandexCalls, Yandex!WriteRow
<1>3. /\ seen = yandex_row /\ StoreHeld(yandex_caller[c])
      /\ yandex_row.state \in {"started", "uncertain"}
  BY <1>1, <1>2 DEF YandexHeld, StoreHeld
<1>4. /\ want \in {"succeeded", "failed_definite", "uncertain"}
      /\ want = "succeeded" => yandex_row.state = "started"
  BY <1>1, <1>3 DEF StoreHeld
<1>5. PICK copy : copy = IF want = "succeeded"
                         THEN [yandex_row.copy EXCEPT !["sent"] = "not_started"]
                         ELSE yandex_row.copy
  OBVIOUS
<1>6. copy = yandex_row.copy
  <2>1. yandex_row.copy \in [Yandex!Folders -> Yandex!CopyStates]
    BY <1>2 DEF Yandex!Rows
  <2>2. want = "succeeded" => yandex_row.copy["sent"] = "not_started"
    BY <1>4, YandexNames DEF YandexInv, CopyTrue, CopyDue
  <2> QED  BY <1>5, <2>1, <2>2, YandexNames
<1>7. yandex_row' = [state |-> Yandex!Stored(yandex_row.state, yandex_row.state, want),
                     copy |-> copy]
  BY <1>1, <1>3, <1>5 DEF Yandex!WriteRow
<1>8. Yandex!Stored(yandex_row.state, yandex_row.state, want) = want
  BY <1>3 DEF Yandex!Stored, Yandex!Settled, Yandex!Final
<1>9. yandex_row' = [state |-> want, copy |-> yandex_row.copy]
  BY <1>6, <1>7, <1>8
<1> QED  BY <1>1, <1>2, <1>3, <1>4, <1>9, YandexNames DEF Yandex!Rows

LEMMA YandexWrites ==
  ASSUME YandexInv, Yandex!OneAtATime', NEW c \in Callers, Yandex!WriteRow(c)
  PROVE  YandexInv'
<1>1. PICK want, next : want = yandex_caller[c].want /\ next = yandex_caller[c].next
  OBVIOUS
<1>2. /\ Yandex!Move(c, next)
      /\ yandex_sends' = yandex_sends /\ yandex_message' = yandex_message
      /\ yandex_appends' = yandex_appends /\ yandex_mailbox' = yandex_mailbox
  BY <1>1 DEF Yandex!WriteRow, Yandex!mail, Yandex!imap
<1>3. /\ yandex_row' \in Yandex!Rows /\ yandex_row'.state = want
      /\ yandex_row'.copy = yandex_row.copy
      /\ StoreHeld(yandex_caller[c]) /\ yandex_caller[c] \in YandexCalls
      /\ yandex_caller[c].phase = "storing"
  BY <1>1, YandexWritten
<1>4. next \in YandexCalls
  BY <1>1, <1>3, YandexStoreFields DEF YandexCalls
<1>5. yandex_caller[c] # Yandex!Idle
  BY <1>3, YandexForms
<1>6. \/ /\ want = "succeeded" /\ next = Yandex!Copying("claim", "sent", "sent")
         /\ yandex_row.state = "started" /\ yandex_message = "delivered"
      \/ /\ want = "failed_definite" /\ next = Yandex!Answered("failed")
         /\ yandex_row.state = "started" /\ yandex_message = "refused"
      \/ /\ want = "uncertain"
         /\ next = Yandex!Copying("look", "uncertain", "uncertain")
         /\ yandex_row.state \in {"started", "uncertain"}
  BY <1>1, <1>3 DEF StoreHeld
<1>7. YandexTrue'
  BY <1>2, <1>3, <1>6 DEF YandexTrue
<1>8. \A f \in Yandex!Folders : CopyTrue(f)'
  BY <1>2, <1>3, <1>6, YandexNames DEF YandexInv, CopyTrue, CopyDue
<1>9. YandexHeld(next)'
  <2>1. CASE want = "failed_definite"
    <3>1. next.phase = "answered" /\ next.answer = "failed"
      BY <1>6, <2>1, YandexForms, YandexNames
    <3> QED  BY <1>3, <2>1, <3>1, YandexNames DEF YandexHeld, YandexSaid
  <2>2. CASE want = "succeeded"
    <3>1. next.phase = "claim" /\ next.folder = "sent" /\ next.answer = "sent"
      BY <1>6, <2>2, YandexCopies, YandexNames
    <3> QED  BY <1>3, <2>2, <3>1, YandexNames DEF YandexHeld, CopyHeld, CopyDue
  <2>3. CASE want = "uncertain"
    <3>1. next.phase = "look" /\ next.folder = "uncertain" /\ next.answer = "uncertain"
      BY <1>6, <2>3, YandexCopies, YandexNames
    <3> QED  BY <1>3, <2>3, <3>1, YandexNames DEF YandexHeld, CopyHeld, CopyDue
  <2> QED  BY <1>6, <2>1, <2>2, <2>3
<1>10. yandex_row.state # "failed_definite"
  BY <1>6
<1> QED  BY <1>2, <1>3, <1>4, <1>5, <1>7, <1>8, <1>9, <1>10, YandexMoves
         DEF YandexInv, Yandex!TypeOK

LEMMA YandexSets ==
  ASSUME YandexInv, Yandex!OneAtATime', NEW c \in Callers, Yandex!WriteCopies(c)
  PROVE  YandexInv'
<1> DEFINE now == yandex_caller[c]
<1>1. PICK f, answer, value, seen :
        f = now.folder /\ answer = now.answer /\ value = now.value /\ seen = now.seen
  OBVIOUS
<1>2. /\ now.phase = "setting" /\ Yandex!Move(c, Yandex!Answered(answer))
      /\ yandex_sends' = yandex_sends /\ yandex_message' = yandex_message
      /\ yandex_appends' = yandex_appends /\ yandex_mailbox' = yandex_mailbox
  BY <1>1 DEF Yandex!WriteCopies, Yandex!mail, Yandex!imap
<1>3. now.phase \in AtCopy
  BY <1>2, YandexNames
<1>4. /\ f \in Yandex!Folders /\ answer \in Yandex!Answers
      /\ now \in YandexCalls /\ now # Yandex!Idle /\ CopyHeld(now)
      /\ YandexHeld(Yandex!Answered(answer))
  BY <1>1, <1>3, YandexGoesOn
<1>5. /\ value \in Yandex!CopyStates /\ CopyDue(f) /\ value # "not_started"
      /\ value = "stored" => yandex_mailbox[f] > 0
  BY <1>1, <1>2, <1>3, <1>4, YandexCopyFields DEF CopyHeld
<1>6. seen = yandex_row
  BY <1>1, <1>2 DEF YandexInv, YandexHeld
<1>7. /\ yandex_row \in Yandex!Rows /\ YandexTrue
      /\ yandex_row.copy \in [Yandex!Folders -> Yandex!CopyStates]
  BY DEF YandexInv, Yandex!TypeOK, Yandex!Rows
<1>8. PICK copy : copy = [yandex_row.copy EXCEPT ![f] = value]
  OBVIOUS
<1>9. yandex_row' = [yandex_row EXCEPT !.copy = copy]
  BY <1>1, <1>6, <1>8 DEF Yandex!WriteCopies
<1>10. /\ copy \in [Yandex!Folders -> Yandex!CopyStates] /\ copy[f] = value
       /\ \A g \in Yandex!Folders \ {f} : copy[g] = yandex_row.copy[g]
  BY <1>4, <1>5, <1>7, <1>8
<1>11. /\ yandex_row' \in Yandex!Rows /\ yandex_row'.state = yandex_row.state
       /\ yandex_row'.copy = copy
  BY <1>7, <1>9, <1>10 DEF Yandex!Rows
<1>12. YandexTrue'
  BY <1>2, <1>7, <1>11 DEF YandexTrue
<1>13. ASSUME NEW g \in Yandex!Folders
       PROVE  CopyTrue(g)'
  <2>1. CopyTrue(g)
    BY DEF YandexInv
  <2>2. CASE g = f
    BY <1>2, <1>5, <1>10, <1>11, <2>1, <2>2 DEF CopyTrue, CopyDue
  <2>3. CASE g # f
    BY <1>2, <1>10, <1>11, <2>1, <2>3 DEF CopyTrue, CopyDue
  <2> QED  BY <2>2, <2>3
<1>14. PICK next : next = Yandex!Answered(answer)
  OBVIOUS
<1>15. next \in YandexCalls /\ next.phase = "answered" /\ next.answer = answer
  BY <1>4, <1>14, YandexForms
<1>16. YandexSaid(answer)
  BY <1>4, <1>14, <1>15 DEF YandexHeld
<1>17. YandexHeld(next)'
  BY <1>2, <1>11, <1>15, <1>16, YandexNames DEF YandexHeld, YandexSaid
<1> QED  BY <1>2, <1>4, <1>11, <1>12, <1>13, <1>14, <1>15, <1>17, YandexMoves
         DEF YandexInv, Yandex!TypeOK

LEMMA YandexClaimsCopy ==
  ASSUME YandexInv, Yandex!OneAtATime', NEW c \in Callers, Yandex!ClaimCopy(c)
  PROVE  YandexInv'
<1> DEFINE now == yandex_caller[c]
<1>1. PICK f, answer : f = now.folder /\ answer = now.answer
  OBVIOUS
<1>2. now.phase = "claim" /\ now.phase \in AtCopy
  BY YandexNames DEF Yandex!ClaimCopy
<1>3. /\ f \in Yandex!Folders /\ answer \in Yandex!Answers
      /\ now \in YandexCalls /\ now # Yandex!Idle /\ CopyHeld(now)
  BY <1>1, <1>2, YandexGoesOn
<1>4. /\ yandex_row \in Yandex!Rows /\ YandexTrue
      /\ yandex_row.copy \in [Yandex!Folders -> Yandex!CopyStates]
  BY DEF YandexInv, Yandex!TypeOK, Yandex!Rows
<1>5. CASE yandex_row.copy[f] = "not_started"
  <2>1. PICK next : next = Yandex!Copying("append", f, answer)
    OBVIOUS
  <2>2. /\ Yandex!Move(c, next)
        /\ yandex_sends' = yandex_sends /\ yandex_message' = yandex_message
        /\ yandex_appends' = yandex_appends /\ yandex_mailbox' = yandex_mailbox
    BY <1>1, <1>5, <2>1 DEF Yandex!ClaimCopy, Yandex!mail, Yandex!imap
  <2>3. PICK copy : copy = [yandex_row.copy EXCEPT ![f] = "started"]
    OBVIOUS
  <2>4. yandex_row' = [yandex_row EXCEPT !.copy = copy]
    <3>1. yandex_row' = [yandex_row EXCEPT !.copy[f] = "started"]
      BY <1>1, <1>5 DEF Yandex!ClaimCopy
    <3> QED  BY <2>3, <3>1
  <2>5. /\ copy \in [Yandex!Folders -> Yandex!CopyStates] /\ copy[f] = "started"
        /\ \A g \in Yandex!Folders \ {f} : copy[g] = yandex_row.copy[g]
    BY <1>3, <1>4, <2>3, YandexNames
  <2>6. /\ yandex_row' \in Yandex!Rows /\ yandex_row'.state = yandex_row.state
        /\ yandex_row'.copy = copy
    BY <1>4, <2>4, <2>5 DEF Yandex!Rows
  <2>7. YandexTrue'
    BY <1>4, <2>2, <2>6 DEF YandexTrue
  <2>8. CopyDue(f)
    BY <1>1, <1>3 DEF CopyHeld
  <2>9. ASSUME NEW g \in Yandex!Folders
        PROVE  CopyTrue(g)'
    <3>1. CopyTrue(g)
      BY DEF YandexInv
    <3>2. CASE g = f
      BY <2>2, <2>5, <2>6, <2>8, <3>1, <3>2 DEF CopyTrue, CopyDue
    <3>3. CASE g # f
      BY <2>2, <2>5, <2>6, <3>1, <3>3 DEF CopyTrue, CopyDue
    <3> QED  BY <3>2, <3>3
  <2>10. /\ next \in YandexCalls /\ next.phase = "append" /\ next.folder = f
         /\ next.answer = answer
    BY <1>3, <2>1, YandexCopies, YandexNames
  <2>11. yandex_appends[f] = 0
    BY <1>3, <1>5 DEF YandexInv, CopyTrue
  <2>12. CopyHeld(next)'
    BY <1>1, <1>3, <2>2, <2>5, <2>6, <2>10, <2>11 DEF CopyHeld, CopyDue
  <2>13. YandexHeld(next)'
    BY <2>10, <2>12, YandexNames DEF YandexHeld
  <2> QED  BY <1>3, <2>2, <2>6, <2>7, <2>9, <2>10, <2>13, YandexMoves
           DEF YandexInv, Yandex!TypeOK
<1>6. CASE yandex_row.copy[f] # "not_started"
  <2>1. /\ \/ Yandex!Move(c, Yandex!Answered(answer))
           \/ Yandex!Move(c, Yandex!Copying("search", f, answer))
        /\ UNCHANGED <<yandex_row, Yandex!mail, Yandex!imap>>
    BY <1>1, <1>6 DEF Yandex!ClaimCopy
  <2>2. /\ YandexHeld(Yandex!Answered(answer))
        /\ YandexHeld(Yandex!Copying("search", f, answer))
    BY <1>1, <1>2, YandexGoesOn, YandexNames
  <2>3. /\ Yandex!Answered(answer) \in YandexCalls
        /\ Yandex!Copying("search", f, answer) \in YandexCalls
    BY <1>3, YandexForms, YandexCopies, YandexNames
  <2> QED  BY <1>3, <2>1, <2>2, <2>3, YandexWaits
<1> QED  BY <1>5, <1>6

\* The one APPEND of a folder: the copy's state was not started before its claim.
LEMMA YandexAppends ==
  ASSUME YandexInv, Yandex!OneAtATime', NEW c \in Callers, Yandex!AppendCopy(c)
  PROVE  YandexInv'
<1> DEFINE now == yandex_caller[c]
<1>1. PICK f, answer : f = now.folder /\ answer = now.answer
  OBVIOUS
<1>2. now.phase = "append" /\ now.phase \in AtCopy
  BY YandexNames DEF Yandex!AppendCopy
<1>3. /\ f \in Yandex!Folders /\ answer \in Yandex!Answers
      /\ now \in YandexCalls /\ now # Yandex!Idle /\ CopyHeld(now)
  BY <1>1, <1>2, YandexGoesOn
<1>4. /\ CopyDue(f) /\ yandex_row.copy[f] = "started" /\ yandex_appends[f] = 0
      /\ answer \in (IF f = "sent" THEN {"sent", "already_sent"} ELSE {"uncertain"})
  BY <1>1, <1>2, <1>3 DEF CopyHeld
<1>5. /\ yandex_appends \in [Yandex!Folders -> Nat]
      /\ yandex_mailbox \in [Yandex!Folders -> Nat] /\ yandex_mailbox[f] = 0
  <2>1. /\ yandex_appends \in [Yandex!Folders -> Nat]
        /\ yandex_mailbox \in [Yandex!Folders -> Nat]
    BY DEF YandexInv, Yandex!TypeOK
  <2>2. yandex_mailbox[f] <= yandex_appends[f]
    BY <1>3 DEF YandexInv, CopyTrue
  <2> QED  BY <1>3, <1>4, <2>1, <2>2
<1>6. /\ yandex_row' = yandex_row /\ yandex_sends' = yandex_sends
      /\ yandex_message' = yandex_message
      /\ yandex_appends' = [yandex_appends EXCEPT ![f] = @ + 1]
  BY <1>1 DEF Yandex!AppendCopy, Yandex!mail
<1>7. PICK next :
        /\ Yandex!Move(c, next)
        /\ \/ /\ yandex_mailbox' = [yandex_mailbox EXCEPT ![f] = @ + 1]
              /\ next = Yandex!Setting(f, "stored", answer)
           \/ /\ \/ yandex_mailbox' = [yandex_mailbox EXCEPT ![f] = @ + 1]
                 \/ yandex_mailbox' = yandex_mailbox
              /\ next = Yandex!Copying("search", f, answer)
  BY <1>1 DEF Yandex!AppendCopy
<1>8. /\ yandex_appends' \in [Yandex!Folders -> Nat] /\ yandex_appends'[f] = 1
      /\ \A g \in Yandex!Folders \ {f} : yandex_appends'[g] = yandex_appends[g]
  BY <1>3, <1>4, <1>5, <1>6
<1>9. /\ yandex_mailbox' \in [Yandex!Folders -> Nat] /\ yandex_mailbox'[f] \in 0 .. 1
      /\ \A g \in Yandex!Folders \ {f} : yandex_mailbox'[g] = yandex_mailbox[g]
      /\ next = Yandex!Setting(f, "stored", answer) =>
           yandex_mailbox'[f] = 1 \/ next = Yandex!Copying("search", f, answer)
  BY <1>3, <1>5, <1>7
<1>10. YandexTrue'
  BY <1>6 DEF YandexInv, YandexTrue
<1>11. ASSUME NEW g \in Yandex!Folders
       PROVE  CopyTrue(g)'
  <2>1. CopyTrue(g)
    BY DEF YandexInv
  <2>2. CASE g = f
    BY <1>4, <1>6, <1>8, <1>9, <2>2 DEF CopyTrue, CopyDue
  <2>3. CASE g # f
    BY <1>6, <1>8, <1>9, <2>1, <2>3 DEF CopyTrue, CopyDue
  <2> QED  BY <2>2, <2>3
<1>12. CASE next = Yandex!Copying("search", f, answer)
  <2>1. /\ next \in YandexCalls /\ next.phase = "search" /\ next.folder = f
        /\ next.answer = answer
    BY <1>3, <1>12, YandexCopies, YandexNames
  <2>2. YandexHeld(next)'
    BY <1>4, <1>6, <2>1, YandexNames DEF YandexHeld, CopyHeld, CopyDue
  <2> QED  BY <1>3, <1>6, <1>7, <1>8, <1>9, <1>10, <1>11, <2>1, <2>2, YandexMoves
           DEF YandexInv, Yandex!TypeOK
<1>13. CASE next = Yandex!Setting(f, "stored", answer) /\ yandex_mailbox'[f] = 1
  <2>1. /\ next \in YandexCalls /\ next.phase = "set" /\ next.folder = f
        /\ next.value = "stored" /\ next.answer = answer
    BY <1>3, <1>13, YandexCopies, YandexNames
  <2>2. YandexHeld(next)'
    BY <1>4, <1>6, <1>13, <2>1, YandexNames DEF YandexHeld, CopyHeld, CopyDue
  <2> QED  BY <1>3, <1>6, <1>7, <1>8, <1>9, <1>10, <1>11, <2>1, <2>2, YandexMoves
           DEF YandexInv, Yandex!TypeOK
<1> QED  BY <1>7, <1>9, <1>12, <1>13

LEMMA YandexDecides ==
  ASSUME YandexInv, Yandex!ServerDecides
  PROVE  YandexInv'
<1>1. /\ yandex_message = "handed" /\ yandex_message' \in {"delivered", "refused"}
      /\ yandex_row' = yandex_row /\ yandex_caller' = yandex_caller
      /\ yandex_sends' = yandex_sends /\ yandex_told' = yandex_told
      /\ yandex_appends' = yandex_appends /\ yandex_mailbox' = yandex_mailbox
  BY DEF Yandex!ServerDecides, Yandex!imap
<1>2. ASSUME NEW answer, YandexSaid(answer)
      PROVE  YandexSaid(answer)'
  BY <1>1, <1>2 DEF YandexSaid
<1>3. ASSUME NEW held, YandexHeld(held)
      PROVE  YandexHeld(held)'
  <2>1. held.phase \in {"store", "storing"} => StoreHeld(held)'
    BY <1>1, <1>3 DEF YandexHeld, StoreHeld
  <2>2. held.phase \in AtCopy => CopyHeld(held)'
    BY <1>1, <1>3 DEF YandexHeld, CopyHeld, CopyDue
  <2> QED  BY <1>1, <1>2, <1>3, <2>1, <2>2 DEF YandexHeld
<1>4. ASSUME NEW c \in Callers
      PROVE  YandexHeld(yandex_caller[c])'
  <2>1. PICK held : held = yandex_caller[c]
    OBVIOUS
  <2> QED  BY <1>1, <1>3, <2>1 DEF YandexInv
<1>5. Yandex!TypeOK' /\ Yandex!OneAtATime'
  BY <1>1 DEF YandexInv, Yandex!TypeOK, Yandex!OneAtATime, Yandex!Messages
<1>6. YandexTrue' /\ \A f \in Yandex!Folders : CopyTrue(f)'
  BY <1>1 DEF YandexInv, YandexTrue, CopyTrue, CopyDue
<1> QED  BY <1>1, <1>2, <1>4, <1>5, <1>6 DEF YandexInv

LEMMA YandexStep ==
  ASSUME YandexInv, Yandex!SerialNext
  PROVE  YandexInv'
BY YandexDecides, YandexSendLooks, YandexCopyLooks, YandexClaims, YandexHands,
   YandexWrites, YandexSets, YandexClaimsCopy, YandexAppends
DEF Yandex!SerialNext, Yandex!Next, Yandex!SendStep, Yandex!CopyStep

LEMMA YandexStart ==
  ASSUME Yandex!Init
  PROVE  YandexInv
<1>1. /\ yandex_row = [state |-> "none", copy |-> [f \in Yandex!Folders |-> "not_started"]]
      /\ yandex_caller = [c \in Callers |-> Yandex!Idle]
      /\ yandex_sends = 0 /\ yandex_message = "unsent" /\ yandex_told = {}
      /\ yandex_appends = [f \in Yandex!Folders |-> 0]
      /\ yandex_mailbox = [f \in Yandex!Folders |-> 0]
  BY DEF Yandex!Init
<1>2. /\ yandex_row \in Yandex!Rows /\ yandex_row.state = "none"
      /\ \A f \in Yandex!Folders : yandex_row.copy[f] = "not_started"
  BY <1>1, YandexNames DEF Yandex!Rows
<1>3. Yandex!TypeOK
  BY <1>1, <1>2, YandexForms DEF Yandex!TypeOK, Yandex!Messages
<1>4. Yandex!OneAtATime /\ \A c \in Callers : YandexHeld(yandex_caller[c])
  BY <1>1, YandexForms, YandexNames DEF Yandex!OneAtATime, YandexHeld
<1>5. YandexTrue /\ \A f \in Yandex!Folders : CopyTrue(f)
  BY <1>1, <1>2 DEF YandexTrue, CopyTrue
<1> QED  BY <1>1, <1>3, <1>4, <1>5 DEF YandexInv

\* What the row and the callers say of the message.
LEMMA YandexSays ==
  ASSUME YandexInv
  PROVE  Yandex!SaidIsTrue
<1>1. YandexTrue /\ \A answer \in yandex_told : YandexSaid(answer)
  BY DEF YandexInv
<1> QED  BY <1>1 DEF YandexTrue, YandexSaid, Yandex!SaidIsTrue

LEMMA YandexCopiesSound ==
  ASSUME YandexInv
  PROVE  Yandex!AtMostOneCopy /\ Yandex!CopiesTellTheTruth
<1>1. /\ \A f \in Yandex!Folders : CopyTrue(f)
      /\ yandex_appends \in [Yandex!Folders -> Nat]
      /\ yandex_mailbox \in [Yandex!Folders -> Nat]
  BY DEF YandexInv, Yandex!TypeOK
<1>2. Yandex!AtMostOneCopy
  BY <1>1 DEF Yandex!AtMostOneCopy, CopyTrue
<1>3. \A f \in Yandex!Folders : yandex_row.copy[f] = "stored" => yandex_mailbox[f] > 0
  BY <1>1 DEF CopyTrue
<1>4. ASSUME NEW f \in Yandex!Folders, yandex_mailbox[f] > 0
      PROVE  CopyDue(f)
  <2>1. yandex_mailbox[f] <= yandex_appends[f] /\ yandex_appends[f] # 0
    BY <1>1, <1>4 DEF CopyTrue
  <2> QED  BY <1>1, <2>1 DEF CopyTrue
<1> QED  BY <1>2, <1>3, <1>4, YandexNames DEF Yandex!CopiesTellTheTruth, CopyDue

\* The step seen from SendOnce.
LEMMA YandexPromise ==
  ASSUME YandexInv, Yandex!SerialNext
  PROVE  [Yandex!Promise!Next]_<<yandex_message, Yandex!verdict>>
<1>1. CASE Yandex!ServerDecides
  <2>1. Yandex!Promise!Decide
    BY <1>1 DEF Yandex!ServerDecides, Yandex!Promise!Decide, Yandex!verdict
  <2> QED  BY <2>1 DEF Yandex!Promise!Next
<1>2. ASSUME NEW c \in Callers,
             Yandex!SendStep(c) \/ Yandex!CopyStep(c) \/ Yandex!Leave(c)
      PROVE  [Yandex!Promise!Next]_<<yandex_message, Yandex!verdict>>
  <2>1. CASE Yandex!ClaimStarted(c) /\ yandex_row.state = "none"
    <3>1. yandex_row \in Yandex!Rows
      BY DEF YandexInv, Yandex!TypeOK
    <3>2. yandex_message' = yandex_message /\ yandex_row'.state = "started"
      BY <2>1, <3>1 DEF Yandex!ClaimStarted, Yandex!mail, Yandex!Rows
    <3>3. Yandex!Promise!Claim
      BY <2>1, <3>2 DEF Yandex!Promise!Claim, Yandex!verdict
    <3> QED  BY <3>3 DEF Yandex!Promise!Next
  <2>2. CASE Yandex!SendRfc822(c)
    <3>1. yandex_row.state = "started" /\ yandex_message = "unsent"
      BY <2>2 DEF Yandex!SendRfc822, YandexInv, YandexHeld
    <3>2. yandex_message' = "handed" /\ yandex_row' = yandex_row
      BY <2>2 DEF Yandex!SendRfc822
    <3>3. Yandex!Promise!Hand
      BY <3>1, <3>2 DEF Yandex!Promise!Hand, Yandex!verdict
    <3> QED  BY <3>3 DEF Yandex!Promise!Next
  <2>3. CASE Yandex!WriteRow(c)
    <3>1. PICK want : want = yandex_caller[c].want
      OBVIOUS
    <3>2. yandex_row'.state = want /\ StoreHeld(yandex_caller[c])
      BY <2>3, <3>1, YandexWritten
    <3>3. yandex_message' = yandex_message
      BY <2>3 DEF Yandex!WriteRow, Yandex!mail
    <3>4. /\ yandex_row.state \in {"started", "uncertain"}
          /\ \/ want = "succeeded" /\ yandex_message = "delivered"
             \/ want = "failed_definite" /\ yandex_message = "refused"
             \/ want = "uncertain"
      BY <3>1, <3>2 DEF StoreHeld
    <3>5. Yandex!verdict = "open"
      BY <3>4 DEF Yandex!verdict
    <3>6. CASE want = "succeeded" /\ yandex_message = "delivered"
      <4>1. Yandex!verdict' = "delivered"
        BY <3>2, <3>6 DEF Yandex!verdict
      <4>2. Yandex!Promise!LearnDelivered
        BY <3>3, <3>5, <3>6, <4>1 DEF Yandex!Promise!LearnDelivered
      <4> QED  BY <4>2 DEF Yandex!Promise!Next
    <3>7. CASE want = "failed_definite" /\ yandex_message = "refused"
      <4>1. Yandex!verdict' = "failed"
        BY <3>2, <3>7 DEF Yandex!verdict
      <4>2. Yandex!Promise!LearnFailed
        BY <3>3, <3>5, <3>7, <4>1 DEF Yandex!Promise!LearnFailed
      <4> QED  BY <4>2 DEF Yandex!Promise!Next
    <3>8. CASE want = "uncertain"
      <4>1. Yandex!verdict' = "open"
        BY <3>2, <3>8 DEF Yandex!verdict
      <4> QED  BY <3>3, <3>5, <4>1
    <3> QED  BY <3>4, <3>6, <3>7, <3>8
  <2>4. CASE ~ (Yandex!ClaimStarted(c) /\ yandex_row.state = "none")
             /\ ~ Yandex!SendRfc822(c) /\ ~ Yandex!WriteRow(c)
    <3>1. yandex_message' = yandex_message
      BY <1>2, <2>4 DEF Yandex!mail, Yandex!SendStep, Yandex!CopyStep, Yandex!Leave,
         Yandex!AccountMissing, Yandex!ClaimStarted, Yandex!PasswordMissing,
         Yandex!SendSucceeds, Yandex!SendRefused, Yandex!SendAmbiguous,
         Yandex!ResumeAttempt, Yandex!ReadRow, Yandex!StoreFails, Yandex!LoadCopyState,
         Yandex!LookIntoFolder, Yandex!ClaimCopy, Yandex!AppendRefused,
         Yandex!AppendCopy, Yandex!SearchFolder, Yandex!CopyMissing, Yandex!ReadCopies,
         Yandex!WriteCopies, Yandex!CopyBreaks
    <3>2. yandex_row'.state = yandex_row.state
      <4>1. yandex_row \in Yandex!Rows
        BY DEF YandexInv, Yandex!TypeOK
      <4>2. CASE Yandex!WriteCopies(c)
        BY <4>1, <4>2 DEF Yandex!WriteCopies, Yandex!Rows
      <4>3. CASE Yandex!ClaimCopy(c)
        BY <4>1, <4>3 DEF Yandex!ClaimCopy, Yandex!Rows
      <4>4. CASE ~ Yandex!WriteCopies(c) /\ ~ Yandex!ClaimCopy(c)
        BY <1>2, <2>4, <4>4 DEF Yandex!SendStep, Yandex!CopyStep, Yandex!Leave,
         Yandex!AccountMissing, Yandex!ClaimStarted, Yandex!PasswordMissing,
         Yandex!SendSucceeds, Yandex!SendRefused, Yandex!SendAmbiguous,
         Yandex!ResumeAttempt, Yandex!ReadRow, Yandex!StoreFails, Yandex!LoadCopyState,
         Yandex!LookIntoFolder, Yandex!AppendRefused,
         Yandex!AppendCopy, Yandex!SearchFolder, Yandex!CopyMissing, Yandex!ReadCopies,
         Yandex!CopyBreaks
      <4> QED  BY <4>2, <4>3, <4>4
    <3> QED  BY <3>1, <3>2 DEF Yandex!verdict
  <2> QED  BY <2>1, <2>2, <2>3, <2>4
<1> QED  BY <1>1, <1>2 DEF Yandex!SerialNext, Yandex!Next

-----------------------------------------------------------------------------
(* The parts together.  A behaviour follows one of them, and what it does   *)
(* not follow stands still.                                                *)

PartsInv ==
  /\ which = "plan" => PlanInv
  /\ which = "yandex" => YandexInv
  /\ which = "event" => EventInv
  /\ which = "chat" => ChatInv
  /\ which = "channel" => ChannelInv /\ PostBounds
  /\ which = "teams" => TeamsInv /\ TeamsFresh /\ TeamsBounds
  /\ which = "peers" => PeersInv

Stand == UNCHANGED <<which, allVars, yandexVars, eventVars, chatVars, postVars, teamsVars,
                     peerVars>>
AnyStep == BothNext \/ Stand

LEMMA YandexStands ==
  ASSUME YandexInv, UNCHANGED yandexVars
  PROVE  YandexInv'
BY DEF YandexInv, yandexVars, Yandex!TypeOK, Yandex!OneAtATime, YandexTrue, CopyTrue,
       CopyDue, YandexSaid, YandexHeld, StoreHeld, CopyHeld

LEMMA EventStands ==
  ASSUME EventInv, UNCHANGED eventVars
  PROVE  EventInv'
BY DEF EventInv, eventVars, Calendar!TypeOK, Calendar!OneAtATime, EventFacts, EventTrue,
       EventFailed, EventOpen, EventSaid, EventHeld

LEMMA ChatStands ==
  ASSUME ChatInv, UNCHANGED chatVars
  PROVE  ChatInv'
BY DEF ChatInv, chatVars, Chat!TypeOK, Chat!OneAtATime, ChatFacts, ChatTrue,
       ChatSaid, ChatOpen, ChatHeld

\* The part that is followed takes a step of its own, or nothing happens.
LEMMA StepsOfParts ==
  ASSUME AnyStep
  PROVE  /\ which' = which
         /\ which = "plan" => [PlanNext]_allVars
         /\ which = "yandex" => Yandex!SerialNext \/ UNCHANGED yandexVars
         /\ which = "event" => Calendar!SerialNext \/ UNCHANGED eventVars
         /\ which = "chat" => Chat!SerialNext \/ UNCHANGED chatVars
         /\ which = "channel" => Channel!Next \/ UNCHANGED postVars
         /\ which = "teams" => Teams!Next \/ UNCHANGED teamsVars
         /\ which = "peers" => Telegram!Next \/ UNCHANGED peerVars
BY DEF AnyStep, Stand, BothNext

LEMMA PartsStart ==
  ASSUME BothInit
  PROVE  PartsInv
BY PlanInvInit, YandexStart, EventStart, ChatStart, ChannelStarts, PostBoundsStart,
   TeamsStart, FreshStart, BoundsStart, PeersStart
DEF BothInit, PartsInv

LEMMA PartsStep ==
  ASSUME PartsInv, AnyStep
  PROVE  PartsInv'
BY StepsOfParts, PlanInvStep, YandexStep, YandexStands, EventStep, EventStands, ChatStep,
   ChatStands, ChannelStep, PostBoundsStep, TeamsStep, TeamsStands, FreshStep, FreshStands,
   BoundsStep, PeersStep
DEF PartsInv

LEMMA PartsAlways == BothSpec => []PartsInv
<1>1. BothInit => PartsInv
  BY PartsStart
<1>2. PartsInv /\ AnyStep => PartsInv'
  BY PartsStep
<1>3. [BothNext]_<<which, allVars, yandexVars, eventVars, chatVars, postVars, teamsVars,
                   peerVars>> => AnyStep
  BY DEF AnyStep, Stand
<1> QED  BY <1>1, <1>2, <1>3, PTL DEF BothSpec

-----------------------------------------------------------------------------

\* Whatever a caller is told, a plan counts as, or a row says of an approved e-mail,
\* event or chat message is what became of it, though the row and the plan are
\* committed apart and answers are lost (the four external action services).
THEOREM WhatIsSaidIsTrue == BothSpec => []SaidIsTrue
<1>1. PartsInv => SaidIsTrue
  <2>1. PlanInv => PlanAgreesWithAttempt
    BY DEF PlanInv, ExecutedInv, Inv, SendInv, StateTrue, PlanAgreesWithAttempt
  <2>2. YandexInv => Yandex!SaidIsTrue
    BY YandexSays
  <2>3. EventInv => Calendar!AnswersAreTrue
    <3> SUFFICES ASSUME EventInv
                 PROVE  Calendar!AnswersAreTrue
      OBVIOUS
    <3>1. EventFacts /\ event_created \in Nat
      BY DEF EventInv, Calendar!TypeOK
    <3>2. \A answer \in event_told : EventSaid(answer)
      BY <3>1 DEF EventFacts
    <3>3. event_told \cap {"created", "exists", "missing", "mismatch"} # {} =>
            event_created > 0
      BY <3>1, <3>2 DEF EventFacts, EventSaid
    <3>4. "refused" \in event_told /\ event_provider = "yandex" => event # "ours"
      BY <3>1, <3>2 DEF EventFacts, EventSaid, EventTrue, EventFailed
    <3>5. "missing" \in event_told => event = "deleted"
      BY <3>2 DEF EventSaid
    <3> QED  BY <3>3, <3>4, <3>5 DEF Calendar!AnswersAreTrue
  <2>4. ChatInv => Chat!AnswersAreTrue
    BY DEF ChatInv, ChatFacts, ChatTrue, ChatSaid, Chat!AnswersAreTrue
  <2> QED  BY <2>1, <2>2, <2>3, <2>4 DEF PartsInv, SaidIsTrue
<1> QED  BY <1>1, PartsAlways, PTL

\* A copy of a message is appended to a folder once at most, and its recorded state is
\* the truth, through lost APPENDs and calls that die anywhere in between
\* (_store_yandex_sent_copy and _store_yandex_uncertain_copy).
THEOREM CopiesStaySound == BothSpec => []CopiesAreSound
<1>1. PartsInv => CopiesAreSound
  BY YandexCopiesSound DEF PartsInv, CopiesAreSound
<1> QED  BY <1>1, PartsAlways, PTL

\* Rows, answers, wires, watermarks and payloads are what the code has columns for, in
\* each part, whatever overlaps and fails.
THEOREM PartsAreTyped == BothSpec => []BothTypeOK
<1>1. PartsInv => BothTypeOK
  <2>1. PlanInv => PlanTypeOK
    BY DEF PlanInv, Inv, LockInv, ExecutedInv, PlanTypeOK
  <2>2. (YandexInv => Yandex!TypeOK) /\ (EventInv => Calendar!TypeOK)
          /\ (ChatInv => Chat!TypeOK) /\ (PeersInv => Telegram!TypeOK)
    BY DEF YandexInv, EventInv, ChatInv, PeersInv
  <2> QED  BY <2>1, <2>2, ChannelTyped, TeamsTyped DEF PartsInv, BothTypeOK
<1> QED  BY <1>1, PartsAlways, PTL

\* A Telegram peer is left out of one run at most, and a known message is looked up
\* again within two sweeps of its peer, through budgets that run out anywhere and runs
\* that are rolled back (run and reconcile_recent_messages of the Telegram services).
THEOREM EveryoneIsServed == BothSpec => []EveryoneHasATurn
<1>1. PartsInv => EveryoneHasATurn
  BY PeersPromise DEF PartsInv, EveryoneHasATurn
<1> QED  BY <1>1, PartsAlways, PTL

\* A message of a Teams chat at or below the watermark is stored, through passes and
\* notifications' jobs that overlap, write the same state and fail anywhere (the teams
\* connector's sync and notifications).
THEOREM TeamsWatermarkIsStored == BothSpec => []WatermarkIsStored
<1>1. PartsInv => WatermarkIsStored
  BY DEF PartsInv, TeamsInv, EntrySound, WatermarkIsStored
<1> QED  BY <1>1, PartsAlways, PTL

\* What a Mattermost channel's entry counts as scanned, and what lies between the first
\* post read live and the anchor, is stored, through failed pages, budgets that run out
\* and any change of history_days (_sync_new_posts, plan_history_active_scan,
\* complete_active_history).
THEOREM PostsStayStored == BothSpec => []PostsAreStored
<1>1. PartsInv => PostsAreStored
  BY ChannelPromise DEF PartsInv, PostsAreStored
<1> QED  BY <1>1, PartsAlways, PTL

\* A post whose last change lies below the watermark of the sweeps is stored as it is;
\* and when no job of a Teams chat waits and no pass runs, every object says what its
\* message says, unless nobody was notified or a pass stored an older revision it had
\* listed (_sync_edit_sweep; process_graph_notification next to the worker's pass).
THEOREM ChangesStayStored == BothSpec => []ChangesAreStored
<1>1. PartsInv => ChangesAreStored
  BY ChannelPromise, FreshIsQuiet DEF PartsInv, ChangesAreStored
<1> QED  BY <1>1, PartsAlways, PTL

\* Creating an event never writes over one the user has changed, whatever request is
\* taken late (create_event with If-None-Match, or an identifier of ours).
THEOREM UserChangesStand == BothSpec => NothingIsOverwritten
<1>1. PartsInv /\ AnyStep => [which = "event" => Calendar!NothingIsOverwritten]_eventVars
  BY StepsOfParts, EventNotOverwritten DEF PartsInv
<1>2. [BothNext]_<<which, allVars, yandexVars, eventVars, chatVars, postVars, teamsVars,
                   peerVars>> => AnyStep
  BY DEF AnyStep, Stand
<1> QED  BY <1>1, <1>2, PartsAlways, PTL DEF BothSpec, NothingIsOverwritten

\* Each of the four actions keeps the promise of SendOnce: what was approved is handed
\* over once at most, the recorded verdict is the truth, and it stands.
THEOREM ActionsSendOnce == BothSpec => EachSendsOnce
<1>1. BothInit => /\ which = "plan" => Promise!Init
                  /\ which = "yandex" => Yandex!Promise!Init
                  /\ which = "event" => Calendar!Promise!Init
                  /\ which = "chat" => Chat!Promise!Init
  <2> SUFFICES ASSUME BothInit
               PROVE  /\ which = "plan" => Promise!Init
                      /\ which = "yandex" => Yandex!Promise!Init
                      /\ which = "event" => Calendar!Promise!Init
                      /\ which = "chat" => Chat!Promise!Init
    OBVIOUS
  <2>1. which = "plan" => Promise!Init
    BY PromiseInit DEF BothInit
  <2>2. which = "yandex" => Yandex!Promise!Init
    BY DEF BothInit, Yandex!Init, Yandex!Promise!Init, Yandex!verdict
  <2>3. which = "event" => Calendar!Promise!Init
    BY DEF BothInit, Calendar!Init, Calendar!Promise!Init, Calendar!verdict,
           Calendar!message
  <2>4. which = "chat" => Chat!Promise!Init
    BY DEF BothInit, Chat!Init, Chat!Promise!Init, Chat!verdict
  <2> QED  BY <2>1, <2>2, <2>3, <2>4
<1>2. PartsInv /\ AnyStep =>
        [which = "plan" => [Promise!Next]_<<message, verdict>>]_allVars
  BY StepsOfParts, PromiseStep DEF PartsInv
<1>3. PartsInv /\ AnyStep =>
        [which = "yandex" =>
          [Yandex!Promise!Next]_<<yandex_message, Yandex!verdict>>]_yandexVars
  BY StepsOfParts, YandexPromise DEF PartsInv
<1>4. PartsInv /\ AnyStep =>
        [which = "event" =>
          [Calendar!Promise!Next]_<<Calendar!message, Calendar!verdict>>]_eventVars
  BY StepsOfParts, EventPromise DEF PartsInv
<1>5. PartsInv /\ AnyStep =>
        [which = "chat" =>
          [Chat!Promise!Next]_<<chat_message, Chat!verdict>>]_chatVars
  BY StepsOfParts, ChatPromise DEF PartsInv
<1>6. [BothNext]_<<which, allVars, yandexVars, eventVars, chatVars, postVars, teamsVars,
                   peerVars>> => AnyStep
  BY DEF AnyStep, Stand
<1> QED  BY <1>1, <1>2, <1>3, <1>4, <1>5, <1>6, PartsAlways, PTL
         DEF BothSpec, EachSendsOnce

=============================================================================
