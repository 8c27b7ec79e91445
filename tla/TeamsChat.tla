----------------------------- MODULE TeamsChat ------------------------------
(***************************************************************************)
(* Reading one Microsoft Teams chat (backend/app/connectors/teams/sync.py, *)
(* notifications.py, subscriptions.py, materialize.py).  The worker's pass *)
(* lists the messages down to a watermark, in one transaction with the new *)
(* watermark; a notification of Graph makes a job that fetches one message *)
(* and stores it.  Pass and job run in different lanes, next to each other.*)
(*                                                                         *)
(* Messages are numbered as they are written.  A revision of a message is  *)
(* what it says; an object that says it already is not written, and one    *)
(* that the pass has written is locked until the pass ends.                *)
(***************************************************************************)
EXTENDS Pages, FiniteSetsExt

CONSTANTS
  Page,       \* messages of a page
  MaxPages,   \* max_message_pages_per_chat
  MaxItems,   \* bounds: messages ever written
  MaxEdits,   \*         changes of messages
  MaxSub      \*         subscriptions

VARIABLES
  rev,     \* rev[m] is the revision of message m, 0 before it is written
  obj,     \* obj[m] is the revision the object holds, 0 for none
  state,   \* the chat's entry in sync_state: is it there, and its watermark
  sub,     \* the subscription on record, and whether Graph still serves it
  jobs,    \* the notifications queued
  sync,    \* where the pass stands
  notice,  \* where the notification's job stands
  missed,  \* history: revisions nobody was notified of, or whose job was dropped
  rewound  \* history: messages of which a pass stored an older revision

vars == <<rev, obj, state, sub, jobs, sync, notice, missed, rewound>>
chat == <<rev, sub, jobs, missed>>

Numbers == 1 .. MaxItems
Written == {m \in Numbers : rev[m] # 0}

Revs == 1 .. (MaxEdits + 1)

Idle == [phase |-> "idle"]
Entries == [known : BOOLEAN, mark : 0 .. MaxItems]
Events == [message : Numbers, rev : Revs, sub : 1 .. MaxSub]
Nothing == [m \in {} |-> 0]

TypeOK ==
  /\ rev \in [Numbers -> {0} \union Revs]
  /\ \A m \in Numbers : obj[m] \in 0 .. rev[m]
  /\ state \in Entries /\ (state.mark # 0 => state.known)
  /\ sub \in [id : 0 .. MaxSub, live : BOOLEAN]
  /\ jobs \subseteq Events
  /\ sync.phase \in {"idle", "listing", "page", "end"}
  /\ notice.phase \in {"idle", "begun", "fetched", "locked"}
  /\ missed \subseteq Numbers \X Revs /\ rewound \subseteq Numbers

Init ==
  /\ rev = [m \in Numbers |-> 0] /\ obj = rev
  /\ state = [known |-> FALSE, mark |-> 0]
  /\ sub = [id |-> 0, live |-> FALSE]
  /\ jobs = {} /\ sync = Idle /\ notice = Idle
  /\ missed = {} /\ rewound = {}

-----------------------------------------------------------------------------
(* The chat and the subscription.                                          *)

\* Mutant of Notified: one notification waits, or is worked on, for each message.
BugNotified(m) ==
  IF sub.live
  THEN /\ jobs' = IF \E j \in jobs : j.message = m THEN jobs
                  ELSE jobs \union {[message |-> m, rev |-> rev'[m], sub |-> sub.id]}
       /\ UNCHANGED missed
  ELSE missed' = missed \union {<<m, rev'[m]>>} /\ UNCHANGED jobs

\* enqueue_graph_notifications.
Notified(m) ==
  IF sub.live
  THEN /\ jobs' = jobs \union {[message |-> m, rev |-> rev'[m], sub |-> sub.id]}
       /\ UNCHANGED missed
  ELSE missed' = missed \union {<<m, rev'[m]>>} /\ UNCHANGED jobs

\* Somebody writes a message, or changes one.
Say ==
  \E m \in Numbers :
    /\ 1 .. (m - 1) \subseteq Written
    /\ rev[m] = 0 \/ MapThenSumSet(LAMBDA k : rev[k] - 1, Written) < MaxEdits
    /\ rev' = [rev EXCEPT ![m] = @ + 1]
    /\ Notified(m)
    /\ UNCHANGED <<obj, state, sub, sync, notice, rewound>>

\* Graph ends the subscription, or it expires.
SubscriptionEnds ==
  /\ sub.live
  /\ sub' = [sub EXCEPT !.live = FALSE]
  /\ UNCHANGED <<rev, obj, state, jobs, sync, notice, missed, rewound>>

-----------------------------------------------------------------------------
(* The worker's pass.                                                      *)

\* TeamsSubscriptionService.ensure, committed; it may fail, and the pass goes on.
Ensured ==
  \/ sub' = sub
  \/ /\ ~ sub.live /\ sub.id < MaxSub
     /\ sub' = [id |-> sub.id + 1, live |-> TRUE]

\* Then the chats are listed: one whose preview is not above the watermark is left alone.
BeginSync ==
  /\ sync = Idle
  /\ Ensured
  /\ LET seen == state.mark # 0 /\ state.mark = Cardinality(Written)
     IN sync' = [phase |-> IF seen THEN "end" ELSE "listing", mine |-> state,
                 below |-> MaxItems + 1, pages |-> 0, newest |-> state.mark,
                 todo |-> Nothing, wrote |-> Nothing]
  /\ UNCHANGED <<rev, obj, state, jobs, notice, missed, rewound>>

\* list_chat_messages: the next page, newest first.
ListPage ==
  /\ sync.phase = "listing" /\ sync.pages < MaxPages
  /\ LET page == Largest({m \in Written : m < sync.below}, Page)
     IN sync' = [sync EXCEPT
          !.phase = "page", !.pages = @ + 1,
          !.below = IF page = {} THEN 0 ELSE Min(page),
          !.newest = Max({@} \union page),
          !.todo = [m \in {k \in page : k >= sync.mine.mark} |-> rev[m]]]
  /\ UNCHANGED <<chat, obj, state, notice, rewound>>

\* upsert_message for each message of the page.  What is not listed is below the
\* watermark, or there is no next page.
StorePage ==
  /\ sync.phase = "page"
  /\ LET todo == sync.todo
         differ == {m \in DOMAIN todo : obj[m] # todo[m]}
         over == sync.below <= Max({1, sync.mine.mark})
     IN sync' = [sync EXCEPT
          !.phase = IF over THEN "end" ELSE "listing",
          !.todo = Nothing,
          !.wrote = [m \in DOMAIN @ \union differ |->
                       IF m \in differ THEN todo[m] ELSE sync.wrote[m]]]
  /\ UNCHANGED <<chat, obj, state, notice, rewound>>

\* A call to Graph fails, or there are more pages than the bound: all is rolled back.
AbortSync ==
  /\ sync # Idle
  /\ sync' = Idle
  /\ UNCHANGED <<chat, obj, state, notice, rewound>>

Commit ==
  /\ obj' = [m \in Numbers |-> IF m \in DOMAIN sync.wrote THEN sync.wrote[m] ELSE obj[m]]
  /\ rewound' = rewound \union {m \in DOMAIN sync.wrote : sync.wrote[m] < obj[m]}
  /\ state' = [known |-> TRUE, mark |-> sync.newest]
  /\ sync' = Idle
  /\ UNCHANGED <<chat, notice>>

\* Mutant of EndSync: a pass that has reached the bound keeps what it has.
BugEndSync ==
  /\ sync.phase = "end" \/ (sync.phase = "listing" /\ sync.pages = MaxPages)
  /\ notice.phase # "locked"
  /\ Commit

\* update_sync_state with the state the pass has read at its start, and the messages,
\* unless the account's row is locked.
EndSync ==
  /\ sync.phase = "end"
  /\ notice.phase # "locked"
  /\ Commit

-----------------------------------------------------------------------------
(* The job of a notification.                                              *)

\* The job is over with nothing stored, and nobody is notified of that revision again.
Drop(j) ==
  /\ jobs' = jobs \ {j}
  /\ missed' = missed \union {<<j.message, j.rev>>}

\* process_graph_notification returns at once for an account that has to be
\* reconnected, and for a job of a subscription that was replaced.
BeginNotice ==
  /\ notice = Idle
  /\ \E j \in jobs :
       \/ Drop(j) /\ notice' = Idle
       \/ /\ j.sub = sub.id
          /\ notice' = [phase |-> "begun", job |-> j, mine |-> state]
          /\ UNCHANGED <<jobs, missed>>
  /\ UNCHANGED <<rev, obj, state, sub, sync, rewound>>

\* get_chat_message, after get_chat for a chat that is not in the state.
FetchMessage ==
  /\ notice.phase = "begun"
  /\ notice' = [phase |-> "fetched", job |-> notice.job, mine |-> notice.mine,
                rev |-> rev[notice.job.message]]
  /\ UNCHANGED <<chat, obj, state, sync, rewound>>

Message == notice.job.message
\* The update of the object has to wait for the pass.
Blocked == sync # Idle /\ obj[Message] # notice.rev /\ Message \in DOMAIN sync.wrote

\* The account's row is written first, if at all, and stays locked meanwhile.
WaitLocked ==
  /\ notice.phase = "fetched" /\ Blocked /\ ~ notice.mine.known
  /\ notice' = [notice EXCEPT !.phase = "locked"]
  /\ UNCHANGED <<chat, obj, state, sync, rewound>>

\* upsert_message, the whole sync_state if the chat was not in it, and the job's end.
EndNotice ==
  /\ notice.phase \in {"fetched", "locked"} /\ ~ Blocked
  /\ obj' = [obj EXCEPT ![Message] = notice.rev]
  /\ state' = IF notice.mine.known THEN state ELSE [notice.mine EXCEPT !.known = TRUE]
  /\ jobs' = jobs \ {notice.job}
  /\ notice' = Idle
  /\ UNCHANGED <<rev, sub, sync, missed, rewound>>

\* A call fails, or the database ends a deadlock with the pass: the job comes again,
\* or has failed for good, after MAX_JOB_ATTEMPTS or at once when Graph wants the
\* account reconnected.
AbortNotice ==
  /\ notice # Idle
  /\ notice' = Idle
  /\ Drop(notice.job) \/ UNCHANGED <<jobs, missed>>
  /\ UNCHANGED <<rev, obj, state, sub, sync, rewound>>

-----------------------------------------------------------------------------

Next ==
  \/ Say \/ SubscriptionEnds
  \/ BeginSync \/ ListPage \/ StorePage \/ AbortSync \/ EndSync
  \/ BeginNotice \/ FetchMessage \/ WaitLocked \/ EndNotice \/ AbortNotice

Spec == Init /\ [][Next]_vars

-----------------------------------------------------------------------------

\* A message below the watermark is not listed again, so it has to be stored, whatever
\* copy of the state a notification's job writes back and however a pass has ended.
WatermarkIsStored == \A m \in 1 .. state.mark : obj[m] # 0

\* When no job waits and no pass runs, an object says what its message says.  Excepted
\* are changes nobody was notified of, or whose job was dropped, and messages of which
\* a pass that had listed them before a change stored the old revision over the new one.
QuietIsCurrent ==
  jobs = {} /\ sync = Idle =>
    \A m \in Written :
      \/ obj[m] = rev[m]
      \/ <<m, rev[m]>> \in missed
      \/ m \in rewound
=============================================================================
