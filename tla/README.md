# Verification of Personal Secretary

TLA+ modules, TLC models and TLAPS proofs for the backend of Personal Secretary
(`src/backend/app`).  The modules follow the source; this file says how, what the
checks show, and what is left out.

## The system

Personal Secretary is one FastAPI process, one worker process and one PostgreSQL
database, which holds all durable state.  Mail, calendar and chat providers are
reached through connectors; a Flutter client and an MCP server call the same
domain services.  All coordination goes through rows and row locks: there is no
message broker, no leader, no in-memory state shared by the two processes.

### Inventory

| part | state it keeps | operations | hard behaviour | correct when |
|---|---|---|---|---|
| **Job queue** `services/job_queue_service.py`, `jobs/worker.py`, `worker/run.py` | `jobs`: status, attempts, run_after, locked_at, last_error | enqueue, claim, done, failed, retry, park, release, retire, reactivate, trigger, rearm | worker death at any point, stale locks, requests that rewrite a row under its handler | attempts bounded and counted right, effects commit once, every job ends or runs again |
| **Source scheduler** `services/source_sync_scheduler.py`, `api/source_preferences.py`, `api/teams.py` | preferences, connections, recurring rows of `jobs` | maintenance pass, enable, disable, trigger, connect, disconnect | its passes and requests race with worker threads | a wanted source keeps running, an unwanted one stops |
| **Approved e-mail** `services/email_external_action_service.py` | `external_action_attempts`: state, copy states in metadata | claim, send, resume, reconcile, copy to mailbox | lost answers, crashes between send and record, unlocked read-modify-write | sent once at most, recorded truthfully |
| **Action plans** `services/action_plan_service.py` | `pending_action_plans`: status, TTL | create, approve, reject, expire | two clicks, request dies under its row lock | decided once, agrees with the attempt |
| **Scheduled reminders** `services/scheduled_activity_service.py` | an object's status and due_at, its job | create, cancel, fire | two runs of one job, cancel against fire | each occurrence notified once, chain unbroken |
| **Approved calendar events, chat messages** `services/*_external_action_service.py` | the same attempt row, source objects | claim, write, resume, settle | as e-mail; a PUT that overwrites, an address that was ever used | created or sent once, never over the user's changes |
| **Proactive review** `services/proactive_review_service.py`, `services/proactive_scheduler.py` | opt-in, held review jobs, notifications | sync, run, successor | opt-out during the model call, successor against scheduler | nothing after opt-out, nothing twice |
| **OpenAI budget** `services/openai_daily_budget.py` | usage events of the local day | check, spend, park, release | concurrent callers check then spend | overrun bounded by the calls in flight |
| **Mail connectors** `connectors/google/gmail_sync.py`, `connectors/yandex/mail_sync.py` | cursor, window of history, stored messages | live part, history part of a pass | failure in the middle, two passes that overlap, a mailbox numbered anew | what counts as scanned or passed is stored |
| **Calendar connectors** `connectors/google/calendar_sync.py`, `connectors/yandex/calendar_sync.py` | one JSON entry for each calendar | initial scan, changes, history | a pass works on a copy and writes it back whole | what is covered is stored as it is |
| **Chat connectors** `connectors/mattermost`, `connectors/teams`, `services/telegram_mtproto_*` | anchors, watermarks, subscriptions, turns | passes, notifications, recurring runs | listings that move under the reader, lost notifications | no mark ever passes a message that is not stored, everybody has a turn |
| **Assistant conversations** `services/assistant_conversation_service.py`, `api/assistant.py` | conversations, turns, staged plans, endings | begin, persist turn, persist ending | a client repeats a request while the first is under way | each turn stored once, clients and transcript agree |
| **People** `services/person_*.py` | people, identities, roles, merge audits | confirm, move, merge, undo | merges nested and undone in any order | nothing the user said is lost or invented |
| **Labels** `services/auto_label_service.py`, `services/label_service.py` | labels, label edges, jobs | enqueue, ask the model, apply | the text, the labels or the switch change while the model thinks | what the user took away stays away |
| **Object graph, tasks** `services/graph_service.py`, `domain/task_composition.py`, `services/task_layout_service.py` | objects, edges, layout of the task map | create, hide, restore, relate, consolidate, place | requests of one user overlap without a lock | tasks form a forest, a layout shows what exists |
| **Representations** `services/representation_*.py` | texts, chunks, embeddings | replace, embed | vector computed outside a transaction | a vector belongs to the text beside it |
| Retrieval, projections, extraction, audit, client, deployment | none, or read models | reads, I/O | | |

The worker process runs one thread for each recurring source type, one for
reminders, one for each Teams notification type and one for everything else,
which also runs the schedulers once a minute (`worker/run.py:85-137`).  A thread
claims a row, runs its handler and records the outcome, in separate
transactions.  API requests run concurrently and write the same rows.  Approving
a plan executes its actions inside the request, under the plan's row lock; an
external action records its progress in its own sessions, so that a record
survives the request's rollback.

`PROJECT.json` lists every part with its status, and every hazard at its line
with the properties that cover it.

## Modules and code

| module | models | composition |
|---|---|---|
| `JobRows` | one row of `jobs` and every transition `JobQueueService` applies to it | operators only |
| `JobQueue` | the table, the polling threads, requests and scheduler passes | extends `JobRows` |
| `ScheduledActivity` | reminders: activity rows, their run jobs, firing threads, requests | extends `JobRows` |
| `ProactiveReview` | one user's opt-in, review rows, scheduler passes, reviews, notifications | extends `JobRows` |
| `SendOnce` | the promise of an external action: what the user is told is what happened, and it happened once | abstract |
| `AttemptRow` | the states of `external_action_attempts` | operators only |
| `GmailSend` | overlapping calls that send one operation through Gmail | extends `AttemptRow` |
| `ApprovedGmail` | the plan's row and lock around `GmailSend` | extends `GmailSend`, implements `SendOnce` |
| `YandexSend` | SMTP send and IMAP copy to Sent, called one at a time | extends `AttemptRow`, implements `SendOnce` |
| `CalendarWrite` | creating one event at Google or Yandex, next to its user | extends `AttemptRow`, implements `SendOnce` |
| `ChatSend` | one message through Mattermost, Telegram or Teams, and its source object | extends `AttemptRow`, implements `SendOnce` |
| `Pages` | the least and the greatest numbers of a set: a page of a listing | operators only |
| `HistoryWindow` | the windows of days that connectors scan for history | extends `Pages` |
| `GmailHistory`, `YandexMail` | the passes over a mailbox, live part and history part | extend `HistoryWindow` |
| `CalendarHistory`, `YandexCalendar` | the passes over the calendars of an account | extend `HistoryWindow` |
| `Mattermost` | the passes over a channel: posts, changes, history | extends `HistoryWindow` |
| `TeamsChat` | the passes over a chat, its notifications and their subscription | extends `Pages` |
| `TelegramPeers` | the turns of the recurring run over the peers of an account | extends `Pages` |
| `PersonMerge` | people, identities, roles, and merges that are undone | on its own |
| `Conversations` | conversations, turns, staged plans and their endings | on its own |
| `AutoLabel` | the labels of one object and the jobs in which a model adds some | on its own |
| `TaskComposition` | `part_of` between tasks, and completion modes | on its own |
| `TaskMap` | the stored layout of the task map, and a client that draws it | extends `TaskComposition` |
| `*Proofs` | theorems | extend their module and `TLAPS`; `ActionsAndChatsProofs`, `ChatReadersProofs`, `MailAndCalendarsProofs` and `UserDataProofs` extend the `MC` modules of their components, whose constants they leave open; `PagesProofs` has lemmas for all |
| `MC*` | model values, kinds, lanes and symmetry for TLC | extend or instantiate what they check |

`MCActionsAndChats`, `MCMailAndCalendars` and `MCUserData` each check several components that
share no state.  A behaviour follows one of them, named by `which`: the state
spaces add up instead of multiplying, and one run asks one question of all of them.
A property that begins with `which = "..." =>` is about that component only.

How a module reads the code, in all of them:

* One action is one database transaction, or the part of one between two points
  at which somebody else can see or change what it uses.  A handler is split where
  it reads without a lock, takes a lock or calls a provider.
* A row lock is a conjunct (`SettingsFree`, `LockActivity`, the plan's lock): who needs the
  lock waits.  A reader without `FOR UPDATE` has no such conjunct.
* An ORM flush sends changed columns only.  Where the code reads a row, lets time
  pass and flushes it, the model keeps what was read and blends it with the row of the
  moment (`Written` in `ProactiveReview`; the whole metadata column in `YandexSend`; the
  whole JSON value in `CalendarHistory`).
* Time has no numbers: `run_after` passes and a lock goes stale at any moment.  The
  exceptions are `ScheduledActivity`, where `now` is an instant up to `Horizon`, and the
  connectors, which count days or instants up to `LastDay`.
* A crash forgets what a thread or call holds, rolls back its open transaction and
  keeps what was committed.
* Text, provider protocols and model answers are choices: delivered or not, known or
  not, an object or none.

**JobQueue.** `job[j]` is a row, `ready` the due rows by `run_after`, `worker[w]` what a
thread holds between its transactions: claimed, running, raised.  `Claim` is
`claim_next`, in order, refusing a stale row without attempts; `StartHandler`,
the success and the failure paths are the parts of `process_one_job`.  Requests that
enable, disable, trigger, connect and sign out, the budget's release and the
scheduler's ensure, retire and rearm write the same rows, and so does `sync_user` where it
ends a review (`DropReview`).  None of them locks the row, so each is two steps: it looks,
decides by the status it sees (`Unscheduled` leaves a running row alone, `Ensured` one that
exists), and `Land`s later with the columns it changes, over whatever the row has become.  A
row that is claimed in between is overwritten while its thread runs, and the thread then
overwrites that.  `looks` has what has been read and not yet written; a preference is stored by the
same transaction (`sets`).  `Cancel` is `_complete_pending_run_job`, which does lock the row.
`effects`, `spent` and `dropped`, the jobs that were marked done instead of being run, are history.

**Approved e-mail.** `GmailSend` follows one call of `send_email` from `claim` through
the provider call to the recorded state, and a later call that finds the attempt
`started` or `ambiguous` and looks in Sent.  The provider is external: a request may be
carried out, carried out late, refused, or lost, with or without an answer.
`ApprovedGmail` adds `ActionPlanService`: approve takes the plan's lock and executes,
the request may die at any point, reject and the TTL compete.  `YandexSend` adds the
copy to Sent: claim of the copy, APPEND whose answer is lost, the look before a repeat.

**ScheduledActivity.** `activity[a]` has a status and `due`; `job[a][d]` is the run job with
fence `d`; a firing thread locks the activity, compares status and fence, and commits
notification, next `due` and next job together.  `Cancel`, `Delete`, `MoveDue`,
`SetStatus` are requests.  `next_occurrence` is the next instant after now.

**ProactiveReview.** `enabled` is the opt-in and its row is the lock of everybody who
changes what a review may do.  `sync` is a `sync_user` that has read the rows and not
yet written: requests (`RequestBegins`) and passes (`MaintenanceLocks`) begin one,
`SyncUser` writes and commits.  A review goes claimed, gated, decided, holding:
two reads of the opt-in without a lock, the model call, the read under the lock,
`Conclude` or `Stop`.  Claims and recorded failures do not take the lock.

**Calendar events and chat messages.** In `CalendarWrite` the event's address follows from
the operation, `wire` is the last creating request and `stray` one that may still land after
its call was given up.  Google refuses an address that was ever used (`Confirm` looks it
up); a Yandex PUT replaces what is there, so the row makes it happen once (`ClaimStarted`,
`InspectFirst`, `Resume`).  The user edits and deletes the event meanwhile.  `ChatSend` adds the source object a sent
message becomes, in the request's transaction or at the next synchronisation;
Mattermost's carries the operation's `pending_post_id`, by which a send in doubt is settled.

**Mail.** `GmailHistory` has a worker's pass and a request's next to each other: both list
the newest messages, the worker's also plans a window (`PlanHistory`, which keeps, drops
or begins one), lists one page of it and moves the token or the window on once the page is
stored.  `YandexMail` goes up from a checkpoint and down through a window of days, in one
numbering of the mailbox (`Renumber` gives a new UIDVALIDITY, after which all that was stored
starts anew).

**Calendars.** `CalendarHistory` reads the whole JSON value at the start of the live part and
writes it back at its end, while the other pass does the same.  `YandexCalendar` scans a
calendar slice by slice with a token taken before the first one, then follows changes,
and extends the scan into the past; a pass may end after any stored event.  An answer to a
calendar-query may be any part of the events (`told`): the transport reports an answer the server
cut short (507, `provider_truncated`), and neither `_run_bounded_reconciliation` nor
`_run_history_pass` looks at that, so the slice counts as scanned all the same.

**Chats.** `Mattermost` keeps an anchor for new posts, a watermark of changes and a window
of history in one entry that is written back up to three times a pass.  `TeamsChat` lists
down to a watermark and commits messages and watermark together, next to the jobs
of notifications in another lane, which may be lost, late and repeated while the
subscription runs out and is renewed, and which end for good with nothing stored after three
failures, a refused credential or for an account that has to be reconnected (`Drop`; `missed`
is what then nobody was told).  `TelegramPeers` is the arithmetic of turns: which
peers this run reads, and which known messages it looks up again.

**PersonMerge.** `holder` says whose an identity is, `confirmed` and `has` what the user said
and the roles, `audit` what a merge left on the duplicate.  `Merge` moves everything and
notes it; undoing goes by the audit.  Both hold the user's row lock from the start and are
one step.  A request about an identity (`bind_email`, `correct_identity`, the enrichment's
attach) looks before it takes the lock, so it is two: `Ask` reads, and `Attach`, `Bind` or
`Retract` writes what the row then allows, after merges that have committed in between.
`mine` and `said` are history: what the user did by hand; `stray` has the identities that a
request gave to a person who had been merged away since it looked.

**Conversations.** `request[r]` goes from begun through the model's answer and the staged
plan to the stored turn; the conversation's row lock decides between requests of one turn.
One that comes after the turn is stored answers with that turn; one that has asked the
model meanwhile finds it when it stores, keeps it, and answers with its own result beside the
ids of the stored messages (`api/assistant.py:697-702`).  `finish[f]` is a request that tells
the ending of an executed plan.

**AutoLabel.** A job is for a signature of what the model is shown.  `Enqueue` computes it
without a lock while objects change, a worker looks, asks, and applies under the gate what
still fits.  `refused` is what the user took away.

**TaskComposition, TaskMap.** A request reads and validates, then writes: two steps, because
nothing is locked in between.  `SerialNext` has one request at a time.  `TaskMap` adds the
layout row: `stored` is what was last placed, `current` whether it has the current
`topology_revision`, `client` a client that reads, draws and places.

## Runs

TLC checks each in less than five minutes, with two threads.  State counts are of distinct states.

| run | instance | states | shows |
|---|---|---|---|
| `queue_jobs` | two at a time of an ordinary job, a review and a job without handler; one lane and thread, `MaxAttempts` 2 | 79,534 | attempts are exactly the claims spent; effects commit once at most, with a row that is done, and a done row has them unless it was dropped; the budget marker means budget; every job ends |
| `queue_sources` | one source at a time, of each of the four kinds; `MaxAttempts` 3 | 476,332 | attempts bounded, a running row stays in its place, and only who read a row before its claim, or signs out, takes it from its thread |
| `queue_progress` | a Teams source with its user's requests, or two Telegram sources in one lane without; `MaxAttempts` 2 | 66,614 | a wanted source keeps running and does not starve the other; an unwanted one (Teams only) is retired |
| `queue_abandoned` | two ordinary jobs | violation | finding 1 |
| `actions_and_chats` | Gmail with a plan and with three overlapping calls, Yandex, an event, a chat message; a channel, a chat, two peers | 2,420,625 | four implementations of `SendOnce`, true answers and copies, a decided plan is over, nothing is overwritten; no anchor or watermark passes what is not stored, every peer has a turn |
| `reminders` | a daily or a one-shot reminder, two threads, `Horizon` 1, `MaxAttempts` 3 | 50,523 | no occurrence twice, chain neither broken nor forked, nothing after the end, nothing missed |
| `proactive_progress` | one thread, two rows, `MaxAttempts` 2 | 103,923 | reviews go on while opted in, the queue empties when opted out |
| `proactive_held` | one thread, two rows | violation | finding 2 |
| `mail_and_calendars` | a Gmail and a Yandex mailbox, two Google calendars, one Yandex calendar; two items each | 3,325,448 | what counts as scanned, passed or covered is stored, whatever copy of the state is written back |
| `ycal_range` | one Yandex calendar | violation | finding 3 |
| `user_data` | two reviews; three and two people; two conversations with three requests; a label; three tasks, and a map of two | 578,170 | nothing after the opt-out, nothing twice, the cap; merges; transcripts; labels; tasks and their map |
| `tasks_overlap` | two tasks, two relations, two requests | violation | finding 4 |

**Bounds.**  Two or three attempts reach each branch on attempts (first, last, capped by
tier, given back).  One request and one pass at a time may have read a row of the queue
(`MaxRequests`; with two requests and two attempts `queue_sources` holds as well, over 1.9 million
states), and a row is claimed fewer than `MaxAttempts` times between a read and its write
(`Brief`), which are parts of one short transaction.  Jobs meet through the lane they share: two
of the mixed kinds at a time, in every pairing (`CastSize`), and sources, whose lanes are their own, one
at a time.  Two threads or calls are what it takes for one to find the other's
work half done; three calls add one that comes between.  `Horizon` 1 leaves a reminder
one occurrence to fire, one to schedule and one that is late.  With one thread a user
has two held review rows at most (checked with three slots); with two threads a
third row is cut off by `Room`.  Three objects and a cap of 1 let two reviews in flight
reach the bound of `AttentionNearCap` and a third notification exceed it.
Two `Insights` are two signatures of one version: one object has both when it is the only
one in play and no pass is under way (`OneHasMore`), and of three objects one at a time has its
notification resolved while its cooldown goes on, or a new version while it is unresolved
(`OneEndsApart`): objects and passes share nothing that the notifications of another read but
the count.  (With several objects in play, and passes, the run holds too, over 1,023,673 states.)

Connectors read pages of one item and hold two or three of them, so that every listing
has a next page; `history_days` is one of two values, so that a window grows, shrinks and
is dropped; days stop at `LastDay`, one or two days after the start, so that midnight comes
during a scan.  The events of the calendars have few `Placements`: on both sides
of the slices and in each calendar.  A mailbox is numbered anew once, a post, event or message edited
once, a Teams subscription replaced once.  Two conversations are one to leave and one to go to, three
requests one more than can win.  Three people are a merge into somebody who is merged
himself; a second instance has two people with two identities and more roles than
one may have; a third two people, one identity and two requests that overlap.  Three tasks are a cycle of three, or two parents of one; the map has
two tasks, one relation and two requests, of which one comes between a client's read and its placing;
they overlap while no task is rejected.  `AutoLabel` has three
rows and a limit of two waiting.  Gmail's and Yandex's sending, `CalendarWrite` and `ChatSend` have no bound
but their callers: their state space is finite.

**Symmetry** is used in `user_data` and `tasks_overlap`, which have no liveness property, over
model values that no module tells apart.

**Deadlock** is checked except in `queue_jobs`, `queue_abandoned`, `reminders`, `actions_and_chats`,
`mail_and_calendars`, `ycal_range` and `tasks_overlap`, which really stop: every job has ended,
the plan is decided, the clock has reached its bound and every item is read, every relation the
bound allows has been used.

**Fairness.**  Clocks advance, a lock that nobody refreshes goes stale, a thread finishes
the step it is in unless its process dies (`worker/run.py:59-82` loops over exceptions), and
the general lane runs the scheduler every minute.  A thread is strongly fair where it
waits for something that comes and goes: a lock (`LockSettings`, `MaintenanceLocks`), a
turn between other jobs (`Claim`, `MaintenanceBegins`), a row that is retirable between
two synchronisations (`RetireUnexpected`).  What has read a row commits or rolls back
(`Lands`).  PostgreSQL queues waiters of a row lock, which
justifies it for locks.  No request has to arrive, nothing has to be lost, no process has
to die.  Every liveness property of a job makes the jam of finding 1 its exception
(`LaneJammed`), since that row blocks its lane for good.

## Findings

1. `queue_abandoned`: a worker that dies on a job's last attempt leaves a running row;
   `claim_next` flushes `failed` for it and returns `None`, and `process_one_job`
   (`jobs/worker.py:52`) returns without a commit.  The row is never failed and stays at the
   head of its lane.
2. `proactive_held`: `ProactiveScheduler` is to "ensure at most one held proactive_review
   job per opted-in user" (`services/proactive_scheduler.py:23`), but `sync_user` returns
   when one is active (line 62) without looking at failed ones.  A row retired while it
   was being claimed comes back as failed and stays held beside the chain of its
   successors.
3. `ycal_range`: the step that completes a range of a Yandex calendar's history takes the
   range out of its copy of the entry, and `_merge_stored_calendar_entry`
   (`connectors/yandex/calendar_sync.py:413`) updates the stored entry with that copy, which
   keeps keys that are gone.  Once the start of the coverage moves, the last slice is scanned
   again by every pass and a raised `history_days` is not followed.
4. `tasks_overlap`: `domain/task_composition.py` promises a forest, and `validate_part_of_edge`
   checks it against rows that nobody locks and no index guards.  Two overlapping
   requests fill the one parent slot twice: in the shortest trace with two rows to the same
   parent, since edges have no unique index (`db/models.py:162`), with a third task by two
   different parents; or they make two tasks part of each other.

## Proofs

TLAPS proves for every value of the constants what follows.  "Inductive" names the
invariant that is proved to hold at the start and to be kept by every step; the property
is its consequence.

**`JobQueueProofs`**: any jobs, kinds, lanes, threads, `MaxAttempts` and `MaxRequests`.

* `JobQueueTypes`, `JobAttemptsBounded`: a row never has more than `MaxAttempts` attempts and a
  pending row always has one left.  Inductive: `AttemptsInv`, which bounds every row by its
  status and flags (`GoodRow`), and says of a look that puts a row back without clearing its
  attempts that the row has been claimed no more often since.  This is where `Brief` is needed.
* `RunningRowsAreFound`, `MarkerIsTheBudgets`: a running row keeps its place in the order of
  `run_after`, and the budget's marker is on exactly the waiting rows the budget put
  off.  Inductive: `OrderInv`, which adds to the types that the order holds a row once.  It
  does not need one thread to a lane: a thread that lost its row to another
  still writes a row that is in its place.
* `LaterReadsRespectClaims`, `EffectsCommitOnce`: a read that comes after a claim leaves the
  row to its thread, a sign-out apart; effects commit once at most, and exactly the done rows have them
  that were not dropped.  Inductive: `ExclusiveInv`.  No two threads hold one row; what has been
  read agrees with the row unless it was claimed since (`LookRules`); the job of a thread has no effects
  yet and is running, or a review that a pass has ended (`HeldInv`); a dropped job stays done
  (`DroppedStay`).
* `AttemptsCountClaims`: the attempts of a row are the claims it really spent.  Inductive:
  `SpentInv`, which adds to `ExclusiveInv` the account of every row by its status (`Account`), and
  one claim more for the row a thread is at work on.

The last three assume `OneThreadPerLane`, which is how one worker process is built
(`worker/run.py:85-137`, one worker container in `infra/compose.yaml`).  Without it a handler
slower than its lock commits its effects twice.

**`ApprovedGmailProofs`**: any number of overlapping calls and requests.

* `GmailTypes`, `GmailSendsOnce`, `GmailRowIsTrue`, `GmailAnswersAreTrue`.  Inductive: `Inv`, that is
  `TypeOK`, `OneClaims` (one call at a time is past the claim and before the record),
  `SendInv` (at most one send, the row tells the truth) and `HeldTrue` of each call's copy of
  the row.  The lemma that carries it is `TruthKept`: once the outcome is settled, the facts
  about the message no longer change, so a stale copy stays true and writing it does no harm.
* `PlansAreDecidedOnce`, `PlanAndAttemptAgree`, `ApprovedGmailSendsOnce` (the refinement of
  `SendOnce`).  Inductive: `PlanInv`.  Every step of a plan is a step of `GmailSend`
  (`PlanStepIsCallStep`), so `Inv` holds; `LockInv` says that a request without the lock is idle,
  `ExecutedInv` that an executed plan has a message that was sent, `HeldAlone` what a call knows when
  nobody else writes the row.  Without `HeldAlone` the answer that ends a plan could be older
  than the row.

**`ActionsAndChatsProofs`, `ChatReadersProofs`**: any number of calls one after another, any page
sizes, windows and bounds.  The parts of `MCActionsAndChats` are proved one by one; a behaviour
follows one of them (`StepsOfParts`), and `PartsInv` is the invariant of the one it follows.

* `ChatInv`, `EventInv`, `YandexInv`: one call at a time is not idle, and what each phase
  holds (`ChatHeld`, `EventHeld`, `StoreHeld`, `CopyHeld`) agrees with the row and with what has become of
  the message, the event and the copies.  They need the lock of the plan: `SerialNext`
  has one call in progress at a time.
* `WhatIsSaidIsTrue`, `CopiesStaySound`: answers and copies.  `UserChangesStand`: no creating request
  writes over an event the user has changed; of the event it needs that a request that
  lands late finds the address taken.
* `ActionsSendOnce`: each of the four actions implements `SendOnce`, step by step.
* `TeamsWatermarkIsStored`: what is at or below the watermark of a Teams chat is stored.  Inductive:
  `TeamsInv`.  What a pass has listed from its newest message down is stored or in its hands, and
  below the watermark it read everything was stored (`PassSound`); since nothing that was stored
  goes away, the entry it writes is sound although a job wrote its own meanwhile.
* `PostsStayStored`: the entry of a Mattermost channel.  Inductive: `ChannelInv`.  A pass works on a
  copy of the entry and writes it back late, so the invariant says of the copy what it says of the
  entry (`ChannelSound`), whatever is written and changed meanwhile (`EntryStands`: what the entry
  speaks of is behind the clock).  To that it adds what the pass has in hand: the live list leaves
  no gap above the anchor (`LiveSound`), a sweep has every change up to the newest one it has stored
  (`SweepSound`), and a page of history leaves out only what is older than the page (`OldSound`).
  `oldest` has to be in the covered window: the next window starts below it
  (`PlannedWindow`).
* `ChangesStayStored`: of Mattermost it follows from `ChannelInv`, where a list is as fresh as the
  watermarks (`Fresh`), so that a stale list never undoes a change that was swept.  Of Teams it needs
  `TeamsFresh`: a job has fetched at least the revision it was told of, and if more was said
  since, another job is waiting (`NoticeFresh`), or it is among what was dropped.
* `EveryoneIsServed`, of Telegram, for the two peers, one read and one lookup a run that
  `MCActionsAndChats` fixes, and any number of messages.  Inductive: `PeersInv`.  `Wait` measures
  how many runs it takes at most until a message is looked up: a peer has every other run, the
  sweep every other turn of its peer, and the sweep goes down to the oldest message and back to
  the newest.  The runs a message has waited and those it may still wait are never more than
  two sweeps of both peers (`InTime`).  A run keeps its turns in a payload of its own
  until it commits, so `PeerRun` says of that payload that a lookup has brought every other message
  closer (`Looked`) although messages are written and deleted meanwhile.  `Wait` depends
  on how the turns interleave, which is why the numbers are fixed: with more reads or lookups a run, or more
  peers, it would have to count the turns of several peers in one run.
* `PartsAreTyped`: the types, which bound what the other invariants leave open.  `TeamsBounds`: no object is
  ahead of its message and every notification is of a revision there was (that one
  message has been changed at most as often as all of them is `TeamsChanges`, from the lemmas
  on sums in `PagesProofs`); `PostBounds`: what is stored of a post, and what a pass has in hand,
  is a revision between its writing and its last change.

**`ScheduledActivityProofs`**: any reminders, threads, attempts and horizon.  `ReminderTypes`,
`RemindersOncePerOccurrence`, `ReminderChain`, `RemindersDoNotFork`, `RemindersStopAtEnd`.  Inductive: `Inv`, what each
firing thread may rely on (`ThreadsInv`), which jobs an activity can have (`JobsInv`), and
that an occurrence is notified only when it is past, once (`NotesInv`); the chain is the
fourth part.  Without `ThreadsInv` the fence a thread has compared says nothing when it commits.

**`MailAndCalendarsProofs`**: any page size, slice, `history_days`, calendars and bounds.  One connector
runs, `ConnectorsInv` is the invariant of the one that does.

* `HistoryTypes`, `ScannedDaysAreStored`, `ScannedDaysHaveNoGaps`, of Gmail by itself.  Inductive:
  `Inv`, that is the types, also of a pass under way, `Listed` (only messages of the mailbox
  are fetched), `WindowsApart` (scanned days have no gaps and share none with the window at
  hand), `AtHand` (the messages of the window before the token are stored or in the worker's
  hands) and `ScannedIsStored`.  It rests on `PlannedIsApart` (the next window begins where
  the scanned days end) and `PagesProofs` (the numbers a page takes are its greatest, and
  what is left is below them).
* `MailIsNotLost`, of a Yandex mailbox.  Inductive: `ImapInv`.  A pass that has numbers of an older
  UIDVALIDITY in hand may store what it likes but write nothing back; of any other pass it says what is
  stored below the checkpoint it will set (`ImapLive`) and what the history has left
  out of the page in hand (`ImapOld`).
* `CalendarsAreStored`, of Google.  Inductive: `GoogleInv`.  Both passes hold a whole copy of the
  state and write it back, so an old copy may undo what the other did.  Every copy is
  therefore sound by itself (`CopySound`), and of the history also behind the one that
  counts (`HistoryBehind`): what it calls active is stored or waits in the other as well.
* `CalendarsAreStored`, of Yandex.  Inductive: `YandexInv`.  What the token covers is current, comes with
  the next changes (`YandexCovered`) or is in `gap`, likewise what lies behind a scan under way
  for the token it will set (`YandexScan`), and what lies behind the cursor of a
  range (`YandexRange`), which grows towards the covered window.  An event that lies in the past is edited no more:
  without that a range, which is scanned without a token, would vouch for nothing.
* `ConnectorsKeepTheirTypes`; `ScannedIsStored` again, with the others beside it.

**`UserDataProofs`**: any people, requests, workers, rows, threads, tasks and relations.  One part is
followed; `DataInv` has the invariant of each.

* `UserDecides`, of people.  Inductive: `PeopleInv`.  There are two functions (`IsFamily`): everybody
  a person has been merged into, one after the other, and the last of them, who is not
  merged.  An identity is with the last one of whom the user gave it to, or, if it is stray, with the
  person it was given to, who is merged (`StrayAreAway`); and a merge that can
  still be undone has noted exactly what its duplicate had brought along (`HoldersFollow`).
  What such a merge would take back is with the survivor, who does not have it from the user
  (`StandingIsThere`) nor from another merge (`StandingAreApart`).  Without the last two
  undoing could take what was never moved.  When a merge is undone the line above
  everybody below the duplicate is cut, so the functions are chosen anew in every step.
* `ConversationsStaySound`.  Inductive: `ConvInv`.  A turn in the transcript, an answer a client has
  and a decision on a plan all belong to a request that is over (`TurnsAreOver`,
  `RequestsInOrder`, `FinishesInOrder`): what is stored after a request came second is what the first one stored.
* `WorkStaysBounded`, `UserDecides`, `StaleAnswersDropped`, of labels.  Inductive: `LabelInv`.  What a
  pipeline has counted and compared under the gate holds until it inserts (`LooksHold`, one
  looks at a time), and whoever asks the model does so about a running row that is
  his alone (`AskersRun`, `AskersApart`).
* `WorkStaysBounded`, `StaleAnswersDropped`, of reviews.  Inductive: `ReviewInv`.  A review that holds the
  settings row holds it alone, and the opt-in is the one it has read (`HoldersAreAlone`), so
  nobody opts out between its last look and its commit.  The cap is checked long before the
  notification: the invariant counts the unresolved notifications together with the
  threads that may still notify (`Likely`, `WithinCap`).  `RowsAreInLine` (a row anybody
  refers to has its place by `created_at`) is what `Oldest` needs to be one of the rows it is
  asked about; `PassFollowsOptIn` says that a pass adds and rearms for a user who was
  opted in when it began.
* `TasksAreInOrder`.  Inductive: `TasksInv`, for requests one at a time: what a request has validated
  holds until it is written (`StillValid`).  That there is no way back from a parent to its child
  is said by a set that is closed under parents and has the parent but not the child
  (`Acyclic`), since a path needs induction.  `Map!ModesStayFit` follows of each step.  Inductive for the map: `MapInv`, with
  requests that overlap: while a layout counts as current, every relation among the tasks it has
  drawn is among those it has read, whatever was written since, except by a request that looked
  for a layout before there was one (`InView`).  It needs
  nothing of the forest.
* `DataIsTyped`: the types of all of them.

Assumptions are `AttemptsAssumption`, `LanesAssumption`, `ScheduleAssumption`, `ThreadsAssumption`,
`TeamsAssumption`, `ChannelAssumption`, `HistoryAssumption`, `BoundsAssumption`, `PlacementsAssumption` (the events
lie in the calendars and days of the model), `ReviewAssumption`, `DataAssumption` (finite sets of people, rows and tasks, a limit
that is a number, and one mode that is `"finite"`) and the named hypothesis above; the runs evaluate them.

Writing these proofs changed the model where a proof did not go through:

* In `ChatSend` and `CalendarWrite` a `CASE` had guards that overlapped, which TLC read top down
  as the code does but TLA+ leaves open.  The guards are now disjoint.
* `YandexMail`: `NothingIsLost` excepted messages that arrive before there is a checkpoint.  A pass
  that began before there was one sets one later, from a search that may have been too short
  (`_merge_forward_checkpoint` sets it to the last number this pass has seen), so a
  message that arrives before it ends is in the same position (`Unmarked`).  TLC shows the case with
  three messages.
* `YandexCalendar`: a second slice kept the answer to the first, and `sync_collection` was asked
  once a pass, where the code asks on while changes come.  With both as in the code,
  `CoveredIsCurrent` has a second exception.  The answer is filtered by the window of the
  pass (`connectors/yandex/calendar_normalize.py:245`) and the token moves on over all of it
  (`calendar_sync.py:802`): an event that was edited while it lay ahead, and that no pass asks for before
  the window has moved past it, keeps its old state for good.  It takes an account that is not
  synchronised for as long as `history_days`, or whose `history_days` is lowered meanwhile.  `gap` has these events, those that an initial scan, continued with more
  `history_days` than it had begun with, claims but never lists, and those that an answer
  cut short left out (`LeftOut`).

**Model-checked only.**  Every invariant and every action property that a passing run checks is
a theorem; so are the refinements of `SendOnce`.  Liveness under fairness is beyond TLAPS and stays with TLC: `JobSettles`,
`SourcesKeepRunning`, `UnexpectedAreRetired`, `OccurrenceIsNotified`, `ReviewsGoOn` and
`OptOutEmptiesQueue`.  The four runs that expect a violation stand by their counterexamples.

## Not modelled

What is left out of a modelled part:

* A definite SMTP refusal is taken at its word; smtplib raises for a 5xx answer to QUIT
  as well, after the message was accepted.  Recipients refused in part are left out.
* Plans have one action.  An action that sends or cannot be undone is always the only one of its plan
  (`validate_action_plan_actions`); several actions are writes to this database, which a failure
  of one rolls back together.
* Overlapping calls of one operation other than Gmail's: of Yandex they would repeat a copy,
  whose state is written back with the whole metadata column.  Only the plan's lock
  prevents it, and `SerialSpec` states that assumption.
* An activity whose `due_at` or status somebody edits through `PATCH /objects` is modelled, but the
  properties of the chain speak of activities nobody has edited: the client edits
  tasks and people only.
* Job queue: two rows for one source, which `enqueue_once` could insert without a unique index; of
  two requests that would write the same one counts.  A pass reads the preference and the row
  in one step, and so does a finished handler's transaction, which reads the preference and writes the row
  in adjacent statements.
* What a review reads and how its evidence is found stale: a decision for an object may
  always come to nothing.  A notification marked read over a dismissal: `mark_read`
  (`services/notification_service.py:135`) reads without a lock.
* Connectors: parsing and attachments; Gmail's date zones; removed and recurring
  events; the halving of full slices; passes of Yandex calendars and Mattermost that overlap;
  overlaps of sweeps that are there for clocks that differ; Telegram's edits, live updates and
  manual import.  A change of an account's row without a call to the provider in
  between is one step.  In the run of `CalendarHistory` a request runs once (`AsksAgain` is FALSE);
  the proof has no such bound.
* People: rejected identity candidates, promotion of correspondents, bookmarks; tasks stay
  active and one person stays.  `correct_identity`'s confirmation writes what `bind_email`
  does, after other checks, and is modelled as one `Bind`; two retractions of one confirmation at
  once, and a rejected person whom a request still finds, are not modelled.
* Conversations have one turn.  What a request tells the client counts once its session
  has committed; a lost race for a unique index is an error without effect.
* Labels: names and their uniqueness; a lease that is taken over is in `JobQueue`.
* Tasks: status, dates and planned intervals.  A rejected relation that no request refers to
  is forgotten; the answer of `/relations` with an existing row is left out.  The map has one client and
  one version of its algorithm.

What is not modelled at all: the budget's ledger (its effect on jobs is in `JobQueue`); temporal
signals and correlation; representations, embeddings, local files and extraction;
retrieval and the projections; tool schemas, the API and MCP layers; authentication;
the client.  Most of the code by lines is of that kind: schemas, dispatch, queries, prompts,
formats and provider protocols, which keep no state of their own or change it in one statement.
That is why the modules stand for a small share of the lines, and for most of the code that
coordinates.
