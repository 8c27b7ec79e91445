--------------------------- MODULE TelegramPeers ----------------------------
(***************************************************************************)
(* The recurring run over the Telegram peers of one account (backend/app/  *)
(* services/telegram_mtproto_recurring_sync_service.py,                    *)
(* telegram_mtproto_history_service.py).  A run reads the new messages of  *)
(* a few peers, in turn, and then looks a few known messages up again, so  *)
(* that edits and deletions are found: of a peer either the next one at    *)
(* the head or the next ones of a sweep that goes from new to old and      *)
(* starts anew.  All the turns are kept in the job's payload, and a run    *)
(* is one transaction.                                                     *)
(*                                                                         *)
(* Peers are 1 .. n in the order of their ids, messages are numbered in    *)
(* each peer as they are written.                                          *)
(***************************************************************************)
EXTENDS Pages, FiniteSetsExt

CONSTANTS
  Peers,       \* 1 .. n
  SyncPeers,   \* peers whose messages a run reads
  Page,        \* messages it reads of each
  Lookups,     \* messages a run looks up
  PeerLookups, \* of them of one peer
  Head,        \* the newest messages of a peer that count as its head
  MaxItems     \* bound: messages ever written in a peer

VARIABLES
  sent,     \* sent[p] is the number of messages written in peer p
  gone,     \* the messages that were deleted there
  objs,     \* objs[p] are the messages of p that are live objects
  latest,   \* history_latest_message_id
  payload,  \* the turns
  run,      \* where the run stands, with its own copy of all of this
  unread,   \* history: unread[p] counts the runs since p was read
  unseen    \* history: unseen[p][m] counts the runs since m was looked up

chat == <<sent, gone>>
rows == <<objs, latest, payload>>
vars == <<chat, rows, run, unread, unseen>>

Messages == 1 .. MaxItems
N == Cardinality(Peers)
Idle == [phase |-> "idle"]
\* Mutant of Later: the last peer has one after it.
BugLater(p, n) == p + n

\* The n-th peer after p.
Later(p, n) == ((p + n - 1) % N) + 1

Payloads ==
  [peer : Peers, rotation : Peers, sweep : [Peers -> {0} \union Messages],
   head : [Peers -> [cursor : {0} \union Messages, newest : {0} \union Messages]],
   mode : [Peers -> {"head", "sweep"}]]

TypeOK ==
  /\ sent \in [Peers -> 0 .. MaxItems] /\ gone \subseteq Peers \X Messages
  /\ \A p \in Peers : objs[p] \subseteq 1 .. latest[p] /\ latest[p] <= sent[p]
  /\ payload \in Payloads
  /\ run.phase \in {"idle", "reading", "looking"}

Init ==
  /\ sent = [p \in Peers |-> 0] /\ gone = {}
  /\ objs = [p \in Peers |-> {}] /\ latest = sent
  /\ payload = [peer |-> 1, rotation |-> 1, sweep |-> sent, mode |-> [p \in Peers |-> "sweep"],
                head |-> [p \in Peers |-> [cursor |-> 0, newest |-> 0]]]
  /\ run = Idle
  /\ unread = sent /\ unseen = [p \in Peers |-> [m \in Messages |-> 0]]

-----------------------------------------------------------------------------
(* The chats.                                                              *)

Write ==
  /\ \E p \in Peers : sent[p] < MaxItems /\ sent' = [sent EXCEPT ![p] = @ + 1]
  /\ UNCHANGED <<gone, rows, run, unread, unseen>>

Delete ==
  /\ \E p \in Peers : \E m \in 1 .. sent[p] : gone' = gone \union {<<p, m>>}
  /\ UNCHANGED <<sent, rows, run, unread, unseen>>

-----------------------------------------------------------------------------
(* Reading.                                                                *)

BeginRun ==
  /\ run = Idle
  /\ run' = [phase |-> "reading", objs |-> objs, latest |-> latest, payload |-> payload,
             first |-> payload.peer, read |-> 0]
  /\ UNCHANGED <<chat, rows, unread, unseen>>

\* _sync_selection in scope mode: the newest messages the first time, then what
\* follows the last one.
Read(p) ==
  LET after == {m \in (run.latest[p] + 1) .. sent[p] : <<p, m>> \notin gone}
  IN IF run.latest[p] = 0 THEN Largest(after, Page) ELSE Smallest(after, Page)

\* Mutant of SyncPeer: a peer that fails keeps its turn.
BugSyncPeer ==
  /\ run.phase = "reading" /\ run.read < Min({SyncPeers, N})
  /\ LET p == Later(run.first, run.read)
         turn == [run EXCEPT !.read = @ + 1]
     IN run' \in {turn,
                  [turn EXCEPT !.objs[p] = @ \union Read(p),
                               !.latest[p] = Max(Read(p) \union {@}),
                               !.payload.peer = Later(p, 1)]}
  /\ UNCHANGED <<chat, rows, unread, unseen>>

\* sync_scope_peer for the next peer, which may fail for reasons of its own: its turn
\* is over all the same.
SyncPeer ==
  /\ run.phase = "reading" /\ run.read < Min({SyncPeers, N})
  /\ LET p == Later(run.first, run.read)
         turn == [run EXCEPT !.read = @ + 1, !.payload.peer = Later(p, 1)]
     IN run' \in {turn,
                  [turn EXCEPT !.objs[p] = @ \union Read(p),
                               !.latest[p] = Max(Read(p) \union {@})]}
  /\ UNCHANGED <<chat, rows, unread, unseen>>

-----------------------------------------------------------------------------
(* Looking up.                                                             *)

\* The head: the newest message if it is new, else the one after the last, in a circle.
HeadCandidate(p) ==
  LET window == Largest(run.objs[p], Head)
      newest == Max(window)
      head == run.payload.head[p]
      older == {m \in window : m < head.cursor}
  IN IF head.newest # newest \/ head.cursor \notin window \/ older = {} THEN newest
     ELSE Max(older)

\* The sweep: what is older than its cursor, or everything when nothing is.
SweepCandidates(p) ==
  LET older == {m \in run.objs[p] : m < run.payload.sweep[p]}
  IN IF run.payload.sweep[p] = 0 \/ older = {} THEN run.objs[p] ELSE older

Candidates(p) ==
  CASE run.objs[p] = {} -> {}
    [] run.objs[p] # {} /\ run.payload.mode[p] = "head" -> {HeadCandidate(p)}
    [] OTHER -> SweepCandidates(p)

Plan ==
  /\ run.phase = "reading" /\ run.read = Min({SyncPeers, N})
  /\ run' = [phase |-> "looking", objs |-> run.objs, latest |-> run.latest,
             payload |-> run.payload, first |-> run.first,
             left |-> [p \in Peers |-> Candidates(p)],
             by |-> run.payload.mode, at |-> run.payload.rotation,
             looked |-> [p \in Peers |-> {}]]
  /\ UNCHANGED <<chat, rows, unread, unseen>>

Calls == MapThenSumSet(LAMBDA p : Cardinality(run.looked[p]), Peers)
Open(p) == run.left[p] # {} /\ Cardinality(run.looked[p]) < PeerLookups
May == Calls < Lookups /\ \E p \in Peers : Open(p)

\* telegram_reconcile_peer_rotation: the next run begins after the last peer served.
Rotated(p) == Later(p, 1)

\* The next peer in turn that has something left; fetch_message finds nothing for a
\* message that was deleted, and its object becomes a tombstone.
Lookup ==
  /\ run.phase = "looking" /\ May
  /\ LET steps == {n \in 0 .. (N - 1) : Open(Later(run.at, n))}
         p == Later(run.at, Min(steps))
         m == Max(run.left[p])
         newest == Max(run.objs[p] \union run.looked[p])
     IN run' = [run EXCEPT
          !.at = Later(p, 1), !.left[p] = @ \ {m}, !.looked[p] = @ \union {m},
          !.objs[p] = IF <<p, m>> \in gone THEN @ \ {m} ELSE @,
          !.payload.rotation = Rotated(p),
          !.payload.mode[p] = IF run.by[p] = "head" THEN "sweep" ELSE "head",
          !.payload.sweep[p] = IF run.by[p] = "sweep" THEN m ELSE @,
          !.payload.head[p] = IF run.by[p] = "head"
                              THEN [cursor |-> m, newest |-> newest] ELSE @]
  /\ UNCHANGED <<chat, rows, unread, unseen>>

\* The job commits.
EndRun ==
  /\ run.phase = "looking" /\ ~ May
  /\ objs' = run.objs /\ latest' = run.latest /\ payload' = run.payload
  /\ run' = Idle
  /\ LET read == {Later(run.first, n) : n \in 0 .. (Min({SyncPeers, N}) - 1)}
     IN unread' = [p \in Peers |-> IF p \in read THEN 0 ELSE unread[p] + 1]
  /\ unseen' = [p \in Peers |-> [m \in Messages |->
                  IF m \in run.looked[p] \/ m \notin objs[p] THEN 0 ELSE unseen[p][m] + 1]]
  /\ UNCHANGED chat

\* Telegram cannot be reached: the run is rolled back.
FailRun ==
  /\ run # Idle
  /\ run' = Idle
  /\ UNCHANGED <<chat, rows, unread, unseen>>

-----------------------------------------------------------------------------

Next ==
  \/ Write \/ Delete
  \/ BeginRun \/ SyncPeer \/ Plan \/ Lookup \/ EndRun \/ FailRun

Spec == Init /\ [][Next]_vars

-----------------------------------------------------------------------------

\* How many runs it takes until every one of n has had its turn.
Turns(n, each) == (n + each - 1) \div each

\* Nobody is passed over: every peer is read once in as many runs as it takes to read
\* all of them, and every known message is looked up again before two sweeps of its
\* peer are over, whatever is written or deleted and whichever runs fail in between.
EveryoneHasATurn ==
  /\ \A p \in Peers : unread[p] < Turns(N, SyncPeers)
  /\ \A p \in Peers, m \in Messages : unseen[p][m] <= 2 * MaxItems * Turns(N, Lookups)
=============================================================================
