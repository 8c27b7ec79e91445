------------------------- MODULE MCActionsAndChats --------------------------
(***************************************************************************)
(* What leaves for the providers and what is read from chats.  The         *)
(* approved actions of one user are a message through Gmail, with its plan *)
(* or by callers that overlap; one through Yandex; a calendar event; a     *)
(* chat message.  The readers are those of a Mattermost channel, a Teams   *)
(* chat, the Telegram peers of an account.  They share no state, so each   *)
(* behaviour follows one of them; the state spaces add up instead of       *)
(* multiplying.                                                            *)
(***************************************************************************)
EXTENDS ApprovedGmail, FiniteSets

CONSTANTS
  None,
  Page, MaxPages, MaxItems, MaxEdits, MaxSub, \* see TeamsChat
  Spans, Limit, LastDay, \* see Mattermost
  MaxPosts               \* MaxItems of Mattermost and TelegramPeers

ASSUME ChannelAssumption ==
  /\ Spans \subseteq Nat \ {0} /\ Spans # {} /\ IsFiniteSet(Spans)
  /\ Limit \in Nat \ {0} /\ LastDay \in Nat /\ MaxPosts \in Nat

ASSUME TeamsAssumption ==
  Page \in Nat \ {0} /\ {MaxPages, MaxItems, MaxEdits, MaxSub} \subseteq Nat

VARIABLES
  which, \* the part that is followed
  yandex_row, yandex_caller, yandex_sends, yandex_message, yandex_appends,
  yandex_mailbox, yandex_told,
  event_provider, event_row, event_caller, event_wire, event_stray, event,
  event_created, event_told,
  chat_provider, chat_row, chat_caller, chat_sends, chat_message, chat_object,
  chat_told,
  post_days, post_now, post_created, post_updated, post_stored, post_entry,
  post_pass, post_skipped,
  teams_rev, teams_obj, teams_state, teams_sub, teams_jobs, teams_sync, teams_notice,
  teams_missed, teams_rewound,
  peer_sent, peer_gone, peer_objs, peer_latest, peer_payload, peer_run, peer_unread,
  peer_unseen

Yandex == INSTANCE YandexSend WITH
  row <- yandex_row, caller <- yandex_caller, sends <- yandex_sends,
  message <- yandex_message, appends <- yandex_appends,
  mailbox <- yandex_mailbox, told <- yandex_told

Calendar == INSTANCE CalendarWrite WITH
  provider <- event_provider, row <- event_row, caller <- event_caller,
  wire <- event_wire, stray <- event_stray, created <- event_created,
  told <- event_told

Chat == INSTANCE ChatSend WITH
  provider <- chat_provider, row <- chat_row, caller <- chat_caller,
  sends <- chat_sends, message <- chat_message, object <- chat_object,
  told <- chat_told

Channel == INSTANCE Mattermost WITH
  MaxItems <- MaxPosts, days <- post_days,
  now <- post_now, created <- post_created, updated <- post_updated,
  stored <- post_stored, entry <- post_entry, pass <- post_pass,
  skipped <- post_skipped

Teams == INSTANCE TeamsChat WITH
  rev <- teams_rev, obj <- teams_obj, state <- teams_state, sub <- teams_sub,
  jobs <- teams_jobs, sync <- teams_sync, notice <- teams_notice,
  missed <- teams_missed, rewound <- teams_rewound

Telegram == INSTANCE TelegramPeers WITH
  MaxItems <- MaxPosts, Peers <- {1, 2}, SyncPeers <- 1, Page <- 1, Lookups <- 1,
  PeerLookups <- 1, Head <- 2,
  sent <- peer_sent, gone <- peer_gone, objs <- peer_objs, latest <- peer_latest,
  payload <- peer_payload, run <- peer_run, unread <- peer_unread,
  unseen <- peer_unseen

yandexVars == <<yandex_row, yandex_caller, yandex_sends, yandex_message,
                yandex_appends, yandex_mailbox, yandex_told>>
eventVars == <<event_provider, event_row, event_caller, event_wire, event_stray,
               event, event_created, event_told>>
chatVars == <<chat_provider, chat_row, chat_caller, chat_sends, chat_message,
              chat_object, chat_told>>
postVars == <<post_days, post_now, post_created, post_updated, post_stored,
              post_entry, post_pass, post_skipped>>
teamsVars == <<teams_rev, teams_obj, teams_state, teams_sub, teams_jobs, teams_sync,
               teams_notice, teams_missed, teams_rewound>>
peerVars == <<peer_sent, peer_gone, peer_objs, peer_latest, peer_payload, peer_run,
              peer_unread, peer_unseen>>

\* A part that is not followed has no state; Gmail's stays as it begins.
NoYandex ==
  /\ yandex_row = None /\ yandex_caller = None /\ yandex_sends = None
  /\ yandex_message = None /\ yandex_appends = None /\ yandex_mailbox = None
  /\ yandex_told = None
NoEvent ==
  /\ event_provider = None /\ event_row = None /\ event_caller = None
  /\ event_wire = None /\ event_stray = None /\ event = None /\ event_created = None
  /\ event_told = None
NoChat ==
  /\ chat_provider = None /\ chat_row = None /\ chat_caller = None
  /\ chat_sends = None /\ chat_message = None /\ chat_object = None
  /\ chat_told = None
NoPosts ==
  /\ post_days = None /\ post_now = None /\ post_created = None
  /\ post_updated = None /\ post_stored = None /\ post_entry = None
  /\ post_pass = None /\ post_skipped = None
NoTeams ==
  /\ teams_rev = None /\ teams_obj = None /\ teams_state = None /\ teams_sub = None
  /\ teams_jobs = None /\ teams_sync = None /\ teams_notice = None
  /\ teams_missed = None /\ teams_rewound = None
NoPeers ==
  /\ peer_sent = None /\ peer_gone = None /\ peer_objs = None /\ peer_latest = None
  /\ peer_payload = None /\ peer_run = None /\ peer_unread = None
  /\ peer_unseen = None

Followed == {"plan", "overlap", "yandex", "event", "chat", "channel", "teams", "peers"}

BothInit ==
  /\ which \in Followed
  /\ PlanInit
  /\ IF which = "yandex" THEN Yandex!Init ELSE NoYandex
  /\ IF which = "event" THEN Calendar!Init ELSE NoEvent
  /\ IF which = "chat" THEN Chat!Init ELSE NoChat
  /\ IF which = "channel" THEN Channel!Init ELSE NoPosts
  /\ IF which = "teams" THEN Teams!Init ELSE NoTeams
  /\ IF which = "peers" THEN Telegram!Init ELSE NoPeers

BothNext ==
  /\ UNCHANGED which
  /\ \/ /\ which = "plan" /\ PlanNext
        /\ UNCHANGED <<yandexVars, eventVars, chatVars, postVars, teamsVars, peerVars>>
     \/ /\ which = "overlap" /\ Next
        /\ UNCHANGED <<planVars, yandexVars, eventVars, chatVars, postVars, teamsVars,
                       peerVars>>
     \/ /\ which = "yandex" /\ Yandex!SerialNext
        /\ UNCHANGED <<allVars, eventVars, chatVars, postVars, teamsVars, peerVars>>
     \/ /\ which = "event" /\ Calendar!SerialNext
        /\ UNCHANGED <<allVars, yandexVars, chatVars, postVars, teamsVars, peerVars>>
     \/ /\ which = "chat" /\ Chat!SerialNext
        /\ UNCHANGED <<allVars, yandexVars, eventVars, postVars, teamsVars, peerVars>>
     \/ /\ which = "channel" /\ Channel!Next
        /\ UNCHANGED <<allVars, yandexVars, eventVars, chatVars, teamsVars, peerVars>>
     \/ /\ which = "teams" /\ Teams!Next
        /\ UNCHANGED <<allVars, yandexVars, eventVars, chatVars, postVars, peerVars>>
     \/ /\ which = "peers" /\ Telegram!Next
        /\ UNCHANGED <<allVars, yandexVars, eventVars, chatVars, postVars, teamsVars>>

BothSpec == BothInit /\ [][BothNext]_<<which, allVars, yandexVars, eventVars, chatVars,
                                      postVars, teamsVars, peerVars>>

-----------------------------------------------------------------------------

\* Every component keeps its types.
BothTypeOK ==
  /\ which = "plan" => PlanTypeOK
  /\ which = "yandex" => Yandex!TypeOK
  /\ which = "event" => Calendar!TypeOK
  /\ which = "chat" => Chat!TypeOK
  /\ which = "channel" => Channel!TypeOK
  /\ which = "teams" => Teams!TypeOK
  /\ which = "peers" => Telegram!TypeOK

\* The promise of SendOnce, kept by each of the four actions: approve, execute and record
\* under the plan's lock, through any lost answer and any dead request.
EachSendsOnce ==
  /\ which = "plan" => Promise!Init
  /\ which = "yandex" => Yandex!Promise!Init
  /\ which = "event" => Calendar!Promise!Init
  /\ which = "chat" => Chat!Promise!Init
  /\ [][which = "plan" => [Promise!Next]_<<message, verdict>>]_allVars
  /\ [][which = "yandex" =>
         [Yandex!Promise!Next]_<<yandex_message, Yandex!verdict>>]_yandexVars
  /\ [][which = "event" =>
         [Calendar!Promise!Next]_<<Calendar!message, Calendar!verdict>>]_eventVars
  /\ [][which = "chat" => [Chat!Promise!Next]_<<chat_message, Chat!verdict>>]_chatVars

\* What a caller is told, or a row or the plan says, is what became of the action: for
\* Gmail see AnswersAreTrue, which callers that overlap keep as well.
SaidIsTrue ==
  /\ which = "plan" => PlanAgreesWithAttempt
  /\ which = "yandex" => Yandex!SaidIsTrue
  /\ which = "event" => Calendar!AnswersAreTrue
  /\ which = "chat" => Chat!AnswersAreTrue

\* A mailbox copy is appended once at most, and its recorded state is the truth.
CopiesAreSound ==
  which = "yandex" => Yandex!AtMostOneCopy /\ Yandex!CopiesTellTheTruth

\* An event the user has changed is not written over.
NothingIsOverwritten == [][which = "event" => Calendar!NothingIsOverwritten]_eventVars

\* A Mattermost channel: what counts as scanned is never asked for again, and what is
\* below the anchor is not listed, so both have to be stored, through failed pages,
\* budgets that run out and a changed history_days.
PostsAreStored ==
  which = "channel" => Channel!ScannedIsStored /\ Channel!AnchorIsReached

\* A Teams message at or below the watermark is stored.
WatermarkIsStored == which = "teams" => Teams!WatermarkIsStored

\* A change that was swept, or that a job was made for, is in the object.
ChangesAreStored ==
  /\ which = "channel" => Channel!SweptIsCurrent
  /\ which = "teams" => Teams!QuietIsCurrent

\* Every peer is read and every known message looked up again, in turn.
EveryoneHasATurn == which = "peers" => Telegram!EveryoneHasATurn
=============================================================================
