------------------------- MODULE MCMailAndCalendars -------------------------
(***************************************************************************)
(* What reads mail and calendars: a Gmail mailbox, a Yandex one, the       *)
(* calendars of a Google account, one Yandex calendar.  They share no      *)
(* state but the user's history_days, so each behaviour follows one of     *)
(* them; the state spaces add up instead of multiplying.                   *)
(***************************************************************************)
EXTENDS GmailHistory

CONSTANTS
  MaxRenumberings,             \* see YandexMail
  GoogleDays,                  \* LastDay and
  Calendars, GooglePlacements, \*   the rest of CalendarHistory
  AsksAgain,
  Ahead, Slice, MaxEdits,
  YandexPlacements             \* see YandexCalendar

ASSUME BoundsAssumption ==
  /\ {MaxRenumberings, MaxEdits} \subseteq Nat
  /\ {GoogleDays, Ahead, Slice} \subseteq Nat \ {0}

ASSUME PlacementsAssumption ==
  /\ IsFiniteSet(Calendars) /\ Calendars = 1 .. Cardinality(Calendars)
  /\ GooglePlacements \subseteq
       [1 .. MaxItems -> [calendar : Calendars, at : (0 - Max(Spans)) .. GoogleDays]]
  /\ YandexPlacements \subseteq [1 .. MaxItems -> Int]

VARIABLES
  which, \* the connector that runs
  imap_today, imap_validity, imap_inbox, imap_stored, imap_root, imap_last,
  imap_history, imap_pass, imap_late,
  google_now, google_place, google_stored, google_state, google_pass, google_dropped,
  yandex_now, yandex_at, yandex_changed, yandex_rev, yandex_stored, yandex_entry,
  yandex_pass, yandex_chain, yandex_gap

Imap == INSTANCE YandexMail WITH
  today <- imap_today, validity <- imap_validity, inbox <- imap_inbox,
  stored <- imap_stored, root <- imap_root, last <- imap_last,
  history <- imap_history, pass <- imap_pass, late <- imap_late

Google == INSTANCE CalendarHistory WITH
  LastDay <- GoogleDays,
  Placements <- GooglePlacements,
  now <- google_now, place <- google_place, stored <- google_stored,
  state <- google_state, pass <- google_pass, dropped <- google_dropped

Yandex == INSTANCE YandexCalendar WITH
  Placements <- YandexPlacements,
  now <- yandex_now, at <- yandex_at, changed <- yandex_changed, rev <- yandex_rev,
  stored <- yandex_stored, entry <- yandex_entry, pass <- yandex_pass,
  chain <- yandex_chain, gap <- yandex_gap

\* What the run takes for the placements.
Place(c, t) == [calendar |-> c, at |-> t]
GoogleEvents == {<<Place(1, 0), Place(1, 1)>>, <<Place(1, 1), Place(2, 0)>>}
YandexEvents == {<<0 - 2, 1>>}

gmailVars == <<today, inbox, stored, scanned, active, token, pass, late>>
imapVars == <<imap_today, imap_validity, imap_inbox, imap_stored, imap_root, imap_last,
              imap_history, imap_pass, imap_late>>
googleVars == <<google_now, google_place, google_stored, google_state, google_pass,
                google_dropped>>
yandexVars == <<yandex_now, yandex_at, yandex_changed, yandex_rev, yandex_stored,
                yandex_entry, yandex_pass, yandex_chain, yandex_gap>>

\* A connector that does not run starts in one of its states, whichever.
ConnectorsInit ==
  /\ which \in {"gmail", "imap", "google", "yandex"}
  /\ Init /\ Imap!Init /\ Google!Init /\ Yandex!Init
  /\ which = "google" \/ google_place = CHOOSE p \in GooglePlacements : TRUE

ConnectorsNext ==
  /\ UNCHANGED which
  /\ \/ which = "gmail" /\ Next /\ UNCHANGED <<imapVars, googleVars, yandexVars>>
     \/ which = "imap" /\ Imap!Next /\ UNCHANGED <<gmailVars, googleVars, yandexVars>>
     \/ which = "google" /\ Google!Next /\ UNCHANGED <<gmailVars, imapVars, yandexVars>>
     \/ which = "yandex" /\ Yandex!Next /\ UNCHANGED <<gmailVars, imapVars, googleVars>>

ConnectorsSpec ==
  ConnectorsInit /\ [][ConnectorsNext]_<<which, vars, imapVars, googleVars, yandexVars>>

-----------------------------------------------------------------------------

\* Every component keeps its types.
ConnectorsTypeOK ==
  /\ which = "gmail" => TypeOK
  /\ which = "imap" => Imap!TypeOK
  /\ which = "google" => Google!TypeOK
  /\ which = "yandex" => Yandex!TypeOK

\* What a live listing of the Yandex mailbox has passed by its checkpoint is stored or
\* left to the history.
NothingIsLost == which = "imap" => Imap!NothingIsLost

\* The calendars: with Google, what counts as scanned is never asked for again, and a
\* chain of live pages goes on where it says; both leave nothing behind that is not
\* stored, whatever copy of the state a request writes back.  With Yandex, what changed
\* up to the sync token, in the time that is covered, is stored as it was, however the
\* scan was cut into passes.
EventsAreStored ==
  /\ which = "google" => Google!ScannedIsStored /\ Google!ChainIsStored
  /\ which = "yandex" => Yandex!CoveredIsCurrent
=============================================================================
