------------------------- MODULE ChatReadersProofs --------------------------
(***************************************************************************)
(* Proofs about the readers of chats in MCActionsAndChats, for any bounds  *)
(* and page sizes: what a Teams watermark and the entry of a Mattermost    *)
(* channel stand for is stored, a change that was swept or notified is in  *)
(* the object, and every Telegram peer and message has its turn.           *)
(*                                                                         *)
(* Each reader has its inductive invariant: types, what the shared state   *)
(* says, and what a pass, or a job, knows at the phase it is in.           *)
(***************************************************************************)
EXTENDS MCActionsAndChats, PagesProofs
-----------------------------------------------------------------------------
(* A Teams chat, read by the worker's pass and by the notifications' jobs. *)

Revisions == UNION {[S -> Nat \ {0}] : S \in SUBSET Teams!Numbers}
TeamsPasses ==
  [phase : {"listing", "page", "end"}, mine : Teams!Entries, below : Nat, pages : Nat,
   newest : 0 .. MaxItems, todo : Revisions, wrote : Revisions]
TeamsEvents == [message : Teams!Numbers, rev : Nat \ {0}, sub : Nat]
TeamsNotices ==
  [phase : {"begun"}, job : TeamsEvents, mine : Teams!Entries]
  \union [phase : {"fetched", "locked"}, job : TeamsEvents, mine : Teams!Entries,
          rev : Nat]

\* A pass: what was stored when it began, its newest message, and, of the messages it
\* is to leave behind its watermark, those it has listed so far.
PassSound(s) ==
  /\ \A m \in 1 .. s.mine.mark : teams_obj[m] # 0
  /\ s.mine.mark <= s.newest
  /\ s.newest # 0 => teams_rev[s.newest] # 0
  /\ \A m \in 1 .. s.newest :
       s.mine.mark <= m /\ s.below <= m =>
         teams_obj[m] # 0 \/ m \in DOMAIN s.wrote \union DOMAIN s.todo
  /\ s.phase # "page" => DOMAIN s.todo = {}
  /\ s.phase = "end" => s.newest = s.mine.mark \/ s.below <= s.mine.mark \/ s.below <= 1

\* A job: its message exists, and a chat it has not found in the state has no watermark.
NoticeSound(n) ==
  /\ teams_rev[n.job.message] # 0
  /\ ~ n.mine.known => n.mine.mark = 0
  /\ n.phase # "begun" => n.rev # 0

\* The chat's entry: without it there is no watermark, and the watermark is a message.
EntrySound ==
  /\ ~ teams_state.known => teams_state.mark = 0
  /\ teams_state.mark # 0 => teams_rev[teams_state.mark] # 0
  /\ Teams!WatermarkIsStored

TeamsTypes ==
  /\ teams_rev \in [Teams!Numbers -> Nat] /\ teams_obj \in [Teams!Numbers -> Nat]
  /\ teams_state \in Teams!Entries
  /\ teams_sub \in [id : Nat, live : BOOLEAN]
  /\ teams_jobs \subseteq TeamsEvents
  /\ teams_sync \in {Teams!Idle} \union TeamsPasses
  /\ teams_notice \in {Teams!Idle} \union TeamsNotices

TeamsInv ==
  /\ TeamsTypes
  /\ \A m \in Teams!Written : 1 .. m \subseteq Teams!Written
  /\ EntrySound
  /\ \A j \in teams_jobs : teams_rev[j.message] # 0
  /\ teams_sync # Teams!Idle => PassSound(teams_sync)
  /\ teams_notice # Teams!Idle => NoticeSound(teams_notice)

\* Messages are never unwritten, and objects are not lost.
TeamsGrow ==
  /\ teams_rev' \in [Teams!Numbers -> Nat] /\ teams_obj' \in [Teams!Numbers -> Nat]
  /\ \A m \in Teams!Numbers : teams_rev[m] # 0 => teams_rev'[m] # 0
  /\ \A m \in Teams!Numbers : teams_obj[m] # 0 => teams_obj'[m] # 0

LEMMA TeamsNumbers ==
  /\ Teams!Numbers = 1 .. MaxItems /\ MaxItems \in Nat /\ Page \in Nat \ {0}
  /\ Teams!Idle.phase = "idle"
BY TeamsAssumption DEF Teams!Numbers, Teams!Idle

LEMMA RevisionFacts ==
  /\ \A f \in Revisions :
       DOMAIN f \subseteq Teams!Numbers /\ \A m \in DOMAIN f : f[m] \in Nat \ {0}
  /\ \A S \in SUBSET Teams!Numbers : \A f : f \in [S -> Nat \ {0}] => f \in Revisions
  /\ Teams!Nothing \in Revisions /\ DOMAIN Teams!Nothing = {}
<1>1. ASSUME NEW f \in Revisions
      PROVE  DOMAIN f \subseteq Teams!Numbers /\ \A m \in DOMAIN f : f[m] \in Nat \ {0}
  BY <1>1 DEF Revisions
<1>2. ASSUME NEW S \in SUBSET Teams!Numbers, NEW f, f \in [S -> Nat \ {0}]
      PROVE  f \in Revisions
  BY <1>2 DEF Revisions
<1>3. Teams!Nothing \in [{} -> Nat \ {0}] /\ DOMAIN Teams!Nothing = {}
  BY DEF Teams!Nothing
<1> QED  BY <1>1, <1>2, <1>3

LEMMA PassStands ==
  ASSUME TeamsGrow, NEW s \in TeamsPasses, PassSound(s)
  PROVE  PassSound(s)'
<1>1. s.mine.mark \in 0 .. MaxItems /\ s.newest \in 0 .. MaxItems
  BY DEF TeamsPasses, Teams!Entries
<1>2. 1 .. s.mine.mark \subseteq Teams!Numbers /\ 1 .. s.newest \subseteq Teams!Numbers
      /\ (s.newest # 0 => s.newest \in Teams!Numbers)
  BY <1>1, TeamsNumbers
<1> QED  BY <1>2 DEF PassSound, TeamsGrow

LEMMA NoticeStands ==
  ASSUME TeamsGrow, NEW n \in TeamsNotices, NoticeSound(n)
  PROVE  NoticeSound(n)'
<1>1. n.job.message \in Teams!Numbers
  BY DEF TeamsNotices, TeamsEvents
<1> QED  BY <1>1 DEF NoticeSound, TeamsGrow

\* What is left to show of each step.
LEMMA TeamsMoves ==
  ASSUME TeamsInv, TeamsGrow,
         teams_rev' = teams_rev \/ (\A m \in Teams!Written : 1 .. m \subseteq Teams!Written)',
         teams_state' = teams_state \/ (teams_state' \in Teams!Entries /\ EntrySound'),
         teams_sub' \in [id : Nat, live : BOOLEAN],
         \A j \in teams_jobs' :
           j \in teams_jobs \/ (j \in TeamsEvents /\ teams_rev'[j.message] # 0),
         \/ teams_sync' = teams_sync \/ teams_sync' = Teams!Idle
         \/ teams_sync' \in TeamsPasses /\ PassSound(teams_sync)',
         \/ teams_notice' = teams_notice \/ teams_notice' = Teams!Idle
         \/ teams_notice' \in TeamsNotices /\ NoticeSound(teams_notice)'
  PROVE  TeamsInv'
<1>1. TeamsTypes /\ EntrySound
  BY DEF TeamsInv
<1>2. TeamsTypes'
  <2>1. teams_state' \in Teams!Entries
    BY <1>1 DEF TeamsTypes
  <2>2. teams_jobs' \subseteq TeamsEvents
    BY <1>1 DEF TeamsTypes
  <2>3. teams_sync' \in {Teams!Idle} \union TeamsPasses
    BY <1>1 DEF TeamsTypes
  <2>4. teams_notice' \in {Teams!Idle} \union TeamsNotices
    BY <1>1 DEF TeamsTypes
  <2> QED  BY <2>1, <2>2, <2>3, <2>4 DEF TeamsTypes, TeamsGrow
<1>3. (\A m \in Teams!Written : 1 .. m \subseteq Teams!Written)'
  BY DEF TeamsInv, Teams!Written
<1>4. EntrySound'
  <2>1. CASE teams_state' = teams_state
    <3>1. teams_state.mark \in 0 .. MaxItems
      BY <1>1 DEF TeamsTypes, Teams!Entries
    <3>2. 1 .. teams_state.mark \subseteq Teams!Numbers
          /\ (teams_state.mark # 0 => teams_state.mark \in Teams!Numbers)
      BY <3>1, TeamsNumbers
    <3> QED  BY <1>1, <2>1, <3>2 DEF EntrySound, TeamsGrow, Teams!WatermarkIsStored
  <2> QED  BY <2>1
<1>5. \A j \in teams_jobs' : teams_rev'[j.message] # 0
  <2>1. \A j \in teams_jobs : j.message \in Teams!Numbers /\ teams_rev[j.message] # 0
    BY <1>1 DEF TeamsInv, TeamsTypes, TeamsEvents
  <2> QED  BY <2>1 DEF TeamsGrow
<1>6. teams_sync' # Teams!Idle => PassSound(teams_sync)'
  <2>1. CASE teams_sync' = teams_sync /\ teams_sync # Teams!Idle
    <3>1. PICK s : s = teams_sync
      OBVIOUS
    <3>2. s \in TeamsPasses /\ PassSound(s)
      BY <1>1, <2>1, <3>1 DEF TeamsInv, TeamsTypes
    <3> QED  BY <2>1, <3>1, <3>2, PassStands
  <2> QED  BY <2>1
<1>7. teams_notice' # Teams!Idle => NoticeSound(teams_notice)'
  <2>1. CASE teams_notice' = teams_notice /\ teams_notice # Teams!Idle
    <3>1. PICK n : n = teams_notice
      OBVIOUS
    <3>2. n \in TeamsNotices /\ NoticeSound(n)
      BY <1>1, <2>1, <3>1 DEF TeamsInv, TeamsTypes
    <3> QED  BY <2>1, <3>1, <3>2, NoticeStands
  <2> QED  BY <2>1
<1> QED  BY <1>2, <1>3, <1>4, <1>5, <1>6, <1>7 DEF TeamsInv

\* Everything the sync and the notices leave alone stands.
LEMMA TeamsQuiet ==
  ASSUME TeamsInv, teams_rev' = teams_rev, teams_obj' = teams_obj
  PROVE  TeamsGrow
BY DEF TeamsInv, TeamsTypes, TeamsGrow

LEMMA TeamsSay ==
  ASSUME TeamsInv, Teams!Say
  PROVE  TeamsInv'
<1>1. PICK m \in Teams!Numbers :
        /\ 1 .. (m - 1) \subseteq Teams!Written
        /\ teams_rev' = [teams_rev EXCEPT ![m] = @ + 1]
        /\ Teams!Notified(m)
        /\ UNCHANGED <<teams_obj, teams_state, teams_sub, teams_sync, teams_notice>>
  BY DEF Teams!Say
<1>2. /\ teams_rev \in [Teams!Numbers -> Nat] /\ teams_obj \in [Teams!Numbers -> Nat]
      /\ teams_sub \in [id : Nat, live : BOOLEAN]
  BY DEF TeamsInv, TeamsTypes
<1>3. /\ teams_rev' \in [Teams!Numbers -> Nat] /\ teams_rev'[m] \in Nat \ {0}
      /\ \A k \in Teams!Numbers \ {m} : teams_rev'[k] = teams_rev[k]
  BY <1>1, <1>2
<1>4. TeamsGrow
  BY <1>1, <1>2, <1>3 DEF TeamsGrow
<1>5. ASSUME NEW k \in Teams!Numbers, teams_rev'[k] # 0, NEW i \in 1 .. k
      PROVE  i \in Teams!Numbers /\ teams_rev'[i] # 0
  <2>1. i \in Teams!Numbers
    BY <1>5, TeamsNumbers
  <2>2. CASE k = m
    <3>1. i = m \/ i \in 1 .. (m - 1)
      BY <1>1, <1>5, <2>2, TeamsNumbers
    <3>2. CASE i = m
      BY <1>3, <2>1, <3>2
    <3>3. CASE i \in 1 .. (m - 1)
      <4>1. teams_rev[i] # 0
        BY <1>1, <3>3 DEF Teams!Written
      <4> QED  BY <1>4, <2>1, <4>1 DEF TeamsGrow
    <3> QED  BY <3>1, <3>2, <3>3
  <2>3. CASE k # m
    <3>1. k \in Teams!Written
      BY <1>3, <1>5, <2>3 DEF Teams!Written
    <3>2. teams_rev[i] # 0
      BY <1>5, <3>1 DEF TeamsInv, Teams!Written
    <3> QED  BY <1>4, <2>1, <3>2 DEF TeamsGrow
  <2> QED  BY <2>2, <2>3
<1>6. (\A k \in Teams!Written : 1 .. k \subseteq Teams!Written)'
  BY <1>5 DEF Teams!Written
<1>7. \A j \in teams_jobs' :
        j \in teams_jobs \/ (j \in TeamsEvents /\ teams_rev'[j.message] # 0)
  <2>1. PICK i : i = teams_sub.id
    OBVIOUS
  <2>2. i \in Nat
    BY <1>2, <2>1
  <2>3. PICK r : r = teams_rev'[m]
    OBVIOUS
  <2>4. PICK new : new = [message |-> m, rev |-> r, sub |-> i]
    OBVIOUS
  <2>5. new \in TeamsEvents /\ new.message = m
    BY <1>3, <2>2, <2>3, <2>4 DEF TeamsEvents
  <2>6. \A j \in teams_jobs' : j \in teams_jobs \/ j = new
    BY <1>1, <2>1, <2>3, <2>4 DEF Teams!Notified
  <2> QED  BY <1>3, <2>5, <2>6
<1> QED  BY <1>1, <1>2, <1>4, <1>6, <1>7, TeamsMoves

LEMMA TeamsSubscriptionEnds ==
  ASSUME TeamsInv, Teams!SubscriptionEnds
  PROVE  TeamsInv'
<1>1. /\ teams_sub' = [teams_sub EXCEPT !.live = FALSE]
      /\ UNCHANGED <<teams_rev, teams_obj, teams_state, teams_jobs, teams_sync,
                     teams_notice>>
  BY DEF Teams!SubscriptionEnds
<1>2. teams_sub' \in [id : Nat, live : BOOLEAN]
  BY <1>1 DEF TeamsInv, TeamsTypes
<1>3. TeamsGrow
  BY <1>1, TeamsQuiet
<1> QED  BY <1>1, <1>2, <1>3, TeamsMoves

\* A pass begins with the watermark it has read, all below it stored.
LEMMA TeamsBeginSync ==
  ASSUME TeamsInv, Teams!BeginSync
  PROVE  TeamsInv'
<1>1. PICK phase \in {"listing", "end"} :
        teams_sync' = [phase |-> phase, mine |-> teams_state, below |-> MaxItems + 1,
                       pages |-> 0, newest |-> teams_state.mark,
                       todo |-> Teams!Nothing, wrote |-> Teams!Nothing]
  BY DEF Teams!BeginSync
<1>2. /\ UNCHANGED <<teams_rev, teams_obj, teams_state, teams_jobs, teams_notice>>
      /\ Teams!Ensured
  BY DEF Teams!BeginSync
<1>3. teams_sub' \in [id : Nat, live : BOOLEAN]
  <2>1. teams_sub \in [id : Nat, live : BOOLEAN] /\ teams_sub.id \in Nat
    BY DEF TeamsInv, TeamsTypes
  <2>2. PICK i : i = teams_sub.id + 1
    OBVIOUS
  <2>3. teams_sub' = teams_sub \/ teams_sub' = [id |-> i, live |-> TRUE]
    BY <1>2, <2>2 DEF Teams!Ensured
  <2>4. i \in Nat
    BY <2>1, <2>2
  <2>5. [id |-> i, live |-> TRUE] \in [id : Nat, live : BOOLEAN]
    BY <2>4
  <2> QED  BY <2>1, <2>3, <2>5
<1>4. /\ teams_state \in Teams!Entries /\ EntrySound /\ teams_state.mark \in 0 .. MaxItems
  BY DEF TeamsInv, TeamsTypes, Teams!Entries
<1>5. /\ teams_sync' \in TeamsPasses
      /\ teams_sync'.phase # "page" /\ teams_sync'.mine = teams_state
      /\ teams_sync'.below = MaxItems + 1 /\ teams_sync'.newest = teams_state.mark
      /\ DOMAIN teams_sync'.todo = {}
  BY <1>1, <1>4, RevisionFacts, TeamsNumbers DEF TeamsPasses
<1>6. PassSound(teams_sync)'
  <2>1. \A m \in 1 .. teams_state.mark : ~ (MaxItems + 1 <= m)
    BY <1>4, TeamsNumbers
  <2>2. teams_state.mark <= teams_state.mark
    BY <1>4, TeamsNumbers
  <2> QED  BY <1>2, <1>4, <1>5, <2>1, <2>2
           DEF PassSound, EntrySound, Teams!WatermarkIsStored
<1> QED  BY <1>2, <1>3, <1>5, <1>6, TeamsQuiet, TeamsMoves

PageBelow(below) == Teams!Largest({m \in Teams!Written : m < below}, Page)
TopOf(newest, page) == Teams!Max({newest} \union page)

\* What a page shows, and what it leaves for the pages below it.
LEMMA TeamsPage ==
  ASSUME TeamsInv, NEW below \in Nat, NEW newest \in 0 .. MaxItems, NEW page, NEW next,
         NEW top,
         newest # 0 => teams_rev[newest] # 0, page = PageBelow(below),
         next = (IF page = {} THEN 0 ELSE Teams!Min(page)), top = TopOf(newest, page)
  PROVE  /\ page \subseteq Teams!Written
         /\ next \in Nat /\ top \in 0 .. MaxItems /\ newest <= top
         /\ top # 0 => teams_rev[top] # 0
         /\ \A m \in 1 .. top : m < below /\ next <= m => m \in page
         /\ \A m \in 1 .. top : below <= m => m <= newest
<1>1. PICK old, all : /\ old = {m \in Teams!Written : m < below}
                      /\ all = {newest} \union page
  OBVIOUS
<1>2. /\ Teams!Written \subseteq Teams!Numbers /\ Teams!Written \subseteq Int
      /\ IsFiniteSet(Teams!Written)
  <2>1. IsFiniteSet(1 .. MaxItems)
    BY TeamsNumbers, FS_Interval
  <2>2. Teams!Written \subseteq 1 .. MaxItems
    BY TeamsNumbers DEF Teams!Written
  <2>3. Teams!Written \subseteq Int
    BY <2>2
  <2> QED  BY <2>1, <2>2, <2>3, TeamsNumbers, FS_Subset
<1>3. old \in SUBSET Int /\ IsFiniteSet(old)
  <2>1. old \subseteq Teams!Written
    BY <1>1
  <2> QED  BY <1>2, <2>1, FS_Subset
<1>4. page = Largest(old, Page)
  <2>1. \A S : Teams!Cardinality(S) = Cardinality(S)
    BY DEF Teams!Cardinality, Cardinality
  <2>2. page = Teams!Largest(old, Page)
    BY <1>1 DEF PageBelow
  <2> QED  BY <2>1, <2>2 DEF Teams!Largest, Largest
<1>5. /\ page \subseteq old
      /\ old # {} => page # {}
      /\ \A x \in page, y \in old \ page : y < x
  BY <1>3, <1>4, LargestIsPage, TeamsNumbers
<1>6. page \in SUBSET Int /\ IsFiniteSet(page) /\ page \subseteq Teams!Written
  <2>1. page \in SUBSET Int /\ page \subseteq Teams!Written
    BY <1>1, <1>3, <1>5
  <2>2. IsFiniteSet(page)
    BY <1>3, <1>5, FS_Subset
  <2> QED  BY <2>1, <2>2
<1>7. page # {} => next \in page /\ \A y \in page : next <= y
  BY <1>6, MinIsLeast DEF Teams!Min, Min
<1>8. top \in {newest} \union page /\ \A y \in {newest} \union page : top >= y
  <2>1. all \in SUBSET Int /\ all # {}
    BY <1>1, <1>6, TeamsNumbers
  <2>2. IsFiniteSet({newest} \union page)
    BY <1>6, FS_AddElement
  <2>3. top = Max(all)
    BY <1>1 DEF TopOf, Teams!Max, Max
  <2> QED  BY <1>1, <2>1, <2>2, <2>3, MaxIsGreatest
<1>9. next \in Nat
  <2>1. \A m \in page : m \in Nat
    BY <1>2, <1>6, TeamsNumbers
  <2> QED  BY <1>7, <2>1
<1>10. top \in 0 .. MaxItems /\ newest <= top
  <2>1. \A m \in page : m \in 1 .. MaxItems
    BY <1>2, <1>6, TeamsNumbers
  <2>2. top \in 0 .. MaxItems
    BY <1>8, <2>1, TeamsNumbers
  <2> QED  BY <1>8, <2>2, TeamsNumbers
<1>11. top # 0 => teams_rev[top] # 0
  BY <1>6, <1>8 DEF Teams!Written
<1>12. \A m \in 1 .. top : m \in Teams!Written /\ m \in Nat
  <2>1. top # 0 => top \in Teams!Written
    BY <1>10, <1>11, TeamsNumbers DEF Teams!Written
  <2> QED  BY <1>10, <2>1 DEF TeamsInv
<1>13. ASSUME NEW m \in 1 .. top, m < below, next <= m
       PROVE  m \in page
  <2>1. m \in old
    BY <1>1, <1>12, <1>13
  <2>2. page # {} /\ next \in page
    BY <1>5, <1>7, <2>1
  <2>3. m < next => m \in page
    BY <1>9, <1>12, <1>13
  <2>4. m \notin page => m < next
    BY <1>5, <2>1, <2>2
  <2> QED  BY <2>3, <2>4
<1>14. ASSUME NEW m \in 1 .. top, below <= m
       PROVE  m <= newest
  <2>1. CASE top = newest
    BY <1>10, <2>1
  <2>2. CASE top \in page
    <3>1. top < below
      BY <1>1, <1>5, <2>2
    <3> QED  BY <1>10, <1>12, <1>14, <3>1
  <2> QED  BY <1>8, <2>1, <2>2
<1> QED  BY <1>6, <1>9, <1>10, <1>11, <1>13, <1>14

LEMMA TeamsListPage ==
  ASSUME TeamsInv, Teams!ListPage
  PROVE  TeamsInv'
<1>1. PICK s : s = teams_sync
  OBVIOUS
<1>2. /\ s \in TeamsPasses /\ PassSound(s) /\ s.phase = "listing"
      /\ UNCHANGED <<teams_rev, teams_obj, teams_state, teams_sub, teams_jobs,
                     teams_notice>>
  BY <1>1, TeamsNumbers DEF Teams!ListPage, Teams!chat, TeamsInv, TeamsTypes
<1>3. PICK page, next, top, todo :
        /\ page = PageBelow(s.below)
        /\ next = (IF page = {} THEN 0 ELSE Teams!Min(page))
        /\ top = TopOf(s.newest, page)
        /\ todo = [m \in {k \in page : k >= s.mine.mark} |-> teams_rev[m]]
  OBVIOUS
<1>4. teams_sync' = [s EXCEPT !.phase = "page", !.pages = @ + 1, !.below = next,
                              !.newest = top, !.todo = todo]
  BY <1>1, <1>3 DEF Teams!ListPage, PageBelow, TopOf
<1>5. /\ s.below \in Nat /\ s.newest \in 0 .. MaxItems /\ s.mine.mark \in 0 .. MaxItems
      /\ s.wrote \in Revisions /\ s.pages \in Nat
  BY <1>2 DEF TeamsPasses, Teams!Entries
<1>6. s.newest # 0 => teams_rev[s.newest] # 0
  BY <1>2 DEF PassSound
<1>7. /\ page \subseteq Teams!Written
      /\ next \in Nat /\ top \in 0 .. MaxItems /\ s.newest <= top
      /\ top # 0 => teams_rev[top] # 0
      /\ \A m \in 1 .. top : m < s.below /\ next <= m => m \in page
      /\ \A m \in 1 .. top : s.below <= m => m <= s.newest
  <2>1. PICK below, newest : below = s.below /\ newest = s.newest
    OBVIOUS
  <2>2. /\ below \in Nat /\ newest \in 0 .. MaxItems
        /\ newest # 0 => teams_rev[newest] # 0
        /\ page = PageBelow(below) /\ top = TopOf(newest, page)
    BY <1>3, <1>5, <1>6, <2>1
  <2>3. /\ page \subseteq Teams!Written
        /\ next \in Nat /\ top \in 0 .. MaxItems /\ newest <= top
        /\ top # 0 => teams_rev[top] # 0
        /\ \A m \in 1 .. top : m < below /\ next <= m => m \in page
        /\ \A m \in 1 .. top : below <= m => m <= newest
    BY <1>3, <2>2, TeamsPage
  <2> QED  BY <2>1, <2>3
<1>8. /\ todo \in Revisions /\ DOMAIN todo = {k \in page : k >= s.mine.mark}
  <2>1. \A m \in page : m \in Teams!Numbers /\ teams_rev[m] \in Nat \ {0}
    BY <1>7 DEF Teams!Written, TeamsInv, TeamsTypes
  <2>2. DOMAIN todo = {k \in page : k >= s.mine.mark}
    BY <1>3
  <2>3. todo \in [{k \in page : k >= s.mine.mark} -> Nat \ {0}]
    BY <1>3, <2>1
  <2>4. {k \in page : k >= s.mine.mark} \in SUBSET Teams!Numbers
    BY <2>1
  <2> QED  BY <2>2, <2>3, <2>4, RevisionFacts
<1>9. /\ teams_sync' \in TeamsPasses
      /\ teams_sync'.phase = "page" /\ teams_sync'.mine = s.mine
      /\ teams_sync'.below = next /\ teams_sync'.newest = top
      /\ teams_sync'.todo = todo /\ teams_sync'.wrote = s.wrote
  <2>1. PICK pages : pages = s.pages + 1
    OBVIOUS
  <2>2. teams_sync' = [s EXCEPT !.phase = "page", !.pages = pages, !.below = next,
                                !.newest = top, !.todo = todo]
    BY <1>4, <2>1
  <2>3. pages \in Nat
    BY <1>5, <2>1
  <2> QED  BY <1>2, <1>7, <1>8, <2>2, <2>3 DEF TeamsPasses
<1>10. ASSUME NEW m \in 1 .. top, s.mine.mark <= m, next <= m
       PROVE  teams_obj[m] # 0 \/ m \in DOMAIN s.wrote \union DOMAIN todo
  <2>1. CASE m < s.below
    <3>1. m \in page /\ m >= s.mine.mark
      BY <1>5, <1>7, <1>10, <2>1
    <3> QED  BY <1>8, <3>1
  <2>2. CASE s.below <= m
    <3>1. m \in 1 .. s.newest /\ DOMAIN s.todo = {}
      BY <1>2, <1>5, <1>7, <1>10, <2>2 DEF PassSound
    <3> QED  BY <1>2, <1>10, <2>2, <3>1 DEF PassSound
  <2> QED  BY <1>5, <1>7, <1>10, <2>1, <2>2
<1>11. s.mine.mark <= top
  BY <1>2, <1>5, <1>7 DEF PassSound
<1>12. PassSound(teams_sync)'
  BY <1>2, <1>7, <1>9, <1>10, <1>11 DEF PassSound
<1>13. teams_sub \in [id : Nat, live : BOOLEAN]
  BY DEF TeamsInv, TeamsTypes
<1> QED  BY <1>2, <1>9, <1>12, <1>13, TeamsQuiet, TeamsMoves

LEMMA TeamsStorePage ==
  ASSUME TeamsInv, Teams!StorePage
  PROVE  TeamsInv'
<1>1. PICK s : s = teams_sync
  OBVIOUS
<1>2. /\ s \in TeamsPasses /\ PassSound(s) /\ s.phase = "page"
      /\ UNCHANGED <<teams_rev, teams_obj, teams_state, teams_sub, teams_jobs,
                     teams_notice>>
  BY <1>1, TeamsNumbers DEF Teams!StorePage, Teams!chat, TeamsInv, TeamsTypes
<1>3. PICK todo, differ : /\ todo = s.todo
                          /\ differ = {m \in DOMAIN todo : teams_obj[m] # todo[m]}
  OBVIOUS
<1>4. PICK wrote, phase :
        /\ wrote = [m \in DOMAIN s.wrote \union differ |->
                      IF m \in differ THEN todo[m] ELSE s.wrote[m]]
        /\ phase = IF s.below <= Teams!Max({1, s.mine.mark}) THEN "end" ELSE "listing"
  OBVIOUS
<1>5. teams_sync' = [s EXCEPT !.phase = phase, !.todo = Teams!Nothing, !.wrote = wrote]
  BY <1>1, <1>3, <1>4 DEF Teams!StorePage
<1>6. /\ s.below \in Nat /\ s.newest \in 0 .. MaxItems /\ s.mine.mark \in 0 .. MaxItems
      /\ s.wrote \in Revisions /\ todo \in Revisions
  BY <1>2, <1>3 DEF TeamsPasses, Teams!Entries
<1>7. wrote \in Revisions /\ DOMAIN wrote = DOMAIN s.wrote \union differ
  <2>1. /\ DOMAIN s.wrote \subseteq Teams!Numbers /\ differ \subseteq DOMAIN todo
        /\ DOMAIN todo \subseteq Teams!Numbers
        /\ \A m \in DOMAIN s.wrote : s.wrote[m] \in Nat \ {0}
        /\ \A m \in DOMAIN todo : todo[m] \in Nat \ {0}
    BY <1>3, <1>6, RevisionFacts
  <2>2. DOMAIN wrote = DOMAIN s.wrote \union differ
    BY <1>4
  <2>3. wrote \in [DOMAIN s.wrote \union differ -> Nat \ {0}]
    BY <1>4, <2>1
  <2> QED  BY <2>1, <2>2, <2>3, RevisionFacts
<1>8. /\ teams_sync' \in TeamsPasses
      /\ teams_sync'.phase = phase /\ teams_sync'.mine = s.mine
      /\ teams_sync'.below = s.below /\ teams_sync'.newest = s.newest
      /\ teams_sync'.todo = Teams!Nothing /\ teams_sync'.wrote = wrote
  <2>1. phase \in {"end", "listing"}
    BY <1>4
  <2> QED  BY <1>2, <1>5, <1>7, <2>1, RevisionFacts DEF TeamsPasses
<1>9. ASSUME NEW m \in 1 .. s.newest, s.mine.mark <= m, s.below <= m
      PROVE  teams_obj[m] # 0 \/ m \in DOMAIN wrote
  <2>1. teams_obj[m] # 0 \/ m \in DOMAIN s.wrote \union DOMAIN todo
    BY <1>2, <1>3, <1>9 DEF PassSound
  <2>2. m \in DOMAIN todo /\ m \notin differ => teams_obj[m] # 0
    BY <1>3, <1>6, RevisionFacts
  <2> QED  BY <1>7, <2>1, <2>2
<1>10. phase = "end" => s.below <= s.mine.mark \/ s.below <= 1
  <2>1. PICK both : both = {1, s.mine.mark}
    OBVIOUS
  <2>2. both \in SUBSET Int /\ both # {}
    BY <1>6, <2>1, TeamsNumbers
  <2>3. IsFiniteSet(both)
    <3>1. IsFiniteSet({s.mine.mark})
      BY FS_Singleton
    <3>2. both = {s.mine.mark} \union {1}
      BY <2>1
    <3> QED  BY <3>1, <3>2, FS_AddElement
  <2>4. Max(both) \in {1, s.mine.mark}
    BY <2>1, <2>2, <2>3, MaxIsGreatest
  <2>5. Teams!Max(both) = Max(both)
    BY DEF Teams!Max, Max
  <2> QED  BY <1>4, <2>1, <2>4, <2>5
<1>11. PassSound(teams_sync)'
  <2>1. DOMAIN Teams!Nothing = {} /\ phase # "page"
    BY <1>4, RevisionFacts
  <2> QED  BY <1>2, <1>8, <1>9, <1>10, <2>1 DEF PassSound
<1>12. teams_sub \in [id : Nat, live : BOOLEAN]
  BY DEF TeamsInv, TeamsTypes
<1> QED  BY <1>2, <1>8, <1>11, <1>12, TeamsQuiet, TeamsMoves

\* The watermark moves to the newest message when all above the old one are stored.
LEMMA TeamsEndSync ==
  ASSUME TeamsInv, Teams!EndSync
  PROVE  TeamsInv'
<1>1. PICK s, wrote, newest : s = teams_sync /\ wrote = s.wrote /\ newest = s.newest
  OBVIOUS
<1>2. /\ s \in TeamsPasses /\ PassSound(s) /\ s.phase = "end"
      /\ teams_obj' = [m \in Teams!Numbers |-> IF m \in DOMAIN wrote THEN wrote[m]
                                               ELSE teams_obj[m]]
      /\ teams_state' = [known |-> TRUE, mark |-> newest]
      /\ teams_sync' = Teams!Idle
      /\ UNCHANGED <<teams_rev, teams_sub, teams_jobs, teams_notice>>
  BY <1>1, TeamsNumbers
  DEF Teams!EndSync, Teams!Commit, Teams!chat, TeamsInv, TeamsTypes
<1>3. /\ s.below \in Nat /\ newest \in 0 .. MaxItems /\ s.mine.mark \in 0 .. MaxItems
      /\ wrote \in Revisions
  BY <1>1, <1>2 DEF TeamsPasses, Teams!Entries
<1>4. /\ teams_obj \in [Teams!Numbers -> Nat] /\ teams_rev \in [Teams!Numbers -> Nat]
      /\ teams_sub \in [id : Nat, live : BOOLEAN]
  BY DEF TeamsInv, TeamsTypes
<1>5. \A m \in DOMAIN wrote : wrote[m] \in Nat \ {0}
  BY <1>3, RevisionFacts
<1>6. TeamsGrow
  BY <1>2, <1>4, <1>5 DEF TeamsGrow
<1>7. teams_state' \in Teams!Entries /\ teams_state'.known = TRUE
      /\ teams_state'.mark = newest
  BY <1>2, <1>3 DEF Teams!Entries
<1>8. ASSUME NEW m \in 1 .. newest
      PROVE  teams_obj'[m] # 0
  <2>1. m \in Teams!Numbers
    BY <1>3, TeamsNumbers
  <2>2. m \in DOMAIN wrote \/ teams_obj[m] # 0
    <3>1. DOMAIN s.todo = {}
      BY <1>2 DEF PassSound
    <3>2. CASE m \in 1 .. s.mine.mark
      BY <1>2, <3>2 DEF PassSound
    <3>3. CASE s.mine.mark < m
      <4>1. s.newest # s.mine.mark
        BY <1>1, <1>3, <3>3
      <4>2. s.below <= s.mine.mark \/ s.below <= 1
        BY <1>2, <4>1 DEF PassSound
      <4>3. s.mine.mark <= m /\ s.below <= m
        BY <1>3, <3>3, <4>2
      <4>4. teams_obj[m] # 0 \/ m \in DOMAIN s.wrote \union DOMAIN s.todo
        BY <1>1, <1>2, <4>3 DEF PassSound
      <4> QED  BY <1>1, <3>1, <4>4
    <3> QED  BY <1>3, <3>2, <3>3
  <2> QED  BY <1>2, <1>5, <1>6, <2>1, <2>2 DEF TeamsGrow
<1>9. newest # 0 => teams_rev'[newest] # 0
  BY <1>1, <1>2 DEF PassSound
<1>10. EntrySound'
  BY <1>7, <1>8, <1>9 DEF EntrySound, Teams!WatermarkIsStored
<1> QED  BY <1>2, <1>4, <1>6, <1>7, <1>10, TeamsMoves

LEMMA TeamsAborts ==
  ASSUME TeamsInv, Teams!AbortSync \/ Teams!AbortNotice
  PROVE  TeamsInv'
<1>1. /\ UNCHANGED <<teams_rev, teams_obj, teams_state, teams_sub>>
      /\ teams_jobs' \subseteq teams_jobs
      /\ teams_sync' = teams_sync \/ teams_sync' = Teams!Idle
      /\ teams_notice' = teams_notice \/ teams_notice' = Teams!Idle
  BY DEF Teams!AbortSync, Teams!AbortNotice, Teams!Drop, Teams!chat
<1>2. teams_sub \in [id : Nat, live : BOOLEAN]
  BY DEF TeamsInv, TeamsTypes
<1> QED  BY <1>1, <1>2, TeamsQuiet, TeamsMoves

LEMMA TeamsBeginNotice ==
  ASSUME TeamsInv, Teams!BeginNotice
  PROVE  TeamsInv'
<1>1. PICK j \in teams_jobs :
        \/ teams_jobs' = teams_jobs \ {j} /\ teams_notice' = Teams!Idle
        \/ /\ teams_notice' = [phase |-> "begun", job |-> j, mine |-> teams_state]
           /\ teams_jobs' = teams_jobs
  BY DEF Teams!BeginNotice, Teams!Drop
<1>2. UNCHANGED <<teams_rev, teams_obj, teams_state, teams_sub, teams_sync>>
  BY DEF Teams!BeginNotice
<1>3. /\ teams_sub \in [id : Nat, live : BOOLEAN] /\ teams_state \in Teams!Entries
      /\ teams_jobs \subseteq TeamsEvents /\ EntrySound
      /\ teams_rev[j.message] # 0
  BY DEF TeamsInv, TeamsTypes
<1>4. PICK new : new = [phase |-> "begun", job |-> j, mine |-> teams_state]
  OBVIOUS
<1>5. /\ new \in TeamsNotices /\ new.phase = "begun" /\ new.job = j
      /\ new.mine = teams_state
  BY <1>3, <1>4 DEF TeamsNotices
<1>6. NoticeSound(new)
  BY <1>3, <1>5 DEF NoticeSound, EntrySound
<1>7. NoticeSound(new)'
  BY <1>2, <1>6 DEF NoticeSound
<1>8. /\ teams_notice' = Teams!Idle \/ teams_notice' = new
      /\ teams_jobs' \subseteq teams_jobs
  BY <1>1, <1>4
<1> QED  BY <1>2, <1>3, <1>5, <1>7, <1>8, TeamsQuiet, TeamsMoves

LEMMA TeamsFetch ==
  ASSUME TeamsInv, Teams!FetchMessage \/ Teams!WaitLocked
  PROVE  TeamsInv'
<1>1. PICK n : n = teams_notice
  OBVIOUS
<1>2. /\ n \in TeamsNotices /\ NoticeSound(n) /\ n.phase \in {"begun", "fetched"}
      /\ UNCHANGED <<teams_rev, teams_obj, teams_state, teams_sub, teams_jobs, teams_sync>>
  BY <1>1, TeamsNumbers
  DEF Teams!FetchMessage, Teams!WaitLocked, Teams!chat, TeamsInv, TeamsTypes
<1>3. teams_sub \in [id : Nat, live : BOOLEAN]
  BY DEF TeamsInv, TeamsTypes
<1>4. n.job \in TeamsEvents /\ n.mine \in Teams!Entries /\ n.job.message \in Teams!Numbers
  BY <1>2 DEF TeamsNotices, TeamsEvents
<1>5. PICK r, job, mine : r = teams_rev[n.job.message] /\ job = n.job /\ mine = n.mine
  OBVIOUS
<1>6. r \in Nat /\ r # 0
  BY <1>2, <1>4, <1>5 DEF TeamsInv, TeamsTypes, NoticeSound
<1>7. PICK new : new = teams_notice'
  OBVIOUS
<1>8. new \in TeamsNotices /\ NoticeSound(new)
  <2>1. CASE Teams!FetchMessage
    <3>1. new = [phase |-> "fetched", job |-> job, mine |-> mine, rev |-> r]
      BY <1>1, <1>5, <1>7, <2>1 DEF Teams!FetchMessage
    <3>2. new \in TeamsNotices /\ new.job = job /\ new.mine = mine /\ new.rev = r
      BY <1>4, <1>5, <1>6, <3>1 DEF TeamsNotices
    <3> QED  BY <1>2, <1>5, <1>6, <3>2 DEF NoticeSound
  <2>2. CASE Teams!WaitLocked
    <3>1. new = [n EXCEPT !.phase = "locked"] /\ n.phase = "fetched"
      BY <1>1, <1>7, <2>2 DEF Teams!WaitLocked
    <3>2. /\ new \in TeamsNotices /\ new.job = job /\ new.mine = mine
          /\ new.rev = n.rev
      BY <1>2, <1>5, <3>1 DEF TeamsNotices
    <3>3. n.rev # 0
      BY <1>2, <3>1 DEF NoticeSound
    <3> QED  BY <1>2, <1>5, <3>2, <3>3 DEF NoticeSound
  <2> QED  BY <2>1, <2>2
<1>9. NoticeSound(new)'
  BY <1>2, <1>8 DEF NoticeSound
<1> QED  BY <1>2, <1>3, <1>7, <1>8, <1>9, TeamsQuiet, TeamsMoves

\* A job stores its message; if it writes the state, there was no watermark in its copy,
\* which says nothing against one that has been set meanwhile but forgets it.
LEMMA TeamsEndNotice ==
  ASSUME TeamsInv, Teams!EndNotice
  PROVE  TeamsInv'
<1>1. PICK n, m, r, mine : /\ n = teams_notice /\ m = n.job.message
                           /\ r = n.rev /\ mine = n.mine
  OBVIOUS
<1>2. /\ n \in TeamsNotices /\ NoticeSound(n) /\ n.phase \in {"fetched", "locked"}
      /\ teams_obj' = [teams_obj EXCEPT ![m] = r]
      /\ teams_state' = IF mine.known THEN teams_state ELSE [mine EXCEPT !.known = TRUE]
      /\ teams_jobs' \subseteq teams_jobs
      /\ teams_notice' = Teams!Idle
      /\ UNCHANGED <<teams_rev, teams_sub, teams_sync>>
  BY <1>1, TeamsNumbers
  DEF Teams!EndNotice, Teams!Message, TeamsInv, TeamsTypes
<1>3. /\ teams_obj \in [Teams!Numbers -> Nat] /\ teams_rev \in [Teams!Numbers -> Nat]
      /\ teams_sub \in [id : Nat, live : BOOLEAN]
  BY DEF TeamsInv, TeamsTypes
<1>4. m \in Teams!Numbers /\ r \in Nat /\ r # 0 /\ mine \in Teams!Entries
  BY <1>1, <1>2 DEF TeamsNotices, TeamsEvents, NoticeSound
<1>5. TeamsGrow
  BY <1>2, <1>3, <1>4 DEF TeamsGrow
<1>6. teams_state' = teams_state \/ (teams_state' \in Teams!Entries /\ EntrySound')
  <2>1. CASE mine.known
    BY <1>2, <2>1
  <2>2. CASE ~ mine.known
    <3>1. mine.mark = 0
      BY <1>1, <1>2, <2>2 DEF NoticeSound
    <3>2. teams_state' = [mine EXCEPT !.known = TRUE]
      BY <1>2, <2>2
    <3>3. /\ teams_state' \in Teams!Entries /\ teams_state'.known = TRUE
          /\ teams_state'.mark = 0
      BY <1>4, <3>1, <3>2 DEF Teams!Entries
    <3>4. 1 .. 0 = {}
      OBVIOUS
    <3> QED  BY <3>3, <3>4 DEF EntrySound, Teams!WatermarkIsStored
  <2> QED  BY <2>1, <2>2
<1> QED  BY <1>2, <1>3, <1>5, <1>6, TeamsMoves

LEMMA TeamsStep ==
  ASSUME TeamsInv, Teams!Next
  PROVE  TeamsInv'
BY TeamsSay, TeamsSubscriptionEnds, TeamsBeginSync, TeamsListPage, TeamsStorePage,
   TeamsAborts, TeamsEndSync, TeamsBeginNotice, TeamsFetch, TeamsEndNotice
DEF Teams!Next

LEMMA TeamsStart ==
  ASSUME Teams!Init
  PROVE  TeamsInv
<1>1. /\ teams_rev = [m \in Teams!Numbers |-> 0] /\ teams_obj = teams_rev
      /\ teams_state = [known |-> FALSE, mark |-> 0]
      /\ teams_sub = [id |-> 0, live |-> FALSE]
      /\ teams_jobs = {} /\ teams_sync = Teams!Idle /\ teams_notice = Teams!Idle
  BY DEF Teams!Init
<1>2. teams_state \in Teams!Entries /\ ~ teams_state.known /\ teams_state.mark = 0
  BY <1>1, TeamsNumbers DEF Teams!Entries
<1>3. TeamsTypes
  BY <1>1, <1>2 DEF TeamsTypes
<1>4. Teams!Written = {} /\ 1 .. 0 = {}
  BY <1>1 DEF Teams!Written
<1>5. EntrySound
  BY <1>2, <1>4 DEF EntrySound, Teams!WatermarkIsStored
<1> QED  BY <1>1, <1>3, <1>4, <1>5 DEF TeamsInv

LEMMA TeamsStands ==
  ASSUME TeamsInv, UNCHANGED teamsVars
  PROVE  TeamsInv'
BY DEF TeamsInv, TeamsTypes, EntrySound, PassSound, NoticeSound, Teams!Written,
       Teams!WatermarkIsStored, teamsVars

-----------------------------------------------------------------------------
(* What the objects of a Teams chat say.                                   *)

\* Somebody was notified of what a message says now, or missed it.
Told(m) ==
  \/ <<m, teams_rev[m]>> \in teams_missed
  \/ \E j \in teams_jobs : j.message = m /\ j.rev = teams_rev[m]

\* A pass holds revisions of the past.
PassFresh(s) ==
  /\ \A m \in DOMAIN s.todo : s.todo[m] <= teams_rev[m]
  /\ \A m \in DOMAIN s.wrote : s.wrote[m] <= teams_rev[m]

\* A job has fetched what it was told of, or what was said later, and if more was said
\* since, there is another job.
NoticeFresh(n) ==
  /\ n.job.rev <= teams_rev[n.job.message]
  /\ n.phase # "begun" =>
       /\ n.job.rev <= n.rev /\ n.rev <= teams_rev[n.job.message]
       /\ n.rev = teams_rev[n.job.message] \/ Told(n.job.message)

TeamsFresh ==
  /\ \A j \in teams_jobs : j.rev <= teams_rev[j.message]
  /\ teams_sync # Teams!Idle => PassFresh(teams_sync)
  /\ teams_notice # Teams!Idle => NoticeFresh(teams_notice)
  /\ \A m \in Teams!Written :
       teams_obj[m] = teams_rev[m] \/ m \in teams_rewound \/ Told(m)

\* The steps that neither say, store nor answer for anything.
LEMMA FreshMoves ==
  ASSUME TeamsFresh,
         UNCHANGED <<teams_rev, teams_obj, teams_jobs, teams_missed, teams_rewound>>,
         teams_sync' \in {teams_sync, Teams!Idle} \/ PassFresh(teams_sync'),
         teams_notice' \in {teams_notice, Teams!Idle} \/ NoticeFresh(teams_notice')
  PROVE  TeamsFresh'
<1>1. PICK s, n : s = teams_sync' /\ n = teams_notice'
  OBVIOUS
<1>2. s # Teams!Idle => PassFresh(s)
  BY <1>1 DEF TeamsFresh
<1>3. n # Teams!Idle => NoticeFresh(n)
  BY <1>1 DEF TeamsFresh
<1>4. /\ PassFresh(s)' = PassFresh(s)
      /\ NoticeFresh(n)' = NoticeFresh(n)
  BY DEF PassFresh, NoticeFresh, Told
<1>5. \A m \in Teams!Written :
        teams_obj[m] = teams_rev[m] \/ m \in teams_rewound \/ Told(m)
  BY DEF TeamsFresh
<1>6. (\A m \in Teams!Written :
         teams_obj[m] = teams_rev[m] \/ m \in teams_rewound \/ Told(m))'
  BY <1>5 DEF Teams!Written, Told
<1>7. \A j \in teams_jobs' : j.rev <= teams_rev'[j.message]
  BY DEF TeamsFresh
<1>8. teams_sync' # Teams!Idle => PassFresh(teams_sync)'
  BY <1>1, <1>2, <1>4
<1>9. teams_notice' # Teams!Idle => NoticeFresh(teams_notice)'
  BY <1>1, <1>3, <1>4
<1> QED  BY <1>6, <1>7, <1>8, <1>9 DEF TeamsFresh

\* What is said is told; what was told of other messages still is.
LEMMA FreshSay ==
  ASSUME TeamsInv, TeamsFresh, Teams!Say
  PROVE  TeamsFresh'
<1>1. PICK m \in Teams!Numbers :
        /\ teams_rev' = [teams_rev EXCEPT ![m] = @ + 1]
        /\ Teams!Notified(m)
        /\ UNCHANGED <<teams_obj, teams_sync, teams_notice, teams_rewound>>
  BY DEF Teams!Say
<1>2. PICK r, i : r = teams_rev'[m] /\ i = teams_sub.id
  OBVIOUS
<1>3. PICK new : new = [message |-> m, rev |-> r, sub |-> i]
  OBVIOUS
<1>4. /\ r \in Nat /\ r = teams_rev[m] + 1 /\ teams_rev[m] \in Nat
      /\ \A k \in Teams!Numbers : k # m => teams_rev'[k] = teams_rev[k]
  BY <1>1, <1>2 DEF TeamsInv, TeamsTypes
<1>5. \A k \in Teams!Numbers : teams_rev[k] \in Nat /\ teams_rev'[k] \in Nat
                               /\ teams_rev[k] <= teams_rev'[k]
  <2> TAKE k \in Teams!Numbers
  <2>1. teams_rev[k] \in Nat
    BY DEF TeamsInv, TeamsTypes
  <2>2. CASE k = m
    <3>1. PICK old : old = teams_rev[m]
      OBVIOUS
    <3>2. old \in Nat /\ r \in Nat /\ r = old + 1
      BY <1>4, <3>1
    <3>3. old <= r
      BY <3>2
    <3> QED  BY <1>2, <2>2, <3>1, <3>2, <3>3
  <2>3. CASE k # m
    BY <1>4, <2>1, <2>3
  <2> QED  BY <2>2, <2>3
<1>6. /\ teams_jobs \subseteq teams_jobs' /\ teams_missed \subseteq teams_missed'
      /\ teams_jobs' \subseteq teams_jobs \union {new}
      /\ new \in teams_jobs' \/ <<m, r>> \in teams_missed'
  BY <1>1, <1>2, <1>3 DEF Teams!Notified
<1>7. new.message = m /\ new.rev = r
  BY <1>3
<1>8. Told(m)'
  BY <1>2, <1>6, <1>7 DEF Told
<1>9. ASSUME NEW k \in Teams!Numbers, Told(k)
      PROVE  Told(k)'
  BY <1>4, <1>6, <1>8, <1>9 DEF Told
<1>10. \A j \in teams_jobs' : j.rev <= teams_rev'[j.message]
  <2> SUFFICES ASSUME NEW j \in teams_jobs'
               PROVE  j.rev <= teams_rev'[j.message]
    OBVIOUS
  <2>1. CASE j = new
    <3>1. j.rev = r /\ teams_rev'[j.message] = r
      BY <1>2, <1>7, <2>1
    <3>2. r <= r
      BY <1>4
    <3> QED  BY <3>1, <3>2
  <2>2. CASE j # new
    <3>1. j \in teams_jobs
      BY <1>6, <2>2
    <3>2. j.message \in Teams!Numbers /\ j.rev \in Nat /\ j.rev <= teams_rev[j.message]
      BY <3>1 DEF TeamsInv, TeamsTypes, TeamsEvents, TeamsFresh
    <3> QED  BY <1>5, <3>2
  <2> QED  BY <2>1, <2>2
<1>11. teams_sync' # Teams!Idle => PassFresh(teams_sync)'
  <2> SUFFICES ASSUME teams_sync # Teams!Idle
               PROVE  PassFresh(teams_sync)'
    BY <1>1
  <2>1. PICK s : s = teams_sync
    OBVIOUS
  <2>2. s \in TeamsPasses /\ PassFresh(s)
    BY <2>1 DEF TeamsInv, TeamsTypes, TeamsFresh
  <2>3. s.todo \in Revisions /\ s.wrote \in Revisions
    BY <2>2 DEF TeamsPasses
  <2>4. /\ \A k \in DOMAIN s.todo : k \in Teams!Numbers /\ s.todo[k] \in Nat
        /\ \A k \in DOMAIN s.wrote : k \in Teams!Numbers /\ s.wrote[k] \in Nat
    BY <2>3, RevisionFacts
  <2>5. /\ \A k \in DOMAIN s.todo : s.todo[k] <= teams_rev'[k]
        /\ \A k \in DOMAIN s.wrote : s.wrote[k] <= teams_rev'[k]
    BY <1>5, <2>2, <2>4 DEF PassFresh
  <2> QED  BY <1>1, <2>1, <2>5 DEF PassFresh
<1>12. teams_notice' # Teams!Idle => NoticeFresh(teams_notice)'
  <2> SUFFICES ASSUME teams_notice # Teams!Idle
               PROVE  NoticeFresh(teams_notice)'
    BY <1>1
  <2>1. PICK n, k, v : n = teams_notice /\ k = n.job.message /\ v = n.job.rev
    OBVIOUS
  <2>2. n \in TeamsNotices /\ NoticeFresh(n)
    BY <2>1 DEF TeamsInv, TeamsTypes, TeamsFresh
  <2>3. k \in Teams!Numbers /\ v \in Nat /\ (n.phase # "begun" => n.rev \in Nat)
    BY <2>1, <2>2 DEF TeamsNotices, TeamsEvents
  <2>4. v <= teams_rev[k]
    BY <2>1, <2>2 DEF NoticeFresh
  <2>5. n.phase # "begun" => /\ v <= n.rev /\ n.rev <= teams_rev[k]
                             /\ n.rev = teams_rev[k] \/ Told(k)
    BY <2>1, <2>2 DEF NoticeFresh
  <2>6. v <= teams_rev'[k]
    BY <1>5, <2>3, <2>4
  <2>7. n.phase # "begun" => v <= n.rev /\ n.rev <= teams_rev'[k]
    BY <1>5, <2>3, <2>5
  <2>8. n.phase # "begun" => n.rev = teams_rev'[k] \/ Told(k)'
    BY <1>4, <1>8, <1>9, <2>3, <2>5
  <2>9. NoticeFresh(n)'
    BY <2>1, <2>6, <2>7, <2>8 DEF NoticeFresh
  <2> QED  BY <1>1, <2>1, <2>9 DEF NoticeFresh
<1>13. ASSUME NEW k \in Teams!Numbers, teams_rev'[k] # 0
       PROVE  teams_obj'[k] = teams_rev'[k] \/ k \in teams_rewound' \/ Told(k)'
  <2>1. CASE k = m
    BY <1>8, <2>1
  <2>2. CASE k # m
    <3>1. teams_rev'[k] = teams_rev[k]
      BY <1>4, <2>2
    <3>2. teams_obj[k] = teams_rev[k] \/ k \in teams_rewound \/ Told(k)
      BY <1>13, <3>1 DEF TeamsFresh, Teams!Written
    <3> QED  BY <1>1, <1>9, <3>1, <3>2
  <2> QED  BY <2>1, <2>2
<1>14. (\A k \in Teams!Written :
          teams_obj[k] = teams_rev[k] \/ k \in teams_rewound \/ Told(k))'
  BY <1>13 DEF Teams!Written
<1> QED  BY <1>10, <1>11, <1>12, <1>14 DEF TeamsFresh

LEMMA FreshSync ==
  ASSUME TeamsInv, TeamsFresh,
         \/ Teams!SubscriptionEnds \/ Teams!BeginSync \/ Teams!ListPage
         \/ Teams!StorePage \/ Teams!AbortSync
  PROVE  TeamsFresh'
<1>1. CASE Teams!SubscriptionEnds \/ Teams!AbortSync
  <2>1. /\ UNCHANGED <<teams_rev, teams_obj, teams_jobs, teams_missed, teams_rewound>>
        /\ teams_sync' \in {teams_sync, Teams!Idle}
        /\ teams_notice' \in {teams_notice, Teams!Idle}
    BY <1>1 DEF Teams!SubscriptionEnds, Teams!AbortSync, Teams!chat
  <2> QED  BY <2>1, FreshMoves
<1>2. CASE Teams!BeginSync
  <2>1. PICK new : new = teams_sync'
    OBVIOUS
  <2>2. /\ UNCHANGED <<teams_rev, teams_obj, teams_jobs, teams_missed, teams_rewound,
                       teams_notice>>
        /\ new.todo = Teams!Nothing /\ new.wrote = Teams!Nothing
    BY <1>2, <2>1 DEF Teams!BeginSync
  <2>3. PassFresh(new)
    BY <2>2, RevisionFacts DEF PassFresh
  <2> QED  BY <2>1, <2>2, <2>3, FreshMoves
<1>3. CASE Teams!ListPage
  <2>1. PICK s, page, todo :
          /\ s = teams_sync /\ page = PageBelow(s.below)
          /\ todo = [m \in {k \in page : k >= s.mine.mark} |-> teams_rev[m]]
    OBVIOUS
  <2>2. PICK pages, below, newest :
          /\ pages = s.pages + 1
          /\ below = IF page = {} THEN 0 ELSE Teams!Min(page)
          /\ newest = TopOf(s.newest, page)
    OBVIOUS
  <2>3. /\ teams_sync' = [s EXCEPT !.phase = "page", !.pages = pages, !.below = below,
                                   !.newest = newest, !.todo = todo]
        /\ UNCHANGED <<teams_rev, teams_obj, teams_jobs, teams_missed, teams_rewound,
                       teams_notice>>
        /\ s \in TeamsPasses /\ PassFresh(s)
    BY <1>3, <2>1, <2>2, TeamsNumbers
    DEF Teams!ListPage, Teams!chat, PageBelow, TopOf, TeamsInv, TeamsTypes, TeamsFresh
  <2>4. PICK new : new = teams_sync'
    OBVIOUS
  <2>5. new.todo = todo /\ new.wrote = s.wrote
    BY <2>3, <2>4 DEF TeamsPasses
  <2>6. page \subseteq Teams!Numbers
    BY <2>1 DEF PageBelow, Teams!Largest, Teams!Written
  <2>7. \A m \in DOMAIN todo : todo[m] <= teams_rev[m]
    BY <2>1, <2>6 DEF TeamsInv, TeamsTypes
  <2>8. PassFresh(new)
    BY <2>3, <2>5, <2>7 DEF PassFresh
  <2> QED  BY <2>3, <2>4, <2>8, FreshMoves
<1>4. CASE Teams!StorePage
  <2>1. PICK s, differ :
          /\ s = teams_sync
          /\ differ = {m \in DOMAIN s.todo : teams_obj[m] # s.todo[m]}
    OBVIOUS
  <2>2. PICK wrote, phase :
          /\ wrote = [m \in DOMAIN s.wrote \union differ |->
                        IF m \in differ THEN s.todo[m] ELSE s.wrote[m]]
          /\ phase = IF s.below <= Teams!Max({1, s.mine.mark}) THEN "end" ELSE "listing"
    OBVIOUS
  <2>3. /\ teams_sync' = [s EXCEPT !.phase = phase, !.todo = Teams!Nothing,
                                   !.wrote = wrote]
        /\ UNCHANGED <<teams_rev, teams_obj, teams_jobs, teams_missed, teams_rewound,
                       teams_notice>>
        /\ s \in TeamsPasses /\ PassFresh(s)
    BY <1>4, <2>1, <2>2, TeamsNumbers
    DEF Teams!StorePage, Teams!chat, TeamsInv, TeamsTypes, TeamsFresh
  <2>4. PICK new : new = teams_sync'
    OBVIOUS
  <2>5. new.todo = Teams!Nothing /\ new.wrote = wrote
    BY <2>3, <2>4 DEF TeamsPasses
  <2>6. \A m \in DOMAIN wrote : wrote[m] <= teams_rev[m]
    BY <2>1, <2>2, <2>3 DEF PassFresh
  <2>7. PassFresh(new)
    BY <2>5, <2>6, RevisionFacts DEF PassFresh
  <2> QED  BY <2>3, <2>4, <2>7, FreshMoves
<1> QED  BY <1>1, <1>2, <1>3, <1>4

LEMMA FreshFetch ==
  ASSUME TeamsInv, TeamsFresh, Teams!FetchMessage \/ Teams!WaitLocked
  PROVE  TeamsFresh'
<1>1. PICK n, m, job, mine : /\ n = teams_notice /\ job = n.job /\ m = job.message
                             /\ mine = n.mine
  OBVIOUS
<1>2. /\ n \in TeamsNotices /\ NoticeFresh(n) /\ n.phase \in {"begun", "fetched"}
      /\ UNCHANGED <<teams_rev, teams_obj, teams_jobs, teams_missed, teams_rewound,
                     teams_sync>>
  BY <1>1, TeamsNumbers DEF Teams!FetchMessage, Teams!WaitLocked, Teams!chat,
                            TeamsInv, TeamsTypes, TeamsFresh
<1>3. PICK new, r : new = teams_notice' /\ r = teams_rev[m]
  OBVIOUS
<1>4. NoticeFresh(new)
  <2>1. CASE Teams!FetchMessage
    <3>1. new = [phase |-> "fetched", job |-> job, mine |-> mine, rev |-> r]
      BY <1>1, <1>3, <2>1 DEF Teams!FetchMessage
    <3>2. r \in Nat /\ job.rev <= r
      <4>1. m \in Teams!Numbers
        BY <1>1, <1>2 DEF TeamsNotices, TeamsEvents
      <4> QED  BY <1>1, <1>2, <1>3, <4>1 DEF TeamsInv, TeamsTypes, NoticeFresh
    <3>3. new.job = job /\ new.rev = r
      BY <3>1
    <3> QED  BY <1>1, <1>3, <3>2, <3>3 DEF NoticeFresh
  <2>2. CASE Teams!WaitLocked
    <3>1. new = [n EXCEPT !.phase = "locked"] /\ n.phase = "fetched"
      BY <1>1, <1>3, <2>2 DEF Teams!WaitLocked
    <3>2. new.job = job /\ new.rev = n.rev
      BY <1>1, <1>2, <3>1 DEF TeamsNotices
    <3>3. /\ job.rev <= teams_rev[m]
          /\ job.rev <= n.rev /\ n.rev <= teams_rev[m]
          /\ n.rev = teams_rev[m] \/ Told(m)
      BY <1>1, <1>2, <3>1 DEF NoticeFresh
    <3> QED  BY <1>1, <3>2, <3>3 DEF NoticeFresh
  <2> QED  BY <2>1, <2>2
<1> QED  BY <1>2, <1>3, <1>4, FreshMoves

\* A pass stores what it has listed; an older revision over the current one counts.
LEMMA FreshEndSync ==
  ASSUME TeamsInv, TeamsFresh, Teams!EndSync
  PROVE  TeamsFresh'
<1>1. PICK s, wrote : s = teams_sync /\ wrote = s.wrote
  OBVIOUS
<1>2. /\ teams_obj' = [m \in Teams!Numbers |-> IF m \in DOMAIN wrote THEN wrote[m]
                                               ELSE teams_obj[m]]
      /\ teams_rewound' = teams_rewound \union {m \in DOMAIN wrote : wrote[m] < teams_obj[m]}
      /\ teams_sync' = Teams!Idle
      /\ UNCHANGED <<teams_rev, teams_jobs, teams_missed, teams_notice>>
      /\ s \in TeamsPasses /\ PassFresh(s)
  BY <1>1, TeamsNumbers
  DEF Teams!EndSync, Teams!Commit, Teams!chat, TeamsInv, TeamsTypes, TeamsFresh
<1>3. wrote \in Revisions
  BY <1>1, <1>2 DEF TeamsPasses
<1>4. \A m \in DOMAIN wrote : wrote[m] \in Nat /\ wrote[m] <= teams_rev[m]
  BY <1>1, <1>2, <1>3, RevisionFacts DEF PassFresh
<1>5. \A m \in Teams!Numbers : Told(m)' = Told(m)
  BY <1>2 DEF Told
<1>6. ASSUME NEW m \in Teams!Numbers, teams_rev[m] # 0
      PROVE  teams_obj'[m] = teams_rev[m] \/ m \in teams_rewound' \/ Told(m)
  <2>1. teams_obj[m] = teams_rev[m] \/ m \in teams_rewound \/ Told(m)
    BY <1>6 DEF TeamsFresh, Teams!Written
  <2>2. teams_obj[m] \in Nat /\ teams_rev[m] \in Nat
    BY DEF TeamsInv, TeamsTypes
  <2>3. CASE m \in DOMAIN wrote /\ teams_obj[m] = teams_rev[m]
    <3>1. wrote[m] < teams_obj[m] \/ wrote[m] = teams_obj[m]
      BY <1>4, <2>2, <2>3
    <3> QED  BY <1>2, <2>3, <3>1
  <2>4. CASE m \notin DOMAIN wrote
    BY <1>2, <2>1, <2>4
  <2> QED  BY <1>2, <2>1, <2>3, <2>4
<1>7. (\A m \in Teams!Written :
         teams_obj[m] = teams_rev[m] \/ m \in teams_rewound \/ Told(m))'
  BY <1>2, <1>5, <1>6 DEF Teams!Written
<1>8. teams_notice # Teams!Idle => NoticeFresh(teams_notice)'
  BY <1>2 DEF TeamsFresh, NoticeFresh, Told
<1> QED  BY <1>2, <1>7, <1>8 DEF TeamsFresh

\* What a dropped job was told of counts as missed.
LEMMA FreshDrop ==
  ASSUME TeamsFresh, NEW j, Teams!Drop(j), teams_notice' = Teams!Idle,
         UNCHANGED <<teams_rev, teams_obj, teams_sync, teams_rewound>>
  PROVE  TeamsFresh'
<1>1. /\ teams_jobs' = teams_jobs \ {j}
      /\ teams_missed' = teams_missed \union {<<j.message, j.rev>>}
  BY DEF Teams!Drop
<1>2. ASSUME NEW m, Told(m)
      PROVE  Told(m)'
  <2>1. CASE <<m, teams_rev[m]>> \in teams_missed
    BY <1>1, <2>1 DEF Told
  <2>2. CASE \E i \in teams_jobs : i.message = m /\ i.rev = teams_rev[m]
    <3>1. PICK i \in teams_jobs : i.message = m /\ i.rev = teams_rev[m]
      BY <2>2
    <3> QED  BY <1>1, <3>1 DEF Told
  <2> QED  BY <1>2, <2>1, <2>2 DEF Told
<1>3. (\A m \in Teams!Written :
         teams_obj[m] = teams_rev[m] \/ m \in teams_rewound \/ Told(m))'
  BY <1>2 DEF Teams!Written, TeamsFresh
<1>4. teams_sync' # Teams!Idle => PassFresh(teams_sync)'
  BY DEF TeamsFresh, PassFresh
<1>5. \A i \in teams_jobs' : i.rev <= teams_rev'[i.message]
  BY <1>1 DEF TeamsFresh
<1> QED  BY <1>3, <1>4, <1>5 DEF TeamsFresh

LEMMA FreshBeginNotice ==
  ASSUME TeamsInv, TeamsFresh, Teams!BeginNotice
  PROVE  TeamsFresh'
<1>1. PICK j \in teams_jobs :
        \/ Teams!Drop(j) /\ teams_notice' = Teams!Idle
        \/ /\ teams_notice' = [phase |-> "begun", job |-> j, mine |-> teams_state]
           /\ UNCHANGED <<teams_jobs, teams_missed>>
  BY DEF Teams!BeginNotice
<1>2. /\ UNCHANGED <<teams_rev, teams_obj, teams_sync, teams_rewound>>
      /\ j.rev <= teams_rev[j.message]
  BY DEF Teams!BeginNotice, TeamsFresh
<1>3. CASE Teams!Drop(j) /\ teams_notice' = Teams!Idle
  BY <1>2, <1>3, FreshDrop
<1>4. CASE /\ teams_notice' = [phase |-> "begun", job |-> j, mine |-> teams_state]
           /\ UNCHANGED <<teams_jobs, teams_missed>>
  <2>1. PICK new : new = teams_notice'
    OBVIOUS
  <2>2. new.phase = "begun" /\ new.job = j
    BY <1>4, <2>1
  <2>3. NoticeFresh(new)
    BY <1>2, <2>2 DEF NoticeFresh
  <2> QED  BY <1>2, <1>4, <2>1, <2>3, FreshMoves
<1> QED  BY <1>1, <1>3, <1>4

LEMMA FreshAbortNotice ==
  ASSUME TeamsFresh, Teams!AbortNotice
  PROVE  TeamsFresh'
<1>1. /\ UNCHANGED <<teams_rev, teams_obj, teams_sync, teams_rewound>>
      /\ teams_notice' = Teams!Idle
      /\ Teams!Drop(teams_notice.job) \/ UNCHANGED <<teams_jobs, teams_missed>>
  BY DEF Teams!AbortNotice
<1> QED  BY <1>1, FreshDrop, FreshMoves

\* A job stores what it has fetched.  If more was said since, another job was told.
LEMMA FreshEndNotice ==
  ASSUME TeamsInv, TeamsFresh, Teams!EndNotice
  PROVE  TeamsFresh'
<1>1. PICK n, job, m, r : n = teams_notice /\ job = n.job /\ m = job.message /\ r = n.rev
  OBVIOUS
<1>2. /\ n \in TeamsNotices /\ NoticeFresh(n) /\ n.phase \in {"fetched", "locked"}
      /\ teams_obj' = [teams_obj EXCEPT ![m] = r]
      /\ teams_jobs' = teams_jobs \ {job}
      /\ teams_notice' = Teams!Idle
      /\ UNCHANGED <<teams_rev, teams_sync, teams_missed, teams_rewound>>
  BY <1>1, TeamsNumbers
  DEF Teams!EndNotice, Teams!Message, TeamsInv, TeamsTypes, TeamsFresh
<1>3. m \in Teams!Numbers /\ r \in Nat /\ job.rev \in Nat
  BY <1>1, <1>2 DEF TeamsNotices, TeamsEvents
<1>4. /\ job.rev <= r /\ r <= teams_rev[m]
      /\ r = teams_rev[m] \/ Told(m)
  BY <1>1, <1>2 DEF NoticeFresh
<1>5. teams_obj \in [Teams!Numbers -> Nat] /\ teams_rev[m] \in Nat
  BY <1>3 DEF TeamsInv, TeamsTypes
<1>6. teams_obj'[m] = r /\ \A k \in Teams!Numbers : k # m => teams_obj'[k] = teams_obj[k]
  BY <1>2, <1>3, <1>5
<1>7. ASSUME NEW k \in Teams!Numbers, Told(k), k # m \/ r # teams_rev[m]
      PROVE  Told(k)'
  <2>1. CASE <<k, teams_rev[k]>> \in teams_missed
    BY <1>2, <2>1 DEF Told
  <2>2. CASE \E i \in teams_jobs : i.message = k /\ i.rev = teams_rev[k]
    <3>1. PICK i \in teams_jobs : i.message = k /\ i.rev = teams_rev[k]
      BY <2>2
    <3>2. i # job
      BY <1>1, <1>3, <1>4, <1>5, <1>7, <3>1
    <3> QED  BY <1>2, <3>1, <3>2 DEF Told
  <2> QED  BY <1>7, <2>1, <2>2 DEF Told
<1>8. ASSUME NEW k \in Teams!Numbers, teams_rev[k] # 0
      PROVE  teams_obj'[k] = teams_rev[k] \/ k \in teams_rewound \/ Told(k)'
  <2>1. CASE k = m
    BY <1>4, <1>6, <1>7, <2>1
  <2>2. CASE k # m
    <3>1. teams_obj[k] = teams_rev[k] \/ k \in teams_rewound \/ Told(k)
      BY <1>8 DEF TeamsFresh, Teams!Written
    <3> QED  BY <1>6, <1>7, <2>2, <3>1
  <2> QED  BY <2>1, <2>2
<1>9. (\A k \in Teams!Written :
         teams_obj[k] = teams_rev[k] \/ k \in teams_rewound \/ Told(k))'
  BY <1>2, <1>8 DEF Teams!Written
<1>10. teams_sync' # Teams!Idle => PassFresh(teams_sync)'
  BY <1>2 DEF TeamsFresh, PassFresh
<1>11. \A i \in teams_jobs' : i.rev <= teams_rev'[i.message]
  BY <1>2 DEF TeamsFresh
<1> QED  BY <1>2, <1>9, <1>10, <1>11 DEF TeamsFresh

LEMMA FreshStep ==
  ASSUME TeamsInv, TeamsFresh, Teams!Next
  PROVE  TeamsFresh'
BY FreshSay, FreshSync, FreshFetch, FreshEndSync, FreshBeginNotice, FreshEndNotice,
   FreshAbortNotice
DEF Teams!Next

LEMMA FreshStart ==
  ASSUME Teams!Init
  PROVE  TeamsFresh
<1>1. /\ teams_rev = [m \in Teams!Numbers |-> 0]
      /\ teams_jobs = {} /\ teams_sync = Teams!Idle /\ teams_notice = Teams!Idle
  BY DEF Teams!Init
<1>2. Teams!Written = {}
  BY <1>1 DEF Teams!Written
<1> QED  BY <1>1, <1>2 DEF TeamsFresh

LEMMA FreshStands ==
  ASSUME TeamsFresh, UNCHANGED teamsVars
  PROVE  TeamsFresh'
<1>1. /\ UNCHANGED <<teams_rev, teams_obj, teams_jobs, teams_missed, teams_rewound>>
      /\ teams_sync' = teams_sync /\ teams_notice' = teams_notice
  BY DEF teamsVars
<1> QED  BY <1>1, FreshMoves

\* When no job waits, nobody has been told what is not stored.
LEMMA FreshIsQuiet == TeamsFresh => Teams!QuietIsCurrent
BY DEF TeamsFresh, Told, Teams!QuietIsCurrent, Teams!Written

-----------------------------------------------------------------------------
(* A Mattermost channel, read by one pass after another.                   *)

Lists == UNION {[S -> Nat \ {0}] : S \in SUBSET Channel!Posts}
PostEntries ==
  [anchor : 0 .. MaxPosts, watermark : Nat, covered : Nat, oldest : 0 .. MaxPosts,
   active : [from : Nat, to : Nat, before : Nat, days : Nat, oldest : 0 .. MaxPosts],
   first : Nat, since : Nat, upto : Nat]
PostPasses ==
  [phase : {"live"}, days : Spans, todo : Lists, mine : PostEntries]
  \union [phase : {"sweep"}, days : Spans, mine : PostEntries, top : Nat, todo : Lists]
  \union [phase : {"plan"}, days : Spans, mine : PostEntries]
  \union [phase : {"old"}, mine : PostEntries, page : SUBSET Channel!Posts,
          window : SUBSET Channel!Posts, todo : Lists]

\* Posts are written one after another, and changed after they were written.
PostTimes ==
  /\ post_now \in Nat /\ \A n \in Spans : n < post_now
  /\ post_days \in Spans
  /\ post_created \in [Channel!Posts -> Nat] /\ post_updated \in [Channel!Posts -> Nat]
  /\ post_stored \in [Channel!Posts -> Nat]
  /\ \A m \in Channel!Posts :
       /\ post_created[m] <= post_updated[m] /\ post_updated[m] <= post_now
       /\ post_created[m] = 0 => post_updated[m] = 0
  /\ \A m \in Channel!Posts, k \in Channel!Posts :
       post_created[m] # 0 /\ k < m =>
         post_created[k] # 0 /\ post_created[k] < post_created[m]

InWindow(m, active) == post_created[m] \in active.from .. (active.to - 1)

\* Posts that an entry says need not be asked for again.
Scanned(e, m) ==
  \/ e.covered # 0 /\ post_created[m] \in e.covered .. (e.upto - 1)
  \/ InWindow(m, e.active) /\ e.active.before # 0 /\ m >= e.active.before

\* What an entry claims is behind the clock, its posts exist, and what it says is
\* stored or swept is.  The lowest posts scanned are in the windows they were read for.
ChannelSound(e) ==
  /\ e.upto <= post_now /\ e.active.to <= post_now /\ e.watermark <= post_now
  /\ e.covered <= post_now
  /\ e.active = Channel!NoActive \/ (0 < e.active.from /\ e.active.from < e.active.to)
  /\ e.anchor # 0 => post_created[e.anchor] # 0
  /\ e.covered = 0 => e.oldest = 0
  /\ e.oldest # 0 => post_created[e.oldest] # 0 /\ e.covered <= post_created[e.oldest]
  /\ e.active.oldest # 0 => /\ post_created[e.active.oldest] # 0
                            /\ e.active.from <= post_created[e.active.oldest]
  /\ \A m \in Channel!Posts : post_created[m] # 0 /\ Scanned(e, m) => post_stored[m] # 0
  /\ \A m \in Channel!Posts \ post_skipped :
       e.first # 0 /\ m \in e.first .. e.anchor => post_stored[m] # 0
  /\ \A m \in Channel!Posts :
       post_created[m] # 0 /\ post_updated[m] \in e.since .. e.watermark =>
         post_stored[m] = post_updated[m]

\* A post that was listed is listed as it is, unless it was changed after the sweeps.
Fresh(s) ==
  \A m \in DOMAIN s.todo :
    /\ post_created[m] # 0 /\ s.todo[m] <= post_now
    /\ \/ s.todo[m] = post_updated[m]
       \/ post_updated[m] > s.mine.watermark /\ post_updated[m] > post_entry.watermark

\* The live part lists without a gap.
LiveSound(s) ==
  \A k \in DOMAIN s.todo, m \in Channel!Posts \ post_skipped :
    s.mine.first # 0 /\ m \in s.mine.first .. k =>
      post_stored[m] # 0 \/ m \in DOMAIN s.todo

\* A sweep has in hand what it has not stored of the time up to the changes it knows.
Swept(s, t) ==
  \A m \in Channel!Posts :
    post_created[m] # 0 /\ post_updated[m] \in s.mine.since .. t =>
      IF m \in DOMAIN s.todo THEN s.todo[m] = post_updated[m]
      ELSE post_stored[m] = post_updated[m]
SweepSound(s) ==
  /\ s.top <= post_now
  /\ Swept(s, s.top) /\ \A k \in DOMAIN s.todo : Swept(s, s.todo[k])

\* A page of history leaves out only what is older than the page.
OldSound(s) ==
  /\ s.mine.active # Channel!NoActive
  /\ \A m \in s.page : post_created[m] # 0
  /\ s.window \subseteq s.page /\ DOMAIN s.todo \subseteq s.window
  /\ \A m \in s.window : s.mine.active.from <= post_created[m]
  /\ \A m \in Channel!Posts :
       post_created[m] # 0 /\ InWindow(m, s.mine.active) =>
         \/ post_stored[m] # 0 \/ m \in DOMAIN s.todo
         \/ ~ (Cardinality(s.page) < Limit) /\ \A k \in s.page : m < k

ChannelPass(s) ==
  /\ ChannelSound(s.mine)
  /\ s.phase # "plan" => Fresh(s)
  /\ s.phase = "live" => LiveSound(s)
  /\ s.phase = "sweep" => SweepSound(s)
  /\ s.phase = "old" => OldSound(s)

ChannelInv ==
  /\ PostTimes /\ post_entry \in PostEntries /\ ChannelSound(post_entry)
  /\ post_pass \in {Channel!Idle} \union PostPasses
  /\ post_pass # Channel!Idle => ChannelPass(post_pass)

LEMMA PostNumbers ==
  /\ Channel!Posts = 1 .. MaxPosts /\ MaxPosts \in Nat /\ Limit \in Nat \ {0}
  /\ \A n \in Spans : n \in Nat \ {0}
  /\ Channel!Posts \in SUBSET Int /\ IsFiniteSet(Channel!Posts)
  /\ Channel!Idle.phase = "idle"
<1>1. IsFiniteSet(1 .. MaxPosts)
  BY ChannelAssumption, FS_Interval
<1> QED  BY <1>1, ChannelAssumption DEF Channel!Posts, Channel!Idle

LEMMA ListFacts ==
  /\ \A f \in Lists :
       DOMAIN f \subseteq Channel!Posts /\ \A m \in DOMAIN f : f[m] \in Nat \ {0}
  /\ \A S \in SUBSET Channel!Posts : \A f : f \in [S -> Nat \ {0}] => f \in Lists
<1>1. ASSUME NEW f \in Lists
      PROVE  DOMAIN f \subseteq Channel!Posts /\ \A m \in DOMAIN f : f[m] \in Nat \ {0}
  BY <1>1 DEF Lists
<1>2. ASSUME NEW S \in SUBSET Channel!Posts, NEW f, f \in [S -> Nat \ {0}]
      PROVE  f \in Lists
  BY <1>2 DEF Lists
<1> QED  BY <1>1, <1>2

LEMMA PassForms ==
  ASSUME NEW s \in PostPasses
  PROVE  /\ s.mine \in PostEntries /\ s.phase # "idle" /\ s # Channel!Idle
         /\ s.phase # "plan" => s.todo \in Lists
         /\ s.phase # "old" => s.days \in Spans
         /\ s.phase = "sweep" => s.top \in Nat
         /\ s.phase = "old" => s.page \subseteq Channel!Posts /\ s.window \subseteq Channel!Posts
BY PostNumbers DEF PostPasses

LEMMA EntryForms ==
  ASSUME NEW e \in PostEntries
  PROVE  /\ e.anchor \in 0 .. MaxPosts /\ e.oldest \in 0 .. MaxPosts
         /\ e.watermark \in Nat /\ e.covered \in Nat /\ e.first \in Nat /\ e.since \in Nat
         /\ e.upto \in Nat
         /\ e.active \in [from : Nat, to : Nat, before : Nat, days : Nat, oldest : 0 .. MaxPosts]
         /\ e.active.from \in Nat /\ e.active.to \in Nat /\ e.active.before \in Nat
         /\ e.active.oldest \in 0 .. MaxPosts
BY DEF PostEntries

-----------------------------------------------------------------------------
(* What time and writing leave alone.                                      *)

\* Time passes, posts are written and changed.
TimeGoesOn ==
  /\ post_now <= post_now'
  /\ \A m \in Channel!Posts :
       /\ post_created[m] # 0 => post_created'[m] = post_created[m]
       /\ post_created[m] = 0 /\ post_created'[m] # 0 => post_now < post_created'[m]
       /\ \/ post_updated'[m] > post_now
          \/ post_created'[m] = 0
          \/ post_created[m] # 0 /\ post_updated'[m] = post_updated[m]

\* A post that was swept up to w is only written as it is.
StoreKeeps(w) ==
  /\ post_skipped \subseteq post_skipped'
  /\ \A m \in Channel!Posts :
       /\ post_stored[m] # 0 => post_stored'[m] # 0
       /\ post_stored'[m] \in {post_stored[m], post_updated[m]} \/ post_updated[m] > w

LEMMA EntryStands ==
  ASSUME PostTimes, PostTimes', TimeGoesOn, NEW e \in PostEntries, ChannelSound(e),
         NEW w, w = e.watermark, StoreKeeps(w)
  PROVE  ChannelSound(e)'
<1> USE EntryForms, PostNumbers
<1>1. /\ post_now \in Nat /\ post_now' \in Nat /\ post_now <= post_now'
      /\ \A m \in Channel!Posts :
           /\ post_created[m] \in Nat /\ post_created'[m] \in Nat
           /\ post_updated[m] \in Nat /\ post_updated'[m] \in Nat
  BY DEF PostTimes, TimeGoesOn
<1>2. /\ e.upto <= post_now' /\ e.active.to <= post_now' /\ e.watermark <= post_now'
      /\ e.covered <= post_now'
  BY <1>1 DEF ChannelSound
<1>3. /\ e.anchor # 0 => post_created'[e.anchor] # 0
      /\ e.oldest # 0 => post_created'[e.oldest] # 0 /\ e.covered <= post_created'[e.oldest]
      /\ e.active.oldest # 0 => /\ post_created'[e.active.oldest] # 0
                                /\ e.active.from <= post_created'[e.active.oldest]
  <2>1. \A m \in 0 .. MaxPosts : m # 0 => m \in Channel!Posts
    OBVIOUS
  <2>2. /\ e.anchor # 0 => e.anchor \in Channel!Posts
        /\ e.oldest # 0 => e.oldest \in Channel!Posts
        /\ e.active.oldest # 0 => e.active.oldest \in Channel!Posts
    BY <2>1
  <2> QED  BY <2>2 DEF ChannelSound, TimeGoesOn
<1>4. ASSUME NEW m \in Channel!Posts, post_created'[m] # 0, Scanned(e, m)'
      PROVE  post_stored'[m] # 0
  <2>1. post_created[m] # 0
    <3>1. post_created'[m] <= post_now
      BY <1>1, <1>4 DEF Scanned, InWindow, ChannelSound
    <3> QED  BY <1>1, <1>4, <3>1 DEF TimeGoesOn
  <2>2. post_created'[m] = post_created[m]
    BY <2>1 DEF TimeGoesOn
  <2>3. Scanned(e, m)
    BY <1>4, <2>2 DEF Scanned, InWindow
  <2> QED  BY <2>1, <2>3 DEF ChannelSound, StoreKeeps
<1>5. ASSUME NEW m \in Channel!Posts \ post_skipped', e.first # 0, m \in e.first .. e.anchor
      PROVE  post_stored'[m] # 0
  BY <1>5 DEF ChannelSound, StoreKeeps
<1>6. ASSUME NEW m \in Channel!Posts, post_created'[m] # 0,
             post_updated'[m] \in e.since .. e.watermark
      PROVE  post_stored'[m] = post_updated'[m]
  <2>1. post_created[m] # 0 /\ post_updated'[m] = post_updated[m]
    <3>1. ~ (post_updated'[m] > post_now)
      BY <1>1, <1>6 DEF ChannelSound
    <3> QED  BY <1>6, <3>1 DEF TimeGoesOn
  <2>2. post_stored[m] = post_updated[m]
    BY <1>6, <2>1 DEF ChannelSound
  <2>3. ~ (post_updated[m] > w)
    BY <1>1, <1>6, <2>1
  <2> QED  BY <2>1, <2>2, <2>3 DEF StoreKeeps
<1> QED  BY <1>2, <1>3, <1>4, <1>5, <1>6 DEF ChannelSound

LEMMA ChannelPassStands ==
  ASSUME ChannelInv, PostTimes', TimeGoesOn, NEW s \in PostPasses, ChannelPass(s),
         UNCHANGED <<post_stored, post_entry, post_skipped>>
  PROVE  ChannelPass(s)'
<1> USE PostNumbers, PassForms
<1>1. /\ post_now \in Nat /\ post_now' \in Nat /\ post_now <= post_now'
      /\ \A m \in Channel!Posts :
           /\ post_created[m] \in Nat /\ post_created'[m] \in Nat
           /\ post_updated[m] \in Nat /\ post_updated'[m] \in Nat
  BY DEF ChannelInv, PostTimes, TimeGoesOn
<1>2. PICK e, mine : e = post_entry /\ mine = s.mine
  OBVIOUS
<1>3. /\ e \in PostEntries /\ mine \in PostEntries
      /\ ChannelSound(e) /\ ChannelSound(mine) /\ PostTimes
  BY <1>2 DEF ChannelInv, ChannelPass
<1>4. e.watermark <= post_now /\ mine.watermark <= post_now /\ mine.active.to <= post_now
      /\ e.watermark \in Nat /\ mine.watermark \in Nat /\ mine.since \in Nat
      /\ mine.active.to \in Nat /\ mine.active.from \in Nat
  BY <1>3, EntryForms DEF ChannelSound
<1>5. ChannelSound(s.mine)'
  <2>1. PICK w : w = mine.watermark
    OBVIOUS
  <2>2. StoreKeeps(w)
    BY DEF StoreKeeps
  <2>3. ChannelSound(mine)'
    BY <1>3, <2>1, <2>2, EntryStands
  <2> QED  BY <1>2, <2>3
<1>6. s.phase # "plan" => Fresh(s)'
  <2> SUFFICES ASSUME s.phase # "plan", NEW m \in DOMAIN s.todo
               PROVE  /\ post_created'[m] # 0 /\ s.todo[m] <= post_now'
                      /\ \/ s.todo[m] = post_updated'[m]
                         \/ /\ post_updated'[m] > s.mine.watermark
                            /\ post_updated'[m] > post_entry'.watermark
    BY DEF Fresh
  <2>1. m \in Channel!Posts /\ s.todo[m] \in Nat
    BY ListFacts
  <2>2. /\ post_created[m] # 0 /\ s.todo[m] <= post_now
        /\ \/ s.todo[m] = post_updated[m]
           \/ post_updated[m] > mine.watermark /\ post_updated[m] > e.watermark
    BY <1>2 DEF ChannelPass, Fresh
  <2>3. post_created'[m] # 0 /\ s.todo[m] <= post_now'
    BY <1>1, <2>1, <2>2 DEF TimeGoesOn
  <2>4. \/ post_updated'[m] > mine.watermark /\ post_updated'[m] > e.watermark
        \/ post_updated'[m] = post_updated[m]
    BY <1>1, <1>4, <2>1, <2>3 DEF TimeGoesOn
  <2> QED  BY <1>2, <2>2, <2>3, <2>4
<1>7. s.phase = "live" => LiveSound(s)'
  BY DEF ChannelPass, LiveSound
<1>8. s.phase = "sweep" => SweepSound(s)'
  <2> SUFFICES ASSUME s.phase = "sweep"
               PROVE  SweepSound(s)'
    OBVIOUS
  <2>1. SweepSound(s) /\ Fresh(s)
    BY DEF ChannelPass
  <2>2. ASSUME NEW t \in Nat, t <= post_now, Swept(s, t)
        PROVE  Swept(s, t)'
    <3> SUFFICES ASSUME NEW m \in Channel!Posts, post_created'[m] # 0,
                        post_updated'[m] \in mine.since .. t
                 PROVE  IF m \in DOMAIN s.todo THEN s.todo[m] = post_updated'[m]
                        ELSE post_stored'[m] = post_updated'[m]
      BY <1>2 DEF Swept
    <3>1. post_created[m] # 0 /\ post_updated'[m] = post_updated[m]
      BY <1>1, <1>4, <2>2 DEF TimeGoesOn
    <3> QED  BY <1>2, <2>2, <3>1 DEF Swept
  <2>3. PICK top : top = s.top
    OBVIOUS
  <2>4. top \in Nat /\ top <= post_now /\ Swept(s, top)
    BY <2>1, <2>3 DEF SweepSound
  <2>5. Swept(s, top)' /\ top <= post_now'
    BY <1>1, <2>2, <2>4
  <2>6. ASSUME NEW k \in DOMAIN s.todo
        PROVE  Swept(s, s.todo[k])'
    <3>1. PICK t : t = s.todo[k]
      OBVIOUS
    <3>2. t \in Nat /\ t <= post_now /\ Swept(s, t)
      BY <2>1, <3>1, ListFacts DEF SweepSound, Fresh
    <3>3. Swept(s, t)'
      BY <2>2, <3>2
    <3> QED  BY <3>1, <3>3
  <2> QED  BY <2>3, <2>5, <2>6 DEF SweepSound
<1>9. s.phase = "old" => OldSound(s)'
  <2> SUFFICES ASSUME s.phase = "old"
               PROVE  OldSound(s)'
    OBVIOUS
  <2>1. OldSound(s)
    BY DEF ChannelPass
  <2>2. \A m \in s.page : post_created[m] # 0 /\ post_created'[m] = post_created[m]
    BY <2>1 DEF OldSound, TimeGoesOn
  <2>3. ASSUME NEW m \in Channel!Posts, post_created'[m] # 0, InWindow(m, mine.active)'
        PROVE  post_created[m] # 0 /\ InWindow(m, mine.active)
    <3>1. post_created'[m] \in mine.active.from .. (mine.active.to - 1)
      BY <2>3 DEF InWindow
    <3>2. post_created[m] # 0 /\ post_created'[m] = post_created[m]
      BY <1>1, <1>4, <2>3, <3>1 DEF TimeGoesOn
    <3> QED  BY <3>1, <3>2 DEF InWindow
  <2>4. ASSUME NEW m \in Channel!Posts, post_created'[m] # 0, InWindow(m, mine.active)'
        PROVE  \/ post_stored'[m] # 0 \/ m \in DOMAIN s.todo
               \/ ~ (Cardinality(s.page) < Limit) /\ \A k \in s.page : m < k
    BY <1>2, <2>1, <2>3, <2>4 DEF OldSound
  <2>5. \A m \in s.page : m \in Channel!Posts
    OBVIOUS
  <2>6. \A m \in s.window : mine.active.from <= post_created'[m]
    BY <1>2, <2>1, <2>2, <2>5 DEF OldSound
  <2> QED  BY <1>2, <2>1, <2>2, <2>4, <2>6 DEF OldSound
<1> QED  BY <1>5, <1>6, <1>7, <1>8, <1>9 DEF ChannelPass

\* Whatever leaves the connector alone.
LEMMA ChannelOutside ==
  ASSUME ChannelInv, PostTimes', TimeGoesOn,
         UNCHANGED <<post_stored, post_entry, post_pass, post_skipped>>
  PROVE  ChannelInv'
<1>1. PICK e, w, s : e = post_entry /\ w = e.watermark /\ s = post_pass
  OBVIOUS
<1>2. StoreKeeps(w)
  BY DEF StoreKeeps
<1>3. ChannelSound(e)'
  BY <1>1, <1>2, EntryStands DEF ChannelInv
<1>4. s # Channel!Idle => ChannelPass(s)'
  BY <1>1, ChannelPassStands DEF ChannelInv
<1> QED  BY <1>1, <1>3, <1>4 DEF ChannelInv

LEMMA ChannelTime ==
  ASSUME ChannelInv, \/ Channel!Tick \/ Channel!SetHistoryDays \/ UNCHANGED postVars
  PROVE  ChannelInv'
<1> USE PostNumbers
<1>1. PostTimes
  BY DEF ChannelInv
<1>2. /\ UNCHANGED <<post_created, post_updated, post_stored, post_entry, post_pass,
                     post_skipped>>
      /\ post_now' \in Nat /\ post_now <= post_now' /\ post_days' \in Spans
  BY <1>1 DEF Channel!Tick, Channel!SetHistoryDays, postVars, PostTimes
<1>3. PostTimes'
  <2>1. \A n \in Spans : n < post_now'
    BY <1>1, <1>2 DEF PostTimes
  <2>2. \A m \in Channel!Posts : post_updated[m] <= post_now'
    BY <1>1, <1>2 DEF PostTimes
  <2> QED  BY <1>1, <1>2, <2>1, <2>2 DEF PostTimes
<1>4. TimeGoesOn
  BY <1>2 DEF TimeGoesOn
<1> QED  BY <1>2, <1>3, <1>4, ChannelOutside

LEMMA ChannelWrite ==
  ASSUME ChannelInv, Channel!Write
  PROVE  ChannelInv'
<1> USE PostNumbers
<1>1. PostTimes
  BY DEF ChannelInv
<1>2. /\ UNCHANGED <<post_days, post_stored, post_entry, post_pass, post_skipped>>
      /\ post_now \in Nat /\ post_now' = post_now + 1
  BY <1>1 DEF Channel!Write, PostTimes
<1>3. PICK m \in Channel!Posts :
        /\ post_created[m] = 0 /\ (m - 1 = 0 \/ post_created[m - 1] # 0)
        /\ post_created' = [post_created EXCEPT ![m] = post_now']
        /\ post_updated' = [post_updated EXCEPT ![m] = post_now']
  BY DEF Channel!Write, Channel!Written
<1>4. PICK t : t = post_now'
  OBVIOUS
<1>5. /\ post_created'[m] = t /\ post_updated'[m] = t /\ t \in Nat /\ t # 0
      /\ post_created' \in [Channel!Posts -> Nat] /\ post_updated' \in [Channel!Posts -> Nat]
      /\ \A k \in Channel!Posts : k # m =>
           post_created'[k] = post_created[k] /\ post_updated'[k] = post_updated[k]
  BY <1>1, <1>2, <1>3, <1>4 DEF PostTimes
<1>6. \A k \in Channel!Posts :
        /\ post_created[k] \in Nat /\ post_updated[k] \in Nat
        /\ post_created[k] <= post_updated[k] /\ post_updated[k] < t
        /\ post_created[k] = 0 => post_updated[k] = 0
  BY <1>1, <1>2, <1>4 DEF PostTimes
<1>7. ASSUME NEW i \in Channel!Posts, NEW k \in Channel!Posts, post_created'[i] # 0, k < i
      PROVE  post_created'[k] # 0 /\ post_created'[k] < post_created'[i]
  <2>1. CASE i = m
    <3>1. k = m - 1 \/ k < m - 1
      BY <1>7, <2>1
    <3>2. m - 1 \in Channel!Posts /\ post_created[m - 1] # 0
      BY <1>3, <1>7, <2>1
    <3>3. post_created[k] # 0
      BY <1>1, <3>1, <3>2 DEF PostTimes
    <3>4. post_created'[k] = post_created[k] /\ post_created[k] < t
      <4>1. k # m
        BY <1>7, <2>1
      <4>2. /\ post_created[k] \in Nat /\ post_updated[k] \in Nat /\ t \in Nat
            /\ post_created[k] <= post_updated[k] /\ post_updated[k] < t
        BY <1>5, <1>6
      <4> QED  BY <1>5, <4>1, <4>2
    <3> QED  BY <1>5, <2>1, <3>3, <3>4
  <2>2. CASE i # m
    <3>1. post_created[i] # 0 /\ post_created'[i] = post_created[i]
      BY <1>5, <1>7, <2>2
    <3>2. post_created[k] # 0 /\ post_created[k] < post_created[i]
      BY <1>1, <1>7, <3>1 DEF PostTimes
    <3>3. k # m
      BY <1>3, <3>2
    <3> QED  BY <1>5, <3>1, <3>2, <3>3
  <2> QED  BY <2>1, <2>2
<1>8. PostTimes'
  <2>1. /\ post_now' \in Nat /\ \A n \in Spans : n < post_now'
        /\ post_days' \in Spans /\ post_stored' \in [Channel!Posts -> Nat]
    BY <1>1, <1>2 DEF PostTimes
  <2>2. \A k \in Channel!Posts :
          /\ post_created'[k] <= post_updated'[k] /\ post_updated'[k] <= post_now'
          /\ post_created'[k] = 0 => post_updated'[k] = 0
    <3> TAKE k \in Channel!Posts
    <3>1. CASE k = m
      BY <1>4, <1>5, <3>1
    <3>2. CASE k # m
      <4>1. post_updated'[k] = post_updated[k] /\ post_created'[k] = post_created[k]
        BY <1>5, <3>2
      <4>2. post_updated[k] <= t
        BY <1>5, <1>6
      <4> QED  BY <1>4, <1>6, <4>1, <4>2
    <3> QED  BY <3>1, <3>2
  <2> QED  BY <1>5, <1>7, <2>1, <2>2 DEF PostTimes
<1>9. TimeGoesOn
  <2> SUFFICES ASSUME NEW k \in Channel!Posts
               PROVE  /\ post_created[k] # 0 => post_created'[k] = post_created[k]
                      /\ post_created[k] = 0 /\ post_created'[k] # 0 =>
                           post_now < post_created'[k]
                      /\ \/ post_updated'[k] > post_now
                         \/ post_created'[k] = 0
                         \/ post_created[k] # 0 /\ post_updated'[k] = post_updated[k]
    BY <1>2 DEF TimeGoesOn
  <2>1. CASE k = m
    BY <1>2, <1>3, <1>4, <1>5, <2>1
  <2>2. CASE k # m
    BY <1>5, <2>2
  <2> QED  BY <2>1, <2>2
<1> QED  BY <1>2, <1>8, <1>9, ChannelOutside

LEMMA ChannelChange ==
  ASSUME ChannelInv, Channel!Change
  PROVE  ChannelInv'
<1> USE PostNumbers
<1>1. PostTimes
  BY DEF ChannelInv
<1>2. /\ UNCHANGED <<post_days, post_created, post_stored, post_entry, post_pass,
                     post_skipped>>
      /\ post_now \in Nat /\ post_now' = post_now + 1
  BY <1>1 DEF Channel!Change, PostTimes
<1>3. PICK m \in Channel!Posts :
        post_created[m] # 0 /\ post_updated' = [post_updated EXCEPT ![m] = post_now']
  BY DEF Channel!Change, Channel!Written
<1>4. PICK t : t = post_now'
  OBVIOUS
<1>5. /\ post_updated'[m] = t /\ t \in Nat /\ t # 0
      /\ post_updated' \in [Channel!Posts -> Nat]
      /\ \A k \in Channel!Posts : k # m => post_updated'[k] = post_updated[k]
  BY <1>1, <1>2, <1>3, <1>4 DEF PostTimes
<1>6. \A k \in Channel!Posts :
        /\ post_created[k] \in Nat /\ post_updated[k] \in Nat
        /\ post_created[k] <= post_updated[k] /\ post_updated[k] < t
        /\ post_created[k] = 0 => post_updated[k] = 0
  BY <1>1, <1>2, <1>4 DEF PostTimes
<1>7. PostTimes'
  <2>1. /\ post_now' \in Nat /\ \A n \in Spans : n < post_now'
    BY <1>1, <1>2 DEF PostTimes
  <2>2. \A k \in Channel!Posts :
          /\ post_created'[k] <= post_updated'[k] /\ post_updated'[k] <= post_now'
          /\ post_created'[k] = 0 => post_updated'[k] = 0
    <3> TAKE k \in Channel!Posts
    <3>1. CASE k = m
      BY <1>2, <1>3, <1>4, <1>5, <1>6, <3>1
    <3>2. CASE k # m
      <4>1. post_updated'[k] = post_updated[k] /\ post_created'[k] = post_created[k]
        BY <1>2, <1>5, <3>2
      <4>2. post_updated[k] <= t
        BY <1>5, <1>6
      <4> QED  BY <1>4, <1>6, <4>1, <4>2
    <3> QED  BY <3>1, <3>2
  <2> QED  BY <1>1, <1>2, <1>5, <2>1, <2>2 DEF PostTimes
<1>8. TimeGoesOn
  <2>1. \A k \in Channel!Posts :
          \/ post_updated'[k] > post_now
          \/ post_created'[k] = 0
          \/ post_created[k] # 0 /\ post_updated'[k] = post_updated[k]
    BY <1>2, <1>4, <1>5
  <2> QED  BY <1>2, <2>1 DEF TimeGoesOn
<1> QED  BY <1>2, <1>7, <1>8, ChannelOutside

-----------------------------------------------------------------------------
(* What the connector's steps have in common.                              *)

LEMMA ChannelMoves ==
  ASSUME ChannelInv, UNCHANGED <<post_days, post_now, post_created, post_updated>>,
         post_stored' \in [Channel!Posts -> Nat],
         \/ post_entry' \in PostEntries /\ ChannelSound(post_entry)'
         \/ post_entry' = post_entry /\ \E w : w = post_entry.watermark /\ StoreKeeps(w),
         \/ post_pass' = Channel!Idle
         \/ post_pass' \in PostPasses /\ ChannelPass(post_pass)'
  PROVE  ChannelInv'
<1>1. PostTimes' /\ TimeGoesOn
  BY DEF ChannelInv, PostTimes, TimeGoesOn
<1>2. post_entry' \in PostEntries /\ ChannelSound(post_entry)'
  <2>1. CASE post_entry' = post_entry /\ \E w : w = post_entry.watermark /\ StoreKeeps(w)
    <3>1. PICK e, w : e = post_entry /\ w = e.watermark /\ StoreKeeps(w)
      BY <2>1
    <3>2. ChannelSound(e)'
      BY <1>1, <3>1, EntryStands DEF ChannelInv
    <3> QED  BY <2>1, <3>1, <3>2 DEF ChannelInv
  <2> QED  BY <2>1
<1> QED  BY <1>1, <1>2 DEF ChannelInv

LEMMA NothingStored ==
  ASSUME UNCHANGED post_stored, post_skipped \subseteq post_skipped'
  PROVE  \A w : StoreKeeps(w)
BY DEF StoreKeeps

\* The entry a pass works on stays sound while posts are stored that it knows afresh.
LEMMA StorePost ==
  ASSUME ChannelInv, NEW s \in PostPasses, ChannelPass(s), s.phase # "plan",
         NEW m \in DOMAIN s.todo,
         post_stored' = [post_stored EXCEPT ![m] = s.todo[m]],
         UNCHANGED <<post_days, post_now, post_created, post_updated, post_skipped>>
  PROVE  /\ m \in Channel!Posts /\ post_created[m] # 0 /\ s.todo[m] \in Nat \ {0}
         /\ s.todo[m] <= post_now
         /\ post_stored' \in [Channel!Posts -> Nat] /\ post_stored'[m] = s.todo[m]
         /\ \A k \in Channel!Posts : k # m => post_stored'[k] = post_stored[k]
         /\ \E w : w = post_entry.watermark /\ StoreKeeps(w)
         /\ ChannelSound(s.mine)'
<1>1. /\ m \in Channel!Posts /\ s.todo[m] \in Nat \ {0}
      /\ s.mine \in PostEntries
  BY PassForms, ListFacts
<1>2. /\ post_created[m] # 0 /\ s.todo[m] <= post_now
      /\ \/ s.todo[m] = post_updated[m]
         \/ post_updated[m] > s.mine.watermark /\ post_updated[m] > post_entry.watermark
  BY DEF ChannelPass, Fresh
<1>3. PICK v : v = s.todo[m]
  OBVIOUS
<1>4. post_stored \in [Channel!Posts -> Nat] /\ PostTimes
  BY DEF ChannelInv, PostTimes
<1>5. /\ post_stored' \in [Channel!Posts -> Nat] /\ post_stored'[m] = v
      /\ \A k \in Channel!Posts : k # m => post_stored'[k] = post_stored[k]
  BY <1>1, <1>3, <1>4
<1>6. PICK u, w : u = s.mine.watermark /\ w = post_entry.watermark
  OBVIOUS
<1>7. StoreKeeps(u) /\ StoreKeeps(w)
  BY <1>1, <1>2, <1>3, <1>5, <1>6 DEF StoreKeeps
<1>8. PICK mine : mine = s.mine
  OBVIOUS
<1>9. PostTimes' /\ TimeGoesOn
  BY <1>4, <1>5 DEF PostTimes, TimeGoesOn
<1>10. ChannelSound(mine)'
  BY <1>1, <1>4, <1>6, <1>7, <1>8, <1>9, EntryStands DEF ChannelPass
<1> QED  BY <1>1, <1>2, <1>3, <1>5, <1>6, <1>7, <1>8, <1>10

LEMMA DropPost ==
  ASSUME NEW todo \in Lists, NEW m \in DOMAIN todo, NEW rest,
         rest = [k \in DOMAIN todo \ {m} |-> todo[k]]
  PROVE  /\ rest \in Lists /\ DOMAIN rest = DOMAIN todo \ {m}
         /\ \A k \in DOMAIN rest : rest[k] = todo[k]
<1>1. /\ DOMAIN todo \subseteq Channel!Posts
      /\ \A k \in DOMAIN todo : todo[k] \in Nat \ {0}
  BY ListFacts
<1>2. DOMAIN todo \ {m} \in SUBSET Channel!Posts
  BY <1>1
<1>3. rest \in [DOMAIN todo \ {m} -> Nat \ {0}]
  BY <1>1
<1> QED  BY <1>2, <1>3, ListFacts

LEMMA LeastLeft ==
  ASSUME NEW S \in SUBSET Channel!Posts, S # {}
  PROVE  /\ Channel!Min(S) \in S /\ \A k \in S : Channel!Min(S) <= k
         /\ Channel!Max(S) \in S /\ \A k \in S : k <= Channel!Max(S)
<1>1. S \in SUBSET Int /\ IsFiniteSet(S)
  BY PostNumbers, FS_Subset
<1>2. Min(S) \in S /\ (\A k \in S : Min(S) <= k) /\ Max(S) \in S /\ (\A k \in S : Max(S) >= k)
  BY <1>1, MinIsLeast, MaxIsGreatest
<1>3. Channel!Min(S) = Min(S) /\ Channel!Max(S) = Max(S)
  BY DEF Channel!Min, Min, Channel!Max, Max
<1>4. \A k \in S : k \in Int
  BY <1>1
<1> QED  BY <1>2, <1>3, <1>4

\* The posts of a page as they are: nothing is fresher.
LEMMA AnswerIsFresh ==
  ASSUME PostTimes, NEW page \in SUBSET Channel!Posts, \A m \in page : post_created[m] # 0,
         NEW todo, todo = Channel!Answer(page)
  PROVE  /\ todo \in Lists /\ DOMAIN todo = page
         /\ \A m \in page : /\ todo[m] = post_updated[m] /\ todo[m] <= post_now
                            /\ post_created[m] # 0
<1>1. \A m \in page : /\ post_updated[m] \in Nat \ {0} /\ post_updated[m] <= post_now
  BY DEF PostTimes
<1>2. DOMAIN todo = page /\ \A m \in page : todo[m] = post_updated[m]
  BY DEF Channel!Answer
<1>3. todo \in [page -> Nat \ {0}]
  BY <1>1 DEF Channel!Answer
<1> QED  BY <1>1, <1>2, <1>3, ListFacts

LEMMA ChannelFails ==
  ASSUME ChannelInv, Channel!Failed
  PROVE  ChannelInv'
<1>1. /\ UNCHANGED <<post_days, post_now, post_created, post_updated, post_stored,
                     post_entry, post_skipped>>
      /\ post_pass' = Channel!Idle
  BY DEF Channel!Failed, Channel!channel
<1>2. \E w : w = post_entry.watermark /\ StoreKeeps(w)
  BY <1>1, NothingStored
<1>3. post_stored' \in [Channel!Posts -> Nat]
  BY <1>1 DEF ChannelInv, PostTimes
<1> QED  BY <1>1, <1>2, <1>3, ChannelMoves

-----------------------------------------------------------------------------
(* The live part.                                                          *)

LivePage(anchor) ==
  IF anchor = 0 THEN Channel!Largest(Channel!Written, Limit)
  ELSE Channel!Smallest({m \in Channel!Written : m > anchor}, Limit)

\* A page leaves no gap: down from the newest post, or up from the anchor.
LEMMA LivePageFacts ==
  ASSUME PostTimes, NEW anchor \in 0 .. MaxPosts, NEW page, page = LivePage(anchor)
  PROVE  /\ page \subseteq Channel!Posts /\ \A m \in page : post_created[m] # 0
         /\ anchor = 0 => \A k \in page, m \in Channel!Posts :
              post_created[m] # 0 /\ k < m => m \in page
         /\ anchor # 0 => \A k \in page, m \in Channel!Posts :
              anchor < m /\ m < k => m \in page
<1>1. \A S \in SUBSET Channel!Posts : S \in SUBSET Int /\ IsFiniteSet(S)
  BY PostNumbers, FS_Subset
<1>2. Limit \in Nat \ {0} /\ \A m \in Channel!Posts : m \in Nat
  BY PostNumbers
<1>3. CASE anchor = 0
  <2>1. PICK S : S = Channel!Written
    OBVIOUS
  <2>2. S \in SUBSET Channel!Posts
    BY <2>1 DEF Channel!Written
  <2>3. Channel!Largest(S, Limit) = Largest(S, Limit)
    BY DEF Channel!Largest, Largest, Channel!Cardinality, Cardinality
  <2>4. page = Largest(S, Limit)
    BY <1>3, <2>1, <2>3 DEF LivePage
  <2>5. /\ page \subseteq S
        /\ \A x \in page, y \in S \ page : y < x
    BY <1>1, <1>2, <2>2, <2>4, LargestIsPage
  <2>6. ASSUME NEW k \in page, NEW m \in Channel!Posts, post_created[m] # 0, k < m,
               m \notin page
        PROVE  FALSE
    <3>1. m \in S \ page
      BY <2>1, <2>6 DEF Channel!Written
    <3>2. m < k /\ k \in Nat /\ m \in Nat
      BY <1>2, <2>2, <2>5, <3>1
    <3> QED  BY <2>6, <3>2
  <2> QED  BY <1>3, <2>1, <2>2, <2>5, <2>6 DEF Channel!Written
<1>4. CASE anchor # 0
  <2>1. PICK S : S = {m \in Channel!Written : m > anchor}
    OBVIOUS
  <2>2. S \in SUBSET Channel!Posts
    BY <2>1 DEF Channel!Written
  <2>3. Channel!Smallest(S, Limit) = Smallest(S, Limit)
    BY DEF Channel!Smallest, Smallest, Channel!Cardinality, Cardinality
  <2>4. page = Smallest(S, Limit)
    BY <1>4, <2>1, <2>3 DEF LivePage
  <2>5. /\ page \subseteq S
        /\ \A x \in page, y \in S \ page : x < y
    BY <1>1, <1>2, <2>2, <2>4, SmallestIsPage
  <2>6. ASSUME NEW k \in page, NEW m \in Channel!Posts, anchor < m, m < k, m \notin page
        PROVE  FALSE
    <3>1. k \in Channel!Posts /\ post_created[k] # 0
      BY <2>1, <2>5 DEF Channel!Written
    <3>2. post_created[m] # 0
      BY <2>6, <3>1 DEF PostTimes
    <3>3. m \in S \ page
      BY <1>2, <2>1, <2>6, <3>2 DEF Channel!Written
    <3>4. k < m /\ k \in Nat /\ m \in Nat
      BY <1>2, <2>5, <3>1, <3>3
    <3> QED  BY <2>6, <3>4
  <2> QED  BY <1>4, <2>1, <2>2, <2>5, <2>6 DEF Channel!Written
<1> QED  BY <1>3, <1>4

LEMMA ChannelListLive ==
  ASSUME ChannelInv, Channel!ListLive
  PROVE  ChannelInv'
<1>1. PICK e, n : e = post_entry /\ n = post_days
  OBVIOUS
<1>2. /\ e \in PostEntries /\ ChannelSound(e) /\ PostTimes /\ n \in Spans
      /\ UNCHANGED <<post_days, post_now, post_created, post_updated, post_stored,
                     post_entry>>
  BY <1>1 DEF Channel!ListLive, Channel!channel, ChannelInv, PostTimes
<1>3. PICK page, recent, cutoff, todo, first, since :
        /\ page = LivePage(e.anchor)
        /\ cutoff = post_now - n
        /\ recent = {m \in page : post_created[m] >= cutoff}
        /\ todo = Channel!Answer(recent)
        /\ first = IF e.anchor = 0 /\ recent # {} THEN Channel!Min(recent) ELSE e.first
        /\ since = IF e.watermark = 0 THEN cutoff ELSE e.since
  OBVIOUS
<1>4. PICK mine : mine = [e EXCEPT !.first = first, !.since = since]
  OBVIOUS
<1>5. /\ post_pass' = [phase |-> "live", days |-> n, todo |-> todo, mine |-> mine]
      /\ post_skipped' = IF e.anchor = 0 THEN post_skipped
                         ELSE post_skipped \union (page \ recent)
  BY <1>1, <1>3, <1>4 DEF Channel!ListLive, LivePage
<1>6. /\ e.anchor \in 0 .. MaxPosts /\ e.first \in Nat /\ e.since \in Nat
      /\ e.watermark \in Nat
  BY <1>2, EntryForms
<1>7. /\ page \subseteq Channel!Posts /\ \A m \in page : post_created[m] # 0
      /\ e.anchor = 0 => \A k \in page, m \in Channel!Posts :
           post_created[m] # 0 /\ k < m => m \in page
      /\ e.anchor # 0 => \A k \in page, m \in Channel!Posts :
           e.anchor < m /\ m < k => m \in page
  <2>1. PICK anchor : anchor = e.anchor
    OBVIOUS
  <2> QED  BY <1>2, <1>3, <1>6, <2>1, LivePageFacts
<1>8. recent \in SUBSET Channel!Posts /\ recent \subseteq page
  BY <1>3, <1>7
<1>9. /\ todo \in Lists /\ DOMAIN todo = recent
      /\ \A m \in recent : /\ todo[m] = post_updated[m] /\ todo[m] <= post_now
                           /\ post_created[m] # 0
  BY <1>2, <1>3, <1>7, <1>8, AnswerIsFresh
<1>10. cutoff \in Nat /\ since \in Nat
  <2>1. n \in Nat /\ n < post_now /\ post_now \in Nat
    BY <1>2, PostNumbers DEF PostTimes
  <2> QED  BY <1>3, <1>6, <2>1
<1>11. /\ first \in Nat
       /\ e.anchor = 0 /\ recent # {} => first \in recent /\ \A k \in recent : first <= k
       /\ e.anchor # 0 \/ recent = {} => first = e.first
  <2>1. CASE e.anchor = 0 /\ recent # {}
    <3>1. first = Channel!Min(recent)
      BY <1>3, <2>1
    <3>2. first \in recent /\ \A k \in recent : first <= k
      BY <1>8, <2>1, <3>1, LeastLeft
    <3>3. first \in Channel!Posts
      BY <1>8, <3>2
    <3>4. first \in Nat
      BY <3>3, PostNumbers
    <3> QED  BY <2>1, <3>2, <3>4
  <2>2. CASE ~ (e.anchor = 0 /\ recent # {})
    BY <1>3, <1>6, <2>2
  <2> QED  BY <2>1, <2>2
<1>12. /\ mine \in PostEntries
       /\ mine.first = first /\ mine.since = since /\ mine.watermark = e.watermark
       /\ mine.anchor = e.anchor /\ mine.covered = e.covered /\ mine.upto = e.upto
       /\ mine.active = e.active /\ mine.oldest = e.oldest
  BY <1>2, <1>4, <1>10, <1>11 DEF PostEntries
<1>13. ChannelSound(e)'
  <2>1. PICK w : w = e.watermark
    OBVIOUS
  <2>2. post_skipped \subseteq post_skipped'
    BY <1>5
  <2>3. StoreKeeps(w)
    BY <1>2, <2>2, NothingStored
  <2>4. PostTimes' /\ TimeGoesOn
    BY <1>2 DEF PostTimes, TimeGoesOn
  <2> QED  BY <1>2, <2>1, <2>3, <2>4, EntryStands
<1>14. ChannelSound(mine)'
  <2>1. ASSUME NEW m \in Channel!Posts, post_created'[m] # 0, Scanned(mine, m)'
        PROVE  post_stored'[m] # 0
    <3>1. Scanned(e, m)'
      BY <1>12, <2>1 DEF Scanned
    <3> QED  BY <1>13, <2>1, <3>1 DEF ChannelSound
  <2>2. ASSUME NEW m \in Channel!Posts \ post_skipped', mine.first # 0,
               m \in mine.first .. mine.anchor
        PROVE  post_stored'[m] # 0
    <3>1. CASE e.anchor = 0
      <4>1. m \in Nat /\ m <= 0 /\ m # 0
        BY <1>11, <1>12, <2>2, <3>1, PostNumbers
      <4> QED  BY <4>1
    <3>2. CASE e.anchor # 0
      BY <1>11, <1>12, <1>13, <2>2, <3>2 DEF ChannelSound
    <3> QED  BY <3>1, <3>2
  <2>3. ASSUME NEW m \in Channel!Posts, post_created'[m] # 0,
               post_updated'[m] \in mine.since .. mine.watermark
        PROVE  post_stored'[m] = post_updated'[m]
    <3>1. CASE e.watermark = 0
      <4>1. post_updated'[m] \in Nat /\ post_updated'[m] # 0
        BY <1>2, <2>3 DEF PostTimes
      <4> QED  BY <1>10, <1>12, <2>3, <3>1, <4>1
    <3>2. CASE e.watermark # 0
      BY <1>3, <1>12, <1>13, <2>3, <3>2 DEF ChannelSound
    <3> QED  BY <3>1, <3>2
  <2> QED  BY <1>12, <1>13, <2>1, <2>2, <2>3 DEF ChannelSound
<1>15. PICK new : new = [phase |-> "live", days |-> n, todo |-> todo, mine |-> mine]
  OBVIOUS
<1>16. /\ new \in PostPasses /\ new.phase = "live" /\ new.todo = todo /\ new.mine = mine
  BY <1>2, <1>9, <1>12, <1>15 DEF PostPasses
<1>17. Fresh(new)'
  BY <1>2, <1>9, <1>16 DEF Fresh
<1>18. LiveSound(new)'
  <2> SUFFICES ASSUME NEW k \in recent, NEW m \in Channel!Posts \ post_skipped',
                      first # 0, m \in first .. k
               PROVE  post_stored'[m] # 0 \/ m \in recent
    BY <1>9, <1>12, <1>16 DEF LiveSound
  <2>1. k \in Channel!Posts /\ k \in page /\ m \in Nat /\ k \in Nat
    BY <1>8, PostNumbers
  <2>2. m = k \/ (m < k /\ post_created[m] # 0)
    BY <1>2, <1>7, <2>1 DEF PostTimes
  <2>3. CASE e.anchor = 0
    <3>1. first \in recent /\ first \in page /\ first \in Channel!Posts
      BY <1>8, <1>11, <2>3
    <3>2. m = first \/ first < m
      BY <1>11, <2>1
    <3>3. m \in page
      BY <1>7, <2>1, <2>2, <2>3, <3>1, <3>2
    <3>4. post_created[m] >= post_created[first]
      BY <1>2, <1>7, <2>1, <3>1, <3>2, <3>3 DEF PostTimes
    <3>5. post_created[first] >= cutoff /\ post_created[first] \in Nat
          /\ post_created[m] \in Nat
      BY <1>2, <1>3, <3>1 DEF PostTimes
    <3>6. post_created[m] >= cutoff
      BY <1>10, <3>4, <3>5
    <3> QED  BY <1>3, <3>3, <3>6
  <2>4. CASE e.anchor # 0
    <3>1. first = e.first
      BY <1>11, <2>4
    <3>2. CASE m <= e.anchor
      <4>1. m \in e.first .. e.anchor
        BY <1>6, <2>1, <3>1, <3>2
      <4> QED  BY <1>13, <3>1, <4>1 DEF ChannelSound
    <3>3. CASE e.anchor < m
      <4>1. m \in page
        BY <1>7, <2>1, <2>2, <2>4, <3>3
      <4>2. m \notin page \ recent
        BY <1>5, <2>4
      <4> QED  BY <4>1, <4>2
    <3> QED  BY <1>6, <2>1, <3>2, <3>3
  <2> QED  BY <2>3, <2>4
<1>19. ChannelPass(new)'
  BY <1>14, <1>16, <1>17, <1>18 DEF ChannelPass
<1>20. post_stored' \in [Channel!Posts -> Nat]
  BY <1>2 DEF PostTimes
<1>21. post_entry' \in PostEntries /\ ChannelSound(post_entry)'
  BY <1>1, <1>2, <1>13
<1> QED  BY <1>2, <1>5, <1>15, <1>16, <1>19, <1>20, <1>21, ChannelMoves

LEMMA LaterOfTwo ==
  ASSUME NEW i \in Nat, NEW k \in Nat
  PROVE  Channel!Max({i, k}) \in {i, k} /\ i <= Channel!Max({i, k}) /\ k <= Channel!Max({i, k})
<1>1. PICK S : S = {i, k}
  OBVIOUS
<1>2. S \in SUBSET Int /\ S # {} /\ i \in S /\ k \in S
  BY <1>1
<1>3. IsFiniteSet(S)
  <2>1. IsFiniteSet({i}) /\ S = {i} \union {k}
    BY <1>1, FS_Singleton
  <2> QED  BY <2>1, FS_AddElement
<1>4. Max(S) \in S /\ \A x \in S : Max(S) >= x
  BY <1>2, <1>3, MaxIsGreatest
<1>5. Channel!Max(S) = Max(S)
  BY DEF Channel!Max, Max
<1> QED  BY <1>1, <1>2, <1>4, <1>5

LEMMA ChannelSaveLive ==
  ASSUME ChannelInv, Channel!SaveLive
  PROVE  ChannelInv'
<1>1. PICK s : s = post_pass
  OBVIOUS
<1>2. /\ s.phase = "live" /\ Channel!Left # {}
      /\ UNCHANGED <<post_days, post_now, post_created, post_updated, post_entry,
                     post_skipped>>
  BY <1>1 DEF Channel!SaveLive, Channel!channel
<1>3. s \in PostPasses /\ ChannelPass(s)
  BY <1>1, <1>2, PostNumbers DEF ChannelInv
<1>4. PICK mine, todo : mine = s.mine /\ todo = s.todo
  OBVIOUS
<1>5. mine \in PostEntries /\ todo \in Lists /\ s.days \in Spans
  BY <1>2, <1>3, <1>4, PassForms
<1>6. PICK m : m = Channel!Min(DOMAIN todo)
  OBVIOUS
<1>7. m \in DOMAIN todo /\ \A k \in DOMAIN todo : m <= k
  <2>1. DOMAIN todo \in SUBSET Channel!Posts /\ DOMAIN todo # {}
    BY <1>1, <1>2, <1>4, <1>5, ListFacts DEF Channel!Left
  <2> QED  BY <1>6, <2>1, LeastLeft
<1>8. PICK rest : rest = [k \in DOMAIN todo \ {m} |-> todo[k]]
  OBVIOUS
<1>9. PICK moved : moved = [mine EXCEPT !.anchor = m]
  OBVIOUS
<1>10. PICK new : new = [phase |-> "live", days |-> s.days, todo |-> rest, mine |-> moved]
  OBVIOUS
<1>11. /\ post_stored' = [post_stored EXCEPT ![m] = s.todo[m]]
       /\ post_pass' = new
  <2>1. /\ post_stored' = [post_stored EXCEPT ![m] = s.todo[m]]
        /\ post_pass' = [s EXCEPT !.todo = rest, !.mine.anchor = m]
    BY <1>1, <1>4, <1>6, <1>8
    DEF Channel!SaveLive, Channel!Left, Channel!Store, Channel!Rest
  <2>2. [s EXCEPT !.todo = rest, !.mine.anchor = m] = new
    <3>1. s = [phase |-> "live", days |-> s.days, todo |-> todo, mine |-> mine]
      BY <1>2, <1>3, <1>4 DEF PostPasses
    <3>2. PICK r : r = [s EXCEPT !.todo = rest]
      OBVIOUS
    <3>3. r = [phase |-> "live", days |-> s.days, todo |-> rest, mine |-> mine]
      BY <3>1, <3>2
    <3>4. moved = [r.mine EXCEPT !.anchor = m]
      <4>1. r.mine = mine
        BY <3>3
      <4> QED  BY <1>9, <4>1
    <3>5. [r EXCEPT !.mine = moved] = new
      BY <1>10, <3>3
    <3>6. [s EXCEPT !.todo = rest, !.mine.anchor = m] = [r EXCEPT !.mine = moved]
      BY <3>2, <3>4
    <3> QED  BY <3>5, <3>6
  <2> QED  BY <2>1, <2>2
<1>12. /\ m \in Channel!Posts /\ post_created[m] # 0 /\ s.todo[m] \in Nat \ {0}
       /\ post_stored' \in [Channel!Posts -> Nat] /\ post_stored'[m] = s.todo[m]
       /\ \A k \in Channel!Posts : k # m => post_stored'[k] = post_stored[k]
       /\ \E w : w = post_entry.watermark /\ StoreKeeps(w)
       /\ ChannelSound(s.mine)'
  <2>1. m \in DOMAIN s.todo /\ s.phase # "plan"
    BY <1>2, <1>4, <1>7
  <2> QED  BY <1>2, <1>3, <1>11, <2>1, StorePost
<1>13. /\ rest \in Lists /\ DOMAIN rest = DOMAIN todo \ {m}
       /\ \A k \in DOMAIN rest : rest[k] = todo[k]
  BY <1>5, <1>7, <1>8, DropPost
<1>14. /\ moved \in PostEntries /\ moved.anchor = m
       /\ moved.first = mine.first /\ moved.since = mine.since
       /\ moved.watermark = mine.watermark /\ moved.covered = mine.covered
       /\ moved.upto = mine.upto /\ moved.active = mine.active /\ moved.oldest = mine.oldest
  <2>1. m \in 0 .. MaxPosts
    BY <1>12, PostNumbers
  <2>2. mine \in PostEntries
    BY <1>5
  <2> QED  BY <1>9, <2>1, <2>2 DEF PostEntries
<1>15. /\ new \in PostPasses /\ new.phase = "live" /\ new.todo = rest /\ new.mine = moved
  BY <1>5, <1>10, <1>13, <1>14 DEF PostPasses
<1>16. LiveSound(s) /\ Fresh(s)
  BY <1>2, <1>3 DEF ChannelPass
<1>17. ASSUME NEW k \in DOMAIN todo, NEW n \in Channel!Posts \ post_skipped',
              mine.first # 0, n \in mine.first .. k
       PROVE  post_stored'[n] # 0 \/ n \in DOMAIN rest
  <2>1. post_stored[n] # 0 \/ n \in DOMAIN todo
    BY <1>2, <1>4, <1>16, <1>17 DEF LiveSound
  <2> QED  BY <1>12, <1>13, <2>1
<1>18. ChannelSound(moved)'
  <2>1. ChannelSound(mine)'
    BY <1>4, <1>12
  <2>2. ASSUME NEW n \in Channel!Posts, post_created'[n] # 0, Scanned(moved, n)'
        PROVE  post_stored'[n] # 0
    <3>1. Scanned(mine, n)'
      BY <1>14, <2>2 DEF Scanned
    <3> QED  BY <2>1, <2>2, <3>1 DEF ChannelSound
  <2>3. ASSUME NEW n \in Channel!Posts \ post_skipped', moved.first # 0,
               n \in moved.first .. moved.anchor
        PROVE  post_stored'[n] # 0
    <3>1. post_stored'[n] # 0 \/ n \in DOMAIN rest
      BY <1>7, <1>14, <1>17, <2>3
    <3>2. n <= m /\ (n \in DOMAIN rest => m <= n /\ n # m)
      BY <1>7, <1>13, <1>14, <2>3, EntryForms
    <3>3. n \in Nat /\ m \in Nat
      BY <1>12, PostNumbers
    <3> QED  BY <3>1, <3>2, <3>3
  <2>4. post_created'[moved.anchor] # 0
    BY <1>2, <1>12, <1>14
  <2> QED  BY <1>14, <2>1, <2>2, <2>3, <2>4 DEF ChannelSound
<1>19. Fresh(new)'
  BY <1>2, <1>4, <1>13, <1>14, <1>15, <1>16 DEF Fresh
<1>20. LiveSound(new)'
  BY <1>13, <1>14, <1>15, <1>17 DEF LiveSound
<1>21. ChannelPass(new)'
  BY <1>15, <1>18, <1>19, <1>20 DEF ChannelPass
<1> QED  BY <1>2, <1>11, <1>12, <1>15, <1>21, ChannelMoves

-----------------------------------------------------------------------------
(* The sweep.                                                              *)

LEMMA ChannelListSweep ==
  ASSUME ChannelInv, Channel!ListSweep
  PROVE  ChannelInv'
<1>1. PICK s : s = post_pass
  OBVIOUS
<1>2. /\ s.phase = "live" /\ Channel!Left = {}
      /\ UNCHANGED <<post_days, post_now, post_created, post_updated, post_stored,
                     post_entry, post_skipped>>
  BY <1>1 DEF Channel!ListSweep, Channel!channel
<1>3. s \in PostPasses /\ ChannelPass(s) /\ PostTimes
  BY <1>1, <1>2, PostNumbers DEF ChannelInv
<1>4. PICK mine, w, c : mine = s.mine /\ w = mine.watermark /\ c = mine.since
  OBVIOUS
<1>5. mine \in PostEntries /\ s.days \in Spans /\ w \in Nat /\ c \in Nat
  BY <1>2, <1>3, <1>4, PassForms, EntryForms
<1>6. PICK since : since = Channel!Max({w, c})
  OBVIOUS
<1>7. since \in {w, c} /\ w <= since /\ c <= since
  BY <1>5, <1>6, LaterOfTwo
<1>8. PICK page, todo : /\ page = {m \in Channel!Written : post_updated[m] >= since}
                        /\ todo = Channel!Answer(page)
  OBVIOUS
<1>9. page \in SUBSET Channel!Posts /\ \A m \in page : post_created[m] # 0
  BY <1>8 DEF Channel!Written
<1>10. /\ todo \in Lists /\ DOMAIN todo = page
       /\ \A m \in page : todo[m] = post_updated[m] /\ todo[m] <= post_now
  BY <1>3, <1>8, <1>9, AnswerIsFresh
<1>11. PICK new : new = [phase |-> "sweep", days |-> s.days, mine |-> mine, top |-> 0,
                         todo |-> todo]
  OBVIOUS
<1>12. post_pass' = new
  BY <1>1, <1>4, <1>6, <1>8, <1>11 DEF Channel!ListSweep
<1>13. /\ new \in PostPasses /\ new.phase = "sweep" /\ new.todo = todo /\ new.mine = mine
       /\ new.top = 0
  BY <1>5, <1>10, <1>11 DEF PostPasses
<1>14. ChannelSound(mine)'
  BY <1>2, <1>3, <1>4 DEF ChannelPass, ChannelSound, Scanned, InWindow
<1>15. Fresh(new)'
  BY <1>2, <1>9, <1>10, <1>13 DEF Fresh
<1>16. ASSUME NEW t \in Nat
       PROVE  Swept(new, t)'
  <2> SUFFICES ASSUME NEW m \in Channel!Posts, post_created[m] # 0,
                      post_updated[m] \in c .. t
               PROVE  IF m \in page THEN todo[m] = post_updated[m]
                      ELSE post_stored[m] = post_updated[m]
    BY <1>2, <1>4, <1>10, <1>13 DEF Swept
  <2>1. post_updated[m] \in Nat
    BY <1>3 DEF PostTimes
  <2>2. CASE post_updated[m] >= since
    BY <1>8, <1>10, <2>2 DEF Channel!Written
  <2>3. CASE ~ (post_updated[m] >= since)
    <3>1. m \notin page
      BY <1>8, <2>3
    <3>2. since = w /\ post_updated[m] \in c .. w
      BY <1>5, <1>7, <2>1, <2>3
    <3>3. post_stored[m] = post_updated[m]
      BY <1>3, <1>4, <3>2 DEF ChannelPass, ChannelSound
    <3> QED  BY <3>1, <3>3
  <2> QED  BY <2>2, <2>3
<1>17. SweepSound(new)'
  <2>1. 0 <= post_now'
    BY <1>2, <1>3 DEF PostTimes
  <2>2. \A k \in DOMAIN todo : todo[k] \in Nat
    BY <1>10, ListFacts
  <2>3. Swept(new, 0)'
    BY <1>16
  <2>4. ASSUME NEW k \in DOMAIN todo
        PROVE  Swept(new, todo[k])'
    <3>1. PICK t \in Nat : t = todo[k]
      BY <2>2
    <3>2. Swept(new, t)'
      BY <1>16
    <3> QED  BY <3>1, <3>2
  <2> QED  BY <1>13, <2>1, <2>3, <2>4 DEF SweepSound
<1>18. ChannelPass(new)'
  BY <1>13, <1>14, <1>15, <1>17 DEF ChannelPass
<1>19. post_stored' \in [Channel!Posts -> Nat]
  BY <1>2, <1>3 DEF PostTimes
<1>20. \E v : v = post_entry.watermark /\ StoreKeeps(v)
  BY <1>2, NothingStored
<1> QED  BY <1>2, <1>12, <1>13, <1>18, <1>19, <1>20, ChannelMoves

LEMMA ChannelSaveSweep ==
  ASSUME ChannelInv, Channel!SaveSweep
  PROVE  ChannelInv'
<1>1. PICK s : s = post_pass
  OBVIOUS
<1>2. /\ s.phase = "sweep" /\ Channel!Left # {}
      /\ UNCHANGED <<post_days, post_now, post_created, post_updated, post_entry,
                     post_skipped>>
  BY <1>1 DEF Channel!SaveSweep, Channel!channel
<1>3. s \in PostPasses /\ ChannelPass(s) /\ PostTimes
  BY <1>1, <1>2, PostNumbers DEF ChannelInv
<1>4. PICK mine, todo, old : mine = s.mine /\ todo = s.todo /\ old = s.top
  OBVIOUS
<1>5. mine \in PostEntries /\ todo \in Lists /\ s.days \in Spans /\ old \in Nat
  BY <1>2, <1>3, <1>4, PassForms
<1>6. PICK m : m = Channel!Min(DOMAIN todo)
  OBVIOUS
<1>7. m \in DOMAIN todo
  <2>1. DOMAIN todo \in SUBSET Channel!Posts /\ DOMAIN todo # {}
    BY <1>1, <1>2, <1>4, <1>5, ListFacts DEF Channel!Left
  <2> QED  BY <1>6, <2>1, LeastLeft
<1>8. PICK rest : rest = [k \in DOMAIN todo \ {m} |-> todo[k]]
  OBVIOUS
<1>9. PICK v, top : v = todo[m] /\ top = Channel!Max({old, v})
  OBVIOUS
<1>10. PICK new : new = [phase |-> "sweep", days |-> s.days, mine |-> mine, top |-> top,
                         todo |-> rest]
  OBVIOUS
<1>11. /\ post_stored' = [post_stored EXCEPT ![m] = s.todo[m]]
       /\ post_pass' = new
  <2>1. /\ post_stored' = [post_stored EXCEPT ![m] = s.todo[m]]
        /\ post_pass' = [s EXCEPT !.todo = rest, !.top = Channel!Max({@, v})]
    BY <1>1, <1>4, <1>6, <1>8, <1>9
    DEF Channel!SaveSweep, Channel!Left, Channel!Store, Channel!Rest
  <2>2. s = [phase |-> "sweep", days |-> s.days, mine |-> mine, top |-> old, todo |-> todo]
    BY <1>2, <1>3, <1>4 DEF PostPasses
  <2>3. PICK r : r = [s EXCEPT !.todo = rest]
    OBVIOUS
  <2>4. r = [phase |-> "sweep", days |-> s.days, mine |-> mine, top |-> old, todo |-> rest]
    BY <2>2, <2>3
  <2>5. top = Channel!Max({r.top, v})
    <3>1. r.top = old
      BY <2>4
    <3> QED  BY <1>9, <3>1
  <2>6. [r EXCEPT !.top = top] = new
    BY <1>10, <2>4
  <2>7. [s EXCEPT !.todo = rest, !.top = Channel!Max({@, v})] = [r EXCEPT !.top = top]
    BY <2>3, <2>5
  <2> QED  BY <2>1, <2>6, <2>7
<1>12. /\ m \in Channel!Posts /\ post_created[m] # 0 /\ s.todo[m] \in Nat \ {0}
       /\ s.todo[m] <= post_now
       /\ post_stored' \in [Channel!Posts -> Nat] /\ post_stored'[m] = s.todo[m]
       /\ \A k \in Channel!Posts : k # m => post_stored'[k] = post_stored[k]
       /\ \E w : w = post_entry.watermark /\ StoreKeeps(w)
       /\ ChannelSound(s.mine)'
  <2>1. m \in DOMAIN s.todo /\ s.phase # "plan"
    BY <1>2, <1>4, <1>7
  <2> QED  BY <1>2, <1>3, <1>11, <2>1, StorePost
<1>13. /\ rest \in Lists /\ DOMAIN rest = DOMAIN todo \ {m}
       /\ \A k \in DOMAIN rest : rest[k] = todo[k]
  BY <1>5, <1>7, <1>8, DropPost
<1>14. v \in Nat /\ top \in {old, v} /\ top \in Nat
  BY <1>4, <1>5, <1>9, <1>12, LaterOfTwo
<1>15. /\ new \in PostPasses /\ new.phase = "sweep" /\ new.todo = rest
       /\ new.mine = mine /\ new.top = top
  BY <1>5, <1>10, <1>13, <1>14 DEF PostPasses
<1>16. SweepSound(s) /\ Fresh(s)
  BY <1>2, <1>3 DEF ChannelPass
<1>17. Fresh(new)'
  BY <1>2, <1>4, <1>13, <1>15, <1>16 DEF Fresh
<1>18. ASSUME NEW t, Swept(s, t)
       PROVE  Swept(new, t)'
  <2> SUFFICES ASSUME NEW k \in Channel!Posts, post_created[k] # 0,
                      post_updated[k] \in mine.since .. t
               PROVE  IF k \in DOMAIN rest THEN rest[k] = post_updated[k]
                      ELSE post_stored'[k] = post_updated[k]
    BY <1>2, <1>15 DEF Swept
  <2>1. IF k \in DOMAIN todo THEN todo[k] = post_updated[k]
        ELSE post_stored[k] = post_updated[k]
    BY <1>4, <1>18 DEF Swept
  <2>2. CASE k = m
    BY <1>4, <1>7, <1>12, <1>13, <2>1, <2>2
  <2>3. CASE k # m
    BY <1>12, <1>13, <2>1, <2>3
  <2> QED  BY <2>2, <2>3
<1>19. SweepSound(new)'
  <2>1. Swept(s, old) /\ old <= post_now /\ \A k \in DOMAIN todo : Swept(s, todo[k])
    BY <1>4, <1>16 DEF SweepSound
  <2>2. Swept(s, top) /\ top <= post_now'
    BY <1>2, <1>4, <1>7, <1>9, <1>12, <1>14, <2>1
  <2>3. Swept(new, top)'
    BY <1>18, <2>2
  <2>4. ASSUME NEW k \in DOMAIN rest
        PROVE  Swept(new, rest[k])'
    <3>1. PICK t : t = rest[k]
      OBVIOUS
    <3>2. Swept(s, t)
      BY <1>13, <2>1, <3>1
    <3>3. Swept(new, t)'
      BY <1>18, <3>2
    <3> QED  BY <3>1, <3>3
  <2> QED  BY <1>15, <2>2, <2>3, <2>4 DEF SweepSound
<1>20. ChannelSound(mine)'
  BY <1>4, <1>12
<1>21. ChannelPass(new)'
  BY <1>15, <1>17, <1>19, <1>20 DEF ChannelPass
<1> QED  BY <1>2, <1>11, <1>12, <1>15, <1>21, ChannelMoves

\* The copy of the entry is written back, the live part and the sweep are over.
LEMMA ChannelPersists ==
  ASSUME ChannelInv, NEW mine \in PostEntries, ChannelSound(mine),
         post_pass.phase \in {"live", "sweep"}, Channel!Persist(mine)
  PROVE  ChannelInv'
<1>1. PICK s : s = post_pass
  OBVIOUS
<1>2. s \in PostPasses /\ s.days \in Spans
  BY <1>1, PassForms, PostNumbers DEF ChannelInv
<1>3. PICK new : new = [phase |-> "plan", days |-> s.days, mine |-> mine]
  OBVIOUS
<1>4. /\ UNCHANGED <<post_days, post_now, post_created, post_updated, post_stored,
                     post_skipped>>
      /\ post_entry' = mine
      /\ post_pass' = Channel!Idle \/ post_pass' = new
  BY <1>1, <1>3 DEF Channel!Persist, Channel!channel
<1>5. new \in PostPasses /\ new.phase = "plan" /\ new.mine = mine
  BY <1>2, <1>3 DEF PostPasses
<1>6. ChannelSound(mine)'
  BY <1>4 DEF ChannelSound, Scanned, InWindow
<1>7. ChannelPass(new)'
  BY <1>5, <1>6 DEF ChannelPass
<1>8. post_stored' \in [Channel!Posts -> Nat]
  BY <1>4 DEF ChannelInv, PostTimes
<1> QED  BY <1>4, <1>5, <1>6, <1>7, <1>8, ChannelMoves

LEMMA ChannelEndLive ==
  ASSUME ChannelInv, Channel!EndLive
  PROVE  ChannelInv'
<1>1. PICK s, mine, top : s = post_pass /\ mine = s.mine /\ top = s.top
  OBVIOUS
<1>2. s.phase \in {"live", "sweep"}
  BY <1>1 DEF Channel!EndLive
<1>3. /\ s \in PostPasses /\ ChannelPass(s) /\ mine \in PostEntries /\ ChannelSound(mine)
      /\ s.phase = "sweep" => top \in Nat
  <2>1. s \in PostPasses /\ ChannelPass(s)
    BY <1>1, <1>2, PostNumbers DEF ChannelInv
  <2> QED  BY <1>1, <2>1, PassForms DEF ChannelPass
<1>4. PICK moved : moved = [mine EXCEPT !.watermark = top]
  OBVIOUS
<1>5. \/ Channel!Persist(mine)
      \/ s.phase = "sweep" /\ Channel!Left = {} /\ Channel!Persist(moved)
  BY <1>1, <1>4 DEF Channel!EndLive
<1>6. CASE Channel!Persist(mine)
  BY <1>1, <1>2, <1>3, <1>6, ChannelPersists
<1>7. CASE s.phase = "sweep" /\ Channel!Left = {} /\ Channel!Persist(moved)
  <2>1. /\ moved \in PostEntries /\ moved.watermark = top /\ moved.anchor = mine.anchor
        /\ moved.first = mine.first /\ moved.since = mine.since
        /\ moved.covered = mine.covered /\ moved.upto = mine.upto
        /\ moved.active = mine.active /\ moved.oldest = mine.oldest
    BY <1>3, <1>4, <1>7 DEF PostEntries
  <2>2. SweepSound(s) /\ DOMAIN s.todo = {}
    BY <1>1, <1>3, <1>7 DEF ChannelPass, Channel!Left
  <2>3. top <= post_now /\ Swept(s, top)
    BY <1>1, <2>2 DEF SweepSound
  <2>4. ASSUME NEW m \in Channel!Posts, post_created[m] # 0,
               post_updated[m] \in moved.since .. moved.watermark
        PROVE  post_stored[m] = post_updated[m]
    BY <1>1, <2>1, <2>2, <2>3, <2>4 DEF Swept
  <2>5. \A m \in Channel!Posts : Scanned(moved, m) = Scanned(mine, m)
    BY <2>1 DEF Scanned
  <2>6. ChannelSound(moved)
    BY <1>3, <2>1, <2>3, <2>4, <2>5 DEF ChannelSound
  <2> QED  BY <1>1, <1>2, <1>7, <2>1, <2>6, ChannelPersists
<1> QED  BY <1>5, <1>6, <1>7

-----------------------------------------------------------------------------
(* The history part.                                                       *)

Windows == [from : Nat, to : Nat, before : Nat, days : Nat, oldest : 0 .. MaxPosts]

\* A window that an entry may scan next.
WindowSound(a) ==
  /\ a.to <= post_now /\ (a = Channel!NoActive \/ (0 < a.from /\ a.from < a.to))
  /\ a.oldest # 0 => post_created[a.oldest] # 0 /\ a.from <= post_created[a.oldest]
  /\ \A m \in Channel!Posts :
       post_created[m] # 0 /\ InWindow(m, a) /\ a.before # 0 /\ m >= a.before =>
         post_stored[m] # 0

LEMMA NewWindow ==
  ASSUME NEW e \in PostEntries, ChannelSound(e), NEW a \in Windows, WindowSound(a),
         NEW moved, moved = [e EXCEPT !.active = a]
  PROVE  /\ moved \in PostEntries /\ ChannelSound(moved)
         /\ moved.active = a /\ moved.covered = e.covered /\ moved.oldest = e.oldest
         /\ moved.upto = e.upto
<1>1. /\ moved \in PostEntries /\ moved.active = a /\ moved.covered = e.covered
      /\ moved.oldest = e.oldest /\ moved.upto = e.upto /\ moved.anchor = e.anchor
      /\ moved.watermark = e.watermark /\ moved.first = e.first /\ moved.since = e.since
  BY DEF PostEntries, Windows
<1>2. ASSUME NEW m \in Channel!Posts, post_created[m] # 0, Scanned(moved, m)
      PROVE  post_stored[m] # 0
  <2>1. \/ Scanned(e, m)
        \/ InWindow(m, a) /\ a.before # 0 /\ m >= a.before
    BY <1>1, <1>2 DEF Scanned
  <2> QED  BY <1>2, <2>1 DEF ChannelSound, WindowSound
<1> QED  BY <1>1, <1>2 DEF ChannelSound, WindowSound

LEMMA NoWindow == Channel!NoActive \in Windows /\ (PostTimes => WindowSound(Channel!NoActive))
<1>1. Channel!NoActive \in Windows
  BY PostNumbers DEF Windows, Channel!NoActive
<1>2. PostTimes => WindowSound(Channel!NoActive)
  BY DEF PostTimes, WindowSound, Channel!NoActive
<1> QED  BY <1>1, <1>2

LEMMA OwnWindow ==
  ASSUME NEW e \in PostEntries, ChannelSound(e)
  PROVE  e.active \in Windows /\ WindowSound(e.active)
<1>1. e.active \in Windows
  BY EntryForms DEF Windows
<1>2. WindowSound(e.active)
  BY DEF ChannelSound, WindowSound, Scanned
<1> QED  BY <1>1, <1>2

\* The window that is planned: none, the one under way, the first, or the one below.
LEMMA PlannedWindow ==
  ASSUME PostTimes, NEW e \in PostEntries, ChannelSound(e), NEW n \in Spans, NEW a,
         a = Channel!Plan(e, n)
  PROVE  a \in Windows /\ WindowSound(a)
<1>1. PICK from : from = post_now - n
  OBVIOUS
<1>2. /\ n \in Nat /\ post_now \in Nat /\ from \in Nat /\ 0 < from /\ from < post_now
  BY <1>1, PostNumbers DEF PostTimes
<1>3. /\ e.covered \in Nat /\ e.oldest \in 0 .. MaxPosts
      /\ e.covered <= post_now
  BY EntryForms DEF ChannelSound
<1>4. PICK w1, w2 :
        /\ w1 = [from |-> from, to |-> post_now, before |-> 0, days |-> n, oldest |-> 0]
        /\ w2 = [from |-> from, to |-> e.covered, before |-> e.oldest, days |-> n,
                 oldest |-> 0]
  OBVIOUS
<1>5. \/ a = e.active
      \/ a = w1
      \/ e.covered # 0 /\ from < e.covered /\ a = w2
      \/ a = Channel!NoActive
  BY <1>1, <1>4 DEF Channel!Plan, Channel!NoActive
<1>6. CASE a = e.active
  BY <1>6, OwnWindow
<1>7. CASE a = w1
  BY <1>2, <1>4, <1>7, PostNumbers DEF Windows, WindowSound
<1>8. CASE e.covered # 0 /\ from < e.covered /\ a = w2
  <2>1. /\ a \in Windows /\ a.from = from /\ a.to = e.covered /\ a.before = e.oldest
        /\ a.oldest = 0
    BY <1>2, <1>3, <1>4, <1>8, PostNumbers DEF Windows
  <2>2. ASSUME NEW m \in Channel!Posts, post_created[m] # 0, InWindow(m, a),
               e.oldest # 0, m >= e.oldest
        PROVE  FALSE
    <3>1. e.oldest \in Channel!Posts /\ m \in Nat /\ e.oldest \in Nat
      BY <1>3, <2>2, PostNumbers
    <3>2. post_created[m] \in Nat /\ post_created[e.oldest] \in Nat
      BY <3>1 DEF PostTimes
    <3>3. e.covered <= post_created[e.oldest]
      BY <2>2 DEF ChannelSound
    <3>4. e.oldest = m \/ post_created[e.oldest] < post_created[m]
      BY <2>2, <3>1 DEF PostTimes
    <3>5. post_created[m] < e.covered
      BY <1>2, <1>3, <2>1, <2>2, <3>2 DEF InWindow
    <3> QED  BY <1>3, <3>2, <3>3, <3>4, <3>5
  <2>3. WindowSound(a)
    BY <1>2, <1>3, <1>8, <2>1, <2>2 DEF WindowSound
  <2> QED  BY <2>1, <2>3
<1>9. CASE a = Channel!NoActive
  BY <1>9, NoWindow
<1> QED  BY <1>5, <1>6, <1>7, <1>8, <1>9

\* A page of history holds the newest posts below the last page.
LEMMA OldPage ==
  ASSUME PostTimes, NEW before \in Nat, NEW page,
         page = Channel!Largest({m \in Channel!Written : before = 0 \/ m < before}, Limit)
  PROVE  /\ page \in SUBSET Channel!Posts /\ \A m \in page : post_created[m] # 0
         /\ \A m \in Channel!Posts : post_created[m] # 0 =>
              \/ before # 0 /\ m >= before
              \/ m \in page
              \/ ~ (Cardinality(page) < Limit) /\ \A k \in page : m < k
<1>1. PICK S : S = {m \in Channel!Written : before = 0 \/ m < before}
  OBVIOUS
<1>2. S \in SUBSET Channel!Posts
  BY <1>1 DEF Channel!Written
<1>3. S \in SUBSET Int /\ IsFiniteSet(S) /\ Limit \in Nat \ {0}
  BY <1>2, PostNumbers, FS_Subset
<1>4. page = Largest(S, Limit)
  <2>1. Channel!Largest(S, Limit) = Largest(S, Limit)
    BY DEF Channel!Largest, Largest, Channel!Cardinality, Cardinality
  <2> QED  BY <1>1, <2>1
<1>5. page \subseteq S /\ \A x \in page, y \in S \ page : y < x
  BY <1>3, <1>4, LargestIsPage
<1>6. Cardinality(page) < Limit => page = S
  BY <1>3, <1>4, LargestIsFull
<1>7. ASSUME NEW m \in Channel!Posts, post_created[m] # 0
      PROVE  \/ before # 0 /\ m >= before
             \/ m \in page
             \/ ~ (Cardinality(page) < Limit) /\ \A k \in page : m < k
  <2>1. m \in S \/ (before # 0 /\ m >= before)
    BY <1>1, <1>7, PostNumbers DEF Channel!Written
  <2>2. ASSUME m \in S, m \notin page
        PROVE  ~ (Cardinality(page) < Limit) /\ \A k \in page : m < k
    BY <1>5, <1>6, <2>2
  <2> QED  BY <2>1, <2>2
<1> QED  BY <1>1, <1>2, <1>5, <1>7 DEF Channel!Written

LEMMA ChannelPlanHistory ==
  ASSUME ChannelInv, Channel!PlanHistory
  PROVE  ChannelInv'
<1>1. PICK s, old, n : s = post_pass /\ old = s.mine /\ n = s.days
  OBVIOUS
<1>2. /\ s.phase = "plan"
      /\ UNCHANGED <<post_days, post_now, post_created, post_updated, post_stored,
                     post_skipped>>
  BY <1>1 DEF Channel!PlanHistory, Channel!channel
<1>3. /\ s \in PostPasses /\ ChannelPass(s) /\ PostTimes
      /\ old \in PostEntries /\ ChannelSound(old) /\ n \in Spans
  <2>1. s \in PostPasses /\ ChannelPass(s) /\ PostTimes
    BY <1>1, <1>2, PostNumbers DEF ChannelInv
  <2> QED  BY <1>1, <1>2, <2>1, PassForms DEF ChannelPass
<1>4. PICK kept : kept = Channel!Reconciled(old, n)
  OBVIOUS
<1>5. kept \in PostEntries /\ ChannelSound(kept)
  <2>1. kept = old \/ kept = [old EXCEPT !.active = Channel!NoActive]
    BY <1>4 DEF Channel!Reconciled
  <2> QED  BY <1>3, <2>1, NoWindow, NewWindow
<1>6. PICK active : active = Channel!Plan(kept, n)
  OBVIOUS
<1>7. active \in Windows /\ WindowSound(active)
  BY <1>3, <1>5, <1>6, PlannedWindow
<1>8. PICK mine : mine = [kept EXCEPT !.active = active]
  OBVIOUS
<1>9. mine \in PostEntries /\ ChannelSound(mine) /\ mine.active = active
  BY <1>5, <1>7, <1>8, NewWindow
<1>10. PICK before : before = active.before
  OBVIOUS
<1>11. before \in Nat /\ active.from \in Nat /\ active.to \in Nat
  BY <1>7, <1>10 DEF Windows
<1>12. PICK page, window, todo :
         /\ page = Channel!Largest({m \in Channel!Written : before = 0 \/ m < before}, Limit)
         /\ window = {m \in page : post_created[m] \in active.from .. (active.to - 1)}
         /\ todo = Channel!Answer(window)
  OBVIOUS
<1>13. /\ page \in SUBSET Channel!Posts /\ \A m \in page : post_created[m] # 0
       /\ \A m \in Channel!Posts : post_created[m] # 0 =>
            \/ before # 0 /\ m >= before
            \/ m \in page
            \/ ~ (Cardinality(page) < Limit) /\ \A k \in page : m < k
  BY <1>3, <1>11, <1>12, OldPage
<1>14. window \in SUBSET Channel!Posts /\ window \subseteq page
  BY <1>12, <1>13
<1>15. /\ todo \in Lists /\ DOMAIN todo = window
       /\ \A m \in window : todo[m] = post_updated[m] /\ todo[m] <= post_now
  <2>1. \A m \in window : post_created[m] # 0
    BY <1>13, <1>14
  <2>2. PostTimes /\ window \in SUBSET Channel!Posts /\ todo = Channel!Answer(window)
    BY <1>3, <1>12, <1>14
  <2> QED  BY <2>1, <2>2, AnswerIsFresh
<1>16. PICK new : new = [phase |-> "old", mine |-> mine, page |-> page,
                         window |-> window, todo |-> todo]
  OBVIOUS
<1>17. /\ post_entry' = mine
       /\ post_pass' = IF active = Channel!NoActive THEN Channel!Idle ELSE new
  BY <1>1, <1>4, <1>6, <1>8, <1>10, <1>12, <1>16 DEF Channel!PlanHistory
<1>18. ChannelSound(mine)'
  BY <1>2, <1>9 DEF ChannelSound, Scanned, InWindow
<1>19. /\ new \in PostPasses /\ new.phase = "old" /\ new.mine = mine /\ new.page = page
       /\ new.window = window /\ new.todo = todo
  BY <1>9, <1>13, <1>14, <1>15, <1>16 DEF PostPasses
<1>20. Fresh(new)'
  BY <1>2, <1>13, <1>14, <1>15, <1>19 DEF Fresh
<1>21. active # Channel!NoActive => OldSound(new)'
  <2> SUFFICES ASSUME active # Channel!NoActive
               PROVE  OldSound(new)'
    OBVIOUS
  <2>1. ASSUME NEW m \in Channel!Posts, post_created[m] # 0, InWindow(m, active)
        PROVE  \/ post_stored[m] # 0 \/ m \in window
               \/ ~ (Cardinality(page) < Limit) /\ \A k \in page : m < k
    <3>1. CASE before # 0 /\ m >= before
      BY <1>7, <1>10, <2>1, <3>1 DEF WindowSound
    <3>2. CASE m \in page
      BY <1>12, <2>1, <3>2 DEF InWindow
    <3> QED  BY <1>13, <2>1, <3>1, <3>2
  <2>2. \A m \in window : active.from <= post_created[m]
    BY <1>3, <1>11, <1>12, <1>14 DEF PostTimes
  <2>3. \A m \in Channel!Posts : InWindow(m, active)' = InWindow(m, active)
    BY <1>2 DEF InWindow
  <2> QED  BY <1>2, <1>9, <1>13, <1>14, <1>15, <1>19, <2>1, <2>2, <2>3 DEF OldSound
<1>22. active # Channel!NoActive => ChannelPass(new)'
  BY <1>18, <1>19, <1>20, <1>21 DEF ChannelPass
<1>23. post_stored' \in [Channel!Posts -> Nat]
  BY <1>2, <1>3 DEF PostTimes
<1>24. post_entry' \in PostEntries /\ ChannelSound(post_entry)'
  BY <1>9, <1>17, <1>18
<1> QED  BY <1>2, <1>17, <1>19, <1>22, <1>23, <1>24, ChannelMoves

LEMMA ChannelSaveOld ==
  ASSUME ChannelInv, Channel!SaveOld
  PROVE  ChannelInv'
<1>1. PICK s : s = post_pass
  OBVIOUS
<1>2. /\ s.phase = "old" /\ Channel!Left # {}
      /\ UNCHANGED <<post_days, post_now, post_created, post_updated, post_entry,
                     post_skipped>>
  BY <1>1 DEF Channel!SaveOld, Channel!channel
<1>3. s \in PostPasses /\ ChannelPass(s) /\ PostTimes
  BY <1>1, <1>2, PostNumbers DEF ChannelInv
<1>4. PICK mine, todo, page, window :
        mine = s.mine /\ todo = s.todo /\ page = s.page /\ window = s.window
  OBVIOUS
<1>5. /\ mine \in PostEntries /\ todo \in Lists /\ page \subseteq Channel!Posts
      /\ window \subseteq Channel!Posts
  BY <1>2, <1>3, <1>4, PassForms
<1>6. PICK m : m = Channel!Min(DOMAIN todo)
  OBVIOUS
<1>7. m \in DOMAIN todo
  <2>1. DOMAIN todo \in SUBSET Channel!Posts /\ DOMAIN todo # {}
    BY <1>1, <1>2, <1>4, <1>5, ListFacts DEF Channel!Left
  <2> QED  BY <1>6, <2>1, LeastLeft
<1>8. PICK rest : rest = [k \in DOMAIN todo \ {m} |-> todo[k]]
  OBVIOUS
<1>9. PICK new : new = [phase |-> "old", mine |-> mine, page |-> page,
                        window |-> window, todo |-> rest]
  OBVIOUS
<1>10. /\ post_stored' = [post_stored EXCEPT ![m] = s.todo[m]]
       /\ post_pass' = new
  <2>1. /\ post_stored' = [post_stored EXCEPT ![m] = s.todo[m]]
        /\ post_pass' = [s EXCEPT !.todo = rest]
    BY <1>1, <1>4, <1>6, <1>8
    DEF Channel!SaveOld, Channel!Left, Channel!Store, Channel!Rest
  <2>2. s = [phase |-> "old", mine |-> mine, page |-> page, window |-> window,
             todo |-> todo]
    BY <1>2, <1>3, <1>4 DEF PostPasses
  <2>3. [s EXCEPT !.todo = rest] = new
    BY <1>9, <2>2
  <2> QED  BY <2>1, <2>3
<1>11. /\ m \in Channel!Posts /\ s.todo[m] \in Nat \ {0}
       /\ post_stored' \in [Channel!Posts -> Nat] /\ post_stored'[m] = s.todo[m]
       /\ \A k \in Channel!Posts : k # m => post_stored'[k] = post_stored[k]
       /\ \E w : w = post_entry.watermark /\ StoreKeeps(w)
       /\ ChannelSound(s.mine)'
  <2>1. m \in DOMAIN s.todo /\ s.phase # "plan"
    BY <1>2, <1>4, <1>7
  <2> QED  BY <1>2, <1>3, <1>10, <2>1, StorePost
<1>12. /\ rest \in Lists /\ DOMAIN rest = DOMAIN todo \ {m}
       /\ \A k \in DOMAIN rest : rest[k] = todo[k]
  BY <1>5, <1>7, <1>8, DropPost
<1>13. /\ new \in PostPasses /\ new.phase = "old" /\ new.todo = rest /\ new.mine = mine
       /\ new.page = page /\ new.window = window
  BY <1>5, <1>9, <1>12 DEF PostPasses
<1>14. OldSound(s) /\ Fresh(s)
  BY <1>2, <1>3 DEF ChannelPass
<1>15. Fresh(new)'
  BY <1>2, <1>4, <1>12, <1>13, <1>14 DEF Fresh
<1>16. OldSound(new)'
  <2>1. ASSUME NEW k \in Channel!Posts, post_created[k] # 0, InWindow(k, mine.active)
        PROVE  \/ post_stored'[k] # 0 \/ k \in DOMAIN rest
               \/ ~ (Cardinality(page) < Limit) /\ \A i \in page : k < i
    <3>1. \/ post_stored[k] # 0 \/ k \in DOMAIN todo
          \/ ~ (Cardinality(page) < Limit) /\ \A i \in page : k < i
      BY <1>4, <1>14, <2>1 DEF OldSound
    <3>2. post_stored[k] # 0 => post_stored'[k] # 0
      BY <1>11
    <3>3. k \in DOMAIN todo => post_stored'[k] # 0 \/ k \in DOMAIN rest
      BY <1>11, <1>12
    <3> QED  BY <3>1, <3>2, <3>3
  <2>2. \A k \in Channel!Posts : InWindow(k, mine.active)' = InWindow(k, mine.active)
    BY <1>2 DEF InWindow
  <2>3. DOMAIN rest \subseteq window
    BY <1>4, <1>12, <1>14 DEF OldSound
  <2> QED  BY <1>2, <1>4, <1>13, <1>14, <2>1, <2>2, <2>3 DEF OldSound
<1>17. ChannelSound(mine)'
  BY <1>4, <1>11
<1>18. ChannelPass(new)'
  BY <1>13, <1>15, <1>16, <1>17 DEF ChannelPass
<1> QED  BY <1>2, <1>10, <1>11, <1>13, <1>18, ChannelMoves

\* A window that was read to its end is covered.
LEMMA WindowCovered ==
  ASSUME PostTimes, NEW e \in PostEntries, ChannelSound(e), e.active # Channel!NoActive,
         \A m \in Channel!Posts :
           post_created[m] # 0 /\ InWindow(m, e.active) => post_stored[m] # 0,
         NEW done, done = Channel!Completed(e)
  PROVE  done \in PostEntries /\ ChannelSound(done)
<1>1. PICK a, none : a = e.active /\ none = Channel!NoActive
  OBVIOUS
<1>2. /\ a \in Windows /\ none \in Windows /\ WindowSound(a) /\ WindowSound(none)
      /\ a # none
  BY <1>1, OwnWindow, NoWindow
<1>3. /\ a.from \in Nat /\ a.to \in Nat /\ a.oldest \in 0 .. MaxPosts
      /\ 0 < a.from /\ a.from < a.to /\ a.to <= post_now
      /\ a.oldest # 0 => post_created[a.oldest] # 0 /\ a.from <= post_created[a.oldest]
  BY <1>1, <1>2 DEF Windows, WindowSound
<1>4. CASE e.covered \notin {0, a.to}
  <2>1. done = [e EXCEPT !.active = none]
    BY <1>1, <1>4 DEF Channel!Completed
  <2> QED  BY <1>2, <2>1, NewWindow
<1>5. CASE e.covered \in {0, a.to}
  <2>1. PICK oldest, upto :
          /\ oldest = IF a.oldest # 0 THEN a.oldest ELSE e.oldest
          /\ upto = IF e.covered = 0 THEN a.to ELSE e.upto
    OBVIOUS
  <2>2. done = [e EXCEPT !.active = none, !.covered = a.from, !.oldest = oldest,
                         !.upto = upto]
    BY <1>1, <1>5, <2>1 DEF Channel!Completed, PostEntries
  <2>3. /\ oldest \in 0 .. MaxPosts /\ upto \in Nat /\ e.upto \in Nat /\ e.upto <= post_now
        /\ post_now \in Nat /\ e.covered \in Nat /\ e.oldest \in 0 .. MaxPosts
    BY <1>3, <2>1, EntryForms DEF ChannelSound, PostTimes
  <2>4. /\ done \in PostEntries /\ done.active = none /\ done.covered = a.from
        /\ done.oldest = oldest /\ done.upto = upto /\ done.anchor = e.anchor
        /\ done.watermark = e.watermark /\ done.first = e.first /\ done.since = e.since
    BY <1>2, <1>3, <2>2, <2>3 DEF PostEntries, Windows
  <2>5. upto <= post_now /\ a.from <= post_now
    BY <1>3, <2>1, <2>3
  <2>6. oldest # 0 => post_created[oldest] # 0 /\ a.from <= post_created[oldest]
    <3>1. CASE a.oldest # 0
      BY <1>3, <2>1, <3>1
    <3>2. CASE a.oldest = 0 /\ oldest # 0
      <4>1. oldest = e.oldest /\ oldest \in Channel!Posts
        BY <2>1, <2>3, <3>2, PostNumbers
      <4>2. e.covered # 0 /\ post_created[oldest] # 0 /\ e.covered <= post_created[oldest]
        BY <3>2, <4>1 DEF ChannelSound
      <4>3. post_created[oldest] \in Nat /\ e.covered = a.to
        BY <1>5, <4>1, <4>2 DEF PostTimes
      <4> QED  BY <1>3, <4>2, <4>3
    <3> QED  BY <3>1, <3>2
  <2>7. ASSUME NEW m \in Channel!Posts, post_created[m] # 0, Scanned(done, m)
        PROVE  post_stored[m] # 0
    <3>1. post_created[m] \in Nat
      BY DEF PostTimes
    <3>2. none.before = 0
      BY <1>1 DEF Channel!NoActive
    <3>3. post_created[m] \in a.from .. (upto - 1)
      BY <2>4, <2>7, <3>2 DEF Scanned
    <3>4. CASE post_created[m] < a.to
      <4>1. InWindow(m, a)
        BY <1>3, <3>1, <3>3, <3>4 DEF InWindow
      <4> QED  BY <1>1, <2>7, <4>1
    <3>5. CASE ~ (post_created[m] < a.to)
      <4>1. e.covered # 0
        BY <1>3, <2>1, <2>3, <3>1, <3>3, <3>5
      <4>2. e.covered = a.to /\ upto = e.upto
        BY <1>5, <2>1, <4>1
      <4>3. post_created[m] \in e.covered .. (e.upto - 1)
        BY <1>3, <2>3, <3>1, <3>3, <3>5, <4>2
      <4>4. Scanned(e, m)
        BY <4>1, <4>3 DEF Scanned
      <4> QED  BY <2>7, <4>4 DEF ChannelSound
    <3> QED  BY <3>4, <3>5
  <2>8. /\ none.to <= post_now /\ none.oldest = 0
    BY <2>3, <1>1, PostNumbers DEF Channel!NoActive
  <2> QED  BY <1>1, <1>3, <2>4, <2>5, <2>6, <2>7, <2>8 DEF ChannelSound
<1> QED  BY <1>4, <1>5

LEMMA ChannelFinishOld ==
  ASSUME ChannelInv, Channel!FinishOld
  PROVE  ChannelInv'
<1>1. PICK s, old, page, window :
        s = post_pass /\ old = s.mine /\ page = s.page /\ window = s.window
  OBVIOUS
<1>2. /\ s.phase = "old" /\ DOMAIN s.todo = {} /\ post_pass' = Channel!Idle
      /\ UNCHANGED <<post_days, post_now, post_created, post_updated, post_stored,
                     post_skipped>>
  BY <1>1 DEF Channel!FinishOld, Channel!channel, Channel!Left
<1>3. /\ s \in PostPasses /\ PostTimes /\ old \in PostEntries /\ ChannelSound(old)
      /\ OldSound(s) /\ page \subseteq Channel!Posts /\ window \subseteq Channel!Posts
  <2>1. s \in PostPasses /\ ChannelPass(s) /\ PostTimes
    BY <1>1, <1>2, PostNumbers DEF ChannelInv
  <2> QED  BY <1>1, <1>2, <2>1, PassForms DEF ChannelPass
<1>4. PICK a, low : /\ a = old.active
                    /\ low = IF window = {} THEN a.oldest ELSE Channel!Min(window)
  OBVIOUS
<1>5. a \in Windows /\ WindowSound(a) /\ a # Channel!NoActive /\ 0 < a.from /\ a.from < a.to
  <2>1. a # Channel!NoActive
    BY <1>1, <1>3, <1>4 DEF OldSound
  <2> QED  BY <1>3, <1>4, <2>1, OwnWindow DEF WindowSound
<1>6. /\ low \in 0 .. MaxPosts
      /\ low # 0 => post_created[low] # 0 /\ a.from <= post_created[low]
  <2>1. CASE window = {}
    BY <1>4, <1>5, <2>1 DEF WindowSound, Windows
  <2>2. CASE window # {}
    <3>1. low \in window
      BY <1>3, <1>4, <2>2, LeastLeft
    <3>2. low \in Channel!Posts /\ low \in page
      BY <1>1, <1>3, <3>1 DEF OldSound
    <3>3. post_created[low] # 0 /\ a.from <= post_created[low]
      BY <1>1, <1>3, <1>4, <3>1, <3>2 DEF OldSound
    <3> QED  BY <3>2, <3>3, PostNumbers
  <2> QED  BY <2>1, <2>2
<1>7. PICK b, mine : b = [a EXCEPT !.oldest = low] /\ mine = [old EXCEPT !.active = b]
  OBVIOUS
<1>8. /\ b \in Windows /\ b.from = a.from /\ b.to = a.to /\ b.before = a.before
      /\ b.oldest = low
  BY <1>5, <1>6, <1>7 DEF Windows
<1>9. /\ WindowSound(b) /\ b # Channel!NoActive
      /\ \A m \in Channel!Posts : InWindow(m, b) = InWindow(m, a)
  <2>1. \A m \in Channel!Posts : InWindow(m, b) = InWindow(m, a)
    BY <1>8 DEF InWindow
  <2>2. b # Channel!NoActive
    BY <1>5, <1>8 DEF Channel!NoActive
  <2> QED  BY <1>5, <1>6, <1>8, <2>1, <2>2 DEF WindowSound
<1>10. mine \in PostEntries /\ ChannelSound(mine) /\ mine.active = b
  BY <1>3, <1>7, <1>8, <1>9, NewWindow
<1>11. post_entry' = IF Channel!Complete(page, mine.active.from) THEN Channel!Completed(mine)
                     ELSE [mine EXCEPT !.active.before = Channel!Min(page)]
  BY <1>1, <1>4, <1>7 DEF Channel!FinishOld
<1>12. ASSUME NEW m \in Channel!Posts, post_created[m] # 0, InWindow(m, b)
       PROVE  \/ post_stored[m] # 0
              \/ ~ (Cardinality(page) < Limit) /\ \A k \in page : m < k
  BY <1>1, <1>2, <1>3, <1>4, <1>9, <1>12 DEF OldSound
<1>13. post_entry' \in PostEntries /\ ChannelSound(post_entry')
  <2>1. CASE Channel!Complete(page, mine.active.from)
    <3>1. ASSUME NEW m \in Channel!Posts, post_created[m] # 0, InWindow(m, b)
          PROVE  post_stored[m] # 0
      <4>1. CASE Cardinality(page) < Limit
        BY <1>12, <3>1, <4>1
      <4>2. CASE ~ (Cardinality(page) < Limit)
        <5>1. PICK k \in page : post_created[k] < b.from
          BY <1>10, <2>1, <4>2 DEF Channel!Complete, Channel!Cardinality, Cardinality
        <5>2. k \in Channel!Posts /\ post_created[k] # 0
          BY <1>1, <1>3 DEF OldSound
        <5>3. ASSUME m < k
              PROVE  FALSE
          <6>1. post_created[m] < post_created[k]
            BY <1>3, <5>2, <5>3 DEF PostTimes
          <6>2. b.from <= post_created[m]
            BY <3>1 DEF InWindow
          <6>3. post_created[m] \in Nat /\ post_created[k] \in Nat /\ b.from \in Nat
            BY <1>3, <1>8, <5>2 DEF PostTimes, Windows
          <6> QED  BY <5>1, <6>1, <6>2, <6>3
        <5> QED  BY <1>12, <3>1, <5>3
      <4> QED  BY <4>1, <4>2
    <3>2. PICK done : done = Channel!Completed(mine)
      OBVIOUS
    <3>3. done \in PostEntries /\ ChannelSound(done)
      BY <1>3, <1>9, <1>10, <3>1, <3>2, WindowCovered
    <3> QED  BY <1>11, <2>1, <3>2, <3>3
  <2>2. CASE ~ Channel!Complete(page, mine.active.from)
    <3>1. ~ (Cardinality(page) < Limit)
      BY <2>2 DEF Channel!Complete, Channel!Cardinality, Cardinality
    <3>2. page # {}
      <4>1. Cardinality({}) = 0 /\ Limit \in Nat \ {0}
        BY FS_EmptySet, ChannelAssumption
      <4>2. Cardinality({}) < Limit
        BY <4>1
      <4> QED  BY <3>1, <4>2
    <3>3. PICK least : least = Channel!Min(page)
      OBVIOUS
    <3>4. least \in page /\ least \in Nat
      <4>1. least \in page
        BY <1>3, <3>2, <3>3, LeastLeft
      <4> QED  BY <1>3, <4>1, PostNumbers
    <3>5. PICK c : c = [b EXCEPT !.before = least]
      OBVIOUS
    <3>6. /\ c \in Windows /\ c.from = b.from /\ c.to = b.to /\ c.oldest = b.oldest
          /\ c.before = least
      BY <1>8, <3>4, <3>5 DEF Windows
    <3>7. ASSUME NEW m \in Channel!Posts, post_created[m] # 0, InWindow(m, c),
                 m >= least
          PROVE  post_stored[m] # 0
      <4>1. InWindow(m, b)
        BY <3>6, <3>7 DEF InWindow
      <4>2. ~ (m < least)
        BY <3>4, <3>7, PostNumbers
      <4> QED  BY <1>12, <3>4, <3>7, <4>1, <4>2
    <3>8. WindowSound(c)
      <4>1. c # Channel!NoActive /\ 0 < c.from /\ c.from < c.to
        BY <1>5, <1>8, <3>6 DEF Channel!NoActive
      <4> QED  BY <1>9, <3>6, <3>7, <4>1 DEF WindowSound
    <3>9. PICK moved : moved = [mine EXCEPT !.active = c]
      OBVIOUS
    <3>10. moved \in PostEntries /\ ChannelSound(moved)
      BY <1>10, <3>6, <3>8, <3>9, NewWindow
    <3>11. post_entry' = moved
      BY <1>10, <1>11, <2>2, <3>3, <3>5, <3>9
    <3> QED  BY <3>10, <3>11
  <2> QED  BY <2>1, <2>2
<1>14. ChannelSound(post_entry)'
  <2>1. PICK e : e = post_entry'
    OBVIOUS
  <2>2. ChannelSound(e)
    BY <1>13, <2>1
  <2>3. ChannelSound(e)'
    BY <1>2, <2>2 DEF ChannelSound, Scanned, InWindow
  <2> QED  BY <2>1, <2>3
<1>15. post_stored' \in [Channel!Posts -> Nat]
  BY <1>2, <1>3 DEF PostTimes
<1> QED  BY <1>2, <1>13, <1>14, <1>15, ChannelMoves

-----------------------------------------------------------------------------
(* The whole of the channel.                                               *)

LEMMA ChannelStarts ==
  ASSUME Channel!Init
  PROVE  ChannelInv
<1>1. PICK first : first = Channel!Max(Spans)
  OBVIOUS
<1>2. first \in Nat /\ \A n \in Spans : n <= first
  <2>1. Spans \in SUBSET Int /\ Spans # {} /\ IsFiniteSet(Spans)
    BY ChannelAssumption
  <2>2. Channel!Max(Spans) = Max(Spans)
    BY DEF Channel!Max, Max
  <2>3. first \in Spans /\ \A n \in Spans : first >= n
    BY <1>1, <2>1, <2>2, MaxIsGreatest
  <2> QED  BY <2>1, <2>3, ChannelAssumption
<1>3. /\ post_now = first + 1 /\ post_days \in Spans /\ post_skipped = {}
      /\ post_created = [m \in Channel!Posts |-> 0] /\ post_updated = post_created
      /\ post_stored = post_created /\ post_entry = Channel!NewEntry
      /\ post_pass = Channel!Idle
  BY <1>1 DEF Channel!Init, Channel!FirstDay
<1>4. post_now \in Nat /\ \A n \in Spans : n < post_now
  BY <1>2, <1>3, ChannelAssumption
<1>5. PostTimes
  BY <1>3, <1>4, PostNumbers DEF PostTimes
<1>6. PICK e : e = Channel!NewEntry
  OBVIOUS
<1>7. /\ e \in PostEntries /\ e.active = Channel!NoActive /\ e.covered = 0 /\ e.oldest = 0
      /\ e.first = 0 /\ e.anchor = 0 /\ e.watermark = 0 /\ e.upto = 0
  BY <1>6, PostNumbers DEF Channel!NewEntry, Channel!NoActive, PostEntries
<1>8. ChannelSound(e)
  BY <1>3, <1>4, <1>7, PostNumbers DEF ChannelSound, Channel!NoActive
<1> QED  BY <1>3, <1>5, <1>6, <1>7, <1>8 DEF ChannelInv

LEMMA ChannelStep ==
  ASSUME ChannelInv, Channel!Next \/ UNCHANGED postVars
  PROVE  ChannelInv'
BY ChannelTime, ChannelWrite, ChannelChange, ChannelFails, ChannelListLive,
   ChannelSaveLive, ChannelListSweep, ChannelSaveSweep, ChannelEndLive,
   ChannelPlanHistory, ChannelSaveOld, ChannelFinishOld DEF Channel!Next

\* What the entry says is what was promised of it.
LEMMA ChannelPromise ==
  ChannelInv => /\ Channel!ScannedIsStored /\ Channel!AnchorIsReached
                /\ Channel!SweptIsCurrent
<1> SUFFICES ASSUME ChannelInv
             PROVE  /\ Channel!ScannedIsStored /\ Channel!AnchorIsReached
                    /\ Channel!SweptIsCurrent
  OBVIOUS
<1>1. PICK e : e = post_entry
  OBVIOUS
<1>2. ChannelSound(e) /\ Channel!Written = {m \in Channel!Posts : post_created[m] # 0}
  BY <1>1 DEF ChannelInv, Channel!Written
<1>3. Channel!ScannedIsStored
  BY <1>1, <1>2 DEF Channel!ScannedIsStored, ChannelSound, Scanned, InWindow
<1>4. Channel!AnchorIsReached
  BY <1>1, <1>2 DEF Channel!AnchorIsReached, ChannelSound
<1>5. Channel!SweptIsCurrent
  BY <1>1, <1>2 DEF Channel!SweptIsCurrent, ChannelSound
<1> QED  BY <1>3, <1>4, <1>5

-----------------------------------------------------------------------------
(* The numbers of a Teams chat stay within their bounds.                   *)

\* No message is changed too often, no object is ahead of its message, and whatever was
\* notified is a revision.
TeamsBounds ==
  /\ teams_rev \in [Teams!Numbers -> {0} \union Teams!Revs]
  /\ \A m \in Teams!Numbers : teams_obj[m] <= teams_rev[m]
  /\ teams_sub \in [id : 0 .. MaxSub, live : BOOLEAN] /\ (teams_sub.live => teams_sub.id # 0)
  /\ teams_jobs \subseteq Teams!Events
  /\ teams_missed \subseteq Teams!Numbers \X Teams!Revs
  /\ teams_rewound \subseteq Teams!Numbers

\* The changes of all messages, as Edit counts them.
TeamsEdits == Teams!MapThenSumSet(LAMBDA k : teams_rev[k] - 1, Teams!Written)

\* A message has been changed as often as all of them at most.
LEMMA TeamsChanges ==
  ASSUME TeamsInv, NEW m \in Teams!Written, TeamsEdits < MaxEdits
  PROVE  teams_rev[m] - 1 < MaxEdits
<1>1. PICK S : S = Teams!Written
  OBVIOUS
<1>2. IsFiniteSet(S) /\ m \in S /\ \A k \in S : teams_rev[k] \in Nat \ {0}
  <2>1. IsFiniteSet(1 .. MaxItems)
    <3>1. \A a, b \in Int : IsFiniteSet(a .. b)
      BY FS_Interval
    <3> QED  BY <3>1, TeamsNumbers
  <2>2. S \subseteq 1 .. MaxItems
    BY <1>1, TeamsNumbers DEF Teams!Written
  <2>3. IsFiniteSet(S)
    BY <2>1, <2>2, FS_Subset
  <2>4. \A k \in S : teams_rev[k] \in Nat \ {0}
    BY <1>1 DEF TeamsInv, TeamsTypes, Teams!Written
  <2> QED  BY <1>1, <2>3, <2>4
<1> DEFINE Edits(k) == teams_rev[k] - 1
<1>3. PICK f : f = [k \in S |-> Edits(k)]
  OBVIOUS
<1>4. f \in [S -> Nat] /\ f[m] = Edits(m)
  <2>1. \A k \in S : Edits(k) \in Nat
    BY <1>2
  <2> HIDE DEF Edits
  <2> QED  BY <1>2, <1>3, <2>1
<1> DEFINE Is(it) == it = [s \in SUBSET S |->
                 IF s = {} THEN 0
                 ELSE f[CHOOSE x \in s : TRUE] + it[s \ {CHOOSE x \in s : TRUE}]]
           Was(it) == it = [s \in SUBSET S |->
                 IF s = {} THEN 0
                 ELSE Edits(CHOOSE x \in s : TRUE)
                      + it[s \ {CHOOSE x \in s : TRUE}]]
<1>5. \A it : Is(it) <=> Was(it)
  <2>1. ASSUME NEW s \in SUBSET S, s # {}
        PROVE  f[CHOOSE x \in s : TRUE] = Edits(CHOOSE x \in s : TRUE)
    <3>1. (CHOOSE x \in s : TRUE) \in S
      BY <2>1
    <3> HIDE DEF Edits
    <3> QED  BY <1>3, <3>1
  <2>2. ASSUME NEW it
        PROVE  Is(it) <=> Was(it)
    <3>1. [s \in SUBSET S |->
                 IF s = {} THEN 0
                 ELSE f[CHOOSE x \in s : TRUE] + it[s \ {CHOOSE x \in s : TRUE}]]
          = [s \in SUBSET S |->
                 IF s = {} THEN 0
                 ELSE Edits(CHOOSE x \in s : TRUE)
                      + it[s \ {CHOOSE x \in s : TRUE}]]
      <4> HIDE DEF Edits
      <4> QED  BY <2>1
    <3> QED  BY <3>1
  <2> QED  BY <2>2
<1>6. TeamsEdits = (CHOOSE it : Was(it))[S]
  BY <1>1 DEF TeamsEdits, Teams!MapThenSumSet, Teams!MapThenFoldSet
<1>7. PICK g0 : IsSum(g0, f, S)
  BY <1>2, <1>4, SumExists
<1>8. Was(g0)
  <2>1. Is(g0)
    BY <1>7 DEF IsSum, AnyOf
  <2> HIDE DEF Is, Was
  <2> QED  BY <1>5, <2>1
<1>9. PICK g : g = (CHOOSE it : Was(it))
  OBVIOUS
<1>10. Is(g)
  <2> HIDE DEF Is, Was
  <2> QED  BY <1>5, <1>8, <1>9
<1>11. IsSum(g, f, S)
  <2>1. g = [T \in SUBSET S |-> IF T = {} THEN 0 ELSE f[AnyOf(T)] + g[T \ {AnyOf(T)}]]
    BY <1>10 DEF AnyOf
  <2> QED  BY <1>2, <1>4, <2>1, SumIsThat
<1>12. TeamsEdits = g[S]
  <2> HIDE DEF Was
  <2> QED  BY <1>6, <1>9
<1>13. g[S] \in Nat /\ f[m] <= g[S]
  BY <1>2, <1>4, <1>11, SummandIsLess
<1>14. MaxEdits \in Nat
  BY TeamsAssumption
<1>15. f[m] \in Nat /\ f[m] = teams_rev[m] - 1
  BY <1>2, <1>4
<1> QED  BY <1>12, <1>13, <1>14, <1>15

LEMMA BoundsSay ==
  ASSUME TeamsInv, TeamsBounds, Teams!Say
  PROVE  TeamsBounds'
<1>1. PICK m \in Teams!Numbers :
        /\ teams_rev[m] = 0 \/ TeamsEdits < MaxEdits
        /\ teams_rev' = [teams_rev EXCEPT ![m] = @ + 1]
        /\ Teams!Notified(m)
        /\ UNCHANGED <<teams_obj, teams_sub, teams_rewound>>
  BY DEF Teams!Say, TeamsEdits
<1>2. /\ teams_rev \in [Teams!Numbers -> {0} \union Teams!Revs] /\ MaxEdits \in Nat
      /\ Teams!Revs = 1 .. (MaxEdits + 1) /\ teams_obj \in [Teams!Numbers -> Nat]
  BY TeamsAssumption DEF TeamsBounds, Teams!Revs, TeamsInv, TeamsTypes
<1>3. teams_rev[m] + 1 \in Teams!Revs
  <2>1. CASE teams_rev[m] = 0
    BY <1>2, <2>1
  <2>2. CASE teams_rev[m] # 0
    <3>1. m \in Teams!Written
      BY <2>2 DEF Teams!Written
    <3>2. teams_rev[m] - 1 < MaxEdits
      BY <1>1, <2>2, <3>1, TeamsChanges
    <3>3. teams_rev[m] \in Teams!Revs
      BY <1>2, <2>2
    <3> QED  BY <1>2, <3>2, <3>3
  <2> QED  BY <2>1, <2>2
<1>4. /\ teams_rev' \in [Teams!Numbers -> {0} \union Teams!Revs]
      /\ teams_rev'[m] \in Teams!Revs
      /\ \A k \in Teams!Numbers : teams_obj[k] <= teams_rev'[k]
  <2>1. /\ teams_rev' \in [Teams!Numbers -> {0} \union Teams!Revs]
        /\ teams_rev'[m] \in Teams!Revs
    BY <1>1, <1>2, <1>3
  <2>2. ASSUME NEW k \in Teams!Numbers
        PROVE  teams_obj[k] <= teams_rev'[k]
    <3>1. /\ teams_rev[k] \in Nat /\ teams_obj[k] \in Nat /\ teams_obj[k] <= teams_rev[k]
      BY <1>2 DEF TeamsBounds
    <3>2. teams_rev'[k] = IF k = m THEN teams_rev[k] + 1 ELSE teams_rev[k]
      BY <1>1, <1>2
    <3> QED  BY <3>1, <3>2
  <2> QED  BY <2>1, <2>2
<1>5. teams_jobs' \subseteq Teams!Events /\ teams_missed' \subseteq Teams!Numbers \X Teams!Revs
  <2>1. CASE teams_sub.live
    <3>1. teams_sub.id \in 1 .. MaxSub
      BY <2>1, TeamsAssumption DEF TeamsBounds
    <3>2. [message |-> m, rev |-> teams_rev'[m], sub |-> teams_sub.id] \in Teams!Events
      BY <1>4, <3>1 DEF Teams!Events
    <3> QED  BY <1>1, <2>1, <3>2 DEF Teams!Notified, TeamsBounds
  <2>2. CASE ~ teams_sub.live
    <3>1. <<m, teams_rev'[m]>> \in Teams!Numbers \X Teams!Revs
      BY <1>4
    <3> QED  BY <1>1, <2>2, <3>1 DEF Teams!Notified, TeamsBounds
  <2> QED  BY <2>1, <2>2
<1> QED  BY <1>1, <1>4, <1>5 DEF TeamsBounds

LEMMA BoundsEndSync ==
  ASSUME TeamsInv, TeamsFresh, TeamsBounds, Teams!EndSync
  PROVE  TeamsBounds'
<1>1. PICK s, wrote : s = teams_sync /\ wrote = s.wrote
  OBVIOUS
<1>2. /\ s \in TeamsPasses /\ PassFresh(s)
      /\ teams_obj' = [m \in Teams!Numbers |-> IF m \in DOMAIN wrote THEN wrote[m]
                                               ELSE teams_obj[m]]
      /\ teams_rewound' = teams_rewound \union {m \in DOMAIN wrote : wrote[m] < teams_obj[m]}
      /\ UNCHANGED <<teams_rev, teams_sub, teams_jobs, teams_missed>>
  BY <1>1, TeamsNumbers
  DEF Teams!EndSync, Teams!Commit, Teams!chat, TeamsInv, TeamsTypes, TeamsFresh
<1>3. wrote \in Revisions /\ DOMAIN wrote \subseteq Teams!Numbers
  BY <1>1, <1>2, RevisionFacts DEF TeamsPasses
<1>4. \A m \in Teams!Numbers : teams_obj'[m] <= teams_rev[m]
  BY <1>1, <1>2 DEF PassFresh, TeamsBounds
<1> QED  BY <1>2, <1>3, <1>4 DEF TeamsBounds

LEMMA BoundsEndNotice ==
  ASSUME TeamsInv, TeamsFresh, TeamsBounds, Teams!EndNotice
  PROVE  TeamsBounds'
<1>1. PICK n, m : n = teams_notice /\ m = n.job.message
  OBVIOUS
<1>2. /\ n \in TeamsNotices /\ NoticeFresh(n) /\ n.phase \in {"fetched", "locked"}
      /\ teams_obj' = [teams_obj EXCEPT ![m] = n.rev]
      /\ teams_jobs' \subseteq teams_jobs
      /\ UNCHANGED <<teams_rev, teams_sub, teams_missed, teams_rewound>>
  BY <1>1, TeamsNumbers
  DEF Teams!EndNotice, Teams!Message, TeamsInv, TeamsTypes, TeamsFresh
<1>3. m \in Teams!Numbers /\ n.rev <= teams_rev[m]
  BY <1>1, <1>2 DEF TeamsNotices, TeamsEvents, NoticeFresh
<1>4. teams_obj \in [Teams!Numbers -> Nat]
  BY DEF TeamsInv, TeamsTypes
<1>5. \A k \in Teams!Numbers : teams_obj'[k] <= teams_rev[k]
  BY <1>2, <1>3, <1>4 DEF TeamsBounds
<1> QED  BY <1>2, <1>5 DEF TeamsBounds

LEMMA BoundsDrop ==
  ASSUME TeamsBounds, NEW j, j.message \in Teams!Numbers, j.rev \in Teams!Revs,
         Teams!Drop(j) \/ UNCHANGED <<teams_jobs, teams_missed>>,
         UNCHANGED <<teams_rev, teams_obj, teams_sub, teams_rewound>>
  PROVE  TeamsBounds'
<1>1. /\ teams_jobs' \subseteq teams_jobs
      /\ teams_missed' \subseteq teams_missed \union {<<j.message, j.rev>>}
  BY DEF Teams!Drop
<1>2. <<j.message, j.rev>> \in Teams!Numbers \X Teams!Revs
  OBVIOUS
<1> QED  BY <1>1, <1>2 DEF TeamsBounds

LEMMA BoundsStep ==
  ASSUME TeamsInv, TeamsFresh, TeamsBounds, Teams!Next \/ UNCHANGED teamsVars
  PROVE  TeamsBounds'
<1>1. CASE Teams!SubscriptionEnds
  BY <1>1 DEF Teams!SubscriptionEnds, TeamsBounds
<1>2. CASE Teams!BeginSync
  <2>1. PICK i : i = teams_sub.id
    OBVIOUS
  <2>2. i \in 0 .. MaxSub /\ MaxSub \in Nat
    BY <2>1, TeamsAssumption DEF TeamsBounds
  <2>3. CASE i < MaxSub /\ teams_sub' = [id |-> i + 1, live |-> TRUE]
    BY <1>2, <2>2, <2>3 DEF Teams!BeginSync, TeamsBounds
  <2>4. CASE teams_sub' = teams_sub
    BY <1>2, <2>4 DEF Teams!BeginSync, TeamsBounds
  <2> QED  BY <1>2, <2>1, <2>3, <2>4 DEF Teams!BeginSync, Teams!Ensured
<1>3. CASE \/ Teams!ListPage \/ Teams!StorePage \/ Teams!AbortSync \/ Teams!FetchMessage
           \/ Teams!WaitLocked \/ UNCHANGED teamsVars
  BY <1>3 DEF Teams!ListPage, Teams!StorePage, Teams!AbortSync, Teams!FetchMessage,
     Teams!WaitLocked, teamsVars, Teams!chat, TeamsBounds
<1>4. CASE Teams!BeginNotice
  <2>1. PICK j \in teams_jobs : Teams!Drop(j) \/ UNCHANGED <<teams_jobs, teams_missed>>
    BY <1>4 DEF Teams!BeginNotice
  <2>2. j.message \in Teams!Numbers /\ j.rev \in Teams!Revs
    BY DEF TeamsBounds, Teams!Events
  <2>3. UNCHANGED <<teams_rev, teams_obj, teams_sub, teams_rewound>>
    BY <1>4 DEF Teams!BeginNotice
  <2> QED  BY <2>1, <2>2, <2>3, BoundsDrop
<1>5. CASE Teams!AbortNotice
  <2>1. PICK n, j : n = teams_notice /\ j = n.job
    OBVIOUS
  <2>2. /\ n \in TeamsNotices /\ NoticeFresh(n)
        /\ UNCHANGED <<teams_rev, teams_obj, teams_sub, teams_rewound>>
        /\ Teams!Drop(j) \/ UNCHANGED <<teams_jobs, teams_missed>>
    BY <1>5, <2>1, TeamsNumbers DEF Teams!AbortNotice, TeamsInv, TeamsTypes, TeamsFresh
  <2>3. j.message \in Teams!Numbers /\ j.rev \in Nat \ {0} /\ j.rev <= teams_rev[j.message]
    BY <2>1, <2>2 DEF TeamsNotices, TeamsEvents, NoticeFresh
  <2>4. j.rev \in Teams!Revs
    BY <2>3, TeamsAssumption DEF TeamsBounds, Teams!Revs
  <2> QED  BY <2>2, <2>3, <2>4, BoundsDrop
<1> QED  BY <1>1, <1>2, <1>3, <1>4, <1>5, BoundsSay, BoundsEndSync, BoundsEndNotice
         DEF Teams!Next

LEMMA BoundsStart ==
  ASSUME Teams!Init
  PROVE  TeamsBounds
BY TeamsAssumption, TeamsNumbers DEF Teams!Init, TeamsBounds

\* The types of a Teams chat follow.
LEMMA TeamsTyped ==
  TeamsInv /\ TeamsBounds => Teams!TypeOK
<1> SUFFICES ASSUME TeamsInv, TeamsBounds
             PROVE  Teams!TypeOK
  OBVIOUS
<1>1. teams_sync.phase \in {"idle", "listing", "page", "end"}
  BY TeamsNumbers DEF TeamsInv, TeamsTypes, TeamsPasses
<1>2. teams_notice.phase \in {"idle", "begun", "fetched", "locked"}
  BY TeamsNumbers DEF TeamsInv, TeamsTypes, TeamsNotices
<1>3. \A m \in Teams!Numbers : teams_obj[m] \in 0 .. teams_rev[m]
  <2>1. \A m \in Teams!Numbers : teams_obj[m] \in Nat /\ teams_rev[m] \in Nat
    BY DEF TeamsInv, TeamsTypes
  <2> QED  BY <2>1 DEF TeamsBounds
<1>4. teams_state \in Teams!Entries /\ (teams_state.mark # 0 => teams_state.known)
  BY DEF TeamsInv, TeamsTypes, EntrySound
<1> QED  BY <1>1, <1>2, <1>3, <1>4 DEF TeamsBounds, Teams!TypeOK

-----------------------------------------------------------------------------
(* The times of a Mattermost channel stay within their bounds.             *)

\* A post in hand is a revision of it.
TodoTrue(s) ==
  s.phase # "plan" =>
    \A m \in DOMAIN s.todo : post_created[m] <= s.todo[m] /\ s.todo[m] <= post_updated[m]

\* What is stored of a post, and what a pass has in hand, is a revision between its
\* writing and its last change.
PostBounds ==
  /\ post_now <= Channel!FirstDay + LastDay
  /\ post_skipped \subseteq Channel!Posts
  /\ \A m \in Channel!Posts :
       \/ post_stored[m] = 0
       \/ post_created[m] <= post_stored[m] /\ post_stored[m] <= post_updated[m]
  /\ post_pass # Channel!Idle => TodoTrue(post_pass)

LEMMA FirstDayIsDay == Channel!FirstDay \in Nat \ {0} /\ LastDay \in Nat
<1>1. Spans \in SUBSET Int /\ Spans # {} /\ IsFiniteSet(Spans)
  BY ChannelAssumption
<1>2. Channel!Max(Spans) = Max(Spans)
  BY DEF Channel!Max, Max
<1>3. Channel!Max(Spans) \in Spans
  BY <1>1, <1>2, MaxIsGreatest
<1>4. PICK first : first = Channel!Max(Spans)
  OBVIOUS
<1>5. first \in Nat /\ LastDay \in Nat
  BY <1>3, <1>4, ChannelAssumption
<1> QED  BY <1>4, <1>5 DEF Channel!FirstDay

LEMMA PostTypes ==
  ASSUME ChannelInv
  PROVE  /\ post_now \in Nat
         /\ \A m \in Channel!Posts :
              /\ post_created[m] \in Nat /\ post_updated[m] \in Nat /\ post_stored[m] \in Nat
              /\ post_created[m] <= post_updated[m] /\ post_updated[m] <= post_now
              /\ post_created[m] = 0 => post_updated[m] = 0
BY DEF ChannelInv, PostTimes

\* Posts in hand were written.
LEMMA TodoWritten ==
  ASSUME ChannelInv, NEW s, s = post_pass, s # Channel!Idle, s.phase # "plan"
  PROVE  /\ s \in PostPasses /\ s.todo \in Lists
         /\ \A m \in DOMAIN s.todo :
              m \in Channel!Posts /\ post_created[m] # 0 /\ s.todo[m] \in Nat
<1>1. s \in PostPasses /\ ChannelPass(s)
  BY DEF ChannelInv
<1>2. s.todo \in Lists
  BY <1>1, PassForms
<1> QED  BY <1>1, <1>2, ListFacts DEF ChannelPass, Fresh

\* Time passes, posts are written and changed.
LEMMA PostBoundsTime ==
  ASSUME ChannelInv, PostBounds, ChannelInv',
         \/ Channel!Tick \/ Channel!SetHistoryDays \/ Channel!Write \/ Channel!Change
         \/ Channel!Failed \/ UNCHANGED postVars
  PROVE  PostBounds'
<1>1. /\ post_now <= post_now' /\ post_now' <= Channel!FirstDay + LastDay
      /\ \A m \in Channel!Posts :
           /\ post_created[m] # 0 =>
                post_created'[m] = post_created[m] /\ post_updated[m] <= post_updated'[m]
           /\ post_created[m] = 0 => post_updated[m] = 0
      /\ UNCHANGED <<post_stored, post_skipped>>
      /\ post_pass' \in {post_pass, Channel!Idle}
  <2> USE FirstDayIsDay
  <2>1. CASE Channel!Write
    <3>1. PICK m \in Channel!Posts :
            /\ post_created[m] = 0 /\ post_now < Channel!FirstDay + LastDay
            /\ post_now' = post_now + 1
            /\ post_created' = [post_created EXCEPT ![m] = post_now']
            /\ post_updated' = [post_updated EXCEPT ![m] = post_now']
            /\ UNCHANGED <<post_stored, post_skipped, post_pass>>
      BY <2>1 DEF Channel!Write, Channel!Written
    <3>2. \A k \in Channel!Posts : k # m =>
            post_created'[k] = post_created[k] /\ post_updated'[k] = post_updated[k]
      BY <3>1 DEF ChannelInv, PostTimes
    <3>3. post_now <= post_now' /\ post_now' <= Channel!FirstDay + LastDay
      BY <3>1, PostTypes
    <3>4. \A k \in Channel!Posts : post_updated[k] <= post_updated[k]
      BY PostTypes
    <3> QED  BY <3>1, <3>2, <3>3, <3>4, PostTypes
  <2>2. CASE Channel!Change
    <3>1. PICK m \in Channel!Posts :
            /\ post_now < Channel!FirstDay + LastDay /\ post_now' = post_now + 1
            /\ post_updated' = [post_updated EXCEPT ![m] = post_now']
            /\ UNCHANGED <<post_created, post_stored, post_skipped, post_pass>>
      BY <2>2 DEF Channel!Change, Channel!Written
    <3>2. ASSUME NEW k \in Channel!Posts
          PROVE  post_updated[k] <= post_updated'[k]
      <4>1. post_updated'[k] = IF k = m THEN post_now' ELSE post_updated[k]
        BY <3>1 DEF ChannelInv, PostTimes
      <4> QED  BY <3>1, <4>1, PostTypes
    <3>3. post_now <= post_now' /\ post_now' <= Channel!FirstDay + LastDay
      BY <3>1, PostTypes
    <3> QED  BY <3>1, <3>2, <3>3, PostTypes
  <2>3. CASE \/ Channel!Tick \/ Channel!SetHistoryDays \/ Channel!Failed
             \/ UNCHANGED postVars
    <3>1. /\ \/ post_now' = post_now
             \/ post_now < Channel!FirstDay + LastDay /\ post_now' = post_now + 1
          /\ UNCHANGED <<post_created, post_updated, post_stored, post_skipped>>
          /\ post_pass' \in {post_pass, Channel!Idle}
      BY <2>3 DEF Channel!Tick, Channel!SetHistoryDays, Channel!Failed, Channel!channel,
                  postVars
    <3>2. post_now <= post_now' /\ post_now' <= Channel!FirstDay + LastDay
      BY <3>1, PostTypes DEF PostBounds
    <3> QED  BY <3>1, <3>2, PostTypes
  <2> QED  BY <2>1, <2>2, <2>3
<1>2. \A m \in Channel!Posts :
        /\ post_created'[m] \in Nat /\ post_updated'[m] \in Nat /\ post_stored'[m] \in Nat
  BY DEF ChannelInv, PostTimes
<1>3. ASSUME NEW m \in Channel!Posts, post_stored'[m] # 0
      PROVE  post_created'[m] <= post_stored'[m] /\ post_stored'[m] <= post_updated'[m]
  <2>1. /\ post_stored[m] # 0 /\ post_stored'[m] = post_stored[m]
        /\ post_created[m] <= post_stored[m] /\ post_stored[m] <= post_updated[m]
    BY <1>1, <1>3 DEF PostBounds
  <2>2. post_created[m] # 0
    BY <1>1, <2>1, PostTypes
  <2> QED  BY <1>1, <1>2, <2>1, <2>2, PostTypes
<1>4. ASSUME post_pass' # Channel!Idle
      PROVE  TodoTrue(post_pass)'
  <2>1. PICK s : s = post_pass
    OBVIOUS
  <2>2. s = post_pass' /\ s # Channel!Idle
    BY <1>1, <1>4, <2>1
  <2>3. ASSUME NEW m \in DOMAIN s.todo, s.phase # "plan"
        PROVE  post_created'[m] <= s.todo[m] /\ s.todo[m] <= post_updated'[m]
    <3>1. m \in Channel!Posts /\ post_created[m] # 0 /\ s.todo[m] \in Nat
      BY <2>1, <2>2, <2>3, TodoWritten
    <3>2. post_created[m] <= s.todo[m] /\ s.todo[m] <= post_updated[m]
      BY <2>1, <2>2, <2>3 DEF PostBounds, TodoTrue
    <3> QED  BY <1>1, <1>2, <3>1, <3>2, PostTypes
  <2> QED  BY <2>2, <2>3 DEF TodoTrue
<1> QED  BY <1>1, <1>3, <1>4 DEF PostBounds

\* The steps of a pass.
LEMMA PostBoundsMove ==
  ASSUME ChannelInv, PostBounds, UNCHANGED <<post_now, post_created, post_updated>>,
         post_skipped' \subseteq Channel!Posts,
         \/ post_stored' = post_stored
         \/ \E m \in Channel!Posts, v \in Nat :
              /\ post_stored' = [post_stored EXCEPT ![m] = v]
              /\ post_created[m] <= v /\ v <= post_updated[m],
         post_pass' = Channel!Idle \/ TodoTrue(post_pass')
  PROVE  PostBounds'
<1>1. \A m \in Channel!Posts :
        \/ post_stored'[m] = 0
        \/ post_created[m] <= post_stored'[m] /\ post_stored'[m] <= post_updated[m]
  <2>1. CASE post_stored' = post_stored
    BY <2>1 DEF PostBounds
  <2>2. CASE \E m \in Channel!Posts, v \in Nat :
              /\ post_stored' = [post_stored EXCEPT ![m] = v]
              /\ post_created[m] <= v /\ v <= post_updated[m]
    <3>1. PICK m \in Channel!Posts, v \in Nat :
              /\ post_stored' = [post_stored EXCEPT ![m] = v]
              /\ post_created[m] <= v /\ v <= post_updated[m]
      BY <2>2
    <3>2. post_stored \in [Channel!Posts -> Nat]
      BY DEF ChannelInv, PostTimes
    <3> QED  BY <3>1, <3>2 DEF PostBounds
  <2> QED  BY <2>1, <2>2
<1>2. PICK s : s = post_pass'
  OBVIOUS
<1>3. s # Channel!Idle => TodoTrue(s)'
  <2>1. TodoTrue(s)' = TodoTrue(s)
    BY DEF TodoTrue
  <2> QED  BY <1>2, <2>1
<1> QED  BY <1>1, <1>2, <1>3 DEF PostBounds

\* What a page answers with is as it is.
LEMMA AnswerIsTrue ==
  ASSUME ChannelInv, NEW page \in SUBSET Channel!Posts, NEW s, s.todo = Channel!Answer(page)
  PROVE  TodoTrue(s)
<1>1. DOMAIN s.todo = page /\ \A m \in page : s.todo[m] = post_updated[m]
  BY DEF Channel!Answer
<1>2. \A m \in page : post_created[m] <= post_updated[m] /\ post_updated[m] <= post_updated[m]
  BY PostTypes
<1> QED  BY <1>1, <1>2 DEF TodoTrue

LEMMA PostBoundsLists ==
  ASSUME ChannelInv, PostBounds,
         \/ Channel!ListLive \/ Channel!ListSweep \/ Channel!EndLive
         \/ Channel!PlanHistory \/ Channel!FinishOld
  PROVE  PostBounds'
<1>1. Channel!Written \subseteq Channel!Posts /\ post_skipped \subseteq Channel!Posts
  BY DEF Channel!Written, PostBounds
<1>2. CASE Channel!ListLive
  <2>1. PICK page, recent :
          /\ page = (IF post_entry.anchor = 0 THEN Channel!Largest(Channel!Written, Limit)
                     ELSE Channel!Smallest({m \in Channel!Written : m > post_entry.anchor},
                                           Limit))
          /\ recent = {m \in page : post_created[m] >= post_now - post_days}
    OBVIOUS
  <2>2. page \subseteq Channel!Posts /\ recent \in SUBSET Channel!Posts
    BY <1>1, <2>1 DEF Channel!Largest, Channel!Smallest
  <2>3. /\ post_skipped' = (IF post_entry.anchor = 0 THEN post_skipped
                            ELSE post_skipped \union (page \ recent))
        /\ post_pass'.todo = Channel!Answer(recent)
        /\ UNCHANGED <<post_now, post_created, post_updated, post_stored>>
    BY <1>2, <2>1 DEF Channel!ListLive, Channel!channel
  <2>4. TodoTrue(post_pass')
    BY <2>2, <2>3, AnswerIsTrue
  <2>5. post_skipped' \subseteq Channel!Posts
    BY <1>1, <2>2, <2>3
  <2> QED  BY <2>3, <2>4, <2>5, PostBoundsMove
<1>3. CASE Channel!ListSweep
  <2>1. PICK page : page = {m \in Channel!Written : post_updated[m]
               >= Channel!Max({post_pass.mine.watermark, post_pass.mine.since})}
    OBVIOUS
  <2>2. /\ post_pass'.todo = Channel!Answer(page)
        /\ UNCHANGED <<post_now, post_created, post_updated, post_stored, post_skipped>>
    BY <1>3, <2>1 DEF Channel!ListSweep, Channel!channel
  <2>3. page \in SUBSET Channel!Posts
    BY <1>1, <2>1
  <2>4. TodoTrue(post_pass')
    BY <2>2, <2>3, AnswerIsTrue
  <2> QED  BY <1>1, <2>2, <2>4, PostBoundsMove
<1>4. CASE Channel!EndLive \/ Channel!FinishOld
  <2>1. /\ UNCHANGED <<post_now, post_created, post_updated, post_stored, post_skipped>>
        /\ post_pass' = Channel!Idle \/ post_pass'.phase = "plan"
    BY <1>4 DEF Channel!EndLive, Channel!Persist, Channel!FinishOld, Channel!channel
  <2>2. post_pass' = Channel!Idle \/ TodoTrue(post_pass')
    BY <2>1 DEF TodoTrue
  <2> QED  BY <1>1, <2>1, <2>2, PostBoundsMove
<1>5. CASE Channel!PlanHistory
  <2>1. PICK kept : kept = Channel!Reconciled(post_pass.mine, post_pass.days)
    OBVIOUS
  <2>2. PICK active : active = Channel!Plan(kept, post_pass.days)
    OBVIOUS
  <2>3. PICK page, window :
          /\ page = Channel!Largest({m \in Channel!Written :
                                       active.before = 0 \/ m < active.before}, Limit)
          /\ window = {m \in page : post_created[m] \in active.from .. (active.to - 1)}
    OBVIOUS
  <2>4. window \in SUBSET Channel!Posts
    BY <1>1, <2>3 DEF Channel!Largest
  <2>5. /\ UNCHANGED <<post_now, post_created, post_updated, post_stored, post_skipped>>
        /\ post_pass' = Channel!Idle \/ post_pass'.todo = Channel!Answer(window)
    BY <1>5, <2>1, <2>2, <2>3 DEF Channel!PlanHistory, Channel!channel
  <2>6. post_pass' = Channel!Idle \/ TodoTrue(post_pass')
    BY <2>4, <2>5, AnswerIsTrue
  <2> QED  BY <1>1, <2>5, <2>6, PostBoundsMove
<1> QED  BY <1>2, <1>3, <1>4, <1>5

LEMMA PostBoundsSaves ==
  ASSUME ChannelInv, PostBounds, Channel!SaveLive \/ Channel!SaveSweep \/ Channel!SaveOld
  PROVE  PostBounds'
<1>1. PICK s, todo : s = post_pass /\ todo = s.todo
  OBVIOUS
<1>2. s # Channel!Idle /\ s.phase \in {"live", "sweep", "old"} /\ Channel!Left # {}
  BY <1>1, PostNumbers DEF Channel!SaveLive, Channel!SaveSweep, Channel!SaveOld
<1>3. /\ s \in PostPasses /\ todo \in Lists
      /\ \A m \in DOMAIN todo : /\ m \in Channel!Posts /\ todo[m] \in Nat
                                /\ post_created[m] <= todo[m] /\ todo[m] <= post_updated[m]
  BY <1>1, <1>2, TodoWritten DEF PostBounds, TodoTrue
<1>4. PICK m : m = Channel!Min(DOMAIN todo)
  OBVIOUS
<1>5. m \in DOMAIN todo
  <2>1. DOMAIN todo \in SUBSET Channel!Posts /\ DOMAIN todo # {}
    BY <1>1, <1>2, <1>3, ListFacts DEF Channel!Left
  <2> QED  BY <1>4, <2>1, LeastLeft
<1>6. PICK rest : rest = [k \in DOMAIN todo \ {m} |-> todo[k]]
  OBVIOUS
<1>7. /\ post_stored' = [post_stored EXCEPT ![m] = todo[m]]
      /\ UNCHANGED <<post_now, post_created, post_updated, post_skipped>>
  BY <1>1, <1>4 DEF Channel!SaveLive, Channel!SaveSweep, Channel!SaveOld, Channel!Store,
                    Channel!Left, Channel!channel
<1>8. post_pass'.todo = rest
  <2>1. Channel!Rest(m) = rest
    BY <1>1, <1>6 DEF Channel!Rest, Channel!Left
  <2>2. CASE Channel!SaveLive
    <3>1. post_pass' = [s EXCEPT !.todo = rest, !.mine.anchor = m]
      BY <1>1, <1>4, <2>1, <2>2 DEF Channel!SaveLive, Channel!Left
    <3> QED  BY <1>3, <2>2, <3>1, <1>2, <1>1 DEF PostPasses, Channel!SaveLive
  <2>3. CASE Channel!SaveSweep
    <3>1. post_pass' = [s EXCEPT !.todo = rest, !.top = Channel!Max({@, todo[m]})]
      BY <1>1, <1>4, <2>1, <2>3 DEF Channel!SaveSweep, Channel!Left
    <3> QED  BY <1>1, <1>3, <2>3, <3>1 DEF PostPasses, Channel!SaveSweep
  <2>4. CASE Channel!SaveOld
    <3>1. post_pass' = [s EXCEPT !.todo = rest]
      BY <1>1, <1>4, <2>1, <2>4 DEF Channel!SaveOld, Channel!Left
    <3> QED  BY <1>1, <1>3, <2>4, <3>1 DEF PostPasses, Channel!SaveOld
  <2> QED  BY <2>2, <2>3, <2>4
<1>9. TodoTrue(post_pass')
  <2>1. DOMAIN rest \subseteq DOMAIN todo /\ \A k \in DOMAIN rest : rest[k] = todo[k]
    BY <1>6
  <2> QED  BY <1>3, <1>8, <2>1 DEF TodoTrue
<1> QED  BY <1>3, <1>5, <1>7, <1>9, PostBoundsMove DEF PostBounds

LEMMA PostBoundsStep ==
  ASSUME ChannelInv, PostBounds, Channel!Next \/ UNCHANGED postVars
  PROVE  PostBounds'
<1>1. ChannelInv'
  BY ChannelStep
<1> QED  BY <1>1, PostBoundsTime, PostBoundsLists, PostBoundsSaves DEF Channel!Next

LEMMA PostBoundsStart ==
  ASSUME Channel!Init
  PROVE  PostBounds
BY FirstDayIsDay DEF Channel!Init, PostBounds

LEMMA ChannelTyped == ChannelInv /\ PostBounds => Channel!TypeOK
<1> SUFFICES ASSUME ChannelInv, PostBounds
             PROVE  Channel!TypeOK
  OBVIOUS
<1>1. PICK e : e = post_entry
  OBVIOUS
<1>2. e \in PostEntries /\ ChannelSound(e)
  BY <1>1 DEF ChannelInv
<1>3. PICK last : last = Channel!FirstDay + LastDay
  OBVIOUS
<1>4. last \in Nat /\ last # 0 /\ post_now \in Nat /\ post_now <= last
      /\ Channel!Times = 1 .. last
  BY <1>3, FirstDayIsDay, PostTypes DEF PostBounds, Channel!Times
<1>5. post_now \in Channel!Times /\ post_days \in Spans
  <2>1. \A n \in Spans : n < post_now
    BY DEF ChannelInv, PostTimes
  <2>2. post_days \in Spans /\ post_days \in Nat
    BY ChannelAssumption DEF ChannelInv, PostTimes
  <2> QED  BY <1>4, <2>1, <2>2
<1>6. \A m \in Channel!Posts :
        /\ post_created[m] \in {0} \union Channel!Times
        /\ post_updated[m] \in {0} \union Channel!Times
        /\ post_stored[m] \in {0} \union (post_created[m] .. post_updated[m])
  <2> TAKE m \in Channel!Posts
  <2>1. /\ post_created[m] \in Nat /\ post_updated[m] \in Nat /\ post_stored[m] \in Nat
        /\ post_created[m] <= post_updated[m] /\ post_updated[m] <= post_now
    BY PostTypes
  <2>2. \/ post_stored[m] = 0
        \/ post_created[m] <= post_stored[m] /\ post_stored[m] <= post_updated[m]
    BY DEF PostBounds
  <2> QED  BY <1>4, <2>1, <2>2
<1>7. /\ post_created \in [Channel!Posts -> {0} \union Channel!Times]
      /\ post_updated \in [Channel!Posts -> {0} \union Channel!Times]
  BY <1>6 DEF ChannelInv, PostTimes
<1>8. e.anchor \in {0} \union Channel!Posts /\ e.oldest \in {0} \union Channel!Posts
  BY <1>2, EntryForms, PostNumbers
<1>9. {e.watermark, e.covered} \subseteq {0} \union Channel!Times
  BY <1>2, <1>4, EntryForms DEF ChannelSound
<1>10. e.active # Channel!NoActive => e.active.from < e.active.to
  BY <1>2 DEF ChannelSound
<1>11. post_pass.phase \in {"idle", "live", "sweep", "plan", "old"}
  BY PostNumbers DEF ChannelInv, PostPasses
<1> QED  BY <1>1, <1>5, <1>6, <1>7, <1>8, <1>9, <1>10, <1>11 DEF PostBounds, Channel!TypeOK

-----------------------------------------------------------------------------
(* The Telegram peers of an account: each is read, and each known message  *)
(* looked up, in turn.  There are two; a run reads one and looks one up.   *)

Peers == {1, 2}
Other(p) == 3 - p

\* How far the sweep is from message m with its cursor at c: it goes down, and from the
\* last one back to the newest.
SweepTo(c, m) ==
  IF c > m THEN c - m ELSE IF c > 0 THEN MaxPosts + c - m ELSE MaxPosts + 1 - m

\* The runs at most until message m of peer p is looked up, if the turns are as in t: a
\* peer has every other run, and the sweep every other turn of its peer.
Wait(t, p, m) ==
  (IF t.rotation = p THEN 1 ELSE 2) + (IF t.mode[p] = "sweep" THEN 0 ELSE 2)
    + 4 * (SweepTo(t.sweep[p], m) - 1)

PeerLists == [Peers -> SUBSET Telegram!Messages]
PeerRuns ==
  [phase : {"reading"}, objs : PeerLists, latest : [Peers -> Nat],
   payload : Telegram!Payloads, first : Peers, read : {0, 1}]
  \union [phase : {"looking"}, objs : PeerLists, latest : [Peers -> Nat],
          payload : Telegram!Payloads, first : Peers, left : PeerLists,
          by : [Peers -> {"head", "sweep"}], at : Peers, looked : PeerLists]

\* The turns of looking up are those of the last run that has ended.
SameTurns(t) ==
  /\ t.rotation = peer_payload.rotation /\ t.sweep = peer_payload.sweep
  /\ t.mode = peer_payload.mode /\ t.head = peer_payload.head

\* What the sweep of peer p goes on with.
SweepLeft(r, p) ==
  LET older == {m \in r.objs[p] : m < r.payload.sweep[p]}
  IN IF r.payload.sweep[p] = 0 \/ older = {} THEN r.objs[p] ELSE older

\* A run that has looked nothing up has all the messages known before.
NoneLooked(r) ==
  /\ SameTurns(r.payload)
  /\ \A p \in Peers : peer_objs[p] \subseteq r.objs[p]
  /\ r.phase = "looking" =>
       /\ r.at = peer_payload.rotation /\ r.by = peer_payload.mode
       /\ \A p \in Peers :
            /\ r.looked[p] = {} /\ r.left[p] \subseteq r.objs[p]
            /\ r.left[p] = {} => r.objs[p] = {}
            /\ r.by[p] = "sweep" => r.left[p] = SweepLeft(r, p)

\* When it has looked message m of peer p up, the turn of every other one is closer.
Looked(r, p, m) ==
  /\ \A q \in Peers : r.looked[q] = (IF q = p THEN {m} ELSE {})
  /\ \A q \in Peers : \A k \in peer_objs[q] :
       \/ q = p /\ k = m
       \/ k \in r.objs[q] /\ Wait(r.payload, q, k) < Wait(peer_payload, q, k)

\* A run reads its peer, then the other one, and has looked up one message at most.
PeerRun(r) ==
  /\ r.first = peer_payload.peer
  /\ \A p \in Peers : r.objs[p] \subseteq 1 .. r.latest[p] /\ r.latest[p] <= peer_sent[p]
  /\ r.phase = "reading" =>
       r.payload.peer = (IF r.read = 0 THEN r.first ELSE Other(r.first)) /\ NoneLooked(r)
  /\ r.phase = "looking" =>
       /\ r.payload.peer = Other(r.first)
       /\ NoneLooked(r) \/ \E p \in Peers, m \in Telegram!Messages : Looked(r, p, m)

\* Message m of peer p is looked up in time.
InTime(p, m) ==
  IF m \in peer_objs[p] THEN peer_unseen[p][m] + Wait(peer_payload, p, m) <= 4 * MaxPosts
  ELSE peer_unseen[p][m] = 0

\* The peer whose run it is was left out once at most, the other one was not; and no
\* message has waited longer than two sweeps of its peer, what it still waits included.
PeersInv ==
  /\ Telegram!TypeOK
  /\ peer_run \in {Telegram!Idle} \union PeerRuns
  /\ peer_unread \in [Peers -> Nat] /\ peer_unseen \in [Peers -> [Telegram!Messages -> Nat]]
  /\ peer_objs \in PeerLists /\ peer_latest \in [Peers -> Nat]
  /\ peer_unread[peer_payload.peer] <= 1 /\ peer_unread[Other(peer_payload.peer)] = 0
  /\ \A p \in Peers, m \in Telegram!Messages : InTime(p, m)
  /\ peer_run # Telegram!Idle => PeerRun(peer_run)

LEMMA PeerNumbers ==
  /\ Telegram!N = 2 /\ Telegram!Min({1, 2}) = 1
  /\ \A p \in Peers : /\ Telegram!Later(p, 0) = p /\ Telegram!Later(p, 1) = Other(p)
                      /\ Other(p) \in Peers /\ Other(p) # p /\ Other(Other(p)) = p
                      /\ \A q \in Peers : q = p \/ q = Other(p)
  /\ Telegram!Messages = 1 .. MaxPosts /\ MaxPosts \in Nat
  /\ Telegram!Idle.phase = "idle"
<1>1. Cardinality({1, 2}) = 2
  <2>1. IsFiniteSet({1}) /\ Cardinality({1}) = 1 /\ 2 \notin {1}
    BY FS_Singleton
  <2>2. {1} \union {2} = {1, 2}
    OBVIOUS
  <2> QED  BY <2>1, <2>2, FS_AddElement
<1>2. Telegram!Cardinality({1, 2}) = Cardinality({1, 2})
  BY DEF Telegram!Cardinality, Cardinality
<1>3. Telegram!N = 2
  BY <1>1, <1>2 DEF Telegram!N
<1>4. Telegram!Min({1, 2}) = 1
  BY DEF Telegram!Min
<1>5. ASSUME NEW p \in Peers
      PROVE  /\ Telegram!Later(p, 0) = p /\ Telegram!Later(p, 1) = Other(p)
             /\ Other(p) \in Peers /\ Other(p) # p /\ Other(Other(p)) = p
             /\ \A q \in Peers : q = p \/ q = Other(p)
  BY <1>3 DEF Telegram!Later, Peers, Other
<1> QED  BY <1>3, <1>4, <1>5, ChannelAssumption DEF Telegram!Messages, Telegram!Idle

\* The turn of a message is at most two sweeps of its peer away.
LEMMA WaitBounds ==
  ASSUME NEW t \in Telegram!Payloads, NEW p \in Peers, NEW m \in Telegram!Messages
  PROVE  Wait(t, p, m) \in 1 .. (4 * MaxPosts)
<1>1. PICK c, r, s : c = t.sweep[p] /\ r = t.rotation /\ s = t.mode[p]
  OBVIOUS
<1>2. c \in 0 .. MaxPosts /\ m \in 1 .. MaxPosts /\ MaxPosts \in Nat
  BY <1>1, PeerNumbers DEF Telegram!Payloads, Peers
<1>3. SweepTo(c, m) \in 1 .. MaxPosts
  BY <1>2 DEF SweepTo
<1>4. PICK d \in 1 .. MaxPosts : d = SweepTo(c, m)
  BY <1>3
<1> QED  BY <1>1, <1>2, <1>4 DEF Wait

LEMMA PeerTypes ==
  ASSUME PeersInv
  PROVE  /\ peer_sent \in [Peers -> 0 .. MaxPosts]
         /\ peer_gone \subseteq Peers \X Telegram!Messages
         /\ \A p \in Peers : peer_objs[p] \subseteq 1 .. peer_latest[p]
                             /\ peer_latest[p] <= peer_sent[p]
         /\ peer_payload \in Telegram!Payloads
         /\ peer_payload.peer \in Peers /\ peer_payload.rotation \in Peers
         /\ peer_payload.mode \in [Peers -> {"head", "sweep"}]
         /\ peer_payload.sweep \in [Peers -> 0 .. MaxPosts]
<1>1. Telegram!TypeOK
  BY DEF PeersInv
<1>2. peer_payload \in Telegram!Payloads
  BY <1>1 DEF Telegram!TypeOK
<1>3. {0} \union Telegram!Messages = 0 .. MaxPosts
  BY PeerNumbers
<1>4. /\ peer_payload.peer \in Peers /\ peer_payload.rotation \in Peers
      /\ peer_payload.mode \in [Peers -> {"head", "sweep"}]
  BY <1>2 DEF Telegram!Payloads, Peers
<1>5. peer_payload.sweep \in [Peers -> 0 .. MaxPosts]
  <2>1. peer_payload.sweep \in [Peers -> {0} \union Telegram!Messages]
    BY <1>2 DEF Telegram!Payloads, Peers
  <2> QED  BY <1>3, <2>1
<1> QED  BY <1>1, <1>2, <1>4, <1>5 DEF Telegram!TypeOK, Peers

\* The steps between two ends of runs.
LEMMA PeersMove ==
  ASSUME PeersInv,
         UNCHANGED <<peer_objs, peer_latest, peer_payload, peer_unread, peer_unseen>>,
         peer_sent' \in [Peers -> 0 .. MaxPosts],
         \A p \in Peers : peer_sent[p] <= peer_sent'[p],
         peer_gone' \subseteq Peers \X Telegram!Messages,
         \/ peer_run' \in {peer_run, Telegram!Idle}
         \/ peer_run' \in PeerRuns /\ PeerRun(peer_run')
  PROVE  PeersInv'
<1>1. /\ peer_sent \in [Peers -> 0 .. MaxPosts]
      /\ \A p \in Peers : peer_objs[p] \subseteq 1 .. peer_latest[p]
                          /\ peer_latest[p] <= peer_sent[p]
      /\ peer_payload \in Telegram!Payloads /\ peer_latest \in [Peers -> Nat]
  BY PeerTypes DEF PeersInv
<1>2. ASSUME NEW p \in Peers
      PROVE  peer_latest[p] <= peer_sent'[p]
  <2>1. peer_latest[p] \in Nat /\ peer_sent[p] \in Nat /\ peer_sent'[p] \in Nat
    BY <1>1, PeerNumbers
  <2> QED  BY <1>1, <2>1
<1>3. PICK r : r = peer_run'
  OBVIOUS
<1>4. r = Telegram!Idle \/ (r \in PeerRuns /\ PeerRun(r))
  BY <1>3 DEF PeersInv
<1>5. ASSUME r # Telegram!Idle
      PROVE  PeerRun(r)'
  <2>1. r \in PeerRuns /\ PeerRun(r)
    BY <1>4, <1>5
  <2>2. NoneLooked(r)' = NoneLooked(r)
    BY DEF NoneLooked, SameTurns
  <2>3. \A p, m : Looked(r, p, m)' = Looked(r, p, m)
    BY DEF Looked, Wait
  <2>4. r.latest \in [Peers -> Nat]
    BY <2>1 DEF PeerRuns
  <2>5. ASSUME NEW p \in Peers
        PROVE  r.objs[p] \subseteq 1 .. r.latest[p] /\ r.latest[p] <= peer_sent'[p]
    <3>1. r.latest[p] \in Nat /\ peer_sent[p] \in Nat /\ peer_sent'[p] \in Nat
      BY <1>1, <2>4, PeerNumbers
    <3>2. r.objs[p] \subseteq 1 .. r.latest[p] /\ r.latest[p] <= peer_sent[p]
      BY <2>1 DEF PeerRun
    <3> QED  BY <3>1, <3>2
  <2> QED  BY <2>1, <2>2, <2>3, <2>5 DEF PeerRun
<1>6. r.phase \in {"idle", "reading", "looking"}
  BY <1>4, PeerNumbers DEF PeerRuns
<1>7. Telegram!TypeOK'
  BY <1>1, <1>2, <1>3, <1>6 DEF Telegram!TypeOK, Peers
<1>8. \A p \in Peers, m \in Telegram!Messages : InTime(p, m)' = InTime(p, m)
  BY DEF InTime, Wait
<1>9. peer_run' \in {Telegram!Idle} \union PeerRuns
  BY <1>3, <1>4
<1>10. peer_run' # Telegram!Idle => PeerRun(peer_run)'
  BY <1>3, <1>5
<1>11. (\A p \in Peers, m \in Telegram!Messages : InTime(p, m))'
  BY <1>8 DEF PeersInv
<1> QED  BY <1>7, <1>9, <1>10, <1>11 DEF PeersInv

LEMMA PeerChats ==
  ASSUME PeersInv, Telegram!Write \/ Telegram!Delete \/ Telegram!FailRun
  PROVE  PeersInv'
<1>1. /\ peer_sent \in [Peers -> 0 .. MaxPosts]
      /\ peer_gone \subseteq Peers \X Telegram!Messages
  BY PeerTypes
<1>2. CASE Telegram!Write
  <2>1. PICK p \in Peers :
          peer_sent[p] < MaxPosts /\ peer_sent' = [peer_sent EXCEPT ![p] = @ + 1]
    BY <1>2 DEF Telegram!Write, Peers
  <2>2. /\ peer_sent' \in [Peers -> 0 .. MaxPosts]
        /\ \A q \in Peers : peer_sent[q] <= peer_sent'[q]
    BY <1>1, <2>1, PeerNumbers
  <2> QED  BY <1>1, <1>2, <2>2, PeersMove DEF Telegram!Write, Telegram!rows
<1>3. CASE Telegram!Delete
  <2>1. PICK p \in Peers : \E m \in 1 .. peer_sent[p] : peer_gone' = peer_gone \union {<<p, m>>}
    BY <1>3 DEF Telegram!Delete, Peers
  <2>2. PICK m \in 1 .. peer_sent[p] : peer_gone' = peer_gone \union {<<p, m>>}
    BY <2>1
  <2>3. m \in Telegram!Messages
    BY <1>1, <2>2, PeerNumbers
  <2>4. peer_gone' \subseteq Peers \X Telegram!Messages
    BY <1>1, <2>2, <2>3
  <2>5. \A q \in Peers : peer_sent[q] <= peer_sent[q]
    BY <1>1, PeerNumbers
  <2> QED  BY <1>1, <1>3, <2>4, <2>5, PeersMove DEF Telegram!Delete, Telegram!rows
<1>4. CASE Telegram!FailRun
  <2>1. \A q \in Peers : peer_sent[q] <= peer_sent[q]
    BY <1>1, PeerNumbers
  <2> QED  BY <1>1, <1>4, <2>1, PeersMove DEF Telegram!FailRun, Telegram!rows, Telegram!chat
<1> QED  BY <1>2, <1>3, <1>4

\* The steps of a run leave everything else alone.
LEMMA PeerRunMoves ==
  ASSUME PeersInv,
         UNCHANGED <<Telegram!chat, Telegram!rows, peer_unread, peer_unseen>>,
         peer_run' \in PeerRuns, PeerRun(peer_run')
  PROVE  PeersInv'
<1>1. /\ peer_sent \in [Peers -> 0 .. MaxPosts]
      /\ peer_gone \subseteq Peers \X Telegram!Messages
  BY PeerTypes
<1>2. \A q \in Peers : peer_sent[q] <= peer_sent[q]
  BY <1>1, PeerNumbers
<1> QED  BY <1>1, <1>2, PeersMove DEF Telegram!rows, Telegram!chat

LEMMA PeerBegins ==
  ASSUME PeersInv, Telegram!BeginRun
  PROVE  PeersInv'
<1>1. PICK t : t = peer_payload
  OBVIOUS
<1>2. PICK r : r = [phase |-> "reading", objs |-> peer_objs, latest |-> peer_latest,
                    payload |-> t, first |-> t.peer, read |-> 0]
  OBVIOUS
<1>3. /\ peer_run' = r
      /\ UNCHANGED <<Telegram!chat, Telegram!rows, peer_unread, peer_unseen>>
  BY <1>1, <1>2 DEF Telegram!BeginRun
<1>4. /\ r.phase = "reading" /\ r.objs = peer_objs /\ r.latest = peer_latest
      /\ r.payload = t /\ r.first = t.peer /\ r.read = 0
  BY <1>2
<1>5. r \in PeerRuns
  BY <1>1, <1>2, PeerTypes DEF PeerRuns, PeersInv
<1>6. PeerRun(r)
  BY <1>1, <1>4, PeerTypes DEF PeerRun, NoneLooked, SameTurns
<1> QED  BY <1>3, <1>5, <1>6, PeerRunMoves

\* What is read of a peer follows its last message.
LEMMA PeerRead ==
  ASSUME NEW p \in Peers, NEW last \in Nat, last = peer_run.latest[p],
         NEW upto \in Nat, upto = peer_sent[p], last <= upto,
         NEW read, read = Telegram!Read(p),
         NEW top, top = Telegram!Max(read \union {last})
  PROVE  top \in Nat /\ last <= top /\ top <= upto /\ read \subseteq 1 .. top
<1>1. PICK after : after = {m \in (last + 1) .. upto : <<p, m>> \notin peer_gone}
  OBVIOUS
<1>2. after \in SUBSET Int /\ IsFiniteSet(after)
  <2>1. \A a, b \in Int : IsFiniteSet(a .. b)
    BY FS_Interval
  <2>2. IsFiniteSet((last + 1) .. upto)
    BY <2>1
  <2>3. after \subseteq (last + 1) .. upto
    BY <1>1
  <2>4. after \subseteq Int
    BY <2>3
  <2> QED  BY <2>2, <2>3, <2>4, FS_Subset
<1>3. read \subseteq after
  <2>1. \A S : Telegram!Cardinality(S) = Cardinality(S)
    BY DEF Telegram!Cardinality, Cardinality
  <2>2. read = Telegram!Largest(after, 1) \/ read = Telegram!Smallest(after, 1)
    BY <1>1 DEF Telegram!Read
  <2> QED  BY <2>2 DEF Telegram!Largest, Telegram!Smallest
<1>4. PICK all : all = read \union {last}
  OBVIOUS
<1>5. all \in SUBSET Int /\ IsFiniteSet(all) /\ all # {}
  <2>1. IsFiniteSet(read)
    BY <1>2, <1>3, FS_Subset
  <2>2. read \subseteq Int
    BY <1>2, <1>3
  <2>3. IsFiniteSet(all)
    BY <1>4, <2>1, FS_AddElement
  <2> QED  BY <1>4, <2>2, <2>3
<1>6. top = Max(all)
  BY <1>4 DEF Telegram!Max, Max
<1>7. top \in all /\ \A m \in all : m <= top
  BY <1>5, <1>6, MaxIsGreatest
<1>8. ASSUME NEW m \in read
      PROVE  m \in Nat /\ 1 <= m /\ m <= upto /\ last <= m
  <2>1. m \in (last + 1) .. upto
    BY <1>1, <1>3
  <2> QED  BY <2>1
<1> QED  BY <1>4, <1>7, <1>8

LEMMA PeerSyncs ==
  ASSUME PeersInv, Telegram!SyncPeer
  PROVE  PeersInv'
<1>1. PICK r, p, t, new : /\ r = peer_run /\ p = r.first /\ t = r.payload
                          /\ new = Telegram!Read(p)
  OBVIOUS
<1>2. /\ r \in PeerRuns /\ PeerRun(r) /\ r.phase = "reading" /\ p \in Peers
      /\ r.read = 0
  <2>1. r \in PeerRuns /\ PeerRun(r) /\ r.phase = "reading"
    BY <1>1, PeerNumbers DEF Telegram!SyncPeer, PeersInv
  <2>2. r.read \in {0, 1} /\ r.read < 1
    BY <1>1, <2>1, PeerNumbers DEF Telegram!SyncPeer, PeerRuns
  <2> QED  BY <1>1, <2>1, <2>2 DEF PeerRuns
<1>3. /\ t \in Telegram!Payloads /\ r.objs \in PeerLists /\ r.latest \in [Peers -> Nat]
  BY <1>1, <1>2 DEF PeerRuns
<1>4. PICK u : u = [t EXCEPT !.peer = Other(p)]
  OBVIOUS
<1>5. /\ u \in Telegram!Payloads /\ u.peer = Other(p) /\ u.rotation = t.rotation
      /\ u.sweep = t.sweep /\ u.mode = t.mode /\ u.head = t.head
  <2>1. Other(p) \in {1, 2}
    BY <1>2, PeerNumbers DEF Peers
  <2> QED  BY <1>3, <1>4, <2>1 DEF Telegram!Payloads
<1>6. PICK turn : turn = [r EXCEPT !.read = 1, !.payload = u]
  OBVIOUS
<1>7. PICK top : top = Telegram!Max(new \union {r.latest[p]})
  OBVIOUS
<1>8. PICK objs, latest : /\ objs = [r.objs EXCEPT ![p] = @ \union new]
                          /\ latest = [r.latest EXCEPT ![p] = top]
  OBVIOUS
<1>9. /\ peer_run' = turn \/ peer_run' = [turn EXCEPT !.objs = objs, !.latest = latest]
      /\ UNCHANGED <<Telegram!chat, Telegram!rows, peer_unread, peer_unseen>>
  <2>1. Telegram!Later(r.first, r.read) = p /\ Telegram!Later(p, 1) = Other(p)
    BY <1>1, <1>2, PeerNumbers
  <2>2. /\ \/ peer_run' = [r EXCEPT !.read = @ + 1, !.payload.peer = Other(p)]
           \/ peer_run' = [[r EXCEPT !.read = @ + 1, !.payload.peer = Other(p)] EXCEPT
                             !.objs[p] = @ \union new,
                             !.latest[p] = Telegram!Max(new \union {@})]
        /\ UNCHANGED <<Telegram!chat, Telegram!rows, peer_unread, peer_unseen>>
    BY <1>1, <2>1 DEF Telegram!SyncPeer
  <2>3. [r EXCEPT !.read = @ + 1, !.payload.peer = Other(p)] = turn
    BY <1>1, <1>2, <1>4, <1>6 DEF PeerRuns
  <2>4. turn.objs = r.objs /\ turn.latest = r.latest
    BY <1>2, <1>6 DEF PeerRuns
  <2>5. [turn EXCEPT !.objs[p] = @ \union new, !.latest[p] = Telegram!Max(new \union {@})]
          = [turn EXCEPT !.objs = objs, !.latest = latest]
    <3>1. turn \in PeerRuns
      BY <1>2, <1>5, <1>6 DEF PeerRuns
    <3> QED  BY <1>2, <1>3, <1>7, <1>8, <2>4, <3>1
  <2> QED  BY <2>2, <2>3, <2>5
<1>10. /\ turn \in PeerRuns /\ turn.phase = "reading" /\ turn.payload = u /\ turn.read = 1
       /\ turn.first = p /\ turn.objs = r.objs /\ turn.latest = r.latest
  BY <1>1, <1>2, <1>5, <1>6 DEF PeerRuns
<1>11. PeerRun(turn)
  BY <1>1, <1>2, <1>5, <1>10 DEF PeerRun, NoneLooked, SameTurns
<1>12. PICK full : full = [turn EXCEPT !.objs = objs, !.latest = latest]
  OBVIOUS
<1>13. /\ top \in Nat /\ top <= peer_sent[p] /\ r.latest[p] <= top
       /\ new \subseteq 1 .. top
  <2>1. r.latest[p] \in Nat /\ peer_sent[p] \in Nat /\ r.latest[p] <= peer_sent[p]
    <3>1. peer_sent[p] \in 0 .. MaxPosts
      BY <1>2, PeerTypes
    <3> QED  BY <1>2, <1>3, <3>1, PeerNumbers DEF PeerRun
  <2> QED  BY <1>1, <1>2, <1>7, <2>1, PeerRead
<1>14. objs \in PeerLists /\ latest \in [Peers -> Nat]
  <2>1. new \subseteq Telegram!Messages
    <3>1. peer_sent[p] \in 0 .. MaxPosts
      BY <1>2, PeerTypes
    <3> QED  BY <1>13, <3>1, PeerNumbers
  <2> QED  BY <1>2, <1>3, <1>8, <1>13, <2>1 DEF PeerLists
<1>15. /\ full \in PeerRuns /\ full.phase = "reading" /\ full.payload = u
       /\ full.read = 1 /\ full.first = p /\ full.objs = objs /\ full.latest = latest
  BY <1>10, <1>12, <1>14 DEF PeerRuns
<1>16. ASSUME NEW q \in Peers
       PROVE  /\ r.objs[q] \subseteq objs[q]
              /\ objs[q] \subseteq 1 .. latest[q] /\ latest[q] <= peer_sent[q]
  <2>1. r.objs[q] \subseteq 1 .. r.latest[q] /\ r.latest[q] <= peer_sent[q]
    BY <1>2 DEF PeerRun
  <2>2. CASE q = p
    <3>1. objs[q] = r.objs[q] \union new /\ latest[q] = top
      BY <1>2, <1>3, <1>8, <2>2 DEF PeerLists
    <3>2. r.latest[q] \in Nat
      BY <1>3
    <3>3. r.latest[p] \in Nat /\ r.latest[p] <= top /\ top \in Nat
      BY <1>13, <2>2, <3>2
    <3>4. r.objs[p] \subseteq 1 .. top
      BY <2>1, <2>2, <3>3
    <3> QED  BY <1>13, <2>2, <3>1, <3>4
  <2>3. CASE q # p
    <3>1. objs[q] = r.objs[q] /\ latest[q] = r.latest[q]
      BY <1>3, <1>8, <2>3 DEF PeerLists
    <3> QED  BY <2>1, <3>1
  <2> QED  BY <2>2, <2>3
<1>17. PeerRun(full)
  <2>1. \A q \in Peers : peer_objs[q] \subseteq objs[q]
    BY <1>2, <1>16 DEF PeerRun, NoneLooked
  <2> QED  BY <1>1, <1>2, <1>5, <1>15, <1>16, <2>1 DEF PeerRun, NoneLooked, SameTurns
<1> QED  BY <1>9, <1>10, <1>11, <1>12, <1>15, <1>17, PeerRunMoves

\* What is up for looking up is known, is something if anything is known, and goes down
\* when it is the sweep's turn.
LEMMA PeerCandidates ==
  ASSUME NEW r, r = peer_run, r \in PeerRuns, NEW p \in Peers,
         NEW left, left = Telegram!Candidates(p)
  PROVE  /\ left \subseteq r.objs[p]
         /\ left = {} => r.objs[p] = {}
         /\ r.payload.mode[p] = "sweep" => left = SweepLeft(r, p)
<1>1. r.objs[p] \subseteq Telegram!Messages /\ r.payload.mode[p] \in {"head", "sweep"}
  BY DEF PeerRuns, PeerLists, Telegram!Payloads, Peers
<1>2. PICK known : known = r.objs[p]
  OBVIOUS
<1>3. known \in SUBSET Int /\ IsFiniteSet(known)
  <2>1. IsFiniteSet(1 .. MaxPosts) /\ known \subseteq 1 .. MaxPosts
    BY <1>1, <1>2, PeerNumbers, FS_Interval
  <2>2. known \subseteq Int
    BY <2>1
  <2> QED  BY <2>1, <2>2, FS_Subset
<1>4. \A S : Telegram!Max(S) = Max(S) /\ Telegram!Cardinality(S) = Cardinality(S)
  BY DEF Telegram!Max, Max, Telegram!Cardinality, Cardinality
<1>5. CASE known = {}
  <2>1. left = {}
    BY <1>2, <1>5 DEF Telegram!Candidates
  <2> QED  BY <1>2, <1>5, <2>1 DEF SweepLeft
<1>6. CASE known # {} /\ r.payload.mode[p] = "head"
  <2>1. PICK window : window = Largest(known, 2)
    OBVIOUS
  <2>2. /\ window \subseteq known /\ window # {}
    BY <1>3, <1>6, <2>1, LargestIsPage
  <2>3. \A S \in SUBSET window : S # {} => Max(S) \in S
    <3>1. ASSUME NEW S \in SUBSET window, S # {}
          PROVE  Max(S) \in S
      <4>1. S \in SUBSET Int /\ IsFiniteSet(S)
        BY <1>3, <2>2, FS_Subset
      <4> QED  BY <3>1, <4>1, MaxIsGreatest
    <3> QED  BY <3>1
  <2>4. PICK older : older = {m \in window : m < r.payload.head[p].cursor}
    OBVIOUS
  <2>5. Telegram!HeadCandidate(p) \in {Max(window)}
                                        \union (IF older = {} THEN {} ELSE {Max(older)})
    <3>1. window = Telegram!Largest(r.objs[p], 2)
      BY <1>2, <1>4, <2>1 DEF Telegram!Largest, Largest
    <3> QED  BY <1>4, <2>4, <3>1 DEF Telegram!HeadCandidate
  <2>6. Telegram!HeadCandidate(p) \in known
    BY <2>2, <2>3, <2>4, <2>5
  <2>7. left = {Telegram!HeadCandidate(p)}
    BY <1>2, <1>6 DEF Telegram!Candidates
  <2> QED  BY <1>2, <1>6, <2>6, <2>7
<1>7. CASE known # {} /\ r.payload.mode[p] = "sweep"
  <2>1. left = Telegram!SweepCandidates(p)
    BY <1>2, <1>7 DEF Telegram!Candidates
  <2>2. left = SweepLeft(r, p)
    BY <2>1 DEF Telegram!SweepCandidates, SweepLeft
  <2>3. left \subseteq known /\ left # {}
    BY <1>2, <1>7, <2>2 DEF SweepLeft
  <2> QED  BY <1>2, <1>7, <2>2, <2>3
<1> QED  BY <1>1, <1>2, <1>5, <1>6, <1>7

LEMMA PeerPlans ==
  ASSUME PeersInv, Telegram!Plan
  PROVE  PeersInv'
<1>1. PICK r : r = peer_run
  OBVIOUS
<1>2. /\ r \in PeerRuns /\ PeerRun(r) /\ r.phase = "reading" /\ r.read = 1
  <2>1. r \in PeerRuns /\ PeerRun(r) /\ r.phase = "reading"
    BY <1>1, PeerNumbers DEF Telegram!Plan, PeersInv
  <2> QED  BY <1>1, <2>1, PeerNumbers DEF Telegram!Plan
<1>3. PICK left, none : /\ left = [p \in Peers |-> Telegram!Candidates(p)]
                        /\ none = [p \in Peers |-> {}]
  OBVIOUS
<1>4. PICK new : new = [phase |-> "looking", objs |-> r.objs, latest |-> r.latest,
                        payload |-> r.payload, first |-> r.first, left |-> left,
                        by |-> r.payload.mode, at |-> r.payload.rotation,
                        looked |-> none]
  OBVIOUS
<1>5. /\ peer_run' = new
      /\ UNCHANGED <<Telegram!chat, Telegram!rows, peer_unread, peer_unseen>>
  BY <1>1, <1>3, <1>4 DEF Telegram!Plan, Peers
<1>6. /\ r.objs \in PeerLists /\ r.latest \in [Peers -> Nat]
      /\ r.payload \in Telegram!Payloads /\ r.first \in Peers
  BY <1>2 DEF PeerRuns
<1>7. r.payload.mode \in [Peers -> {"head", "sweep"}] /\ r.payload.rotation \in Peers
  BY <1>6 DEF Telegram!Payloads, Peers
<1>8. ASSUME NEW p \in Peers
      PROVE  /\ left[p] \subseteq r.objs[p]
             /\ left[p] = {} => r.objs[p] = {}
             /\ r.payload.mode[p] = "sweep" => left[p] = SweepLeft(r, p)
  <2>1. left[p] = Telegram!Candidates(p)
    BY <1>3
  <2> QED  BY <1>1, <1>2, <2>1, PeerCandidates
<1>9. left \in PeerLists /\ none \in PeerLists
  BY <1>3, <1>6, <1>8 DEF PeerLists
<1>10. new \in PeerRuns
  BY <1>4, <1>6, <1>7, <1>9 DEF PeerRuns
<1>11. /\ new.phase = "looking" /\ new.objs = r.objs /\ new.latest = r.latest
       /\ new.payload = r.payload /\ new.first = r.first /\ new.left = left
       /\ new.by = r.payload.mode /\ new.at = r.payload.rotation
       /\ \A p \in Peers : new.looked[p] = {}
  BY <1>3, <1>4
<1>12. NoneLooked(new)
  <2>1. NoneLooked(r)
    BY <1>2 DEF PeerRun
  <2>2. \A p \in Peers : SweepLeft(new, p) = SweepLeft(r, p)
    BY <1>11 DEF SweepLeft
  <2> QED  BY <1>2, <1>8, <1>11, <2>1, <2>2 DEF NoneLooked, SameTurns
<1>13. PeerRun(new)
  BY <1>2, <1>11, <1>12 DEF PeerRun
<1> QED  BY <1>5, <1>10, <1>13, PeerRunMoves

\* A lookup is one call, and no lookup is none.
LEMMA PeerCalls ==
  ASSUME peer_run.looked \in PeerLists
  PROVE  /\ (\A p \in Peers : peer_run.looked[p] = {}) => Telegram!Calls = 0
         /\ \A p \in Peers : peer_run.looked[p] # {} => ~ Telegram!Calls < 1
<1>1. PICK looked \in PeerLists : looked = peer_run.looked
  OBVIOUS
<1>2. PICK f : f = [p \in Peers |-> Cardinality(looked[p])]
  OBVIOUS
<1>3. ASSUME NEW p \in Peers
      PROVE  /\ f[p] = Cardinality(looked[p]) /\ f[p] \in Nat
             /\ (looked[p] = {} <=> f[p] = 0)
  <2>1. looked[p] \subseteq 1 .. MaxPosts
    BY <1>1, PeerNumbers DEF PeerLists
  <2>2. IsFiniteSet(1 .. MaxPosts)
    BY PeerNumbers, FS_Interval
  <2>3. IsFiniteSet(looked[p])
    BY <2>1, <2>2, FS_Subset
  <2> QED  BY <1>2, <2>3, FS_CardinalityType, FS_EmptySet
<1>4. f \in [Peers -> Nat]
  BY <1>2, <1>3
<1>5. IsFiniteSet(Peers)
  <2>1. Peers = {1} \union {2} /\ IsFiniteSet({1})
    BY FS_Singleton DEF Peers
  <2> QED  BY <2>1, FS_AddElement
<1> DEFINE Is(it) == it = [s \in SUBSET Peers |->
                 IF s = {} THEN 0
                 ELSE f[CHOOSE x \in s : TRUE] + it[s \ {CHOOSE x \in s : TRUE}]]
           Was(it) == it = [s \in SUBSET Peers |->
                 IF s = {} THEN 0
                 ELSE Cardinality(looked[CHOOSE x \in s : TRUE])
                      + it[s \ {CHOOSE x \in s : TRUE}]]
<1>6. \A it : Is(it) <=> Was(it)
  <2>1. ASSUME NEW s \in SUBSET Peers, s # {}
        PROVE  f[CHOOSE x \in s : TRUE] = Cardinality(looked[CHOOSE x \in s : TRUE])
    <3>1. (CHOOSE x \in s : TRUE) \in Peers
      BY <2>1
    <3> QED  BY <1>3, <3>1
  <2>2. ASSUME NEW it
        PROVE  Is(it) <=> Was(it)
    <3>1. [s \in SUBSET Peers |->
                 IF s = {} THEN 0
                 ELSE f[CHOOSE x \in s : TRUE] + it[s \ {CHOOSE x \in s : TRUE}]]
          = [s \in SUBSET Peers |->
                 IF s = {} THEN 0
                 ELSE Cardinality(looked[CHOOSE x \in s : TRUE])
                      + it[s \ {CHOOSE x \in s : TRUE}]]
      BY <2>1
    <3> QED  BY <3>1
  <2> QED  BY <2>2
<1>7. Telegram!Calls = (CHOOSE it : Was(it))[Peers]
  <2>1. \A S : Telegram!Cardinality(S) = Cardinality(S)
    BY DEF Telegram!Cardinality, Cardinality
  <2> QED  BY <1>1, <2>1 DEF Telegram!Calls, Telegram!MapThenSumSet, Telegram!MapThenFoldSet,
                             Peers
<1>8. PICK g0 : IsSum(g0, f, Peers)
  BY <1>4, <1>5, SumExists
<1>9. Was(g0)
  <2>1. Is(g0)
    BY <1>8 DEF IsSum, AnyOf
  <2> HIDE DEF Is, Was
  <2> QED  BY <1>6, <2>1
<1>10. PICK g : g = (CHOOSE it : Was(it))
  OBVIOUS
<1>11. Is(g)
  <2> HIDE DEF Is, Was
  <2> QED  BY <1>6, <1>9, <1>10
<1>12. IsSum(g, f, Peers)
  <2>1. g = [T \in SUBSET Peers |-> IF T = {} THEN 0
                                    ELSE f[AnyOf(T)] + g[T \ {AnyOf(T)}]]
    BY <1>11 DEF AnyOf
  <2> QED  BY <1>4, <1>5, <2>1, SumIsThat
<1>13. Telegram!Calls = g[Peers]
  <2> HIDE DEF Was
  <2> QED  BY <1>7, <1>10
<1> HIDE DEF Is, Was
<1>14. ASSUME \A p \in Peers : looked[p] = {}
       PROVE  Telegram!Calls = 0
  BY <1>3, <1>4, <1>5, <1>12, <1>13, <1>14, SumIsZero
<1>15. ASSUME NEW p \in Peers, looked[p] # {}
       PROVE  ~ Telegram!Calls < 1
  <2>1. g[Peers] \in Nat /\ f[p] <= g[Peers]
    BY <1>4, <1>5, <1>12, SummandIsLess
  <2> QED  BY <1>3, <1>13, <1>15, <2>1
<1> QED  BY <1>1, <1>14, <1>15

\* A step of the sweep brings it closer to every message but the one it comes to.
LEMMA SweepGoesOn ==
  ASSUME NEW objs \in SUBSET Telegram!Messages, NEW c \in 0 .. MaxPosts,
         NEW k \in objs, NEW left,
         left = (IF c = 0 \/ {m \in objs : m < c} = {} THEN objs ELSE {m \in objs : m < c}),
         NEW m \in left, \A j \in left : j <= m, k # m
  PROVE  SweepTo(m, k) < SweepTo(c, k)
<1>1. /\ k \in 1 .. MaxPosts /\ m \in 1 .. MaxPosts /\ m \in objs /\ MaxPosts \in Nat
      /\ objs \subseteq 1 .. MaxPosts
  BY PeerNumbers
<1>2. CASE c = 0 \/ {j \in objs : j < c} = {}
  <2>1. k < m
    BY <1>1, <1>2
  <2> QED  BY <1>1, <2>1 DEF SweepTo
<1>3. CASE c # 0 /\ {j \in objs : j < c} # {}
  <2>1. m < c
    BY <1>3
  <2>2. k < c => k < m
    BY <1>1, <1>3
  <2> QED  BY <1>1, <1>3, <2>1, <2>2 DEF SweepTo
<1> QED  BY <1>2, <1>3

\* The peer that is served is the one whose turn it is, unless nothing is left of it.
LEMMA PeerServed ==
  ASSUME NEW r, r = peer_run, r \in PeerRuns, r.phase = "looking", Telegram!May,
         \A p \in Peers : r.looked[p] = {}
  PROVE  LET steps == {n \in 0 .. 1 : Telegram!Open(Telegram!Later(r.at, n))}
         IN \E p \in Peers : /\ p = Telegram!Later(r.at, Telegram!Min(steps))
                             /\ r.left[p] # {} /\ (p = r.at \/ r.left[r.at] = {})
<1> DEFINE steps == {n \in 0 .. 1 : Telegram!Open(Telegram!Later(r.at, n))}
<1>1. r.at \in Peers
  BY DEF PeerRuns
<1>2. PICK a, b : a = r.at /\ b = Other(a)
  OBVIOUS
<1>3. /\ Telegram!Later(r.at, 0) = a /\ Telegram!Later(r.at, 1) = b /\ a \in Peers
      /\ b \in Peers /\ a # b /\ \A q \in Peers : q = a \/ q = b
  BY <1>1, <1>2, PeerNumbers
<1>4. \A p \in Peers : Telegram!Open(p) <=> r.left[p] # {}
  <2>1. Telegram!Cardinality({}) = 0
    <3>1. Telegram!Cardinality({}) = Cardinality({})
      BY DEF Telegram!Cardinality, Cardinality
    <3> QED  BY <3>1, FS_EmptySet
  <2> QED  BY <2>1 DEF Telegram!Open
<1>5. \E p \in Peers : Telegram!Open(p)
  BY DEF Telegram!May, Peers
<1>6. /\ 0 \in steps <=> r.left[a] # {}
      /\ 1 \in steps <=> r.left[b] # {}
      /\ \A n \in steps : n = 0 \/ n = 1
  BY <1>3, <1>4
<1>7. CASE r.left[a] # {}
  <2>1. Telegram!Min(steps) = 0
    <3> HIDE DEF steps
    <3> QED  BY <1>6, <1>7 DEF Telegram!Min
  <2> QED  BY <1>2, <1>3, <1>7, <2>1
<1>8. CASE r.left[a] = {}
  <2>1. r.left[b] # {}
    BY <1>3, <1>4, <1>5, <1>8
  <2>2. Telegram!Min(steps) = 1
    <3> HIDE DEF steps
    <3>1. steps = {1}
      BY <1>6, <1>8, <2>1
    <3> QED  BY <3>1 DEF Telegram!Min
  <2> QED  BY <1>2, <1>3, <1>8, <2>1, <2>2
<1> QED  BY <1>7, <1>8

LEMMA PeerLooksUp ==
  ASSUME PeersInv, Telegram!Lookup
  PROVE  PeersInv'
<1>1. PICK r, t : r = peer_run /\ t = r.payload
  OBVIOUS
<1>2. r \in PeerRuns /\ PeerRun(r) /\ r.phase = "looking" /\ Telegram!May
  BY <1>1, PeerNumbers DEF Telegram!Lookup, PeersInv
<1>3. /\ r.objs \in PeerLists /\ r.latest \in [Peers -> Nat]
      /\ t \in Telegram!Payloads /\ r.first \in Peers /\ r.left \in PeerLists
      /\ r.by \in [Peers -> {"head", "sweep"}] /\ r.at \in Peers /\ r.looked \in PeerLists
  BY <1>1, <1>2 DEF PeerRuns
<1>4. NoneLooked(r)
  <2>1. ASSUME NEW p \in Peers, NEW m \in Telegram!Messages, Looked(r, p, m)
        PROVE  FALSE
    <3>1. r.looked[p] # {}
      BY <2>1 DEF Looked
    <3>2. ~ Telegram!Calls < 1
      BY <1>1, <1>3, <3>1, PeerCalls
    <3> QED  BY <1>2, <3>2 DEF Telegram!May
  <2> QED  BY <1>2, <2>1 DEF PeerRun
<1>5. /\ SameTurns(t) /\ r.at = t.rotation /\ r.by = t.mode
      /\ \A p \in Peers : /\ peer_objs[p] \subseteq r.objs[p] /\ r.looked[p] = {}
                          /\ r.left[p] \subseteq r.objs[p]
                          /\ r.left[p] = {} => r.objs[p] = {}
                          /\ r.by[p] = "sweep" => r.left[p] = SweepLeft(r, p)
  BY <1>1, <1>2, <1>4 DEF NoneLooked, SameTurns
<1>6. PICK p \in Peers :
        /\ p = Telegram!Later(r.at, Telegram!Min(
                 {n \in 0 .. 1 : Telegram!Open(Telegram!Later(r.at, n))}))
        /\ r.left[p] # {} /\ (p = r.at \/ r.left[r.at] = {})
  BY <1>1, <1>2, <1>5, PeerServed
<1>7. PICK q \in Peers : q = Other(p) /\ q # p /\ \A o \in Peers : o = p \/ o = q
  BY PeerNumbers
<1>8. PICK m, newest : /\ m = Telegram!Max(r.left[p])
                       /\ newest = Telegram!Max(r.objs[p] \union r.looked[p])
  OBVIOUS
<1>9. /\ m \in r.left[p] /\ (\A j \in r.left[p] : j <= m)
      /\ m \in Telegram!Messages /\ newest \in Telegram!Messages
  <2>1. r.objs[p] \subseteq 1 .. MaxPosts
    BY <1>3, PeerNumbers DEF PeerLists
  <2>2. IsFiniteSet(1 .. MaxPosts)
    BY PeerNumbers, FS_Interval
  <2>3. \A S \in SUBSET r.objs[p] : S # {} => Max(S) \in S /\ \A j \in S : Max(S) >= j
    <3>1. ASSUME NEW S \in SUBSET r.objs[p], S # {}
          PROVE  Max(S) \in S /\ \A j \in S : Max(S) >= j
      <4>1. S \subseteq Int
        BY <2>1
      <4>2. IsFiniteSet(S)
        BY <2>1, <2>2, FS_Subset
      <4> QED  BY <3>1, <4>1, <4>2, MaxIsGreatest
    <3> QED  BY <3>1
  <2>4. \A S : Telegram!Max(S) = Max(S)
    BY DEF Telegram!Max, Max
  <2>5. PICK left, objs : left = r.left[p] /\ objs = r.objs[p]
    OBVIOUS
  <2>6. left \subseteq objs /\ left # {} /\ m = Max(left) /\ newest = Max(objs)
    BY <1>5, <1>6, <1>8, <2>4, <2>5
  <2>7. m \in left /\ (\A j \in left : Max(left) >= j) /\ newest \in objs
    BY <2>3, <2>5, <2>6
  <2>8. \A j \in left : j <= m
    BY <2>1, <2>5, <2>6, <2>7
  <2> QED  BY <2>1, <2>5, <2>6, <2>7, <2>8, PeerNumbers
<1>10. PICK objs, left, looked :
         /\ objs = [r.objs EXCEPT ![p] = IF <<p, m>> \in peer_gone THEN @ \ {m} ELSE @]
         /\ left = [r.left EXCEPT ![p] = @ \ {m}]
         /\ looked = [r.looked EXCEPT ![p] = @ \union {m}]
  OBVIOUS
<1>11. PICK mode, sweep, head :
         /\ mode = [t.mode EXCEPT ![p] = IF r.by[p] = "head" THEN "sweep" ELSE "head"]
         /\ sweep = [t.sweep EXCEPT ![p] = IF r.by[p] = "sweep" THEN m ELSE @]
         /\ head = [t.head EXCEPT ![p] = IF r.by[p] = "head"
                                         THEN [cursor |-> m, newest |-> newest] ELSE @]
  OBVIOUS
<1>12. PICK u : u = [t EXCEPT !.rotation = q, !.mode = mode, !.sweep = sweep, !.head = head]
  OBVIOUS
<1>13. PICK new : new = [r EXCEPT !.at = q, !.left = left, !.looked = looked, !.objs = objs,
                                  !.payload = u]
  OBVIOUS
<1>14. /\ t.peer \in Peers /\ t.rotation \in Peers
       /\ t.mode \in [Peers -> {"head", "sweep"}]
       /\ t.sweep \in [Peers -> {0} \union Telegram!Messages]
       /\ t.head \in [Peers -> [cursor : {0} \union Telegram!Messages,
                                newest : {0} \union Telegram!Messages]]
  BY <1>3 DEF Telegram!Payloads, Peers
<1>15. /\ peer_run' = new
       /\ UNCHANGED <<Telegram!chat, Telegram!rows, peer_unread, peer_unseen>>
  <2>1. Telegram!Later(p, 1) = q /\ Telegram!Rotated(p) = q
    BY <1>7, PeerNumbers DEF Telegram!Rotated
  <2>2. /\ peer_run' = [r EXCEPT
            !.at = q, !.left[p] = @ \ {m}, !.looked[p] = @ \union {m},
            !.objs[p] = IF <<p, m>> \in peer_gone THEN @ \ {m} ELSE @,
            !.payload.rotation = q,
            !.payload.mode[p] = IF r.by[p] = "head" THEN "sweep" ELSE "head",
            !.payload.sweep[p] = IF r.by[p] = "sweep" THEN m ELSE @,
            !.payload.head[p] = IF r.by[p] = "head"
                                THEN [cursor |-> m, newest |-> newest] ELSE @]
        /\ UNCHANGED <<Telegram!chat, Telegram!rows, peer_unread, peer_unseen>>
    <3>1. 0 .. (Telegram!N - 1) = 0 .. 1
      BY PeerNumbers
    <3>2. p = Telegram!Later(r.at, Telegram!Min(
                {n \in 0 .. (Telegram!N - 1) : Telegram!Open(Telegram!Later(r.at, n))}))
      BY <1>6, <3>1
    <3> QED  BY <1>1, <1>8, <2>1, <3>2 DEF Telegram!Lookup
  <2>3. r \in [phase : {"looking"}, objs : PeerLists, latest : [Peers -> Nat],
               payload : Telegram!Payloads, first : Peers, left : PeerLists,
               by : [Peers -> {"head", "sweep"}], at : Peers, looked : PeerLists]
    BY <1>2 DEF PeerRuns
  <2>4. PICK base : base = [r EXCEPT !.at = q, !.left = left, !.looked = looked,
                                     !.objs = objs]
    OBVIOUS
  <2>5. PICK md, sw, hd : /\ md = (IF r.by[p] = "head" THEN "sweep" ELSE "head")
                          /\ sw = (IF r.by[p] = "sweep" THEN m ELSE t.sweep[p])
                          /\ hd = (IF r.by[p] = "head"
                                   THEN [cursor |-> m, newest |-> newest] ELSE t.head[p])
    OBVIOUS
  <2>6. /\ DOMAIN base = DOMAIN r /\ base.payload = t
        /\ new = [base EXCEPT !.payload = u]
    BY <1>1, <1>13, <2>3, <2>4
  <2>7. [r EXCEPT
            !.at = q, !.left[p] = @ \ {m}, !.looked[p] = @ \union {m},
            !.objs[p] = IF <<p, m>> \in peer_gone THEN @ \ {m} ELSE @] = base
    BY <1>10, <2>3, <2>4
  <2>8. peer_run' = [base EXCEPT
            !.payload.rotation = q, !.payload.mode[p] = md,
            !.payload.sweep[p] = sw, !.payload.head[p] = hd]
    BY <1>1, <2>2, <2>3, <2>5, <2>7
  <2>9. u = [t EXCEPT !.rotation = q, !.mode[p] = md, !.sweep[p] = sw, !.head[p] = hd]
    BY <1>3, <1>11, <1>12, <2>5 DEF Telegram!Payloads
  <2>10. [base EXCEPT
            !.payload.rotation = q, !.payload.mode[p] = md,
            !.payload.sweep[p] = sw, !.payload.head[p] = hd] = [base EXCEPT !.payload = u]
    BY <1>3, <2>6, <2>9 DEF Telegram!Payloads
  <2> QED  BY <2>2, <2>6, <2>8, <2>10
<1>16. /\ mode \in [Peers -> {"head", "sweep"}]
       /\ sweep \in [Peers -> {0} \union Telegram!Messages]
       /\ head \in [Peers -> [cursor : {0} \union Telegram!Messages,
                              newest : {0} \union Telegram!Messages]]
  BY <1>9, <1>11, <1>14
<1>17. /\ u \in Telegram!Payloads /\ u.peer = t.peer /\ u.rotation = q /\ u.mode = mode
       /\ u.sweep = sweep
  BY <1>3, <1>7, <1>12, <1>16 DEF Telegram!Payloads, Peers
<1>18. objs \in PeerLists /\ left \in PeerLists /\ looked \in PeerLists
  BY <1>3, <1>9, <1>10 DEF PeerLists
<1>19. /\ new \in PeerRuns /\ new.phase = "looking" /\ new.payload = u
       /\ new.first = r.first /\ new.objs = objs /\ new.latest = r.latest
       /\ new.looked = looked
  BY <1>2, <1>7, <1>13, <1>17, <1>18 DEF PeerRuns
<1>20. \A o \in Peers : /\ objs[o] \subseteq r.objs[o]
                        /\ \A k \in r.objs[o] : k \in objs[o] \/ (o = p /\ k = m)
                        /\ looked[o] = IF o = p THEN {m} ELSE {}
                        /\ o # p => mode[o] = t.mode[o] /\ sweep[o] = t.sweep[o]
  BY <1>3, <1>5, <1>10, <1>11, <1>14 DEF PeerLists
<1>21. /\ mode[p] = (IF t.mode[p] = "head" THEN "sweep" ELSE "head")
       /\ sweep[p] = (IF t.mode[p] = "sweep" THEN m ELSE t.sweep[p])
       /\ t.mode[p] \in {"head", "sweep"} /\ t.sweep[p] \in 0 .. MaxPosts
  <2>1. t.sweep[p] \in {0} \union Telegram!Messages
    BY <1>14
  <2> QED  BY <1>5, <1>11, <1>14, <2>1, PeerNumbers
<1>22. ASSUME NEW o \in Peers, NEW k \in peer_objs[o], ~ (o = p /\ k = m)
       PROVE  k \in objs[o] /\ Wait(u, o, k) < Wait(t, o, k)
  <2>1. k \in r.objs[o] /\ k \in objs[o] /\ k \in Telegram!Messages
    BY <1>3, <1>5, <1>20, <1>22 DEF PeerLists
  <2>2. PICK c, d : c = SweepTo(t.sweep[o], k) /\ d = SweepTo(u.sweep[o], k)
    OBVIOUS
  <2>3. c \in Int /\ d \in Int
    <3>1. t.sweep[o] \in {0} \union Telegram!Messages
      BY <1>14
    <3>2. u.sweep[o] \in {0} \union Telegram!Messages
      BY <1>16, <1>17
    <3> QED  BY <2>1, <2>2, <3>1, <3>2, PeerNumbers DEF SweepTo
  <2>4. CASE o # p
    <3>1. o = q /\ r.at = p
      <4>1. o = q
        BY <1>7, <2>4
      <4>2. r.left[o] # {}
        BY <1>5, <2>1
      <4>3. r.at = p \/ r.at = q
        BY <1>3, <1>7
      <4> QED  BY <1>6, <4>1, <4>2, <4>3
    <3>2. t.rotation # o /\ u.rotation = o /\ u.mode[o] = t.mode[o] /\ d = c
      BY <1>5, <1>7, <1>17, <1>20, <2>2, <2>4, <3>1
    <3> QED  BY <2>1, <2>2, <2>3, <3>2 DEF Wait
  <2>5. CASE o = p /\ t.mode[p] = "head"
    <3>1. u.rotation # o /\ u.mode[o] = "sweep" /\ d = c /\ t.mode[o] # "sweep"
      BY <1>7, <1>17, <1>21, <2>2, <2>5
    <3> QED  BY <2>1, <2>2, <2>3, <3>1 DEF Wait
  <2>6. CASE o = p /\ t.mode[p] = "sweep"
    <3>1. r.left[p] = SweepLeft(r, p)
      BY <1>5, <2>6
    <3>2. /\ k # m /\ k \in r.objs[p] /\ m \in r.left[p] /\ (\A j \in r.left[p] : j <= m)
          /\ r.objs[p] \in SUBSET Telegram!Messages
      BY <1>3, <1>9, <1>22, <2>1, <2>6 DEF PeerLists
    <3>3. SweepTo(m, k) < SweepTo(t.sweep[p], k)
      <4>1. PICK all, some, at : /\ all = r.objs[p] /\ some = r.left[p] /\ at = t.sweep[p]
        OBVIOUS
      <4>2. some = (IF at = 0 \/ {j \in all : j < at} = {} THEN all
                    ELSE {j \in all : j < at})
        BY <1>1, <3>1, <4>1 DEF SweepLeft
      <4>3. SweepTo(m, k) < SweepTo(at, k)
        BY <1>21, <3>2, <4>1, <4>2, SweepGoesOn
      <4> QED  BY <4>1, <4>3
    <3>4. d < c
      BY <1>17, <1>21, <2>2, <2>6, <3>3
    <3>5. u.rotation # o /\ u.mode[o] = "head" /\ t.mode[o] = "sweep"
      BY <1>7, <1>17, <1>21, <2>6
    <3> QED  BY <2>1, <2>2, <2>3, <3>4, <3>5 DEF Wait
  <2> QED  BY <1>21, <2>4, <2>5, <2>6
<1>23. \A o \in Peers, k \in Telegram!Messages : Wait(t, o, k) = Wait(peer_payload, o, k)
  BY <1>5 DEF SameTurns, Wait
<1>24. Looked(new, p, m)
  <2>1. \A o \in Peers : peer_objs[o] \subseteq Telegram!Messages
    BY DEF PeersInv, PeerLists
  <2> QED  BY <1>19, <1>20, <1>22, <1>23, <2>1 DEF Looked
<1>25. ASSUME NEW o \in Peers
       PROVE  objs[o] \subseteq 1 .. r.latest[o] /\ r.latest[o] <= peer_sent[o]
  BY <1>2, <1>20 DEF PeerRun
<1>26. r.first = peer_payload.peer /\ u.peer = Other(r.first)
  BY <1>1, <1>2, <1>17 DEF PeerRun
<1>27. PeerRun(new)
  BY <1>9, <1>19, <1>24, <1>25, <1>26 DEF PeerRun
<1> QED  BY <1>15, <1>19, <1>27, PeerRunMoves

\* The job commits: whoever was not read, and whatever was not looked up, comes closer.
LEMMA PeersEnd ==
  ASSUME PeersInv, Telegram!EndRun
  PROVE  PeersInv'
<1>1. PICK r, t : r = peer_run /\ t = r.payload
  OBVIOUS
<1>2. r \in PeerRuns /\ PeerRun(r) /\ r.phase = "looking" /\ ~ Telegram!May
  BY <1>1, PeerNumbers DEF Telegram!EndRun, PeersInv
<1>3. /\ r.objs \in PeerLists /\ r.latest \in [Peers -> Nat]
      /\ t \in Telegram!Payloads /\ r.first \in Peers /\ r.looked \in PeerLists
      /\ r.left \in PeerLists
  BY <1>1, <1>2 DEF PeerRuns
<1>4. /\ peer_objs' = r.objs /\ peer_latest' = r.latest /\ peer_payload' = t
      /\ peer_run' = Telegram!Idle
      /\ UNCHANGED <<peer_sent, peer_gone>>
  BY <1>1 DEF Telegram!EndRun, Telegram!chat
<1>5. /\ peer_unread \in [Peers -> Nat]
      /\ peer_unseen \in [Peers -> [Telegram!Messages -> Nat]]
      /\ peer_unread[peer_payload.peer] <= 1 /\ peer_unread[Other(peer_payload.peer)] = 0
      /\ peer_objs \in PeerLists
  BY DEF PeersInv
<1>6. peer_unread' = [p \in Peers |-> IF p = r.first THEN 0 ELSE peer_unread[p] + 1]
  <2>1. {Telegram!Later(r.first, n) : n \in 0 .. (1 - 1)} = {r.first}
    <3>1. Telegram!Later(r.first, 0) = r.first
      BY <1>3, PeerNumbers
    <3>2. 0 .. (1 - 1) = {0}
      OBVIOUS
    <3> QED  BY <3>1, <3>2
  <2> QED  BY <1>1, <2>1, PeerNumbers DEF Telegram!EndRun, Peers
<1>7. peer_unseen' = [p \in Peers |-> [m \in Telegram!Messages |->
            IF m \in r.looked[p] \/ m \notin peer_objs[p] THEN 0 ELSE peer_unseen[p][m] + 1]]
  BY <1>1 DEF Telegram!EndRun, Peers
<1>8. peer_unread' \in [Peers -> Nat] /\ peer_unseen' \in [Peers -> [Telegram!Messages -> Nat]]
  BY <1>5, <1>6, <1>7
<1>9. t.peer = Other(r.first) /\ r.first = peer_payload.peer
  BY <1>1, <1>2 DEF PeerRun
<1>10. peer_unread'[t.peer] <= 1 /\ peer_unread'[Other(t.peer)] = 0
  <2>1. /\ Other(r.first) \in Peers /\ Other(r.first) # r.first
        /\ Other(Other(r.first)) = r.first
    BY <1>3, PeerNumbers
  <2> QED  BY <1>3, <1>5, <1>6, <1>9, <2>1
<1>11. ASSUME NEW p \in Peers, NEW m \in Telegram!Messages
       PROVE  InTime(p, m)'
  <2>1. PICK seen : seen = peer_unseen'[p][m]
    OBVIOUS
  <2>2. /\ seen = (IF m \in r.looked[p] \/ m \notin peer_objs[p] THEN 0
                   ELSE peer_unseen[p][m] + 1)
        /\ peer_unseen[p][m] \in Nat
    BY <1>5, <1>7, <2>1
  <2>3. SUFFICES IF m \in r.objs[p] THEN seen + Wait(t, p, m) <= 4 * MaxPosts
                 ELSE seen = 0
    BY <1>4, <2>1 DEF InTime, Wait
  <2>4. Wait(t, p, m) \in 1 .. (4 * MaxPosts)
    BY <1>3, WaitBounds
  <2>5. CASE m \notin peer_objs[p] \/ m \in r.looked[p]
    <3>1. seen = 0
      BY <2>2, <2>5
    <3> QED  BY <2>4, <3>1, PeerNumbers
  <2>6. CASE m \in peer_objs[p] /\ m \notin r.looked[p]
    <3>1. CASE NoneLooked(r)
      <4>1. \A q \in Peers : r.looked[q] = {} /\ (r.left[q] = {} => r.objs[q] = {})
                             /\ peer_objs[q] \subseteq r.objs[q]
        BY <1>2, <3>1 DEF NoneLooked
      <4>2. Telegram!Calls = 0
        BY <1>1, <1>3, <4>1, PeerCalls
      <4>3. ~ Telegram!Open(p)
        BY <1>2, <4>2 DEF Telegram!May, Peers
      <4>4. r.left[p] = {}
        <5>1. Telegram!Cardinality({}) = 0
          <6>1. Telegram!Cardinality({}) = Cardinality({})
            BY DEF Telegram!Cardinality, Cardinality
          <6> QED  BY <6>1, FS_EmptySet
        <5>2. peer_run.looked[p] = {} /\ r.left[p] = peer_run.left[p]
          BY <1>1, <4>1
        <5>3. ~ (peer_run.left[p] # {} /\ Telegram!Cardinality(peer_run.looked[p]) < 1)
          BY <4>3 DEF Telegram!Open
        <5>4. 0 < 1
          OBVIOUS
        <5> QED  BY <5>1, <5>2, <5>3, <5>4
      <4> QED  BY <2>6, <4>1, <4>4
    <3>2. CASE \E q \in Peers, k \in Telegram!Messages : Looked(r, q, k)
      <4>1. PICK q \in Peers, k \in Telegram!Messages : Looked(r, q, k)
        BY <3>2
      <4>2. ~ (p = q /\ m = k)
        BY <2>6, <4>1 DEF Looked
      <4>3. m \in r.objs[p] /\ Wait(t, p, m) < Wait(peer_payload, p, m)
        BY <1>1, <2>6, <4>1, <4>2 DEF Looked
      <4>4. peer_unseen[p][m] + Wait(peer_payload, p, m) <= 4 * MaxPosts
        BY <2>6 DEF PeersInv, InTime
      <4>5. Wait(peer_payload, p, m) \in 1 .. (4 * MaxPosts)
        BY PeerTypes, WaitBounds
      <4>6. PICK a, b, c : /\ a = Wait(t, p, m) /\ b = Wait(peer_payload, p, m)
                           /\ c = peer_unseen[p][m]
        OBVIOUS
      <4>7. c + 1 + a <= 4 * MaxPosts
        BY <2>2, <2>4, <4>3, <4>4, <4>5, <4>6, PeerNumbers
      <4> QED  BY <2>2, <2>6, <4>3, <4>6, <4>7
    <3> QED  BY <1>2, <3>1, <3>2 DEF PeerRun
  <2> QED  BY <2>5, <2>6
<1>12. Telegram!TypeOK'
  <2>1. \A p \in Peers : r.objs[p] \subseteq 1 .. r.latest[p] /\ r.latest[p] <= peer_sent[p]
    BY <1>2 DEF PeerRun
  <2> QED  BY <1>3, <1>4, <2>1, PeerNumbers, PeerTypes DEF Telegram!TypeOK, Peers
<1> QED  BY <1>3, <1>4, <1>8, <1>10, <1>11, <1>12 DEF PeersInv

LEMMA PeersStart ==
  ASSUME Telegram!Init
  PROVE  PeersInv
<1>1. /\ peer_sent = [p \in Peers |-> 0] /\ peer_gone = {}
      /\ peer_objs = [p \in Peers |-> {}] /\ peer_latest = peer_sent
      /\ peer_payload = [peer |-> 1, rotation |-> 1, sweep |-> peer_sent,
                         mode |-> [p \in Peers |-> "sweep"],
                         head |-> [p \in Peers |-> [cursor |-> 0, newest |-> 0]]]
      /\ peer_run = Telegram!Idle /\ peer_unread = peer_sent
      /\ peer_unseen = [p \in Peers |-> [m \in Telegram!Messages |-> 0]]
  BY DEF Telegram!Init, Peers
<1>2. PICK head, mode : /\ head = [p \in Peers |-> [cursor |-> 0, newest |-> 0]]
                        /\ mode = [p \in Peers |-> "sweep"]
  OBVIOUS
<1>3. /\ peer_sent \in [Peers -> {0} \union Telegram!Messages]
      /\ head \in [Peers -> [cursor : {0} \union Telegram!Messages,
                             newest : {0} \union Telegram!Messages]]
      /\ mode \in [Peers -> {"head", "sweep"}] /\ 1 \in Peers
  BY <1>1, <1>2 DEF Peers
<1>4. peer_payload \in Telegram!Payloads /\ peer_payload.peer = 1
  BY <1>1, <1>2, <1>3 DEF Telegram!Payloads, Peers
<1>5. Telegram!TypeOK
  BY <1>1, <1>4, PeerNumbers DEF Telegram!TypeOK, Peers
<1>6. /\ peer_unread \in [Peers -> Nat]
      /\ peer_unseen \in [Peers -> [Telegram!Messages -> Nat]]
      /\ peer_objs \in PeerLists /\ peer_latest \in [Peers -> Nat]
  BY <1>1 DEF PeerLists
<1>7. peer_unread[1] <= 1 /\ peer_unread[Other(1)] = 0
  BY <1>1 DEF Peers, Other
<1>8. \A p \in Peers, m \in Telegram!Messages : InTime(p, m)
  BY <1>1 DEF InTime
<1> QED  BY <1>1, <1>4, <1>5, <1>6, <1>7, <1>8 DEF PeersInv

LEMMA PeersStep ==
  ASSUME PeersInv, Telegram!Next \/ UNCHANGED peerVars
  PROVE  PeersInv'
<1>1. CASE UNCHANGED peerVars
  <2>1. /\ peer_sent \in [Peers -> 0 .. MaxPosts]
        /\ peer_gone \subseteq Peers \X Telegram!Messages
    BY PeerTypes
  <2>2. \A q \in Peers : peer_sent[q] <= peer_sent[q]
    BY <2>1, PeerNumbers
  <2> QED  BY <1>1, <2>1, <2>2, PeersMove DEF peerVars
<1>2. CASE Telegram!Next
  BY <1>2, PeerChats, PeerBegins, PeerSyncs, PeerPlans, PeerLooksUp, PeersEnd
  DEF Telegram!Next
<1> QED  BY <1>1, <1>2

\* A peer has every other run, and a message its turn within two sweeps of its peer.
LEMMA PeersPromise ==
  PeersInv => Telegram!EveryoneHasATurn
<1> SUFFICES ASSUME PeersInv
             PROVE  Telegram!EveryoneHasATurn
  OBVIOUS
<1>1. Telegram!Turns(Telegram!N, 1) = 2
  BY PeerNumbers DEF Telegram!Turns
<1>2. \A p \in Peers : peer_unread[p] < 2
  <2>1. /\ peer_unread[peer_payload.peer] <= 1
        /\ peer_unread[Other(peer_payload.peer)] = 0
        /\ peer_unread \in [Peers -> Nat]
    BY DEF PeersInv
  <2>2. \A p \in Peers : p = peer_payload.peer \/ p = Other(peer_payload.peer)
    BY PeerTypes, PeerNumbers
  <2> QED  BY <2>1, <2>2
<1>3. ASSUME NEW p \in Peers, NEW m \in Telegram!Messages
      PROVE  peer_unseen[p][m] <= 2 * MaxPosts * 2
  <2>1. Wait(peer_payload, p, m) \in 1 .. (4 * MaxPosts)
    BY PeerTypes, WaitBounds
  <2>2. InTime(p, m) /\ peer_unseen[p][m] \in Nat
    BY DEF PeersInv
  <2>3. CASE m \in peer_objs[p]
    <3>1. PICK a, c : a = Wait(peer_payload, p, m) /\ c = peer_unseen[p][m]
      OBVIOUS
    <3>2. a >= 1 /\ a \in Nat /\ c \in Nat /\ c + a <= 4 * MaxPosts
      BY <2>1, <2>2, <2>3, <3>1, PeerNumbers DEF InTime
    <3> QED  BY <3>1, <3>2, PeerNumbers
  <2>4. CASE m \notin peer_objs[p]
    BY <2>2, <2>4, PeerNumbers DEF InTime
  <2> QED  BY <2>3, <2>4
<1> QED  BY <1>1, <1>2, <1>3 DEF Telegram!EveryoneHasATurn, Peers

=============================================================================
