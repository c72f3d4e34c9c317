---------------------------- MODULE ChatPageProofs ----------------------------
(***************************************************************************)
(* Proofs about ChatPage: one recovery at a time, with the identity the    *)
(* page has, makes no more guests than sessions went stale; a send is one  *)
(* question at the desk, for its post is out, given up or taken, and never *)
(* two of these; what is on the screen stays in its place for as long as   *)
(* the desk has it, and a send that ends is accounted for. And proofs      *)
(* about LiveTurn, whose card the page shows: what the stream has said     *)
(* stays on it, whatever the polls bring.                                  *)
(***************************************************************************)
EXTENDS ChatPage, LiveTurn, FiniteSetTheorems, SequenceTheorems, TLAPS

-----------------------------------------------------------------------------
(* The guest's identity.                                                    *)

\* A recovery asks as the page's guest; a guest whose session stands is one more than the
\* sessions that went stale, at most.
GuestInv ==
    /\ me \in Nat /\ expired \in Nat /\ recoveries \in 0..1
    /\ recoveries > 0 => asked = me
    /\ me \in known => me <= 1 + expired
    /\ me \notin known => me <= expired

\* What no action but those of the session touches.
SessionStays == UNCHANGED <<known, expired, me, recoveries, asked>>

(***************************************************************************)
(* A request that is denied joins the recovery, or begins it as me.        *)
(***************************************************************************)
LEMMA RestoreKeeps ==
  ASSUME GuestInv, Restore, UNCHANGED <<known, expired, me>>
  PROVE  GuestInv'
<1>1. recoveries' \in 0..1 /\ (recoveries' > 0 => asked' = me)
  BY DEF GuestInv, Restore
<1> QED
  BY <1>1 DEF GuestInv

(***************************************************************************)
(* POST guest resumes me, or makes a guest in the place of one that is not *)
(* known.                                                                  *)
(***************************************************************************)
LEMMA RecoveredKeeps ==
  ASSUME GuestInv, Recovered
  PROVE  GuestInv'
<1>1. /\ recoveries > 0 /\ recoveries' = recoveries - 1
      /\ me' = (IF asked \in known THEN me ELSE me + 1)
      /\ known' = known \cup {me'}
      /\ UNCHANGED <<expired, asked>>
  BY DEF Recovered
<1>2. me' \in Nat /\ me' <= 1 + expired /\ recoveries' = 0
  BY <1>1 DEF GuestInv
<1>3. me' \in known'
  BY <1>1
<1> QED
  BY <1>1, <1>2, <1>3 DEF GuestInv

(***************************************************************************)
(* A session that ends is counted.                                         *)
(***************************************************************************)
LEMMA ExpiresKeeps ==
  ASSUME GuestInv, Expires
  PROVE  GuestInv'
<1>1. /\ me \in known /\ known' = known \ {me} /\ expired' = expired + 1
      /\ UNCHANGED <<me, recoveries, asked>>
  BY DEF Expires, session
<1>2. expired' \in Nat /\ me <= expired' /\ me \notin known'
  BY <1>1 DEF GuestInv
<1> QED
  BY <1>1, <1>2 DEF GuestInv

(***************************************************************************)
(* Every step keeps the guest's invariant.                                 *)
(***************************************************************************)
LEMMA GuestStep == GuestInv /\ [Next]_vars => GuestInv'
<1> SUFFICES ASSUME GuestInv, [Next]_vars PROVE GuestInv'
  OBVIOUS
<1>1. ASSUME SessionStays PROVE GuestInv'
  BY <1>1 DEF SessionStays, GuestInv
<1>2. CASE Refresh
  BY <1>1, <1>2 DEF Refresh, SessionStays, gateway, session
<1>3. CASE Type
  BY <1>1, <1>3 DEF Type, SessionStays, gateway, session
<1>4. CASE Send
  BY <1>1, <1>4 DEF Send, SessionStays, gateway, session
<1>5. CASE Stop
  BY <1>1, <1>5 DEF Stop, SessionStays, session
<1>6. CASE Expires
  BY <1>6, ExpiresKeeps
<1>7. CASE RequestMoves
  <2>1. CASE ChatCreated
    BY <1>1, <2>1 DEF ChatCreated, SessionStays, session
  <2>2. CASE PostTaken
    BY <1>1, <2>2 DEF PostTaken, SessionStays, session
  <2>3. CASE RequestFails
    BY <1>1, <2>3 DEF RequestFails, SessionStays, gateway, session
  <2>4. CASE RequestDenied
    BY <2>4, RestoreKeeps DEF RequestDenied, gateway
  <2>5. CASE StoppedReplay
    BY <1>1, <2>5 DEF StoppedReplay, SessionStays, gateway, session
  <2> QED
    BY <1>7, <2>1, <2>2, <2>3, <2>4, <2>5 DEF RequestMoves
<1>8. CASE StreamEnds
  BY <1>1, <1>8 DEF StreamEnds, StreamBreaks, StreamFails, StreamCompletes, SessionStays, gateway, session
<1>9. CASE RecoveryMoves
  <2>1. CASE RecoveryFails
    <3>1. recoveries' = recoveries - 1 /\ recoveries > 0 /\ UNCHANGED <<known, expired, me, asked>>
      BY <2>1 DEF RecoveryFails, gateway
    <3>2. recoveries' = 0
      BY <3>1 DEF GuestInv
    <3> QED
      BY <3>1, <3>2 DEF GuestInv
  <2> QED
    BY <1>9, <2>1, RecoveredKeeps DEF RecoveryMoves
<1>10. ASSUME NEW stray \in strays, StrayArrives(stray) PROVE GuestInv'
  BY <1>1, <1>10 DEF StrayArrives, SessionStays, session
<1>11. ASSUME NEW load \in loads, LoadMoves(load) PROVE GuestInv'
  <2>1. CASE LoadDenied(load)
    BY <2>1, RestoreKeeps DEF LoadDenied, gateway
  <2>2. CASE LoadRead(load) \/ LoadLands(load) \/ LoadFails(load)
    BY <1>1, <2>2 DEF LoadRead, LoadLands, LoadFails, SessionStays, gateway, session
  <2> QED
    BY <1>11, <2>1, <2>2 DEF LoadMoves
<1>12. ASSUME NEW n \in Sends, TurnEnds(n) PROVE GuestInv'
  BY <1>1, <1>12 DEF TurnEnds, TurnCompletes, TurnFails, SessionStays, session
<1>13. ASSUME NEW chat \in Chats, DeskPosts(chat) PROVE GuestInv'
  BY <1>1, <1>13 DEF DeskPosts, SessionStays, session
<1>14. CASE UNCHANGED vars
  BY <1>1, <1>14 DEF vars, SessionStays
<1> QED
  BY <1>2, <1>3, <1>4, <1>5, <1>6, <1>7, <1>8, <1>9, <1>10, <1>11, <1>12, <1>13, <1>14 DEF Next

(***************************************************************************)
(* A burst of refused requests makes one guest (recoveryInFlight).         *)
(***************************************************************************)
THEOREM OneGuestPerExpiry == Spec => []GuestsFollowExpiry
<1>1. Init => GuestInv
  <2> HAVE Init
  <2>1. me = 1 /\ known = {1} /\ expired = 0 /\ recoveries = 0 /\ asked = 1
    BY DEF Init
  <2> QED
    BY <2>1 DEF GuestInv
<1>2. GuestInv => GuestsFollowExpiry
  BY DEF GuestInv, GuestsFollowExpiry
<1> QED
  BY <1>1, <1>2, GuestStep, PTL DEF Spec
-----------------------------------------------------------------------------
(* The questions at the desk.                                               *)

SendRecord ==
    [n : 0..MaxSends, stage : {"idle", "creating", "posting", "reading", "loading", "reconciling"},
     chat : {Landing} \cup Chats, from : {Landing} \cup Chats, words : Texts \cup {""},
     as : Guests, for : Guests, waits : BOOLEAN, replayed : BOOLEAN, halted : BOOLEAN]

StrayRecord == [n : 0..MaxSends, chat : {Landing} \cup Chats, as : Guests, words : Texts \cup {""}]

(***************************************************************************)
(* Sends are numbers.                                                      *)
(***************************************************************************)
LEMMA SendsAre ==
  /\ MaxSends \in Nat
  /\ \A n \in Sends : n \in Nat /\ n > 0 /\ n # 0 /\ n \in 0..MaxSends
  /\ \A n \in 0..MaxSends : n \in Nat /\ (n > 0 => n \in Sends) /\ \A k \in 1..n : k \in Sends
<1>1. MaxSends \in Nat
  BY ChatPageAssumption
<1> QED
  BY <1>1 DEF Sends

TurnStates == {"none", "runs", "closing", "completed", "failed"}

Typed ==
    /\ rows \in [Chats -> Seq(Rows)]
    /\ turn \in [Sends -> TurnStates]
    /\ posts \in Nat
    /\ me \in Guests
    /\ route \in {Landing} \cup Chats
    /\ draft \in Texts \cup {""}
    /\ send \in SendRecord
    /\ strays \subseteq StrayRecord

\* The posts that the desk took, and those that were given up.
Taken == {n \in Sends : turn[n] # "none"}
GivenUp == {stray.n : stray \in strays}

Out == send.stage \in {"creating", "posting"}

\* What is asked in a chat was taken, or was there before.
QuestionsWereTaken ==
    \A c \in Chats : \A i \in DOMAIN rows[c] :
        rows[c][i].who = "user" => rows[c][i].of \in Taken \cup {0}

\* A send whose request may still go out, or whose post was given up, was not taken; a post is
\* given up at most once, and then it is no longer out; later sends are nowhere.
PostInv ==
    /\ ASendIsStoredOnce
    /\ QuestionsWereTaken
    /\ \A n \in Taken : n <= send.n
    /\ Out => send.n > 0 /\ send.n \notin Taken /\ send.n \notin GivenUp
    /\ \A n \in GivenUp : n \in 1..send.n /\ n \notin Taken
    /\ \A one, other \in strays : one.n = other.n => one = other

Appends(chat, row) == rows' = [rows EXCEPT ![chat] = Append(@, row)]

\* What is there now was there before, or is this row at the end of this chat.
OnlyNew(chat, row) ==
    \A c \in Chats : \A i \in DOMAIN rows'[c] :
        \/ i \in DOMAIN rows[c] /\ rows'[c][i] = rows[c][i]
        \/ c = chat /\ i = Len(rows[c]) + 1 /\ rows'[c][i] = row

\* The questions of a chat were there before.
NoNewQuestion ==
    \A c \in Chats : \A i \in DOMAIN rows'[c] :
        rows'[c][i].who = "user" => i \in DOMAIN rows[c] /\ rows'[c][i] = rows[c][i]

(***************************************************************************)
(* A message that is appended leaves every other one in its place.         *)
(***************************************************************************)
LEMMA Appended ==
  ASSUME rows \in [Chats -> Seq(Rows)], NEW chat, NEW row \in Rows, Appends(chat, row)
  PROVE  rows' \in [Chats -> Seq(Rows)] /\ OnlyNew(chat, row)
<1>1. ASSUME NEW c \in Chats
      PROVE  /\ rows'[c] \in Seq(Rows)
             /\ \A i \in DOMAIN rows'[c] :
                   \/ i \in DOMAIN rows[c] /\ rows'[c][i] = rows[c][i]
                   \/ c = chat /\ i = Len(rows[c]) + 1 /\ rows'[c][i] = row
  <2>1. rows[c] \in Seq(Rows)
    OBVIOUS
  <2>2. CASE c = chat
    <3>1. rows'[c] = Append(rows[c], row)
      BY <2>2 DEF Appends
    <3> QED
      BY <2>1, <2>2, <3>1
  <2>3. CASE c # chat
    <3>1. rows'[c] = rows[c]
      BY <2>3 DEF Appends
    <3> QED
      BY <2>1, <3>1
  <2> QED
    BY <2>2, <2>3
<1>2. rows' \in [Chats -> Seq(Rows)]
  <2>1. DOMAIN rows' = Chats /\ rows' = [c \in Chats |-> rows'[c]]
    BY DEF Appends
  <2> QED
    BY <1>1, <2>1
<1> QED
  BY <1>1, <1>2 DEF OnlyNew

(***************************************************************************)
(* A chat that is emptied has a note, and the others are as they were.     *)
(***************************************************************************)
LEMMA ChatEmptied ==
  ASSUME rows \in [Chats -> Seq(Rows)], NEW n \in Nat, NEW chat,
         rows' = [rows EXCEPT ![chat] = Emptied(n)]
  PROVE  rows' \in [Chats -> Seq(Rows)] /\ NoNewQuestion
<1>1. Row(n, "note", "") \in Rows /\ Row(n, "note", "").who # "user"
  BY DEF Row, Rows
<1>2. Emptied(n) \in Seq(Rows) /\ \A i \in DOMAIN Emptied(n) : Emptied(n)[i].who # "user"
  <2>1. PICK row \in Rows : row = Row(n, "note", "")
    BY <1>1
  <2>2. <<row>> \in Seq(Rows) /\ \A i \in DOMAIN <<row>> : <<row>>[i] = row
    OBVIOUS
  <2> QED
    BY <1>1, <2>1, <2>2 DEF Emptied
<1>3. \A c \in Chats : rows'[c] = IF c = chat THEN Emptied(n) ELSE rows[c]
  OBVIOUS
<1> HIDE DEF Emptied
<1>4. rows' \in [Chats -> Seq(Rows)]
  <2>1. DOMAIN rows' = Chats /\ rows' = [c \in Chats |-> rows'[c]]
    OBVIOUS
  <2> QED
    BY <1>2, <1>3, <2>1
<1>5. NoNewQuestion
  BY <1>2, <1>3 DEF NoNewQuestion
<1> QED
  BY <1>4, <1>5

(***************************************************************************)
(* A message of the desk is no question.                                   *)
(***************************************************************************)
LEMMA NoQuestionAppended ==
  ASSUME rows \in [Chats -> Seq(Rows)], NEW chat, NEW row \in Rows, row.who # "user",
         Appends(chat, row)
  PROVE  rows' \in [Chats -> Seq(Rows)] /\ NoNewQuestion
  BY Appended DEF OnlyNew, NoNewQuestion

(***************************************************************************)
(* Without a new question each send is still asked at most once.           *)
(***************************************************************************)
LEMMA NoQuestionKeeps ==
  ASSUME ASendIsStoredOnce, NoNewQuestion
  PROVE  ASendIsStoredOnce'
<1> SUFFICES ASSUME NEW c \in Chats, NEW d \in Chats,
                    NEW i \in DOMAIN rows'[c], NEW j \in DOMAIN rows'[d],
                    /\ rows'[c][i].who = "user" /\ rows'[d][j].who = "user"
                    /\ rows'[c][i].of = rows'[d][j].of
             PROVE  c = d /\ i = j
  BY ZenonT(30) DEF ASendIsStoredOnce
<1>1. /\ i \in DOMAIN rows[c] /\ rows'[c][i] = rows[c][i]
      /\ j \in DOMAIN rows[d] /\ rows'[d][j] = rows[d][j]
  BY DEF NoNewQuestion
<1>2. /\ rows[c][i].who = "user" /\ rows[d][j].who = "user"
      /\ rows[c][i].of = rows[d][j].of
  BY <1>1
<1> QED
  BY <1>1, <1>2, Zenon DEF ASendIsStoredOnce

(***************************************************************************)
(* A question that was not taken may be stored.                            *)
(***************************************************************************)
LEMMA QuestionKeeps ==
  ASSUME rows \in [Chats -> Seq(Rows)], NEW n \in Nat, NEW chat, NEW words \in Texts \cup {""},
         Appends(chat, Row(n, "user", words)), ASendIsStoredOnce,
         \A c \in Chats : \A i \in DOMAIN rows[c] : rows[c][i].who = "user" => rows[c][i].of # n
  PROVE  /\ rows' \in [Chats -> Seq(Rows)]
         /\ ASendIsStoredOnce'
         /\ \A c \in Chats : \A i \in DOMAIN rows'[c] :
               \/ i \in DOMAIN rows[c] /\ rows'[c][i] = rows[c][i]
               \/ rows'[c][i].of = n
<1>1. Row(n, "user", words) \in Rows /\ Row(n, "user", words).of = n
  BY DEF Row, Rows
<1>2. rows' \in [Chats -> Seq(Rows)] /\ OnlyNew(chat, Row(n, "user", words))
  BY <1>1, Appended
<1>3. ASSUME NEW c \in Chats, NEW i \in DOMAIN rows'[c]
      PROVE  \/ i \in DOMAIN rows[c] /\ rows'[c][i] = rows[c][i]
             \/ c = chat /\ i = Len(rows[c]) + 1 /\ rows'[c][i].of = n
  BY <1>1, <1>2, <1>3 DEF OnlyNew
<1>4. ASSUME NEW c \in Chats, NEW i \in DOMAIN rows[c], rows[c][i].who = "user"
      PROVE  rows[c][i].of # n
  BY <1>4
<1>5. ASendIsStoredOnce'
  <2> SUFFICES ASSUME NEW c \in Chats, NEW d \in Chats,
                      NEW i \in DOMAIN rows'[c], NEW j \in DOMAIN rows'[d],
                      /\ rows'[c][i].who = "user" /\ rows'[d][j].who = "user"
                      /\ rows'[c][i].of = rows'[d][j].of
               PROVE  c = d /\ i = j
    BY ZenonT(30) DEF ASendIsStoredOnce
  <2>1. /\ \/ i \in DOMAIN rows[c] /\ rows'[c][i] = rows[c][i]
           \/ c = chat /\ i = Len(rows[c]) + 1 /\ rows'[c][i].of = n
        /\ \/ j \in DOMAIN rows[d] /\ rows'[d][j] = rows[d][j]
           \/ d = chat /\ j = Len(rows[d]) + 1 /\ rows'[d][j].of = n
    BY <1>3
  <2>2. CASE i \in DOMAIN rows[c] /\ rows'[c][i] = rows[c][i]
    <3>1. rows'[c][i].of # n
      BY <1>4, <2>2
    <3>2. j \in DOMAIN rows[d] /\ rows'[d][j] = rows[d][j]
      BY <2>1, <3>1
    <3>3. /\ rows[c][i].who = "user" /\ rows[d][j].who = "user"
          /\ rows[c][i].of = rows[d][j].of
      BY <2>2, <3>2
    <3> QED
      BY <2>2, <3>2, <3>3, Zenon DEF ASendIsStoredOnce
  <2>3. CASE c = chat /\ i = Len(rows[c]) + 1 /\ rows'[c][i].of = n
    <3>1. ~(j \in DOMAIN rows[d] /\ rows'[d][j] = rows[d][j])
      BY <1>4, <2>3
    <3> QED
      BY <2>1, <2>3, <3>1
  <2> QED
    BY <2>1, <2>2, <2>3
<1> QED
  BY <1>2, <1>3, <1>5

(***************************************************************************)
(* A post that the desk takes is stored once, or empties the chat.         *)
(***************************************************************************)
LEMMA StoresKeeps ==
  ASSUME Typed, PostInv, NEW n \in Sends, n \notin Taken, NEW chat, NEW words \in Texts \cup {""},
         NEW then \in {"runs", "closing"}, Stores(n, chat, words, then)
  PROVE  /\ rows' \in [Chats -> Seq(Rows)] /\ turn' \in [Sends -> TurnStates]
         /\ ASendIsStoredOnce' /\ QuestionsWereTaken'
         /\ Taken' = Taken \cup {n}
<1>1. n \in Nat /\ n # 0
  BY SendsAre
<1>2. PICK to \in {"runs", "closing", "completed"} : turn' = [turn EXCEPT ![n] = to]
  BY DEF Stores
<1>3. turn' \in [Sends -> TurnStates] /\ Taken' = Taken \cup {n}
  BY <1>2 DEF Taken, Typed, TurnStates
<1>4. rows \in [Chats -> Seq(Rows)] /\ ASendIsStoredOnce /\ QuestionsWereTaken
  BY DEF Typed, PostInv
<1>5. ASSUME rows' \in [Chats -> Seq(Rows)], ASendIsStoredOnce',
             \A c \in Chats : \A i \in DOMAIN rows'[c] : rows'[c][i].who = "user" =>
                \/ i \in DOMAIN rows[c] /\ rows'[c][i] = rows[c][i]
                \/ rows'[c][i].of = n
      PROVE  /\ rows' \in [Chats -> Seq(Rows)] /\ turn' \in [Sends -> TurnStates]
             /\ ASendIsStoredOnce' /\ QuestionsWereTaken'
             /\ Taken' = Taken \cup {n}
  <2> HIDE DEF Taken
  <2>1. QuestionsWereTaken'
    BY <1>3, <1>4, <1>5 DEF QuestionsWereTaken
  <2> QED
    BY <1>3, <1>5, <2>1
<1>6. CASE Resets(words)
  <2>1. rows' = [rows EXCEPT ![chat] = Emptied(n)]
    BY <1>6 DEF Stores
  <2>2. rows' \in [Chats -> Seq(Rows)] /\ NoNewQuestion
    BY <1>1, <1>4, <2>1, ChatEmptied
  <2> QED
    BY <1>4, <1>5, <2>2, NoQuestionKeeps DEF NoNewQuestion
<1>7. CASE ~Resets(words)
  <2>1. Appends(chat, Row(n, "user", words))
    BY <1>7 DEF Stores, Appends
  <2>2. \A c \in Chats : \A i \in DOMAIN rows[c] : rows[c][i].who = "user" => rows[c][i].of # n
    BY <1>1, <1>4 DEF QuestionsWereTaken
  <2>3. /\ rows' \in [Chats -> Seq(Rows)] /\ ASendIsStoredOnce'
        /\ \A c \in Chats : \A i \in DOMAIN rows'[c] :
              \/ i \in DOMAIN rows[c] /\ rows'[c][i] = rows[c][i]
              \/ rows'[c][i].of = n
    BY <1>1, <1>4, <2>1, <2>2, QuestionKeeps
  <2> QED
    BY <1>5, <2>3
<1> QED
  BY <1>6, <1>7

(***************************************************************************)
(* A step that neither stores nor gives up a post nor begins a send.       *)
(***************************************************************************)
LEMMA QuietKeeps ==
  ASSUME PostInv, ASendIsStoredOnce', NoNewQuestion, Taken' = Taken, UNCHANGED strays,
         send'.n = send.n, Out' => Out
  PROVE  PostInv'
<1>1. GivenUp' = GivenUp
  BY DEF GivenUp
<1>2. QuestionsWereTaken'
  BY DEF PostInv, QuestionsWereTaken, NoNewQuestion
<1> QED
  BY <1>1, <1>2 DEF PostInv

(***************************************************************************)
(* No message, no other question.                                          *)
(***************************************************************************)
LEMMA SameRows ==
  ASSUME ASendIsStoredOnce, rows' = rows
  PROVE  ASendIsStoredOnce' /\ NoNewQuestion
<1>1. NoNewQuestion
  BY DEF NoNewQuestion
<1> QED
  BY <1>1, NoQuestionKeeps

(***************************************************************************)
(* A turn whose stream is closed was taken before and is taken still.      *)
(***************************************************************************)
LEMMA TakenStands ==
  ASSUME Typed, turn' \in {turn, Closed}
  PROVE  turn' \in [Sends -> TurnStates] /\ Taken' = Taken
  BY DEF Closed, Taken, Typed, TurnStates

(***************************************************************************)
(* The same when no message comes or goes.                                 *)
(***************************************************************************)
LEMMA StillKeeps ==
  ASSUME Typed, PostInv, UNCHANGED <<rows, posts, strays>>, turn' \in {turn, Closed},
         send' \in SendRecord, send'.n = send.n, Out' => Out,
         me' \in Guests, draft' \in Texts \cup {""}, route' \in {Landing} \cup Chats
  PROVE  Typed' /\ PostInv'
<1>1. turn' \in [Sends -> TurnStates] /\ Taken' = Taken
  BY TakenStands
<1>2. Typed'
  BY <1>1 DEF Typed
<1>3. rows' = rows /\ ASendIsStoredOnce
  BY DEF PostInv
<1>4. ASendIsStoredOnce' /\ NoNewQuestion
  BY <1>3, SameRows
<1> QED
  BY <1>1, <1>2, <1>4, QuietKeeps

\* The send goes on without a request of its own.
Leaves ==
    /\ send' \in SendRecord /\ send'.n = send.n /\ ~Out'
    /\ draft' \in Texts \cup {""}
    /\ route' \in {Landing} \cup Chats

(* The ways in which a send leaves its request.                             *)

\* To another stage.
LEMMA StageLeaves ==
  ASSUME Typed, NEW to \in {"idle", "reading", "loading", "reconciling"}
  PROVE  LET next == [send EXCEPT !.stage = to, !.waits = FALSE]
         IN  next \in SendRecord /\ next.n = send.n /\ next.stage = to
  BY DEF Typed, SendRecord

\* An error hands the text back.
LEMMA ErrsLeaves ==
  ASSUME Typed, NEW others, Errs(others)
  PROVE  Leaves
<1>1. send' = [send EXCEPT !.stage = "idle", !.waits = FALSE] /\ draft' = send.words /\ route' = route
  BY DEF Errs, Ended
<1>2. send.words \in Texts \cup {""} /\ route \in {Landing} \cup Chats
  BY DEF Typed, SendRecord
<1> QED
  BY <1>1, <1>2, StageLeaves DEF Leaves, Out

\* A load is awaited.
LEMMA AwaitsLeaves ==
  ASSUME Typed, NEW why \in {"loading", "reconciling"}, Awaits(why)
  PROVE  Leaves
<1>1. send' = [send EXCEPT !.stage = why, !.waits = FALSE] /\ draft' = draft /\ route' = route
  BY DEF Awaits, screen
<1>2. draft \in Texts \cup {""} /\ route \in {Landing} \cup Chats
  BY DEF Typed
<1> QED
  BY <1>1, <1>2, StageLeaves DEF Leaves, Out

\* Stop, for which there is a chat to load or none.
LEMMA AbortsLeaves ==
  ASSUME Typed, Aborts
  PROVE  Leaves
<1>1. CASE send.stage # "creating"
  BY <1>1, AwaitsLeaves DEF Aborts
<1>2. CASE send.stage = "creating"
  <2>1. send' = [send EXCEPT !.stage = "idle", !.waits = FALSE] /\ draft' = send.words /\ route' = route
    BY <1>2 DEF Aborts, Ended
  <2>2. send.words \in Texts \cup {""} /\ route \in {Landing} \cup Chats
    BY DEF Typed, SendRecord
  <2> QED
    BY <2>1, <2>2, StageLeaves DEF Leaves, Out
<1> QED
  BY <1>1, <1>2

\* The load that was awaited is there.
LEMMA SettlesLeaves ==
  ASSUME Typed, NEW messages, NEW copies, NEW others, NEW words \in Texts \cup {""},
         Settles(messages, copies, others, words)
  PROVE  Leaves
<1>1. /\ send' = [send EXCEPT !.stage = "idle", !.waits = FALSE] /\ draft' = words
      /\ route' = (IF send.from = Landing THEN send.chat ELSE route)
  BY DEF Settles, Ended
<1>2. send.chat \in {Landing} \cup Chats /\ route \in {Landing} \cup Chats
  BY DEF Typed, SendRecord
<1>3. route' \in {Landing} \cup Chats
  BY <1>1, <1>2
<1> QED
  BY <1>1, <1>3, StageLeaves DEF Leaves, Out

\* A send that leaves its request keeps what is known of the posts.
LEMMA LeavesKeeps ==
  ASSUME Typed, PostInv, Leaves, UNCHANGED <<rows, posts, strays, me>>, turn' \in {turn, Closed}
  PROVE  Typed' /\ PostInv'
<1>1. me' \in Guests
  BY DEF Typed
<1> QED
  BY <1>1, StillKeeps DEF Leaves

-----------------------------------------------------------------------------
(* Every step.                                                              *)

(***************************************************************************)
(* A new send is nowhere yet.                                              *)
(***************************************************************************)
LEMMA SendKeeps ==
  ASSUME Typed, PostInv, Send
  PROVE  Typed' /\ PostInv'
<1>1. /\ send.n < MaxSends /\ send.n \in 0..MaxSends
      /\ draft \in Texts \cup {""} /\ me \in Guests /\ route \in {Landing} \cup Chats
  BY DEF Send, Typed, SendRecord
<1>2. /\ rows' = rows /\ turn' = turn /\ posts' = posts /\ strays' = strays /\ me' = me /\ route' = route
      /\ draft' = ""
      /\ send' = [n |-> send.n + 1, stage |-> IF route = Landing THEN "creating" ELSE "posting",
                  chat |-> route, from |-> route, words |-> draft, as |-> me, for |-> me,
                  waits |-> FALSE, replayed |-> FALSE, halted |-> FALSE]
  BY DEF Send, gateway, session
<1>3. MaxSends \in Nat
  BY ChatPageAssumption
<1>4. send.n + 1 \in 0..MaxSends
  <2>1. PICK k : k = send.n
    OBVIOUS
  <2>2. k \in 0..MaxSends /\ k < MaxSends
    BY <1>1, <2>1
  <2>3. k \in Int /\ 0 <= k
    BY <1>3, <2>2
  <2>4. k + 1 \in 0..MaxSends
    BY <1>3, <2>2, <2>3
  <2> QED
    BY <2>1, <2>4
<1>5. send' \in SendRecord /\ send'.n = send.n + 1
  BY <1>1, <1>2, <1>4 DEF SendRecord
<1>6. Typed'
  BY <1>2, <1>5 DEF Typed
<1>7. ASendIsStoredOnce' /\ QuestionsWereTaken' /\ Taken' = Taken /\ GivenUp' = GivenUp
  <2>1. Taken' = Taken
    BY <1>2, Zenon DEF Taken
  <2>2. GivenUp' = GivenUp
    BY <1>2, Zenon DEF GivenUp
  <2>3. ASendIsStoredOnce' /\ NoNewQuestion
    BY <1>2, SameRows DEF PostInv
  <2>4. QuestionsWereTaken'
    BY <2>1, <2>3 DEF PostInv, QuestionsWereTaken, NoNewQuestion
  <2> QED
    BY <2>1, <2>2, <2>3, <2>4
<1>8. Taken \subseteq 0..MaxSends
  BY <1>3 DEF Taken, Sends
<1>9. /\ \A n \in Taken' : n <= send'.n
      /\ send'.n > 0 /\ send'.n \notin Taken'
      /\ \A n \in GivenUp' : n \in 1..send'.n /\ n \notin Taken'
      /\ send'.n \notin GivenUp'
  <2>1. PICK k : k = send.n
    OBVIOUS
  <2>2. k \in 0..MaxSends /\ send'.n = k + 1
    BY <1>1, <1>5, <2>1
  <2>3. \A n \in Taken : n \in Nat /\ n <= k
    BY <1>3, <1>8, <2>1 DEF PostInv
  <2>4. \A n \in GivenUp : n \in 1..k /\ n \notin Taken
    BY <2>1 DEF PostInv
  <2>5. k \in Nat
    BY <1>3, <2>2
  <2>6. k + 1 > 0 /\ \A n \in Taken : n <= k + 1
    BY <2>3, <2>5
  <2>7. k + 1 \notin Taken
    BY <2>3, <2>5
  <2>8. k + 1 \notin GivenUp /\ \A n \in GivenUp : n \in 1..(k + 1) /\ n \notin Taken
    BY <2>4, <2>5
  <2> QED
    BY <1>7, <2>2, <2>6, <2>7, <2>8
<1>10. \A one, other \in strays' : one.n = other.n => one = other
  BY <1>2 DEF PostInv
<1> QED
  BY <1>6, <1>7, <1>9, <1>10 DEF PostInv

(***************************************************************************)
(* A post that is taken is at the desk, and no longer out.                 *)
(***************************************************************************)
LEMMA PostTakenKeeps ==
  ASSUME Typed, PostInv, PostTaken
  PROVE  Typed' /\ PostInv'
<1>1. /\ send.n \in 0..MaxSends /\ send.words \in Texts \cup {""}
      /\ draft \in Texts \cup {""} /\ me \in Guests /\ route \in {Landing} \cup Chats
  BY DEF Typed, SendRecord
<1>2. /\ Stores(send.n, send.chat, send.words, "runs")
      /\ send' = [send EXCEPT !.stage = "reading"] /\ posts' = posts
      /\ strays' = strays /\ me' = me /\ route' = route /\ draft' = draft
  BY DEF PostTaken, session, screen
<1>3. Out /\ send.n > 0 /\ send.n \notin Taken /\ send.n \notin GivenUp
  BY DEF PostTaken, Asking, PostInv, Out
<1>4. send.n \in Sends
  BY <1>1, <1>3, SendsAre
<1>5. /\ rows' \in [Chats -> Seq(Rows)] /\ turn' \in [Sends -> TurnStates]
      /\ ASendIsStoredOnce' /\ QuestionsWereTaken'
      /\ Taken' = Taken \cup {send.n}
  <2>1. PICK n \in Sends : n = send.n
    BY <1>4
  <2>3. PICK words \in Texts \cup {""} : words = send.words
    BY <1>1
  <2>4. PICK chat : chat = send.chat
    OBVIOUS
  <2>2. n \notin Taken /\ Stores(n, chat, words, "runs") /\ "runs" \in {"runs", "closing"}
    BY <1>2, <1>3, <2>1, <2>3, <2>4
  <2> QED
    BY <2>1, <2>2, StoresKeeps
<1>6. send' \in SendRecord /\ send'.n = send.n /\ send'.stage = "reading"
  BY <1>2 DEF Typed, SendRecord
<1>7. Typed'
  BY <1>1, <1>2, <1>5, <1>6 DEF Typed
<1>8. GivenUp' = GivenUp
  BY <1>2, Zenon DEF GivenUp
<1>9. /\ \A n \in Taken' : n <= send'.n
      /\ ~Out'
      /\ \A n \in GivenUp' : n \in 1..send'.n /\ n \notin Taken'
  <2>1. \A n \in Taken' : n <= send.n
    <3>1. send.n <= send.n
      <4>1. MaxSends \in Nat
        BY ChatPageAssumption
      <4>2. \A k \in 0..MaxSends : k <= k
        BY <4>1
      <4> QED
        BY <1>1, <4>2
    <3> QED
      BY <1>5, <3>1 DEF PostInv
  <2>2. \A n \in GivenUp : n \in 1..send.n /\ n \notin Taken'
    BY <1>3, <1>5 DEF PostInv
  <2> QED
    BY <1>6, <1>8, <2>1, <2>2 DEF Out
<1>10. \A one, other \in strays' : one.n = other.n => one = other
  BY <1>2 DEF PostInv
<1> QED
  BY <1>5, <1>7, <1>9, <1>10 DEF PostInv

(***************************************************************************)
(* A post that was given up arrives: it is at the desk, and on its way no  *)
(* more.                                                                   *)
(***************************************************************************)
LEMMA StrayKeeps ==
  ASSUME Typed, PostInv, NEW stray \in strays, StrayArrives(stray)
  PROVE  Typed' /\ PostInv'
<1>1. stray \in StrayRecord
  BY DEF Typed
<1>2. stray.n \in 0..MaxSends /\ stray.words \in Texts \cup {""}
  BY <1>1 DEF StrayRecord
<1>3. /\ \E then \in {"runs", "closing"} : Stores(stray.n, stray.chat, stray.words, then)
      /\ send' = send
      /\ posts' = posts /\ strays' = strays \ {stray} /\ me' = me /\ route' = route /\ draft' = draft
  BY DEF StrayArrives, session, screen
<1>4. stray.n \in GivenUp
  BY DEF GivenUp
<1>5. stray.n \in 1..send.n /\ stray.n \notin Taken
  BY <1>4 DEF PostInv
<1>6. stray.n \in Sends
  BY <1>5, SendsAre DEF Typed, SendRecord
<1>7. /\ rows' \in [Chats -> Seq(Rows)] /\ turn' \in [Sends -> TurnStates]
      /\ ASendIsStoredOnce' /\ QuestionsWereTaken'
      /\ Taken' = Taken \cup {stray.n}
  <2>1. PICK then \in {"runs", "closing"} : Stores(stray.n, stray.chat, stray.words, then)
    BY <1>3
  <2>2. PICK n \in Sends : n = stray.n
    BY <1>6
  <2>3. PICK words \in Texts \cup {""} : words = stray.words
    BY <1>2
  <2>4. PICK chat : chat = stray.chat
    OBVIOUS
  <2>5. n \notin Taken /\ Stores(n, chat, words, then)
    BY <1>5, <2>1, <2>2, <2>3, <2>4
  <2>6. /\ rows' \in [Chats -> Seq(Rows)] /\ turn' \in [Sends -> TurnStates]
        /\ ASendIsStoredOnce' /\ QuestionsWereTaken'
        /\ Taken' = Taken \cup {n}
    <3>1. CASE then = "runs"
      <4>1. Stores(n, chat, words, "runs") /\ "runs" \in {"runs", "closing"}
        BY <2>5, <3>1
      <4> QED
        BY <2>5, <4>1, StoresKeeps
    <3>2. CASE then = "closing"
      <4>1. Stores(n, chat, words, "closing") /\ "closing" \in {"runs", "closing"}
        BY <2>5, <3>2
      <4> QED
        BY <2>5, <4>1, StoresKeeps
    <3> QED
      BY <2>1, <3>1, <3>2
  <2> QED
    BY <2>2, <2>6
<1>8. Typed'
  BY <1>3, <1>7 DEF Typed
<1>9. GivenUp' \subseteq GivenUp \ {stray.n}
  BY <1>3 DEF GivenUp, PostInv
<1>10. send.n \in Nat
  <2>1. send.n \in 0..MaxSends /\ MaxSends \in Nat
    BY ChatPageAssumption DEF Typed, SendRecord
  <2> QED
    BY <2>1
<1>11. /\ \A n \in Taken' : n <= send'.n
       /\ Out' => send'.n > 0 /\ send'.n \notin Taken' /\ send'.n \notin GivenUp'
       /\ \A n \in GivenUp' : n \in 1..send'.n /\ n \notin Taken'
  <2>1. \A n \in Taken' : n <= send.n
    BY <1>5, <1>7, <1>10 DEF PostInv
  <2>2. Out => send.n > 0 /\ send.n \notin Taken /\ send.n \notin GivenUp
    BY DEF PostInv
  <2>3. Out => send.n # stray.n
    BY <1>4, <2>2
  <2>4. Out => send.n > 0 /\ send.n \notin Taken' /\ send.n \notin GivenUp'
    BY <1>7, <1>9, <2>2, <2>3
  <2>5. \A n \in GivenUp' : n \in 1..send.n /\ n \notin Taken'
    BY <1>7, <1>9 DEF PostInv
  <2> QED
    BY <1>3, <2>1, <2>4, <2>5 DEF Out
<1>12. \A one, other \in strays' : one.n = other.n => one = other
  BY <1>3 DEF PostInv
<1> QED
  BY <1>7, <1>8, <1>11, <1>12 DEF PostInv

(***************************************************************************)
(* Stop: a post that is given up is no longer out.                         *)
(***************************************************************************)
LEMMA StopKeeps ==
  ASSUME Typed, PostInv, Stop
  PROVE  Typed' /\ PostInv'
<1>1. rows' = rows /\ posts' = posts /\ me' = me /\ turn' \in {turn, Closed}
  BY DEF Stop, session
<1>0. turn' \in [Sends -> TurnStates] /\ Taken' = Taken
  BY <1>1, TakenStands
<1>2. CASE send.waits /\ send' = [send EXCEPT !.halted = TRUE] /\ UNCHANGED <<screen, strays>>
  <2>1. send' \in SendRecord /\ send'.n = send.n /\ send'.stage = send.stage
    BY <1>2 DEF Typed, SendRecord
  <2>2. Out' => Out
    BY <2>1 DEF Out
  <2>3. me' \in Guests /\ draft' \in Texts \cup {""} /\ route' \in {Landing} \cup Chats
    BY <1>1, <1>2 DEF Typed, screen
  <2> QED
    BY <1>1, <1>2, <2>1, <2>2, <2>3, StillKeeps
<1>3. CASE Aborts /\ UNCHANGED strays
  BY <1>1, <1>3, AbortsLeaves, LeavesKeeps
<1>4. CASE /\ send.stage = "posting" /\ Aborts
           /\ strays' = strays \cup {[n |-> send.n, chat |-> send.chat, as |-> send.as,
                                      words |-> send.words]}
  <2>1. Leaves
    BY <1>4, AbortsLeaves
  <2>2. PICK stray : stray = [n |-> send.n, chat |-> send.chat, as |-> send.as, words |-> send.words]
    OBVIOUS
  <2>3. stray \in StrayRecord /\ stray.n = send.n /\ strays' = strays \cup {stray}
    BY <1>4, <2>2 DEF Typed, SendRecord, StrayRecord
  <2>4. Out
    BY <1>4 DEF Out
  <2>5. send.n > 0 /\ send.n \notin Taken /\ send.n \notin GivenUp
    BY <2>4 DEF PostInv
  <2>6. Typed'
    BY <1>0, <1>1, <2>1, <2>3 DEF Leaves, Typed
  <2>7. GivenUp' = GivenUp \cup {send.n}
    BY <2>3 DEF GivenUp
  <2>8. ASendIsStoredOnce' /\ QuestionsWereTaken' /\ Taken' = Taken
    <3>1. ASendIsStoredOnce' /\ NoNewQuestion
      BY <1>1, SameRows DEF PostInv
    <3>2. QuestionsWereTaken'
      BY <1>0, <3>1 DEF PostInv, QuestionsWereTaken, NoNewQuestion
    <3> QED
      BY <1>0, <3>1, <3>2
  <2>9. send.n \in 1..send.n
    <3>1. send.n \in 0..MaxSends /\ MaxSends \in Nat
      BY ChatPageAssumption DEF Typed, SendRecord
    <3>2. \A k \in 0..MaxSends : k > 0 => k \in 1..k
      BY <3>1
    <3> QED
      BY <2>5, <3>1, <3>2
  <2>10. /\ \A n \in Taken' : n <= send'.n
         /\ \A n \in GivenUp' : n \in 1..send'.n /\ n \notin Taken'
    BY <2>1, <2>5, <2>7, <2>8, <2>9 DEF PostInv, Leaves
  <2>11. \A one, other \in strays' : one.n = other.n => one = other
    <3>1. \A one \in strays : one.n # stray.n
      BY <2>3, <2>5 DEF GivenUp
    <3> QED
      BY <2>3, <3>1 DEF PostInv
  <2>12. ~Out'
    BY <2>1 DEF Leaves
  <2> QED
    BY <2>6, <2>8, <2>10, <2>11, <2>12 DEF PostInv
<1> QED
  BY <1>2, <1>3, <1>4 DEF Stop

(***************************************************************************)
(* What the desk appends asks nothing.                                     *)
(***************************************************************************)
LEMMA DeskKeeps ==
  ASSUME Typed, PostInv, NEW chat, NEW row \in Rows, row.who # "user", Appends(chat, row),
         turn' \in [Sends -> TurnStates], posts' \in Nat, Taken' = Taken,
         UNCHANGED <<send, strays, me, draft, route>>
  PROVE  Typed' /\ PostInv'
<1>1. rows \in [Chats -> Seq(Rows)] /\ ASendIsStoredOnce
  BY DEF Typed, PostInv
<1>2. rows' \in [Chats -> Seq(Rows)] /\ NoNewQuestion
  BY <1>1, NoQuestionAppended
<1>3. ASendIsStoredOnce'
  BY <1>1, <1>2, NoQuestionKeeps
<1>4. Typed'
  BY <1>2 DEF Typed
<1>5. send'.n = send.n /\ (Out' => Out)
  BY DEF Out
<1> QED
  BY <1>2, <1>3, <1>4, <1>5, QuietKeeps

(***************************************************************************)
(* Every step keeps what is known of the posts.                            *)
(***************************************************************************)
LEMMA PostStep == Typed /\ PostInv /\ [Next]_vars => (Typed /\ PostInv)'
<1> SUFFICES ASSUME Typed, PostInv, [Next]_vars PROVE Typed' /\ PostInv'
  OBVIOUS
<1>1. ASSUME UNCHANGED <<rows, turn, posts, strays, send, route>>, me' \in Guests,
             draft' \in Texts \cup {""}
      PROVE  Typed' /\ PostInv'
  <2>1. send' \in SendRecord /\ send'.n = send.n /\ (Out' => Out) /\ route' \in {Landing} \cup Chats
    BY <1>1 DEF Typed, Out
  <2> QED
    BY <1>1, <2>1, StillKeeps
<1>2. me \in Guests /\ draft \in Texts \cup {""}
  BY DEF Typed
<1>3. CASE Refresh
  BY <1>1, <1>2, <1>3 DEF Refresh, gateway, session, running
<1>4. CASE Type
  BY <1>1, <1>2, <1>4 DEF Type, gateway, session, running
<1>5. CASE Send
  BY <1>5, SendKeeps
<1>6. CASE Stop
  BY <1>6, StopKeeps
<1>7. CASE Expires
  BY <1>1, <1>2, <1>7 DEF Expires, session, screen, running
<1>8. CASE RequestMoves
  <2>1. CASE ChatCreated
    <3>1. /\ send' = [send EXCEPT !.stage = "posting", !.chat = send.n, !.as = me, !.replayed = FALSE]
          /\ send.stage = "creating" /\ UNCHANGED <<rows, turn, posts, strays, me, route, draft>>
      BY <2>1 DEF ChatCreated, Asking, session, screen
    <3>2. send.n \in Chats
      BY DEF Typed, SendRecord, Chats
    <3>3. send' \in SendRecord /\ send'.n = send.n
      BY <1>2, <3>1, <3>2 DEF Typed, SendRecord
    <3>4. Out
      BY <3>1 DEF Out
    <3>5. me' \in Guests /\ draft' \in Texts \cup {""} /\ route' \in {Landing} \cup Chats
      BY <3>1 DEF Typed
    <3> QED
      BY <3>1, <3>3, <3>4, <3>5, StillKeeps
  <2>2. CASE PostTaken
    BY <2>2, PostTakenKeeps
  <2>3. CASE RequestFails
    <3>1. Errs(loads) /\ UNCHANGED <<rows, turn, posts, strays, me>>
      BY <2>3 DEF RequestFails, gateway, session
    <3> QED
      BY <3>1, ErrsLeaves, LeavesKeeps
  <2>4. CASE RequestDenied
    <3>1. /\ send' = [send EXCEPT !.waits = TRUE]
          /\ UNCHANGED <<rows, turn, posts, strays, me, route, draft>>
      BY <2>4 DEF RequestDenied, gateway, screen
    <3>2. send' \in SendRecord /\ send'.n = send.n /\ send'.stage = send.stage
      BY <3>1 DEF Typed, SendRecord
    <3>3. (Out' => Out) /\ me' \in Guests /\ draft' \in Texts \cup {""} /\ route' \in {Landing} \cup Chats
      BY <3>1, <3>2 DEF Typed, Out
    <3> QED
      BY <3>1, <3>2, <3>3, StillKeeps
  <2>5. CASE StoppedReplay
    <3>1. Aborts /\ UNCHANGED <<rows, turn, posts, strays, me>>
      BY <2>5 DEF StoppedReplay, gateway, session
    <3> QED
      BY <3>1, AbortsLeaves, LeavesKeeps
  <2> QED
    BY <1>8, <2>1, <2>2, <2>3, <2>4, <2>5 DEF RequestMoves
<1>9. CASE StreamEnds
  <2>1. CASE StreamBreaks \/ StreamFails
    <3>1. Errs(loads) /\ UNCHANGED <<rows, posts, strays, me>> /\ turn' \in {turn, Closed}
      BY <2>1 DEF StreamBreaks, StreamFails, gateway, session
    <3> QED
      BY <3>1, ErrsLeaves, LeavesKeeps
  <2>2. CASE StreamCompletes
    <3>1. Awaits("loading") /\ UNCHANGED <<rows, turn, posts, strays, me>>
      BY <2>2 DEF StreamCompletes, gateway, session
    <3> QED
      BY <3>1, AwaitsLeaves, LeavesKeeps
  <2> QED
    BY <1>9, <2>1, <2>2 DEF StreamEnds
<1>10. CASE RecoveryMoves
  <2>1. CASE Recovered
    <3>1. /\ send' = (IF send.waits THEN [send EXCEPT !.waits = FALSE, !.replayed = TRUE, !.as = me']
                      ELSE send)
          /\ me' \in Guests /\ UNCHANGED <<rows, turn, posts, strays, route, draft>>
      BY <2>1 DEF Recovered
    <3>2. send' \in SendRecord /\ send'.n = send.n /\ send'.stage = send.stage
      BY <3>1 DEF Typed, SendRecord
    <3>3. (Out' => Out) /\ draft' \in Texts \cup {""} /\ route' \in {Landing} \cup Chats
      BY <3>1, <3>2 DEF Typed, Out
    <3> QED
      BY <3>1, <3>2, <3>3, StillKeeps
  <2>2. CASE RecoveryFails
    BY <1>1, <1>2, <2>2 DEF RecoveryFails, gateway, running
  <2> QED
    BY <1>10, <2>1, <2>2 DEF RecoveryMoves
<1>11. ASSUME NEW stray \in strays, StrayArrives(stray) PROVE Typed' /\ PostInv'
  BY <1>11, StrayKeeps
<1>12. ASSUME NEW load \in loads, LoadMoves(load) PROVE Typed' /\ PostInv'
  <2>1. CASE LoadRead(load) \/ LoadDenied(load)
    BY <1>1, <1>2, <2>1 DEF LoadRead, LoadDenied, gateway, session, screen, running
  <2>2. ASSUME UNCHANGED <<rows, turn, posts, strays, me>>, NEW messages, NEW copies, NEW others,
               NEW words \in Texts \cup {""}, Settles(messages, copies, others, words)
        PROVE  Typed' /\ PostInv'
    BY <2>2, SettlesLeaves, LeavesKeeps
  <2>3. send.words \in Texts \cup {""}
    BY DEF Typed, SendRecord
  <2>4. \A messages, honored : Reconciled(messages, honored) \in Texts \cup {""}
    BY <1>2, <2>3 DEF Reconciled
  <2>5. CASE LoadLands(load)
    <3>1. UNCHANGED <<rows, turn, posts, strays, me>>
      BY <2>5 DEF LoadLands, gateway, session
    <3>2. \/ UNCHANGED <<route, draft, send>>
          \/ \E messages, copies, others, words :
                /\ Settles(messages, copies, others, words)
                /\ words = draft \/ \E honored : words = Reconciled(load.rows, honored)
      BY <2>5, Zenon DEF LoadLands
    <3> QED
      BY <1>1, <1>2, <2>2, <2>4, <3>1, <3>2
  <2>6. CASE LoadFails(load)
    <3>1. UNCHANGED <<rows, turn, posts, strays, me>>
      BY <2>6 DEF LoadFails, gateway, session
    <3>2. \/ UNCHANGED <<route, draft, send>>
          \/ Errs(loads \ {load})
          \/ Settles(shown, mirror, loads \ {load}, Reconciled(<<>>, FALSE))
      BY <2>6 DEF LoadFails, screen
    <3>3. CASE Errs(loads \ {load})
      BY <3>1, <3>3, ErrsLeaves, LeavesKeeps
    <3> QED
      BY <1>1, <1>2, <2>2, <2>4, <3>1, <3>2, <3>3
  <2> QED
    BY <1>12, <2>1, <2>5, <2>6 DEF LoadMoves
<1>13. ASSUME NEW n \in Sends, TurnEnds(n) PROVE Typed' /\ PostInv'
  <2>0. n \in Nat
    BY SendsAre
  <2>1. CASE TurnCompletes(n)
    <3>1. Row(n, "desk", "") \in Rows /\ Row(n, "desk", "").who # "user"
      BY <2>0 DEF Row, Rows
    <3>2. turn[n] # "none" /\ turn' = [turn EXCEPT ![n] = "completed"]
      BY <2>1 DEF TurnCompletes
    <3>3. turn' \in [Sends -> TurnStates] /\ Taken' = Taken
      BY <3>2 DEF Typed, TurnStates, Taken
    <3>4. /\ Appends(chatOf[n], Row(n, "desk", "")) /\ posts' \in Nat
          /\ UNCHANGED <<send, strays, me, draft, route>>
      BY <2>1 DEF TurnCompletes, Appends, Typed, session, screen, running
    <3> QED
      BY <3>1, <3>3, <3>4, DeskKeeps
  <2>2. CASE TurnFails(n)
    <3>1. turn[n] # "none" /\ turn' = [turn EXCEPT ![n] = "failed"]
      BY <2>2 DEF TurnFails
    <3>2. turn' \in [Sends -> TurnStates] /\ Taken' = Taken
      BY <3>1 DEF Typed, TurnStates, Taken
    <3>3. UNCHANGED <<rows, posts, send, strays, me, draft, route>>
      BY <2>2 DEF TurnFails, session, screen, running
    <3>4. Typed'
      BY <3>2, <3>3 DEF Typed
    <3>5. ASendIsStoredOnce' /\ NoNewQuestion
      BY <3>3, SameRows DEF PostInv
    <3>6. strays' = strays /\ send'.n = send.n /\ (Out' => Out)
      BY <3>3 DEF Out
    <3>7. PostInv'
      BY <3>2, <3>5, <3>6, QuietKeeps
    <3> QED
      BY <3>4, <3>7
  <2> QED
    BY <1>13, <2>1, <2>2 DEF TurnEnds
<1>14. ASSUME NEW chat \in Chats, DeskPosts(chat) PROVE Typed' /\ PostInv'
  <2>1. Row(posts + 1, "post", "") \in Rows /\ Row(posts + 1, "post", "").who # "user"
    <3>1. posts \in Nat
      BY DEF Typed
    <3>2. PICK k \in Nat : k = posts + 1
      BY <3>1
    <3>3. Row(k, "post", "") \in Rows /\ Row(k, "post", "").who # "user"
      BY DEF Row, Rows
    <3> QED
      BY <3>2, <3>3
  <2>2. /\ Appends(chat, Row(posts + 1, "post", ""))
        /\ posts' \in Nat /\ UNCHANGED <<turn, send, strays, me, draft, route>>
    <3>1. Appends(chat, Row(posts + 1, "post", ""))
      BY <1>14 DEF DeskPosts, Appends
    <3>2. posts' = posts + 1 /\ posts \in Nat
      BY <1>14 DEF DeskPosts, Typed
    <3>3. UNCHANGED <<turn, send, strays, me, draft, route>>
      BY <1>14 DEF DeskPosts, session, screen, running
    <3>4. posts' \in Nat
      BY <3>2
    <3> QED
      BY <3>1, <3>3, <3>4, Zenon
  <2>3. turn' \in [Sends -> TurnStates] /\ Taken' = Taken
    BY <2>2 DEF Typed, Taken
  <2> QED
    BY <2>1, <2>2, <2>3, DeskKeeps
<1>15. CASE UNCHANGED vars
  BY <1>1, <1>2, <1>15 DEF vars
<1> QED
  BY <1>3, <1>4, <1>5, <1>6, <1>7, <1>8, <1>9, <1>10, <1>11, <1>12, <1>13, <1>14, <1>15 DEF Next

(***************************************************************************)
(* Nothing is out, and nothing was taken, when the page opens.             *)
(***************************************************************************)
LEMMA PostInit == Init => Typed /\ PostInv
<1> SUFFICES ASSUME Init PROVE Typed /\ PostInv
  OBVIOUS
<1>1. /\ MaxSends \in Nat /\ 0 \in 0..MaxSends
      /\ 1 \in Guests /\ 0 \in Chats
  <2>1. MaxSends \in Nat
    BY ChatPageAssumption
  <2>2. MaxGuests \in Nat \ {0}
    BY ChatPageAssumption
  <2>3. 1 \in 1..MaxGuests
    BY <2>2
  <2>4. 0 \in 0..MaxSends
    BY <2>1
  <2> QED
    BY <2>1, <2>3, <2>4 DEF Guests, Chats
<1>2. /\ me = 1 /\ route \in {Landing, 0} /\ draft = "" /\ send = Idle /\ strays = {}
      /\ turn = [n \in Sends |-> "none"] /\ posts = 0
  BY DEF Init
<1>3. send \in SendRecord /\ send.n = 0 /\ ~Out
  BY <1>1, <1>2 DEF Idle, SendRecord, Out
<1>4. PICK old \in {<<>>} \cup {<<Row(0, "user", words)>> : words \in {w \in Texts : ~Resets(w)}} :
         rows = [c \in Chats |-> IF c = 0 THEN old ELSE <<>>]
  BY DEF Init
<1>5. /\ old \in Seq(Rows) /\ \A i \in DOMAIN old : i = 1 /\ old[i].of = 0
  <2>1. CASE old = <<>>
    BY <2>1
  <2>2. CASE \E words \in Texts : old = <<Row(0, "user", words)>>
    <3>1. PICK words \in Texts : old = <<Row(0, "user", words)>>
      BY <2>2
    <3>2. Row(0, "user", words) \in Rows /\ Row(0, "user", words).of = 0
      BY <1>1 DEF Row, Rows
    <3> QED
      BY <3>1, <3>2
  <2> QED
    BY <2>1, <2>2
<1>6. \A c \in Chats : /\ rows[c] \in Seq(Rows)
                       /\ \A i \in DOMAIN rows[c] : c = 0 /\ i = 1 /\ rows[c][i].of = 0
  BY <1>4, <1>5
<1>7. rows \in [Chats -> Seq(Rows)]
  BY <1>4, <1>6
<1>8. ASendIsStoredOnce
  BY <1>6 DEF ASendIsStoredOnce
<1>9. Taken = {} /\ QuestionsWereTaken /\ turn \in [Sends -> TurnStates] /\ posts \in Nat
  BY <1>2, <1>6 DEF Taken, QuestionsWereTaken, TurnStates
<1>10. GivenUp = {}
  BY <1>2 DEF GivenUp
<1>11. Typed
  BY <1>1, <1>2, <1>3, <1>7, <1>9 DEF Typed
<1>12. /\ \A n \in Taken : n <= send.n
       /\ \A n \in GivenUp : n \in 1..send.n /\ n \notin Taken
       /\ \A one, other \in strays : one.n = other.n => one = other
  BY <1>2, <1>9, <1>10
<1> QED
  BY <1>3, <1>8, <1>9, <1>11, <1>12 DEF PostInv

(***************************************************************************)
(* One send is one question at the desk, also when its post was replayed   *)
(* or given up (streamTurn, api, stop).                                    *)
(***************************************************************************)
THEOREM OneSendOneQuestion == Spec => []ASendIsStoredOnce
<1>1. Typed /\ PostInv => ASendIsStoredOnce
  BY DEF PostInv
<1> QED
  BY <1>1, PostInit, PostStep, PTL DEF Spec
-----------------------------------------------------------------------------
(* The transcript on the screen.                                            *)

LoadRecord ==
    [seq : 1..generation, why : {"effect", "loading", "reconciling"}, chat : Chats,
     as : Guests, for : Guests, at : {"out", "waits", "back"}, replayed : BOOLEAN, rows : Seq(Rows)]

\* TypeOK in parts.
GatewayTyped ==
    /\ known \subseteq Guests /\ expired \in 0..MaxExpiries
    /\ owner \in [Chats -> {0} \cup Guests]
    /\ rows \in [Chats -> Seq(Rows)]
    /\ turn \in [Sends -> {"none", "runs", "closing", "completed", "failed"}]
    /\ chatOf \in [Sends -> {Landing} \cup Chats] /\ posts \in 0..MaxOthers
SessionTyped == account \in BOOLEAN /\ me \in Guests /\ recoveries \in 0..1 /\ asked \in Guests
ScreenTyped ==
    /\ page \in BOOLEAN /\ route \in {Landing} \cup Chats
    /\ shown \in Seq(Rows) /\ draft \in Texts \cup {""}
RunningTyped ==
    /\ send \in SendRecord
    /\ \A stray \in strays : stray \in [n : Sends, chat : Chats, as : Guests, words : Texts]
ReadingTyped ==
    /\ \A load \in loads : load \in LoadRecord
    /\ generation \in Nat /\ refreshes \in 0..MaxRefreshes
    /\ mirror \in [Guests -> [Chats -> Seq(Rows)]]

\* Of an older transcript of a chat: nothing of the traveler's alone, and what the chat still has
\* is in its place.
Within(part, all) ==
    /\ \A i \in DOMAIN part : part[i].who # "pending"
    /\ Keeps(all, part, all)

\* What is shown before the desk has it comes last.
PendingLast(messages) ==
    \A i, j \in DOMAIN messages :
        i < j /\ messages[i].who = "pending" => messages[j].who = "pending"

AllPending(messages) == \A i \in DOMAIN messages : messages[i].who = "pending"

\* A send stays where it began; it has a chat once one was created for it, and once its post was
\* taken there is a turn.
SendInv ==
    /\ Sending => send.n \in Sends /\ send.words \in Texts /\ send.from = route
    /\ Sending /\ send.from # Landing => send.chat = send.from
    /\ Sending /\ send.from = Landing /\ send.stage # "creating" => send.chat = send.n
    /\ send.stage = "creating" => send.from = Landing /\ owner[send.n] = 0
    /\ send.stage \in {"reading", "loading"} => turn[send.n] # "none"

\* Identities are counted upwards, and no chat belongs to one that is still to come.
OwnerInv ==
    /\ \A c \in Chats : owner[c] <= me
    /\ \A c \in Chats : c > send.n => owner[c] = 0
    /\ send.as <= me /\ send.for <= me
    /\ Sending /\ send.from # Landing => owner[send.chat] <= send.for

\* A load of the page's effect reads the chat in the URL, another one that of the send that waits
\* for it; one that is back has what its chat once was.
LoadIs(load) ==
    /\ load.why = "effect" => load.chat = route /\ owner[load.chat] <= load.for
    /\ load.why # "effect" =>
          load.why = send.stage /\ load.chat = send.chat /\ load.for = send.for
    /\ load.for <= load.as /\ load.as <= me
    /\ load.at = "back" => owner[load.chat] = load.as /\ Within(load.rows, rows[load.chat])

\* The newest load, once it is back, has what is shown; and a send waits for one load.
LoadInv ==
    /\ \A load \in loads : LoadIs(load)
    /\ \A load \in loads : load.at = "back" /\ load.seq = generation =>
          Keeps(rows[load.chat], shown, load.rows)
    /\ \A one, other \in loads :
          one.seq = other.seq \/ (one.why # "effect" /\ other.why # "effect") => one = other

\* A copy on the device is what its chat once was, made for no later identity than its owner;
\* there is none of a chat that the send is still to open, and the page's own is not behind it.
MirrorInv ==
    /\ \A g \in Guests, c \in Chats :
        /\ Within(mirror[g][c], rows[c])
        /\ mirror[g][c] # <<>> => ~account /\ g <= owner[c]
    /\ \A g \in Guests : Sending /\ send.from = Landing => mirror[g][send.n] = <<>>
    /\ route # Landing /\ mirror[me][route] # <<>> => Keeps(rows[route], shown, mirror[me][route])

\* What is shown is in the chat of the URL; the landing page shows nothing of a desk.
ShownInv ==
    /\ route # Landing => Keeps(rows[route], shown, rows[route])
    /\ route = Landing => AllPending(shown)
    /\ PendingLast(shown)

RowsInv == \A c \in Chats : \A i \in DOMAIN rows[c] : rows[c][i].who # "pending"

PageInv == TypeOK /\ SendInv /\ OwnerInv /\ LoadInv /\ MirrorInv /\ ShownInv /\ RowsInv

(***************************************************************************)
(* The parts of the type invariant.                                        *)
(***************************************************************************)
LEMMA TypeParts ==
  TypeOK <=> GatewayTyped /\ SessionTyped /\ ScreenTyped /\ RunningTyped /\ ReadingTyped
  BY DEF TypeOK, GatewayTyped, SessionTyped, ScreenTyped, RunningTyped, ReadingTyped, SendRecord,
     LoadRecord

(***************************************************************************)
(* The same parts after a step.                                            *)
(***************************************************************************)
LEMMA TypePartsAfter ==
  TypeOK' <=> (GatewayTyped /\ SessionTyped /\ ScreenTyped /\ RunningTyped /\ ReadingTyped)'
  BY DEF TypeOK, GatewayTyped, SessionTyped, ScreenTyped, RunningTyped, ReadingTyped, SendRecord,
     LoadRecord

(***************************************************************************)
(* The landing page is no chat, and the first identity is 1.               *)
(***************************************************************************)
LEMMA Places == /\ Landing \notin Chats /\ 0 \in Chats /\ Chats \subseteq Int /\ Sends \subseteq Chats
                /\ 1 \in Guests /\ Guests \subseteq Nat \ {0} /\ "" \notin Texts
                /\ MaxSends \in Nat /\ Landing = -1
<1>1. MaxSends \in Nat /\ MaxGuests \in Nat \ {0} /\ "" \notin Texts
  BY ChatPageAssumption
<1>a. MaxSends \in Nat
  BY <1>1
<1>b. MaxGuests \in Nat /\ MaxGuests # 0
  BY <1>1
<1>2. Landing = -1 /\ Landing \notin Chats /\ 0 \in Chats /\ Chats \subseteq Int
  BY <1>a DEF Landing, Chats
<1>3. Sends \subseteq Chats
  BY <1>a DEF Sends, Chats
<1>4. 1 \in Guests /\ Guests \subseteq Nat \ {0}
  BY <1>b DEF Guests
<1> QED
  BY <1>1, <1>2, <1>3, <1>4

(***************************************************************************)
(* An empty transcript is a transcript.                                    *)
(***************************************************************************)
LEMMA EmptyTranscript == <<>> \in Seq(Rows)
  OBVIOUS

(***************************************************************************)
(* Sends and identities are numbers.                                       *)
(***************************************************************************)
LEMMA Numbers == /\ Sends \subseteq 0..MaxSends /\ 0 \in 0..MaxSends
                 /\ \A g \in Guests : g \in Nat /\ g > 0
<1>1. MaxSends \in Nat /\ \A g \in Guests : g \in Nat \ {0}
  BY Places
<1>2. MaxSends \in Nat /\ \A g \in Guests : g \in Nat /\ g > 0
  BY <1>1
<1> QED
  BY <1>2 DEF Sends

(***************************************************************************)
(* What is kept twice is kept.                                             *)
(***************************************************************************)
LEMMA KeepsOn ==
  ASSUME NEW list, NEW a, NEW b, NEW c, Keeps(list, a, b), Keeps(list, b, c)
  PROVE  Keeps(list, a, c)
  BY DEF Keeps

(***************************************************************************)
(* Bubbles alone come last, and every transcript keeps what they have of a *)
(* desk: nothing.                                                          *)
(***************************************************************************)
LEMMA PendingKeeps ==
  ASSUME NEW a, AllPending(a)
  PROVE  PendingLast(a) /\ \A list, b : Keeps(list, a, b)
  BY DEF AllPending, PendingLast, Keeps

(***************************************************************************)
(* A transcript keeps itself.                                              *)
(***************************************************************************)
LEMMA KeepsItself ==
  ASSUME NEW list, NEW a
  PROVE  Keeps(list, a, a)
  BY DEF Keeps

(***************************************************************************)
(* A transcript of the desk alone has nothing pending.                     *)
(***************************************************************************)
LEMMA WithinPendingLast ==
  ASSUME NEW a, NEW b, Within(a, b)
  PROVE  PendingLast(a) /\ Keeps(b, a, b)
  BY DEF Within, PendingLast

(***************************************************************************)
(* A bubble that is shown, or taken away, moves nothing of the desk.       *)
(***************************************************************************)
LEMMA BubbleShown ==
  ASSUME NEW messages \in Seq(Rows), NEW row \in Rows, row.who = "pending", PendingLast(messages)
  PROVE  /\ Append(messages, row) \in Seq(Rows)
         /\ PendingLast(Append(messages, row))
         /\ \A list : Keeps(list, messages, Append(messages, row))
         /\ \A list, other : Keeps(list, messages, other) => Keeps(list, Append(messages, row), other)
         /\ AllPending(messages) => AllPending(Append(messages, row))
<1> DEFINE longer == Append(messages, row)
<1>1. /\ longer \in Seq(Rows) /\ Len(longer) = Len(messages) + 1 /\ Len(messages) \in Nat
      /\ DOMAIN longer = 1..(Len(messages) + 1) /\ DOMAIN messages = 1..Len(messages)
      /\ longer[Len(messages) + 1] = row
      /\ \A i \in DOMAIN messages : longer[i] = messages[i]
  OBVIOUS
<1>2. \A i \in DOMAIN longer : i \in DOMAIN messages \/ i = Len(messages) + 1
  BY <1>1
<1>3. \A i \in DOMAIN messages : i \in DOMAIN longer
  BY <1>1
<1> HIDE DEF longer
<1>4. PendingLast(longer)
  <2> SUFFICES ASSUME NEW i \in DOMAIN longer, NEW j \in DOMAIN longer, i < j,
                      longer[i].who = "pending"
               PROVE  longer[j].who = "pending"
    BY DEF PendingLast
  <2>1. CASE j = Len(messages) + 1
    BY <1>1, <2>1
  <2>2. CASE j \in DOMAIN messages
    <3>1. i \in DOMAIN messages
      BY <1>1, <1>2, <2>2
    <3> QED
      BY <1>1, <2>2, <3>1 DEF PendingLast
  <2> QED
    BY <1>2, <2>1, <2>2
<1>5. \A list : Keeps(list, messages, longer)
  BY <1>1, <1>3 DEF Keeps
<1>6. ASSUME NEW list, NEW other, Keeps(list, messages, other) PROVE Keeps(list, longer, other)
  BY <1>1, <1>2, <1>6 DEF Keeps
<1>7. AllPending(messages) => AllPending(longer)
  BY <1>1, <1>2 DEF AllPending
<1> QED
  BY <1>1, <1>4, <1>5, <1>6, <1>7 DEF longer

(***************************************************************************)
(* A bubble that is taken away, the one chosen, leaves the desk's messages *)
(* where they are (send's catch: filter by the bubble's id).               *)
(***************************************************************************)
LEMMA BubbleTakenAway ==
  ASSUME NEW messages \in Seq(Rows), NEW row \in Rows, row.who = "pending", PendingLast(messages)
  PROVE  /\ Without(messages, row) \in Seq(Rows)
         /\ PendingLast(Without(messages, row))
         /\ \A list : Keeps(list, messages, Without(messages, row))
         /\ \A list, other : Keeps(list, messages, other) => Keeps(list, Without(messages, row), other)
         /\ AllPending(messages) => AllPending(Without(messages, row))
<1>1. CASE ~ \E i \in DOMAIN messages : messages[i] = row
  BY <1>1, KeepsItself DEF Without
<1>2. CASE \E i \in DOMAIN messages : messages[i] = row
  <2> DEFINE at == CHOOSE i \in DOMAIN messages : messages[i] = row
             rest == RemoveAt(messages, at)
  <2>1. at \in DOMAIN messages /\ messages[at] = row
    BY <1>2
  <2> HIDE DEF at
  <2>2. at \in 1..Len(messages) /\ Len(messages) \in Nat /\ DOMAIN messages = 1..Len(messages)
    BY <2>1
  <2>3. rest = SubSeq(messages, 1, at - 1) \o SubSeq(messages, at + 1, Len(messages))
    BY DEF RemoveAt
  <2> DEFINE first == SubSeq(messages, 1, at - 1)
             second == SubSeq(messages, at + 1, Len(messages))
  <2>4. /\ first \in Seq(Rows) /\ Len(first) = at - 1
        /\ \A i \in 1..(at - 1) : first[i] = messages[i]
    <3>1. \A i \in 1..(at - 1) : messages[i] \in Rows
      BY <2>2
    <3>2. 1 \in Int /\ at - 1 \in Int
      BY <2>2
    <3>3. /\ first \in Seq(Rows) /\ Len(first) = IF 1 <= at - 1 THEN (at - 1) - 1 + 1 ELSE 0
          /\ \A i \in 1..((at - 1) - 1 + 1) : first[i] = messages[1 + i - 1]
      BY <3>1, <3>2, SubSeqProperties
    <3> HIDE DEF first
    <3>4. (at - 1) - 1 + 1 = at - 1 /\ \A i \in 1..(at - 1) : 1 + i - 1 = i
      BY <2>2
    <3> QED
      BY <2>2, <3>3, <3>4
  <2>5. /\ second \in Seq(Rows) /\ Len(second) = Len(messages) - at
        /\ \A i \in 1..(Len(messages) - at) : second[i] = messages[at + i]
    <3>1. \A i \in (at + 1)..Len(messages) : messages[i] \in Rows
      BY <2>2
    <3>2. at + 1 \in Int /\ Len(messages) \in Int
      BY <2>2
    <3>3. /\ second \in Seq(Rows)
          /\ Len(second) = IF at + 1 <= Len(messages) THEN Len(messages) - (at + 1) + 1 ELSE 0
          /\ \A i \in 1..(Len(messages) - (at + 1) + 1) : second[i] = messages[(at + 1) + i - 1]
      BY <3>1, <3>2, SubSeqProperties
    <3> HIDE DEF second
    <3>4. /\ Len(messages) - (at + 1) + 1 = Len(messages) - at
          /\ \A i \in 1..(Len(messages) - at) : (at + 1) + i - 1 = at + i
      BY <2>2
    <3>5. Len(second) = Len(messages) - at
      <4> DEFINE size == Len(messages)
      <4>1. size \in Int /\ at \in Int /\ at <= size
        BY <2>2
      <4>2. Len(second) = IF at + 1 <= size THEN size - (at + 1) + 1 ELSE 0
        BY <3>3
      <4> HIDE DEF size
      <4>3. Len(second) = size - at
        BY <4>1, <4>2
      <4> QED
        BY <4>3 DEF size
    <3> QED
      BY <3>3, <3>4, <3>5
  <2>6. /\ rest \in Seq(Rows) /\ DOMAIN rest = 1..(Len(messages) - 1)
        /\ \A i \in 1..(at - 1) : rest[i] = messages[i]
        /\ \A i \in at..(Len(messages) - 1) : rest[i] = messages[i + 1]
    <3> HIDE DEF first, second, rest
    <3>1. /\ rest \in Seq(Rows) /\ Len(rest) = Len(first) + Len(second)
          /\ \A i \in 1..(Len(first) + Len(second)) :
                rest[i] = IF i <= Len(first) THEN first[i] ELSE second[i - Len(first)]
      BY <2>3, <2>4, <2>5, ConcatProperties DEF first, second
    <3>2. Len(first) + Len(second) = Len(messages) - 1
      BY <2>2, <2>4, <2>5
    <3>3. DOMAIN rest = 1..(Len(messages) - 1)
      BY <3>1, <3>2
    <3>4. ASSUME NEW i \in 1..(at - 1) PROVE rest[i] = messages[i]
      <4>1. i \in 1..(Len(messages) - 1) /\ i <= Len(first)
        BY <2>2, <2>4
      <4> QED
        BY <2>4, <3>1, <3>2, <4>1
    <3>5. ASSUME NEW i \in at..(Len(messages) - 1) PROVE rest[i] = messages[i + 1]
      <4>1. /\ i \in 1..(Len(messages) - 1) /\ ~(i <= Len(first))
            /\ i - Len(first) \in 1..(Len(messages) - at) /\ at + (i - Len(first)) = i + 1
        BY <2>2, <2>4
      <4>2. rest[i] = second[i - Len(first)]
        BY <3>1, <3>2, <4>1
      <4>3. second[i - Len(first)] = messages[at + (i - Len(first))]
        BY <2>5, <4>1
      <4> QED
        BY <4>1, <4>2, <4>3
    <3> QED
      BY <3>1, <3>3, <3>4, <3>5
  <2> HIDE DEF rest
  <2>7. \A j \in DOMAIN messages : j > at => messages[j].who = "pending"
    BY <2>1, <2>2 DEF PendingLast
  <2>8. ASSUME NEW i \in DOMAIN rest, i >= at PROVE rest[i].who = "pending"
    <3>1. i \in at..(Len(messages) - 1) /\ i + 1 \in DOMAIN messages /\ i + 1 > at
      BY <2>2, <2>6, <2>8
    <3> QED
      BY <2>6, <2>7, <3>1
  <2>9. \A i \in DOMAIN rest : i < at => i \in DOMAIN messages /\ rest[i] = messages[i]
    BY <2>2, <2>6
  <2>10. PendingLast(rest)
    <3> SUFFICES ASSUME NEW i \in DOMAIN rest, NEW j \in DOMAIN rest, i < j, rest[i].who = "pending"
                 PROVE  rest[j].who = "pending"
      BY DEF PendingLast
    <3>1. i \in Int /\ j \in Int /\ at \in Int
      BY <2>2, <2>6
    <3>2. CASE j >= at
      BY <2>8, <3>2
    <3>3. CASE j < at
      <4>1. i < at
        BY <3>1, <3>3
      <4>2. /\ i \in DOMAIN messages /\ rest[i] = messages[i]
            /\ j \in DOMAIN messages /\ rest[j] = messages[j]
        BY <2>9, <3>3, <4>1
      <4> QED
        BY <4>2 DEF PendingLast
    <3> QED
      BY <3>1, <3>2, <3>3
  <2>11. ASSUME NEW list PROVE Keeps(list, messages, rest)
    <3> SUFFICES ASSUME NEW i \in DOMAIN messages, messages[i].who # "pending"
                 PROVE  i \in DOMAIN rest /\ rest[i] = messages[i]
      BY DEF Keeps
    <3>1. i < at
      BY <2>1, <2>2, <2>7
    <3>2. i \in 1..(at - 1) /\ i \in 1..(Len(messages) - 1)
      BY <2>2, <3>1
    <3> QED
      BY <2>6, <3>2
  <2>12. ASSUME NEW list, NEW other, Keeps(list, messages, other) PROVE Keeps(list, rest, other)
    <3> SUFFICES ASSUME NEW i \in DOMAIN rest, rest[i].who # "pending", rest[i] \in Range(list)
                 PROVE  i \in DOMAIN other /\ other[i] = rest[i]
      BY DEF Keeps
    <3>1. i < at
      BY <2>2, <2>6, <2>8
    <3> QED
      BY <2>9, <2>12, <3>1 DEF Keeps
  <2>13. AllPending(messages) => AllPending(rest)
    <3> SUFFICES ASSUME AllPending(messages), NEW i \in DOMAIN rest PROVE rest[i].who = "pending"
      BY DEF AllPending
    <3>1. i \in Int /\ at \in Int
      BY <2>2, <2>6
    <3>2. CASE i < at
      BY <2>9, <3>2 DEF AllPending
    <3> QED
      BY <2>8, <3>1, <3>2
  <2>14. Without(messages, row) = rest
    BY <1>2 DEF Without, rest, at
  <2> QED
    BY <2>6, <2>10, <2>11, <2>12, <2>13, <2>14
<1> QED
  BY <1>1, <1>2

(* What the gateway writes is new.                                          *)

\* A message that a turn or a desk has written: its turn was taken, or is over, or it is one of
\* the posts so far.
WrittenBy(row, turns, count) ==
    /\ row.who \in {"user", "note"} =>
          row.of = 0 \/ (row.of \in Sends /\ turns[row.of] # "none")
    /\ row.who = "desk" => row.of \in Sends /\ turns[row.of] = "completed"
    /\ row.who = "post" => row.of <= count
Written(row) == WrittenBy(row, turn, posts)

\* The transcripts there are: on the screen, on their way, on the device and at the desk.
Held ==
    {shown} \cup {load.rows : load \in loads} \cup {rows[c] : c \in Chats}
        \cup UNION {{mirror[g][c] : c \in Chats} : g \in Guests}

WrittenInv == \A a \in Held : \A i \in DOMAIN a : Written(a[i])

\* What a chat keeps of the transcripts there are, and how they keep it, stays so.
RowsGo ==
    \A c \in Chats : \A a \in Held :
        /\ \A b : Keeps(rows[c], a, b) => Keeps(rows'[c], a, b)
        /\ Keeps(rows[c], a, rows[c]) => Keeps(rows'[c], a, rows'[c])

\* A turn that was taken, or is over, stays so.
TurnsGo ==
    \A n \in Sends :
        /\ turn[n] # "none" => turn'[n] # "none"
        /\ turn[n] = "completed" => turn'[n] = "completed"

Goes == RowsGo /\ TurnsGo

\* A chat has one message more, or this one alone.
Writes(chat, row) ==
    \/ rows' = [rows EXCEPT ![chat] = Append(@, row)]
    \/ rows' = [rows EXCEPT ![chat] = <<row>>]

(***************************************************************************)
(* The transcripts there are.                                              *)
(***************************************************************************)
LEMMA HeldAre ==
  /\ shown \in Held
  /\ \A load \in loads : load.rows \in Held
  /\ \A c \in Chats : rows[c] \in Held
  /\ \A g \in Guests, c \in Chats : mirror[g][c] \in Held
  BY DEF Held

(***************************************************************************)
(* While chats go on, an older transcript of one stays one.                *)
(***************************************************************************)
LEMMA GoesKeeps ==
  ASSUME RowsGo, NEW c \in Chats, NEW a \in Held
  PROVE  /\ \A b : Keeps(rows[c], a, b) => Keeps(rows'[c], a, b)
         /\ Keeps(rows[c], a, rows[c]) => Keeps(rows'[c], a, rows'[c])
         /\ Within(a, rows[c]) => Within(a, rows'[c])
  BY DEF RowsGo, Within

(***************************************************************************)
(* A message that no transcript has yet disturbs none: neither at the end  *)
(* of a chat nor alone in it.                                              *)
(***************************************************************************)
LEMMA NewRowKeeps ==
  ASSUME NEW list, NEW next, NEW row, NEW a,
         \A i \in DOMAIN next : next[i] = row \/ \E j \in DOMAIN list : list[j] = next[i],
         \A i \in DOMAIN list :
            list[i] = row \/ next = <<row>> \/ (i \in DOMAIN next /\ next[i] = list[i]),
         \A i \in DOMAIN a : a[i] # row,
         \A i \in DOMAIN list : list[i] # row
  PROVE  /\ \A b : Keeps(list, a, b) => Keeps(next, a, b)
         /\ Keeps(list, a, list) => Keeps(next, a, next)
<1>1. ASSUME NEW i \in DOMAIN a, a[i] \in Range(next) PROVE a[i] \in Range(list) /\ next # <<row>>
  <2>1. PICK k \in DOMAIN next : next[k] = a[i]
    BY <1>1 DEF Range
  <2>2. next[k] # row
    BY <2>1
  <2>3. PICK j \in DOMAIN list : list[j] = a[i]
    BY <2>1, <2>2
  <2>4. a[i] \in Range(list)
    BY <2>3 DEF Range
  <2>5. ASSUME next = <<row>> PROVE FALSE
    <3>1. k = 1 /\ next[1] = row
      BY <2>1, <2>5
    <3> QED
      BY <2>2, <3>1
  <2> QED
    BY <2>4, <2>5
<1>2. ASSUME NEW b, Keeps(list, a, b) PROVE Keeps(next, a, b)
  BY <1>1, <1>2 DEF Keeps
<1>3. ASSUME Keeps(list, a, list) PROVE Keeps(next, a, next)
  <2> SUFFICES ASSUME NEW i \in DOMAIN a, a[i].who # "pending", a[i] \in Range(next)
               PROVE  i \in DOMAIN next /\ next[i] = a[i]
    BY DEF Keeps
  <2>1. a[i] \in Range(list) /\ next # <<row>>
    BY <1>1
  <2>2. i \in DOMAIN list /\ list[i] = a[i]
    BY <1>3, <2>1 DEF Keeps
  <2> QED
    BY <2>1, <2>2
<1> QED
  BY <1>2, <1>3

(***************************************************************************)
(* A message that the gateway writes.                                      *)
(***************************************************************************)
LEMMA WritesGo ==
  ASSUME rows \in [Chats -> Seq(Rows)], RowsInv, WrittenInv, NEW chat, NEW row \in Rows,
         row.who # "pending", ~Written(row), Writes(chat, row)
  PROVE  /\ rows' \in [Chats -> Seq(Rows)] /\ RowsGo /\ RowsInv'
         /\ \A c \in Chats : \A i \in DOMAIN rows'[c] :
               rows'[c][i] = row \/ \E j \in DOMAIN rows[c] : rows[c][j] = rows'[c][i]
<1>1. ASSUME NEW c \in Chats
      PROVE  /\ rows'[c] \in Seq(Rows)
             /\ \A i \in DOMAIN rows'[c] :
                   rows'[c][i] = row \/ \E j \in DOMAIN rows[c] : rows[c][j] = rows'[c][i]
             /\ \/ rows'[c] = <<row>>
                \/ \A i \in DOMAIN rows[c] : i \in DOMAIN rows'[c] /\ rows'[c][i] = rows[c][i]
  <2>1. rows[c] \in Seq(Rows)
    OBVIOUS
  <2>2. rows'[c] \in {rows[c], Append(rows[c], row), <<row>>}
    BY DEF Writes
  <2>3. CASE rows'[c] = rows[c]
    BY <2>1, <2>3
  <2>4. CASE rows'[c] = Append(rows[c], row)
    <3>1. PICK list \in Seq(Rows) : list = rows[c]
      BY <2>1
    <3>2. PICK next : next = Append(list, row)
      OBVIOUS
    <3>3. /\ next \in Seq(Rows)
          /\ \A i \in DOMAIN next : next[i] = row \/ \E j \in DOMAIN list : list[j] = next[i]
          /\ \A i \in DOMAIN list : i \in DOMAIN next /\ next[i] = list[i]
      BY <3>2
    <3> QED
      BY <2>4, <3>1, <3>2, <3>3
  <2>5. CASE rows'[c] = <<row>>
    <3>1. PICK next : next = <<row>>
      OBVIOUS
    <3>2. next \in Seq(Rows) /\ \A i \in DOMAIN next : next[i] = row
      BY <3>1
    <3> QED
      BY <2>5, <3>1, <3>2
  <2> QED
    BY <2>2, <2>3, <2>4, <2>5
<1>2. rows' \in [Chats -> Seq(Rows)]
  <2>1. DOMAIN rows' = Chats /\ rows' = [c \in Chats |-> rows'[c]]
    BY DEF Writes
  <2> QED
    BY <1>1, <2>1
<1>3. RowsInv'
  <2> SUFFICES ASSUME NEW c \in Chats, NEW i \in DOMAIN rows'[c] PROVE rows'[c][i].who # "pending"
    BY DEF RowsInv
  <2>1. rows'[c][i] = row \/ \E j \in DOMAIN rows[c] : rows[c][j] = rows'[c][i]
    BY <1>1
  <2> QED
    BY <2>1 DEF RowsInv
<1>4. ASSUME NEW a \in Held, NEW i \in DOMAIN a PROVE a[i] # row
  BY DEF WrittenInv
<1>5. ASSUME NEW c \in Chats, NEW a \in Held
      PROVE  /\ \A b : Keeps(rows[c], a, b) => Keeps(rows'[c], a, b)
             /\ Keeps(rows[c], a, rows[c]) => Keeps(rows'[c], a, rows'[c])
  <2>1. PICK list : list = rows[c]
    OBVIOUS
  <2>2. PICK next : next = rows'[c]
    OBVIOUS
  <2>3. list \in Held
    BY <2>1, HeldAre
  <2>4. \A i \in DOMAIN next : next[i] = row \/ \E j \in DOMAIN list : list[j] = next[i]
    BY <1>1, <2>1, <2>2
  <2>5. \A i \in DOMAIN list :
           list[i] = row \/ next = <<row>> \/ (i \in DOMAIN next /\ next[i] = list[i])
    BY <1>1, <2>1, <2>2
  <2>6. (\A i \in DOMAIN a : a[i] # row) /\ \A i \in DOMAIN list : list[i] # row
    BY <1>4, <2>3
  <2>7. /\ \A b : Keeps(list, a, b) => Keeps(next, a, b)
        /\ Keeps(list, a, list) => Keeps(next, a, next)
    BY <2>4, <2>5, <2>6, NewRowKeeps
  <2> QED
    BY <2>1, <2>2, <2>7
<1> QED
  BY <1>1, <1>2, <1>3, <1>5 DEF RowsGo

(***************************************************************************)
(* Chats and turns that nobody touches go on, trivially.                   *)
(***************************************************************************)
LEMMA SameGoes ==
  ASSUME rows' = rows
  PROVE  RowsGo /\ (RowsInv => RowsInv') /\ (turn' = turn => Goes)
  BY DEF RowsGo, RowsInv, TurnsGo, Goes

(***************************************************************************)
(* A post that the desk takes writes a new message, and its turn is taken. *)
(***************************************************************************)
LEMMA StoresWrites ==
  ASSUME TypeOK, NEW n \in Sends, turn[n] = "none", NEW chat \in Chats, NEW words \in Texts,
         NEW then \in {"runs", "closing"}, Stores(n, chat, words, then)
  PROVE  /\ \E row \in Rows : /\ row.who \in {"user", "note"} /\ row.of = n
                              /\ ~Written(row) /\ Writes(chat, row)
         /\ turn' \in [Sends -> {"none", "runs", "closing", "completed", "failed"}]
         /\ turn'[n] # "none" /\ TurnsGo
         /\ chatOf' \in [Sends -> {Landing} \cup Chats]
<1>1. turn \in [Sends -> {"none", "runs", "closing", "completed", "failed"}]
      /\ chatOf \in [Sends -> {Landing} \cup Chats]
  BY DEF TypeOK
<1>2. n \in Nat /\ n # 0
  BY SendsAre
<1>3. PICK to \in {"runs", "closing", "completed"} : turn' = [turn EXCEPT ![n] = to]
  BY DEF Stores
<1>4. /\ turn' \in [Sends -> {"none", "runs", "closing", "completed", "failed"}]
      /\ turn'[n] # "none" /\ TurnsGo
  BY <1>1, <1>3 DEF TurnsGo
<1>5. chatOf' \in [Sends -> {Landing} \cup Chats]
  BY <1>1 DEF Stores
<1>6. ASSUME NEW row \in Rows, row.who \in {"user", "note"}, row.of = n PROVE ~Written(row)
  BY <1>2, <1>6 DEF Written, WrittenBy
<1>7. CASE Resets(words)
  <2>1. PICK row : row = Row(n, "note", "")
    OBVIOUS
  <2>2. row \in Rows /\ row.who = "note" /\ row.of = n
    BY <1>2, <2>1 DEF Row, Rows
  <2>3. Writes(chat, row)
    BY <1>7, <2>1 DEF Stores, Writes, Emptied
  <2> QED
    BY <1>4, <1>5, <1>6, <2>2, <2>3
<1>8. CASE ~Resets(words)
  <2>1. PICK row : row = Row(n, "user", words)
    OBVIOUS
  <2>2. row \in Rows /\ row.who = "user" /\ row.of = n
    BY <1>2, <2>1 DEF Row, Rows
  <2>3. Writes(chat, row)
    BY <1>8, <2>1 DEF Stores, Writes
  <2> QED
    BY <1>4, <1>5, <1>6, <2>2, <2>3
<1> QED
  BY <1>7, <1>8

(***************************************************************************)
(* What the invariant says of where things are.                            *)
(***************************************************************************)
LEMMA Facts ==
  ASSUME PageInv
  PROVE  /\ me \in Nat /\ generation \in Nat /\ send \in SendRecord
         /\ \A c \in Chats : owner[c] \in Nat
         /\ Sending /\ send.stage # "creating" => send.chat \in Chats
         /\ \A load \in loads : load \in LoadRecord /\ LoadIs(load)
<1>1. TypeOK /\ GatewayTyped /\ SessionTyped /\ RunningTyped /\ ReadingTyped
  BY TypeParts DEF PageInv
<1>2. me \in Nat /\ \A c \in Chats : owner[c] \in Nat
  <2>1. me \in Guests /\ \A c \in Chats : owner[c] \in {0} \cup Guests
    BY <1>1 DEF GatewayTyped, SessionTyped
  <2> QED
    BY <2>1, Numbers
<1>3. Sending /\ send.stage # "creating" => send.chat \in Chats
  <2>1. route \in {Landing} \cup Chats
    BY <1>1, TypeParts DEF ScreenTyped
  <2> QED
    BY <2>1, Places DEF PageInv, SendInv
<1>4. \A load \in loads : LoadIs(load)
  BY DEF PageInv, LoadInv
<1> QED
  BY <1>1, <1>2, <1>3, <1>4 DEF RunningTyped, ReadingTyped

(***************************************************************************)
(* A send that is not touched, while chats and turns go on.                *)
(***************************************************************************)
LEMMA SendStands ==
  ASSUME PageInv, Goes, UNCHANGED <<send, owner, route, me>>
  PROVE  SendInv' /\ OwnerInv'
<1>1. SendInv'
  <2>1. send.stage \in {"reading", "loading"} => send.n \in Sends /\ turn[send.n] # "none"
    BY DEF PageInv, SendInv, Sending
  <2>2. send.stage \in {"reading", "loading"} => turn'[send.n] # "none"
    BY <2>1 DEF Goes, TurnsGo
  <2> QED
    BY <2>2 DEF PageInv, SendInv, Sending
<1>2. OwnerInv'
  BY DEF PageInv, OwnerInv, Sending
<1> QED
  BY <1>1, <1>2

(***************************************************************************)
(* A step that leaves the transcript, the loads and the copies alone.      *)
(***************************************************************************)
LEMMA TabStands ==
  ASSUME PageInv, TypeOK', SendInv', OwnerInv', RowsInv', RowsGo,
         UNCHANGED <<me, account, route, shown, generation, mirror, loads>>,
         \A load \in loads : owner'[load.chat] = owner[load.chat],
         \A c \in Chats : owner[c] # 0 => owner'[c] = owner[c],
         \A load \in loads : load.why # "effect" =>
            send'.stage = send.stage /\ send'.chat = send.chat /\ send'.for = send.for,
         Sending' /\ send'.from = Landing => Sending /\ send.from = Landing /\ send'.n = send.n
  PROVE  PageInv'
<1>1. \A load \in loads : load \in LoadRecord /\ load.chat \in Chats /\ LoadIs(load)
  BY Facts DEF LoadRecord
<1>2. LoadInv'
  <2>1. ASSUME NEW load \in loads PROVE LoadIs(load)'
    <3>1. Within(load.rows, rows[load.chat]) => Within(load.rows, rows'[load.chat])
      BY <1>1, HeldAre, GoesKeeps
    <3> QED
      BY <1>1, <3>1 DEF LoadIs
  <2>2. ASSUME NEW load \in loads, load.at = "back", load.seq = generation
        PROVE  Keeps(rows'[load.chat], shown, load.rows)
    <3>1. Keeps(rows[load.chat], shown, load.rows)
      BY <2>2 DEF PageInv, LoadInv
    <3> QED
      BY <1>1, <3>1, HeldAre, GoesKeeps
  <2> QED
    BY <2>1, <2>2 DEF PageInv, LoadInv
<1>3. MirrorInv'
  <2>1. ASSUME NEW g \in Guests, NEW c \in Chats
        PROVE  Within(mirror[g][c], rows'[c]) /\ (mirror[g][c] # <<>> => ~account /\ g <= owner'[c])
    <3>1. Within(mirror[g][c], rows[c]) /\ (mirror[g][c] # <<>> => ~account /\ g <= owner[c])
      BY DEF PageInv, MirrorInv
    <3>2. g \in Nat /\ g > 0 /\ owner[c] \in Nat
      BY Numbers, Facts
    <3>3. Within(mirror[g][c], rows'[c])
      BY <3>1, HeldAre, GoesKeeps
    <3> QED
      BY <3>1, <3>2, <3>3
  <2>2. \A g \in Guests : Sending' /\ send'.from = Landing => mirror[g][send'.n] = <<>>
    BY DEF PageInv, MirrorInv
  <2>3. route # Landing /\ mirror[me][route] # <<>> => Keeps(rows'[route], shown, mirror[me][route])
    <3>1. route # Landing => route \in Chats
      BY TypeParts DEF PageInv, ScreenTyped
    <3> QED
      BY <3>1, HeldAre, GoesKeeps DEF PageInv, MirrorInv
  <2> QED
    BY <2>1, <2>2, <2>3 DEF MirrorInv
<1>4. ShownInv'
  <2>1. route \in {Landing} \cup Chats
    BY TypeParts DEF PageInv, ScreenTyped
  <2>2. route # Landing => Keeps(rows'[route], shown, rows'[route])
    BY <2>1, HeldAre, GoesKeeps DEF PageInv, ShownInv
  <2> QED
    BY <2>2 DEF PageInv, ShownInv
<1> QED
  BY <1>2, <1>3, <1>4 DEF PageInv

(***************************************************************************)
(* Steps of the gateway, the composer and the session alone.               *)
(***************************************************************************)
LEMMA AloneStands ==
  ASSUME PageInv, TypeOK', RowsInv', Goes,
         UNCHANGED <<send, owner, me, account, route, shown, generation, mirror, loads>>
  PROVE  PageInv'
<1>1. SendInv' /\ OwnerInv'
  BY SendStands
<1>2. Sending' /\ send'.from = Landing => Sending /\ send.from = Landing /\ send'.n = send.n
  BY DEF Sending
<1> QED
  BY <1>1, <1>2, TabStands DEF Goes

(***************************************************************************)
(* Typing touches the composer alone.                                      *)
(***************************************************************************)
LEMMA TypeStands ==
  ASSUME PageInv, Type
  PROVE  PageInv'
<1>1. TypeOK'
  <2>1. /\ UNCHANGED <<gateway, session, running, reading, page, route, shown>>
        /\ draft' \in Texts \cup {""}
    BY DEF Type
  <2> QED
    BY <2>1, TypeParts, TypePartsAfter DEF PageInv, GatewayTyped, SessionTyped, ScreenTyped,
       RunningTyped, ReadingTyped, LoadRecord, gateway, session, running, reading
<1> QED
  BY <1>1, AloneStands, SameGoes DEF Type, PageInv, gateway, session, running, reading

(***************************************************************************)
(* A session that goes stale changes who is known, and nothing on the      *)
(* screen.                                                                 *)
(***************************************************************************)
LEMMA ExpiresStands ==
  ASSUME PageInv, Expires
  PROVE  PageInv'
<1>1. TypeOK'
  <2>1. expired' \in 0..MaxExpiries /\ known' \subseteq Guests
    <3>1. expired \in 0..MaxExpiries /\ known \subseteq Guests /\ MaxExpiries \in Nat
      BY TypeParts, ChatPageAssumption DEF PageInv, GatewayTyped
    <3> QED
      BY <3>1 DEF Expires
  <2> QED
    BY <2>1, TypeParts, TypePartsAfter DEF PageInv, GatewayTyped, SessionTyped, ScreenTyped,
       RunningTyped, ReadingTyped, LoadRecord, Expires, session, screen, running, reading
<1> QED
  BY <1>1, AloneStands, SameGoes DEF Expires, PageInv, session, screen, running, reading

(***************************************************************************)
(* A recovery that fails leaves the page to its old identity.              *)
(***************************************************************************)
LEMMA RecoveryFailsStands ==
  ASSUME PageInv, RecoveryFails
  PROVE  PageInv'
<1>1. TypeOK'
  <2>1. recoveries' \in 0..1
    <3>1. recoveries \in 0..1
      BY TypeParts DEF PageInv, SessionTyped
    <3> QED
      BY <3>1 DEF RecoveryFails
  <2> QED
    BY <2>1, TypeParts, TypePartsAfter DEF PageInv, GatewayTyped, SessionTyped, ScreenTyped,
       RunningTyped, ReadingTyped, LoadRecord, RecoveryFails, gateway, running, reading
<1> QED
  BY <1>1, AloneStands, SameGoes DEF RecoveryFails, PageInv, gateway, running, reading

(***************************************************************************)
(* A message at the desk, whoever wrote it.                                *)
(***************************************************************************)
LEMMA DeskWrites ==
  ASSUME PageInv, WrittenInv, NEW chat, NEW row \in Rows, row.who # "pending",
         ~Written(row), Writes(chat, row),
         turn' \in [Sends -> {"none", "runs", "closing", "completed", "failed"}], TurnsGo,
         chatOf' \in [Sends -> {Landing} \cup Chats], posts' \in 0..MaxOthers,
         strays' \subseteq strays,
         UNCHANGED <<known, expired, owner, session, screen, reading, send>>
  PROVE  PageInv'
<1>1. rows' \in [Chats -> Seq(Rows)] /\ RowsGo /\ RowsInv'
  <2>1. rows \in [Chats -> Seq(Rows)] /\ RowsInv
    BY DEF PageInv, TypeOK
  <2> QED
    BY <2>1, WritesGo
<1>2. TypeOK'
  <2>1. \A stray \in strays' : stray \in [n : Sends, chat : Chats, as : Guests, words : Texts]
    BY DEF PageInv, TypeOK
  <2> QED
    BY <1>1, <2>1, TypeParts, TypePartsAfter DEF PageInv, GatewayTyped, SessionTyped, ScreenTyped,
       RunningTyped, ReadingTyped, LoadRecord, session, screen, reading
<1> QED
  BY <1>1, <1>2, AloneStands DEF Goes, session, screen, reading

(***************************************************************************)
(* A post that was given up is not taken.                                  *)
(***************************************************************************)
LEMMA StrayIsNew ==
  ASSUME PageInv, PostInv, NEW stray \in strays
  PROVE  stray.n \in Sends /\ turn[stray.n] = "none" /\ stray.chat \in Chats /\ stray.words \in Texts
<1>1. stray.n \in Sends /\ stray.chat \in Chats /\ stray.words \in Texts
  BY DEF PageInv, TypeOK
<1>2. stray.n \in GivenUp
  BY DEF GivenUp
<1>3. stray.n \notin Taken
  BY <1>2 DEF PostInv
<1> QED
  BY <1>1, <1>3 DEF Taken

(***************************************************************************)
(* A reply is new: its turn is over only now.                              *)
(***************************************************************************)
LEMMA ReplyIsNew ==
  ASSUME PageInv, NEW n \in Sends, TurnCompletes(n), NEW row, row = Row(n, "desk", "")
  PROVE  /\ row \in Rows /\ row.who = "desk" /\ row.of = n /\ ~Written(row) /\ Writes(chatOf[n], row)
         /\ turn' \in [Sends -> {"none", "runs", "closing", "completed", "failed"}] /\ TurnsGo
         /\ turn'[n] = "completed" /\ UNCHANGED <<chatOf, posts>>
<1>1. turn \in [Sends -> {"none", "runs", "closing", "completed", "failed"}] /\ n \in Nat
  BY SendsAre DEF PageInv, TypeOK
<1>2. turn[n] \in {"runs", "closing"} /\ turn' = [turn EXCEPT ![n] = "completed"]
  BY DEF TurnCompletes
<1>3. row \in Rows /\ row.who = "desk" /\ row.of = n
  BY <1>1 DEF Row, Rows
<1>4. ~Written(row)
  BY <1>2, <1>3 DEF Written, WrittenBy
<1>5. Writes(chatOf[n], row) /\ UNCHANGED <<chatOf, posts>>
  BY DEF TurnCompletes, Writes
<1> QED
  BY <1>1, <1>2, <1>3, <1>4, <1>5 DEF TurnsGo

(***************************************************************************)
(* Posts are counted.                                                      *)
(***************************************************************************)
LEMMA PostsCount ==
  ASSUME PageInv, NEW chat, DeskPosts(chat)
  PROVE  /\ posts \in Nat /\ posts' = posts + 1 /\ posts' \in 0..MaxOthers
         /\ posts + 1 \in Nat /\ ~(posts + 1 <= posts)
<1>1. posts \in 0..MaxOthers /\ MaxOthers \in Nat /\ posts < MaxOthers /\ posts' = posts + 1
  BY ChatPageAssumption DEF PageInv, TypeOK, DeskPosts
<1>2. posts \in Nat /\ posts' \in 0..MaxOthers /\ posts + 1 \in Nat /\ ~(posts + 1 <= posts)
  <2>1. PICK j : j = posts
    OBVIOUS
  <2>2. j \in 0..MaxOthers /\ MaxOthers \in Nat /\ j < MaxOthers
    BY <1>1, <2>1
  <2>3. j \in Int /\ 0 <= j
    BY <2>2
  <2>4. j + 1 \in 0..MaxOthers /\ j + 1 \in Nat /\ j \in Nat
    BY <2>2, <2>3
  <2>5. ~(j + 1 <= j)
    BY <2>3
  <2> QED
    BY <1>1, <2>1, <2>4, <2>5
<1> QED
  BY <1>1, <1>2

(***************************************************************************)
(* What a desk posts is new: posts are counted.                            *)
(***************************************************************************)
LEMMA PostIsNew ==
  ASSUME PageInv, NEW chat \in Chats, DeskPosts(chat), NEW row, row = Row(posts + 1, "post", "")
  PROVE  /\ row \in Rows /\ row.who = "post" /\ row.of = posts + 1 /\ ~Written(row)
         /\ Writes(chat, row)
         /\ posts \in Nat /\ posts' = posts + 1 /\ posts' \in 0..MaxOthers
         /\ UNCHANGED <<turn, chatOf>>
<1>2. /\ posts \in Nat /\ posts' = posts + 1 /\ posts' \in 0..MaxOthers
      /\ posts + 1 \in Nat /\ ~(posts + 1 <= posts)
  BY PostsCount
<1>3. PICK k \in Nat : k = posts + 1
  BY <1>2
<1>4. row \in Rows /\ row.who = "post" /\ row.of = k
  BY <1>3 DEF Row, Rows
<1>5. ~Written(row)
  BY <1>2, <1>3, <1>4 DEF Written, WrittenBy
<1>6. Writes(chat, row) /\ UNCHANGED <<turn, chatOf>>
  BY DEF DeskPosts, Writes
<1> QED
  BY <1>2, <1>3, <1>4, <1>5, <1>6

(***************************************************************************)
(* A post that arrives late, a turn that ends and a message of the desk    *)
(* write to one chat.                                                      *)
(***************************************************************************)
LEMMA DeskSteps ==
  ASSUME PageInv, PostInv, WrittenInv,
         \/ \E stray \in strays : StrayArrives(stray)
         \/ \E n \in Sends : TurnEnds(n)
         \/ \E chat \in Chats : DeskPosts(chat)
  PROVE  PageInv'
<1>0. /\ chatOf \in [Sends -> {Landing} \cup Chats] /\ posts \in 0..MaxOthers
      /\ turn \in [Sends -> {"none", "runs", "closing", "completed", "failed"}] /\ TypeOK
  BY DEF PageInv, TypeOK
<1>1. ASSUME NEW stray \in strays, StrayArrives(stray) PROVE PageInv'
  <2>1. stray.n \in Sends /\ turn[stray.n] = "none" /\ stray.chat \in Chats /\ stray.words \in Texts
    BY StrayIsNew
  <2>2. PICK n \in Sends : n = stray.n
    BY <2>1
  <2>3. PICK chat \in Chats : chat = stray.chat
    BY <2>1
  <2>4. PICK words \in Texts : words = stray.words
    BY <2>1
  <2>5. PICK then \in {"runs", "closing"} : Stores(n, chat, words, then)
    BY <1>1, <2>2, <2>3, <2>4 DEF StrayArrives
  <2>6. turn[n] = "none"
    BY <2>1, <2>2
  <2>7. /\ \E row \in Rows : /\ row.who \in {"user", "note"} /\ row.of = n
                              /\ ~Written(row) /\ Writes(chat, row)
        /\ turn' \in [Sends -> {"none", "runs", "closing", "completed", "failed"}]
        /\ TurnsGo /\ chatOf' \in [Sends -> {Landing} \cup Chats]
    BY <1>0, <2>5, <2>6, StoresWrites
  <2>8. PICK row \in Rows : row.who # "pending" /\ ~Written(row) /\ Writes(chat, row)
    BY <2>7
  <2>9. /\ posts' \in 0..MaxOthers /\ strays' \subseteq strays
        /\ UNCHANGED <<known, expired, owner, session, screen, reading, send>>
    BY <1>0, <1>1 DEF StrayArrives
  <2> QED
    BY <2>7, <2>8, <2>9, DeskWrites
<1>2. ASSUME NEW n \in Sends, TurnCompletes(n) PROVE PageInv'
  <2>1. PICK row : row = Row(n, "desk", "")
    OBVIOUS
  <2>2. PICK chat : chat = chatOf[n]
    OBVIOUS
  <2>3. /\ row \in Rows /\ row.who # "pending" /\ ~Written(row) /\ Writes(chat, row)
        /\ turn' \in [Sends -> {"none", "runs", "closing", "completed", "failed"}] /\ TurnsGo
        /\ chatOf' = chatOf /\ posts' = posts
    BY <1>2, <2>1, <2>2, ReplyIsNew
  <2>4. strays' \subseteq strays /\ UNCHANGED <<known, expired, owner, session, screen, reading, send>>
    BY <1>2 DEF TurnCompletes, running
  <2> QED
    BY <1>0, <2>3, <2>4, DeskWrites
<1>3. ASSUME NEW n \in Sends, TurnFails(n) PROVE PageInv'
  <2>1. turn' \in [Sends -> {"none", "runs", "closing", "completed", "failed"}] /\ Goes
    <3>1. turn[n] \in {"runs", "closing"} /\ turn' = [turn EXCEPT ![n] = "failed"] /\ rows' = rows
      BY <1>3 DEF TurnFails
    <3>2. RowsGo
      BY <3>1, SameGoes
    <3> QED
      BY <1>0, <3>1, <3>2 DEF Goes, TurnsGo
  <2>2. TypeOK'
    BY <1>3, <2>1, TypeParts, TypePartsAfter DEF PageInv, GatewayTyped, SessionTyped, ScreenTyped,
       RunningTyped, ReadingTyped, LoadRecord, TurnFails, session, screen, running, reading
  <2>3. RowsInv'
    BY <1>3 DEF PageInv, RowsInv, TurnFails
  <2> QED
    BY <1>3, <2>1, <2>2, <2>3, AloneStands DEF TurnFails, session, screen, running, reading
<1>4. ASSUME NEW chat \in Chats, DeskPosts(chat) PROVE PageInv'
  <2>1. PICK row : row = Row(posts + 1, "post", "")
    OBVIOUS
  <2>2. /\ row \in Rows /\ row.who # "pending" /\ ~Written(row) /\ Writes(chat, row)
        /\ posts' \in 0..MaxOthers /\ turn' = turn /\ chatOf' = chatOf
    BY <1>4, <2>1, PostIsNew
  <2>3. TurnsGo
    BY <2>2 DEF TurnsGo
  <2>4. strays' \subseteq strays /\ UNCHANGED <<known, expired, owner, session, screen, reading, send>>
    BY <1>4 DEF DeskPosts, running
  <2> QED
    BY <1>0, <2>2, <2>3, <2>4, DeskWrites
<1> QED
  BY <1>1, <1>2, <1>3, <1>4 DEF TurnEnds

(***************************************************************************)
(* The steps of a send that no load answers.                               *)
(***************************************************************************)
LEMMA SendTyped ==
  ASSUME send \in SendRecord
  PROVE  /\ [send EXCEPT !.waits = TRUE] \in SendRecord
         /\ [send EXCEPT !.halted = TRUE] \in SendRecord
         /\ [send EXCEPT !.stage = "reading"] \in SendRecord
         /\ Ended \in SendRecord
         /\ \A why \in {"loading", "reconciling"} :
               [send EXCEPT !.stage = why, !.waits = FALSE] \in SendRecord
  BY DEF SendRecord, Ended

\* The send keeps where it is from, what it says and for whom.
SameSend ==
    /\ send'.n = send.n /\ send'.from = send.from /\ send'.words = send.words
    /\ send'.for = send.for

(***************************************************************************)
(* A request that met a stale session waits for the recovery.              *)
(***************************************************************************)
LEMMA RequestDeniedStands ==
  ASSUME PageInv, RequestDenied
  PROVE  PageInv'
<1>1. send \in SendRecord /\ recoveries \in 0..1 /\ me \in Guests /\ asked \in Guests
  BY TypeParts DEF PageInv, RunningTyped, SessionTyped
<1>2. /\ send' = [send EXCEPT !.waits = TRUE]
      /\ UNCHANGED <<gateway, account, me, screen, reading, strays>>
      /\ send.stage \in {"creating", "posting"} /\ Restore
  BY DEF RequestDenied, Asking
<1>3. recoveries' \in 0..1 /\ asked' \in Guests
  BY <1>1, <1>2 DEF Restore
<1>4. TypeOK'
  BY <1>1, <1>2, <1>3, SendTyped, TypeParts, TypePartsAfter DEF PageInv, GatewayTyped, SessionTyped,
     ScreenTyped, RunningTyped, ReadingTyped, LoadRecord, gateway, screen, reading
<1>5. /\ SameSend /\ send'.stage = send.stage /\ send'.chat = send.chat /\ send'.as = send.as
      /\ Sending /\ Sending'
  BY <1>1, <1>2 DEF SameSend, Sending, SendRecord
<1>6. SendInv'
  BY <1>2, <1>5 DEF PageInv, SendInv, SameSend, gateway, screen
<1>7. OwnerInv'
  BY <1>2, <1>5 DEF PageInv, OwnerInv, SameSend, gateway, screen
<1> QED
  BY <1>2, <1>4, <1>5, <1>6, <1>7, SameGoes, TabStands DEF PageInv, SameSend, gateway, screen, reading

(***************************************************************************)
(* The chat that a send from the landing page creates is new: no load and  *)
(* no copy is of it.                                                       *)
(***************************************************************************)
LEMMA ChatCreatedStands ==
  ASSUME PageInv, ChatCreated
  PROVE  PageInv'
<1>1. /\ send \in SendRecord /\ me \in Guests /\ owner \in [Chats -> {0} \cup Guests]
      /\ route \in {Landing} \cup Chats
  BY TypeParts DEF PageInv, RunningTyped, SessionTyped, GatewayTyped, ScreenTyped
<1>2. /\ send.stage = "creating" /\ owner' = [owner EXCEPT ![send.n] = send.as]
      /\ send' = [send EXCEPT !.stage = "posting", !.chat = send.n, !.as = me, !.replayed = FALSE]
      /\ UNCHANGED <<known, expired, rows, turn, chatOf, posts, session, screen, reading, strays>>
  BY DEF ChatCreated, Asking
<1>3. /\ send.n \in Sends /\ send.n \in Chats /\ send.from = Landing /\ route = Landing
      /\ owner[send.n] = 0
      /\ send.as \in Guests /\ send.words \in Texts
  BY <1>1, <1>2, Places DEF PageInv, SendInv, Sending, SendRecord
<1>4. owner' \in [Chats -> {0} \cup Guests] /\ send' \in SendRecord
  BY <1>1, <1>2, <1>3 DEF SendRecord
<1>5. TypeOK'
  BY <1>1, <1>2, <1>4, TypeParts, TypePartsAfter DEF PageInv, GatewayTyped, SessionTyped,
     ScreenTyped, RunningTyped, ReadingTyped, LoadRecord, session, screen, reading
<1>6. /\ SameSend /\ send'.stage = "posting" /\ send'.chat = send.n /\ send'.as = me
      /\ Sending /\ Sending'
  BY <1>1, <1>2 DEF SameSend, Sending, SendRecord
<1>7. SendInv'
  BY <1>2, <1>3, <1>6 DEF SendInv, SameSend, screen
<1>8. OwnerInv'
  <2>1. me \in Nat /\ send.as <= me /\ send.for <= me
    BY Facts DEF PageInv, OwnerInv
  <2>2. \A c \in Chats : owner'[c] = IF c = send.n THEN send.as ELSE owner[c]
    BY <1>1, <1>2
  <2>3. \A c \in Chats : owner'[c] <= me
    BY <2>1, <2>2 DEF PageInv, OwnerInv
  <2>4. \A c \in Chats : c > send.n => owner'[c] = 0
    <3>1. send.n \in Int
      BY <1>3, Places
    <3> QED
      BY <2>2, <3>1 DEF PageInv, OwnerInv
  <2>5. me <= me
    BY <2>1
  <2> QED
    BY <1>2, <1>3, <1>6, <2>1, <2>3, <2>4, <2>5 DEF OwnerInv, SameSend, session, screen
<1>9. loads = {}
  <2> SUFFICES ASSUME NEW load \in loads PROVE FALSE
    OBVIOUS
  <2>1. load \in LoadRecord /\ LoadIs(load)
    BY Facts
  <2> QED
    BY <1>2, <1>3, <2>1, Places DEF LoadIs, LoadRecord
<1>10. \A c \in Chats : owner[c] # 0 => owner'[c] = owner[c]
  BY <1>1, <1>2, <1>3
<1> QED
  BY <1>2, <1>3, <1>5, <1>6, <1>7, <1>8, <1>9, <1>10, SameGoes, TabStands
     DEF PageInv, SameSend, session, screen, reading

(***************************************************************************)
(* The post that is taken has a turn.                                      *)
(***************************************************************************)
LEMMA PostTakenStands ==
  ASSUME PageInv, PostInv, WrittenInv, PostTaken
  PROVE  PageInv'
<1>1. send \in SendRecord /\ rows \in [Chats -> Seq(Rows)] /\ posts \in 0..MaxOthers /\ TypeOK
      /\ RowsInv
  BY TypeParts DEF PageInv, RunningTyped, GatewayTyped
<1>2. /\ send.stage = "posting" /\ Stores(send.n, send.chat, send.words, "runs")
      /\ send' = [send EXCEPT !.stage = "reading"]
      /\ UNCHANGED <<known, expired, owner, posts, session, screen, reading, strays>>
  BY DEF PostTaken, Asking
<1>3. send.n \in Sends /\ send.chat \in Chats /\ send.words \in Texts /\ Sending
  <2>1. Sending /\ send.stage # "creating"
    BY <1>2 DEF Sending
  <2> QED
    BY <2>1, Facts DEF PageInv, SendInv
<1>4. turn[send.n] = "none"
  <2>1. send.n \notin Taken
    BY <1>2 DEF PostInv, Out
  <2> QED
    BY <1>3, <2>1 DEF Taken
<1>5. /\ turn' \in [Sends -> {"none", "runs", "closing", "completed", "failed"}]
      /\ turn'[send.n] # "none" /\ chatOf' \in [Sends -> {Landing} \cup Chats]
      /\ rows' \in [Chats -> Seq(Rows)] /\ RowsGo /\ RowsInv'
  <2>1. PICK n \in Sends : n = send.n
    BY <1>3
  <2>2. PICK chat \in Chats : chat = send.chat
    BY <1>3
  <2>3. PICK words \in Texts : words = send.words
    BY <1>3
  <2>4. Stores(n, chat, words, "runs") /\ turn[n] = "none" /\ "runs" \in {"runs", "closing"}
    BY <1>2, <1>4, <2>1, <2>2, <2>3
  <2>5. /\ \E row \in Rows : /\ row.who \in {"user", "note"} /\ row.of = n
                              /\ ~Written(row) /\ Writes(chat, row)
        /\ turn' \in [Sends -> {"none", "runs", "closing", "completed", "failed"}]
        /\ turn'[n] # "none" /\ chatOf' \in [Sends -> {Landing} \cup Chats]
    BY <1>1, <2>4, StoresWrites
  <2>6. PICK row \in Rows : row.who # "pending" /\ ~Written(row) /\ Writes(chat, row)
    BY <2>5
  <2>7. rows' \in [Chats -> Seq(Rows)] /\ RowsGo /\ RowsInv'
    BY <1>1, <2>6, WritesGo
  <2> QED
    BY <2>1, <2>5, <2>7
<1>7. TypeOK'
  BY <1>1, <1>2, <1>5, SendTyped, TypeParts, TypePartsAfter DEF PageInv, GatewayTyped,
     SessionTyped, ScreenTyped, RunningTyped, ReadingTyped, LoadRecord, session, screen, reading
<1>8. /\ SameSend /\ send'.stage = "reading" /\ send'.chat = send.chat /\ send'.as = send.as
      /\ Sending /\ Sending'
  BY <1>1, <1>2 DEF SameSend, Sending, SendRecord
<1>10. SendInv'
  BY <1>2, <1>5, <1>8 DEF PageInv, SendInv, SameSend, screen
<1>11. OwnerInv'
  BY <1>2, <1>8 DEF PageInv, OwnerInv, SameSend, session, screen
<1>12. \A load \in loads : load.why = "effect"
  BY <1>2, Facts DEF LoadIs, LoadRecord
<1> QED
  BY <1>2, <1>5, <1>7, <1>8, <1>10, <1>11, <1>12, TabStands DEF PageInv, SameSend, session, screen,
     reading

-----------------------------------------------------------------------------

\* What TranscriptNeverGoesBack and SentTextIsSomewhere say of a step.
Shows == Keeps(rows[route], shown, shown')
Handed ==
    Sending /\ send'.stage = "idle" =>
        \/ turn[send.n] # "none"
        \/ draft' = send.words
        \/ send.stage = "reconciling" /\ LastAsks(shown', send.words)

(***************************************************************************)
(* Loads that are given up, or over, while the transcript loses nothing    *)
(* but bubbles.                                                            *)
(***************************************************************************)
LEMMA FewerLoads ==
  ASSUME PageInv, loads' \subseteq loads, UNCHANGED <<me, owner, rows, route, generation>>,
         \A load \in loads' : load.why # "effect" =>
            send'.stage = send.stage /\ send'.chat = send.chat /\ send'.for = send.for,
         \A load \in loads' :
            load.at = "back" /\ load.seq = generation /\ Keeps(rows[load.chat], shown, load.rows) =>
               Keeps(rows[load.chat], shown', load.rows)
  PROVE  LoadInv'
<1>1. ASSUME NEW load \in loads' PROVE LoadIs(load)'
  BY DEF PageInv, LoadInv, LoadIs
<1>2. ASSUME NEW load \in loads', load.at = "back", load.seq = generation
      PROVE  Keeps(rows'[load.chat], shown', load.rows)
  BY <1>2 DEF PageInv, LoadInv
<1> QED
  BY <1>1, <1>2 DEF PageInv, LoadInv

(***************************************************************************)
(* A load that goes out is of the types of a load.                         *)
(***************************************************************************)
LEMMA FreshTyped ==
  ASSUME generation \in Nat, generation' = generation + 1, NEW chat \in Chats, NEW as \in Guests,
         NEW for \in Guests, NEW why \in {"effect", "loading", "reconciling"}, NEW fresh,
         fresh = Load(generation + 1, why, chat, as, for)
  PROVE  /\ fresh.seq = generation + 1 /\ fresh.why = why /\ fresh.chat = chat /\ fresh.as = as
         /\ fresh.for = for /\ fresh.at = "out" /\ fresh \in LoadRecord' /\ generation' \in Nat
         /\ \A load \in LoadRecord : load \in LoadRecord'
<1>1. generation + 1 \in 1..(generation + 1) /\ generation + 1 \in Nat
  OBVIOUS
<1>2. <<>> \in Seq(Rows)
  OBVIOUS
<1>3. \A seq \in 1..generation : seq \in 1..(generation + 1)
  OBVIOUS
<1> QED
  BY <1>1, <1>2, <1>3 DEF Load, LoadRecord

(***************************************************************************)
(* A load that is new is the newest one, and it is not back.               *)
(***************************************************************************)
LEMMA NewLoad ==
  ASSUME generation \in Nat, NEW others, NEW fresh, loads' = others \cup {fresh},
         generation' = generation + 1, fresh.seq = generation + 1, fresh.at = "out", LoadIs(fresh)',
         fresh.why = "effect" \/ \A load \in others : load.why = "effect",
         \A load \in others : LoadIs(load)' /\ load.seq \in 1..generation,
         \A one, other \in others :
            one.seq = other.seq \/ (one.why # "effect" /\ other.why # "effect") => one = other
  PROVE  LoadInv'
<1>1. \A load \in others : load.seq # generation + 1
  OBVIOUS
<1>2. \A load \in loads' : load \in others \/ load = fresh
  OBVIOUS
<1>3. \A load \in loads' : LoadIs(load)'
  BY <1>2
<1>4. \A load \in loads' : ~(load.at = "back" /\ load.seq = generation')
  BY <1>1, <1>2
<1>5. ASSUME NEW one \in loads', NEW other \in loads',
             one.seq = other.seq \/ (one.why # "effect" /\ other.why # "effect")
      PROVE  one = other
  BY <1>1, <1>2, <1>5
<1> QED
  BY <1>3, <1>4, <1>5 DEF LoadInv

(***************************************************************************)
(* A load that the effect starts with the next generation.                 *)
(***************************************************************************)
LEMMA EffectTyped ==
  ASSUME PageInv, generation' = generation + 1, NEW chat \in Chats, NEW fresh,
         fresh = Load(generation + 1, "effect", chat, me, me)
  PROVE  /\ fresh.seq = generation + 1 /\ fresh.why = "effect" /\ fresh.chat = chat
         /\ fresh.as = me /\ fresh.for = me /\ fresh.at = "out" /\ fresh \in LoadRecord'
         /\ generation' \in Nat /\ owner[chat] <= me /\ me <= me
<1>1. generation \in Nat /\ me \in Nat
  BY Facts
<1>2. me \in Guests
  BY TypeParts DEF PageInv, SessionTyped
<1>3. me <= me
  BY <1>1
<1>4. owner[chat] <= me
  BY DEF PageInv, OwnerInv
<1>5. "effect" \in {"effect", "loading", "reconciling"}
  OBVIOUS
<1> QED
  BY <1>1, <1>2, <1>3, <1>4, <1>5, FreshTyped

(***************************************************************************)
(* A send that failed takes its bubble along, and hands the text back.     *)
(***************************************************************************)
LEMMA ErrsKeeps ==
  ASSUME PageInv, NEW others, Errs(others), others \subseteq loads, Sending,
         \A load \in others : load.why = "effect",
         turn' \in [Sends -> {"none", "runs", "closing", "completed", "failed"}],
         UNCHANGED <<known, expired, owner, rows, chatOf, posts, session, refreshes, strays>>
  PROVE  PageInv' /\ Shows /\ Handed
<1>1. /\ send \in SendRecord /\ shown \in Seq(Rows) /\ PendingLast(shown)
      /\ send.n \in Sends /\ send.words \in Texts
  BY TypeParts DEF PageInv, RunningTyped, ScreenTyped, ShownInv, SendInv
<1>2. /\ draft' = send.words /\ send' = Ended /\ loads' = others
      /\ shown' = Without(shown, Row(send.n, "pending", send.words))
      /\ UNCHANGED <<page, route, generation, mirror>>
  BY DEF Errs
<1>3. Row(send.n, "pending", send.words) \in Rows /\ Row(send.n, "pending", send.words).who = "pending"
  BY <1>1, SendsAre DEF Row, Rows
<1>4. /\ shown' \in Seq(Rows) /\ PendingLast(shown') /\ \A list : Keeps(list, shown, shown')
      /\ \A list, other : Keeps(list, shown, other) => Keeps(list, shown', other)
      /\ AllPending(shown) => AllPending(shown')
  BY <1>1, <1>2, <1>3, BubbleTakenAway
<1>5. TypeOK'
  <2>1. send' \in SendRecord /\ draft' \in Texts \cup {""} /\ \A load \in loads' : load \in LoadRecord
    BY <1>1, <1>2, SendTyped, Facts
  <2> QED
    BY <1>2, <1>4, <2>1, TypeParts, TypePartsAfter DEF PageInv, GatewayTyped, SessionTyped,
       ScreenTyped, RunningTyped, ReadingTyped, LoadRecord, session
<1>6. send'.n = send.n /\ send'.stage = "idle" /\ send'.as = send.as /\ send'.for = send.for /\ ~Sending'
  BY <1>1, <1>2 DEF Ended, SendRecord, Sending
<1>7. SendInv' /\ OwnerInv'
  BY <1>6 DEF PageInv, SendInv, OwnerInv, session
<1>8. LoadInv'
  BY <1>2, <1>4, FewerLoads DEF session
<1>9. MirrorInv'
  BY <1>2, <1>4, <1>6 DEF PageInv, MirrorInv, session
<1>10. ShownInv' /\ RowsInv'
  BY <1>2, <1>4 DEF PageInv, ShownInv, RowsInv
<1> QED
  BY <1>2, <1>4, <1>5, <1>7, <1>8, <1>9, <1>10 DEF PageInv, Shows, Handed

(***************************************************************************)
(* While a request is out no send waits for a load.                        *)
(***************************************************************************)
LEMMA OnlyEffects ==
  ASSUME PageInv, send.stage \in {"idle", "creating", "posting", "reading"}
  PROVE  \A load \in loads : load.why = "effect"
  BY Facts DEF LoadIs, LoadRecord

(***************************************************************************)
(* A turn whose stream closes under it is still of its type.               *)
(***************************************************************************)
LEMMA ClosedTyped ==
  ASSUME PageInv
  PROVE  Closed \in [Sends -> {"none", "runs", "closing", "completed", "failed"}]
  BY DEF Closed, PageInv, TypeOK

(***************************************************************************)
(* A request that fails, and a stream that breaks or reports a failure,    *)
(* end the send with its text in the composer.                             *)
(***************************************************************************)
LEMMA FailsKeeps ==
  ASSUME PageInv, RequestFails \/ StreamBreaks \/ StreamFails
  PROVE  PageInv' /\ Shows /\ Handed
<1>1. /\ send.stage \in {"creating", "posting", "reading"} /\ Sending /\ Errs(loads)
      /\ UNCHANGED <<known, expired, owner, rows, chatOf, posts, session, refreshes, strays>>
      /\ turn' \in {turn, Closed}
  BY DEF RequestFails, StreamBreaks, StreamFails, Asking, Sending, gateway
<1>2. turn' \in [Sends -> {"none", "runs", "closing", "completed", "failed"}]
  BY <1>1, ClosedTyped DEF PageInv, TypeOK
<1> QED
  BY <1>1, <1>2, OnlyEffects, ErrsKeeps

(***************************************************************************)
(* A send that waits for a load: the newest one, of its chat.              *)
(***************************************************************************)
LEMMA AwaitsKeeps ==
  ASSUME PageInv, NEW why \in {"loading", "reconciling"}, Awaits(why),
         (send.stage = "posting" /\ why = "reconciling") \/ send.stage = "reading",
         why = "loading" => send.stage = "reading" /\ turn' = turn,
         turn' \in [Sends -> {"none", "runs", "closing", "completed", "failed"}],
         \A stray \in strays' : stray \in [n : Sends, chat : Chats, as : Guests, words : Texts],
         UNCHANGED <<known, expired, owner, rows, chatOf, posts, session, refreshes>>
  PROVE  PageInv' /\ Shows /\ Handed
<1>0. PICK fresh : fresh = Load(generation + 1, why, send.chat, me, send.for)
  OBVIOUS
<1>1. /\ send \in SendRecord /\ me \in Guests /\ generation \in Nat /\ Sending
      /\ send.stage # "creating" /\ send.chat \in Chats
  BY Facts, TypeParts DEF PageInv, SessionTyped, Sending
<1>2. /\ send' = [send EXCEPT !.stage = why, !.waits = FALSE]
      /\ loads' = loads \cup {fresh} /\ generation' = generation + 1
      /\ UNCHANGED <<screen, mirror>>
  BY <1>0 DEF Awaits
<1>3. /\ SameSend /\ send'.stage = why /\ send'.chat = send.chat /\ send'.as = send.as /\ Sending'
  BY <1>1, <1>2 DEF SameSend, Sending, SendRecord
<1>4. /\ fresh.seq = generation + 1 /\ fresh.why = why /\ fresh.chat = send.chat /\ fresh.as = me
      /\ fresh.for = send.for /\ fresh.at = "out" /\ fresh \in LoadRecord'
  <2>1. send.for \in Guests
    BY <1>1 DEF SendRecord
  <2> QED
    BY <1>0, <1>1, <1>2, <2>1, FreshTyped
<1>5. \A load \in loads : load.why = "effect" /\ load.seq \in 1..generation
  BY OnlyEffects, Facts DEF LoadRecord
<1>6. TypeOK'
  <2>1. \A load \in loads' : load \in LoadRecord'
    <3>1. \A load \in loads : load \in LoadRecord'
      BY <1>1, <1>2, Facts DEF LoadRecord
    <3> QED
      BY <1>2, <1>4, <3>1
  <2>2. send' \in SendRecord
    BY <1>1, <1>2, SendTyped
  <2>3. generation' \in Nat
    BY <1>1, <1>2
  <2> QED
    BY <1>2, <2>1, <2>2, <2>3, TypeParts, TypePartsAfter DEF PageInv, GatewayTyped, SessionTyped,
       ScreenTyped, RunningTyped, ReadingTyped, session, screen
<1>7. SendInv'
  <2>1. send'.stage = "loading" => turn'[send.n] # "none"
    BY <1>3 DEF PageInv, SendInv
  <2> QED
    BY <1>1, <1>2, <1>3, <2>1 DEF PageInv, SendInv, SameSend, screen
<1>8. OwnerInv'
  BY <1>1, <1>3 DEF PageInv, OwnerInv, SameSend, session
<1>9. LoadInv'
  <2>1. LoadIs(fresh)'
    <3>1. send.for <= me /\ me <= me
      BY Facts DEF PageInv, OwnerInv
    <3> QED
      BY <1>3, <1>4, <3>1 DEF LoadIs, SameSend, session
  <2>2. \A load \in loads : LoadIs(load)'
    BY <1>2, <1>5 DEF PageInv, LoadInv, LoadIs, session, screen
  <2> QED
    BY <1>1, <1>2, <1>4, <1>5, <2>1, <2>2, NewLoad DEF PageInv, LoadInv
<1>10. MirrorInv'
  BY <1>1, <1>2, <1>3 DEF PageInv, MirrorInv, SameSend, session, screen
<1>11. ShownInv' /\ RowsInv'
  BY <1>2 DEF PageInv, ShownInv, RowsInv, screen
<1> QED
  BY <1>2, <1>3, <1>6, <1>7, <1>8, <1>9, <1>10, <1>11, KeepsItself
     DEF PageInv, Shows, Handed, screen, Sending

(***************************************************************************)
(* A send that is stopped before its chat was created.                     *)
(***************************************************************************)
LEMMA GivesUpKeeps ==
  ASSUME PageInv, send.stage = "creating", draft' = send.words, send' = Ended,
         UNCHANGED <<gateway, session, page, route, shown, reading, strays>>
  PROVE  PageInv' /\ Shows /\ Handed
<1>1. send \in SendRecord /\ Sending
  BY Facts DEF Sending
<1>2. send'.n = send.n /\ send'.stage = "idle" /\ send'.as = send.as /\ send'.for = send.for /\ ~Sending'
  BY <1>1 DEF Ended, SendRecord, Sending
<1>3. TypeOK'
  <2>1. draft' \in Texts \cup {""}
    BY <1>1 DEF SendRecord
  <2>2. send' \in SendRecord
    BY <1>1, SendTyped
  <2> QED
    BY <2>1, <2>2, TypeParts, TypePartsAfter DEF PageInv, GatewayTyped, SessionTyped, ScreenTyped,
       RunningTyped, ReadingTyped, LoadRecord, gateway, session, reading
<1>4. SendInv' /\ OwnerInv'
  BY <1>2 DEF PageInv, SendInv, OwnerInv, session, gateway
<1>5. LoadInv'
  BY OnlyEffects, FewerLoads DEF gateway, session, reading
<1>6. MirrorInv' /\ ShownInv' /\ RowsInv'
  BY <1>2 DEF PageInv, MirrorInv, ShownInv, RowsInv, gateway, session, reading
<1> QED
  BY <1>3, <1>4, <1>5, <1>6, KeepsItself DEF PageInv, Shows, Handed

(***************************************************************************)
(* An aborted send ends, or reconciles with the transcript.                *)
(***************************************************************************)
LEMMA AbortsKeeps ==
  ASSUME PageInv, Aborts, send.stage \in {"creating", "posting", "reading"},
         turn' \in [Sends -> {"none", "runs", "closing", "completed", "failed"}],
         send.stage = "creating" => UNCHANGED <<turn, strays>>,
         \A stray \in strays' : stray \in [n : Sends, chat : Chats, as : Guests, words : Texts],
         UNCHANGED <<known, expired, owner, rows, chatOf, posts, session, refreshes>>
  PROVE  PageInv' /\ Shows /\ Handed
<1>1. CASE send.stage = "creating"
  BY <1>1, GivesUpKeeps DEF Aborts, gateway, reading
<1>2. CASE send.stage # "creating"
  BY <1>2, AwaitsKeeps DEF Aborts
<1> QED
  BY <1>1, <1>2

(***************************************************************************)
(* A stream that completes makes the send wait for the transcript.         *)
(***************************************************************************)
LEMMA StreamCompletesKeeps ==
  ASSUME PageInv, StreamCompletes
  PROVE  PageInv' /\ Shows /\ Handed
<1>1. /\ turn' \in [Sends -> {"none", "runs", "closing", "completed", "failed"}]
      /\ \A stray \in strays' : stray \in [n : Sends, chat : Chats, as : Guests, words : Texts]
  BY DEF StreamCompletes, PageInv, TypeOK, gateway
<1>2. turn' = turn /\ send.stage = "reading"
  BY DEF StreamCompletes, Asking, gateway
<1> QED
  BY <1>1, <1>2, AwaitsKeeps DEF StreamCompletes, gateway

(***************************************************************************)
(* Stop in each stage of a send.                                           *)
(***************************************************************************)
LEMMA StopKeepsPage ==
  ASSUME PageInv, Stop \/ StoppedReplay
  PROVE  PageInv' /\ Shows /\ Handed
<1>1. /\ send \in SendRecord
      /\ turn \in [Sends -> {"none", "runs", "closing", "completed", "failed"}]
      /\ \A stray \in strays : stray \in [n : Sends, chat : Chats, as : Guests, words : Texts]
      /\ send.stage \in {"creating", "posting", "reading"} /\ Sending
  <2>1. send.stage \in {"creating", "posting", "reading"} /\ Sending
    BY DEF Stop, StoppedReplay, Sending
  <2> QED
    BY <2>1, TypeParts DEF PageInv, GatewayTyped, RunningTyped
<1>2. CASE StoppedReplay
  BY <1>1, <1>2, AbortsKeeps DEF StoppedReplay, gateway
<1>3. CASE Stop /\ Aborts /\ strays' = strays
  <2>1. /\ turn' \in [Sends -> {"none", "runs", "closing", "completed", "failed"}]
        /\ send.stage = "creating" => UNCHANGED turn
        /\ UNCHANGED <<known, expired, owner, rows, chatOf, posts, session, refreshes>>
    BY <1>1, <1>3, ClosedTyped DEF Stop
  <2> QED
    BY <1>1, <1>3, <2>1, AbortsKeeps
<1>4. CASE /\ Stop /\ Aborts /\ send.stage = "posting"
           /\ strays' = strays \cup {[n |-> send.n, chat |-> send.chat, as |-> send.as,
                                      words |-> send.words]}
  <2>1. /\ turn' = turn /\ UNCHANGED <<known, expired, owner, rows, chatOf, posts, session, refreshes>>
    BY <1>4 DEF Stop
  <2>2. send.n \in Sends /\ send.chat \in Chats /\ send.as \in Guests /\ send.words \in Texts
    BY <1>1, <1>4, Facts DEF PageInv, SendInv, SendRecord
  <2>3. \A stray \in strays' : stray \in [n : Sends, chat : Chats, as : Guests, words : Texts]
    BY <1>1, <1>4, <2>2
  <2> QED
    BY <1>1, <1>4, <2>1, <2>3, AbortsKeeps
<1>5. CASE /\ Stop /\ send' = [send EXCEPT !.halted = TRUE]
           /\ UNCHANGED <<screen, loads, generation, mirror, strays>>
  <2>1. /\ turn' \in [Sends -> {"none", "runs", "closing", "completed", "failed"}]
        /\ UNCHANGED <<known, expired, owner, rows, chatOf, posts, session, refreshes>>
    BY <1>1, <1>5, ClosedTyped DEF Stop
  <2>2. TypeOK'
    BY <1>1, <1>5, <2>1, SendTyped, TypeParts, TypePartsAfter DEF PageInv, GatewayTyped, SessionTyped,
       ScreenTyped, RunningTyped, ReadingTyped, LoadRecord, session, screen
  <2>3. /\ SameSend /\ send'.stage = send.stage /\ send'.chat = send.chat /\ send'.as = send.as
        /\ Sending'
    BY <1>1, <1>5 DEF SameSend, Sending, SendRecord
  <2>4. SendInv' /\ OwnerInv'
    <3>1. turn' \in {turn, Closed}
      BY <1>5 DEF Stop
    <3>2. send.stage \in {"reading", "loading"} => turn'[send.n] # "none"
      BY <1>1, <3>1 DEF PageInv, SendInv, Closed
    <3> QED
      BY <1>1, <1>5, <2>1, <2>3, <3>2 DEF PageInv, SendInv, OwnerInv, SameSend, session, screen
  <2>5. PageInv'
    BY <1>1, <1>5, <2>1, <2>2, <2>3, <2>4, SameGoes, TabStands DEF PageInv, SameSend, session, screen
  <2> QED
    BY <1>5, <2>3, <2>5, KeepsItself DEF Shows, Handed, Sending, screen
<1> QED
  BY <1>2, <1>3, <1>4, <1>5 DEF Stop

(***************************************************************************)
(* A bubble is shown, and nothing of the desk moves.                       *)
(***************************************************************************)
LEMMA SendKeepsPage ==
  ASSUME PageInv, Send
  PROVE  PageInv' /\ Shows /\ Handed
<1> DEFINE bubble == Row(send.n + 1, "pending", draft)
<1>1. /\ send \in SendRecord /\ me \in Guests /\ route \in {Landing} \cup Chats /\ shown \in Seq(Rows)
      /\ draft \in Texts \cup {""} /\ draft # "" /\ send.n < MaxSends /\ send.stage = "idle"
  BY TypeParts DEF PageInv, RunningTyped, ScreenTyped, SessionTyped, Send, Sending
<1>2. /\ send.n \in 0..MaxSends /\ send.n + 1 \in Sends /\ send.n + 1 \in 0..MaxSends /\ draft \in Texts
  <2>1. send.n \in 0..MaxSends /\ draft \in Texts
    BY <1>1 DEF SendRecord
  <2>2. MaxSends \in Nat
    BY Places
  <2>3. send.n < MaxSends
    BY <1>1
  <2>4. send.n + 1 \in 1..MaxSends /\ send.n + 1 \in 0..MaxSends
    BY <2>1, <2>2, <2>3
  <2> QED
    BY <2>1, <2>4 DEF Sends
<1>3. /\ draft' = "" /\ shown' = Append(shown, bubble)
      /\ send' = [n |-> send.n + 1, stage |-> IF route = Landing THEN "creating" ELSE "posting",
                  chat |-> route, from |-> route, words |-> draft, as |-> me, for |-> me,
                  waits |-> FALSE, replayed |-> FALSE, halted |-> FALSE]
      /\ UNCHANGED <<gateway, session, reading, page, route, strays>>
  BY DEF Send
<1>4. bubble \in Rows /\ bubble.who = "pending"
  <2>1. PICK k \in Sends : k = send.n + 1
    BY <1>2
  <2>2. k \in Nat
    BY <2>1, SendsAre
  <2> QED
    BY <1>2, <2>1, <2>2 DEF Row, Rows
<1> HIDE DEF bubble
<1>5. /\ shown' \in Seq(Rows) /\ PendingLast(shown') /\ \A list : Keeps(list, shown, shown')
      /\ \A list, other : Keeps(list, shown, other) => Keeps(list, shown', other)
      /\ AllPending(shown) => AllPending(shown')
  BY <1>1, <1>3, <1>4, BubbleShown DEF PageInv, ShownInv
<1>6. send' \in SendRecord
  BY <1>1, <1>2, <1>3 DEF SendRecord
<1>7. TypeOK'
  BY <1>3, <1>5, <1>6, TypeParts, TypePartsAfter DEF PageInv, GatewayTyped, SessionTyped, ScreenTyped,
     RunningTyped, ReadingTyped, LoadRecord, gateway, session, reading
<1>8. /\ send'.n = send.n + 1 /\ send'.chat = route /\ send'.from = route /\ send'.words = draft
      /\ send'.as = me /\ send'.for = me
      /\ send'.stage = IF route = Landing THEN "creating" ELSE "posting"
  BY <1>3
<1>9. owner[send.n + 1] = 0 /\ send.n + 1 \in Chats
  <2>1. send.n + 1 \in Chats
    BY <1>2, Places
  <2>2. send.n + 1 > send.n
    BY <1>2
  <2> QED
    BY <2>1, <2>2 DEF PageInv, OwnerInv
<1>10. SendInv'
  BY <1>2, <1>3, <1>8, <1>9 DEF SendInv, Sending, gateway
<1>11. OwnerInv'
  <2>1. me <= me /\ \A c \in Chats : c > send.n + 1 => c > send.n
    <3>1. me \in Int /\ send.n \in Int
      BY <1>2, Facts
    <3>2. \A c \in Chats : c \in Int
      BY Places
    <3> QED
      BY <3>1, <3>2
  <2>2. route # Landing => owner[route] <= me
    BY <1>1 DEF PageInv, OwnerInv
  <2> QED
    BY <1>3, <1>8, <2>1, <2>2 DEF PageInv, OwnerInv, gateway, session
<1>12. \A load \in loads : load.why = "effect"
  BY <1>1, OnlyEffects
<1>13. LoadInv'
  BY <1>3, <1>5, <1>12, FewerLoads DEF gateway, session, reading
<1>14. MirrorInv'
  <2>1. \A g \in Guests : mirror[g][send.n + 1] = <<>>
    <3> TAKE g \in Guests
    <3>1. mirror[g][send.n + 1] # <<>> => g <= owner[send.n + 1]
      BY <1>9 DEF PageInv, MirrorInv
    <3> QED
      BY <1>9, <3>1, Numbers
  <2> QED
    BY <1>3, <1>5, <1>8, <2>1 DEF PageInv, MirrorInv, gateway, session, reading
<1>15. ShownInv' /\ RowsInv'
  BY <1>3, <1>5 DEF PageInv, ShownInv, RowsInv, gateway
<1> QED
  BY <1>1, <1>5, <1>7, <1>10, <1>11, <1>13, <1>14, <1>15 DEF PageInv, Shows, Handed, Sending

(***************************************************************************)
(* On a chat, every load reads it; on the landing page none is an effect's.*)
(***************************************************************************)
LEMMA LoadChat ==
  ASSUME PageInv, NEW load \in loads
  PROVE  /\ route # Landing => load.chat = route /\ owner[load.chat] <= load.for
         /\ route = Landing => load.why # "effect"
         /\ load.why # "effect" => Sending
<1>1. load \in LoadRecord /\ LoadIs(load)
  BY Facts
<1>2. load.chat \in Chats /\ load.why \in {"effect", "loading", "reconciling"}
  BY <1>1 DEF LoadRecord
<1>3. load.why # "effect" => Sending
  BY <1>1, <1>2 DEF LoadIs, Sending
<1> QED
  BY <1>1, <1>2, <1>3, Places DEF PageInv, LoadIs, SendInv, OwnerInv

(***************************************************************************)
(* A load that is answered, or waits for the session.                      *)
(***************************************************************************)
LEMMA MovedLoad ==
  ASSUME PageInv, NEW load \in loads, NEW moved \in LoadRecord, moved.seq = load.seq,
         moved.why = load.why,
         LoadIs(moved), loads' = (loads \ {load}) \cup {moved},
         moved.at = "back" => Keeps(rows[moved.chat], shown, moved.rows),
         UNCHANGED <<me, owner, rows, route, generation, shown, send>>
  PROVE  LoadInv'
<1>1. \A other \in loads' : other = moved \/ (other \in loads /\ other # load)
  OBVIOUS
<1>2. LoadIs(moved)'
  BY DEF LoadIs
<1>3. ASSUME NEW other \in loads' PROVE LoadIs(other)'
  BY <1>1, <1>2 DEF PageInv, LoadInv, LoadIs
<1>4. ASSUME NEW other \in loads', other.at = "back", other.seq = generation
      PROVE Keeps(rows[other.chat], shown, other.rows)
  BY <1>1, <1>4 DEF PageInv, LoadInv
<1>5. ASSUME NEW one \in loads', NEW other \in loads',
             one.seq = other.seq \/ (one.why # "effect" /\ other.why # "effect")
      PROVE  one = other
  BY <1>1, <1>5 DEF PageInv, LoadInv
<1> QED
  BY <1>3, <1>4, <1>5 DEF LoadInv

(***************************************************************************)
(* A read of the chat brings the chat, which has what is shown of it.      *)
(***************************************************************************)
LEMMA LoadReadKeeps ==
  ASSUME PageInv, NEW load \in loads, LoadRead(load)
  PROVE  PageInv' /\ Shows /\ Handed
<1>0. PICK moved : moved = [load EXCEPT !.at = "back", !.rows = rows[load.chat]]
  OBVIOUS
<1>1. /\ owner[load.chat] = load.as /\ loads' = (loads \ {load}) \cup {moved}
      /\ UNCHANGED <<gateway, session, screen, running, generation, refreshes, mirror>>
  BY <1>0 DEF LoadRead, Accepts
<1>2. load \in LoadRecord /\ LoadIs(load) /\ load.chat \in Chats /\ rows[load.chat] \in Seq(Rows)
  BY Facts, TypeParts DEF LoadRecord, PageInv, GatewayTyped
<1>3. /\ moved \in LoadRecord /\ moved.seq = load.seq /\ moved.why = load.why /\ moved.chat = load.chat
      /\ moved.for = load.for /\ moved.as = load.as /\ moved.at = "back" /\ moved.rows = rows[load.chat]
  BY <1>0, <1>2 DEF LoadRecord
<1>4. Within(rows[load.chat], rows[load.chat])
  BY <1>2, KeepsItself DEF PageInv, RowsInv, Within
<1>5. LoadIs(moved)
  BY <1>1, <1>2, <1>3, <1>4 DEF LoadIs
<1>6. Keeps(rows[load.chat], shown, rows[load.chat])
  BY LoadChat, PendingKeeps DEF PageInv, ShownInv
<1>7. LoadInv'
  BY <1>1, <1>3, <1>5, <1>6, MovedLoad DEF gateway, session, screen, running
<1>8. TypeOK'
  <2>1. \A other \in loads' : other \in LoadRecord
    BY <1>1, <1>3, Facts
  <2> QED
    BY <1>1, <2>1, TypeParts, TypePartsAfter DEF PageInv, GatewayTyped, SessionTyped, ScreenTyped,
       RunningTyped, ReadingTyped, LoadRecord, gateway, session, screen, running
<1>9. SendInv' /\ OwnerInv'
  BY <1>1, SameGoes, SendStands DEF gateway, session, screen, running
<1>10. MirrorInv' /\ ShownInv' /\ RowsInv'
  BY <1>1 DEF PageInv, MirrorInv, ShownInv, RowsInv, Sending, gateway, session, screen, running
<1> QED
  BY <1>1, <1>7, <1>8, <1>9, <1>10, KeepsItself DEF PageInv, Shows, Handed, Sending, screen, running

(***************************************************************************)
(* A read that met a stale session waits for the recovery.                 *)
(***************************************************************************)
LEMMA LoadDeniedKeeps ==
  ASSUME PageInv, NEW load \in loads, LoadDenied(load)
  PROVE  PageInv' /\ Shows /\ Handed
<1>0. PICK moved : moved = [load EXCEPT !.at = "waits"]
  OBVIOUS
<1>1. /\ loads' = (loads \ {load}) \cup {moved} /\ Restore
      /\ UNCHANGED <<gateway, account, me, screen, running, generation, refreshes, mirror>>
  BY <1>0 DEF LoadDenied
<1>2. load \in LoadRecord /\ LoadIs(load)
  BY Facts
<1>3. /\ moved \in LoadRecord /\ moved.seq = load.seq /\ moved.why = load.why /\ moved.chat = load.chat
      /\ moved.for = load.for /\ moved.as = load.as /\ moved.at = "waits"
  BY <1>0, <1>2 DEF LoadRecord
<1>4. LoadIs(moved)
  BY <1>2, <1>3 DEF LoadIs
<1>5. LoadInv'
  BY <1>1, <1>3, <1>4, MovedLoad DEF gateway, screen, running
<1>6. TypeOK'
  <2>1. \A other \in loads' : other \in LoadRecord
    BY <1>1, <1>3, Facts
  <2>2. recoveries' \in 0..1 /\ asked' \in Guests
    BY <1>1, TypeParts DEF Restore, PageInv, SessionTyped
  <2> QED
    BY <1>1, <2>1, <2>2, TypeParts, TypePartsAfter DEF PageInv, GatewayTyped, SessionTyped, ScreenTyped,
       RunningTyped, ReadingTyped, LoadRecord, gateway, screen, running
<1>7. SendInv' /\ OwnerInv'
  BY <1>1, SameGoes, SendStands DEF gateway, screen, running
<1>8. MirrorInv' /\ ShownInv' /\ RowsInv'
  BY <1>1 DEF PageInv, MirrorInv, ShownInv, RowsInv, Sending, gateway, screen, running
<1> QED
  BY <1>1, <1>5, <1>6, <1>7, <1>8, KeepsItself DEF PageInv, Shows, Handed, Sending, screen, running

-----------------------------------------------------------------------------
(* What a load brings.                                                      *)

Brought(load) == IF Honored(load) THEN load.rows ELSE shown
Copied(load) ==
    IF Honored(load) /\ ~account THEN [mirror EXCEPT ![load.for][load.chat] = load.rows] ELSE mirror

\* A copy of the device is what its chat once was, for no later identity than its owner.
CopiesAre(copies) ==
    /\ copies \in [Guests -> [Chats -> Seq(Rows)]]
    /\ \A g \in Guests, c \in Chats :
        /\ Within(copies[g][c], rows[c])
        /\ copies[g][c] # <<>> => ~account /\ g <= owner[c]

(***************************************************************************)
(* The transcript that a load brings goes on from what is shown, and the   *)
(* copy that it leaves on the device has it.                               *)
(***************************************************************************)
LEMMA Landed ==
  ASSUME PageInv, NEW load \in loads, load.at = "back"
  PROVE  /\ Brought(load) \in Seq(Rows) /\ PendingLast(Brought(load))
         /\ Keeps(rows[load.chat], shown, Brought(load))
         /\ Keeps(rows[load.chat], Brought(load), rows[load.chat])
         /\ \A other \in loads \ {load} : other.at = "back" /\ other.seq = generation =>
               Keeps(rows[other.chat], Brought(load), other.rows)
         /\ CopiesAre(Copied(load))
         /\ Copied(load)[me][load.chat] # <<>> =>
               Keeps(rows[load.chat], Brought(load), Copied(load)[me][load.chat])
         /\ route = Landing /\ Copied(load)[me][load.chat] # <<>>
               => Copied(load)[me][load.chat] = Brought(load)
<1>1. /\ load \in LoadRecord /\ LoadIs(load) /\ load.chat \in Chats /\ load.for \in Guests
      /\ load.rows \in Seq(Rows) /\ owner[load.chat] = load.as
      /\ Within(load.rows, rows[load.chat])
  BY Facts DEF LoadRecord, LoadIs
<1>2. /\ shown \in Seq(Rows) /\ PendingLast(shown) /\ me \in Guests
      /\ mirror \in [Guests -> [Chats -> Seq(Rows)]] /\ CopiesAre(mirror)
  BY TypeParts DEF PageInv, ScreenTyped, SessionTyped, ReadingTyped, ShownInv, MirrorInv, CopiesAre
<1>3. /\ me \in Nat /\ load.for \in Nat /\ load.as \in Nat /\ owner[load.chat] \in Nat
      /\ load.for <= load.as /\ load.as <= me
  BY <1>1, Facts, Numbers DEF LoadRecord, LoadIs
<1>4. Keeps(rows[load.chat], shown, rows[load.chat])
  BY LoadChat, PendingKeeps DEF PageInv, ShownInv
<1>5. route # Landing => load.chat = route /\ load.for = load.as
  BY <1>1, <1>3, LoadChat
<1>6. route = Landing => mirror[me][load.chat] = <<>>
  <2> HAVE route = Landing
  <2>1. Sending /\ load.why # "effect" /\ send.from = Landing /\ send.stage = load.why
        /\ load.chat = send.chat
    BY <1>1, LoadChat DEF LoadIs, PageInv, SendInv
  <2>2. load.chat = send.n
    BY <1>1, <2>1 DEF LoadRecord, PageInv, SendInv
  <2> QED
    BY <1>2, <2>1, <2>2 DEF PageInv, MirrorInv
<1>7. CASE Honored(load)
  <2>1. Brought(load) = load.rows
    BY <1>7 DEF Brought
  <2>2. load.seq = generation
    BY <1>7 DEF Honored
  <2>3. Keeps(rows[load.chat], shown, load.rows)
    BY <2>2 DEF PageInv, LoadInv
  <2>4. PendingLast(load.rows) /\ Keeps(rows[load.chat], load.rows, rows[load.chat])
    BY <1>1, WithinPendingLast
  <2>5. \A other \in loads \ {load} : other.seq # generation
    BY <2>2 DEF PageInv, LoadInv
  <2>6. CASE account
    <3>1. Copied(load) = mirror /\ mirror[me][load.chat] = <<>>
      BY <1>1, <1>2, <2>6 DEF Copied, CopiesAre
    <3> QED
      BY <1>1, <1>2, <2>1, <2>3, <2>4, <2>5, <3>1
  <2>7. CASE ~account
    <3> DEFINE copies == [mirror EXCEPT ![load.for][load.chat] = load.rows]
    <3>1. Copied(load) = copies
      BY <1>7, <2>7 DEF Copied
    <3>2. /\ copies \in [Guests -> [Chats -> Seq(Rows)]]
          /\ \A g \in Guests, c \in Chats :
                copies[g][c] = IF g = load.for /\ c = load.chat THEN load.rows ELSE mirror[g][c]
      BY <1>1, <1>2
    <3> HIDE DEF copies
    <3>3. CopiesAre(copies)
      BY <1>1, <1>2, <1>3, <2>7, <3>2 DEF CopiesAre
    <3>4. copies[me][load.chat] \in {<<>>, load.rows}
      <4>1. CASE me = load.for
        BY <1>1, <1>2, <3>2, <4>1
      <4>2. CASE me # load.for
        <5>1. copies[me][load.chat] = mirror[me][load.chat]
          BY <1>1, <1>2, <3>2, <4>2
        <5>2. CASE route = Landing
          BY <1>6, <5>1, <5>2
        <5>3. CASE route # Landing
          <6>1. ~(me <= owner[load.chat])
            BY <1>1, <1>3, <1>5, <4>2, <5>3
          <6> QED
            BY <1>1, <1>2, <5>1, <6>1 DEF CopiesAre
        <5> QED
          BY <5>2, <5>3
      <4> QED
        BY <4>1, <4>2
    <3>5. Keeps(rows[load.chat], load.rows, load.rows)
      BY KeepsItself
    <3> QED
      BY <1>1, <2>1, <2>3, <2>4, <2>5, <3>1, <3>3, <3>4, <3>5
  <2> QED
    BY <2>6, <2>7
<1>8. CASE ~Honored(load)
  <2>1. Brought(load) = shown /\ Copied(load) = mirror
    BY <1>8 DEF Brought, Copied
  <2>2. Keeps(rows[load.chat], shown, shown)
    BY KeepsItself
  <2>3. \A other \in loads \ {load} :
           other.at = "back" /\ other.seq = generation => Keeps(rows[other.chat], shown, other.rows)
    BY DEF PageInv, LoadInv
  <2>4. mirror[me][load.chat] # <<>> => Keeps(rows[load.chat], shown, mirror[me][load.chat])
    BY <1>5, <1>6 DEF PageInv, MirrorInv
  <2> QED
    BY <1>2, <1>4, <1>6, <2>1, <2>2, <2>3, <2>4
<1> QED
  BY <1>7, <1>8

(***************************************************************************)
(* A load of the page's effect lands, or is lost.                          *)
(***************************************************************************)
LEMMA EffectLandsKeeps ==
  ASSUME PageInv, NEW load \in loads, load.at = "back",
         shown' = Brought(load), mirror' = Copied(load), loads' = loads \ {load},
         load.why = "effect", UNCHANGED <<page, route, draft, send, generation>>,
         UNCHANGED <<gateway, session, refreshes, strays>>
  PROVE  PageInv' /\ Shows /\ Handed
<1>1. load \in LoadRecord /\ load.chat = route /\ route # Landing
  BY Facts, LoadChat
<1>2. /\ shown' \in Seq(Rows) /\ PendingLast(shown') /\ Keeps(rows[route], shown, shown')
      /\ Keeps(rows[route], shown', rows[route])
      /\ \A other \in loads \ {load} :
            other.at = "back" /\ other.seq = generation => Keeps(rows[other.chat], shown', other.rows)
      /\ CopiesAre(mirror')
      /\ mirror'[me][route] # <<>> => Keeps(rows[route], shown', mirror'[me][route])
  BY <1>1, Landed
<1>3. TypeOK'
  <2>1. \A other \in loads' : other \in LoadRecord
    BY Facts
  <2> QED
    BY <1>2, <2>1, TypeParts, TypePartsAfter DEF PageInv, GatewayTyped, SessionTyped, ScreenTyped,
       RunningTyped, ReadingTyped, LoadRecord, CopiesAre, gateway, session
<1>4. SendInv' /\ OwnerInv'
  BY SameGoes, SendStands DEF gateway, session
<1>5. LoadInv'
  <2>1. loads' \subseteq loads
    OBVIOUS
  <2> QED
    BY <1>2, <2>1, FewerLoads DEF gateway, session
<1>6. MirrorInv'
  <2>1. \A g \in Guests : ~(Sending /\ send.from = Landing)
    BY <1>1 DEF PageInv, SendInv
  <2> QED
    BY <1>2, <2>1 DEF MirrorInv, CopiesAre, Sending, gateway, session
<1>7. ShownInv' /\ RowsInv'
  BY <1>1, <1>2 DEF PageInv, ShownInv, RowsInv, gateway
<1> QED
  BY <1>2, <1>3, <1>4, <1>5, <1>6, <1>7 DEF PageInv, Shows, Handed, Sending

(***************************************************************************)
(* A send that awaited a load is over, with what the load brought.         *)
(***************************************************************************)
LEMMA SettlesKeeps ==
  ASSUME PageInv, NEW load \in loads, load.why # "effect",
         NEW messages \in Seq(Rows), PendingLast(messages), Keeps(rows[send.chat], shown, messages),
         Keeps(rows[send.chat], messages, rows[send.chat]),
         \A other \in loads \ {load} :
            other.at = "back" /\ other.seq = generation => Keeps(rows[other.chat], messages, other.rows),
         NEW copies, CopiesAre(copies),
         copies[me][send.chat] # <<>> => Keeps(rows[send.chat], messages, copies[me][send.chat]),
         route = Landing /\ copies[me][send.chat] # <<>> => copies[me][send.chat] = messages,
         NEW words \in Texts \cup {""},
         Settles(messages, copies, loads \ {load}, words),
         UNCHANGED <<gateway, session, refreshes, strays>>
  PROVE  PageInv' /\ Shows /\ draft' = words /\ shown' = messages
<1>1. /\ send \in SendRecord /\ me \in Guests /\ generation \in Nat /\ route \in {Landing} \cup Chats
      /\ load.why = send.stage /\ load.chat = send.chat /\ send.chat \in Chats /\ Sending
      /\ send.from = route
  <2>1. load \in LoadRecord /\ LoadIs(load)
    BY Facts
  <2> QED
    BY <2>1, Facts, LoadChat, TypeParts
       DEF PageInv, SessionTyped, ScreenTyped, LoadIs, LoadRecord, SendInv
<1>2. draft' = words /\ send' = Ended /\ page' = page
  BY DEF Settles
<1>3. /\ send'.n = send.n /\ send'.stage = "idle" /\ send'.as = send.as /\ send'.for = send.for
      /\ ~Sending'
  BY <1>1, <1>2 DEF Ended, SendRecord, Sending
<1>4. \A other \in loads \ {load} : other.why = "effect"
  BY DEF PageInv, LoadInv
<1>5. send' \in SendRecord
  BY <1>1, <1>2, SendTyped
<1>6. SendInv'
  BY <1>3 DEF SendInv
<1>7. OwnerInv'
  BY <1>3 DEF PageInv, OwnerInv, gateway, session
<1>8. RowsInv'
  BY DEF PageInv, RowsInv, gateway
<1>9. CASE route # Landing
  <2>1. /\ route' = route /\ shown' = messages /\ mirror' = copies /\ loads' = loads \ {load}
        /\ UNCHANGED generation
    BY <1>1, <1>9 DEF Settles
  <2>2. send.chat = route
    BY <1>1, <1>9 DEF PageInv, SendInv
  <2>3. TypeOK'
    <3>1. \A other \in loads' : other \in LoadRecord
      BY <2>1, Facts
    <3> QED
      BY <1>2, <1>5, <2>1, <3>1, TypeParts, TypePartsAfter DEF PageInv, GatewayTyped, SessionTyped,
         ScreenTyped, RunningTyped, ReadingTyped, LoadRecord, CopiesAre, gateway, session
  <2>4. LoadInv'
    BY <1>4, <2>1, FewerLoads DEF gateway, session
  <2>5. MirrorInv'
    BY <1>3, <2>1, <2>2 DEF MirrorInv, CopiesAre, gateway, session
  <2>6. ShownInv'
    BY <1>9, <2>1, <2>2 DEF ShownInv, gateway
  <2> QED
    BY <1>2, <1>6, <1>7, <1>8, <2>1, <2>2, <2>3, <2>4, <2>5, <2>6 DEF PageInv, Shows
<1>10. CASE route = Landing
  <2>0. PICK fresh : fresh = Load(generation + 1, "effect", send.chat, me, me)
    OBVIOUS
  <2>1. /\ route' = send.chat /\ mirror' = copies /\ generation' = generation + 1
        /\ shown' = messages /\ loads' = (loads \ {load}) \cup {fresh}
        /\ send.chat # Landing
    BY <1>1, <1>10, <2>0, Places DEF Settles, Effect, Painted
  <2>2. loads \ {load} = {}
    BY <1>4, <1>10, LoadChat
  <2>3. /\ fresh.seq = generation + 1 /\ fresh.why = "effect" /\ fresh.chat = send.chat /\ fresh.as = me
        /\ fresh.for = me /\ fresh.at = "out" /\ fresh \in LoadRecord'
        /\ generation' \in Nat /\ owner[send.chat] <= me /\ me <= me
    <3>1. send.chat \in Chats /\ generation' = generation + 1
      BY <1>1, <2>1
    <3> QED
      BY <2>0, <3>1, EffectTyped
  <2>4. TypeOK'
    <3>1. \A other \in loads' : other \in LoadRecord'
      BY <2>1, <2>2, <2>3
    <3> QED
      BY <1>1, <1>2, <1>5, <2>1, <2>3, <3>1, TypeParts, TypePartsAfter DEF PageInv, GatewayTyped,
         SessionTyped, ScreenTyped, RunningTyped, ReadingTyped, CopiesAre, gateway, session
  <2>5. LoadInv'
    <3>1. LoadIs(fresh)'
      BY <2>1, <2>3 DEF LoadIs, gateway, session
    <3> QED
      BY <1>1, <2>1, <2>2, <2>3, <3>1, NewLoad
  <2>6. MirrorInv'
    BY <1>3, <2>1 DEF MirrorInv, CopiesAre, gateway, session
  <2>7. ShownInv'
    BY <2>1 DEF ShownInv, gateway
  <2>8. Shows
    BY <1>10, PendingKeeps DEF PageInv, ShownInv, Shows
  <2> QED
    BY <1>2, <1>6, <1>7, <1>8, <2>1, <2>4, <2>5, <2>6, <2>7, <2>8 DEF PageInv
<1> QED
  BY <1>9, <1>10

(***************************************************************************)
(* A load comes back to the one that asked for it.                         *)
(***************************************************************************)
LEMMA LoadLandsKeeps ==
  ASSUME PageInv, NEW load \in loads, LoadLands(load)
  PROVE  PageInv' /\ Shows /\ Handed
<1>1. load.at = "back" /\ UNCHANGED <<gateway, session, refreshes, strays>>
  BY DEF LoadLands
<1>2. CASE load.why = "effect"
  <2>1. /\ shown' = Brought(load) /\ mirror' = Copied(load) /\ loads' = loads \ {load}
        /\ UNCHANGED <<page, route, draft, send, generation>>
    BY <1>2 DEF LoadLands, Brought, Copied
  <2> QED
    BY <1>1, <1>2, <2>1, EffectLandsKeeps
<1>3. load \in LoadRecord /\ LoadIs(load)
  BY Facts
<1>4. ASSUME NEW words \in Texts \cup {""}, load.why # "effect",
             Settles(Brought(load), Copied(load), loads \ {load}, words)
      PROVE  PageInv' /\ Shows /\ draft' = words /\ shown' = Brought(load)
  <2>1. load.chat = send.chat
    BY <1>3, <1>4 DEF LoadIs
  <2>2. PICK messages \in Seq(Rows) : messages = Brought(load)
    BY <1>1, Landed
  <2>3. PICK copies : copies = Copied(load)
    OBVIOUS
  <2> QED
    BY <1>1, <1>4, <2>1, <2>2, <2>3, Landed, SettlesKeeps
<1>5. draft \in Texts \cup {""} /\ send.words \in Texts \cup {""}
  BY Facts, TypeParts DEF PageInv, ScreenTyped, SendRecord
<1>6. CASE load.why = "loading" /\ Settles(Brought(load), Copied(load), loads \ {load}, draft)
  <2>1. PICK words \in Texts \cup {""} : words = draft
    BY <1>5
  <2>2. PageInv' /\ Shows
    BY <1>4, <1>6, <2>1
  <2>3. turn[send.n] # "none"
    BY <1>3, <1>6 DEF LoadIs, PageInv, SendInv
  <2> QED
    BY <2>2, <2>3 DEF Handed
<1>7. CASE /\ load.why = "reconciling"
           /\ Settles(Brought(load), Copied(load), loads \ {load}, Reconciled(load.rows, Honored(load)))
  <2>1. PICK words \in Texts \cup {""} : words = Reconciled(load.rows, Honored(load))
    BY <1>5 DEF Reconciled
  <2>2. PageInv' /\ Shows /\ draft' = words /\ shown' = Brought(load)
    BY <1>4, <1>7, <2>1
  <2>3. CASE words = send.words
    BY <2>2, <2>3 DEF Handed
  <2>4. CASE Honored(load) /\ LastAsks(load.rows, send.words)
    <3>1. shown' = load.rows /\ send.stage = "reconciling"
      BY <1>3, <1>7, <2>2, <2>4 DEF Brought, LoadIs
    <3> QED
      BY <2>2, <2>4, <3>1 DEF Handed
  <2> QED
    BY <2>1, <2>3, <2>4 DEF Reconciled
<1> QED
  BY <1>2, <1>6, <1>7 DEF LoadLands, Brought, Copied

(***************************************************************************)
(* A load is lost: the page's own leaves things as they are, a send that   *)
(* waited for it fails, or hands the text back.                            *)
(***************************************************************************)
LEMMA LoadFailsKeeps ==
  ASSUME PageInv, NEW load \in loads, LoadFails(load)
  PROVE  PageInv' /\ Shows /\ Handed
<1>1. /\ load \in LoadRecord /\ LoadIs(load) /\ load.at = "out"
      /\ UNCHANGED <<gateway, session, refreshes, strays>>
  BY Facts DEF LoadFails
<1>2. CASE /\ load.why = "effect" /\ loads' = loads \ {load}
           /\ UNCHANGED <<screen, send, generation, mirror>>
  <2>1. TypeOK'
    <3>1. \A other \in loads' : other \in LoadRecord
      BY <1>2, Facts
    <3> QED
      BY <1>1, <1>2, <3>1, TypeParts, TypePartsAfter DEF PageInv, GatewayTyped, SessionTyped, ScreenTyped,
         RunningTyped, ReadingTyped, LoadRecord, gateway, session, screen
  <2>2. SendInv' /\ OwnerInv'
    BY <1>1, <1>2, SameGoes, SendStands DEF gateway, session, screen
  <2>3. LoadInv'
    BY <1>1, <1>2, FewerLoads DEF gateway, session, screen
  <2>4. MirrorInv' /\ ShownInv' /\ RowsInv'
    BY <1>1, <1>2 DEF PageInv, MirrorInv, ShownInv, RowsInv, Sending, gateway, session, screen
  <2> QED
    BY <1>2, <2>1, <2>2, <2>3, <2>4, KeepsItself DEF PageInv, Shows, Handed, Sending, screen
<1>3. CASE load.why = "loading" /\ Errs(loads \ {load})
  <2>1. Sending /\ \A other \in loads \ {load} : other.why = "effect"
    BY <1>3, LoadChat DEF PageInv, LoadInv
  <2>2. turn' \in [Sends -> {"none", "runs", "closing", "completed", "failed"}]
    BY <1>1 DEF PageInv, TypeOK, gateway
  <2> QED
    BY <1>1, <1>3, <2>1, <2>2, ErrsKeeps DEF gateway
<1>4. CASE /\ load.why = "reconciling"
           /\ Settles(shown, mirror, loads \ {load}, Reconciled(<<>>, FALSE))
  <2>1. /\ shown \in Seq(Rows) /\ PendingLast(shown) /\ CopiesAre(mirror)
        /\ send.words \in Texts \cup {""}
    BY Facts, TypeParts DEF PageInv, ScreenTyped, ReadingTyped, ShownInv, MirrorInv, CopiesAre, SendRecord
  <2>2. load.chat = send.chat /\ load.why # "effect" /\ Sending
    BY <1>1, <1>4, LoadChat DEF LoadIs
  <2>3. Keeps(rows[send.chat], shown, rows[send.chat])
    BY <2>2, LoadChat, PendingKeeps DEF PageInv, ShownInv
  <2>4. \A other \in loads \ {load} :
           other.at = "back" /\ other.seq = generation => Keeps(rows[other.chat], shown, other.rows)
    BY DEF PageInv, LoadInv
  <2>5. CASE route = Landing
    <3>1. send.chat = send.n
      <4>1. send.stage = "reconciling"
        BY <1>1, <1>4 DEF LoadIs
      <4> QED
        BY <2>2, <2>5, <4>1 DEF PageInv, SendInv
    <3>2. me \in Guests /\ send.from = Landing
      BY <2>2, <2>5, TypeParts DEF PageInv, SessionTyped, SendInv
    <3>3. mirror[me][send.chat] = <<>>
      BY <2>2, <3>1, <3>2 DEF PageInv, MirrorInv
    <3> QED
      BY <1>4, <1>1, <2>1, <2>2, <2>3, <2>4, <3>3, KeepsItself, SettlesKeeps DEF Reconciled, Handed
  <2>6. CASE route # Landing
    <3>1. send.chat = route
      BY <2>2, <2>6, LoadChat
    <3>2. mirror[me][send.chat] # <<>> => Keeps(rows[send.chat], shown, mirror[me][send.chat])
      BY <2>6, <3>1 DEF PageInv, MirrorInv
    <3> QED
      BY <1>4, <1>1, <2>1, <2>2, <2>3, <2>4, <2>6, <3>2, KeepsItself, SettlesKeeps DEF Reconciled, Handed
  <2> QED
    BY <2>5, <2>6
<1> QED
  BY <1>2, <1>3, <1>4 DEF LoadFails

-----------------------------------------------------------------------------
(* The page's effect, on a revision or on a user.                           *)

(***************************************************************************)
(* The page's effect, for the identity of before or the next one: what it  *)
(* paints is the chat's, and the load it starts is the newest one, while   *)
(* no other is back.                                                       *)
(***************************************************************************)
LEMMA EffectKeeps ==
  ASSUME PageInv, NEW user \in Guests, me' = user, user = me \/ user = me + 1, NEW others,
         Effect(route, user, mirror, shown, Sending, others, generation),
         \A load \in others : load \in LoadRecord /\ LoadIs(load)',
         \A load \in others : load.at = "back" => load \in loads,
         \A one, other \in others :
            one.seq = other.seq \/ (one.why # "effect" /\ other.why # "effect") => one = other,
         SendInv', OwnerInv', send' \in SendRecord, send'.n = send.n, send'.stage = send.stage,
         send'.from = send.from, known' \subseteq Guests, recoveries' \in 0..1,
         refreshes' \in 0..MaxRefreshes,
         UNCHANGED <<expired, owner, rows, turn, chatOf, posts, account, asked>>,
         UNCHANGED <<page, route, draft, strays>>
  PROVE  PageInv' /\ Shows /\ Handed
<1>1. /\ route \in {Landing} \cup Chats /\ generation \in Nat /\ shown \in Seq(Rows) /\ me \in Guests
      /\ mirror \in [Guests -> [Chats -> Seq(Rows)]] /\ CopiesAre(mirror)
      /\ PendingLast(shown)
  BY TypeParts DEF PageInv, ScreenTyped, SessionTyped, ReadingTyped, ShownInv, MirrorInv, CopiesAre
<1>2. mirror' = mirror /\ shown' = Painted(route, user, mirror, shown, Sending)
  BY DEF Effect
<1>3. RowsInv' /\ Handed
  BY DEF PageInv, RowsInv, Handed, Sending
<1>4. ASSUME shown' \in Seq(Rows), PendingLast(shown'), Keeps(rows[route], shown, shown'),
             route # Landing => Keeps(rows[route], shown', rows[route]),
             route = Landing => AllPending(shown'),
             route # Landing /\ mirror[user][route] # <<>> =>
                Keeps(rows[route], shown', mirror[user][route]),
             LoadInv', generation' \in Nat, \A load \in loads' : load \in LoadRecord'
      PROVE  PageInv' /\ Shows /\ Handed
  <2>1. TypeOK'
    BY <1>2, <1>4, TypeParts, TypePartsAfter DEF PageInv, GatewayTyped, SessionTyped, ScreenTyped,
       RunningTyped, ReadingTyped
  <2>2. MirrorInv'
    BY <1>2, <1>4 DEF PageInv, MirrorInv, Sending
  <2>3. ShownInv'
    BY <1>4 DEF ShownInv
  <2> QED
    BY <1>3, <1>4, <2>1, <2>2, <2>3 DEF PageInv, Shows
<1>5. CASE route = Landing
  <2>1. loads' = others /\ generation' = generation /\ shown' \in {shown, <<>>}
    BY <1>2, <1>5 DEF Effect, Painted
  <2>2. AllPending(shown) /\ AllPending(<<>>) /\ <<>> \in Seq(Rows)
    <3>1. AllPending(<<>>)
      BY DEF AllPending
    <3>2. <<>> \in Seq(Rows)
      BY EmptyTranscript
    <3> QED
      BY <1>5, <3>1, <3>2 DEF PageInv, ShownInv
  <2>3. /\ shown' \in Seq(Rows) /\ AllPending(shown') /\ PendingLast(shown')
        /\ Keeps(rows[route], shown, shown')
    BY <1>1, <2>1, <2>2, PendingKeeps
  <2>4. LoadInv'
    <3>1. \A list, a : Keeps(list, shown', a)
      BY <2>3, PendingKeeps
    <3> QED
      BY <2>1, <3>1 DEF LoadInv
  <2>5. \A load \in loads' : load \in LoadRecord'
    BY <2>1 DEF LoadRecord
  <2> QED
    BY <1>1, <1>4, <1>5, <2>1, <2>3, <2>4, <2>5
<1>6. CASE route # Landing
  <2>0. PICK fresh : fresh = Load(generation + 1, "effect", route, user, user)
    OBVIOUS
  <2>1. /\ loads' = others \cup {fresh} /\ generation' = generation + 1
        /\ shown' = IF ~account /\ mirror[user][route] # <<>> THEN mirror[user][route] ELSE shown
    BY <1>2, <1>6, <2>0 DEF Effect, Painted
  <2>2. route \in Chats
    BY <1>1, <1>6
  <2>3. mirror[user][route] # <<>> =>
           ~account /\ user <= owner[route] /\ Keeps(rows[route], shown, mirror[user][route])
    <3> HAVE mirror[user][route] # <<>>
    <3>1. ~account /\ user <= owner[route]
      BY <1>1, <2>2 DEF CopiesAre
    <3>2. owner[route] <= me
      BY <2>2 DEF PageInv, OwnerInv
    <3>3. user \in Nat /\ me \in Nat /\ owner[route] \in Nat
      BY <2>2, Facts, Numbers
    <3>4. user = me
      BY <3>1, <3>2, <3>3
    <3> QED
      BY <1>6, <3>1, <3>4 DEF PageInv, MirrorInv
  <2>4. mirror[user][route] \in Seq(Rows) /\ Within(mirror[user][route], rows[route])
    BY <1>1, <2>2 DEF CopiesAre
  <2>5. /\ shown' \in Seq(Rows) /\ PendingLast(shown') /\ Keeps(rows[route], shown, shown')
        /\ Keeps(rows[route], shown', rows[route])
        /\ mirror[user][route] # <<>> => Keeps(rows[route], shown', mirror[user][route])
    <3>1. CASE mirror[user][route] # <<>>
      <4>1. shown' = mirror[user][route] /\ Keeps(rows[route], shown, mirror[user][route])
        BY <2>1, <2>3, <3>1
      <4> QED
        BY <2>4, <4>1, WithinPendingLast, KeepsItself
    <3>2. CASE mirror[user][route] = <<>>
      <4>1. shown' = shown
        BY <2>1, <3>2
      <4> QED
        BY <1>1, <1>6, <3>2, <4>1, KeepsItself DEF PageInv, ShownInv
    <3> QED
      BY <3>1, <3>2
  <2>6. /\ fresh.seq = generation + 1 /\ fresh.why = "effect" /\ fresh.chat = route /\ fresh.as = user
        /\ fresh.for = user /\ fresh.at = "out" /\ fresh \in LoadRecord' /\ generation' \in Nat
        /\ \A load \in LoadRecord : load \in LoadRecord'
    <3>1. "effect" \in {"effect", "loading", "reconciling"}
      OBVIOUS
    <3> QED
      BY <1>1, <2>0, <2>1, <2>2, <3>1, FreshTyped
  <2>7. LoadInv'
    <3>1. owner[route] <= user /\ user <= user
      <4>1. owner[route] <= me
        BY <2>2 DEF PageInv, OwnerInv
      <4>2. me \in Int /\ user \in Int /\ owner[route] \in Int
        BY <2>2, Facts, Numbers
      <4> QED
        BY <4>1, <4>2
    <3>2. LoadIs(fresh)'
      BY <2>6, <3>1 DEF LoadIs
    <3>3. \A load \in others : load.seq \in 1..generation
      BY DEF LoadRecord
    <3> QED
      BY <1>1, <2>1, <2>6, <3>2, <3>3, NewLoad
  <2>8. \A load \in loads' : load \in LoadRecord'
    BY <2>1, <2>6
  <2> QED
    BY <1>4, <1>6, <2>5, <2>6, <2>7, <2>8
<1> QED
  BY <1>5, <1>6

(***************************************************************************)
(* A revision of the chat runs the page's effect.                          *)
(***************************************************************************)
LEMMA RefreshKeeps ==
  ASSUME PageInv, Refresh
  PROVE  PageInv' /\ Shows /\ Handed
<1>1. /\ UNCHANGED <<gateway, session, running, page, route, draft>>
      /\ refreshes' \in 0..MaxRefreshes
  <2>1. refreshes \in 0..MaxRefreshes /\ MaxRefreshes \in Nat
    BY TypeParts, ChatPageAssumption DEF PageInv, ReadingTyped
  <2>2. refreshes < MaxRefreshes /\ refreshes' = refreshes + 1
    BY DEF Refresh
  <2>3. refreshes' \in 0..MaxRefreshes
    BY <2>1, <2>2
  <2> QED
    BY <2>3 DEF Refresh
<1>2. SendInv' /\ OwnerInv'
  BY <1>1, SameGoes, SendStands DEF gateway, session, running
<1>3. /\ known' \subseteq Guests /\ recoveries' \in 0..1 /\ me \in Guests /\ generation \in Nat
      /\ route \in {Landing} \cup Chats
  BY <1>1, TypeParts DEF PageInv, GatewayTyped, SessionTyped, ScreenTyped, ReadingTyped, gateway, session
<1>4. \A load \in loads : load \in LoadRecord /\ LoadIs(load)'
  BY <1>1, Facts DEF LoadIs, gateway, session, running
<1>5. CASE Effect(route, me, mirror, shown, Sending, loads, generation)
  <2>1. PICK user \in Guests : user = me
    BY <1>3
  <2>2. PICK others : others = loads
    OBVIOUS
  <2>3. /\ Effect(route, user, mirror, shown, Sending, others, generation)
        /\ \A load \in others : load \in LoadRecord /\ LoadIs(load)'
        /\ \A load \in others : load.at = "back" => load \in loads
        /\ \A one, other \in others :
              one.seq = other.seq \/ (one.why # "effect" /\ other.why # "effect") => one = other
    BY <1>4, <1>5, <2>1, <2>2 DEF PageInv, LoadInv
  <2>4. me' = user /\ send' = send
    BY <1>1, <2>1 DEF session, running
  <2> QED
    BY <1>1, <1>2, <1>3, <2>1, <2>3, <2>4, Facts, EffectKeeps DEF gateway, session, running
<1>6. CASE /\ route # Landing
           /\ loads' = loads \cup {Load(generation + 1, "effect", route, me, me)}
           /\ generation' = generation + 1
           /\ UNCHANGED <<shown, mirror>>
  <2>0. PICK fresh : fresh = Load(generation + 1, "effect", route, me, me)
    OBVIOUS
  <2>1. route \in Chats
    BY <1>3, <1>6
  <2>2. /\ fresh.seq = generation + 1 /\ fresh.why = "effect" /\ fresh.chat = route /\ fresh.as = me
        /\ fresh.for = me /\ fresh.at = "out" /\ fresh \in LoadRecord' /\ generation' \in Nat
        /\ \A load \in LoadRecord : load \in LoadRecord'
    <3>1. "effect" \in {"effect", "loading", "reconciling"}
      OBVIOUS
    <3> QED
      BY <1>3, <1>6, <2>0, <2>1, <3>1, FreshTyped
  <2>3. LoadInv'
    <3>1. owner[route] <= me /\ me <= me
      <4>1. owner[route] <= me
        BY <2>1 DEF PageInv, OwnerInv
      <4>2. me \in Int
        BY Facts
      <4> QED
        BY <4>1, <4>2
    <3>2. LoadIs(fresh)'
      BY <1>1, <2>2, <3>1 DEF LoadIs, gateway, session
    <3>3. \A load \in loads : load.seq \in 1..generation
      BY <1>4 DEF LoadRecord
    <3>4. loads' = loads \cup {fresh}
      BY <1>6, <2>0
    <3> QED
      BY <1>3, <1>4, <1>6, <2>2, <3>2, <3>3, <3>4, NewLoad DEF PageInv, LoadInv
  <2>4. TypeOK'
    <3>1. \A load \in loads' : load \in LoadRecord'
      BY <1>4, <1>6, <2>0, <2>2
    <3> QED
      BY <1>1, <1>6, <2>2, <3>1, TypeParts, TypePartsAfter DEF PageInv, GatewayTyped, SessionTyped,
         ScreenTyped, RunningTyped, ReadingTyped, gateway, session, running
  <2>5. MirrorInv' /\ ShownInv' /\ RowsInv'
    BY <1>1, <1>6 DEF PageInv, MirrorInv, ShownInv, RowsInv, Sending, gateway, session, running
  <2> QED
    BY <1>1, <1>2, <1>6, <2>3, <2>4, <2>5, KeepsItself DEF PageInv, Shows, Handed, Sending, running
<1> QED
  BY <1>5, <1>6 DEF Refresh

\* A load that waited for the session is out again, as the user there is now.
Woken(load, user) ==
    IF load.at = "waits" THEN [load EXCEPT !.at = "out", !.replayed = TRUE, !.as = user] ELSE load

(***************************************************************************)
(* A recovery that succeeds wakes what waited, as the new identity, and    *)
(* the effect runs on the new user.                                        *)
(***************************************************************************)
LEMMA RecoveredKeepsPage ==
  ASSUME PageInv, Recovered
  PROVE  PageInv' /\ Shows /\ Handed
<1>1. /\ send \in SendRecord /\ me \in Guests /\ known \subseteq Guests /\ recoveries \in 0..1
      /\ refreshes \in 0..MaxRefreshes
  BY TypeParts DEF PageInv, RunningTyped, SessionTyped, GatewayTyped, ReadingTyped
<1>2. PICK user \in Guests : user = me'
  BY DEF Recovered
<1>3. PICK others : others = {Woken(load, user) : load \in loads}
  OBVIOUS
<1>4. /\ me' = user /\ user \in {me, me + 1} /\ known' = known \cup {user}
      /\ recoveries > 0 /\ recoveries' = recoveries - 1
      /\ send' = IF send.waits THEN [send EXCEPT !.waits = FALSE, !.replayed = TRUE, !.as = user]
                 ELSE send
      /\ Effect(route, user, mirror, shown, Sending, others, generation)
      /\ UNCHANGED <<expired, owner, rows, turn, chatOf, posts, account, asked, page, route>>
      /\ UNCHANGED <<draft, strays, refreshes>>
  BY <1>2, <1>3 DEF Recovered, Woken
<1>5. me \in Nat /\ user \in Nat /\ me <= user
  <2>1. me \in Nat /\ user \in Nat
    BY <1>1, Numbers
  <2> QED
    BY <1>4, <2>1
<1>6. /\ send' \in SendRecord /\ SameSend /\ send'.stage = send.stage /\ send'.chat = send.chat
      /\ send'.as \in {send.as, user}
  BY <1>1, <1>4 DEF SameSend, SendRecord
<1>7. SendInv'
  BY <1>4, <1>6 DEF PageInv, SendInv, SameSend, Sending
<1>8. OwnerInv'
  <2>1. send.as \in Nat /\ send.for \in Nat /\ \A c \in Chats : owner[c] \in Nat
    BY <1>1, Facts, Numbers DEF SendRecord
  <2>2. \A c \in Chats : owner[c] <= user
    BY <1>5, <2>1 DEF PageInv, OwnerInv
  <2>3. send'.as <= user /\ send.for <= user
    BY <1>5, <1>6, <2>1 DEF PageInv, OwnerInv
  <2> QED
    BY <1>4, <1>6, <2>2, <2>3 DEF PageInv, OwnerInv, SameSend, Sending
<1>9. ASSUME NEW load \in loads
      PROVE  /\ Woken(load, user) \in LoadRecord /\ LoadIs(Woken(load, user))'
             /\ Woken(load, user).at = "back" => Woken(load, user) = load
             /\ Woken(load, user).seq = load.seq /\ Woken(load, user).why = load.why
  <2>0. PICK woken : woken = Woken(load, user)
    OBVIOUS
  <2>1. load \in LoadRecord /\ LoadIs(load) /\ load.as \in Nat /\ load.for \in Nat
    BY Facts, Numbers DEF LoadRecord
  <2>2. CASE load.at # "waits"
    <3>1. woken = load
      BY <2>0, <2>2 DEF Woken
    <3>2. load.as <= user
      BY <1>5, <2>1 DEF LoadIs
    <3>3. LoadIs(load)'
      BY <1>4, <1>6, <2>1, <3>2 DEF LoadIs, SameSend
    <3> QED
      BY <2>0, <2>1, <3>1, <3>3
  <2>3. CASE load.at = "waits"
    <3>1. /\ woken \in LoadRecord /\ woken.seq = load.seq /\ woken.why = load.why
          /\ woken.chat = load.chat
          /\ woken.for = load.for /\ woken.as = user /\ woken.at = "out"
      BY <2>0, <2>1, <2>3 DEF Woken, LoadRecord
    <3>2. load.for <= user /\ user <= user
      BY <1>5, <2>1 DEF LoadIs
    <3>3. LoadIs(woken)'
      BY <1>4, <1>6, <2>1, <3>1, <3>2 DEF LoadIs, SameSend
    <3> QED
      BY <2>0, <3>1, <3>3
  <2> QED
    BY <2>2, <2>3
<1>10. /\ \A load \in others : load \in LoadRecord /\ LoadIs(load)'
       /\ \A load \in others : load.at = "back" => load \in loads
       /\ \A one, other \in others :
             one.seq = other.seq \/ (one.why # "effect" /\ other.why # "effect") => one = other
  <2>1. ASSUME NEW woken \in others
        PROVE  woken \in LoadRecord /\ LoadIs(woken)' /\ (woken.at = "back" => woken \in loads)
    <3>1. PICK load \in loads : woken = Woken(load, user)
      BY <1>3
    <3> QED
      BY <1>9, <3>1
  <2>2. ASSUME NEW one \in others, NEW other \in others,
               one.seq = other.seq \/ (one.why # "effect" /\ other.why # "effect")
        PROVE  one = other
    <3>1. PICK load1 \in loads : one = Woken(load1, user)
      BY <1>3
    <3>2. PICK load2 \in loads : other = Woken(load2, user)
      BY <1>3
    <3>3. load1.seq = load2.seq \/ (load1.why # "effect" /\ load2.why # "effect")
      BY <1>9, <2>2, <3>1, <3>2
    <3>4. load1 = load2
      BY <3>3 DEF PageInv, LoadInv
    <3> QED
      BY <3>1, <3>2, <3>4
  <2> QED
    BY <2>1, <2>2
<1>11. known' \subseteq Guests /\ recoveries' \in 0..1
  BY <1>1, <1>4
<1> QED
  BY <1>1, <1>4, <1>6, <1>7, <1>8, <1>10, <1>11, EffectKeeps DEF SameSend

-----------------------------------------------------------------------------
(* Where messages come from.                                                *)

\* Each message of this transcript is a bubble, or was in another one before.
From(a) ==
    \A i \in DOMAIN a : a[i].who = "pending" \/ \E b \in Held : \E j \in DOMAIN b : b[j] = a[i]

\* So it is with the screen, the loads and the copies after the step.
TabFrom ==
    /\ From(shown')
    /\ \A load \in loads' : From(load.rows)
    /\ \A g \in Guests, c \in Chats : From(mirror'[g][c])

(***************************************************************************)
(* What there is comes from what there is.                                 *)
(***************************************************************************)
LEMMA FromHeld ==
  /\ From(<<>>) /\ From(shown)
  /\ \A load \in loads : From(load.rows)
  /\ \A c \in Chats : From(rows[c])
  /\ \A g \in Guests, c \in Chats : From(mirror[g][c])
<1>1. ASSUME NEW a \in Held PROVE From(a)
  BY DEF From
<1>2. From(<<>>)
  BY DEF From
<1> QED
  BY <1>1, <1>2, HeldAre

(***************************************************************************)
(* A bubble more, or less.                                                 *)
(***************************************************************************)
LEMMA FromBubble ==
  ASSUME PageInv, NEW row \in Rows, row.who = "pending"
  PROVE  From(Append(shown, row)) /\ From(Without(shown, row))
<1>1. shown \in Seq(Rows) /\ PendingLast(shown) /\ shown \in Held
  BY HeldAre DEF PageInv, TypeOK, ShownInv
<1>2. ASSUME NEW next, \A list, other : Keeps(list, shown, other) => Keeps(list, next, other)
      PROVE  From(next)
  <2>1. Keeps(next, next, shown)
    BY <1>2, KeepsItself
  <2>2. ASSUME NEW i \in DOMAIN next, next[i].who # "pending"
        PROVE  i \in DOMAIN shown /\ shown[i] = next[i]
    <3>1. next[i] \in Range(next)
      BY DEF Range
    <3> QED
      BY <2>1, <2>2, <3>1 DEF Keeps
  <2> QED
    BY <1>1, <2>2 DEF From
<1>3. PICK messages \in Seq(Rows) : messages = shown
  BY <1>1
<1>4. PendingLast(messages)
  BY <1>1, <1>3
<1>5. \A list, other : Keeps(list, messages, other) => Keeps(list, Append(messages, row), other)
  BY <1>4, BubbleShown
<1>6. \A list, other : Keeps(list, messages, other) => Keeps(list, Without(messages, row), other)
  BY <1>4, BubbleTakenAway
<1>7. PICK longer : longer = Append(messages, row)
  OBVIOUS
<1>8. PICK shorter : shorter = Without(messages, row)
  OBVIOUS
<1>9. From(longer)
  BY <1>2, <1>3, <1>5, <1>7
<1>10. From(shorter)
  BY <1>2, <1>3, <1>6, <1>8
<1> QED
  BY <1>3, <1>7, <1>8, <1>9, <1>10

(***************************************************************************)
(* The page's effect paints a copy of the device, or what is there.        *)
(***************************************************************************)
LEMMA EffectFrom ==
  ASSUME NEW place \in {Landing} \cup Chats, NEW user \in Guests, NEW copies,
         \A g \in Guests, c \in Chats : From(copies[g][c]),
         NEW messages, From(messages), NEW busy, NEW others, \A load \in others : From(load.rows),
         NEW seq, Effect(place, user, copies, messages, busy, others, seq)
  PROVE  TabFrom
<1>1. shown' \in {messages, <<>>} \/ (place \in Chats /\ shown' = copies[user][place])
  BY DEF Effect, Painted
<1>2. From(shown')
  BY <1>1, FromHeld
<1>3. mirror' = copies
  BY DEF Effect
<1>4. PICK fresh : fresh = Load(seq + 1, "effect", place, user, user)
  OBVIOUS
<1>5. loads' = others \/ loads' = others \cup {fresh}
  BY <1>4 DEF Effect
<1>6. fresh.rows = <<>>
  BY <1>4 DEF Load
<1>7. ASSUME NEW load \in loads' PROVE From(load.rows)
  <2>1. load \in others \/ load = fresh
    BY <1>5
  <2> QED
    BY <1>6, <2>1, FromHeld
<1> QED
  BY <1>2, <1>3, <1>7 DEF TabFrom

(***************************************************************************)
(* Loads that go out, or are over, bring nothing.                          *)
(***************************************************************************)
LEMMA LoadsFrom ==
  ASSUME UNCHANGED <<shown, mirror>>,
         \A load \in loads' : load \in loads \/ load.rows = <<>> \/ \E c \in Chats : load.rows = rows[c]
  PROVE  TabFrom
<1>1. ASSUME NEW load \in loads' PROVE From(load.rows)
  BY FromHeld
<1> QED
  BY <1>1, FromHeld DEF TabFrom

(***************************************************************************)
(* The ways in which a send leaves its request.                            *)
(***************************************************************************)
LEMMA LeavesFrom ==
  ASSUME PageInv, Sending
  PROVE  /\ \A others : others \subseteq loads /\ Errs(others) => TabFrom
         /\ \A why : Awaits(why) => TabFrom
         /\ Aborts => TabFrom
<1>1. ASSUME NEW others, others \subseteq loads, Errs(others) PROVE TabFrom
  <2>1. PICK row : row = Row(send.n, "pending", send.words)
    OBVIOUS
  <2>2. row \in Rows /\ row.who = "pending"
    <3>1. send.n \in Sends /\ send.words \in Texts
      BY DEF PageInv, SendInv
    <3> QED
      BY <2>1, <3>1, SendsAre DEF Row, Rows
  <2>3. From(Without(shown, row))
    BY <2>2, FromBubble
  <2>4. shown' = Without(shown, row) /\ loads' = others /\ mirror' = mirror
    BY <1>1, <2>1 DEF Errs
  <2>5. From(shown')
    BY <2>3, <2>4
  <2> QED
    BY <1>1, <2>4, <2>5, FromHeld DEF TabFrom
<1>2. ASSUME NEW why, Awaits(why) PROVE TabFrom
  <2>1. PICK fresh : fresh = Load(generation + 1, why, send.chat, me, send.for)
    OBVIOUS
  <2>2. loads' = loads \cup {fresh} /\ shown' = shown /\ mirror' = mirror
    BY <1>2, <2>1 DEF Awaits, screen
  <2>3. fresh.rows = <<>>
    BY <2>1 DEF Load
  <2>4. \A load \in loads' : load \in loads \/ load.rows = <<>>
    BY <2>2, <2>3
  <2> QED
    BY <2>2, <2>4, LoadsFrom
<1>3. ASSUME Aborts PROVE TabFrom
  <2>1. CASE send.stage # "creating"
    BY <1>2, <1>3, <2>1 DEF Aborts
  <2>2. CASE send.stage = "creating"
    BY <1>3, <2>2, LoadsFrom DEF Aborts
  <2> QED
    BY <2>1, <2>2
<1> QED
  BY <1>1, <1>2, <1>3

(***************************************************************************)
(* A load that lands.                                                      *)
(***************************************************************************)
LEMMA LandsFrom ==
  ASSUME PageInv, NEW load \in loads, NEW messages, messages \in {shown, load.rows},
         NEW copies, copies \in {mirror, [mirror EXCEPT ![load.for][load.chat] = load.rows]}
  PROVE  /\ From(messages)
         /\ \A g \in Guests, c \in Chats : From(copies[g][c])
         /\ \A words : Settles(messages, copies, loads \ {load}, words) => TabFrom
<1>1. From(messages)
  BY FromHeld
<1>2. \A g \in Guests, c \in Chats : From(copies[g][c])
  <2>1. mirror \in [Guests -> [Chats -> Seq(Rows)]]
    BY DEF PageInv, TypeOK
  <2>2. \A g \in Guests, c \in Chats : copies[g][c] \in {mirror[g][c], load.rows}
    BY <2>1
  <2> QED
    BY <2>2, FromHeld
<1>3. ASSUME NEW words, Settles(messages, copies, loads \ {load}, words) PROVE TabFrom
  <2>1. \A other \in loads \ {load} : From(other.rows)
    BY FromHeld
  <2>2. CASE send.from # Landing
    <3>1. shown' = messages /\ mirror' = copies /\ loads' = loads \ {load}
      BY <1>3, <2>2 DEF Settles
    <3> QED
      BY <1>1, <1>2, <2>1, <3>1 DEF TabFrom
  <2>3. CASE send.from = Landing
    <3>1. Effect(send.chat, me, copies, messages, FALSE, loads \ {load}, generation)
      BY <1>3, <2>3 DEF Settles
    <3>2. PICK place \in {Landing} \cup Chats : place = send.chat
      BY Facts DEF SendRecord
    <3>3. PICK user \in Guests : user = me
      BY DEF PageInv, TypeOK
    <3>4. PICK others : others = loads \ {load}
      OBVIOUS
    <3>5. Effect(place, user, copies, messages, FALSE, others, generation)
      BY <3>1, <3>2, <3>3, <3>4
    <3>6. \A other \in others : From(other.rows)
      BY <2>1, <3>4
    <3> QED
      BY <1>1, <1>2, <3>5, <3>6, EffectFrom
  <2> QED
    BY <2>2, <2>3
<1> QED
  BY <1>1, <1>2, <1>3

(***************************************************************************)
(* Whatever the step, the page shows nothing that was not there.           *)
(***************************************************************************)
LEMMA TabStep ==
  ASSUME PageInv, [Next]_vars
  PROVE  TabFrom
<1>0. /\ route \in {Landing} \cup Chats /\ me \in Guests /\ send \in SendRecord
      /\ \A g \in Guests, c \in Chats : From(mirror[g][c])
      /\ From(shown) /\ \A load \in loads : From(load.rows)
  BY Facts, FromHeld DEF PageInv, TypeOK
<1>1. ASSUME UNCHANGED <<shown, loads, mirror>> PROVE TabFrom
  BY <1>0, <1>1 DEF TabFrom
<1>2. CASE Refresh
  <2>1. CASE Effect(route, me, mirror, shown, Sending, loads, generation)
    <3>1. PICK place \in {Landing} \cup Chats : place = route
      BY <1>0
    <3>2. PICK user \in Guests : user = me
      BY <1>0
    <3>3. Effect(place, user, mirror, shown, Sending, loads, generation)
      BY <2>1, <3>1, <3>2
    <3> QED
      BY <1>0, <3>3, EffectFrom
  <2>2. CASE /\ loads' = loads \cup {Load(generation + 1, "effect", route, me, me)}
             /\ UNCHANGED <<shown, mirror>>
    <3>1. PICK fresh : fresh = Load(generation + 1, "effect", route, me, me)
      OBVIOUS
    <3>2. fresh.rows = <<>> /\ loads' = loads \cup {fresh}
      BY <2>2, <3>1 DEF Load
    <3>3. \A load \in loads' : load \in loads \/ load.rows = <<>>
      BY <3>2
    <3> QED
      BY <2>2, <3>3, LoadsFrom
  <2> QED
    BY <1>2, <2>1, <2>2 DEF Refresh
<1>3. CASE Type \/ Expires \/ RecoveryFails \/ ChatCreated \/ PostTaken \/ RequestDenied
  BY <1>1, <1>3 DEF Type, Expires, RecoveryFails, ChatCreated, PostTaken, RequestDenied, reading, screen
<1>4. CASE Send
  <2>1. PICK row : row = Row(send.n + 1, "pending", draft)
    OBVIOUS
  <2>2. row \in Rows /\ row.who = "pending"
    <3>1. send.n \in 0..MaxSends /\ draft \in Texts \cup {""}
      BY <1>0 DEF SendRecord, PageInv, TypeOK
    <3>2. PICK k : k = send.n + 1
      OBVIOUS
    <3>3. k \in Nat
      <4>1. MaxSends \in Nat /\ send.n \in 0..MaxSends
        BY <3>1, Places
      <4> QED
        BY <3>2, <4>1
    <3> QED
      BY <2>1, <3>1, <3>2, <3>3 DEF Row, Rows
  <2>3. From(Append(shown, row))
    BY <2>2, FromBubble
  <2>4. shown' = Append(shown, row) /\ loads' = loads /\ mirror' = mirror
    BY <1>4, <2>1 DEF Send, reading
  <2>5. From(shown')
    BY <2>3, <2>4
  <2> QED
    BY <1>0, <2>4, <2>5 DEF TabFrom
<1>5. CASE RequestFails \/ StreamBreaks \/ StreamFails
  <2>1. Errs(loads) /\ Sending
    BY <1>5 DEF RequestFails, StreamBreaks, StreamFails, Asking, Sending
  <2> QED
    BY <2>1, LeavesFrom
<1>6. CASE StreamCompletes
  <2>1. Awaits("loading") /\ Sending
    BY <1>6 DEF StreamCompletes, Asking, Sending
  <2> QED
    BY <2>1, LeavesFrom
<1>7. CASE Stop \/ StoppedReplay
  <2>1. Sending /\ (Aborts \/ UNCHANGED <<screen, loads, generation, mirror, strays>>)
    BY <1>7 DEF Stop, StoppedReplay, Sending
  <2> QED
    BY <1>1, <2>1, LeavesFrom DEF screen
<1>8. CASE Recovered
  <2>1. PICK user \in Guests : user = me'
    BY <1>8 DEF Recovered
  <2>2. PICK others : others = {Woken(load, user) : load \in loads}
    OBVIOUS
  <2>3. PICK place \in {Landing} \cup Chats : place = route
    BY <1>0
  <2>4. Effect(place, user, mirror, shown, Sending, others, generation)
    BY <1>8, <2>1, <2>2, <2>3 DEF Recovered, Woken
  <2>5. ASSUME NEW other \in others PROVE From(other.rows)
    <3>1. PICK load \in loads : other = Woken(load, user)
      BY <2>2
    <3>2. load \in LoadRecord
      BY Facts
    <3>3. other.rows = load.rows
      BY <3>1, <3>2 DEF Woken, LoadRecord
    <3> QED
      BY <1>0, <3>3
  <2> QED
    BY <1>0, <2>4, <2>5, EffectFrom
<1>9. ASSUME NEW load \in loads, LoadMoves(load) PROVE TabFrom
  <2>0. load \in LoadRecord /\ (load.why # "effect" => Sending)
    BY Facts, LoadChat
  <2>1. CASE LoadRead(load)
    <3>1. PICK moved : moved = [load EXCEPT !.at = "back", !.rows = rows[load.chat]]
      OBVIOUS
    <3>2. load.chat \in Chats /\ moved.rows = rows[load.chat]
      BY <2>0, <3>1 DEF LoadRecord
    <3>3. loads' = (loads \ {load}) \cup {moved} /\ shown' = shown /\ mirror' = mirror
      BY <2>1, <3>1 DEF LoadRead, screen
    <3>4. \A other \in loads' : other \in loads \/ \E c \in Chats : other.rows = rows[c]
      BY <3>2, <3>3
    <3> QED
      BY <3>3, <3>4, LoadsFrom
  <2>2. CASE LoadDenied(load)
    <3>1. PICK moved : moved = [load EXCEPT !.at = "waits"]
      OBVIOUS
    <3>2. moved.rows = load.rows
      BY <2>0, <3>1 DEF LoadRecord
    <3>3. loads' = (loads \ {load}) \cup {moved} /\ shown' = shown /\ mirror' = mirror
      BY <2>2, <3>1 DEF LoadDenied, screen
    <3>4. ASSUME NEW other \in loads' PROVE From(other.rows)
      <4>1. other \in loads \/ other = moved
        BY <3>3
      <4> QED
        BY <1>0, <3>2, <4>1
    <3> QED
      BY <1>0, <3>3, <3>4 DEF TabFrom
  <2>3. CASE LoadLands(load)
    <3>1. PICK messages \in {shown, load.rows} : messages = Brought(load)
      BY DEF Brought
    <3>2. PICK copies \in {mirror, [mirror EXCEPT ![load.for][load.chat] = load.rows]} :
             copies = Copied(load)
      BY DEF Copied
    <3>3. /\ From(messages)
          /\ \A g \in Guests, c \in Chats : From(copies[g][c])
          /\ \A words : Settles(messages, copies, loads \ {load}, words) => TabFrom
      <4>1. /\ messages \in {shown, load.rows}
            /\ copies \in {mirror, [mirror EXCEPT ![load.for][load.chat] = load.rows]}
        BY <3>1, <3>2
      <4> QED
        BY <4>1, LandsFrom
    <3>4. \/ shown' = messages /\ mirror' = copies /\ loads' = loads \ {load}
          \/ \E words : Settles(messages, copies, loads \ {load}, words)
      <4>1. \/ shown' = Brought(load) /\ mirror' = Copied(load) /\ loads' = loads \ {load}
            \/ Settles(Brought(load), Copied(load), loads \ {load}, draft)
            \/ Settles(Brought(load), Copied(load), loads \ {load},
                       Reconciled(load.rows, Honored(load)))
        BY <2>3 DEF LoadLands, Brought, Copied
      <4> QED
        BY <3>1, <3>2, <4>1
    <3>5. CASE shown' = messages /\ mirror' = copies /\ loads' = loads \ {load}
      BY <1>0, <3>3, <3>5 DEF TabFrom
    <3> QED
      BY <3>3, <3>4, <3>5
  <2>4. CASE LoadFails(load)
    <3>1. /\ shown \in {shown, load.rows}
          /\ mirror \in {mirror, [mirror EXCEPT ![load.for][load.chat] = load.rows]}
      OBVIOUS
    <3>2. \A words : Settles(shown, mirror, loads \ {load}, words) => TabFrom
      BY <3>1, LandsFrom
    <3>3. \/ loads' = loads \ {load} /\ shown' = shown /\ mirror' = mirror
          \/ Errs(loads \ {load}) /\ Sending
          \/ \E words : Settles(shown, mirror, loads \ {load}, words)
      BY <2>0, <2>4 DEF LoadFails, screen
    <3>4. CASE Errs(loads \ {load}) /\ Sending
      <4>1. PICK others : others = loads \ {load}
        OBVIOUS
      <4>2. others \subseteq loads /\ Errs(others)
        BY <3>4, <4>1
      <4> QED
        BY <3>4, <4>2, LeavesFrom
    <3>5. CASE loads' = loads \ {load} /\ shown' = shown /\ mirror' = mirror
      BY <1>0, <3>5 DEF TabFrom
    <3> QED
      BY <3>2, <3>3, <3>4, <3>5
  <2> QED
    BY <1>9, <2>1, <2>2, <2>3, <2>4 DEF LoadMoves
<1>10. CASE \/ \E stray \in strays : StrayArrives(stray)
            \/ \E n \in Sends : TurnEnds(n)
            \/ \E chat \in Chats : DeskPosts(chat)
            \/ UNCHANGED vars
  BY <1>1, <1>10 DEF StrayArrives, TurnEnds, TurnCompletes, TurnFails, DeskPosts, vars, reading, screen
<1> QED
  BY <1>2, <1>3, <1>4, <1>5, <1>6, <1>7, <1>8, <1>9, <1>10
     DEF Next, RequestMoves, StreamEnds, RecoveryMoves

\* What the gateway has was there before, or is written by now.
DeskFrom ==
    \A c \in Chats : \A i \in DOMAIN rows'[c] :
        \/ \E j \in DOMAIN rows[c] : rows[c][j] = rows'[c][i]
        \/ WrittenBy(rows'[c][i], turn', posts')

(***************************************************************************)
(* Whatever the step, turns and posts go on, and the gateway writes what   *)
(* is written.                                                             *)
(***************************************************************************)
LEMMA DeskStep ==
  ASSUME PageInv, PostInv, WrittenInv, [Next]_vars
  PROVE  TurnsGo /\ DeskFrom /\ posts \in Nat /\ posts' \in Nat /\ posts <= posts'
<1>0. /\ posts \in 0..MaxOthers /\ posts \in Nat /\ posts <= posts /\ TypeOK
      /\ rows \in [Chats -> Seq(Rows)] /\ RowsInv
  <2>1. posts \in 0..MaxOthers /\ MaxOthers \in Nat /\ TypeOK /\ RowsInv
    BY ChatPageAssumption DEF PageInv, TypeOK
  <2>2. posts \in Nat /\ posts <= posts
    BY <2>1
  <2> QED
    BY <2>1, <2>2 DEF TypeOK
<1>1. ASSUME NEW chat, NEW row \in Rows, row.who # "pending", ~Written(row), Writes(chat, row),
             WrittenBy(row, turn', posts')
      PROVE  DeskFrom
  <2>1. \A c \in Chats : \A i \in DOMAIN rows'[c] :
           rows'[c][i] = row \/ \E j \in DOMAIN rows[c] : rows[c][j] = rows'[c][i]
    BY <1>0, <1>1, WritesGo
  <2> SUFFICES ASSUME NEW c \in Chats, NEW i \in DOMAIN rows'[c],
                      ~ \E j \in DOMAIN rows[c] : rows[c][j] = rows'[c][i]
               PROVE  WrittenBy(rows'[c][i], turn', posts')
    BY DEF DeskFrom
  <2>2. rows'[c][i] = row
    BY <2>1
  <2> QED
    BY <1>1, <2>2 DEF Written, WrittenBy
<1>2. ASSUME NEW n \in Sends, turn[n] = "none", NEW chat \in Chats, NEW words \in Texts,
             NEW then \in {"runs", "closing"}, Stores(n, chat, words, then)
      PROVE  TurnsGo /\ DeskFrom
  <2>1. /\ \E row \in Rows : /\ row.who \in {"user", "note"} /\ row.of = n
                              /\ ~Written(row) /\ Writes(chat, row)
        /\ turn'[n] # "none" /\ TurnsGo
    BY <1>0, <1>2, StoresWrites
  <2>2. PICK row \in Rows : /\ row.who \in {"user", "note"} /\ row.of = n
                            /\ ~Written(row) /\ Writes(chat, row)
    BY <2>1
  <2>3. WrittenBy(row, turn', posts') /\ row.who # "pending"
    BY <2>1, <2>2 DEF Written, WrittenBy
  <2> QED
    BY <1>1, <2>1, <2>2, <2>3
<1>3. ASSUME rows' = rows PROVE DeskFrom
  BY <1>3 DEF DeskFrom
<1>4. ASSUME rows' = rows, posts' = posts, turn' \in {turn, Closed}
      PROVE  TurnsGo /\ DeskFrom /\ posts \in Nat /\ posts' \in Nat /\ posts <= posts'
  BY <1>0, <1>3, <1>4 DEF TurnsGo, Closed, TypeOK
<1>5. CASE PostTaken
  <2>1. /\ send.stage = "posting" /\ Stores(send.n, send.chat, send.words, "runs") /\ posts' = posts
    BY <1>5 DEF PostTaken, Asking
  <2>2. send.n \in Sends /\ send.chat \in Chats /\ send.words \in Texts
    BY <2>1, Facts DEF PageInv, SendInv, Sending
  <2>3. turn[send.n] = "none"
    BY <2>1, <2>2 DEF PostInv, Out, Taken
  <2>4. PICK n \in Sends : n = send.n
    BY <2>2
  <2>5. PICK chat \in Chats : chat = send.chat
    BY <2>2
  <2>6. PICK words \in Texts : words = send.words
    BY <2>2
  <2>7. Stores(n, chat, words, "runs") /\ turn[n] = "none" /\ "runs" \in {"runs", "closing"}
    BY <2>1, <2>3, <2>4, <2>5, <2>6
  <2>8. TurnsGo /\ DeskFrom
    BY <1>2, <2>7
  <2> QED
    BY <1>0, <2>1, <2>8
<1>6. ASSUME NEW stray \in strays, StrayArrives(stray)
      PROVE  TurnsGo /\ DeskFrom /\ posts' = posts
  <2>1. stray.n \in Sends /\ turn[stray.n] = "none" /\ stray.chat \in Chats /\ stray.words \in Texts
    BY StrayIsNew
  <2>2. PICK n \in Sends : n = stray.n
    BY <2>1
  <2>3. PICK chat \in Chats : chat = stray.chat
    BY <2>1
  <2>4. PICK words \in Texts : words = stray.words
    BY <2>1
  <2>5. PICK then \in {"runs", "closing"} : Stores(n, chat, words, then)
    BY <1>6, <2>2, <2>3, <2>4 DEF StrayArrives
  <2>6. turn[n] = "none"
    BY <2>1, <2>2
  <2>7. TurnsGo /\ DeskFrom
    BY <1>2, <2>5, <2>6
  <2> QED
    BY <1>6, <2>7 DEF StrayArrives
<1>7. ASSUME NEW n \in Sends, TurnEnds(n)
      PROVE  TurnsGo /\ DeskFrom /\ posts' = posts
  <2>1. CASE TurnCompletes(n)
    <3>1. PICK row : row = Row(n, "desk", "")
      OBVIOUS
    <3>2. PICK chat : chat = chatOf[n]
      OBVIOUS
    <3>3. /\ row \in Rows /\ row.who = "desk" /\ row.of = n /\ ~Written(row) /\ Writes(chat, row)
          /\ TurnsGo /\ turn'[n] = "completed" /\ posts' = posts
      BY <2>1, <3>1, <3>2, ReplyIsNew
    <3>4. WrittenBy(row, turn', posts')
      BY <3>3 DEF Written, WrittenBy
    <3> QED
      BY <1>1, <3>3, <3>4
  <2>2. CASE TurnFails(n)
    <3>1. turn[n] \in {"runs", "closing"} /\ turn' = [turn EXCEPT ![n] = "failed"]
      BY <2>2 DEF TurnFails
    <3>2. TurnsGo
      BY <1>0, <3>1 DEF TurnsGo, TypeOK
    <3> QED
      BY <1>3, <2>2, <3>2 DEF TurnFails
  <2> QED
    BY <1>7, <2>1, <2>2 DEF TurnEnds
<1>8. ASSUME NEW chat \in Chats, DeskPosts(chat)
      PROVE  TurnsGo /\ DeskFrom /\ posts' \in Nat /\ posts <= posts'
  <2>1. PICK row : row = Row(posts + 1, "post", "")
    OBVIOUS
  <2>2. /\ row \in Rows /\ row.who = "post" /\ row.of = posts + 1 /\ ~Written(row) /\ Writes(chat, row)
        /\ turn' = turn
    BY <1>8, <2>1, PostIsNew
  <2>3. TurnsGo
    BY <2>2 DEF TurnsGo
  <2>4. posts' = posts + 1 /\ posts \in Nat
    BY <1>8, PostsCount
  <2>5. posts' \in Nat /\ posts <= posts' /\ posts + 1 <= posts'
    BY <2>4
  <2>6. WrittenBy(row, turn', posts')
    BY <2>2, <2>5 DEF Written, WrittenBy
  <2> QED
    BY <1>1, <2>2, <2>3, <2>5, <2>6
<1>9. CASE Refresh \/ Type \/ Send \/ Expires
  BY <1>4, <1>9 DEF Refresh, Type, Send, Expires, gateway
<1>10. CASE Stop
  BY <1>4, <1>10 DEF Stop
<1>11. CASE ChatCreated \/ RequestFails \/ RequestDenied \/ StoppedReplay
  BY <1>4, <1>11 DEF ChatCreated, RequestFails, RequestDenied, StoppedReplay, gateway
<1>12. CASE StreamEnds \/ RecoveryMoves
  BY <1>4, <1>12 DEF StreamEnds, StreamBreaks, StreamFails, StreamCompletes, RecoveryMoves, Recovered,
     RecoveryFails, gateway
<1>13. CASE \E load \in loads : LoadMoves(load)
  BY <1>4, <1>13 DEF LoadMoves, LoadRead, LoadDenied, LoadLands, LoadFails, gateway
<1>14. CASE UNCHANGED vars
  BY <1>4, <1>14 DEF vars
<1>15. ASSUME posts' = posts PROVE posts \in Nat /\ posts' \in Nat /\ posts <= posts'
  BY <1>0, <1>15
<1>16. CASE \/ \E stray \in strays : StrayArrives(stray)
            \/ \E n \in Sends : TurnEnds(n)
  BY <1>6, <1>7, <1>15, <1>16
<1>17. CASE \E chat \in Chats : DeskPosts(chat)
  BY <1>0, <1>8, <1>17
<1>18. CASE RequestMoves
  BY <1>5, <1>11, <1>18 DEF RequestMoves
<1> QED
  BY <1>9, <1>10, <1>12, <1>13, <1>14, <1>16, <1>17, <1>18 DEF Next

(***************************************************************************)
(* Every message there is was written.                                     *)
(***************************************************************************)
LEMMA WrittenStep ==
  ASSUME PageInv, PostInv, WrittenInv, [Next]_vars
  PROVE  WrittenInv'
<1>1. TurnsGo /\ DeskFrom /\ posts \in Nat /\ posts' \in Nat /\ posts <= posts'
  BY DeskStep
<1>2. TabFrom
  BY TabStep
<1>3. \A a \in Held : a \in Seq(Rows)
  <2>1. /\ shown \in Seq(Rows) /\ \A load \in loads : load.rows \in Seq(Rows)
        /\ \A c \in Chats : rows[c] \in Seq(Rows)
        /\ \A g \in Guests : \A c \in Chats : mirror[g][c] \in Seq(Rows)
    BY DEF PageInv, TypeOK, LoadRecord
  <2> QED
    BY <2>1 DEF Held
<1>4. ASSUME NEW b \in Held, NEW j \in DOMAIN b PROVE WrittenBy(b[j], turn', posts')
  <2>1. PICK row : row = b[j]
    OBVIOUS
  <2>2. Written(row) /\ row \in Rows
    BY <1>3, <2>1 DEF WrittenInv
  <2>3. row.of \in Nat
    BY <2>2 DEF Rows
  <2>4. row.of <= posts => row.of <= posts'
    BY <1>1, <2>3
  <2>5. WrittenBy(row, turn', posts')
    BY <1>1, <2>2, <2>4 DEF Written, WrittenBy, TurnsGo
  <2> QED
    BY <2>1, <2>5 DEF Written, WrittenBy
<1>5. ASSUME NEW a, From(a), NEW i \in DOMAIN a PROVE WrittenBy(a[i], turn', posts')
  <2>1. PICK row : row = a[i]
    OBVIOUS
  <2>2. CASE row.who = "pending"
    <3>1. WrittenBy(row, turn', posts')
      BY <2>2 DEF Written, WrittenBy
    <3> QED
      BY <2>1, <3>1 DEF Written, WrittenBy
  <2>3. CASE \E b \in Held : \E j \in DOMAIN b : b[j] = row
    <3>1. PICK b \in Held : \E j \in DOMAIN b : b[j] = row
      BY <2>3
    <3>2. PICK j \in DOMAIN b : b[j] = row
      BY <3>1
    <3> QED
      BY <1>4, <2>1, <3>2 DEF Written, WrittenBy
  <2> QED
    BY <1>5, <2>1, <2>2, <2>3 DEF From
<1>6. ASSUME NEW c \in Chats, NEW i \in DOMAIN rows'[c] PROVE WrittenBy(rows'[c][i], turn', posts')
  <2>1. CASE \E j \in DOMAIN rows[c] : rows[c][j] = rows'[c][i]
    <3>1. PICK j \in DOMAIN rows[c] : rows[c][j] = rows'[c][i]
      BY <2>1
    <3>2. rows[c] \in Held
      BY HeldAre
    <3>3. PICK b \in Held : b = rows[c]
      BY <3>2
    <3>4. WrittenBy(b[j], turn', posts')
      BY <1>4, <3>1, <3>3
    <3> QED
      BY <3>1, <3>3, <3>4 DEF Written, WrittenBy
  <2> QED
    BY <1>1, <2>1 DEF DeskFrom
<1> SUFFICES ASSUME NEW a \in Held', NEW i \in DOMAIN a PROVE WrittenBy(a[i], turn', posts')
  BY DEF WrittenInv, Written
<1>7. \/ a = shown' \/ \E load \in loads' : a = load.rows
      \/ \E c \in Chats : a = rows'[c]
      \/ \E g \in Guests : \E c \in Chats : a = mirror'[g][c]
  BY DEF Held
<1>8. CASE \E c \in Chats : a = rows'[c]
  <2>1. PICK c \in Chats : a = rows'[c]
    BY <1>8
  <2>2. WrittenBy(rows'[c][i], turn', posts')
    BY <1>6, <2>1
  <2> QED
    BY <2>1, <2>2
<1>9. CASE \/ a = shown' \/ \E load \in loads' : a = load.rows
           \/ \E g \in Guests : \E c \in Chats : a = mirror'[g][c]
  <2>1. From(a)
    BY <1>2, <1>9 DEF TabFrom
  <2> QED
    BY <1>5, <2>1
<1> QED
  BY <1>7, <1>8, <1>9

-----------------------------------------------------------------------------
(* Every step.                                                              *)

(***************************************************************************)
(* The page opens with nothing shown, on the landing page or on the chat   *)
(* of before.                                                              *)
(***************************************************************************)
LEMMA PageInit == Init => PageInv /\ WrittenInv
<1> SUFFICES ASSUME Init PROVE PageInv /\ WrittenInv
  OBVIOUS
<1>1. PICK old : /\ old \in {<<>>} \cup {<<Row(0, "user", words)>> : words \in {w \in Texts : ~Resets(w)}}
                 /\ rows = [c \in Chats |-> IF c = 0 THEN old ELSE <<>>]
  BY DEF Init
<1>2. /\ old \in Seq(Rows) /\ <<>> \in Seq(Rows)
      /\ \A i \in DOMAIN old : old[i].who # "pending"
  <2>1. CASE old = <<>>
    BY <2>1, EmptyTranscript
  <2>2. CASE old # <<>>
    <3>1. PICK words \in Texts : old = <<Row(0, "user", words)>>
      BY <1>1, <2>2
    <3>2. Row(0, "user", words) \in Rows /\ Row(0, "user", words).who = "user"
      BY Numbers DEF Row, Rows
    <3> QED
      BY <3>1, <3>2, EmptyTranscript
  <2> QED
    BY <2>1, <2>2
<1>3. /\ rows \in [Chats -> Seq(Rows)] /\ RowsInv
      /\ mirror \in [Guests -> [Chats -> Seq(Rows)]]
      /\ \A g \in Guests, c \in Chats : mirror[g][c] = <<>>
  <2>1. \A c \in Chats : rows[c] = old \/ rows[c] = <<>>
    BY <1>1
  <2>2. rows \in [Chats -> Seq(Rows)]
    BY <1>1, <1>2
  <2>3. RowsInv
    BY <1>2, <2>1 DEF RowsInv
  <2>4. mirror = [g \in Guests |-> [c \in Chats |-> <<>>]]
    BY DEF Init
  <2>5. [c \in Chats |-> <<>>] \in [Chats -> Seq(Rows)]
    BY <1>2
  <2>6. mirror \in [Guests -> [Chats -> Seq(Rows)]]
    BY <2>4, <2>5
  <2>7. \A g \in Guests, c \in Chats : mirror[g][c] = <<>>
    BY <2>4
  <2> QED
    BY <2>2, <2>3, <2>6, <2>7
<1>4. /\ send = Idle /\ send \in SendRecord
      /\ send.n = 0 /\ send.stage = "idle" /\ send.as = 1 /\ send.for = 1
  BY Numbers, Places DEF Init, Idle, SendRecord
<1>5. /\ me = 1 /\ owner \in [Chats -> {0} \cup Guests]
      /\ \A c \in Chats : owner[c] \in {0, 1} /\ (c > 0 => owner[c] = 0)
  <2>1. me = 1 /\ owner = [c \in Chats |-> IF c = 0 THEN 1 ELSE 0]
    BY DEF Init
  <2>2. 1 \in Guests
    BY Places
  <2>3. 0 \in {0} \cup Guests /\ 1 \in {0} \cup Guests
    BY <2>2
  <2>4. \A c \in Chats : owner[c] = IF c = 0 THEN 1 ELSE 0
    BY <2>1
  <2>5. \A c \in Chats : owner[c] \in {0, 1}
    BY <2>4
  <2>6. \A c \in Chats : c > 0 => owner[c] = 0
    <3>1. ~(0 > 0)
      OBVIOUS
    <3> QED
      BY <2>4, <3>1
  <2> QED
    BY <2>1, <2>3, <2>5, <2>6
<1>6. TypeOK
  <2>1. GatewayTyped
    <3>1. 0 \in 0..MaxExpiries
      <4>1. MaxExpiries \in Nat
        BY ChatPageAssumption
      <4> QED
        BY <4>1
    <3>2. 0 \in 0..MaxOthers
      <4>1. MaxOthers \in Nat
        BY ChatPageAssumption
      <4> QED
        BY <4>1
    <3> QED
      BY <1>3, <1>5, <3>1, <3>2, Places DEF GatewayTyped, Init
  <2>2. SessionTyped
    <3>1. account \in BOOLEAN /\ me = 1 /\ recoveries = 0 /\ asked = 1
      BY DEF Init
    <3>2. 1 \in Guests
      BY Places
    <3>3. 0 \in 0..1
      OBVIOUS
    <3> QED
      BY <3>1, <3>2, <3>3 DEF SessionTyped
  <2>3. ScreenTyped
    BY <1>2, Places DEF ScreenTyped, Init
  <2>4. RunningTyped
    BY <1>4 DEF RunningTyped, Init
  <2>5. ReadingTyped
    <3>1. 0 \in 0..MaxRefreshes
      <4>1. MaxRefreshes \in Nat
        BY ChatPageAssumption
      <4> QED
        BY <4>1
    <3> QED
      BY <1>3, <3>1 DEF ReadingTyped, Init
  <2> QED
    BY <2>1, <2>2, <2>3, <2>4, <2>5, TypeParts
<1>7. SendInv /\ LoadInv
  BY <1>4 DEF SendInv, LoadInv, Sending, Init
<1>8. OwnerInv
  <2>1. \A c \in Chats : owner[c] <= 1
    BY <1>5
  <2> QED
    BY <1>4, <1>5, <2>1 DEF OwnerInv, Sending
<1>9. MirrorInv /\ ShownInv
  <2>1. route \in {Landing} \cup Chats /\ shown = <<>> /\ me \in Guests
    BY Places DEF Init
  <2>2. \A a : Within(<<>>, a) /\ \A list : Keeps(list, <<>>, a)
    BY DEF Within, Keeps
  <2>3. PendingLast(<<>>) /\ AllPending(<<>>)
    BY DEF PendingLast, AllPending
  <2> QED
    BY <1>3, <1>4, <2>1, <2>2, <2>3, Places DEF MirrorInv, ShownInv, Sending
<1>10. WrittenInv
  <2>1. \A i \in DOMAIN old : old[i].who = "user" /\ old[i].of = 0
    <3>1. CASE old = <<>>
      BY <3>1
    <3>2. CASE old # <<>>
      <4>1. PICK words \in Texts : old = <<Row(0, "user", words)>>
        BY <1>1, <3>2
      <4>2. PICK row : row = Row(0, "user", words)
        OBVIOUS
      <4>3. row.who = "user" /\ row.of = 0
        BY <4>2 DEF Row
      <4>4. old = <<row>> /\ \A i \in DOMAIN old : old[i] = row
        BY <4>1, <4>2
      <4> QED
        BY <4>3, <4>4
    <3> QED
      BY <3>1, <3>2
  <2>2. \A i \in DOMAIN old : Written(old[i])
    BY <2>1 DEF Written, WrittenBy
  <2>3. \A a \in Held : a \in {<<>>, old}
    <3>1. /\ shown = <<>> /\ loads = {} /\ \A c \in Chats : rows[c] \in {<<>>, old}
          /\ \A g \in Guests : \A c \in Chats : mirror[g][c] = <<>>
      BY <1>1 DEF Init
    <3> QED
      BY <3>1 DEF Held
  <2> QED
    BY <2>2, <2>3 DEF WrittenInv
<1> QED
  BY <1>3, <1>6, <1>7, <1>8, <1>9, <1>10 DEF PageInv

(***************************************************************************)
(* Every step preserves the invariant, keeps the transcript and hands back *)
(* what is typed.                                                          *)
(***************************************************************************)
LEMMA PageStep ==
  ASSUME PageInv, PostInv, WrittenInv, [Next]_vars
  PROVE  PageInv' /\ Shows /\ Handed
<1>1. ASSUME PageInv', shown' = shown, send' = send \/ send'.stage # "idle"
      PROVE  PageInv' /\ Shows /\ Handed
  BY <1>1, KeepsItself DEF Shows, Handed, Sending
<1>2. send \in SendRecord
  BY Facts
<1>3. CASE Type
  BY <1>1, <1>3, TypeStands DEF Type, running
<1>4. CASE Expires
  BY <1>1, <1>4, ExpiresStands DEF Expires, screen, running
<1>5. CASE RequestMoves
  <2>1. CASE ChatCreated
    <3>1. send'.stage = "posting" /\ shown' = shown
      BY <1>2, <2>1 DEF ChatCreated, screen, SendRecord
    <3> QED
      BY <1>1, <2>1, <3>1, ChatCreatedStands
  <2>2. CASE PostTaken
    <3>1. send'.stage = "reading" /\ shown' = shown
      BY <1>2, <2>2 DEF PostTaken, screen, SendRecord
    <3> QED
      BY <1>1, <2>2, <3>1, PostTakenStands
  <2>3. CASE RequestDenied
    <3>1. send'.stage # "idle" /\ shown' = shown
      BY <1>2, <2>3 DEF RequestDenied, Asking, screen, SendRecord
    <3> QED
      BY <1>1, <2>3, <3>1, RequestDeniedStands
  <2> QED
    BY <1>5, <2>1, <2>2, <2>3, FailsKeeps, StopKeepsPage DEF RequestMoves
<1>6. CASE StreamEnds
  BY <1>6, FailsKeeps, StreamCompletesKeeps DEF StreamEnds
<1>7. CASE RecoveryMoves
  <2>1. CASE RecoveryFails
    BY <1>1, <2>1, RecoveryFailsStands DEF RecoveryFails, running
  <2> QED
    BY <1>7, <2>1, RecoveredKeepsPage DEF RecoveryMoves
<1>8. CASE \E load \in loads : LoadMoves(load)
  BY <1>8, LoadReadKeeps, LoadDeniedKeeps, LoadLandsKeeps, LoadFailsKeeps DEF LoadMoves
<1>9. CASE \/ \E stray \in strays : StrayArrives(stray)
           \/ \E n \in Sends : TurnEnds(n)
           \/ \E chat \in Chats : DeskPosts(chat)
  <2>1. shown' = shown /\ send' = send
    BY <1>9 DEF StrayArrives, TurnEnds, TurnCompletes, TurnFails, DeskPosts, screen, running
  <2> QED
    BY <1>1, <1>9, <2>1, DeskSteps
<1>10. CASE UNCHANGED vars
  <2>1. TypeOK'
    BY <1>10, TypeParts, TypePartsAfter DEF PageInv, GatewayTyped, SessionTyped, ScreenTyped,
       RunningTyped, ReadingTyped, LoadRecord, vars
  <2> QED
    BY <1>1, <1>10, <2>1, SameGoes, AloneStands DEF PageInv, vars
<1> QED
  BY <1>3, <1>4, <1>5, <1>6, <1>7, <1>8, <1>9, <1>10, RefreshKeeps, SendKeepsPage, StopKeepsPage DEF Next

\* The posts, the page and what is written go together.
ChatInv == Typed /\ PostInv /\ PageInv /\ WrittenInv

(***************************************************************************)
(* The whole invariant holds.                                              *)
(***************************************************************************)
LEMMA ChatStarts == Init => ChatInv
  BY PostInit, PageInit DEF ChatInv

(***************************************************************************)
(* Every step preserves it.                                                *)
(***************************************************************************)
LEMMA ChatStep == ChatInv /\ [Next]_vars => ChatInv' /\ Shows /\ Handed
  BY PostStep, PageStep, WrittenStep DEF ChatInv

(***************************************************************************)
(* The states of the page are of its types.                                *)
(***************************************************************************)
THEOREM PageTyped == Spec => []TypeOK
<1>1. ChatInv => TypeOK
  BY DEF ChatInv, PageInv
<1> QED
  BY <1>1, ChatStarts, ChatStep, PTL DEF Spec

(***************************************************************************)
(* Messages on the screen that the desk still has stay there, each in its  *)
(* place (loadChat's generation, the guest's copies); what leaves the      *)
(* screen was deleted at the desk (reset).                                 *)
(***************************************************************************)
THEOREM TranscriptKeepsItsPlace == Spec => TranscriptNeverGoesBack
<1>1. ChatInv /\ [Next]_vars => [Keeps(rows[route], shown, shown')]_vars
  BY ChatStep DEF Shows
<1> QED
  BY <1>1, ChatStarts, ChatStep, PTL DEF Spec, TranscriptNeverGoesBack

(***************************************************************************)
(* A send that is over was taken, or its text is back in the composer; or  *)
(* it was stopped, and the newest question on the screen says the same     *)
(* (send's catch).                                                         *)
(***************************************************************************)
THEOREM EndedSendIsAccountedFor == Spec => SentTextIsSomewhere
<1>1. ChatInv /\ [Next]_vars => [Handed]_vars
  BY ChatStep
<1> QED
  BY <1>1, ChatStarts, ChatStep, PTL DEF Spec, SentTextIsSomewhere, Handed

-----------------------------------------------------------------------------
(* The live card and the stream under it: what the page shows of the send   *)
(* that runs (LiveTurn).                                                    *)

\* A card is at least as far along as another one.
Ahead(one, other) == Len(one.reply) >= Len(other.reply) /\ Rank(one.step) >= Rank(other.step)

\* What a stream may carry.
Sayable(event) == event.kind \in Kinds /\ (event.kind = "reply.delta" => event.n \in 1..MaxWords)

\* The snapshot that is kept with an event is the one before it, with the event applied.
Kept(t) ==
    \A k \in 1..Len(told[t]) :
        Sayable(told[t][k]) /\ told[t][k].live = Apply(Snapshot(t, k - 1), told[t][k], t)

\* The card is ahead of what was heard, from the post on.
Hearing ==
    /\ stage # "idle" => post \in Posts
    /\ stage = "posting" => heard = 0
    /\ stage = "reading" => heard <= Len(told[post]) /\ Ahead(card, Snapshot(post, heard))

CardInv == LiveTypeOK /\ (\A t \in Turns : Kept(t)) /\ Hearing

(***************************************************************************)
(* The bounds of the model are numbers.                                    *)
(***************************************************************************)
LEMMA LiveBounds == MaxPosts \in Nat /\ MaxWords \in Nat
  BY LiveTurnAssumption

(***************************************************************************)
(* An event makes a card of a card (applyLiveEvent, TurnStream.record).    *)
(***************************************************************************)
LEMMA ApplyTyped ==
  ASSUME NEW live \in Cards, NEW event, NEW t \in Turns, Sayable(event)
  PROVE  Apply(live, event, t) \in Cards
<1>1. CASE event.kind = "reply.delta"
  <2>1. [turn |-> t, n |-> event.n] \in Pieces
    BY <1>1 DEF Sayable, Pieces
  <2>2. Append(live.reply, [turn |-> t, n |-> event.n]) \in Seq(Pieces)
    BY <2>1 DEF Cards
  <2> QED
    BY <1>1, <2>2 DEF Apply, Cards
<1>2. CASE event.kind = "reply.reset"
  <2>1. Apply(live, event, t) = [live EXCEPT !.reply = <<>>]
    BY <1>2 DEF Apply, Steps
  <2>2. <<>> \in Seq(Pieces)
    OBVIOUS
  <2> QED
    BY <2>1, <2>2 DEF Cards
<1>3. CASE event.kind \in Steps
  BY <1>3 DEF Apply, Cards, Steps
<1>4. CASE event.kind \in {"turn.completed", "turn.failed"}
  BY <1>4 DEF Apply, Steps
<1> QED
  BY <1>1, <1>2, <1>3, <1>4 DEF Sayable, Kinds, Steps

(***************************************************************************)
(* The same event leaves a card that is ahead of another one ahead of it.  *)
(***************************************************************************)
LEMMA ApplyAhead ==
  ASSUME NEW one \in Cards, NEW other \in Cards, NEW event, NEW t \in Turns,
         Sayable(event),
         Ahead(one, other)
  PROVE  Ahead(Apply(one, event, t), Apply(other, event, t))
<1>1. CASE event.kind = "reply.delta"
  <2> DEFINE piece == [turn |-> t, n |-> event.n]
  <2>1. piece \in Pieces
    BY <1>1 DEF Sayable, Pieces
  <2>2. /\ Apply(one, event, t) = [one EXCEPT !.reply = Append(@, piece)]
        /\ Apply(other, event, t) = [other EXCEPT !.reply = Append(@, piece)]
    BY <1>1 DEF Apply, Steps
  <2> HIDE DEF piece
  <2>3. /\ Len(Append(one.reply, piece)) = Len(one.reply) + 1
        /\ Len(Append(other.reply, piece)) = Len(other.reply) + 1
        /\ Len(one.reply) \in Nat /\ Len(other.reply) \in Nat
    BY <2>1 DEF Cards
  <2>4. /\ Apply(one, event, t).reply = Append(one.reply, piece)
        /\ Apply(other, event, t).reply = Append(other.reply, piece)
        /\ Apply(one, event, t).step = one.step /\ Apply(other, event, t).step = other.step
    BY <2>2 DEF Cards
  <2> QED
    BY <2>3, <2>4 DEF Ahead
<1>2. CASE event.kind = "reply.reset"
  <2>1. /\ Apply(one, event, t).reply = <<>> /\ Apply(other, event, t).reply = <<>>
        /\ Apply(one, event, t).step = one.step /\ Apply(other, event, t).step = other.step
    BY <1>2 DEF Apply, Cards, Steps
  <2>2. Len(<<>>) >= Len(<<>>)
    OBVIOUS
  <2> QED
    BY <2>1, <2>2 DEF Ahead
<1>3. CASE event.kind \in Steps
  <2>1. /\ Apply(one, event, t).reply = one.reply /\ Apply(other, event, t).reply = other.reply
        /\ Apply(one, event, t).step = event.kind /\ Apply(other, event, t).step = event.kind
    BY <1>3 DEF Apply, Cards, Steps
  <2>2. Rank(event.kind) \in Int
    BY DEF Rank
  <2> QED
    BY <2>1, <2>2 DEF Ahead
<1>4. CASE event.kind \in {"turn.completed", "turn.failed"}
  BY <1>4 DEF Apply, Steps
<1> QED
  BY <1>1, <1>2, <1>3, <1>4 DEF Sayable, Kinds, Steps

(***************************************************************************)
(* What a poll brings never takes a card back (adoptLiveTurn).             *)
(***************************************************************************)
LEMMA AdoptAhead ==
  ASSUME NEW card1 \in Cards, NEW read \in Cards
  PROVE  /\ Adopt(card1, read) \in Cards
         /\ \A other \in Cards : Ahead(card1, other) => Ahead(Adopt(card1, read), other)
<1>1. Len(card1.reply) \in Nat /\ Len(read.reply) \in Nat
  BY DEF Cards
<1>2. /\ Adopt(card1, read).reply \in {card1.reply, read.reply}
      /\ Len(Adopt(card1, read).reply) >= Len(card1.reply)
  BY <1>1 DEF Adopt
<1>3. /\ Adopt(card1, read).step \in {card1.step, read.step}
      /\ Rank(Adopt(card1, read).step) >= Rank(card1.step)
  BY DEF Adopt, Rank
<1>4. Adopt(card1, read) \in Cards
  BY <1>2, <1>3 DEF Cards, Adopt
<1>5. ASSUME NEW other \in Cards, Ahead(card1, other) PROVE Ahead(Adopt(card1, read), other)
  <2>1. Len(other.reply) \in Nat /\ Len(Adopt(card1, read).reply) \in Nat
    BY <1>4 DEF Cards
  <2>2. \A step \in Steps : Rank(step) \in Nat
    BY DEF Rank
  <2>3. /\ Rank(other.step) \in Nat /\ Rank(card1.step) \in Nat
        /\ Rank(Adopt(card1, read).step) \in Nat
    BY <1>4, <2>2 DEF Cards
  <2> QED
    BY <1>1, <1>2, <1>3, <1>5, <2>1, <2>3 DEF Ahead
<1> QED
  BY <1>4, <1>5

(***************************************************************************)
(* A snapshot of a turn is a card.                                         *)
(***************************************************************************)
LEMMA SnapshotTyped ==
  ASSUME LiveTypeOK, NEW t \in Turns, NEW k \in 0..Len(told[t])
  PROVE  Snapshot(t, k) \in Cards
<1>1. told[t] \in Seq(Events)
  BY DEF LiveTypeOK
<1>2. CASE k = 0
  BY <1>2 DEF Snapshot, Blank, Cards, Steps
<1>3. CASE k # 0
  <2>1. k \in 1..Len(told[t])
    BY <1>1, <1>3
  <2>2. told[t][k] \in Events
    BY <1>1, <2>1
  <2> QED
    BY <1>3, <2>2 DEF Snapshot, Events
<1> QED
  BY <1>2, <1>3

(***************************************************************************)
(* A turn tells an event: it is kept with its snapshot, and what was there *)
(* stays.                                                                  *)
(***************************************************************************)
LEMMA TellsKeeps ==
  ASSUME CardInv, NEW t \in Turns, NEW kind \in Kinds, NEW n \in 0..MaxWords,
         kind = "reply.delta" => n \in 1..MaxWords,
         Tells(t, Event(kind, n)),
            liveTurn' \in [Turns -> {"none", "runs", "stopped", "over"}]
  PROVE  CardInv'
<1> DEFINE event == Event(kind, n)
           told1 == [kind |-> kind, n |-> n, live |-> Apply(Now(t), event, t)]
<1>1. told[t] \in Seq(Events) /\ Len(told[t]) \in Nat /\ told \in [Turns -> Seq(Events)]
  BY DEF CardInv, LiveTypeOK
<1>2. Sayable(event) /\ event.kind = kind /\ event.n = n
  BY DEF Sayable, Event
<1>3. Now(t) \in Cards
  BY <1>1, SnapshotTyped DEF CardInv, Now
<1>4. told1 \in Events
  BY <1>2, <1>3, ApplyTyped DEF Events
<1>5. /\ told' = [told EXCEPT ![t] = Append(@, told1)]
      /\ UNCHANGED <<window, post, stage, heard, card, polls>>
  BY <1>2 DEF Tells, tab
<1> HIDE DEF told1
<1>6. /\ told'[t] \in Seq(Events) /\ Len(told'[t]) = Len(told[t]) + 1
      /\ told'[t][Len(told[t]) + 1] = told1
      /\ \A k \in 1..Len(told[t]) : told'[t][k] = told[t][k]
  BY <1>1, <1>4, <1>5
<1>7. \A other \in Turns : other # t => told'[other] = told[other]
  BY <1>1, <1>5
<1>8. LiveTypeOK'
  <2>1. told' \in [Turns -> Seq(Events)]
    BY <1>1, <1>5, <1>6
  <2> QED
    BY <1>5, <2>1 DEF CardInv, LiveTypeOK
<1>9. \A other \in Turns : \A k \in 0..Len(told[other]) :
         Snapshot(other, k)' = Snapshot(other, k)
  <2> SUFFICES ASSUME NEW other \in Turns, NEW k \in 0..Len(told[other]), k # 0
               PROVE  told'[other][k] = told[other][k]
    BY DEF Snapshot
  <2> QED
    BY <1>1, <1>6, <1>7
<1>10. ASSUME NEW other \in Turns PROVE Kept(other)'
  <2>1. CASE other # t
    <3>1. told'[other] = told[other] /\ Len(told[other]) \in Nat
      BY <1>7, <2>1 DEF CardInv, LiveTypeOK
    <3>2. \A k \in 1..Len(told[other]) : Snapshot(other, k - 1)' = Snapshot(other, k - 1)
      BY <1>9, <3>1
    <3> QED
      BY <3>1, <3>2 DEF CardInv, Kept
  <2>2. CASE other = t
    <3>1. ASSUME NEW k \in 1..Len(told[t])
          PROVE  /\ Sayable(told'[t][k])
                 /\ told'[t][k].live = Apply(Snapshot(t, k - 1)', told'[t][k], t)
      <4>1. told'[t][k] = told[t][k] /\ k - 1 \in 0..Len(told[t])
        BY <1>1, <1>6
      <4>2. Snapshot(t, k - 1)' = Snapshot(t, k - 1)
        BY <1>9, <4>1
      <4> QED
        BY <4>1, <4>2 DEF CardInv, Kept
    <3>2. ASSUME NEW k \in {Len(told[t]) + 1}
          PROVE  /\ Sayable(told'[t][k])
                 /\ told'[t][k].live = Apply(Snapshot(t, k - 1)', told'[t][k], t)
      <4>1. k - 1 = Len(told[t]) /\ told'[t][k] = told1
        BY <1>1, <1>6
      <4>2. Snapshot(t, k - 1)' = Now(t)
        BY <1>1, <1>9, <4>1 DEF Now
      <4>3. /\ Sayable(told1) /\ told1.kind = kind /\ told1.n = n
            /\ told1.live = Apply(Now(t), event, t)
        BY DEF told1, Sayable
      <4>4. Apply(Now(t), event, t) = Apply(Now(t), told1, t)
        BY <1>2, <4>3 DEF Apply
      <4> QED
        BY <4>1, <4>2, <4>3, <4>4
    <3>3. \A k \in 1..Len(told'[t]) : k \in 1..Len(told[t]) \/ k \in {Len(told[t]) + 1}
      BY <1>1, <1>6
    <3> QED
      BY <2>2, <3>1, <3>2, <3>3 DEF Kept
  <2> QED
    BY <2>1, <2>2
<1>11. Hearing'
  <2>1. post \in Turns
    BY DEF CardInv, LiveTypeOK, Turns
  <2>2. stage = "reading" =>
           /\ heard <= Len(told'[post])
           /\ Snapshot(post, heard)' = Snapshot(post, heard)
    <3> HAVE stage = "reading"
    <3>1. heard \in 0..Len(told[post]) /\ heard \in Nat /\ Len(told[post]) \in Nat
      BY <2>1 DEF CardInv, LiveTypeOK, Hearing
    <3>2. Len(told'[post]) >= Len(told[post])
      BY <1>1, <1>6, <1>7, <2>1, <3>1
    <3>3. Len(told'[post]) \in Nat
      BY <1>8, <2>1 DEF LiveTypeOK
    <3>4. heard <= Len(told'[post])
      BY <3>1, <3>2, <3>3
    <3>5. Snapshot(post, heard)' = Snapshot(post, heard)
      BY <1>5, <1>9, <2>1, <3>1 DEF Snapshot
    <3> QED
      BY <3>4, <3>5
  <2>3. UNCHANGED <<post, stage, heard, card>>
    BY <1>5
  <2> QED
    BY <2>2, <2>3 DEF CardInv, Hearing
<1> QED
  BY <1>8, <1>10, <1>11 DEF CardInv

(***************************************************************************)
(* A step in which no turn says anything.                                  *)
(***************************************************************************)
LEMMA SilentKeeps ==
  ASSUME CardInv, UNCHANGED told, LiveTypeOK', Hearing'
  PROVE  CardInv'
<1>1. ASSUME NEW t \in Turns PROVE Kept(t)'
  <2>1. Kept(t)
    BY DEF CardInv
  <2>2. told' = told
    OBVIOUS
  <2> QED
    BY <2>1, <2>2 DEF Kept, Snapshot
<1> QED
  BY <1>1 DEF CardInv

\* What a watcher keeps.
Watchers == [at : {"off", "asleep", "back"}, turn : Turns \cup {Nobody}, read : Cards,
             followed : Turns \cup {Nobody}, stopped : BOOLEAN]

(***************************************************************************)
(* A blank card and a watcher that has heard nothing.                      *)
(***************************************************************************)
LEMMA Blanks ==
  /\ Blank \in Cards
  /\ \A at \in {"off", "asleep", "back"} : Watcher(at) \in Watchers
<1>1. Blank \in Cards
  <2>1. <<>> \in Seq(Pieces)
    OBVIOUS
  <2> QED
    BY <2>1 DEF Blank, Cards, Steps
<1> QED
  BY <1>1 DEF Watcher, Watchers

(***************************************************************************)
(* The end of a send: the card is cleared, the watcher told to stop.       *)
(***************************************************************************)
LEMMA EndsKeeps ==
  ASSUME CardInv, Ends, liveTurn' \in [Turns -> {"none", "runs", "stopped", "over"}],
         UNCHANGED <<told, window>>
  PROVE  CardInv'
<1>1. polls' \in [Posts -> Watchers]
  <2>1. polls \in [Posts -> Watchers]
    BY DEF CardInv, LiveTypeOK, Watchers
  <2>2. \A poll \in Watchers : [poll EXCEPT !.stopped = TRUE] \in Watchers
    BY DEF Watchers
  <2> QED
    BY <2>1, <2>2, Blanks DEF Ends
<1>2. LiveTypeOK'
  BY <1>1, Blanks DEF Ends, CardInv, LiveTypeOK, Watchers
<1>3. Hearing'
  BY DEF Ends, Hearing
<1> QED
  BY <1>2, <1>3, SilentKeeps

(***************************************************************************)
(* A send clears what the last turn said, which nobody reads again.        *)
(***************************************************************************)
LEMMA LiveSendKeeps ==
  ASSUME CardInv, Post
  PROVE  CardInv'
<1>1. /\ told \in [Turns -> Seq(Events)] /\ post \in 0..MaxPosts /\ MaxPosts \in Nat
      /\ polls \in [Posts -> Watchers]
  BY LiveBounds DEF CardInv, LiveTypeOK, Watchers
<1>2. told' = [told EXCEPT ![post] = <<>>] /\ <<>> \in Seq(Events) /\ post \in Turns
  BY <1>1 DEF Post, Turns
<1>3. post' \in Posts
  BY <1>1 DEF Post, Posts
<1>4. LiveTypeOK'
  <2>1. told' \in [Turns -> Seq(Events)]
    BY <1>1, <1>2
  <2>2. polls' \in [Posts -> Watchers]
    BY <1>1, Blanks DEF Post
  <2>3. post' \in 0..MaxPosts
    BY <1>1, <1>3 DEF Posts
  <2> QED
    BY <2>1, <2>2, <2>3, Blanks DEF Post, CardInv, LiveTypeOK, Watchers
<1>5. ASSUME NEW t \in Turns PROVE Kept(t)'
  <2>1. CASE t = post
    <3>1. Len(told'[t]) = 0
      BY <1>1, <1>2, <2>1
    <3> QED
      BY <3>1 DEF Kept
  <2>2. CASE t # post
    <3>1. told'[t] = told[t]
      BY <1>1, <1>2, <2>2
    <3>2. Kept(t)
      BY DEF CardInv
    <3> QED
      BY <3>1, <3>2 DEF Kept, Snapshot
  <2> QED
    BY <2>1, <2>2
<1>6. Hearing'
  BY <1>3 DEF Post, Hearing
<1> QED
  BY <1>4, <1>5, <1>6 DEF CardInv

(***************************************************************************)
(* The post is taken: nothing was heard yet, and any card is as far.       *)
(***************************************************************************)
LEMMA LivePostTakenKeeps ==
  ASSUME CardInv, LivePostTaken
  PROVE  CardInv'
<1>1. post \in Posts /\ post \in Turns /\ heard = 0 /\ card \in Cards
      /\ told \in [Turns -> Seq(Events)] /\ UNCHANGED <<told, post, heard, card, polls>>
  BY LiveBounds DEF CardInv, LiveTypeOK, Hearing, LivePostTaken, Begins, Posts, Turns
<1>2. LiveTypeOK'
  BY <1>1 DEF LivePostTaken, Begins, CardInv, LiveTypeOK
<1>3. Ahead(card, Blank)
  <2>1. Len(card.reply) \in Nat
    BY <1>1 DEF Cards
  <2> QED
    BY <2>1 DEF Ahead, Blank, Rank
<1>4. Hearing'
  <2>1. Len(told[post]) \in Nat
    BY <1>1
  <2> QED
    BY <1>1, <1>3, <2>1 DEF Hearing, LivePostTaken, Snapshot
<1> QED
  BY <1>1, <1>2, <1>4, SilentKeeps

(***************************************************************************)
(* The next event of the stream: it does to the card what it did to the    *)
(* snapshot.                                                               *)
(***************************************************************************)
LEMMA HearsKeeps ==
  ASSUME CardInv, Hears
  PROVE  CardInv'
<1> DEFINE event == told[post][heard + 1]
<1>1. /\ post \in Posts /\ post \in Turns /\ heard \in Nat /\ card \in Cards
      /\ told \in [Turns -> Seq(Events)]
      /\ stage = "reading" /\ heard < Len(told[post]) /\ Len(told[post]) \in Nat
  BY LiveBounds DEF CardInv, LiveTypeOK, Hearing, Hears, Posts, Turns
<1>2. heard + 1 \in 1..Len(told[post])
  BY <1>1
<1>3. Sayable(event) /\ event.live = Apply(Snapshot(post, heard), event, post)
  <2>1. Kept(post)
    BY <1>1 DEF CardInv
  <2>2. /\ Sayable(event)
        /\ event.live = Apply(Snapshot(post, (heard + 1) - 1), event, post)
    BY <1>2, <2>1 DEF Kept
  <2>3. (heard + 1) - 1 = heard
    BY <1>1
  <2> QED
    BY <2>2, <2>3
<1>4. UNCHANGED stream
  BY DEF Hears
<1>5. CASE /\ event.kind = "turn.completed" /\ stage' = "loading"
           /\ UNCHANGED <<post, heard, card, polls>>
  <2>1. LiveTypeOK' /\ Hearing'
    BY <1>1, <1>4, <1>5 DEF CardInv, LiveTypeOK, Hearing, stream
  <2> QED
    BY <1>4, <2>1, SilentKeeps DEF stream
<1>6. CASE Ends
  BY <1>4, <1>6, EndsKeeps DEF stream, CardInv, LiveTypeOK
<1>7. CASE /\ card' = Apply(card, event, post) /\ heard' = heard + 1
           /\ UNCHANGED <<post, stage, polls>>
  <2>1. card' \in Cards
    BY <1>1, <1>3, <1>7, ApplyTyped
  <2>2. LiveTypeOK'
    BY <1>1, <1>4, <1>7, <2>1 DEF CardInv, LiveTypeOK, stream
  <2>3. Snapshot(post, heard) \in Cards
    <3>1. heard \in 0..Len(told[post])
      BY <1>1
    <3> QED
      BY <1>1, <3>1, SnapshotTyped DEF CardInv
  <2>4. Ahead(card, Snapshot(post, heard))
    BY <1>1 DEF CardInv, Hearing
  <2>5. Ahead(card', event.live)
    BY <1>1, <1>3, <1>7, <2>3, <2>4, ApplyAhead
  <2>6. Snapshot(post, heard)' = event.live
    <3>1. heard + 1 # 0
      BY <1>1
    <3> QED
      BY <1>4, <1>7, <3>1 DEF Snapshot, stream
  <2>7. Hearing'
    BY <1>1, <1>2, <1>4, <1>7, <2>5, <2>6 DEF Hearing, stream
  <2> QED
    BY <1>4, <2>2, <2>7, SilentKeeps DEF stream
<1> QED
  BY <1>5, <1>6, <1>7 DEF Hears

(***************************************************************************)
(* What the watcher does to its own state, and to the card when it lands.  *)
(***************************************************************************)
LEMMA PollKeeps ==
  ASSUME CardInv, NEW n \in Posts, PollRead(n) \/ PollLands(n) \/ PollLost(n)
  PROVE  CardInv'
<1>1. /\ polls \in [Posts -> Watchers] /\ polls[n] \in Watchers /\ card \in Cards
      /\ window \in Turns \cup {Nobody} /\ UNCHANGED <<stream, tab>>
  BY DEF CardInv, LiveTypeOK, Watchers, PollRead, PollLands, PollLost
<1>2. ASSUME NEW to \in Watchers, Polled(n, to) PROVE polls' \in [Posts -> Watchers]
  <2>1. Watcher("off") \in Watchers /\ [to EXCEPT !.at = "asleep"] \in Watchers
    <3>1. [to EXCEPT !.at = "asleep"] \in Watchers
      BY DEF Watchers
    <3> QED
      BY <3>1, Blanks
  <2> QED
    BY <1>1, <1>2, <2>1 DEF Polled
<1>3. ASSUME polls' \in [Posts -> Watchers], card' \in Cards,
             \A other \in Cards : Ahead(card, other) => Ahead(card', other)
      PROVE  CardInv'
  <2>1. LiveTypeOK'
    BY <1>1, <1>3 DEF CardInv, LiveTypeOK, Watchers, stream, tab
  <2>2. stage = "reading" => Snapshot(post, heard) \in Cards
    <3> HAVE stage = "reading"
    <3>1. post \in Turns /\ heard \in 0..Len(told[post])
      BY LiveBounds DEF CardInv, LiveTypeOK, Hearing, Posts, Turns
    <3> QED
      BY <3>1, SnapshotTyped DEF CardInv
  <2>3. Hearing'
    <3>1. Snapshot(post, heard)' = Snapshot(post, heard)
      BY <1>1 DEF Snapshot, stream, tab
    <3> QED
      BY <1>1, <1>3, <2>2, <3>1 DEF CardInv, Hearing, stream, tab
  <2> QED
    BY <1>1, <2>1, <2>3, SilentKeeps DEF stream
<1>4. CASE PollRead(n)
  <2>1. window \in Turns
    BY <1>1, <1>4 DEF PollRead
  <2>2. Now(window) \in Cards
    <3>1. Len(told[window]) \in 0..Len(told[window])
      BY <2>1 DEF CardInv, LiveTypeOK
    <3> QED
      BY <2>1, <3>1, SnapshotTyped DEF CardInv, Now
  <2>3. [polls[n] EXCEPT !.at = "back", !.turn = window, !.read = Now(window)] \in Watchers
    BY <1>1, <2>1, <2>2 DEF Watchers
  <2>4. polls' \in [Posts -> Watchers] /\ card' = card
    BY <1>1, <1>4, <2>3 DEF PollRead
  <2> QED
    BY <1>1, <1>3, <2>4
<1>5. CASE PollLands(n)
  <2> DEFINE poll == polls[n]
             followed == IF poll.followed = Nobody THEN poll.turn ELSE poll.followed
             to == [poll EXCEPT !.followed = followed, !.turn = Nobody, !.read = Blank]
  <2>1. followed \in Turns \cup {Nobody} /\ poll.read \in Cards
    BY <1>1 DEF Watchers
  <2>2. to \in Watchers
    BY <1>1, <2>1, Blanks DEF Watchers
  <2>3. Polled(n, to)
    BY <1>5 DEF PollLands
  <2>4. card' \in {card, Adopt(card, poll.read)}
    BY <1>5 DEF PollLands
  <2>5. card' \in Cards /\ \A other \in Cards : Ahead(card, other) => Ahead(card', other)
    BY <1>1, <2>1, <2>4, AdoptAhead
  <2> HIDE DEF to
  <2> QED
    BY <1>2, <1>3, <2>2, <2>3, <2>5
<1>6. CASE PollLost(n)
  <2>1. [polls[n] EXCEPT !.turn = Nobody, !.read = Blank] \in Watchers
    BY <1>1, Blanks DEF Watchers
  <2>2. polls' \in [Posts -> Watchers] /\ card' = card
    BY <1>2, <1>6, <2>1 DEF PollLost
  <2> QED
    BY <1>1, <1>3, <2>2
<1> QED
  BY <1>4, <1>5, <1>6

(***************************************************************************)
(* A turn that may still speak has a number for its next piece.            *)
(***************************************************************************)
LEMMA SaidCounts ==
  ASSUME LiveTypeOK, NEW t \in Turns
  PROVE  Said(t) \in Nat
<1>1. Len(told[t]) \in Nat /\ Len(told[t]) \in Int /\ DOMAIN told[t] = 1..Len(told[t]) /\ 1 \in Int
  BY DEF LiveTypeOK
<1>2. IsFiniteSet(1..Len(told[t]))
  BY <1>1, FS_Interval
<1>3. IsFiniteSet({i \in DOMAIN told[t] : told[t][i].kind = "reply.delta"})
  BY <1>1, <1>2, FS_Subset
<1> QED
  BY <1>3, FS_CardinalityType DEF Said

(***************************************************************************)
(* A turn moves: each of its events is one that a stream may carry.        *)
(***************************************************************************)
LEMMA MovesKeeps ==
  ASSUME CardInv, NEW t \in Posts, TurnMoves(t)
  PROVE  CardInv'
<1>1. /\ t \in Turns /\ MaxWords \in Nat
      /\ liveTurn' \in [Turns -> {"none", "runs", "stopped", "over"}]
  BY LiveBounds DEF CardInv, LiveTypeOK, TurnMoves, Posts, Turns
<1>2. CASE Said(t) < MaxWords /\ Tells(t, Event("reply.delta", Said(t) + 1))
  <2>1. Said(t) + 1 \in 1..MaxWords /\ Said(t) + 1 \in 0..MaxWords
    BY <1>1, <1>2, SaidCounts DEF CardInv
  <2> QED
    BY <1>1, <1>2, <2>1, TellsKeeps DEF Kinds
<1>3. ASSUME NEW kind \in {"reply.reset", "running", "done"}, Tells(t, Event(kind, 0))
      PROVE CardInv'
  <2>1. kind \in Kinds /\ kind # "reply.delta" /\ 0 \in 0..MaxWords
    BY <1>1 DEF Kinds
  <2> QED
    BY <1>1, <1>3, <2>1, TellsKeeps
<1> QED
  BY <1>2, <1>3 DEF TurnMoves

(***************************************************************************)
(* A turn ends, with or without somebody to read it.                       *)
(***************************************************************************)
LEMMA TurnEndsKeeps ==
  ASSUME CardInv, NEW t \in Turns, LiveTurnEnds(t)
  PROVE  CardInv'
<1>1. MaxWords \in Nat /\ liveTurn' \in [Turns -> {"none", "runs", "stopped", "over"}]
  BY LiveBounds DEF CardInv, LiveTypeOK, LiveTurnEnds
<1>2. ASSUME NEW kind \in {"turn.completed", "turn.failed"}, Tells(t, Event(kind, 0))
      PROVE CardInv'
  <2>1. kind \in Kinds /\ kind # "reply.delta" /\ 0 \in 0..MaxWords
    BY <1>1 DEF Kinds
  <2> QED
    BY <1>1, <1>2, <2>1, TellsKeeps
<1>3. CASE UNCHANGED <<told, window, tab, card, polls>>
  <2>1. LiveTypeOK' /\ Hearing'
    BY <1>1, <1>3 DEF CardInv, LiveTypeOK, Hearing, tab, Snapshot
  <2> QED
    BY <1>3, <2>1, SilentKeeps
<1> QED
  BY <1>2, <1>3 DEF LiveTurnEnds

(***************************************************************************)
(* Every step keeps the card ahead of what was heard.                      *)
(***************************************************************************)
LEMMA CardStep == CardInv /\ [LiveNext]_liveVars => CardInv'
<1> SUFFICES ASSUME CardInv, [LiveNext]_liveVars PROVE CardInv'
  OBVIOUS
<1> USE DEF stream
<1>1. CASE PostFails
  BY <1>1, EndsKeeps DEF PostFails, CardInv, LiveTypeOK
<1>2. StreamClosed \in [Turns -> {"none", "runs", "stopped", "over"}]
  BY DEF StreamClosed, CardInv, LiveTypeOK
<1>3. CASE LiveBreaks
  BY <1>2, <1>3, EndsKeeps DEF LiveBreaks
<1>4. CASE LiveStop
  <2>1. polls' \in [Posts -> Watchers]
    BY <1>4, Blanks DEF LiveStop, CardInv, LiveTypeOK, Watchers
  <2>2. stage \in {"posting", "reading"} /\ stage' = "loading"
    BY <1>4 DEF LiveStop
  <2>3. LiveTypeOK'
    BY <1>2, <1>4, <2>1, <2>2 DEF LiveStop, CardInv, LiveTypeOK, Watchers
  <2>4. Hearing'
    BY <1>4, <2>2 DEF LiveStop, CardInv, Hearing
  <2> QED
    BY <1>4, <2>3, <2>4, SilentKeeps DEF LiveStop
<1>5. CASE Loaded
  BY <1>5, EndsKeeps DEF Loaded, CardInv, LiveTypeOK
<1>6. CASE OtherTurn
  <2>1. 0 \in Turns
    BY LiveBounds DEF Turns
  <2>2. LiveTypeOK' /\ Hearing'
    BY <1>6, <2>1 DEF OtherTurn, Begins, CardInv, LiveTypeOK, Hearing, tab, Snapshot
  <2> QED
    BY <1>6, <2>2, SilentKeeps DEF OtherTurn, Begins
<1>7. CASE UNCHANGED liveVars
  <2>1. LiveTypeOK' /\ Hearing'
    BY <1>7 DEF CardInv, LiveTypeOK, Hearing, liveVars, tab, Snapshot
  <2> QED
    BY <1>7, <2>1, SilentKeeps DEF liveVars
<1> QED
  BY <1>1, <1>3, <1>4, <1>5, <1>6, <1>7, LiveSendKeeps, LivePostTakenKeeps, HearsKeeps, PollKeeps,
     MovesKeeps, TurnEndsKeeps DEF LiveNext

(***************************************************************************)
(* Before the first send nothing is heard.                                 *)
(***************************************************************************)
LEMMA CardInit == LiveInit => CardInv
<1> SUFFICES ASSUME LiveInit PROVE CardInv
  OBVIOUS
<1>1. LiveTypeOK
  <2>1. <<>> \in Seq(Events)
    OBVIOUS
  <2>2. 0 \in 0..MaxPosts
    <3>1. MaxPosts \in Nat
      BY LiveBounds
    <3> QED
      BY <3>1
  <2> QED
    BY <2>1, <2>2, Blanks DEF LiveInit, LiveTypeOK, Watchers
<1>2. ASSUME NEW t \in Turns PROVE Kept(t)
  <2>1. Len(told[t]) = 0
    BY DEF LiveInit
  <2> QED
    BY <2>1 DEF Kept
<1> QED
  BY <1>1, <1>2 DEF CardInv, Hearing, LiveInit

-----------------------------------------------------------------------------
(* The words on the card.                                                   *)

\* Between these events of a turn no draft is taken back.
NoReset(t, j, k) == \A i \in (j + 1)..k : told[t][i].kind # "reply.reset"

\* A snapshot has words of its turn, and no fewer than an earlier one of the same draft.
ToldIs(t) ==
    \A k \in 0..Len(told[t]) :
        /\ \A word \in WordsOf(Snapshot(t, k)) : word.turn = t
        /\ \A j \in 0..k : NoReset(t, j, k) => Len(Snapshot(t, j).reply) <= Len(Snapshot(t, k).reply)

\* An answer on its way has words of a turn there was, and is a snapshot of it while it runs.
ReadIs(poll) ==
    poll.at = "back" =>
        /\ poll.turn \in 0..post
        /\ \A word \in WordsOf(poll.read) : word.turn = poll.turn
        /\ poll.turn = post => \E j \in 0..Len(told[post]) : poll.read = Snapshot(post, j)

\* The words of the card, while they are those of one draft of the send's turn.
OnCard ==
    stage = "reading" /\ ~TakenBack(heard) /\ (\A word \in WordsOf(card) : word.turn = post) =>
        \E k \in heard..Len(told[post]) : WordsOf(Snapshot(post, k)) \subseteq WordsOf(card)

WordsInv ==
    /\ \A t \in Turns : ToldIs(t)
    /\ \A n \in Posts : ReadIs(polls[n])
    /\ window # Nobody => window \in 0..post
    /\ OnCard

(***************************************************************************)
(* What an event does to the words.                                        *)
(***************************************************************************)
LEMMA ApplyIs ==
  ASSUME NEW live \in Cards, NEW event, NEW t \in Turns, Sayable(event)
  PROVE  /\ event.kind = "reply.delta" =>
               /\ Len(Apply(live, event, t).reply) = Len(live.reply) + 1
               /\ WordsOf(Apply(live, event, t)) = WordsOf(live) \cup {[turn |-> t, n |-> event.n]}
         /\ event.kind = "reply.reset" => WordsOf(Apply(live, event, t)) = {}
         /\ event.kind \notin {"reply.delta", "reply.reset"} =>
               Apply(live, event, t).reply = live.reply
<1>1. ASSUME event.kind = "reply.delta"
      PROVE  /\ Len(Apply(live, event, t).reply) = Len(live.reply) + 1
             /\ WordsOf(Apply(live, event, t)) = WordsOf(live) \cup {[turn |-> t, n |-> event.n]}
  <2>1. PICK piece \in Pieces : piece = [turn |-> t, n |-> event.n]
    BY <1>1 DEF Sayable, Pieces
  <2>2. PICK list \in Seq(Pieces) : list = live.reply
    BY DEF Cards
  <2>3. Apply(live, event, t).reply = Append(list, piece)
    BY <1>1, <2>1, <2>2 DEF Apply, Steps, Cards
  <2>4. /\ Len(Append(list, piece)) = Len(list) + 1 /\ Len(list) \in Nat
        /\ \A i \in 1..Len(list) : Append(list, piece)[i] = list[i]
        /\ Append(list, piece)[Len(list) + 1] = piece
        /\ DOMAIN Append(list, piece) = 1..(Len(list) + 1) /\ DOMAIN list = 1..Len(list)
    BY <2>1, <2>2
  <2>5. {Append(list, piece)[i] : i \in 1..(Len(list) + 1)}
           = {list[i] : i \in 1..Len(list)} \cup {piece}
    BY <2>4
  <2> QED
    BY <2>1, <2>2, <2>3, <2>4, <2>5 DEF WordsOf
<1>2. ASSUME event.kind = "reply.reset" PROVE WordsOf(Apply(live, event, t)) = {}
  <2>1. Apply(live, event, t).reply = <<>>
    BY <1>2 DEF Apply, Steps, Cards
  <2> QED
    BY <2>1 DEF WordsOf
<1>3. ASSUME event.kind \notin {"reply.delta", "reply.reset"}
      PROVE  Apply(live, event, t).reply = live.reply
  BY <1>3 DEF Apply, Cards
<1> QED
  BY <1>1, <1>2, <1>3

(***************************************************************************)
(* An event adds words of its turn; but for a reset it takes none away,    *)
(* neither here nor in a card that had all of these words.                 *)
(***************************************************************************)
LEMMA ApplyWords ==
  ASSUME NEW live \in Cards, NEW event, NEW t \in Turns, Sayable(event)
  PROVE  /\ \A word \in WordsOf(Apply(live, event, t)) : word \in WordsOf(live) \/ word.turn = t
         /\ event.kind # "reply.reset" =>
               /\ Len(live.reply) <= Len(Apply(live, event, t).reply)
               /\ WordsOf(live) \subseteq WordsOf(Apply(live, event, t))
               /\ \A other \in Cards :
                     WordsOf(other) \subseteq WordsOf(live) =>
                        WordsOf(Apply(other, event, t)) \subseteq WordsOf(Apply(live, event, t))
<1>1. Len(live.reply) \in Nat
  BY DEF Cards
<1>2. CASE event.kind = "reply.delta"
  <2>1. \A one \in Cards :
           WordsOf(Apply(one, event, t)) = WordsOf(one) \cup {[turn |-> t, n |-> event.n]}
    BY <1>2, ApplyIs
  <2>2. Len(Apply(live, event, t).reply) = Len(live.reply) + 1
    BY <1>2, ApplyIs
  <2>3. Len(live.reply) <= Len(Apply(live, event, t).reply)
    BY <1>1, <2>2
  <2> QED
    BY <2>1, <2>3
<1>3. CASE event.kind = "reply.reset"
  BY <1>3, ApplyIs
<1>4. CASE event.kind \notin {"reply.delta", "reply.reset"}
  <2>1. \A one \in Cards : Apply(one, event, t).reply = one.reply
    BY <1>4, ApplyIs
  <2>2. \A one \in Cards : WordsOf(Apply(one, event, t)) = WordsOf(one)
    BY <2>1 DEF WordsOf
  <2> QED
    BY <1>1, <2>1, <2>2
<1> QED
  BY <1>2, <1>3, <1>4

(***************************************************************************)
(* A step of the send under way in which no turn says anything.            *)
(***************************************************************************)
LEMMA SilentWords ==
  ASSUME WordsInv, UNCHANGED <<told, post>>,
         window' # Nobody => window' \in 0..post,
         \A n \in Posts : ReadIs(polls'[n]),
         OnCard'
  PROVE  WordsInv'
<1>1. ASSUME NEW t \in Turns PROVE ToldIs(t)'
  <2>1. ToldIs(t)
    BY DEF WordsInv
  <2> QED
    BY <2>1 DEF ToldIs, NoReset, Snapshot
<1>2. ASSUME NEW n \in Posts PROVE ReadIs(polls[n])'
  BY DEF ReadIs, Snapshot
<1> QED
  BY <1>1, <1>2 DEF WordsInv

(***************************************************************************)
(* A turn tells an event: its snapshots get one more.                      *)
(***************************************************************************)
LEMMA TellsWords ==
  ASSUME CardInv, CardInv', WordsInv, NEW t \in Turns, NEW event, Sayable(event), Tells(t, event)
  PROVE  WordsInv'
<1>1. /\ told[t] \in Seq(Events) /\ Len(told[t]) \in Nat /\ told \in [Turns -> Seq(Events)]
      /\ told' \in [Turns -> Seq(Events)]
  BY DEF CardInv, LiveTypeOK
<1>2. PICK told1 : told1 = [kind |-> event.kind, n |-> event.n, live |-> Apply(Now(t), event, t)]
  OBVIOUS
<1>3. /\ told' = [told EXCEPT ![t] = Append(@, told1)]
      /\ UNCHANGED <<window, post, stage, heard, card, polls>>
  BY <1>2 DEF Tells, tab
<1>4. /\ Len(told'[t]) = Len(told[t]) + 1 /\ told'[t][Len(told[t]) + 1] = told1
      /\ \A k \in 1..Len(told[t]) : told'[t][k] = told[t][k]
      /\ \A other \in Turns : other # t => told'[other] = told[other]
  BY <1>1, <1>3
<1>5. \A other \in Turns : Len(told[other]) \in Nat /\ Len(told'[other]) \in Nat
  BY <1>1
<1>6. \A other \in Turns : Len(told[other]) <= Len(told'[other])
  BY <1>4, <1>5
<1>7. \A other \in Turns : \A k \in 1..Len(told[other]) : told'[other][k] = told[other][k]
  BY <1>4
<1>8. \A other \in Turns : \A k \in 0..Len(told[other]) : Snapshot(other, k)' = Snapshot(other, k)
  <2> SUFFICES ASSUME NEW other \in Turns, NEW k \in 0..Len(told[other]), k # 0
               PROVE  told'[other][k] = told[other][k]
    BY DEF Snapshot
  <2>1. k \in 1..Len(told[other])
    BY <1>5
  <2> QED
    BY <1>7, <2>1
<1>9. Now(t) \in Cards
  <2>1. Len(told[t]) \in 0..Len(told[t])
    BY <1>1
  <2> QED
    BY <2>1, SnapshotTyped DEF CardInv, Now
<1>10. ASSUME NEW k \in {Len(told[t]) + 1} PROVE Snapshot(t, k)' = Apply(Now(t), event, t)
  <2>1. k # 0 /\ told'[t][k] = told1
    BY <1>1, <1>4
  <2> QED
    BY <1>2, <2>1 DEF Snapshot
<1>11. ASSUME NEW other \in Turns, NEW k \in 0..Len(told[other])
       PROVE  /\ \A word \in WordsOf(Snapshot(other, k)') : word.turn = other
              /\ \A j \in 0..k : NoReset(other, j, k)' =>
                    Len(Snapshot(other, j)'.reply) <= Len(Snapshot(other, k)'.reply)
  <2>1. ToldIs(other)
    BY DEF WordsInv
  <2>2. ASSUME NEW j \in 0..k, NoReset(other, j, k)' PROVE NoReset(other, j, k)
    <3> SUFFICES ASSUME NEW i \in (j + 1)..k PROVE told[other][i].kind # "reply.reset"
      BY DEF NoReset
    <3>1. i \in 1..Len(told[other])
      BY <1>5
    <3>2. told'[other][i].kind # "reply.reset"
      BY <2>2 DEF NoReset
    <3> QED
      BY <1>7, <3>1, <3>2
  <2>3. \A j \in 0..k : j \in 0..Len(told[other])
    BY <1>5
  <2> QED
    BY <1>8, <2>1, <2>2, <2>3 DEF ToldIs
<1>12. ASSUME NEW k \in {Len(told[t]) + 1}
       PROVE  /\ \A word \in WordsOf(Snapshot(t, k)') : word.turn = t
              /\ \A j \in 0..k : NoReset(t, j, k)' =>
                    Len(Snapshot(t, j)'.reply) <= Len(Snapshot(t, k)'.reply)
  <2>1. Snapshot(t, k)' = Apply(Now(t), event, t) /\ ToldIs(t)
    BY <1>10 DEF WordsInv
  <2>2. PICK last \in 0..Len(told[t]) : last = Len(told[t])
    BY <1>1
  <2>3. /\ \A word \in WordsOf(Now(t)) : word.turn = t
        /\ \A j \in 0..last : NoReset(t, j, last) => Len(Snapshot(t, j).reply) <= Len(Now(t).reply)
    BY <2>1, <2>2 DEF ToldIs, Now
  <2>4. \A word \in WordsOf(Snapshot(t, k)') : word.turn = t
    BY <1>9, <2>1, <2>3, ApplyWords
  <2>5. ASSUME NEW j \in 0..k, NoReset(t, j, k)', j # k
        PROVE  Len(Snapshot(t, j)'.reply) <= Len(Snapshot(t, k)'.reply)
    <3>1. j \in 0..last /\ k \in (j + 1)..k /\ last \in Nat /\ k = last + 1
      BY <1>1, <2>2, <2>5
    <3>2. told'[t][k].kind # "reply.reset" /\ told'[t][k] = told1
      BY <1>4, <2>5, <3>1 DEF NoReset
    <3>3. event.kind # "reply.reset"
      BY <1>2, <3>2
    <3>4. NoReset(t, j, last)
      <4> SUFFICES ASSUME NEW i \in (j + 1)..last PROVE told[t][i].kind # "reply.reset"
        BY DEF NoReset
      <4>1. i \in (j + 1)..k /\ i \in 1..Len(told[t])
        BY <2>2, <3>1
      <4> QED
        BY <1>7, <2>5, <4>1 DEF NoReset
    <3>5. Len(Snapshot(t, j).reply) <= Len(Now(t).reply)
      BY <2>3, <3>1, <3>4
    <3>6. Len(Now(t).reply) <= Len(Apply(Now(t), event, t).reply)
      BY <1>9, <3>3, ApplyWords
    <3>7. Snapshot(t, j) \in Cards /\ Apply(Now(t), event, t) \in Cards
      BY <1>9, <2>2, <3>1, ApplyTyped, SnapshotTyped DEF CardInv
    <3>8. /\ Len(Snapshot(t, j).reply) \in Nat /\ Len(Now(t).reply) \in Nat
          /\ Len(Apply(Now(t), event, t).reply) \in Nat
      BY <1>9, <3>7 DEF Cards
    <3>9. Snapshot(t, j)' = Snapshot(t, j)
      BY <1>8, <2>2, <3>1
    <3> QED
      BY <2>1, <3>5, <3>6, <3>8, <3>9
  <2>6. Len(Snapshot(t, k)'.reply) <= Len(Snapshot(t, k)'.reply)
    <3>1. Apply(Now(t), event, t) \in Cards
      BY <1>9, ApplyTyped
    <3>2. Len(Apply(Now(t), event, t).reply) \in Nat
      BY <3>1 DEF Cards
    <3> QED
      BY <2>1, <3>2
  <2> QED
    BY <2>4, <2>5, <2>6
<1>13. ASSUME NEW other \in Turns PROVE ToldIs(other)'
  <2>1. ASSUME NEW k \in 0..Len(told'[other])
        PROVE  k \in 0..Len(told[other]) \/ (other = t /\ k \in {Len(told[t]) + 1})
    BY <1>4, <1>5
  <2> QED
    BY <1>11, <1>12, <2>1 DEF ToldIs
<1>14. post \in Turns
  BY DEF CardInv, LiveTypeOK, Turns
<1>15. ASSUME NEW n \in Posts PROVE ReadIs(polls[n])'
  <2>1. ReadIs(polls[n])
    BY DEF WordsInv
  <2>2. PICK p \in Turns : p = post /\ p = post'
    BY <1>3, <1>14
  <2>3. \A j \in 0..Len(told[p]) : j \in 0..Len(told'[p]) /\ Snapshot(p, j)' = Snapshot(p, j)
    BY <1>5, <1>6, <1>8
  <2>4. \A j : Snapshot(post, j)' = Snapshot(p, j)'
    BY <2>2 DEF Snapshot
  <2>5. polls' = polls
    BY <1>3
  <2> QED
    BY <2>1, <2>2, <2>3, <2>4, <2>5 DEF ReadIs
<1>16. OnCard'
  <2> SUFFICES ASSUME stage' = "reading", ~TakenBack(heard)',
                      \A word \in WordsOf(card') : word.turn = post'
               PROVE  \E k \in heard'..Len(told'[post]) :
                         WordsOf(Snapshot(post, k)') \subseteq WordsOf(card')
    BY <1>3 DEF OnCard, Snapshot
  <2>1. heard <= Len(told[post]) /\ heard \in Nat
    BY <1>3 DEF CardInv, LiveTypeOK, Hearing
  <2>2. ~TakenBack(heard)
    <3> SUFFICES ASSUME NEW i \in 1..heard PROVE told[post][i].kind # "reply.reset"
      BY DEF TakenBack
    <3>1. i \in 1..Len(told[post])
      BY <1>5, <1>14, <2>1
    <3>2. told'[post][i].kind # "reply.reset"
      BY <1>3 DEF TakenBack
    <3> QED
      BY <1>7, <1>14, <3>1, <3>2
  <2>3. PICK k \in heard..Len(told[post]) : WordsOf(Snapshot(post, k)) \subseteq WordsOf(card)
    BY <1>3, <2>2 DEF WordsInv, OnCard
  <2>4. k \in heard..Len(told'[post]) /\ k \in 0..Len(told[post])
    BY <1>5, <1>6, <1>14, <2>1, <2>3
  <2>5. Snapshot(post, k)' = Snapshot(post, k)
    <3>1. PICK p \in Turns : p = post /\ p = post'
      BY <1>3, <1>14
    <3>2. Snapshot(p, k)' = Snapshot(p, k)
      BY <1>8, <2>4, <3>1
    <3> QED
      BY <3>1, <3>2 DEF Snapshot
  <2> QED
    BY <1>3, <2>3, <2>4, <2>5
<1> QED
  BY <1>3, <1>13, <1>15, <1>16 DEF WordsInv

(***************************************************************************)
(* The end of a send changes nothing of the answer that is on its way.     *)
(***************************************************************************)
LEMMA EndsReads ==
  ASSUME CardInv, WordsInv, Ends
  PROVE  \A n \in Posts : ReadIs(polls'[n])
<1>1. polls \in [Posts -> Watchers]
  BY DEF CardInv, LiveTypeOK, Watchers
<1> SUFFICES ASSUME NEW n \in Posts PROVE ReadIs(polls'[n])
  OBVIOUS
<1>2. /\ ReadIs(polls[n]) /\ ReadIs(Watcher("off"))
      /\ ReadIs([polls[n] EXCEPT !.stopped = TRUE])
  <2>1. ReadIs(polls[n])
    BY DEF WordsInv
  <2>2. ReadIs(Watcher("off"))
    BY DEF ReadIs, Watcher
  <2>3. PICK poll \in Watchers : poll = polls[n]
    BY <1>1
  <2>4. /\ [poll EXCEPT !.stopped = TRUE].at = poll.at
        /\ [poll EXCEPT !.stopped = TRUE].turn = poll.turn
        /\ [poll EXCEPT !.stopped = TRUE].read = poll.read
    BY DEF Watchers
  <2> QED
    BY <2>1, <2>2, <2>3, <2>4 DEF ReadIs
<1>3. polls'[n] \in {polls[n], Watcher("off"), [polls[n] EXCEPT !.stopped = TRUE]}
  BY <1>1 DEF Ends
<1> QED
  BY <1>2, <1>3

(***************************************************************************)
(* The next event of the stream does to the card what it did to the        *)
(* snapshot.                                                               *)
(***************************************************************************)
LEMMA HearsWords ==
  ASSUME CardInv, CardInv', WordsInv, Hears
  PROVE  WordsInv'
<1> DEFINE event == told[post][heard + 1]
<1>1. /\ post \in Posts /\ post \in Turns /\ heard \in Nat /\ card \in Cards
      /\ told \in [Turns -> Seq(Events)]
      /\ stage = "reading" /\ heard < Len(told[post]) /\ Len(told[post]) \in Nat
  BY LiveBounds DEF CardInv, LiveTypeOK, Hearing, Hears, Posts, Turns
<1>2. heard + 1 \in 1..Len(told[post]) /\ heard \in 0..Len(told[post])
  BY <1>1
<1>3. UNCHANGED stream /\ post' = post
  BY DEF Hears, Ends
<1>4. ASSUME \A n \in Posts : ReadIs(polls'[n]), OnCard' PROVE WordsInv'
  BY <1>3, <1>4, SilentWords DEF stream, WordsInv
<1>5. CASE Ends
  <2>1. OnCard'
    BY <1>5 DEF Ends, OnCard
  <2> QED
    BY <1>4, <1>5, <2>1, EndsReads
<1>6. CASE stage' = "loading" /\ UNCHANGED polls
  BY <1>4, <1>6 DEF OnCard, WordsInv
<1>7. CASE /\ card' = Apply(card, event, post) /\ heard' = heard + 1
           /\ UNCHANGED <<post, stage, polls>>
  <2>1. Sayable(event) /\ event.live = Apply(Snapshot(post, heard), event, post)
    <3>1. Kept(post)
      BY <1>1 DEF CardInv
    <3>2. /\ Sayable(event)
          /\ event.live = Apply(Snapshot(post, (heard + 1) - 1), event, post)
      BY <1>2, <3>1 DEF Kept
    <3>3. (heard + 1) - 1 = heard
      BY <1>1
    <3> QED
      BY <3>2, <3>3
  <2>2. Snapshot(post, heard + 1) = event.live
    BY <1>1 DEF Snapshot
  <2>3. Snapshot(post, heard) \in Cards
    BY <1>1, <1>2, SnapshotTyped DEF CardInv
  <2> HIDE DEF event
  <2>4. ASSUME ~TakenBack(heard + 1), \A word \in WordsOf(card') : word.turn = post
        PROVE  \E k \in (heard + 1)..Len(told[post]) : WordsOf(Snapshot(post, k)) \subseteq WordsOf(card')
    <3>1. ~TakenBack(heard) /\ event.kind # "reply.reset"
      <4>1. heard + 1 \in 1..(heard + 1) /\ \A i \in 1..heard : i \in 1..(heard + 1)
        BY <1>1
      <4> QED
        BY <2>4, <4>1 DEF TakenBack, event
    <3>2. /\ WordsOf(card) \subseteq WordsOf(card')
          /\ \A other \in Cards : WordsOf(other) \subseteq WordsOf(card) =>
                WordsOf(Apply(other, event, post)) \subseteq WordsOf(card')
      BY <1>1, <1>7, <2>1, <3>1, ApplyWords
    <3>3. PICK k \in heard..Len(told[post]) : WordsOf(Snapshot(post, k)) \subseteq WordsOf(card)
      BY <1>1, <2>4, <3>1, <3>2 DEF WordsInv, OnCard
    <3>4. CASE k = heard
      <4>1. WordsOf(Snapshot(post, heard + 1)) \subseteq WordsOf(card')
        BY <2>1, <2>2, <2>3, <3>2, <3>3, <3>4
      <4>2. heard + 1 \in (heard + 1)..Len(told[post])
        BY <1>1
      <4> QED
        BY <4>1, <4>2
    <3>5. CASE k # heard
      <4>1. k \in (heard + 1)..Len(told[post])
        BY <1>1, <3>3, <3>5
      <4> QED
        BY <3>2, <3>3, <4>1
    <3> QED
      BY <3>4, <3>5
  <2>5. OnCard'
    <3>1. TakenBack(heard)' = TakenBack(heard + 1)
      BY <1>3, <1>7 DEF TakenBack, stream
    <3>2. \A k : Snapshot(post, k)' = Snapshot(post, k)
      BY <1>3 DEF Snapshot, stream
    <3> QED
      BY <1>3, <1>7, <2>4, <3>1, <3>2 DEF OnCard, stream
  <2> QED
    BY <1>4, <1>7, <2>5 DEF WordsInv
<1> QED
  BY <1>5, <1>6, <1>7 DEF Hears

(***************************************************************************)
(* A poll that lands brings words of the send's turn only when they are    *)
(* more than what was heard, so told later, or of a draft taken back.      *)
(***************************************************************************)
LEMMA AdoptWords ==
  ASSUME CardInv, WordsInv, NEW poll \in Watchers, ReadIs(poll), poll.at = "back",
         stage = "reading", ~TakenBack(heard),
         \A word \in WordsOf(Adopt(card, poll.read)) : word.turn = post
  PROVE  \E k \in heard..Len(told[post]) :
            WordsOf(Snapshot(post, k)) \subseteq WordsOf(Adopt(card, poll.read))
<1>1. /\ post \in Turns /\ heard \in Nat /\ card \in Cards /\ poll.read \in Cards
      /\ heard <= Len(told[post]) /\ Len(told[post]) \in Nat
      /\ Ahead(card, Snapshot(post, heard))
  BY LiveBounds DEF CardInv, LiveTypeOK, Hearing, Posts, Turns, Watchers
<1>2. heard \in 0..Len(told[post])
  BY <1>1
<1>3. Len(card.reply) \in Nat /\ Len(poll.read.reply) \in Nat
  BY <1>1 DEF Cards
<1>4. CASE Len(poll.read.reply) <= Len(card.reply)
  <2>1. Adopt(card, poll.read).reply = card.reply
    BY <1>3, <1>4 DEF Adopt
  <2>2. WordsOf(Adopt(card, poll.read)) = WordsOf(card)
    BY <2>1 DEF WordsOf
  <2> QED
    BY <2>2 DEF WordsInv, OnCard
<1>5. CASE Len(poll.read.reply) > Len(card.reply)
  <2>1. Adopt(card, poll.read).reply = poll.read.reply
    BY <1>5 DEF Adopt
  <2>2. WordsOf(Adopt(card, poll.read)) = WordsOf(poll.read)
    BY <2>1 DEF WordsOf
  <2>3. poll.turn = post
    <3>1. 1 \in 1..Len(poll.read.reply) /\ DOMAIN poll.read.reply = 1..Len(poll.read.reply)
      BY <1>1, <1>3, <1>5 DEF Cards
    <3>2. poll.read.reply[1] \in WordsOf(poll.read)
      BY <3>1 DEF WordsOf
    <3> QED
      BY <2>2, <3>2 DEF ReadIs
  <2>4. PICK j \in 0..Len(told[post]) : poll.read = Snapshot(post, j)
    BY <2>3 DEF ReadIs
  <2>5. ~(j < heard)
    <3> SUFFICES ASSUME j < heard PROVE FALSE
      OBVIOUS
    <3>1. NoReset(post, j, heard)
      <4> SUFFICES ASSUME NEW i \in (j + 1)..heard PROVE told[post][i].kind # "reply.reset"
        BY DEF NoReset
      <4>1. i \in 1..heard
        BY <1>1, <2>4
      <4> QED
        BY <4>1 DEF TakenBack
    <3>2. j \in 0..heard
      BY <1>1, <2>4
    <3>3. Len(Snapshot(post, j).reply) <= Len(Snapshot(post, heard).reply)
      BY <1>1, <1>2, <3>1, <3>2 DEF WordsInv, ToldIs
    <3>4. Snapshot(post, heard) \in Cards
      BY <1>1, <1>2, SnapshotTyped DEF CardInv
    <3>5. Len(Snapshot(post, heard).reply) \in Nat /\ Len(Snapshot(post, heard).reply) <= Len(card.reply)
      BY <1>1, <3>4 DEF Cards, Ahead
    <3> QED
      BY <1>3, <1>5, <2>4, <3>3, <3>5
  <2>6. j \in heard..Len(told[post])
    BY <1>1, <2>4, <2>5
  <2> QED
    BY <2>2, <2>4, <2>6
<1> QED
  BY <1>3, <1>4, <1>5

(***************************************************************************)
(* What the watcher does to its own state, and to the card when it lands.  *)
(***************************************************************************)
LEMMA PollWords ==
  ASSUME CardInv, WordsInv, NEW n \in Posts, PollRead(n) \/ PollLands(n) \/ PollLost(n)
  PROVE  WordsInv'
<1>1. /\ polls \in [Posts -> Watchers] /\ polls[n] \in Watchers
      /\ window \in Turns \cup {Nobody} /\ UNCHANGED <<stream, tab>>
      /\ \A other \in Posts : ReadIs(polls[other])
  BY DEF CardInv, LiveTypeOK, Watchers, PollRead, PollLands, PollLost, WordsInv
<1>2. ASSUME \A other \in Posts : ReadIs(polls'[other]), OnCard' PROVE WordsInv'
  BY <1>1, <1>2, SilentWords DEF stream, tab, WordsInv
<1>3. ASSUME card' = card PROVE OnCard'
  BY <1>1, <1>3 DEF WordsInv, OnCard, TakenBack, Snapshot, stream, tab
<1>4. ASSUME NEW to, Polled(n, to), to \in Watchers
      PROVE  \A other \in Posts : ReadIs(polls'[other])
  <2>1. ReadIs(Watcher("off")) /\ ReadIs([to EXCEPT !.at = "asleep"])
    <3>1. [to EXCEPT !.at = "asleep"].at # "back"
      BY <1>4 DEF Watchers
    <3> QED
      BY <3>1 DEF ReadIs, Watcher
  <2>2. \A other \in Posts : polls'[other] \in {polls[other], Watcher("off"), [to EXCEPT !.at = "asleep"]}
    BY <1>1, <1>4 DEF Polled
  <2> QED
    BY <1>1, <2>1, <2>2
<1>5. CASE PollRead(n)
  <2>1. window \in Turns /\ window \in 0..post
    BY <1>1, <1>5 DEF PollRead, WordsInv
  <2>2. PICK t \in Turns : t = window
    BY <2>1
  <2>3. PICK to : to = [polls[n] EXCEPT !.at = "back", !.turn = t, !.read = Now(t)]
    OBVIOUS
  <2>4. to.turn = t /\ to.read = Now(t)
    <3>1. PICK poll \in Watchers : poll = polls[n]
      BY <1>1
    <3> QED
      BY <2>3, <3>1 DEF Watchers
  <2>5. PICK last \in 0..Len(told[t]) : last = Len(told[t])
    BY <2>2 DEF CardInv, LiveTypeOK
  <2>6. \A word \in WordsOf(Now(t)) : word.turn = t
    BY <2>5 DEF WordsInv, ToldIs, Now
  <2>7. ReadIs(to)
    BY <2>1, <2>2, <2>4, <2>5, <2>6 DEF ReadIs, Now
  <2>8. \A other \in Posts : polls'[other] \in {polls[other], to}
    BY <1>1, <1>5, <2>2, <2>3 DEF PollRead
  <2>9. card' = card
    BY <1>5 DEF PollRead
  <2> QED
    BY <1>1, <1>2, <1>3, <2>7, <2>8, <2>9
<1>6. CASE PollLands(n)
  <2> DEFINE poll == polls[n]
             followed == IF poll.followed = Nobody THEN poll.turn ELSE poll.followed
             to == [poll EXCEPT !.followed = followed, !.turn = Nobody, !.read = Blank]
  <2>1. followed \in Turns \cup {Nobody} /\ poll.read \in Cards
    BY <1>1 DEF Watchers
  <2>2. to \in Watchers
    BY <1>1, <2>1, Blanks DEF Watchers
  <2>3. Polled(n, to) /\ poll.at = "back"
    BY <1>6 DEF PollLands
  <2>4. card' \in {card, Adopt(card, poll.read)}
    BY <1>6 DEF PollLands
  <2> HIDE DEF to
  <2>5. \A other \in Posts : ReadIs(polls'[other])
    BY <1>4, <2>2, <2>3
  <2>6. CASE card' = Adopt(card, poll.read)
    <3>1. PICK one \in Watchers : one = poll
      BY <1>1
    <3>2. ReadIs(one) /\ one.at = "back" /\ card' = Adopt(card, one.read)
      BY <1>1, <2>3, <2>6, <3>1
    <3>3. OnCard'
      BY <1>1, <3>2, AdoptWords DEF OnCard, TakenBack, Snapshot, stream, tab
    <3> QED
      BY <1>2, <2>5, <3>3
  <2> QED
    BY <1>2, <1>3, <2>4, <2>5, <2>6
<1>7. CASE PollLost(n)
  <2>1. [polls[n] EXCEPT !.turn = Nobody, !.read = Blank] \in Watchers
    BY <1>1, Blanks DEF Watchers
  <2>2. card' = card /\ Polled(n, [polls[n] EXCEPT !.turn = Nobody, !.read = Blank])
    BY <1>7 DEF PollLost
  <2> QED
    BY <1>2, <1>3, <1>4, <2>1, <2>2
<1> QED
  BY <1>5, <1>6, <1>7

(***************************************************************************)
(* A send clears what the last turn said; an answer on its way is of an    *)
(* earlier turn now.                                                       *)
(***************************************************************************)
LEMMA LiveSendWords ==
  ASSUME CardInv, WordsInv, Post
  PROVE  WordsInv'
<1>1. /\ told \in [Turns -> Seq(Events)] /\ post \in Nat /\ post \in Turns
      /\ polls \in [Posts -> Watchers] /\ post' = post + 1 /\ post' \in Nat
  <2>1. /\ told \in [Turns -> Seq(Events)] /\ post \in 0..MaxPosts /\ MaxPosts \in Nat
        /\ polls \in [Posts -> Watchers] /\ post' = post + 1
    BY LiveBounds DEF CardInv, LiveTypeOK, Watchers, Post
  <2> QED
    BY <2>1 DEF Turns
<1>2. told' = [told EXCEPT ![post] = <<>>] /\ window' = window
  BY DEF Post
<1>3. ASSUME NEW t \in Turns PROVE ToldIs(t)'
  <2>1. CASE t = post
    <3>1. told'[t] = <<>>
      BY <1>1, <1>2, <2>1
    <3>2. Len(told'[t]) = 0
      BY <3>1
    <3>3. WordsOf(Snapshot(t, 0)') = {} /\ Len(Snapshot(t, 0)'.reply) <= Len(Snapshot(t, 0)'.reply)
      <4>1. Snapshot(t, 0)' = Blank /\ Blank.reply = <<>> /\ Len(<<>>) = 0
        BY DEF Snapshot, Blank
      <4> QED
        BY <4>1 DEF WordsOf
    <3>4. \A k \in 0..Len(told'[t]) : k = 0 /\ \A j \in 0..k : j = 0
      BY <3>2
    <3> QED
      BY <3>3, <3>4 DEF ToldIs
  <2>2. CASE t # post
    <3>1. told'[t] = told[t] /\ ToldIs(t)
      BY <1>1, <1>2, <2>2 DEF WordsInv
    <3> QED
      BY <3>1 DEF ToldIs, NoReset, Snapshot
  <2> QED
    BY <2>1, <2>2
<1>4. \A m \in 0..post : m \in 0..post' /\ m # post'
  BY <1>1
<1>5. ASSUME NEW n \in Posts PROVE ReadIs(polls[n])'
  <2>1. ReadIs(polls[n]) /\ Watcher("asleep").at # "back"
    BY DEF WordsInv, Watcher
  <2>2. polls'[n] \in {polls[n], Watcher("asleep")}
    BY <1>1 DEF Post
  <2> QED
    BY <1>4, <2>1, <2>2 DEF ReadIs
<1>6. OnCard'
  BY DEF OnCard, Post
<1> QED
  BY <1>2, <1>3, <1>4, <1>5, <1>6 DEF WordsInv

(***************************************************************************)
(* Every step keeps the words.                                             *)
(***************************************************************************)
LEMMA WordsStep == CardInv /\ WordsInv /\ [LiveNext]_liveVars => WordsInv'
<1> SUFFICES ASSUME CardInv, WordsInv, [LiveNext]_liveVars PROVE WordsInv'
  OBVIOUS
<1>0. CardInv' /\ \A n \in Posts : ReadIs(polls[n])
  BY CardStep DEF WordsInv
<1>1. ASSUME Ends, UNCHANGED <<told, window>> PROVE WordsInv'
  <2>1. OnCard' /\ post' = post
    BY <1>1 DEF Ends, OnCard
  <2> QED
    BY <1>1, <2>1, EndsReads, SilentWords DEF WordsInv
<1>2. CASE PostFails \/ LiveBreaks \/ Loaded
  BY <1>1, <1>2 DEF PostFails, LiveBreaks, Loaded, stream
<1>3. CASE LivePostTaken
  <2>1. /\ post \in Nat /\ heard = 0 /\ post' = post /\ window' = post
        /\ UNCHANGED <<told, post, heard, card, polls>>
    BY <1>3 DEF CardInv, LiveTypeOK, Hearing, LivePostTaken, Begins
  <2>2. post \in Turns
    BY LiveBounds DEF CardInv, LiveTypeOK, Turns
  <2>3. 0 \in heard..Len(told[post])
    <3>1. Len(told[post]) \in Nat
      BY <2>2 DEF CardInv, LiveTypeOK
    <3> QED
      BY <2>1, <3>1
  <2>4. WordsOf(Snapshot(post, 0)) = {}
    BY DEF Snapshot, Blank, WordsOf
  <2>5. OnCard'
    <3>1. 0 \in heard'..Len(told'[post]) /\ WordsOf(Snapshot(post, 0)') = {}
      BY <2>1, <2>3, <2>4 DEF Snapshot
    <3> QED
      BY <2>1, <3>1 DEF OnCard
  <2>6. window' \in 0..post
    BY <2>1
  <2> QED
    BY <1>0, <2>1, <2>5, <2>6, SilentWords
<1>4. CASE LiveStop
  <2>1. /\ UNCHANGED <<told, window, post>> /\ stage' = "loading"
        /\ polls' = [polls EXCEPT ![post] = Watcher("off")]
    BY <1>4 DEF LiveStop
  <2>2. OnCard'
    BY <2>1 DEF OnCard
  <2>3. \A n \in Posts : polls'[n] \in {polls[n], Watcher("off")}
    BY <2>1 DEF CardInv, LiveTypeOK
  <2>4. ReadIs(Watcher("off"))
    BY DEF ReadIs, Watcher
  <2>5. \A n \in Posts : ReadIs(polls'[n])
    BY <1>0, <2>3, <2>4
  <2> QED
    BY <2>1, <2>2, <2>5, SilentWords DEF WordsInv
<1>5. CASE OtherTurn
  <2>1. UNCHANGED <<told, post, stage, heard, card, polls>> /\ window' = 0
    BY <1>5 DEF OtherTurn, Begins, tab
  <2>2. 0 \in 0..post
    BY DEF CardInv, LiveTypeOK
  <2>3. OnCard'
    BY <2>1 DEF WordsInv, OnCard, TakenBack, Snapshot
  <2> QED
    BY <1>0, <2>1, <2>2, <2>3, SilentWords
<1>6. CASE UNCHANGED liveVars
  <2>1. OnCard'
    BY <1>6 DEF WordsInv, OnCard, TakenBack, Snapshot, liveVars
  <2> QED
    BY <1>0, <1>6, <2>1, SilentWords DEF liveVars, WordsInv
<1>7. ASSUME NEW t \in Posts, TurnMoves(t) PROVE WordsInv'
  <2>1. t \in Turns /\ MaxWords \in Nat
    BY LiveBounds DEF Posts, Turns
  <2>2. CASE Said(t) < MaxWords /\ Tells(t, Event("reply.delta", Said(t) + 1))
    <3>1. Said(t) + 1 \in 1..MaxWords
      BY <2>1, <2>2, SaidCounts DEF CardInv
    <3>2. Sayable(Event("reply.delta", Said(t) + 1))
      BY <3>1 DEF Sayable, Event, Kinds
    <3> QED
      BY <1>0, <2>1, <2>2, <3>2, TellsWords
  <2>3. ASSUME NEW kind \in {"reply.reset", "running", "done"}, Tells(t, Event(kind, 0))
        PROVE  WordsInv'
    <3>1. Sayable(Event(kind, 0))
      BY DEF Sayable, Event, Kinds
    <3> QED
      BY <1>0, <2>1, <2>3, <3>1, TellsWords
  <2> QED
    BY <1>7, <2>2, <2>3 DEF TurnMoves
<1>8. ASSUME NEW t \in Turns, LiveTurnEnds(t) PROVE WordsInv'
  <2>1. ASSUME NEW kind \in {"turn.completed", "turn.failed"}, Tells(t, Event(kind, 0))
        PROVE  WordsInv'
    <3>1. Sayable(Event(kind, 0))
      BY DEF Sayable, Event, Kinds
    <3> QED
      BY <1>0, <2>1, <3>1, TellsWords
  <2>2. CASE UNCHANGED <<told, window, tab, card, polls>>
    <3>1. OnCard'
      BY <2>2 DEF WordsInv, OnCard, TakenBack, Snapshot, tab
    <3> QED
      BY <1>0, <2>2, <3>1, SilentWords DEF tab, WordsInv
  <2> QED
    BY <1>8, <2>1, <2>2 DEF LiveTurnEnds
<1> QED
  BY <1>0, <1>2, <1>3, <1>4, <1>5, <1>6, <1>7, <1>8, HearsWords, PollWords, LiveSendWords DEF LiveNext

(***************************************************************************)
(* Before the first send there are no words.                               *)
(***************************************************************************)
LEMMA WordsInit == LiveInit => WordsInv
<1> SUFFICES ASSUME LiveInit PROVE WordsInv
  OBVIOUS
<1>1. ASSUME NEW t \in Turns PROVE ToldIs(t)
  <2>1. Len(told[t]) = 0
    BY DEF LiveInit
  <2>2. Snapshot(t, 0) = Blank /\ Blank.reply = <<>> /\ Len(<<>>) = 0
    BY DEF Snapshot, Blank
  <2>3. WordsOf(Snapshot(t, 0)) = {} /\ Len(Snapshot(t, 0).reply) <= Len(Snapshot(t, 0).reply)
    BY <2>2 DEF WordsOf
  <2>4. \A k \in 0..Len(told[t]) : k = 0 /\ \A j \in 0..k : j = 0
    BY <2>1
  <2> QED
    BY <2>3, <2>4 DEF ToldIs
<1>2. ASSUME NEW n \in Posts PROVE ReadIs(polls[n])
  BY DEF LiveInit, ReadIs, Watcher
<1>3. OnCard
  BY DEF LiveInit, OnCard
<1> QED
  BY <1>1, <1>2, <1>3 DEF WordsInv, LiveInit

(***************************************************************************)
(* However stream and polls race, what the stream has said stays on the    *)
(* card: the step, and the words of a draft that the page has not heard    *)
(* taken back.                                                             *)
(***************************************************************************)
THEOREM HeardIsNotTakenBack == LiveSpec => []HeardStaysOnTheCard
<1>1. CardInv /\ WordsInv => HeardStaysOnTheCard
  BY DEF CardInv, Hearing, Ahead, WordsInv, OnCard, HeardStaysOnTheCard
<1>2. LiveInit => CardInv /\ WordsInv
  BY CardInit, WordsInit
<1>3. CardInv /\ WordsInv /\ [LiveNext]_liveVars => CardInv' /\ WordsInv'
  BY CardStep, WordsStep
<1> QED
  BY <1>1, <1>2, <1>3, PTL DEF LiveSpec

(***************************************************************************)
(* Every state of a live turn is of its types.                             *)
(***************************************************************************)
THEOREM LiveTurnTyped == LiveSpec => []LiveTypeOK
<1>1. CardInv => LiveTypeOK
  BY DEF CardInv
<1> QED
  BY <1>1, CardInit, CardStep, PTL DEF LiveSpec
===============================================================================
