----------------------------- MODULE TurnProofs -----------------------------
(***************************************************************************)
(* Proofs about Turn for every number of turns, chats, passes and tools.   *)
(* The inductive invariant IInv adds to the stated properties what a turn  *)
(* that still runs has written, and on whose behalf it runs.               *)
(***************************************************************************)
EXTENDS Turn, FiniteSetTheorems, SequenceTheorems, TLAPS

Active == {"model", "tools", "narrating"}

\* A pass of the model is one of the first Rounds, only the narration is beyond them,
\* and only a search waits for desks.
AwaitFits ==
    \A t \in Turns :
        /\ pc[t] \in {"model", "tools"} => round[t] \in 1..Rounds
        /\ pc[t] = "desks" => request[t] = "search"

\* A turn that has not replied has left nothing behind, and nothing has been said of its
\* end; before it starts it has not even a screen or a place in the window.
NothingBeforeTheReply ==
    \A t \in Turns :
        /\ pc[t] \in Active \cup {"idle"} =>
              /\ reply[t] = NoReply /\ outcome[t] = "none"
              /\ t \notin kept /\ \A c \in Chats : t \notin toolRuns[c]
        /\ pc[t] = "idle" => screen[t] = {} /\ stamp[t] = 0 /\ t \notin live

\* Messages of a chat belong to its turns, and an answer to one that has replied.
AnswersAreReplies ==
    \A c \in Chats : \A i \in DOMAIN transcript[c] :
        transcript[c][i].role = "assistant" =>
            reply[transcript[c][i].turn] # NoReply

\* The screen of a watched turn holds the draft of its current pass and nothing else,
\* and no draft while tools run.
DraftIsOfThisPass ==
    \A t \in Turns :
        watched[t] /\ ~stopped[t] =>
            /\ pc[t] \in {"model", "narrating"} => \A p \in screen[t] : p.pass = round[t]
            /\ pc[t] = "tools" => screen[t] = {}

\* A started turn runs in a chat of its traveler, or of the account that absorbed it, or
\* in one that was removed.
Moved(t) ==
    \/ owner[chat[t]] = "removed"
    \/ owner[chat[t]] = "account" /\ by[t] = "guest"

OwnersOnlyMove ==
    \A t \in Turns :
        /\ pc[t] # "idle" => owner[chat[t]] # "none"
        /\ pc[t] \in Active \cup {"desks"} => owner[chat[t]] = by[t] \/ Moved(t)
        /\ outcome[t] \in {"failed", "ended"} /\ reply[t] # NoReply => Moved(t)

\* Results include the tools that ran, and what ran fits the ceiling.
RunsAreResults == \A t \in Turns : ran[t] <= results[t]

\* Turns enter the window one after the other.
Entered == {s \in Turns : stamp[s] > 0}
StampsAreInOrder == \A t \in Turns : stamp[t] <= Cardinality(Entered)

IInv ==
    /\ TypeOK
    /\ AwaitFits
    /\ NothingBeforeTheReply
    /\ AnswersAreReplies
    /\ DraftIsOfThisPass
    /\ OwnersOnlyMove
    /\ RunsAreResults
    /\ ToolBudget
    /\ NothingOutlivesItsChat
    /\ ScreenIsTheReply
    /\ EffectsComeWithAReply
    /\ StampsAreInOrder
    /\ RunningTurnIsVisible

\* The first turn starts in the invariant.
LEMMA InitIInv == Init => IInv
<1> SUFFICES ASSUME Init PROVE IInv
  OBVIOUS
<1> USE TurnAssumption DEF Init
<1>1. TypeOK
  <2>1. <<>> \in Seq(Messages)
    BY EmptySeq
  <2>2. NoReply \in Passes \cup {NoReply} /\ 0 \in 0..(Rounds + 1)
    OBVIOUS
  <2> QED
    BY <2>1, <2>2 DEF TypeOK, Users, Requests, Kinds
<1>2. AwaitFits /\ NothingBeforeTheReply /\ DraftIsOfThisPass /\ OwnersOnlyMove
  BY DEF AwaitFits, NothingBeforeTheReply, DraftIsOfThisPass, OwnersOnlyMove, Active
<1>3. AnswersAreReplies /\ NothingOutlivesItsChat
  BY DEF AnswersAreReplies, NothingOutlivesItsChat
<1>4. RunsAreResults /\ ToolBudget
  BY DEF RunsAreResults, ToolBudget
<1>5. ScreenIsTheReply /\ EffectsComeWithAReply
  BY DEF ScreenIsTheReply, EffectsComeWithAReply
<1>6. StampsAreInOrder /\ RunningTurnIsVisible
  <2>1. Entered = {}
    BY DEF Entered
  <2>2. Cardinality(Entered) = 0
    BY <2>1, FS_EmptySet
  <2> QED
    BY <2>2 DEF StampsAreInOrder, RunningTurnIsVisible
<1> QED
  BY <1>1, <1>2, <1>3, <1>4, <1>5, <1>6 DEF IInv

\* The window is as it was, and turns that were over still are.
LEMMA WindowKept ==
  ASSUME StampsAreInOrder, RunningTurnIsVisible, UNCHANGED <<stamp, live, chat>>,
         \A t \in Turns : Finished(t) => Finished(t)'
  PROVE  StampsAreInOrder' /\ RunningTurnIsVisible'
<1>1. StampsAreInOrder'
  BY DEF StampsAreInOrder, Entered
<1>2. RunningTurnIsVisible'
  BY DEF RunningTurnIsVisible
<1> QED
  BY <1>1, <1>2

\* A message more in a chat.
LEMMA Appended ==
  ASSUME TypeOK, NEW c \in Chats, NEW message \in Messages
  PROVE  /\ Append(transcript[c], message) \in Seq(Messages)
         /\ \A i \in DOMAIN Append(transcript[c], message) :
               \/ Append(transcript[c], message)[i] = message
               \/ /\ i \in DOMAIN transcript[c]
                  /\ Append(transcript[c], message)[i] = transcript[c][i]
<1>1. transcript[c] \in Seq(Messages)
  BY DEF TypeOK
<1> QED
  BY <1>1, AppendProperties

(***************************************************************************)
(* The turn replies: the pass in progress is answered in the model's words *)
(* or in the desk's.                                                       *)
(***************************************************************************)
LEMMA RepliesKeepIInv ==
  ASSUME IInv, NEW t \in Turns, pc[t] \in {"model", "narrating"},
         NEW source \in {Desk, round[t]}, NEW draft \in SUBSET screen[t],
         \A p \in draft : p.what = "word" /\ p.pass = round[t] => source = round[t],
         Replies(t, source, draft)
  PROVE  IInv'
<1> USE TurnAssumption
<1>a. TypeOK
  BY DEF IInv
<1>b. /\ owner' = owner /\ chat' = chat /\ by' = by /\ watched' = watched
      /\ request' = request /\ engine' = engine /\ round' = round /\ ran' = ran
      /\ results' = results /\ found' = found /\ stopped' = stopped
      /\ live' = live /\ stamp' = stamp
      /\ pc' = [pc EXCEPT ![t] = "done"]
      /\ screen' = [screen EXCEPT
                    ![t] = IF ~watched[t] \/ stopped[t] \/ \E p \in draft : p.pass = round[t]
                           THEN draft
                           ELSE draft \cup {[pass |-> source, what |-> "word"]}]
      /\ kept' \in {kept, kept \cup {t}}
      /\ toolRuns' \in {toolRuns, [toolRuns EXCEPT ![chat[t]] = @ \cup {t}]}
  BY DEF Replies, asked, window
<1>c. SaveReply(t, source)
  BY DEF Replies
<1>d. chat[t] \in Chats /\ source \in Passes /\ source # NoReply /\ reply[t] = NoReply
  BY <1>a DEF TypeOK, Passes, Desk, NoReply, IInv, NothingBeforeTheReply, Active
<1>e. owner[chat[t]] = by[t] \/ Moved(t)
  BY DEF IInv, OwnersOnlyMove, Active
<1>f. /\ kept' \subseteq Turns /\ toolRuns' \in [Chats -> SUBSET Turns]
      /\ \A s \in Turns \ {t} :
            /\ s \in kept' => s \in kept
            /\ \A c \in Chats : s \in toolRuns'[c] => s \in toolRuns[c]
  <2>1. kept' \subseteq Turns /\ \A s \in Turns \ {t} : s \in kept' => s \in kept
    BY <1>a, <1>b DEF TypeOK
  <2>2. CASE toolRuns' = toolRuns
    BY <1>a, <2>1, <2>2 DEF TypeOK
  <2>3. CASE toolRuns' = [toolRuns EXCEPT ![chat[t]] = @ \cup {t}]
    BY <1>a, <1>d, <2>1, <2>3 DEF TypeOK
  <2> QED
    BY <1>b, <2>2, <2>3
<1>1. /\ transcript' \in [Chats -> Seq(Messages)]
      /\ reply' \in {reply, [reply EXCEPT ![t] = source]}
      /\ outcome' \in [Turns -> {"none", "completed", "failed", "ended"}]
      /\ AnswersAreReplies' /\ NothingOutlivesItsChat'
      /\ \A s \in Turns \ {t} : outcome'[s] = outcome[s]
      /\ ~HasRow(chat[t]) => reply' = reply /\ outcome'[t] \in {"failed", "ended"}
      /\ HasRow(chat[t]) => /\ reply'[t] = source
                            /\ outcome'[t] = AsFound(t)
  <2>1. CASE HasRow(chat[t])
    <3>1. /\ transcript' = [transcript EXCEPT ![chat[t]] = Append(@, Answer(t))]
          /\ reply' = [reply EXCEPT ![t] = source]
          /\ outcome' = [outcome EXCEPT ![t] = AsFound(t)]
      BY <1>c, <2>1 DEF SaveReply
    <3>2. Answer(t) \in Messages /\ Answer(t).turn = t
      BY DEF Answer, Messages
    <3>3. transcript' \in [Chats -> Seq(Messages)]
      BY <1>a, <1>d, <3>1, <3>2, Appended DEF TypeOK
    <3>4. AnswersAreReplies'
      <4> SUFFICES ASSUME NEW c \in Chats, NEW i \in DOMAIN transcript'[c],
                          transcript'[c][i].role = "assistant"
                   PROVE  reply'[transcript'[c][i].turn] # NoReply
        BY DEF AnswersAreReplies
      <4>1. \/ transcript'[c][i] = Answer(t)
            \/ i \in DOMAIN transcript[c] /\ transcript'[c][i] = transcript[c][i]
        BY <1>a, <1>d, <3>1, <3>2, Appended DEF TypeOK
      <4>2. CASE transcript'[c][i] = Answer(t)
        BY <1>a, <1>d, <3>1, <3>2, <4>2 DEF TypeOK
      <4>3. CASE i \in DOMAIN transcript[c] /\ transcript'[c][i] = transcript[c][i]
        BY <1>a, <1>d, <3>1, <4>3 DEF TypeOK, IInv, AnswersAreReplies
      <4> QED
        BY <4>1, <4>2, <4>3
    <3>5. NothingOutlivesItsChat'
      BY <1>a, <1>b, <2>1, <3>1 DEF IInv, TypeOK, NothingOutlivesItsChat, HasRow, Users
    <3>6. AsFound(t) \in {"completed", "failed", "ended"}
      BY DEF AsFound, Thrown
    <3> QED
      BY <1>a, <2>1, <3>1, <3>3, <3>4, <3>5, <3>6 DEF TypeOK
  <2>2. CASE ~HasRow(chat[t])
    <3>1. /\ outcome' = [outcome EXCEPT ![t] = Thrown(t)]
          /\ transcript' = transcript /\ reply' = reply
      BY <1>c, <2>2 DEF SaveReply
    <3>2. Thrown(t) \in {"failed", "ended"}
      BY DEF Thrown
    <3> QED
      BY <1>a, <1>b, <2>2, <3>1, <3>2
      DEF TypeOK, IInv, AnswersAreReplies, NothingOutlivesItsChat
  <2> QED
    BY <2>1, <2>2
<1>2. TypeOK'
  <2>1. draft \cup {[pass |-> source, what |-> "word"]} \in SUBSET Pieces
    BY <1>a, <1>d DEF TypeOK, Pieces
  <2>2. screen' \in [Turns -> SUBSET Pieces]
    BY <1>a, <1>b, <2>1 DEF TypeOK
  <2>3. reply' \in [Turns -> Passes \cup {NoReply}]
    <3>1. CASE reply' = reply
      BY <1>a, <3>1 DEF TypeOK
    <3>2. CASE reply' = [reply EXCEPT ![t] = source]
      BY <1>a, <1>d, <3>2 DEF TypeOK
    <3> QED
      BY <1>1, <3>1, <3>2
  <2> QED
    BY <1>a, <1>b, <1>f, <1>1, <2>2, <2>3 DEF TypeOK
<1>3. AwaitFits' /\ RunsAreResults' /\ ToolBudget' /\ DraftIsOfThisPass'
  BY <1>a, <1>b DEF IInv, TypeOK, AwaitFits, RunsAreResults, ToolBudget,
                    DraftIsOfThisPass
<1>4. NothingBeforeTheReply'
  BY <1>a, <1>b, <1>f, <1>1, <1>d DEF IInv, TypeOK, NothingBeforeTheReply, Active
<1>5. OwnersOnlyMove'
  BY <1>a, <1>b, <1>1, <1>d, <1>e
  DEF IInv, TypeOK, OwnersOnlyMove, Active, Moved, AsFound, Thrown
<1>6. ScreenIsTheReply'
  <2> SUFFICES ASSUME NEW s \in Turns, outcome'[s] = "completed", watched[s], ~stopped[s],
                      request[s] \in {"ask", "remember"}
               PROVE  /\ screen'[s] # {}
                      /\ \A p \in screen'[s] : p.what = "word" => p.pass = reply'[s]
    BY <1>b DEF ScreenIsTheReply
  <2>1. CASE s # t
    BY <1>a, <1>b, <1>1, <2>1 DEF IInv, TypeOK, ScreenIsTheReply
  <2>2. CASE s = t
    <3>1. reply'[t] = source
      BY <1>1, <2>2
    <3>2. \A p \in draft : p.pass = round[t]
      BY <2>2 DEF IInv, DraftIsOfThisPass
    <3>3. CASE draft = {}
      <4>1. screen'[t] = {[pass |-> source, what |-> "word"]}
        BY <1>a, <1>b, <2>2, <3>3 DEF TypeOK
      <4> QED
        BY <2>2, <3>1, <4>1
    <3>4. CASE draft # {}
      BY <1>a, <1>b, <2>2, <3>1, <3>2, <3>4 DEF TypeOK
    <3> QED
      BY <3>3, <3>4
  <2> QED
    BY <2>1, <2>2
<1>7. EffectsComeWithAReply'
  <2> SUFFICES ASSUME NEW s \in Turns, s \in kept' \/ s \in toolRuns'[chat[s]]
               PROVE  reply'[s] # NoReply \/ owner[chat[s]] = "removed"
    BY <1>b DEF EffectsComeWithAReply
  <2>1. CASE s # t
    BY <1>a, <1>b, <1>f, <1>1, <1>d, <2>1 DEF IInv, TypeOK, EffectsComeWithAReply
  <2>2. CASE s = t
    BY <1>a, <1>1, <1>d, <2>2 DEF IInv, TypeOK, OwnersOnlyMove, HasRow
  <2> QED
    BY <2>1, <2>2
<1>8. StampsAreInOrder' /\ RunningTurnIsVisible'
  BY <1>a, <1>b, WindowKept DEF IInv, TypeOK, Finished
<1> QED
  BY <1>1, <1>2, <1>3, <1>4, <1>5, <1>6, <1>7, <1>8 DEF IInv

(***************************************************************************)
(* A turn enters the window.                                               *)
(***************************************************************************)
LEMMA AttachKeepsWindow ==
  ASSUME IInv, NEW t \in Turns, pc[t] = "idle", Attach(t), chat' = chat,
         \A s \in Turns \ {t} : Finished(s) => Finished(s)'
  PROVE  /\ stamp' \in [Turns -> Nat] /\ live' \subseteq Turns
         /\ \A s \in Turns \ {t} : stamp'[s] = stamp[s] /\ (s \in live' => s \in live)
         /\ StampsAreInOrder' /\ RunningTurnIsVisible'
<1> USE TurnAssumption
<1> DEFINE Newer(s) == {r \in Turns : stamp[r] > stamp[s]}
           NewerNow(s) == {r \in Turns : stamp'[r] > stamp'[s]}
           others == {s \in live : chat[s] # chat[t]}
           Ahead(s) == {r \in others : stamp[r] > stamp[s]}
<1>1. /\ stamp \in [Turns -> Nat] /\ live \subseteq Turns
      /\ stamp[t] = 0 /\ t \notin live
      /\ \A s \in Turns : stamp[s] <= Cardinality(Entered)
  BY DEF IInv, TypeOK, NothingBeforeTheReply, StampsAreInOrder
<1>2. /\ stamp' = [stamp EXCEPT ![t] = Cardinality(Entered) + 1]
      /\ live' = {t} \cup {s \in others : Cardinality(Ahead(s)) < MaxLive - 1}
  BY DEF Attach, Entered
<1>3. \A S \in SUBSET Turns : IsFiniteSet(S) /\ Cardinality(S) \in Nat
  BY FS_Subset, FS_CardinalityType
<1>4. Entered \in SUBSET Turns /\ Cardinality(Entered) \in Nat
  BY <1>3 DEF Entered
<1>5. /\ stamp' \in [Turns -> Nat] /\ live' \subseteq Turns
      /\ stamp'[t] = Cardinality(Entered) + 1
      /\ \A s \in Turns \ {t} : stamp'[s] = stamp[s] /\ (s \in live' => s \in live)
  BY <1>1, <1>2, <1>4
<1>6. StampsAreInOrder'
  <2>1. Entered' = Entered \cup {t} /\ t \notin Entered
    BY <1>1, <1>4, <1>5 DEF Entered
  <2>2. Cardinality(Entered') = Cardinality(Entered) + 1
    BY <1>3, <1>4, <2>1, FS_AddElement
  <2>3. \A s \in Turns : stamp'[s] <= Cardinality(Entered) + 1
    BY <1>1, <1>4, <1>5
  <2> QED
    BY <2>2, <2>3 DEF StampsAreInOrder
<1>7. RunningTurnIsVisible'
  <2> SUFFICES ASSUME NEW s \in Turns, stamp'[s] > 0, ~Finished(s)'
               PROVE  \/ s \in live'
                      \/ \E r \in Turns : stamp'[r] > stamp'[s] /\ chat[r] = chat[s]
                      \/ Cardinality(NewerNow(s)) >= MaxLive
    BY DEF RunningTurnIsVisible
  <2>1. CASE s = t
    BY <1>2, <2>1
  <2>2. CASE s # t
    <3>1. stamp[s] > 0 /\ stamp'[s] = stamp[s] /\ stamp'[t] > stamp'[s] /\ ~Finished(s)
      BY <1>1, <1>4, <1>5, <2>2
    <3>2. \/ s \in live
          \/ \E r \in Turns : stamp[r] > stamp[s] /\ chat[r] = chat[s]
          \/ Cardinality(Newer(s)) >= MaxLive
      BY <3>1 DEF IInv, RunningTurnIsVisible
    <3>3. NewerNow(s) \in SUBSET Turns /\ \A S \in SUBSET NewerNow(s) :
            Cardinality(S) <= Cardinality(NewerNow(s))
      BY <1>3, FS_Subset
    <3>4. CASE s \in live /\ chat[s] = chat[t]
      BY <3>1, <3>4
    <3>5. CASE s \in live /\ chat[s] # chat[t] /\ s \notin live'
      <4>1. ~(Cardinality(Ahead(s)) < MaxLive - 1)
        BY <1>2, <3>5
      <4>2. Ahead(s) \in SUBSET Turns /\ t \notin Ahead(s)
        BY <1>1
      <4>3. Cardinality(Ahead(s) \cup {t}) = Cardinality(Ahead(s)) + 1
        BY <1>3, <4>2, FS_AddElement
      <4>4. Ahead(s) \cup {t} \in SUBSET NewerNow(s)
        BY <1>1, <1>5, <3>1
      <4>5. Cardinality(Ahead(s)) \in Nat /\ Cardinality(NewerNow(s)) \in Nat
        BY <1>3, <3>3, <4>2
      <4>6. Cardinality(Ahead(s)) + 1 <= Cardinality(NewerNow(s))
        BY <3>3, <4>3, <4>4
      <4> QED
        BY <4>1, <4>5, <4>6
    <3>6. CASE \E r \in Turns : stamp[r] > stamp[s] /\ chat[r] = chat[s]
      BY <1>1, <1>5, <3>1, <3>6
    <3>7. CASE Cardinality(Newer(s)) >= MaxLive
      <4>1. Newer(s) \in SUBSET NewerNow(s)
        BY <1>1, <1>5, <3>1
      <4>2. Cardinality(Newer(s)) <= Cardinality(NewerNow(s))
        BY <3>3, <4>1
      <4>3. Cardinality(Newer(s)) \in Nat /\ Cardinality(NewerNow(s)) \in Nat
        BY <1>3, <3>3
      <4> QED
        BY <3>7, <4>2, <4>3
    <3> QED
      BY <3>2, <3>4, <3>5, <3>6, <3>7
  <2> QED
    BY <2>1, <2>2
<1> QED
  BY <1>5, <1>6, <1>7

(***************************************************************************)
(* A turn starts.                                                          *)
(***************************************************************************)
LEMMA TwoAppended ==
  ASSUME TypeOK, NEW c \in Chats, NEW m1 \in Messages, NEW m2 \in Messages
  PROVE  /\ transcript[c] \o <<m1, m2>> \in Seq(Messages)
         /\ \A i \in DOMAIN (transcript[c] \o <<m1, m2>>) :
               \/ (transcript[c] \o <<m1, m2>>)[i] \in {m1, m2}
               \/ /\ i \in DOMAIN transcript[c]
                  /\ (transcript[c] \o <<m1, m2>>)[i] = transcript[c][i]
<1> DEFINE s == transcript[c]
           two == <<m1, m2>>
<1>1. s \in Seq(Messages) /\ Len(s) \in Nat /\ DOMAIN s = 1..Len(s)
  BY DEF TypeOK
<1>2. two \in Seq(Messages) /\ Len(two) = 2 /\ two[1] = m1 /\ two[2] = m2
  OBVIOUS
<1> HIDE DEF s, two
<1>3. /\ s \o two \in Seq(Messages)
      /\ Len(s \o two) = Len(s) + 2
      /\ \A i \in 1..Len(s) + 2 :
            (s \o two)[i] = IF i <= Len(s) THEN s[i] ELSE two[i - Len(s)]
  <2>1. /\ s \o two \in Seq(Messages)
        /\ Len(s \o two) = Len(s) + Len(two)
        /\ \A i \in 1..Len(s) + Len(two) :
              (s \o two)[i] = IF i <= Len(s) THEN s[i] ELSE two[i - Len(s)]
    BY <1>1, <1>2, ConcatProperties, Zenon
  <2> QED
    BY <1>2, <2>1
<1>4. DOMAIN (s \o two) = 1..Len(s) + 2
  BY <1>1, <1>3
<1>5. ASSUME NEW i \in 1..Len(s) + 2
      PROVE  \/ (s \o two)[i] \in {m1, m2}
             \/ i \in DOMAIN s /\ (s \o two)[i] = s[i]
  <2>1. CASE i <= Len(s)
    BY <1>1, <1>3, <2>1
  <2>2. CASE i = Len(s) + 1
    BY <1>1, <1>2, <1>3, <2>2
  <2>3. CASE i = Len(s) + 2
    BY <1>1, <1>2, <1>3, <2>3
  <2>4. i <= Len(s) \/ i = Len(s) + 1 \/ i = Len(s) + 2
    BY <1>1
  <2> QED
    BY <2>1, <2>2, <2>3, <2>4, Zenon
<1>6. /\ s \o two \in Seq(Messages)
      /\ \A i \in DOMAIN (s \o two) :
            (s \o two)[i] \in {m1, m2} \/ (i \in DOMAIN s /\ (s \o two)[i] = s[i])
  BY <1>3, <1>4, <1>5
<1> QED
  BY <1>6, Zenon DEF s, two

\* A new turn starts in the invariant.
LEMMA StartKeepsIInv ==
  ASSUME IInv, NEW t \in Turns, NEW u \in Users, NEW r \in Requests,
         NEW l \in BOOLEAN, NEW e \in {"model", "desk"}, TurnStarts(t, u, r, l, e)
  PROVE  IInv'
<1> USE TurnAssumption
<1> DEFINE c == chat[t]
           said == CASE r = "new" -> <<ResetNote(t)>>
                     [] r \in {"tools", "search"} ->
                           transcript[c] \o <<Question(t), Answer(t)>>
                     [] OTHER -> Append(transcript[c], Question(t))
<1>a. TypeOK /\ c \in Chats
  BY DEF IInv, TypeOK
<1>b. /\ pc[t] = "idle"
      /\ owner[c] \in {"none", u} /\ owner' = [owner EXCEPT ![c] = u]
      /\ transcript' = [transcript EXCEPT ![c] = said]
      /\ by' = [by EXCEPT ![t] = u]
      /\ request' = [request EXCEPT ![t] = r]
      /\ watched' = [watched EXCEPT ![t] = l]
      /\ engine' = [engine EXCEPT ![t] = e]
      /\ round' = [round EXCEPT ![t] = round'[t]] /\ round'[t] \in 1..Rounds
      /\ outcome' = [outcome EXCEPT ![t] = outcome'[t]]
      /\ reply' = [reply EXCEPT ![t] = IF r \in {"tools", "search"} THEN Desk ELSE NoReply]
      /\ toolRuns' = toolRuns /\ kept' = kept /\ chat' = chat /\ ran' = ran
      /\ results' = results /\ found' = found /\ screen' = screen /\ stopped' = stopped
  BY <1>a DEF TurnStarts, TypeOK
<1>c. /\ pc' = [pc EXCEPT ![t] = pc'[t]]
      /\ r = "new" => pc'[t] = "done" /\ outcome'[t] = "completed"
      /\ r = "tools" => pc'[t] = "done" /\ outcome'[t] = "completed"
      /\ r = "search" => \/ pc'[t] = "done" /\ outcome'[t] = "completed"
                         \/ pc'[t] = "desks" /\ outcome'[t] = "none"
      /\ r \in {"ask", "remember"} => pc'[t] \in {"model", "tools"} /\ outcome'[t] = "none"
  BY <1>a DEF TurnStarts, TypeOK, Requests
<1>d. /\ reply[t] = NoReply /\ outcome[t] = "none" /\ screen[t] = {}
      /\ stamp[t] = 0 /\ t \notin live
      /\ t \notin kept /\ \A d \in Chats : t \notin toolRuns[d]
  BY <1>b DEF IInv, NothingBeforeTheReply
<1>e. Question(t) \in Messages /\ Answer(t) \in Messages /\ ResetNote(t) \in Messages
  BY DEF Question, Answer, ResetNote, Messages
<1>f. r \in {"new", "tools", "search", "ask", "remember"}
  BY DEF Requests
<1>1. /\ said \in Seq(Messages)
      /\ \A i \in DOMAIN said :
            \/ said[i].role # "assistant"
            \/ r \in {"tools", "search"} /\ said[i].turn = t
            \/ i \in DOMAIN transcript[c] /\ said[i] = transcript[c][i]
  <2>1. CASE r = "new"
    <3>1. said = <<ResetNote(t)>>
      BY <2>1
    <3> HIDE DEF said
    <3>2. ResetNote(t).role = "system"
      BY DEF ResetNote
    <3>3. DOMAIN said = {1} /\ said[1] = ResetNote(t)
      BY <3>1
    <3>4. said \in Seq(Messages)
      BY <1>e, <3>1
    <3> QED
      BY <3>2, <3>3, <3>4
  <2>2. CASE r \in {"tools", "search"}
    <3>1. said = transcript[c] \o <<Question(t), Answer(t)>>
      BY <2>2
    <3>2. Question(t).role = "user" /\ Answer(t).turn = t
      BY DEF Question, Answer
    <3> HIDE DEF said, c
    <3>3. said \in Seq(Messages)
      BY <1>a, <1>e, <3>1, TwoAppended
    <3>4. \A i \in DOMAIN said :
             \/ said[i] \in {Question(t), Answer(t)}
             \/ i \in DOMAIN transcript[c] /\ said[i] = transcript[c][i]
      BY <1>a, <1>e, <3>1, TwoAppended
    <3> QED
      BY <2>2, <3>2, <3>3, <3>4
  <2>3. CASE r \in {"ask", "remember"}
    <3>1. said = Append(transcript[c], Question(t))
      BY <2>3
    <3>2. Question(t).role = "user"
      BY DEF Question
    <3> HIDE DEF said, c
    <3> QED
      BY <1>a, <1>e, <3>1, <3>2, Appended
  <2> QED
    BY <1>f, <2>1, <2>2, <2>3
<1> HIDE DEF said
<1>2. /\ transcript' \in [Chats -> Seq(Messages)]
      /\ AnswersAreReplies'
  <2>1. transcript' \in [Chats -> Seq(Messages)]
    BY <1>a, <1>b, <1>1 DEF TypeOK
  <2>2. ASSUME NEW d \in Chats, NEW i \in DOMAIN transcript'[d],
               transcript'[d][i].role = "assistant"
        PROVE  reply'[transcript'[d][i].turn] # NoReply
    <3>1. \A s \in Turns : reply[s] # NoReply => reply'[s] = reply[s]
      BY <1>a, <1>b, <1>d DEF TypeOK
    <3>2. \A j \in DOMAIN transcript[d] : transcript[d][j] \in Messages
      BY <1>a DEF TypeOK
    <3>3. CASE i \in DOMAIN transcript[d] /\ transcript'[d][i] = transcript[d][i]
      BY <2>2, <3>1, <3>2, <3>3 DEF IInv, AnswersAreReplies, Messages
    <3>4. CASE d = c /\ r \in {"tools", "search"} /\ transcript'[d][i].turn = t
      BY <1>a, <1>b, <3>4 DEF TypeOK, Desk, NoReply
    <3> QED
      BY <1>a, <1>b, <1>1, <2>2, <3>3, <3>4 DEF TypeOK
  <2> QED
    BY <2>1, <2>2 DEF AnswersAreReplies
<1>3. /\ stamp' \in [Turns -> Nat] /\ live' \subseteq Turns
      /\ \A s \in Turns \ {t} : stamp'[s] = stamp[s] /\ (s \in live' => s \in live)
      /\ StampsAreInOrder' /\ RunningTurnIsVisible'
  <2>1. \A s \in Turns \ {t} : Finished(s) => Finished(s)'
    BY <1>a, <1>b, <1>c DEF Finished, TypeOK
  <2>2. CASE l
    <3>1. Attach(t)
      BY <2>2 DEF TurnStarts
    <3> QED
      BY <1>b, <2>1, <3>1, AttachKeepsWindow
  <2>3. CASE ~l
    <3>1. UNCHANGED <<stamp, live, chat>>
      BY <1>b, <2>3 DEF TurnStarts, window
    <3>2. \A s \in Turns : Finished(s) => Finished(s)'
      <4>1. ~stopped[t] => ~Finished(t)
        BY <1>b DEF Finished
      <4> QED
        BY <1>b, <2>1, <4>1 DEF Finished
    <3> QED
      BY <1>a, <3>1, <3>2, WindowKept DEF IInv, TypeOK
  <2> QED
    BY <2>2, <2>3
<1>4. TypeOK'
  <2>1. /\ owner' \in [Chats -> Users \cup {"none", "removed"}]
        /\ by' \in [Turns -> Users] /\ request' \in [Turns -> Requests]
        /\ watched' \in [Turns -> BOOLEAN] /\ engine' \in [Turns -> {"model", "desk"}]
    BY <1>a, <1>b DEF TypeOK
  <2>4. round' \in [Turns -> 0..(Rounds + 1)]
    <3>1. round'[t] \in 0..(Rounds + 1)
      BY <1>b
    <3> QED
      BY <1>a, <1>b, <3>1 DEF TypeOK
  <2>2. /\ pc' \in [Turns -> {"idle", "model", "tools", "narrating", "desks", "done"}]
        /\ outcome' \in [Turns -> {"none", "completed", "failed", "ended"}]
    <3>1. /\ pc'[t] \in {"model", "tools", "desks", "done"}
          /\ outcome'[t] \in {"none", "completed"}
      BY <1>c, <1>f
    <3>2. pc' \in [Turns -> {"idle", "model", "tools", "narrating", "desks", "done"}]
      BY <1>a, <1>c, <3>1 DEF TypeOK
    <3>3. outcome' \in [Turns -> {"none", "completed", "failed", "ended"}]
      <4>1. outcome' = [outcome EXCEPT ![t] = outcome'[t]]
        BY <1>b
      <4> QED
        BY <1>a, <3>1, <4>1 DEF TypeOK
    <3> QED
      BY <3>2, <3>3
  <2>3. reply' \in [Turns -> Passes \cup {NoReply}]
    BY <1>a, <1>b DEF TypeOK, Passes, Desk
  <2> QED
    BY <1>a, <1>b, <1>2, <1>3, <2>1, <2>2, <2>3, <2>4 DEF TypeOK
<1>5. AwaitFits' /\ RunsAreResults' /\ ToolBudget'
  <2>1. AwaitFits'
    BY <1>a, <1>b, <1>c, <1>f DEF IInv, TypeOK, AwaitFits
  <2>2. RunsAreResults' /\ ToolBudget'
    BY <1>b DEF IInv, RunsAreResults, ToolBudget
  <2> QED
    BY <2>1, <2>2
<1>6. NothingBeforeTheReply'
  BY <1>a, <1>b, <1>c, <1>d, <1>f, <1>3
  DEF IInv, TypeOK, NothingBeforeTheReply, Active
<1>7. DraftIsOfThisPass'
  BY <1>a, <1>b, <1>c, <1>d DEF IInv, TypeOK, DraftIsOfThisPass
<1>8. OwnersOnlyMove'
  BY <1>a, <1>b, <1>c, <1>d, <1>f
  DEF IInv, TypeOK, OwnersOnlyMove, Active, Moved, Users
<1>9. ScreenIsTheReply'
  BY <1>a, <1>b, <1>c, <1>f DEF IInv, TypeOK, ScreenIsTheReply
<1>10. EffectsComeWithAReply' /\ NothingOutlivesItsChat'
  BY <1>a, <1>b, <1>d DEF IInv, TypeOK, EffectsComeWithAReply, NothingOutlivesItsChat,
                          OwnersOnlyMove, Users
<1> QED
  BY <1>2, <1>3, <1>4, <1>5, <1>6, <1>7, <1>8, <1>9, <1>10 DEF IInv

(***************************************************************************)
(* Every step keeps IInv: one step of the proof per action.                *)
(***************************************************************************)

OthersStay(t) ==
    \A s \in Turns \ {t} :
        /\ pc'[s] = pc[s] /\ round'[s] = round[s] /\ screen'[s] = screen[s]
        /\ outcome'[s] = outcome[s] /\ ran'[s] = ran[s] /\ results'[s] = results[s]

\* A turn that goes on, or stops without a reply: the database is as it was, and the
\* screen it leaves fits the pass it leaves it to.
LEMMA GoesOnKeepsIInv ==
  ASSUME IInv, NEW t \in Turns, pc[t] \in Active,
         UNCHANGED <<database, asked, stopped, reply, window>>,
         TypeOK', OthersStay(t),
         pc'[t] \in Active \cup {"done"},
         pc'[t] \in {"model", "tools"} => round'[t] \in 1..Rounds,
         watched[t] /\ ~stopped[t] =>
            /\ pc'[t] \in {"model", "narrating"} =>
                  \A p \in screen'[t] : p.pass = round'[t]
            /\ pc'[t] = "tools" => screen'[t] = {},
         outcome'[t] \in {"none", "ended"},
         pc'[t] \in Active => outcome'[t] = "none",
         ran'[t] <= MaxTools, ran'[t] <= results'[t]
  PROVE  IInv'
<1> USE TurnAssumption DEF database, asked, window, OthersStay
<1>a. TypeOK
  BY DEF IInv
<1>2. AwaitFits' /\ DraftIsOfThisPass'
  <2>1. AwaitFits'
    BY DEF IInv, AwaitFits, Active
  <2>2. DraftIsOfThisPass'
    BY DEF IInv, DraftIsOfThisPass
  <2> QED
    BY <2>1, <2>2
<1>3. RunsAreResults' /\ ToolBudget'
  BY DEF IInv, RunsAreResults, ToolBudget
<1>4. NothingBeforeTheReply'
  BY DEF IInv, NothingBeforeTheReply, Active
<1>5. AnswersAreReplies' /\ NothingOutlivesItsChat' /\ EffectsComeWithAReply'
  BY DEF IInv, AnswersAreReplies, NothingOutlivesItsChat, EffectsComeWithAReply
<1>6. OwnersOnlyMove'
  <2>1. \A s \in Turns : Moved(s) = Moved(s)'
    BY DEF Moved
  <2>2. reply[t] = NoReply /\ owner[chat[t]] # "none" /\ (owner[chat[t]] = by[t] \/ Moved(t))
    BY DEF IInv, NothingBeforeTheReply, OwnersOnlyMove, Active
  <2> QED
    BY <2>1, <2>2 DEF IInv, OwnersOnlyMove
<1>7. ScreenIsTheReply'
  BY DEF IInv, ScreenIsTheReply
<1>8. StampsAreInOrder' /\ RunningTurnIsVisible'
  BY WindowKept DEF IInv, Finished, Active
<1> QED
  BY <1>2, <1>3, <1>4, <1>5, <1>6, <1>7, <1>8 DEF IInv

\* Every step keeps the invariant.
LEMMA NextIInv == IInv /\ [Next]_vars => IInv'
<1> SUFFICES ASSUME IInv, [Next]_vars PROVE IInv'
  OBVIOUS
<1> USE TurnAssumption
<1>a. TypeOK
  BY DEF IInv
<1>b. \A t \in Turns :
         /\ round[t] \in 0..(Rounds + 1) /\ screen[t] \in SUBSET Pieces
         /\ ran[t] \in Nat /\ results[t] \in Nat
         /\ ran[t] <= results[t] /\ ran[t] <= MaxTools
         /\ pc[t] \in Active => outcome[t] = "none"
         /\ watched[t] /\ ~stopped[t] =>
            /\ pc[t] \in {"model", "narrating"} => \A p \in screen[t] : p.pass = round[t]
            /\ pc[t] = "tools" => screen[t] = {}
         /\ pc[t] \in {"model", "tools"} => round[t] \in 1..Rounds
  BY DEF IInv, TypeOK, RunsAreResults, ToolBudget, NothingBeforeTheReply, DraftIsOfThisPass,
         AwaitFits
<1>c. ASSUME NEW t \in Turns, pc[t] \in {"model", "narrating"}
      PROVE  /\ Cleared(t) \in SUBSET screen[t] /\ Cleared(t) \in SUBSET Pieces
             /\ watched[t] /\ ~stopped[t] => Cleared(t) = {}
  BY <1>b, <1>c DEF Cleared, Streamed
<1>1. ASSUME NEW t \in Turns, NEW u \in Users, TurnRefused(t, u) PROVE IInv'
  <2> USE <1>1 DEF TurnRefused, database, window
  <2>1. TypeOK'
    BY <1>a DEF TypeOK
  <2>2. AwaitFits' /\ RunsAreResults' /\ ToolBudget' /\ DraftIsOfThisPass'
    BY <1>a DEF IInv, TypeOK, AwaitFits, RunsAreResults, ToolBudget,
                DraftIsOfThisPass
  <2>3. NothingBeforeTheReply' /\ OwnersOnlyMove'
    BY <1>a DEF IInv, TypeOK, NothingBeforeTheReply, OwnersOnlyMove, Active, Moved
  <2>4. AnswersAreReplies' /\ NothingOutlivesItsChat' /\ EffectsComeWithAReply'
    BY DEF IInv, AnswersAreReplies, NothingOutlivesItsChat, EffectsComeWithAReply
  <2>5. ScreenIsTheReply'
    BY <1>a DEF IInv, TypeOK, ScreenIsTheReply
  <2>6. StampsAreInOrder' /\ RunningTurnIsVisible'
    BY <1>a, WindowKept DEF IInv, TypeOK, Finished
  <2> QED
    BY <2>1, <2>2, <2>3, <2>4, <2>5, <2>6 DEF IInv
<1>2. ASSUME NEW t \in Turns, NEW u \in Users, NEW r \in Requests, NEW l \in BOOLEAN,
             NEW e \in {"model", "desk"}, TurnStarts(t, u, r, l, e)
      PROVE  IInv'
  BY <1>2, StartKeepsIInv DEF Requests
<1>3. ASSUME NEW t \in Turns, NEW what \in {"word", "blank"}, Delta(t, what)
      PROVE  IInv'
  <2> DEFINE drawn == screen[t] \cup {[pass |-> round[t], what |-> what]}
  <2>1. drawn \in SUBSET Pieces
    BY <1>b DEF Pieces, Passes, Desk
  <2>2. /\ pc[t] \in {"model", "narrating"}
        /\ screen' = [screen EXCEPT ![t] = drawn]
        /\ UNCHANGED <<database, asked, loop, stopped, ending, window>>
    BY <1>3 DEF Delta
  <2>3. watched[t] /\ ~stopped[t] => \A p \in drawn : p.pass = round[t]
    BY <1>b, <2>2
  <2> HIDE DEF drawn
  <2>4. TypeOK' /\ OthersStay(t) /\ screen'[t] = drawn
    BY <1>a, <2>1, <2>2
    DEF TypeOK, OthersStay, database, asked, loop, ending, window
  <2> QED
    BY <1>b, <2>2, <2>3, <2>4, GoesOnKeepsIInv DEF Active, loop, ending
<1>4. ASSUME NEW t \in Turns, RoundAnswers(t) PROVE IInv'
  <2>1. PICK source \in {Desk, round[t]} :
           /\ Replies(t, source, screen[t])
           /\ source # round[t] => ~Wrote(t)
    BY <1>4 DEF RoundAnswers, ProviderGaveUp, ModelWasSilent
  <2>2. \A p \in screen[t] : p.what = "word" /\ p.pass = round[t] => source = round[t]
    BY <1>b, <2>1 DEF Wrote, Pieces
  <2> QED
    BY <1>4, <2>1, <2>2, RepliesKeepIInv DEF RoundAnswers
<1>5. ASSUME NEW t \in Turns, Narrated(t) PROVE IInv'
  <2>1. pc[t] = "narrating"
    BY <1>5 DEF Narrated
  <2>2. CASE Replies(t, round[t], screen[t])
    BY <2>1, <2>2, RepliesKeepIInv
  <2>3. CASE Replies(t, Desk, screen[t]) /\ ~Wrote(t)
    <3>1. \A p \in screen[t] : p.what = "word" /\ p.pass = round[t] => Desk = round[t]
      BY <1>b, <2>3 DEF Wrote, Pieces
    <3> QED
      BY <2>1, <2>3, <3>1, RepliesKeepIInv
  <2>4. CASE Replies(t, Desk, Cleared(t)) /\ ~stopped[t]
    <3>1. \A p \in Cleared(t) : p.pass # round[t]
      BY <2>4 DEF Cleared, Streamed
    <3> QED
      BY <1>c, <2>1, <2>4, <3>1, RepliesKeepIInv
  <2> QED
    BY <1>5, <2>2, <2>3, <2>4 DEF Narrated, ModelSaid, ModelWasSilent, ProviderGaveUp
<1>6. ASSUME NEW t \in Turns, RoundWantsTools(t) PROVE IInv'
  <2>1. /\ pc[t] = "model" /\ pc' = [pc EXCEPT ![t] = "tools"]
        /\ screen' = [screen EXCEPT ![t] = Cleared(t)]
        /\ UNCHANGED <<database, asked, round, ran, results, found, stopped, ending, window>>
    BY <1>6 DEF RoundWantsTools
  <2>2. TypeOK' /\ OthersStay(t) /\ pc'[t] = "tools" /\ screen'[t] = Cleared(t)
    BY <1>a, <1>c, <2>1 DEF TypeOK, OthersStay, database, asked, ending, window
  <2> QED
    BY <1>b, <1>c, <2>1, <2>2, GoesOnKeepsIInv DEF Active, ending
<1>7. ASSUME NEW t \in Turns, RoundPromises(t) \/ RoundSilent(t) PROVE IInv'
  <2>1. /\ pc[t] = "model"
        /\ screen' = [screen EXCEPT ![t] = Cleared(t)]
        /\ UNCHANGED <<database, asked, ran, results, found, stopped, ending, window>>
        /\ \/ /\ round[t] < Rounds
              /\ pc' = pc /\ round' = [round EXCEPT ![t] = @ + 1]
           \/ /\ pc' = [pc EXCEPT ![t] = "narrating"]
              /\ round' = [round EXCEPT ![t] = Rounds + 1]
    BY <1>7 DEF RoundPromises, RoundSilent
  <2>2. /\ OthersStay(t) /\ screen'[t] = Cleared(t)
        /\ pc' \in [Turns -> {"idle", "model", "tools", "narrating", "desks", "done"}]
        /\ round' \in [Turns -> 0..(Rounds + 1)]
        /\ pc'[t] \in {"model", "narrating"}
        /\ pc'[t] = "model" => round'[t] \in 1..Rounds
    <3>1. CASE /\ round[t] < Rounds
               /\ pc' = pc /\ round' = [round EXCEPT ![t] = @ + 1]
      BY <1>a, <1>b, <2>1, <3>1 DEF TypeOK, OthersStay, ending
    <3>2. CASE /\ pc' = [pc EXCEPT ![t] = "narrating"]
               /\ round' = [round EXCEPT ![t] = Rounds + 1]
      BY <1>a, <1>b, <2>1, <3>2 DEF TypeOK, OthersStay, ending
    <3> QED
      BY <2>1, <3>1, <3>2
  <2>3. TypeOK'
    BY <1>a, <1>c, <2>1, <2>2 DEF TypeOK, database, asked, ending, window
  <2> QED
    BY <1>b, <1>c, <2>1, <2>2, <2>3, GoesOnKeepsIInv DEF Active, ending
<1>8. ASSUME NEW t \in Turns, ModelAborts(t) PROVE IInv'
  <2>1. /\ pc[t] \in Active /\ stopped[t]
        /\ pc' = [pc EXCEPT ![t] = "done"] /\ outcome' = [outcome EXCEPT ![t] = "ended"]
        /\ UNCHANGED <<database, asked, ran, results, found, screen, stopped, round, reply,
                       window>>
    BY <1>8 DEF ModelAborts, Abort, Active
  <2>2. /\ TypeOK' /\ OthersStay(t) /\ pc'[t] = "done" /\ outcome'[t] = "ended"
    BY <1>a, <2>1 DEF TypeOK, OthersStay, database, asked, window
  <2> QED
    BY <1>b, <2>1, <2>2, GoesOnKeepsIInv DEF Active
<1>9. ASSUME NEW t \in Turns, NEW n \in 0..MaxTools, NEW refused \in Refusals,
             NEW kinds \in SUBSET Kinds, ToolsEnd(t, n, refused, kinds)
      PROVE  IInv'
  <2>1. /\ pc[t] = "tools" /\ n <= Ceiling(t)
        /\ ran' = [ran EXCEPT ![t] = @ + n]
        /\ results' = [results EXCEPT ![t] = @ + n + refused]
        /\ found' = [found EXCEPT ![t] = @ \cup kinds]
        /\ UNCHANGED <<database, asked, screen, stopped, reply, window>>
    BY <1>9 DEF ToolsEnd, Proceed, Abort, ending
  <2>2. n \in Nat /\ refused \in Nat
    BY DEF Refusals
  <2>3. /\ ran' \in [Turns -> Nat] /\ results' \in [Turns -> Nat]
        /\ found' \in [Turns -> SUBSET Kinds]
        /\ ran'[t] <= MaxTools /\ ran'[t] <= results'[t]
    BY <1>a, <1>b, <2>1, <2>2 DEF TypeOK, Ceiling
  <2>4. CASE stopped[t]
    <3>1. /\ pc' = [pc EXCEPT ![t] = "done"] /\ outcome' = [outcome EXCEPT ![t] = "ended"]
          /\ round' = round
      BY <1>9, <2>4 DEF ToolsEnd, Abort
    <3>2. TypeOK' /\ OthersStay(t) /\ pc'[t] = "done" /\ outcome'[t] = "ended"
      BY <1>a, <2>1, <2>3, <3>1 DEF TypeOK, OthersStay, database, asked, window
    <3> QED
      BY <2>1, <2>3, <3>2, GoesOnKeepsIInv DEF Active
  <2>5. CASE ~stopped[t]
    <3>1. /\ pc' = [pc EXCEPT ![t] = IF round[t] < Rounds THEN "model" ELSE "narrating"]
          /\ round' = [round EXCEPT ![t] = @ + 1] /\ outcome' = outcome
      BY <1>9, <2>5 DEF ToolsEnd, Proceed, ending
    <3>2. /\ pc' \in [Turns -> {"idle", "model", "tools", "narrating", "desks", "done"}]
          /\ round' \in [Turns -> 0..(Rounds + 1)]
          /\ OthersStay(t)
          /\ pc'[t] \in {"model", "narrating"}
          /\ pc'[t] = "model" => round'[t] \in 1..Rounds
      BY <1>a, <1>b, <2>1, <3>1 DEF TypeOK, OthersStay
    <3>3. TypeOK'
      BY <1>a, <2>1, <2>3, <3>1, <3>2 DEF TypeOK, database, asked, window
    <3> QED
      BY <1>b, <2>1, <2>3, <3>1, <3>2, <3>3, GoesOnKeepsIInv DEF Active
  <2> QED
    BY <2>4, <2>5
<1>10. ASSUME NEW t \in Turns, DesksEnd(t) PROVE IInv'
  <2> USE <1>10 DEF DesksEnd, database, asked, window
  <2>1. AsFound(t) \in {"completed", "failed", "ended"}
    BY DEF AsFound, Thrown
  <2>2. TypeOK'
    BY <1>a, <2>1 DEF TypeOK
  <2>3. AwaitFits' /\ RunsAreResults' /\ ToolBudget' /\ DraftIsOfThisPass'
    BY <1>a DEF IInv, TypeOK, AwaitFits, RunsAreResults, ToolBudget,
                DraftIsOfThisPass
  <2>4. NothingBeforeTheReply'
    BY <1>a DEF IInv, TypeOK, NothingBeforeTheReply, Active
  <2>5. OwnersOnlyMove'
    BY <1>a DEF IInv, TypeOK, OwnersOnlyMove, Active, Moved, AsFound
  <2>6. AnswersAreReplies' /\ NothingOutlivesItsChat' /\ EffectsComeWithAReply'
    BY DEF IInv, AnswersAreReplies, NothingOutlivesItsChat, EffectsComeWithAReply
  <2>7. ScreenIsTheReply'
    BY <1>a DEF IInv, TypeOK, ScreenIsTheReply, AwaitFits
  <2>8. StampsAreInOrder' /\ RunningTurnIsVisible'
    BY <1>a, WindowKept DEF IInv, TypeOK, Finished
  <2> QED
    BY <2>2, <2>3, <2>4, <2>5, <2>6, <2>7, <2>8 DEF IInv
<1>11. ASSUME NEW t \in Turns, Stop(t) PROVE IInv'
  <2> USE <1>11 DEF Stop, database, asked, loop, ending, window
  <2>1. TypeOK'
    BY <1>a DEF TypeOK
  <2>2. /\ AwaitFits' /\ RunsAreResults' /\ ToolBudget' /\ NothingBeforeTheReply'
        /\ AnswersAreReplies' /\ NothingOutlivesItsChat' /\ EffectsComeWithAReply'
    BY DEF IInv, AwaitFits, RunsAreResults, ToolBudget, NothingBeforeTheReply,
           AnswersAreReplies, NothingOutlivesItsChat, EffectsComeWithAReply
  <2>3. DraftIsOfThisPass' /\ ScreenIsTheReply'
    BY <1>a DEF IInv, TypeOK, DraftIsOfThisPass, ScreenIsTheReply
  <2>4. OwnersOnlyMove'
    BY DEF IInv, OwnersOnlyMove, Moved
  <2>5. StampsAreInOrder' /\ RunningTurnIsVisible'
    BY <1>a, WindowKept DEF IInv, TypeOK, Finished
  <2> QED
    BY <2>1, <2>2, <2>3, <2>4, <2>5 DEF IInv
<1>12. ASSUME NEW c \in Chats, Poll(c) PROVE IInv'
  <2> USE <1>12 DEF Poll, database, asked, loop, ending
  <2>1. live' \subseteq live /\ \A t \in live \ live' : Finished(t)
    OBVIOUS
  <2>2. TypeOK'
    BY <1>a, <2>1 DEF TypeOK
  <2>3. /\ AwaitFits' /\ RunsAreResults' /\ ToolBudget' /\ DraftIsOfThisPass'
        /\ AnswersAreReplies' /\ NothingOutlivesItsChat' /\ EffectsComeWithAReply'
        /\ ScreenIsTheReply'
    BY DEF IInv, AwaitFits, RunsAreResults, ToolBudget, DraftIsOfThisPass,
           AnswersAreReplies, NothingOutlivesItsChat, EffectsComeWithAReply, ScreenIsTheReply
  <2>4. NothingBeforeTheReply' /\ OwnersOnlyMove'
    BY <2>1 DEF IInv, NothingBeforeTheReply, OwnersOnlyMove, Moved
  <2>5. StampsAreInOrder' /\ RunningTurnIsVisible'
    BY <2>1 DEF IInv, StampsAreInOrder, Entered, RunningTurnIsVisible, Finished
  <2> QED
    BY <2>2, <2>3, <2>4, <2>5 DEF IInv
<1>13. ASSUME NEW c \in Chats, RemoveChat(c) PROVE IInv'
  <2> USE <1>13 DEF RemoveChat, HasRow, asked, loop, ending, window
  <2>1. TypeOK'
    <3>1. <<>> \in Seq(Messages)
      BY EmptySeq
    <3> QED
      BY <1>a, <3>1 DEF TypeOK
  <2>2. AwaitFits' /\ RunsAreResults' /\ ToolBudget' /\ DraftIsOfThisPass' /\ ScreenIsTheReply'
    BY DEF IInv, AwaitFits, RunsAreResults, ToolBudget, DraftIsOfThisPass, ScreenIsTheReply
  <2>3. NothingBeforeTheReply' /\ EffectsComeWithAReply'
    <3>1. \A d \in Chats : toolRuns'[d] \subseteq toolRuns[d]
      BY <1>a DEF TypeOK
    <3>2. \A d \in Chats : owner'[d] = owner[d] \/ owner'[d] = "removed"
      BY <1>a DEF TypeOK
    <3>3. NothingBeforeTheReply'
      BY <3>1 DEF IInv, NothingBeforeTheReply
    <3>4. EffectsComeWithAReply'
      BY <1>a, <3>1, <3>2 DEF IInv, TypeOK, EffectsComeWithAReply
    <3> QED
      BY <3>3, <3>4
  <2>4. AnswersAreReplies' /\ NothingOutlivesItsChat'
    BY <1>a DEF IInv, TypeOK, AnswersAreReplies, NothingOutlivesItsChat
  <2>5. OwnersOnlyMove'
    BY <1>a DEF IInv, TypeOK, OwnersOnlyMove, Moved
  <2>6. StampsAreInOrder' /\ RunningTurnIsVisible'
    BY WindowKept DEF IInv, Finished
  <2> QED
    BY <2>1, <2>2, <2>3, <2>4, <2>5, <2>6 DEF IInv
<1>14. ASSUME NEW c \in Chats, ChatMoves(c) PROVE IInv'
  <2> USE <1>14 DEF ChatMoves, asked, loop, ending, window
  <2>1. TypeOK'
    BY <1>a DEF TypeOK, Users
  <2>2. AwaitFits' /\ RunsAreResults' /\ ToolBudget' /\ DraftIsOfThisPass' /\ ScreenIsTheReply'
    BY DEF IInv, AwaitFits, RunsAreResults, ToolBudget, DraftIsOfThisPass, ScreenIsTheReply
  <2>3. NothingBeforeTheReply' /\ AnswersAreReplies'
    BY DEF IInv, NothingBeforeTheReply, AnswersAreReplies
  <2>4. EffectsComeWithAReply' /\ NothingOutlivesItsChat'
    BY <1>a DEF IInv, TypeOK, EffectsComeWithAReply, NothingOutlivesItsChat
  <2>5. OwnersOnlyMove'
    BY <1>a DEF IInv, TypeOK, OwnersOnlyMove, Moved, Users
  <2>6. StampsAreInOrder' /\ RunningTurnIsVisible'
    BY WindowKept DEF IInv, Finished
  <2> QED
    BY <2>1, <2>2, <2>3, <2>4, <2>5, <2>6 DEF IInv
<1>15. CASE UNCHANGED vars
  <2> USE <1>15 DEF vars
  <2>1. StampsAreInOrder' /\ RunningTurnIsVisible'
    BY WindowKept DEF IInv, Finished
  <2>2. /\ TypeOK' /\ AwaitFits' /\ NothingBeforeTheReply' /\ AnswersAreReplies'
        /\ DraftIsOfThisPass' /\ OwnersOnlyMove'
    BY DEF IInv, TypeOK, AwaitFits, NothingBeforeTheReply, AnswersAreReplies,
           DraftIsOfThisPass, OwnersOnlyMove, Moved
  <2>3. /\ RunsAreResults' /\ ToolBudget' /\ NothingOutlivesItsChat' /\ ScreenIsTheReply'
        /\ EffectsComeWithAReply'
    BY DEF IInv, RunsAreResults, ToolBudget, NothingOutlivesItsChat, ScreenIsTheReply,
           EffectsComeWithAReply
  <2> QED
    BY <2>1, <2>2, <2>3 DEF IInv
<1> QED
  BY <1>1, <1>2, <1>3, <1>4, <1>5, <1>6, <1>7, <1>8, <1>9, <1>10, <1>11, <1>12, <1>13,
     <1>14, <1>15
  DEF Next, PassEnds, SomeToolsEnd

\* The invariant holds in every reachable state.
LEMMA SpecIInv == Spec => []IInv
  BY InitIInv, NextIInv, PTL DEF Spec

(***************************************************************************)
(* The safety properties of the runs, for every instance.                  *)
(***************************************************************************)

\* The rows, the turns and the window keep their types (schema.ts, handleIncoming,
\* completeTurn, LiveTurnsService).
THEOREM TypeCorrect == Spec => []TypeOK
<1>1. IInv => TypeOK
  BY DEF IInv
<1> QED
  BY SpecIInv, <1>1, PTL

\* The words a traveler watched are the words that were saved (completeTurn, reply_reset).
THEOREM WatchedWordsAreSaved == Spec => []ScreenIsTheReply
<1>1. IInv => ScreenIsTheReply
  BY DEF IInv
<1> QED
  BY SpecIInv, <1>1, PTL

\* All passes of a turn share one ceiling of tools (runModelRounds, planToolCalls).
THEOREM ToolsAreBounded == Spec => []ToolBudget
<1>1. IInv => ToolBudget
  BY DEF IInv
<1> QED
  BY SpecIInv, <1>1, PTL

\* An abandoned turn leaves no note, trip or log in a chat that still is (handleIncoming).
THEOREM EffectsAreAccounted == Spec => []EffectsComeWithAReply
<1>1. IInv => EffectsComeWithAReply
  BY DEF IInv
<1> QED
  BY SpecIInv, <1>1, PTL

\* No late answer brings messages back to a removed chat (append, remove).
THEOREM RemovalIsComplete == Spec => []NothingOutlivesItsChat
<1>1. IInv => NothingOutlivesItsChat
  BY DEF IInv
<1> QED
  BY SpecIInv, <1>1, PTL

\* A poll finds every running turn that newer ones have not displaced, whatever the size
\* of the window (LiveTurnsService).
THEOREM RunningTurnsAreVisible == Spec => []RunningTurnIsVisible
<1>1. IInv => RunningTurnIsVisible
  BY DEF IInv
<1> QED
  BY SpecIInv, <1>1, PTL

\* A turn reported as failed or ended has no reply in a chat that is still its traveler's
\* (handleIncoming, runStream).
THEOREM FailuresHaveNoReply == Spec => []NoReplyAfterAFailure
<1>1. IInv => NoReplyAfterAFailure
  <2> SUFFICES ASSUME IInv, NEW t \in Turns, outcome[t] \in {"failed", "ended"},
                      Says(chat[t], Answer(t))
               PROVE  owner[chat[t]] # by[t]
    BY DEF NoReplyAfterAFailure
  <2>1. chat[t] \in Chats /\ by[t] \in Users
    BY DEF IInv, TypeOK
  <2>2. reply[t] # NoReply
    BY <2>1 DEF IInv, AnswersAreReplies, Says, Answer
  <2>3. Moved(t)
    BY <2>2 DEF IInv, OwnersOnlyMove
  <2> QED
    BY <2>1, <2>3 DEF Moved, Users
<1> QED
  BY SpecIInv, <1>1, PTL
=============================================================================
