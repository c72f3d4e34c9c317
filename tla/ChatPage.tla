------------------------------ MODULE ChatPage ------------------------------
(***************************************************************************)
(* The chat page of the web client (ChatPage: send, loadChat and its       *)
(* effects) with the requests below it: streamTurn's post, loadChat's      *)
(* reads, and api()'s recovery of a guest's session, which all of them     *)
(* share.                                                                  *)
(*                                                                         *)
(* One browser tab, one visit of the page.  Everything between two awaits  *)
(* is one step.  A request carries the identity of the session it was sent *)
(* with.  What a stream says until its result is the matter of LiveTurn.   *)
(***************************************************************************)
EXTENDS Integers, Sequences, FiniteSets, SequencesExt

CONSTANTS Texts,       \* what the traveler may type
          MaxSends,    \* sends of the visit (bound of the model)
          MaxExpiries, \* sessions that go stale (bound of the model)
          MaxGuests,   \* identities of the model
          MaxRefreshes,\* loads that no send asks for (bound of the model)
          MaxOthers    \* messages the desk posts between turns (bound of the model)

ASSUME ChatPageAssumption ==
    /\ {MaxSends, MaxExpiries, MaxRefreshes, MaxOthers} \subseteq Nat
    /\ MaxGuests \in Nat \ {0}
    /\ "" \notin Texts

Guests == 1..MaxGuests
Sends == 1..MaxSends
Landing == -1        \* /chat, without a chat
Chats == 0..MaxSends \* 0 was there before; n is the chat that send n created

VARIABLES
    \* the gateway
    known,     \* identities whose session it accepts
    expired,   \* sessions that went stale
    owner,     \* the owner of a chat, 0 before it is created
    rows,      \* the messages of a chat
    turn,      \* what became of the turn of a send
    chatOf,    \* the chat that its post was for
    posts,     \* messages that a desk posted
    \* the tab
    account,   \* a real account, not a guest
    me,        \* the identity its session stands for
    page,      \* ChatPage is on the screen
    route,     \* the chat in the URL
    shown,     \* messages, as rendered
    draft,     \* the composer
    send,      \* the send that runs, or the last one
    strays,    \* posts given up that may still arrive
    loads,     \* loadChat calls that are out
    generation,
    refreshes,
    mirror,    \* the guest's own copy of a chat
    recoveries,\* recoveries in flight
    asked      \* the identity they were sent with

gateway == <<known, expired, owner, rows, turn, chatOf, posts>>
screen == <<page, route, shown, draft>>
running == <<send, strays>>
reading == <<loads, generation, refreshes, mirror>>
session == <<account, me, recoveries, asked>>
vars == <<known, expired, owner, rows, turn, chatOf, posts, account, me, page, route, shown, draft,
          send, strays, loads, generation, refreshes, mirror, recoveries, asked>>

\* Of a send, or of one of the desk's posts.
Rows == [of : Nat, who : {"user", "desk", "note", "post", "pending"}, words : Texts \cup {""}]
Row(n, who, words) == [of |-> n, who |-> who, words |-> words]

Idle == [n |-> 0, stage |-> "idle", chat |-> Landing, from |-> Landing, words |-> "",
         as |-> 1, for |-> 1, waits |-> FALSE, replayed |-> FALSE, halted |-> FALSE]
Load(seq, why, chat, as, for) ==
    [seq |-> seq, why |-> why, chat |-> chat, as |-> as, for |-> for, at |-> "out",
     replayed |-> FALSE, rows |-> <<>>]

TypeOK ==
    /\ known \subseteq Guests /\ expired \in 0..MaxExpiries
    /\ owner \in [Chats -> {0} \cup Guests]
    /\ rows \in [Chats -> Seq(Rows)]
    /\ turn \in [Sends -> {"none", "runs", "closing", "completed", "failed"}]
    /\ chatOf \in [Sends -> {Landing} \cup Chats] /\ posts \in 0..MaxOthers
    /\ account \in BOOLEAN /\ me \in Guests /\ page \in BOOLEAN
    /\ route \in {Landing} \cup Chats
    /\ shown \in Seq(Rows) /\ draft \in Texts \cup {""}
    /\ send \in [n : 0..MaxSends, stage : {"idle", "creating", "posting", "reading", "loading",
                 "reconciling"}, chat : {Landing} \cup Chats, from : {Landing} \cup Chats,
                 words : Texts \cup {""}, as : Guests, for : Guests, waits : BOOLEAN,
                 replayed : BOOLEAN, halted : BOOLEAN]
    /\ \A stray \in strays : stray \in [n : Sends, chat : Chats, as : Guests, words : Texts]
    /\ \A load \in loads :
          load \in [seq : 1..generation, why : {"effect", "loading", "reconciling"}, chat : Chats,
                    as : Guests, for : Guests, at : {"out", "waits", "back"}, replayed : BOOLEAN,
                    rows : Seq(Rows)]
    /\ generation \in Nat /\ refreshes \in 0..MaxRefreshes
    /\ mirror \in [Guests -> [Chats -> Seq(Rows)]]
    /\ recoveries \in 0..1 /\ asked \in Guests

\* The command that empties a chat (handleIncoming).
Resets(words) == words = "/new"

\* A guest or an account, on the landing page or in a chat it had before, of one question or none.
Init ==
    /\ account \in BOOLEAN
    /\ me = 1 /\ known = {1} /\ expired = 0
    /\ route \in {Landing, 0} /\ page = TRUE
    /\ owner = [c \in Chats |-> IF c = 0 THEN 1 ELSE 0]
    /\ \E old \in {<<>>} \cup {<<Row(0, "user", words)>> : words \in {w \in Texts : ~Resets(w)}} :
          rows = [c \in Chats |-> IF c = 0 THEN old ELSE <<>>]
    /\ turn = [n \in Sends |-> "none"] /\ chatOf = [n \in Sends |-> Landing] /\ posts = 0
    /\ shown = <<>> /\ draft = "" /\ send = Idle /\ strays = {}
    /\ loads = {} /\ generation = 0 /\ refreshes = 0
    /\ mirror = [g \in Guests |-> [c \in Chats |-> <<>>]]
    /\ recoveries = 0 /\ asked = 1

Sending == send.stage # "idle"
Accepts(as, chat) == as \in known /\ owner[chat] = as

-----------------------------------------------------------------------------
(* The page's effect on the chat in the URL, on a revision and on a user.   *)

\* A guest's own copy is painted at once; the landing page is cleared unless a send runs.
Painted(place, user, copies, messages, busy) ==
    IF place = Landing THEN (IF busy THEN messages ELSE <<>>)
    ELSE IF ~account /\ copies[user][place] # <<>> THEN copies[user][place] ELSE messages

\* The effect: paint, and load with the next generation.
Effect(place, user, copies, messages, busy, others, seq) ==
    /\ shown' = Painted(place, user, copies, messages, busy)
    /\ mirror' = copies
    /\ IF place = Landing THEN loads' = others /\ generation' = seq
       ELSE /\ loads' = others \cup {Load(seq + 1, "effect", place, user, user)}
            /\ generation' = seq + 1

\* A bump of the socket, or, in a chat, the timer of a working desk.
Refresh ==
    /\ page /\ refreshes < MaxRefreshes
    /\ refreshes' = refreshes + 1
    /\ \/ Effect(route, me, mirror, shown, Sending, loads, generation)
       \/ /\ route # Landing
          /\ loads' = loads \cup {Load(generation + 1, "effect", route, me, me)}
          /\ generation' = generation + 1
          /\ UNCHANGED <<shown, mirror>>
    /\ UNCHANGED <<gateway, session, running, page, route, draft>>

-----------------------------------------------------------------------------
(* Sending.                                                                 *)

Type ==
    /\ page /\ draft = ""
    /\ draft' \in Texts
    /\ UNCHANGED <<gateway, session, running, reading, page, route, shown>>

\* send: the traveler's own message is shown at once; a chat is opened for it if need be.
Send ==
    /\ page /\ ~Sending /\ draft # "" /\ send.n < MaxSends
    /\ draft' = ""
    /\ shown' = Append(shown, Row(send.n + 1, "pending", draft))
    /\ send' = [n |-> send.n + 1, stage |-> IF route = Landing THEN "creating" ELSE "posting",
                chat |-> route, from |-> route, words |-> draft, as |-> me, for |-> me,
                waits |-> FALSE, replayed |-> FALSE, halted |-> FALSE]
    /\ UNCHANGED <<gateway, session, reading, page, route, strays>>

\* finally.
Ended == [send EXCEPT !.stage = "idle", !.waits = FALSE]

\* The transcript without one of its messages.
Without(messages, row) ==
    IF \E i \in DOMAIN messages : messages[i] = row
    THEN RemoveAt(messages, CHOOSE i \in DOMAIN messages : messages[i] = row)
    ELSE messages

\* The send failed: the text goes back, and its bubble.
Errs(others) ==
    /\ draft' = send.words
    /\ shown' = Without(shown, Row(send.n, "pending", send.words))
    /\ send' = Ended
    /\ loads' = others
    /\ UNCHANGED <<page, route, generation, mirror>>

\* The request of this stage is out.
Asking(stage) == page /\ send.stage = stage /\ ~send.waits /\ ~send.halted

ChatCreated ==
    /\ Asking("creating") /\ send.as \in known
    /\ owner' = [owner EXCEPT ![send.n] = send.as]
    /\ send' = [send EXCEPT !.stage = "posting", !.chat = send.n, !.as = me, !.replayed = FALSE]
    /\ UNCHANGED <<known, expired, rows, turn, chatOf, posts, session, screen, reading, strays>>

\* reset: every message of the chat is deleted, and a note is left.
Emptied(n) == <<Row(n, "note", "")>>

\* handleIncoming: the message is stored before the turn awaits anything; the command that empties
\* the chat is not stored, and its turn is over at once.
Stores(n, chat, words, then) ==
    /\ rows' = [rows EXCEPT ![chat] = IF Resets(words) THEN Emptied(n)
                                     ELSE Append(@, Row(n, "user", words))]
    /\ turn' = [turn EXCEPT ![n] = IF Resets(words) THEN "completed" ELSE then]
    /\ chatOf' = [chatOf EXCEPT ![n] = chat]

PostTaken ==
    /\ Asking("posting") /\ Accepts(send.as, send.chat)
    /\ Stores(send.n, send.chat, send.words, "runs")
    /\ send' = [send EXCEPT !.stage = "reading"]
    /\ UNCHANGED <<known, expired, owner, posts, session, screen, reading, strays>>

\* Another status than a guest's first 401, a chat of somebody else, or no connection.
RequestFails ==
    /\ Asking("creating") \/ Asking("posting")
    /\ Errs(loads)
    /\ UNCHANGED <<gateway, session, refreshes, strays>>

\* Variant: every request recovers on its own.
RestoreAlone ==
    /\ recoveries' = recoveries + 1
    /\ asked' = me

\* restoreSession: one recovery for all.
Restore ==
    /\ recoveries' = IF recoveries = 0 THEN 1 ELSE recoveries
    /\ asked' = IF recoveries = 0 THEN me ELSE asked

\* 401, of a guest, the first time.
Denied(as, replayed) == ~account /\ as \notin known /\ ~replayed

RequestDenied ==
    /\ Asking("creating") \/ Asking("posting")
    /\ Denied(send.as, send.replayed)
    /\ send' = [send EXCEPT !.waits = TRUE]
    /\ Restore
    /\ UNCHANGED <<gateway, account, me, screen, reading, strays>>

\* A closed response is read as Stop.
Closed == [turn EXCEPT ![send.n] = IF @ = "runs" THEN "closing" ELSE @]

\* Variant: a stream that breaks is asked for again.
StreamBreaksAndReplays ==
    /\ Asking("reading")
    /\ send' = [send EXCEPT !.stage = "posting", !.replayed = TRUE]
    /\ turn' = Closed
    /\ UNCHANGED <<known, expired, owner, rows, chatOf, posts, session, screen, reading, strays>>

\* The connection of the stream breaks, or it ends without a result.
StreamBreaks ==
    /\ Asking("reading")
    /\ turn' = Closed
    /\ Errs(loads)
    /\ UNCHANGED <<known, expired, owner, rows, chatOf, posts, session, refreshes, strays>>

\* turn.failed arrives.
StreamFails ==
    /\ Asking("reading") /\ turn[send.n] = "failed"
    /\ Errs(loads)
    /\ UNCHANGED <<gateway, session, refreshes, strays>>

\* A load that the send awaits.
Awaits(why) ==
    /\ send' = [send EXCEPT !.stage = why, !.waits = FALSE]
    /\ loads' = loads \cup {Load(generation + 1, why, send.chat, me, send.for)}
    /\ generation' = generation + 1
    /\ UNCHANGED <<screen, mirror>>

\* turn.completed arrives, and the saved turn is loaded.
StreamCompletes ==
    /\ Asking("reading") /\ turn[send.n] = "completed"
    /\ Awaits("loading")
    /\ UNCHANGED <<gateway, session, refreshes, strays>>

\* The abort branch: what the desk has is read again, once there is a chat.
Aborts ==
    IF send.stage # "creating" THEN Awaits("reconciling")
    ELSE /\ draft' = send.words
         /\ send' = Ended
         /\ UNCHANGED <<page, route, shown, loads, generation, mirror>>

\* stop: the request that is out is given up, a post perhaps too late.  A recovery goes on.
Stop ==
    /\ page /\ send.stage \in {"creating", "posting", "reading"} /\ ~send.halted
    /\ \/ /\ send.waits
          /\ send' = [send EXCEPT !.halted = TRUE]
          /\ UNCHANGED <<screen, loads, generation, mirror, strays>>
       \/ ~send.waits /\ Aborts /\ UNCHANGED strays
       \/ /\ ~send.waits /\ send.stage = "posting" /\ Aborts
          /\ strays' = strays \cup {[n |-> send.n, chat |-> send.chat, as |-> send.as,
                                     words |-> send.words]}
    /\ turn' = IF send.stage = "reading" THEN Closed ELSE turn
    /\ UNCHANGED <<known, expired, owner, rows, chatOf, posts, session, refreshes>>

\* A replay after a Stop ends before it begins.
StoppedReplay ==
    /\ page /\ send.halted /\ ~send.waits /\ send.stage \in {"creating", "posting"}
    /\ Aborts
    /\ UNCHANGED <<gateway, session, refreshes, strays>>

\* A post that was given up arrives all the same; its turn may see the closed connection.
StrayArrives(stray) ==
    /\ Accepts(stray.as, stray.chat)
    /\ \E then \in {"runs", "closing"} : Stores(stray.n, stray.chat, stray.words, then)
    /\ strays' = strays \ {stray}
    /\ UNCHANGED <<known, expired, owner, posts, session, screen, reading, send>>

-----------------------------------------------------------------------------
(* Loading a chat.                                                          *)

\* The gateway reads the chat; the answer is on its way.
LoadRead(load) ==
    /\ page /\ load.at = "out" /\ Accepts(load.as, load.chat)
    /\ loads' = (loads \ {load}) \cup {[load EXCEPT !.at = "back", !.rows = rows[load.chat]]}
    /\ UNCHANGED <<gateway, session, screen, running, generation, refreshes, mirror>>

LoadDenied(load) ==
    /\ page /\ load.at = "out" /\ Denied(load.as, load.replayed)
    /\ loads' = (loads \ {load}) \cup {[load EXCEPT !.at = "waits"]}
    /\ Restore
    /\ UNCHANGED <<gateway, account, me, screen, running, generation, refreshes, mirror>>

\* The end of a send that awaited a load: one from the landing page navigates to its chat.
Settles(messages, copies, others, words) ==
    /\ draft' = words
    /\ send' = Ended
    /\ route' = IF send.from = Landing THEN send.chat ELSE route
    /\ IF send.from = Landing
       THEN Effect(send.chat, me, copies, messages, FALSE, others, generation)
       ELSE shown' = messages /\ mirror' = copies /\ loads' = others /\ UNCHANGED generation
    /\ UNCHANGED page

\* The newest question says this.
LastAsks(messages, words) ==
    \E i \in DOMAIN messages :
        /\ messages[i].who = "user" /\ messages[i].words = words
        /\ \A j \in DOMAIN messages : j > i => messages[j].who # "user"

\* Variant: a load that was overtaken counts as one that found the message.
ReconciledOnlyByAnswer(messages, honored) ==
    IF honored /\ ~LastAsks(messages, send.words) THEN send.words ELSE draft

\* The text is handed back unless the newest question that was read says the same.
Reconciled(messages, honored) ==
    IF honored /\ LastAsks(messages, send.words) THEN draft ELSE send.words

\* Variant: an older load is honored as well.
HonoredAlways(load) == TRUE

\* Only the newest load is honored.
Honored(load) == load.seq = generation

\* loadChat returns to its caller.
LoadLands(load) ==
    /\ page /\ load.at = "back"
    /\ LET messages == IF Honored(load) THEN load.rows ELSE shown
           copies == IF Honored(load) /\ ~account
                     THEN [mirror EXCEPT ![load.for][load.chat] = load.rows] ELSE mirror
           others == loads \ {load}
       IN  \/ /\ load.why = "effect"
              /\ shown' = messages /\ mirror' = copies /\ loads' = others
              /\ UNCHANGED <<page, route, draft, send, generation>>
           \/ load.why = "loading" /\ Settles(messages, copies, others, draft)
           \/ /\ load.why = "reconciling"
              /\ Settles(messages, copies, others, Reconciled(load.rows, Honored(load)))
    /\ UNCHANGED <<gateway, session, refreshes, strays>>

\* Variant: the send that waits for a load does not hear that it failed.
LoadFailsAlone(load) ==
    /\ page /\ load.at = "out"
    /\ loads' = loads \ {load}
    /\ UNCHANGED <<gateway, session, screen, running, generation, refreshes, mirror>>

\* A load that nothing recovers.
LoadFails(load) ==
    /\ page /\ load.at = "out"
    /\ \/ /\ load.why = "effect"
          /\ loads' = loads \ {load}
          /\ UNCHANGED <<screen, send, generation, mirror>>
       \/ load.why = "loading" /\ Errs(loads \ {load})
       \/ /\ load.why = "reconciling"
          /\ Settles(shown, mirror, loads \ {load}, Reconciled(<<>>, FALSE))
    /\ UNCHANGED <<gateway, session, refreshes, strays>>

-----------------------------------------------------------------------------
(* The guest's session.                                                     *)

\* POST /api/auth/guest: a session that is known is resumed, another guest is made for one that
\* is not.  Everyone who waits asks once more, and the page has a new user.
Recovered ==
    /\ page /\ recoveries > 0
    /\ me' = IF asked \in known THEN me ELSE me + 1
    /\ me' \in Guests
    /\ known' = known \cup {me'}
    /\ recoveries' = recoveries - 1
    /\ send' = IF send.waits THEN [send EXCEPT !.waits = FALSE, !.replayed = TRUE, !.as = me'] ELSE send
    /\ Effect(route, me', mirror, shown, Sending,
              {IF load.at = "waits" THEN [load EXCEPT !.at = "out", !.replayed = TRUE, !.as = me']
               ELSE load : load \in loads}, generation)
    /\ UNCHANGED <<expired, owner, rows, turn, chatOf, posts, account, asked, page, route, draft,
                   strays, refreshes>>

\* The guest is dropped, and the page with it: RequireAuth shows the reason and a retry.
RecoveryFails ==
    /\ page /\ recoveries > 0
    /\ recoveries' = recoveries - 1
    /\ page' = FALSE
    /\ UNCHANGED <<gateway, account, me, asked, running, reading, route, shown, draft>>

-----------------------------------------------------------------------------
(* The gateway on its own.                                                  *)

\* A session ends: its time is over, or its row is gone.
Expires ==
    /\ expired < MaxExpiries /\ me \in known
    /\ known' = known \ {me}
    /\ expired' = expired + 1
    /\ UNCHANGED <<owner, rows, turn, chatOf, posts, session, screen, running, reading>>

\* The reply is saved; that of a stopped turn, too, when Stop came too late, and that of a turn
\* whose chat was emptied since.
TurnCompletes(n) ==
    /\ turn[n] \in {"runs", "closing"}
    /\ rows' = [rows EXCEPT ![chatOf[n]] = Append(@, Row(n, "desk", ""))]
    /\ turn' = [turn EXCEPT ![n] = "completed"]
    /\ UNCHANGED <<known, expired, owner, chatOf, posts, session, screen, running, reading>>

TurnFails(n) ==
    /\ turn[n] \in {"runs", "closing"}
    /\ turn' = [turn EXCEPT ![n] = "failed"]
    /\ UNCHANGED <<known, expired, owner, rows, chatOf, posts, session, screen, running, reading>>

\* A desk posts what it found, after the turn.
DeskPosts(chat) ==
    /\ owner[chat] # 0 /\ posts < MaxOthers
    /\ posts' = posts + 1
    /\ rows' = [rows EXCEPT ![chat] = Append(@, Row(posts + 1, "post", ""))]
    /\ UNCHANGED <<known, expired, owner, turn, chatOf, session, screen, running, reading>>

LoadMoves(load) == LoadRead(load) \/ LoadDenied(load) \/ LoadLands(load) \/ LoadFails(load)
RequestMoves == ChatCreated \/ PostTaken \/ RequestFails \/ RequestDenied \/ StoppedReplay
StreamEnds == StreamBreaks \/ StreamFails \/ StreamCompletes
RecoveryMoves == Recovered \/ RecoveryFails
TurnEnds(n) == TurnCompletes(n) \/ TurnFails(n)

Next ==
    \/ Refresh \/ Type \/ Send \/ Stop \/ Expires
    \/ RequestMoves \/ StreamEnds \/ RecoveryMoves
    \/ \E stray \in strays : StrayArrives(stray)
    \/ \E load \in loads : LoadMoves(load)
    \/ \E n \in Sends : TurnEnds(n)
    \/ \E chat \in Chats : DeskPosts(chat)

Spec == Init /\ [][Next]_vars

\* The network answers or fails and a turn ends (Turn: EveryTurnEnds); the traveler owes nothing.
FairSpec ==
    /\ Spec
    /\ WF_vars(RequestMoves) /\ WF_vars(RecoveryMoves) /\ WF_vars(StreamEnds)
    /\ WF_vars(\E load \in loads : load.why # "effect" /\ LoadMoves(load))
    /\ \A n \in Sends : WF_vars(TurnEnds(n))

-----------------------------------------------------------------------------
(* What the page promises.                                                  *)

\* What one transcript has of this list, another one has in the same place.
Keeps(list, messages, later) ==
    \A i \in DOMAIN messages :
        messages[i].who # "pending" /\ messages[i] \in Range(list)
            => i \in DOMAIN later /\ later[i] = messages[i]

OnTheWay(n) == \E stray \in strays : stray.n = n

\* A message on the screen that the desk still has stays there, in its place: no load that is
\* late, and no copy of the device, takes the transcript back (loadChat's generation); what leaves
\* the screen has been deleted at the desk (reset).
TranscriptNeverGoesBack == [][Keeps(rows[route], shown, shown')]_vars

\* A send that is over was taken by the desk, or its text is back in the composer; or it was
\* stopped, and the newest question on the screen then says the same (send's catch).
SentTextIsSomewhere ==
    [][Sending /\ send'.stage = "idle" =>
          \/ turn[send.n] # "none"
          \/ draft' = send.words
          \/ send.stage = "reconciling" /\ LastAsks(shown', send.words)]_vars

\* "The message never reached the desk - hand it back to the composer": what was stopped, and
\* neither was taken nor may still be, is back in the composer (ChatPage.tsx:302).
StoppedTextIsHandedBack ==
    [][send.stage = "reconciling" /\ send'.stage = "idle"
          /\ turn[send.n] = "none" /\ ~OnTheWay(send.n)
       => draft' = send.words]_vars

\* One send is one question at the desk, also when its post was replayed (streamTurn, api).
ASendIsStoredOnce ==
    \A c, d \in Chats : \A i \in DOMAIN rows[c], j \in DOMAIN rows[d] :
        /\ rows[c][i].who = "user" /\ rows[d][j].who = "user"
        /\ rows[c][i].of = rows[d][j].of
        => c = d /\ i = j

\* A burst of refused requests makes one guest: no more guests than sessions that went stale
\* (recoveryInFlight).
GuestsFollowExpiry == me <= 1 + expired

\* Every send comes to an end, or the page is gone (send's finally).
SendSettles == \A n \in Sends : (send.n = n /\ Sending) ~> (send.n = n => ~Sending \/ ~page)
=============================================================================
