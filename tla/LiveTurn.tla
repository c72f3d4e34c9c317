------------------------------ MODULE LiveTurn ------------------------------
(***************************************************************************)
(* The live card of a running turn, read two ways: the response of the     *)
(* post that started it (streamTurn, applyLiveEvent) is the fast path, and *)
(* a watcher that asks for the turn every 700 ms (watchLiveTurn,           *)
(* adoptLiveTurn) is the floor under it.  Both are fed by one TurnStream   *)
(* of the gateway, and the watcher finds it through LiveTurnsService.      *)
(*                                                                         *)
(* One chat, the sends of one tab, one after the other, and one turn that  *)
(* somebody else runs in the same chat (turn 0, which has said nothing     *)
(* yet).  A reply is the sequence of its pieces; a turn has one step, a    *)
(* tool.  Events of a stream may be held up for any time, as by a proxy,   *)
(* and then arrive in order.                                               *)
(***************************************************************************)
EXTENDS Integers, Sequences, FiniteSets

CONSTANTS MaxPosts,  \* posts of the tab (bound of the model)
          MaxWords,  \* pieces of the replies of one turn (bound of the model)
          Scripts    \* how many pieces their turns may have, post by post (bound of the model)

ASSUME LiveTurnAssumption ==
    /\ {MaxPosts, MaxWords} \subseteq Nat
    /\ Scripts \subseteq Seq(0..MaxWords)

Posts == 1..MaxPosts
Turns == 0..MaxPosts
Nobody == -1

VARIABLES
    liveTurn, \* what became of a turn
    told,     \* the events of a turn, as its TurnStream wrote them, and the snapshot after each
    window,   \* LiveTurnsService: the turn of the chat, Nobody without one
    post,     \* the post of the send that runs, or of the last one
    stage,    \* what it awaits
    heard,    \* how many events of its stream arrived
    card,     \* live
    polls     \* the watcher of each send

stream == <<liveTurn, told, window>>
tab == <<post, stage, heard>>
liveVars == <<liveTurn, told, window, post, stage, heard, card, polls>>

Steps == {"none", "running", "done"}
Pieces == [turn : Turns, n : 1..MaxWords]

\* A piece of the reply, the reply taken back, the step, or the end.
Kinds == {"reply.delta", "reply.reset", "running", "done", "turn.completed", "turn.failed"}
Event(kind, n) == [kind |-> kind, n |-> n]

Cards == [reply : Seq(Pieces), step : Steps]
Events == [kind : Kinds, n : 0..MaxWords, live : Cards]

Blank == [reply |-> <<>>, step |-> "none"]

Watcher(at) == [at |-> at, turn |-> Nobody, read |-> Blank, followed |-> Nobody, stopped |-> FALSE]

LiveTypeOK ==
    /\ liveTurn \in [Turns -> {"none", "runs", "stopped", "over"}]
    /\ told \in [Turns -> Seq(Events)]
    /\ window \in Turns \cup {Nobody}
    /\ post \in 0..MaxPosts
    /\ stage \in {"idle", "posting", "reading", "loading"}
    /\ heard \in Nat
    /\ card \in Cards
    /\ polls \in [Posts -> [at : {"off", "asleep", "back"}, turn : Turns \cup {Nobody},
                            read : Cards,
                            followed : Turns \cup {Nobody}, stopped : BOOLEAN]]

LiveInit ==
    /\ liveTurn = [t \in Turns |-> "none"]
    /\ told = [t \in Turns |-> <<>>]
    /\ window = Nobody
    /\ post = 0 /\ stage = "idle" /\ heard = 0
    /\ card = Blank
    /\ polls = [n \in Posts |-> Watcher("off")]

\* applyLiveEvent on the card; TurnStream.record on the gateway's snapshot.
Apply(live, event, t) ==
    CASE event.kind = "reply.delta" -> [live EXCEPT !.reply = Append(@, [turn |-> t, n |-> event.n])]
      [] event.kind = "reply.reset" -> [live EXCEPT !.reply = <<>>]
      [] event.kind \in Steps -> [live EXCEPT !.step = event.kind]
      [] OTHER -> live

\* TurnStream.snapshot, after the first k events of a turn.
Snapshot(t, k) == IF k = 0 THEN Blank ELSE told[t][k].live
Now(t) == Snapshot(t, Len(told[t]))

Rank(step) == IF step = "none" THEN 0 ELSE IF step = "running" THEN 1 ELSE 2

\* Variant: the poll's words are taken as they are.
AdoptWholesale(live, snapshot) == [snapshot EXCEPT !.step = live.step]

\* adoptLiveTurn, mergeSteps, furtherAlong: the longer reply, the step that is further along.
Adopt(live, snapshot) ==
    [reply |-> IF Len(snapshot.reply) > Len(live.reply) THEN snapshot.reply ELSE live.reply,
     step |-> IF Rank(live.step) > Rank(snapshot.step) THEN live.step ELSE snapshot.step]

Said(t) == Cardinality({i \in DOMAIN told[t] : told[t][i].kind = "reply.delta"})

InScript(posts, t, words) ==
    \E script \in Scripts :
        /\ posts <= Len(script)
        /\ \A n \in 1..posts : (IF n = t THEN words ELSE Said(n)) <= script[n]

-----------------------------------------------------------------------------
(* The tab.                                                                 *)

\* send: a blank card, the watcher, the post.  What the last turn said, nobody reads again.
Post ==
    /\ stage = "idle" /\ post < MaxPosts /\ InScript(post + 1, post + 1, 0)
    /\ post' = post + 1
    /\ stage' = "posting"
    /\ heard' = 0
    /\ card' = Blank
    /\ polls' = [polls EXCEPT ![post + 1] = Watcher("asleep")]
    /\ told' = [told EXCEPT ![post] = <<>>]
    /\ UNCHANGED <<liveTurn, window>>

\* A turn begins: it can be found (attach), in the place of the chat's last one.
Begins(t) ==
    /\ liveTurn' = [liveTurn EXCEPT ![t] = "runs"]
    /\ window' = t
    /\ UNCHANGED told

LivePostTaken ==
    /\ stage = "posting"
    /\ Begins(post)
    /\ stage' = "reading"
    /\ UNCHANGED <<post, heard, card, polls>>

\* finally: no card, and a watcher that is told to stop, though not the read it has out.
Ends ==
    /\ stage' = "idle"
    /\ card' = Blank
    /\ polls' = [polls EXCEPT ![post] =
                    IF @.at = "back" THEN [@ EXCEPT !.stopped = TRUE] ELSE Watcher("off")]
    /\ heard' = 0
    /\ UNCHANGED post

PostFails ==
    /\ stage = "posting"
    /\ Ends
    /\ UNCHANGED stream

\* TurnStream.stop: the response of the turn is closed.
StreamClosed == [liveTurn EXCEPT ![post] = IF @ = "runs" THEN "stopped" ELSE @]

\* The next event of the stream; the last one ends it.
Hears ==
    /\ stage = "reading" /\ heard < Len(told[post])
    /\ LET event == told[post][heard + 1]
       IN  \/ /\ event.kind = "turn.completed"
              /\ stage' = "loading"
              /\ UNCHANGED <<post, heard, card, polls>>
           \/ event.kind = "turn.failed" /\ Ends
           \/ /\ event.kind \notin {"turn.completed", "turn.failed"}
              /\ card' = Apply(card, event, post)
              /\ heard' = heard + 1
              /\ UNCHANGED <<post, stage, polls>>
    /\ UNCHANGED stream

\* The connection breaks.
LiveBreaks ==
    /\ stage = "reading"
    /\ liveTurn' = StreamClosed
    /\ Ends
    /\ UNCHANGED <<told, window>>

\* stop: the watcher's read that is out is given up with the stream.
LiveStop ==
    /\ stage \in {"posting", "reading"}
    /\ stage' = "loading"
    /\ liveTurn' = StreamClosed
    /\ polls' = [polls EXCEPT ![post] = Watcher("off")]
    /\ UNCHANGED <<told, window, post, heard, card>>

\* loadChat is over.
Loaded ==
    /\ stage = "loading"
    /\ Ends
    /\ UNCHANGED stream

-----------------------------------------------------------------------------
(* The watcher.                                                             *)

Polled(n, to) ==
    polls' = [polls EXCEPT ![n] = IF to.stopped THEN Watcher("off") ELSE [to EXCEPT !.at = "asleep"]]

\* Variant: a chat without a turn ends the watch.
PollReadOnce(n) ==
    /\ polls[n].at = "asleep"
    /\ polls' = [polls EXCEPT ![n] =
                    IF window # Nobody /\ liveTurn[window] = "runs"
                    THEN [@ EXCEPT !.at = "back", !.turn = window, !.read = Now(window)]
                    ELSE Watcher("off")]
    /\ UNCHANGED <<stream, tab, card>>

\* GET sessions/:id/turn, LiveTurnsService.running: the chat's last turn, while it runs.
PollRead(n) ==
    /\ polls[n].at = "asleep"
    /\ window # Nobody /\ liveTurn[window] = "runs"
    /\ polls' = [polls EXCEPT ![n] =
                    [@ EXCEPT !.at = "back", !.turn = window, !.read = Now(window)]]
    /\ UNCHANGED <<stream, tab, card>>

\* The first turn it hears of is followed; the card there is by now takes what it says.
PollLands(n) ==
    /\ polls[n].at = "back"
    /\ LET poll == polls[n]
           followed == IF poll.followed = Nobody THEN poll.turn ELSE poll.followed
       IN  /\ Polled(n, [poll EXCEPT !.followed = followed, !.turn = Nobody, !.read = Blank])
           /\ card' = IF poll.turn = followed /\ stage # "idle"
                      THEN Adopt(card, poll.read) ELSE card
    /\ UNCHANGED <<stream, tab>>

\* An answer that is lost; the next read tries again.
PollLost(n) ==
    /\ polls[n].at = "back"
    /\ Polled(n, [polls[n] EXCEPT !.turn = Nobody, !.read = Blank])
    /\ UNCHANGED <<stream, tab, card>>

-----------------------------------------------------------------------------
(* The gateway.                                                             *)

OtherTurn ==
    /\ liveTurn[0] = "none"
    /\ Begins(0)
    /\ UNCHANGED <<tab, card, polls>>

\* TurnStream.send: the snapshot takes the event, then the response.
Tells(t, event) ==
    /\ told' = [told EXCEPT ![t] =
                   Append(@, [kind |-> event.kind, n |-> event.n, live |-> Apply(Now(t), event, t)])]
    /\ UNCHANGED <<window, tab, card, polls>>

\* A turn writes, takes a started answer back to choose a tool, runs the tool (consume, step).
TurnMoves(t) ==
    /\ liveTurn[t] = "runs"
    /\ \/ /\ Now(t).step # "running"
          /\ Said(t) < MaxWords /\ InScript(post, t, Said(t) + 1)
          /\ Tells(t, Event("reply.delta", Said(t) + 1))
       \/ Now(t).reply # <<>> /\ Now(t).step = "none" /\ Tells(t, Event("reply.reset", 0))
       \/ Now(t).reply = <<>> /\ Now(t).step = "none" /\ Tells(t, Event("running", 0))
       \/ Now(t).step = "running" /\ Tells(t, Event("done", 0))
    /\ UNCHANGED liveTurn

\* TurnStream.complete and fail; a stopped turn ends without anybody to read it.
LiveTurnEnds(t) ==
    /\ liveTurn' = [liveTurn EXCEPT ![t] = "over"]
    /\ \/ /\ liveTurn[t] = "runs"
          /\ \E kind \in {"turn.completed", "turn.failed"} : Tells(t, Event(kind, 0))
       \/ liveTurn[t] = "stopped" /\ UNCHANGED <<told, window, tab, card, polls>>

LiveNext ==
    \/ Post \/ LivePostTaken \/ PostFails \/ Hears \/ LiveBreaks \/ LiveStop \/ Loaded
    \/ \E n \in Posts : PollRead(n) \/ PollLands(n) \/ PollLost(n)
    \/ OtherTurn
    \/ \E n \in Posts : TurnMoves(n)
    \/ \E t \in Turns : LiveTurnEnds(t)

LiveSpec == LiveInit /\ [][LiveNext]_liveVars

\* The watcher's reads are answered again and again; the stream may be held up for ever.
FairLiveSpec ==
    /\ LiveSpec
    /\ \A n \in Posts : WF_liveVars(PollRead(n)) /\ SF_liveVars(PollLands(n))

-----------------------------------------------------------------------------
(* What the card promises.                                                  *)

\* The words of a card, and whether the first k events of the send's turn take a draft back.
WordsOf(live) == {live.reply[i] : i \in DOMAIN live.reply}
TakenBack(k) == \E i \in 1..k : told[post][i].kind = "reply.reset"

\* Whatever the polls bring, what the stream has said stays on the card: the step is as far along,
\* and until the page hears a draft taken back, or takes words of another turn, every word of the
\* reply is there, as it was told by then or later (adoptLiveTurn: "never take a step backwards").
HeardStaysOnTheCard ==
    stage = "reading" =>
        /\ Rank(card.step) >= Rank(Snapshot(post, heard).step)
        /\ ~TakenBack(heard) /\ (\A word \in WordsOf(card) : word.turn = post) =>
              \E k \in heard..Len(told[post]) : WordsOf(Snapshot(post, k)) \subseteq WordsOf(card)

\* Words of a turn reach the card even if its stream is held up for ever, unless the turn takes
\* them back or ends, or another turn of the chat stands in the watcher's way
\* (watchLiveTurn: the floor under the stream).
FloorShowsTheTurn ==
    \A n \in Posts :
        LET watched == post = n /\ stage = "reading" /\ liveTurn[n] = "runs" /\ window = n
                          /\ polls[n].followed \in {Nobody, n} /\ polls[n].turn \in {Nobody, n}
                          /\ Now(n).reply # <<>>
        IN  watched ~> (card.reply # <<>> \/ ~watched)

\* liveTurn.ts says that what the poll returns is folded in without moving the card backwards,
\* so that the two paths can race freely: the reply on the card is one that the turn had.
LiveReplyIsTheTurns ==
    stage = "reading" =>
        \E k \in 0..Len(told[post]) : card.reply = Snapshot(post, k).reply

-----------------------------------------------------------------------------
(* Other statements of the repository the code does not keep.               *)

\* liveTurn.ts says "without ever moving it backwards": a word of a draft that the page has heard
\* taken back does not return to the card.
DiscardedDraftStaysGone ==
    stage = "reading" =>
        \A k \in 1..heard :
            told[post][k].kind = "reply.reset" => WordsOf(Snapshot(post, k - 1)) \cap WordsOf(card) = {}

\* liveTurn.ts says "a finished row is never rolled back to running".
FinishedStepStaysFinished ==
    [][stage = "reading" /\ stage' = "reading" /\ card.step = "done" => card'.step = "done"]_liveVars

\* liveTurn.ts says that a watcher follows a turn "until the caller stops it": an answer that comes
\* back to a watcher that was stopped changes no card.
StoppedWatcherIsSilent ==
    [][\A n \in Posts : polls[n].at = "back" /\ polls[n].stopped /\ polls'[n].at = "off"
          => card' = card]_liveVars
=============================================================================
