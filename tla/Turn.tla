-------------------------------- MODULE Turn --------------------------------
(***************************************************************************)
(* One chat turn, from the traveler's message to the saved reply:          *)
(* GatewayService.handleIncoming, the agentic loop it runs (completeTurn,  *)
(* runModelRounds), the live stream it writes on (TurnStream), the window  *)
(* a poll reads it through (LiveTurnsService) and the chat it lands in     *)
(* (SessionsService).  Several turns run at once, also in the same chat,   *)
(* while a chat may be removed, reset, or moved to another account.        *)
(* Between two awaits a turn is one step, as in the program.               *)
(***************************************************************************)
EXTENDS Integers, Sequences, FiniteSets

CONSTANTS Turns,     \* turns that may be started (bound of the model)
          Scenes,    \* which of them meet, and what each may be (bound of the model)
          Chats,     \* sessions
          Places,    \* the chats they are sent to
          Rounds,    \* passes of a turn: AGENTIC_TOOL_ROUNDS when it is watched
          MaxTools,  \* MAX_TOOLS_PER_TURN
          TaskDelay, \* config.taskDelayMs
          MaxLive    \* LiveTurnsService.maxChats

ASSUME TurnAssumption ==
    /\ IsFiniteSet(Turns)
    /\ Places \subseteq [Turns -> Chats]
    /\ Rounds \in Nat \ {0} /\ MaxTools \in Nat
    /\ TaskDelay \in Nat /\ MaxLive \in Nat \ {0}

VARIABLES
    \* the database
    owner,       \* the user a chat belongs to, or why it has no row
    transcript,  \* the messages of a chat, in order
    toolRuns,    \* the turns with rows in tool_runs, by chat
    kept,        \* the turns that left a memory note or a draft trip
    \* the turns in flight
    chat, by, watched, request, engine,  \* what was asked, where, by whom, of what
    pc,          \* what the turn awaits
    round,       \* the pass of the loop it is in
    ran,         \* tools it has executed
    results,     \* how many tool results it holds, refusals included
    found,       \* what kinds of result are among them
    screen,      \* the reply text on the traveler's screen
    stopped,     \* TurnStream.stopped, and the turn's signal
    outcome,     \* how the turn ended for the traveler
    reply,       \* history: the pass the saved reply came from
    \* LiveTurnsService
    live,        \* the turns in bySession
    stamp        \* the order in which turns entered it

database == <<owner, transcript, toolRuns, kept>>
asked == <<chat, by, watched, request, engine>>
loop == <<pc, round, ran, results, found>>
ending == <<outcome, reply>>
window == <<live, stamp>>
vars == <<owner, transcript, toolRuns, kept, chat, by, watched, request, engine,
          pc, round, ran, results, found, screen, stopped, outcome, reply, live, stamp>>

Users == {"guest", "account"}
Requests == {"ask", "remember", "tools", "search", "new"}
Desk == 0    \* the desk's own rendering, where a pass of the model has its number
NoReply == -1
Passes == Desk..(Rounds + 1)

Messages == [role : {"user", "assistant", "system"}, turn : Turns]
Pieces == [pass : Passes, what : {"word", "blank"}]
Kinds == {"ok", "retryable", "final"}   \* final: blocked, or failed beyond a retry
Refusals == 0..1   \* calls rejected or blocked in one pass (bound of the model)

TypeOK ==
    /\ owner \in [Chats -> Users \cup {"none", "removed"}]
    /\ transcript \in [Chats -> Seq(Messages)]
    /\ toolRuns \in [Chats -> SUBSET Turns]
    /\ kept \subseteq Turns
    /\ chat \in [Turns -> Chats]
    /\ by \in [Turns -> Users]
    /\ watched \in [Turns -> BOOLEAN]
    /\ request \in [Turns -> Requests]
    /\ engine \in [Turns -> {"model", "desk"}]
    /\ pc \in [Turns -> {"idle", "model", "tools", "narrating", "desks", "done"}]
    /\ round \in [Turns -> 0..(Rounds + 1)]
    /\ ran \in [Turns -> Nat] /\ results \in [Turns -> Nat]
    /\ found \in [Turns -> SUBSET Kinds]
    /\ screen \in [Turns -> SUBSET Pieces]
    /\ stopped \in [Turns -> BOOLEAN]
    /\ outcome \in [Turns -> {"none", "completed", "failed", "ended"}]
    /\ reply \in [Turns -> Passes \cup {NoReply}]
    /\ live \subseteq Turns
    /\ stamp \in [Turns -> Nat]

-----------------------------------------------------------------------------
HasRow(c) == owner[c] \in Users

Question(t) == [role |-> "user", turn |-> t]
Answer(t) == [role |-> "assistant", turn |-> t]
ResetNote(t) == [role |-> "system", turn |-> t]
Says(c, message) == \E i \in DOMAIN transcript[c] : transcript[c][i] = message

\* TurnStream.finished: answered, failed, or stopped.
Finished(t) == stopped[t] \/ pc[t] = "done"

\* roundStreamed.streamed: the pass in progress has written on the screen.
Streamed(t) == \E p \in screen[t] : p.pass = round[t]
Wrote(t) == [pass |-> round[t], what |-> "word"] \in screen[t]

Init ==
    /\ owner = [c \in Chats |-> "none"]
    /\ transcript = [c \in Chats |-> <<>>]
    /\ toolRuns = [c \in Chats |-> {}]
    /\ kept = {}
    /\ chat \in Places
    /\ by = [t \in Turns |-> "guest"]
    /\ watched = [t \in Turns |-> FALSE]
    /\ request = [t \in Turns |-> "ask"]
    /\ engine = [t \in Turns |-> "desk"]
    /\ pc = [t \in Turns |-> "idle"]
    /\ round = [t \in Turns |-> 0]
    /\ ran = [t \in Turns |-> 0] /\ results = [t \in Turns |-> 0]
    /\ found = [t \in Turns |-> {}]
    /\ screen = [t \in Turns |-> {}]
    /\ stopped = [t \in Turns |-> FALSE]
    /\ outcome = [t \in Turns |-> "none"]
    /\ reply = [t \in Turns |-> NoReply]
    /\ live = {}
    /\ stamp = [t \in Turns |-> 0]

-----------------------------------------------------------------------------
(* handleIncoming, up to its first await.                                   *)

\* attach: the newest turn of a chat takes its place, and the chat that has been quiet
\* longest makes room.
Attach(t) ==
    LET others == {s \in live : chat[s] # chat[t]} IN
    /\ stamp' = [stamp EXCEPT ![t] = Cardinality({s \in Turns : stamp[s] > 0}) + 1]
    /\ live' = {t} \cup {s \in others :
                          Cardinality({r \in others : stamp[r] > stamp[s]}) < MaxLive - 1}

\* A chat that is gone, or another user's, is answered 404 before anything is written.
TurnRefused(t, u) ==
    /\ pc[t] = "idle"
    /\ owner[chat[t]] \notin {"none", u}
    /\ pc' = [pc EXCEPT ![t] = "done"]
    /\ outcome' = [outcome EXCEPT ![t] = "failed"]
    /\ by' = [by EXCEPT ![t] = u]
    /\ UNCHANGED <<database, chat, watched, request, engine, round, ran, results, found,
                   screen, stopped, reply, window>>

\* The chat is opened or found, the live turn is registered, and the message is routed:
\* "/new" clears the chat, "/tools" is answered at once, a fare or room search is
\* acknowledged and goes to the desks, and anything else to completeTurn.
TurnStarts(t, u, r, l, e) ==
    LET c == chat[t]
        said == CASE r = "new" -> <<ResetNote(t)>>
                  [] r \in {"tools", "search"} -> transcript[c] \o <<Question(t), Answer(t)>>
                  [] OTHER -> Append(transcript[c], Question(t))
        next == CASE r \in {"new", "tools"} -> "done"
                  [] r = "search" -> IF l \/ TaskDelay = 0 THEN "desks" ELSE "done"
                  [] r = "ask" /\ e = "model" -> "model"
                  [] OTHER -> "tools"
    IN
    /\ pc[t] = "idle"
    /\ owner[c] \in {"none", u}
    /\ owner' = [owner EXCEPT ![c] = u]
    /\ transcript' = [transcript EXCEPT ![c] = said]
    /\ by' = [by EXCEPT ![t] = u]
    /\ request' = [request EXCEPT ![t] = r]
    /\ watched' = [watched EXCEPT ![t] = l]
    /\ engine' = [engine EXCEPT ![t] = e]
    /\ e = "desk" \/ r \in {"ask", "remember"}
    /\ pc' = [pc EXCEPT ![t] = next]
    \* The loop's first pass, or its last one when only the router picks the tools; a
    \* plain POST has a single pass.
    /\ round' = [round EXCEPT ![t] = IF next = "model" /\ l THEN 1 ELSE Rounds]
    /\ outcome' = [outcome EXCEPT ![t] = IF next = "done" THEN "completed" ELSE "none"]
    /\ reply' = [reply EXCEPT ![t] = IF r \in {"tools", "search"} THEN Desk ELSE NoReply]
    /\ IF l THEN Attach(t) ELSE UNCHANGED window
    /\ UNCHANGED <<toolRuns, kept, chat, ran, results, found, screen, stopped>>

-----------------------------------------------------------------------------
(* handleIncoming, after its last await.                                    *)

\* What the traveler is told when the turn throws.
Thrown(t) == IF stopped[t] THEN "ended" ELSE "failed"

\* Variant: a turn that was stopped ends as one even when it has saved its reply.
AsFoundUnlessStopped(t) ==
    IF owner[chat[t]] = by[t] /\ ~stopped[t] THEN "completed" ELSE Thrown(t)

\* sessions.get at the end: the chat must still be the traveler's.
AsFound(t) == IF owner[chat[t]] = by[t] THEN "completed" ELSE Thrown(t)

\* Variant: the message is inserted without the chat being looked up.
SaveReplyUnchecked(t, source) ==
    /\ transcript' = [transcript EXCEPT ![chat[t]] = Append(@, Answer(t))]
    /\ reply' = [reply EXCEPT ![t] = source]
    /\ outcome' = [outcome EXCEPT ![t] = AsFound(t)]

\* append throws when the chat has no row.
SaveReply(t, source) ==
    \/ /\ HasRow(chat[t])
       /\ transcript' = [transcript EXCEPT ![chat[t]] = Append(@, Answer(t))]
       /\ reply' = [reply EXCEPT ![t] = source]
       /\ outcome' = [outcome EXCEPT ![t] = AsFound(t)]
    \/ /\ ~HasRow(chat[t])
       /\ outcome' = [outcome EXCEPT ![t] = Thrown(t)]
       /\ UNCHANGED <<transcript, reply>>

\* The draft of the pass in progress is taken back (reply_reset).
Cleared(t) == IF Streamed(t) /\ ~stopped[t] THEN {} ELSE screen[t]

\* The reply is on the screen already, or is put there in one piece; then the note, the
\* trip, the tool log and the message are written, in this order.
Replies(t, source, draft) ==
    LET streamed == \E p \in draft : p.pass = round[t] IN
    /\ screen' = [screen EXCEPT
                    ![t] = IF ~watched[t] \/ stopped[t] \/ streamed
                           THEN draft
                           ELSE draft \cup {[pass |-> source, what |-> "word"]}]
    /\ kept' \in IF "ok" \in found[t] THEN {kept, kept \cup {t}} ELSE {kept}
    /\ toolRuns' = IF results[t] > 0
                   THEN [toolRuns EXCEPT ![chat[t]] = @ \cup {t}]
                   ELSE toolRuns
    /\ SaveReply(t, source)
    /\ pc' = [pc EXCEPT ![t] = "done"]
    /\ UNCHANGED <<owner, asked, round, ran, results, found, stopped, window>>

-----------------------------------------------------------------------------
(* completeTurn: the model's passes.  A pass whose words were watched left   *)
(* them on the screen; a provider that gives up answers with the desk's      *)
(* rendering and has shown no word (CallPromise, which ModelCall keeps).     *)

\* A piece of the answer arrives while the screen is open.
Delta(t, what) ==
    /\ pc[t] \in {"model", "narrating"}
    /\ watched[t] /\ ~stopped[t]
    /\ engine[t] = "desk" => what = "word"
    /\ screen' = [screen EXCEPT ![t] = @ \cup {[pass |-> round[t], what |-> what]}]
    /\ UNCHANGED <<database, asked, loop, stopped, ending, window>>

ModelSaid(t) == engine[t] = "model" /\ ~stopped[t] /\ (watched[t] => Wrote(t))
ModelWasSilent(t) == engine[t] = "model" /\ ~stopped[t] /\ ~Wrote(t)

\* A 404 is looked up beyond the reach of Stop, so this also answers a stopped turn.
ProviderGaveUp(t) == engine[t] = "model" /\ ~Wrote(t)

\* The router picks the tools, once, and the model only narrates.
RouterOnly(t) == request[t] = "remember" \/ engine[t] = "desk"

\* What is left of the turn's ceiling (planToolCalls' remaining).
Ceiling(t) == IF results[t] < MaxTools THEN MaxTools - results[t] ELSE 0

\* Variant: the draft stays on the screen while the tools run.
RoundWantsToolsKeepingDraft(t) ==
    /\ pc[t] = "model" /\ ~stopped[t]
    /\ Ceiling(t) > 0
    /\ pc' = [pc EXCEPT ![t] = "tools"]
    /\ UNCHANGED <<database, asked, round, ran, results, found, screen, stopped, ending,
                   window>>

\* The model (or the router, in the first pass) chose work: the draft is taken back.
RoundWantsTools(t) ==
    /\ pc[t] = "model" /\ ~stopped[t]
    /\ Ceiling(t) > 0
    /\ screen' = [screen EXCEPT ![t] = Cleared(t)]
    /\ pc' = [pc EXCEPT ![t] = "tools"]
    /\ UNCHANGED <<database, asked, round, ran, results, found, stopped, ending, window>>

\* The next pass, or the narration once the passes are used up.
Proceed(t) ==
    /\ round' = [round EXCEPT ![t] = @ + 1]
    /\ pc' = [pc EXCEPT ![t] = IF round[t] < Rounds THEN "model" ELSE "narrating"]
    /\ UNCHANGED ending

\* Stop, seen by throwIfAborted or by the provider call it cancelled.
Abort(t) ==
    /\ pc' = [pc EXCEPT ![t] = "done"]
    /\ outcome' = [outcome EXCEPT ![t] = "ended"]
    /\ UNCHANGED <<round, reply>>

\* Variant: each tool is logged as it ends.
ToolsEndLogging(t, n, refused, kinds) ==
    /\ pc[t] = "tools"
    /\ n <= Ceiling(t)
    /\ IF RouterOnly(t) THEN refused = 0 ELSE n + refused > 0
    /\ Cardinality(kinds) <= n + refused /\ (kinds = {} => n + refused = 0)
    /\ "ok" \in kinds => n > 0
    /\ ran' = [ran EXCEPT ![t] = @ + n]
    /\ results' = [results EXCEPT ![t] = @ + n + refused]
    /\ found' = [found EXCEPT ![t] = @ \cup kinds]
    /\ toolRuns' = IF n > 0 /\ HasRow(chat[t])
                   THEN [toolRuns EXCEPT ![chat[t]] = @ \cup {t}]
                   ELSE toolRuns
    /\ IF stopped[t] THEN Abort(t) ELSE Proceed(t)
    /\ UNCHANGED <<owner, transcript, kept, asked, screen, stopped, window>>

\* n tools have run and some calls were refused; a router-only turn may have had none to
\* run.  Stop ends the tools early and is looked at before the next call of the model.
ToolsEnd(t, n, refused, kinds) ==
    /\ pc[t] = "tools"
    /\ n <= Ceiling(t)
    /\ IF RouterOnly(t) THEN refused = 0 ELSE n + refused > 0
    /\ Cardinality(kinds) <= n + refused /\ (kinds = {} => n + refused = 0)
    /\ "ok" \in kinds => n > 0
    /\ ran' = [ran EXCEPT ![t] = @ + n]
    /\ results' = [results EXCEPT ![t] = @ + n + refused]
    /\ found' = [found EXCEPT ![t] = @ \cup kinds]
    /\ IF stopped[t] THEN Abort(t) ELSE Proceed(t)
    /\ UNCHANGED <<database, asked, screen, stopped, window>>

\* Words and no work: the answer.  With nothing run yet even silence is, in the desk's
\* rendering.
RoundAnswers(t) ==
    /\ pc[t] = "model"
    /\ \/ ModelSaid(t) /\ Replies(t, round[t], screen[t])
       \/ ProviderGaveUp(t) /\ Replies(t, Desk, screen[t])
       \/ ModelWasSilent(t) /\ results[t] = 0 /\ Replies(t, Desk, screen[t])

CanRetry(t) == "retryable" \in found[t]

\* Variant: the pass that promised a retry is not counted.
RoundPromisesForever(t) ==
    /\ pc[t] = "model"
    /\ ModelSaid(t)
    /\ results[t] > 0
    /\ screen' = [screen EXCEPT ![t] = Cleared(t)]
    /\ IF CanRetry(t) /\ results[t] < MaxTools
       THEN UNCHANGED <<round, pc>>
       ELSE /\ pc' = [pc EXCEPT ![t] = "narrating"]
            /\ round' = [round EXCEPT ![t] = Rounds + 1]
    /\ UNCHANGED <<database, asked, ran, results, found, stopped, ending, window>>

\* A promise to try again is no answer: ask again while something could differ and there
\* is room, or narrate what there is.
RoundPromises(t) ==
    /\ pc[t] = "model"
    /\ ModelSaid(t)
    /\ results[t] > 0
    /\ screen' = [screen EXCEPT ![t] = Cleared(t)]
    /\ IF CanRetry(t) /\ round[t] < Rounds /\ results[t] < MaxTools
       THEN /\ round' = [round EXCEPT ![t] = @ + 1]
            /\ UNCHANGED pc
       ELSE /\ pc' = [pc EXCEPT ![t] = "narrating"]
            /\ round' = [round EXCEPT ![t] = Rounds + 1]
    /\ UNCHANGED <<database, asked, ran, results, found, stopped, ending, window>>

\* A silent model after real work gets the narration pass.
RoundSilent(t) ==
    /\ pc[t] = "model"
    /\ ModelWasSilent(t)
    /\ results[t] > 0
    /\ screen' = [screen EXCEPT ![t] = Cleared(t)]
    /\ pc' = [pc EXCEPT ![t] = "narrating"]
    /\ round' = [round EXCEPT ![t] = Rounds + 1]
    /\ UNCHANGED <<database, asked, ran, results, found, stopped, ending, window>>

\* The last pass cannot call tools.  A promise over a failed tool is replaced by the
\* desk's rendering; the desk's own provider returns its text also when it was stopped.
Narrated(t) ==
    /\ pc[t] = "narrating"
    /\ \/ ModelSaid(t) /\ Replies(t, round[t], screen[t])
       \/ ModelSaid(t) /\ found[t] \ {"ok"} # {} /\ Replies(t, Desk, Cleared(t))
       \/ ModelWasSilent(t) /\ Replies(t, Desk, screen[t])
       \/ ProviderGaveUp(t) /\ Replies(t, Desk, screen[t])
       \/ /\ engine[t] = "desk"
          /\ watched[t] /\ ~stopped[t] => Wrote(t)
          /\ Replies(t, round[t], screen[t])

\* The provider call was cancelled and throws.
ModelAborts(t) ==
    /\ pc[t] \in {"model", "narrating"}
    /\ stopped[t] /\ engine[t] = "model"
    /\ Abort(t)
    /\ UNCHANGED <<database, asked, ran, results, found, screen, stopped, window>>

\* schedule() is over: the desks have reported, and nothing of the turn throws but the
\* last look at the chat.
DesksEnd(t) ==
    /\ pc[t] = "desks"
    /\ pc' = [pc EXCEPT ![t] = "done"]
    /\ outcome' = [outcome EXCEPT ![t] = AsFound(t)]
    /\ UNCHANGED <<database, asked, round, ran, results, found, screen, stopped, reply,
                   window>>

-----------------------------------------------------------------------------
(* Meanwhile.                                                               *)

\* Stop, or a tab that went away: res is closed before the turn is over.
Stop(t) ==
    /\ pc[t] \notin {"idle", "done"}
    /\ watched[t] /\ ~stopped[t]
    /\ stopped' = [stopped EXCEPT ![t] = TRUE]
    /\ UNCHANGED <<database, asked, loop, screen, ending, window>>

\* Variant: asking for a chat's turn forgets it.
PollForgets(c) ==
    /\ \E t \in live : chat[t] = c
    /\ live' = {t \in live : chat[t] # c}
    /\ UNCHANGED <<database, asked, loop, screen, stopped, ending, stamp>>

\* GET sessions/:id/turn drops the chat's turn from the window once it is over.
Poll(c) ==
    /\ \E t \in live : chat[t] = c /\ Finished(t)
    /\ live' = {t \in live : chat[t] # c \/ ~Finished(t)}
    /\ UNCHANGED <<database, asked, loop, screen, stopped, ending, stamp>>

RemoveChat(c) ==
    /\ HasRow(c)
    /\ owner' = [owner EXCEPT ![c] = "removed"]
    /\ transcript' = [transcript EXCEPT ![c] = <<>>]
    /\ toolRuns' = [toolRuns EXCEPT ![c] = {}]
    /\ UNCHANGED <<kept, asked, loop, screen, stopped, ending, window>>

\* absorbGuest: the guest signs in to an account it had before.
ChatMoves(c) ==
    /\ owner[c] = "guest"
    /\ owner' = [owner EXCEPT ![c] = "account"]
    /\ UNCHANGED <<transcript, toolRuns, kept, asked, loop, screen, stopped, ending, window>>

-----------------------------------------------------------------------------
PassEnds(t) ==
    \/ RoundWantsTools(t)
    \/ RoundAnswers(t)
    \/ RoundPromises(t)
    \/ RoundSilent(t)
    \/ Narrated(t)
    \/ ModelAborts(t)

SomeToolsEnd(t) ==
    \E n \in 0..MaxTools, refused \in Refusals, kinds \in SUBSET Kinds :
        ToolsEnd(t, n, refused, kinds)

\* What a message may ask for, by its words, beside the turns that have started: as in some scene.
Fits(t, r) ==
    \E scene \in Scenes :
        /\ t \in DOMAIN scene /\ r \in scene[t]
        /\ \A s \in Turns \ {t} : pc[s] = "idle" \/ (s \in DOMAIN scene /\ request[s] \in scene[s])

Next ==
    \/ \E t \in Turns :
          \/ \E u \in Users : TurnRefused(t, u)
          \/ \E u \in Users, r \in Requests, l \in BOOLEAN, e \in {"model", "desk"} :
                Fits(t, r) /\ TurnStarts(t, u, r, l, e)
          \/ \E what \in {"word", "blank"} : Delta(t, what)
          \/ PassEnds(t)
          \/ SomeToolsEnd(t)
          \/ DesksEnd(t)
          \/ Stop(t)
    \/ \E c \in Chats : Poll(c) \/ RemoveChat(c) \/ ChatMoves(c)

Spec == Init /\ [][Next]_vars

DeskWrites(t) == engine[t] = "desk" /\ Delta(t, "word")

\* A provider call ends (ModelCall: CallEnds), the desk's own provider writes, tools and
\* desks end; no model has to write, and nobody to stop, poll, remove or sign in.
FairSpec ==
    /\ Spec
    /\ \A t \in Turns :
          /\ WF_vars(PassEnds(t)) /\ WF_vars(DeskWrites(t))
          /\ WF_vars(SomeToolsEnd(t)) /\ WF_vars(DesksEnd(t))

-----------------------------------------------------------------------------
(* What a turn promises.                                                    *)

\* A draft the turn took back -- because the model then chose tools, promised another
\* try or fell silent -- never stays beside the reply: the words a traveler watched are
\* the words that were saved (reply_reset, answered.streamed in completeTurn).
ScreenIsTheReply ==
    \A t \in Turns :
        outcome[t] = "completed" /\ watched[t] /\ ~stopped[t]
        /\ request[t] \in {"ask", "remember"} =>
            /\ screen[t] # {}
            /\ \A p \in screen[t] : p.what = "word" => p.pass = reply[t]

\* However late a turn answers, a removed chat stays without messages (remove, append).
NothingOutlivesItsChat ==
    \A c \in Chats : owner[c] = "removed" => transcript[c] = <<>>

\* Over all its passes a turn executes no more than MAX_TOOLS_PER_TURN tools
\* (runModelRounds, planToolCalls).
ToolBudget == \A t \in Turns : ran[t] <= MaxTools

\* A note, a trip or a tool log of a turn that saved no reply means the chat was removed
\* while it ran: an abandoned turn leaves nothing else behind (handleIncoming).
EffectsComeWithAReply ==
    \A t \in Turns :
        t \in kept \/ t \in toolRuns[chat[t]] =>
            reply[t] # NoReply \/ owner[chat[t]] = "removed"

\* A traveler who is told that the turn failed or ended finds no reply of it in the
\* chat, unless the chat is by then another user's (handleIncoming, runStream).
NoReplyAfterAFailure ==
    \A t \in Turns :
        outcome[t] \in {"failed", "ended"} /\ Says(chat[t], Answer(t)) =>
            owner[chat[t]] # by[t]

\* A poll finds the turn that runs in a chat unless a newer turn of the chat, or MaxLive
\* newer turns of others, took its place (LiveTurnsService).
RunningTurnIsVisible ==
    \A t \in Turns :
        stamp[t] > 0 /\ ~Finished(t) =>
            \/ t \in live
            \/ \E s \in Turns : stamp[s] > stamp[t] /\ chat[s] = chat[t]
            \/ Cardinality({s \in Turns : stamp[s] > stamp[t]}) >= MaxLive

\* Every turn that starts ends (runModelRounds, handleIncoming).
EveryTurnEnds == \A t \in Turns : pc[t] # "idle" ~> pc[t] = "done"

-----------------------------------------------------------------------------
(* Statements of the repository the code does not keep.                     *)

\* docs/architecture.md:267 -- a stopped turn is cancelled rather than rescued: no
\* half-written answer is saved or replaced by desk rendering.
StoppedTurnIsNotRescued ==
    \A t \in Turns :
        stopped[t] /\ request[t] = "ask" => ~Says(chat[t], Answer(t))

\* sessions.service.ts:177 -- after a reset, earlier turns are gone from this chat.
ResetForgetsEarlierTurns ==
    \A c \in Chats : \A i, j \in DOMAIN transcript[c] :
        transcript[c][i].role = "system" /\ transcript[c][j].role = "assistant" /\ i < j =>
            \E k \in i..j : transcript[c][k] = Question(transcript[c][j].turn)
=============================================================================
