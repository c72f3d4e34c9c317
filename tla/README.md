# TravelClaw in TLA+

This directory is a verification project for TravelClaw: TLA+ modules translated from
its source, TLC configurations that model-check them on small instances, and proofs
that TLAPS checks for every value of the constants. The reference for every definition
is the code under `apps/` and `packages/`; `PROJECT.json` maps each definition to its lines.

## The system

TravelClaw is a travel desk. A gateway (NestJS over SQLite, one Node process) takes a
traveler's message, runs a *turn* (a language model in a loop with tools, or the desk's
own rendering), and may open *desks*: background searches of fares or rooms whose offers
the traveler can hold. A browser worker drives pages for sources without an API, and a
web client watches turns over a stream, a poll and a socket.

Node runs one handler at a time, so in every module **an action is the code between two
awaits**. What can go wrong lies between the actions: another tab, Stop, a sign-in, a
deletion, a timer or a restart comes in between.

### Inventory

| Part | State | Operations | What is hard | What makes it correct |
| --- | --- | --- | --- | --- |
| Desks (`tasks.service.ts`) | `agent_tasks`, `offers`, in-memory hold requests | open, schedule/finish, decide, holdOffer/performHold, storeOffers, stopBrowser | search, hold and decision interleave; chat deleted under a coroutine; restart | decisions are final; one hold at a time; a shown hold is real; every desk reports |
| Browser runs (`browser.service.ts`) | `active` map, `browser_runs` | research, save, stop, release, onModuleInit | late answers, ownership changes, slots, crash | capacity; no fake running state; observations stay with their owner |
| Model calls (`model.service.ts`, `retry.ts`) | attempt, budget, what was streamed | completeOpenAi, withRetry, readOpenAiStream | pacing, broken streams, silence, late timers, Stop | no sentence twice; words never taken back; bounded time |
| Chat turn (`gateway.service.ts`, `turn.ts`) | tool results, pass, draft | handleIncoming, completeTurn, runModelRounds, startDesks | Stop at every await; drafts; budget over passes; chat gone or moved | screen equals reply; budget; effects come with a reply; it ends |
| Live turns (`turn-stream.ts`, `live-turns.service.ts`, `chat.controller.ts`) | the stream, window by chat | attach, running, send, stop, complete, fail | eviction, concurrent turns | a running turn can be polled |
| Chats (`sessions.service.ts`) | `sessions`, `messages` | open, get, append, reset, remove, recentHistory | a turn is in flight meanwhile | nothing outlives a chat |
| Tool plan, tools (`tool-calls.ts`, `tools.ts`) | the calls of a turn | planToolCalls, runToolPlan, routeTools, runTool | limits over passes, dead, repeated and unreadable calls | limits; dead tools rest; every call is answered |
| Provider searches (`providers.ts`, `adapters/`) | `queryKeySources` | searchFlights, searchStays, the three adapters, requestProviderHold | several sources and dates at once, partial failure, shared limits | every offer is accounted for and quoted as the vendor did; no source crowds another out; it ends |
| HTTP (`http.ts`) | - | fetchWithTimeout, fetchWithRetry | bodies after the timer, non-idempotent methods | a write is never repeated |
| Accounts (`auth.service.ts`, guard) | `users`, `auth_sessions` | guest, register, login, Google, logout, absorbGuest | races on an address, guest promoted or absorbed | one row per address; no chat lost |
| Rate limiters | sliding windows | take | order in which several are spent | a refusal costs nothing |
| Browser worker (`engine.ts`, `semaphore.ts`) | contexts, timers, network slots | open, act, close, block, sweep | lost calls, timers that fire while a context opens, pages that change, slow closes | places come back; a verdict means closed; what is observed was on the page |
| Memory, trips, heartbeat, tool runs | rows, FTS index | remember, createFromOutline, scan | repeated notes, index in step | no duplicates; one notice per trip |
| Web client (`ChatPage.tsx`, `turnStream.ts`, `liveTurn.ts`, `api.ts`) | messages, draft, card, the guest's session | send, stop, loadChat, watchLiveTurn, restoreSession | loads that overtake each other, stale sessions, replays, stream and poll racing | one send is one question, and is accounted for; the transcript keeps its place |
| Connectors, channels, workspace, agents, pairing, model catalogue, events, health, config | little or none | lookups | - | - |
| Extraction, routing, rendering, prompt text | none | pure text functions | natural language | out of TLC's reach |

Interactions: `handleIncoming` calls `completeTurn`, which calls the provider that
`ModelService` wraps (`ModelCall` is what a pass of `Turn` waits for); a complete search
goes to `startDesks`, which opens rows and runs `finish` (`Desk` is what the `desks` wait
of `Turn` stands for); a desk's browser run calls the worker (`BrowserWorker`), its provider
search the sources (`ProviderSearch`), and the tools of a pass are planned by `ToolPlan`;
`SessionsService.remove` cascades over `agent_tasks`, `offers` and `browser_runs`;
`AuthService.absorbGuest` moves chats under all of them. On the other side of the wire
`ChatPage` posts a turn and loads its chat, while `LiveTurn` reads the turn's `TurnStream`.

## Modules

| Module | What it is |
| --- | --- |
| `Desk` | desks, offers, browser runs, holds, restart |
| `DeskPromise` | abstract specification: what a traveler may rely on |
| `DeskProofs` | theorems about `Desk` |
| `ModelCall` | one model call with retries, stream and clock |
| `CallPromise` | abstract specification: what a turn may rely on when it asks the model |
| `ModelCallProofs` | theorems about `ModelCall` |
| `Turn` | chat turns, their screens, the chats they land in and the live window |
| `TurnProofs` | theorems about `Turn` |
| `Accounts` | guests, accounts, sign-in, and whose a chat is |
| `ChatOwner` | abstract specification: how a chat changes hands |
| `AccountsProofs` | theorems about `Accounts` |
| `BrowserWorker` | the browser worker and the gateway's calls to it |
| `BrowserWorkerProofs` | theorems about `BrowserWorker` |
| `ToolPlan` | the tools of one turn: model's calls, router's picks, refusals, verdicts |
| `ToolPlanProofs` | theorems about `ToolPlan` |
| `Offers` | pure: what an entry of a vendor's answer becomes |
| `ProviderSearch` | one search over sources and dates, on top of `Offers` |
| `ProviderSearchProofs` | theorems about `ProviderSearch` |
| `ChatPage` | the web client's page: send, Stop, loads, recovery of a guest |
| `ChatPageProofs` | theorems about `ChatPage` and `LiveTurn` |
| `LiveTurn` | the live card: stream and poll over one turn |
| `MCDesk`, `MCModelCall`, `MCTurn`, `MCAccounts`, `MCBrowserWorker`, `MCToolPlan`, `MCProviderSearch`, `MCChatPage`, `MCLiveTurn` | instances for TLC |

Definitions introduced by a comment that begins with "Variant:" are plausible bugs of
the definition below them; no specification uses them. `PROJECT.json` names, for every
property, the variant that breaks it.

### Desk

`status`, `run`, `hold`, `owner` are columns of `agent_tasks`, `browser_runs`, `offers`
and `sessions`. `job` is the await at which a desk's `finish` coroutine is suspended:
the timer of `schedule`, a provider, the browser loop or the release of its lease; it is
also membership in `BrowserService.active`. `asking` and `busyDesk` are the in-memory sets
of `holdOffer`; `wire` and `adrift` are the requests a provider may still honour, waited
for or not. `answered` is a history variable. A restart forgets everything but the rows
and runs `onModuleInit`. Offers are opaque: prices, sources and texts decide nothing here,
but any of them may come with a hold its source confirmed (`readHold`) and is stored so.
All the turns of the browser loop that leave the run running are one stay in `browser`.

`DeskPromise` says it without rows or coroutines: a desk searches, answers and is decided
once; an answer may bring offers that are booked, other holds are asked for one at a time
and never for an offer that is booked. `Desk` implements it under the mapping at the end of the module.

### ModelCall

Time passes in units (`Tick`); `due` is the pending timer, which the event loop may run up
to `Lag` late. `screen` is the sequence of pieces the traveler's screen was handed, each
marked with its attempt; `blank` is whitespace, `note` the cut-off line. A call that is
not `watched` reads one JSON body. Failures go through `Failed`, which is `withRetry`
after its catch with this call's `shouldRetry` and `delayFor`. As the code does, a wait a
vendor names above `MaxDelay` ends the call; the comment at `model.service.ts:56-60` and
`docs/retries.md:44` speak of `MaxWait` there, which a named wait never reaches.

`CallPromise` is the call as `completeTurn` sees it, without attempts, timers or a vendor: the
screen grows while nobody has pressed Stop; the call ends once, with the text the screen was
handed, with the desk rendering where no word was shown, or aborted. A Stop during the lookup
that follows a 404 is not heard: then the screen is empty and all the call can still return is
the desk rendering. `ModelCall` implements it; a kept part of an answer counts as an answer
(`Verdict`).

### Turn

Each turn has the state of one `handleIncoming`: `pc` is what it awaits, `round` the pass
of `runModelRounds` (numbered from 1; `Rounds + 1` is the narration), `results` and `ran`
the tool results it holds and the tools it executed, `found` the kinds of results,
`screen` the reply text on the screen by the pass that wrote it. `transcript` is the
`messages` table, `toolRuns` the tool log, `kept` the turns that left a note or a trip.
`live` and `stamp` are `LiveTurnsService`. What a provider call may do is `CallPromise`: `Delta`
is its `Show`, `ModelSaid` and `ModelWasSilent` its `Say`, `ProviderGaveUp` its `GiveUp` (which
asks neither for a screen nor for a turn that was not stopped), `Abort` its `Stop`. That it
ends is `CallEnds`. The line that says a partial answer was cut off is `ModelCall`'s.

### Accounts

`users`, `owner` and `holder` are the columns of `users`, `sessions.user_id` and
`auth_sessions.user_id`; a token is named after the request it was issued to. `pin` is
`guestPins`. A sign-in request waits in `pc` while a password is hashed or verified or Google
is asked, and `req` holds what it read before: its guest (`currentGuestId`) and, for a login,
the row of its address. What the code does after the wait is one action, with the
controller's `forgetGuestPin` and the answer. A request may present any token issued so far,
stale or not, from any browser; what counts is the guest it yields. The limiters only refuse. `Settlers` are accounts an earlier
build left with a scrypt hash, which a login renews in a second wait. A deleted row takes its
tokens along (`SessionsLeft`), as the schema's cascade does. One thing is modelled against
the documentation: `currentGuestId` falls back to the pin for a stale token too, although
`docs/architecture.md:102-104` says the pin is never consulted for one; `readUser` does not.

`Accounts` implements `ChatOwner`: a chat moves at most once, when all the chats of a guest
go to an account. `Desk` and `Turn` move chats from guests to accounts one at a time
(`ChatMoves`), which `ChatOwner` allows them to.

### BrowserWorker

Two processes. The worker's side is a context per run (`stage`, from `context` over `routing`
and `open` to `closing`), its lifetime timer, `blocked` and the AbortController, what `act()`
awaits (`act`, `doing`), the network semaphore (`active`, `queue`, `sent`) and the `page` that
may change by itself at any moment, also between the snapshot (`snap`) the model quotes and
the observation, and between the two awaits of `pageState`: the text it reads (`TextSeen`,
`seen`) and the count of password fields, after which the caller decides (`Checked`,
`Verified`, `TextRead`). So a price that goes away during that count is still observed; what
holds is that the page showed it since the verification began (`showed`, a history variable)
and asked for nothing. The gateway's side is the loop of `research`: `run`, `leased`, `cancel`. Calls
on the `wire` may be lost, arrive after their caller gave up, or find another process.
What a page shows is an opaque model value with a URL; `Walls` are pages whose text asks for
consent or a CAPTCHA, `Gates` those with a password field; which control is grounded in the traveler's words is a choice.

### ToolPlan

`Next` is `runModelRounds`: the model is asked (`ModelAsks`), each of its calls is considered
in order (`Consider`), the router adds its picks in the first pass (`Route`), the plan runs
tool by tool (`RunTool`). `log` holds what ran, `barred` and `misread` what was answered with a
sentence, `refused` how many results those were. A call's arguments are the fields they give and
the `head` that `toolCallKey` compares: it keeps 600 characters, so calls that differ only after
them are one call. What a tool may answer depends on the hints it is run with (`Answers`).

### Offers and ProviderSearch

`Offers` translates the adapters' candidates, one operator each, and the one shape the desk
trusts: price, currency, stops as a number and as told in words, hold. `ProviderSearch` reads
the question (`Query`), samples a month, starts a lane per source and date, and follows each
lane through looking places up, requests with a retry, a key that moves from the header to the
URL on a 401, an unreadable or silent body, and Stop. `Shown`, `Dropped` and `Limited` are what
the round robin, the limits and the accounting tell.

### ChatPage

One tab, one visit. `send` is the await at which `send()` stands; `loads` are the `loadChat`
calls that are out, each with the `generation` it was started with; `recoveries` is
`recoveryInFlight`; `mirror` is the guest's own copy of a chat; `strays` are posts that were given
up and may still arrive. The gateway's side keeps the sessions it accepts, rows and turns, and
the chat each post was for. A text of `/new` empties the chat instead of asking (`Stores`): a
system note is all that is left, and replies and posts of the desks that come later follow it.
`Recovered` resumes a guest whose session is known and makes another one otherwise. What a
stream says before its result is `LiveTurn`'s.

### LiveTurn

`told` is what a `TurnStream` wrote, in order, each event with what the stream's live picture was
once it was written; the tab has `heard` a prefix of it. The watcher of each send (`polls`) reads
the chat's turn of the window every tick and lands its answer whenever it does, also on the card
of the next send (`post`). `card` is what `applyLiveEvent` and `adoptLiveTurn` make of both. The
names that `ChatPage` has as well are told apart here (`LiveSpec`, `liveVars`, `LiveStop`, ...),
because one module proves about both. A word is its
turn and its number, so a word that was taken back differs from one said again.
Both sides keep the same tail of a long reply (`REPLY_TAIL`); the replies of the model are shorter.

## Runs

All sets in a configuration are small; the bounds are named constants.

| Run | Question | Instance and why it is enough |
| --- | --- | --- |
| `desk` | are the rows consistent, does the desk keep its promise, and does every desk report? | one chat, two desks, both offers on one desk (two clicks can collide), two slots, so that the rule of one run per chat is what refuses, and a gateway that may restart at any moment |
| `desk_restart_marks` | violation, see Findings | as `desk` |
| `model_call` | is one call honest, does it implement what a turn relies on, and does it end? | three attempts; base 1, cap 2, budget 9, attempt 5, so that two attempts, a pause and a third do and do not fit; asks below, between and above the limits; two pieces per call |
| `turn` | does one turn keep screen and effects together, what can two do to each other, and do they end? | `Scenes` says which turns meet. One of any kind on its own: three passes (first, middle, last) and a ceiling of two tools, so that one pass can leave one, and refusals can exceed it. Or two, in one chat or in two (`Places`): one is told to remember something, which runs tools and narrates, while the other resets; or both search, or one searches and one resets. One live place. `TaskDelay` 1, so that a search that is not watched ends before its desks |
| `accounts` | can sign-ins that race split an address, take a guest apart or sign in to the wrong row? | one browser, four calls, one old account and two free rows, three addresses, one Google identity, two chats by one key, so that a fold can fail. Free rows, free addresses, requests and chats are interchangeable (`SYMMETRY`, which is sound for these safety properties); chats with different keys, which move together, are the theorem's |
| `worker` | do capacity, verdicts and observations hold, and does every place come back? | two actions and two requests with one network slot, so that each limit is reached and a request waits; four pages, one a CAPTCHA, one with a password field, three with the same URL, so that a URL is no proof of a page; lost calls, Stop and a restart of the worker. Either one run on a busy site with all four pages, or two runs on quiet sites for one place |
| `tools` | do limits hold over a turn, do dead tools rest, is every call answered? | the code's own ceiling, passes and limit (3, 5, 2); eight batches (none, loops, repeats, unreadable calls, a stranger, more than the ceiling) over three messages: watched and online, offline, and router only |
| `search` | is a search accounted for, fair, true to the vendor, and does it end? | three offers per search and five per month, so that sources and dates both run out of turns, three samples of which today cuts one; two attempts; five installs (one source that looks places up, two sources, four that each lack something, none, no network); five questions; four bodies that differ in prices, stops, holds and currency; two searches of one process, which share what was learned of keys |
| `chat` | is one send one question, is it accounted for, does the transcript keep its place? | one send from the landing page or a chat with or without the same question, one expiry, one bump, one message of a desk, three texts (equal and different ones, `/new`), guests and accounts. What a second send meets of the first (a stray of it, a running turn, a reply after a reset) is beyond this run: the safety theorems hold for any number of sends |
| `chat_repeat` | violation, see Findings | one text, which the chat already has as its last question; nothing expires or is refreshed |
| `live` | does what was heard stay on the card, and does the floor work? | `Scripts` says how much the turns may say: one send of two words, so that a reply can be longer than another, be taken back and grow again; or two sends of one word each, where an answer to the first may land on the second. Both beside a turn of another tab |
| `chat_doubled` | violation, see Findings | one send of two words |

`Refusals` (0..1 per pass) and `MaxDeltas` bound what a model may send; more of either
repeats states already reached, since only "some" and "none" are told apart.
`CHECK_DEADLOCK FALSE` is stated because every instance really ends: desks are decided or
removed, calls, turns, searches, runs and sends are over.

### Fairness

Only what the code schedules itself is fair.

- `Desk`: `setTimeout` of `schedule`, provider calls (each has a timeout), the 120 s run timer,
  the loop that sees it, and the release that gives up after 3 s.
- `ModelCall`: the clock and the timers (attempt, pause, model list).
- `Turn`: provider calls end (that is `CallEnds`), the desk's own provider writes its chunks,
  tools and desks end.
- `BrowserWorker`: the lifetime timer fires, and Playwright opens and closes a context; the
  browser, its page and the network owe nothing else. Weak fairness is enough, since none of
  them is taken back.
- `ProviderSearch`: a lane moves, because each request has its timer; and what has come is collected.
- `ChatPage`: a request, a recovery, a stream or a load a send awaits is answered or fails,
  and a turn ends (`EveryTurnEnds`).
- `LiveTurn`: a read is sent (weakly fair) and, asked for again and again, answered at last
  (strongly fair, since it may be lost any finite number of times). Nothing is assumed of the stream.

Nothing is assumed of an upstream, a provider's answer, a page, or a traveler: no Stop,
decision, hold, removal or sign-in ever has to happen. `Accounts` and `ToolPlan` have no
fairness: their properties are about what may not happen.

## Proofs

TLC shows a property on a small instance; the theorems show it for every value of the
constants, under the named assumption of each module (`DeskAssumption` and so on), which TLC evaluates
on every run. They say what kind of value a constant is and, of limits, how they compare.

- **`DeskProofs`**: all safety properties of `Desk`, its two action properties, and the
  refinement of `DeskPromise`. The properties are not inductive alone: the invariant
  `IInv` adds that the maps of `holdOffer` name exactly the requests in flight
  (`HoldMapsAgree`), a granted request is held (`GrantedIsHeld`), an offer being asked for
  is not confirmed (`AskedIsUnconfirmed`), and an offer row belongs to a desk that has
  answered (`OffersFollowTheAnswer`). Decisions are final because `finish` is the only
  writer of a working desk (`FinishOwnsTheDesk`). Slots are counted with the cardinality
  facts of the library; the refinement goes action by action.
- **`ModelCallProofs`**: all safety properties of `ModelCall` that hold, and how far past its
  deadline a call can run (`CallIsBounded`; that the deadline does not is among the Disagreements), for any policy
  with base <= cap <= longest wait and any timeouts. `IInv` adds what a phase
  says about screen and clock: a call that asks or pauses has shown nothing
  (`ShownOnlyWhileReading`), silence lies behind the current attempt (`SilenceIsBehind`) and
  each pending timer is due within its share of the bound (`TimerShare`). `CallKeepsPromise` is
  the refinement of `CallPromise`: with `IInv` and `StopIsHeard` (a stopped call is over or at
  the model list) each step is a step of the promise or invisible to the turn.

- **`TurnProofs`**: all safety properties of `Turn`, for any number of turns, chats, passes,
  tools and places. `IInv` adds what a running turn has written so far: nothing in the
  transcript before its reply (`NothingBeforeTheReply`), the screen text of its current pass
  only (`DraftIsOfThisPass`); that owners only move forward (`OwnersOnlyMove`), that executed
  tools are among the results (`RunsAreResults`, which makes the ceiling inductive), and
  that a stamp is at most the number of turns that entered the window (`StampsAreInOrder`),
  so that each new turn is the newest and eviction takes the oldest.

- **`AccountsProofs`**: all safety properties of `Accounts` and the refinement of `ChatOwner`,
  for any number of users, browsers, requests and chats with any keys. `IInv` adds what makes
  them inductive: only accounts have identities (`IdentitiesAreOfAccounts`), what a waiting
  handler carries (`RequestsFit`), that holders and owners exist (`HoldersAreThere`,
  `OwnersAreThere`), and that a guest owns only chats it opened, so that a chat never moves
  twice. `FoldKeepsIInv` and `NewAccountKeepsIInv` are the two ways a sign-in ends; the action
  properties follow from `AnswerSteps` and `OwnerSteps`, which say what a step may do at all.

- **`BrowserWorkerProofs`**: all safety properties of `BrowserWorker`, for any number of runs and
  any limits. `IInv` adds that a run opens at most one session (`OpenedOnce`), that a session in
  the map, and one that will enter it, has its timer (`LeaseIsTimed`), that requests wait only in
  a session that is open, behind a full set (`WaitersFit`), that an action beyond the last
  one closes its session (`TakenFits`), and that the text read during a verification was shown
  in it (`ReadWasShown`). The action properties follow from what a single
  step may write (`Quiet`, `Quoted`).

- **`ToolPlanProofs`**: all safety properties of `ToolPlan`, for any ceiling, passes, limits, batches
  and texts. `IInv` joins what has run with what is still planned (`Pending`): their keys are
  distinct (`Distinct`), no planned tool was dead when it was planned (`Resting`), limited tools
  are counted over both (`Counted`), and every call looked at so far was heard (`Heard`). The router's order is
  shown to be one: ranks are distinct, so `RouteTools` repeats no tool.

- **`ProviderSearchProofs`**: all safety properties of `ProviderSearch`, for any installs, questions,
  bodies and limits. `IInv` ties a lane's request to where its key travels, to what its host was
  heard to refuse, and to a source the desk knows (`Sane`). The rest is about the result.
  `NobodyCrowdsOut` is about the list that is shown. The list of a month takes turns among dates whose
  own lists took turns among sources, so it holds the first few offers of each date (`DatesBegin`),
  and the first few turns of a round robin are fair like all of them (`FirstTurns`, `FairTurns`): on
  a date of which the list leaves an offer of a source out, another source is at most one ahead.
  Over several dates that adds up to one for each (`OneMoreEach`), and to no less in the code: five
  dates may show fourteen offers of the first source and ten of the second while the second has more.
  `NothingGoesUncounted` needs sums: `SumFunction` of the community
  modules folds in an order that CHOOSE picks, so the lemmas from `MinimalSet` to `SumWithout` show
  that it is the sum in any order, of two functions, of disjoint groups, and without zeros; they
  reason about a smallest counterexample, which needs no induction theorem with an operator.
  Then the sums over the lanes of each date are one sum over all answers. `NothingIsMadeUp` follows an
  offer back: what is shown was dealt (`ShownIsKept`), what was dealt was kept, what was kept is
  an entry that became an offer (`KeptAreValid`), and each adapter prices that one by a quote
  (`OfferIsQuoted`).

- **`ChatPageProofs`**: the safety properties the runs check of `ChatPage` and `LiveTurn`, for any number of
  sends, guests, texts and words. `GuestInv` says that a recovery in flight was asked as the guest
  the tab still is, and that this guest's session is counted once; so a burst of refusals makes
  one guest. `PostInv` says that a send whose request may still go out, or whose post was given
  up, is not at the desk, and never both: so one send is one question. `PageInv` is about the
  transcript, in parts: what a send carries at each await (`SendInv`); identities only count up, and
  no chat belongs to a later one (`OwnerInv`); a load that is back has what its chat once was, and
  the newest one has what is shown (`LoadInv`), which is what `generation` is for; a copy on
  the device is what its chat once was too (`MirrorInv`); and what is shown stands in its place in the
  rows of the open chat, but for what a reset deleted and for questions not yet taken, which come
  last (`ShownInv`, `RowsInv`). A list "once was" a chat when what both have stands in the same
  places (`Within`, `Keeps`); that this lasts, although a reset empties the chat and starts over,
  needs that a message is new when it is written, in the chat and in every list there is
  (`WrittenInv`: a question in them is of a turn that was taken, a reply of one that is over, a post
  of one that was counted). From it, no message that the desk still has moves or leaves the page while
  its chat is open (`TranscriptKeepsItsPlace`), and a send that ends was taken or is back in the
  composer, or was stopped behind a question that says the same (`EndedSendIsAccountedFor`; that the
  text is then gone is a Finding). For `LiveTurn`, `CardInv` says that the picture kept with each
  event is the one before it with the event applied, and that the card is as far along as the picture
  of the last event heard. Reach alone is not enough, for a discarded draft may be the longer one:
  `WordsInv` adds that pictures of one draft only grow (`ToldIs`), that an answer on its way is
  such a picture of its turn (`ReadIs`), and that the card has all words of a picture told no
  earlier than what was heard (`OnCard`). An older answer is then too short to be taken, until a draft
  is taken back (`HeardIsNotTakenBack`). What becomes of it then, and what a late
  answer of another send does, is among the Disagreements.

Only model-checked: the liveness properties (`EveryDeskReports`, `CallEnds`, `EveryTurnEnds`,
`PlacesComeBack`, `SearchIsTold`, `SendSettles`, `FloorShowsTheTurn`), which need fairness and so
lie beyond what the prover can do. Every invariant and action property that a run checks is a
theorem. The theorems also state properties that no
run repeats (`OneHoldRequestPerDesk`, `DecisionIsFinal`, `BrowserCapacity`, `AnswerWasShown`,
`SilenceIsAskedOnceMore`, `ToolBudget`, `NoChatIsLost`, `NoCallTwice`, `KeyStaysInHeader` and others).

## Findings

Statements of the repository that the code does not keep, each shown by a violation run:

- **A desk that works for ever after a restart** (`desk_restart_marks`): `onModuleInit` looks
  for `running` browser rows; a crash after the verdict was saved and before the desk was
  patched leaves none. (Desks that died in a provider search are not looked for at all.)
- **A repeated question that is gone** (`chat_repeat`): after a Stop, the page knows a message by its
  text; when the chat's last question says the same, one that never reached the desk is held to be there
  and is not handed back.
- **Words shown twice on the live card** (`chat_doubled`): a poll that is ahead of the stream
  puts a longer reply on the card, and the stream's deltas, which that reply already
  contains, are appended to it until the turn is saved.

## Disagreements

Smaller ones, without a run of their own. The named definitions are in the modules, and TLC
refutes each when it is given as an INVARIANT or PROPERTY to the module's passing configuration.

- `SearchFinishedAfterASource` (`Desk`): `finish` marks a desk `completed` for every search that
  returns, also one that no source answered.
- `BudgetBoundsTheCall` (`ModelCall`): a pause whose timer is late leaves no budget,
  `remainingMs || ATTEMPT_TIMEOUT_MS` (`model.service.ts:230`) reads the zero as none, and the
  attempt that follows has a whole attempt's time, although `docs/retries.md:73` says "The budget
  bounds the whole call". With `Lag` 0, timers that are never late, TLC finds no violation.
- `KeptAnswerSaysItStopped` (`ModelCall`): the line that says an answer was cut off goes to the
  live screen only and is not part of the kept answer.
- `StoppedTurnIsNotRescued` (`Turn`): `docs/architecture.md:267` says a stopped turn is cancelled
  rather than rescued; a stopped turn may still save the desk rendering.
- `ResetForgetsEarlierTurns` (`Turn`): a reset does not reach turns in flight.
- `SignInLosesNoChat` (`Accounts`): the one UPDATE of `absorbGuest` fails when guest and account
  share a key, and the sign-in goes on without the chats.
- `FailuresThatMayPassAreRetryable` (`ProviderSearch`): a city lookup that timed out is reported as
  `bad_query`, which the turn never asks again (`docs/architecture.md:220`).
- `StopsAreTheVendors` (`ProviderSearch`): a nonstop round trip is told as "1 stop"
  (`providers.ts:897-898`, `providers.test.ts:211`).
- `StopEndsTheCall` (`ProviderSearch`): a body that is being read is ended neither by Stop nor by
  the timer (`http.ts:99-101`).
- `DiscardedDraftStaysGone` (`LiveTurn`): a poll read before `reply.reset` is longer than the card
  it then lands on and puts the discarded draft back (`liveTurn.ts:92`, against `:16-18`).
- `FinishedStepStaysFinished` (`LiveTurn`): the poll ranks rows, the stream does not: its older
  event replaces the row the poll brought (`ChatPage.tsx:496-502`, against `liveTurn.ts:109`).
- `StoppedWatcherIsSilent` (`LiveTurn`): `stopped` is not looked at after the await, so an answer
  of one send lands on the card of the next (`liveTurn.ts:63`, against `:25`).

Read while modelling, and not shown by a definition:

- A watcher follows the first turn it hears of, which may be an older tab's
  (`liveTurn.ts:58-61`).
- A `/new` that is stopped after it was taken is handed back to the composer: its text is never
  a question of the chat (`ChatPage.tsx:300-301`).
- A bump while a send runs reloads the chat and drops the optimistic bubble; a Stop before a
  chat exists leaves it.
- The error branch of `send` hands back a draft the desk may already have, and both branches
  overwrite what was typed meanwhile. After a failed send from the landing page the chat that was
  created is not navigated to.
- A recovery that fails takes the page away, and the text with it, although `RequireAuth.tsx:48`
  says "Nothing is lost".
- A guest made by a recovery that lands after a sign-in replaces the account in the page
  (`auth.tsx:126-129`).
- SerpApi stays carry the requested currency before the one the answer echoes
  (`serpapi.ts:311-316`, `docs/architecture.md:393`); flightapi counts a missing stop count as 0.
- The hourly browser budget of a traveler is spent before the install's is asked
  (`browser.service.ts:127`), and the per-IP guest limiter before the guest's own
  (`chat.controller.ts:255`): a refusal costs a budgeted turn.
- `messagesRaw` reads the first 200 messages, oldest first (`sessions.service.ts:204`): in a
  longer chat the model no longer sees what was just said.

## Not modelled

- Texts: routing by words, extraction of dates and places, prompts, rendering. They are pure
  functions of strings, which TLC cannot enumerate usefully.
- Rate limiters: windows in memory that only refuse; every guarded call may be refused.
- Memory (deduplication of notes, FTS index), trips, heartbeat, connectors, channels, workspace,
  agents, model catalogue: single synchronous statements or files, with nothing between their
  steps. `Turn` keeps that a turn may leave a note or a trip.
- The pairing gate, configuration, health, events and their socket: stateless, or best effort by
  design; a bump of the socket is `Refresh` of `ChatPage`.
- The cache of learned browser procedures: it changes how many steps a run takes.
- The other pages of the web client, which render rows.
- The 200-message window of `messagesRaw`: transcripts of the models are short.
