-------------------------------- MODULE Desk --------------------------------
(***************************************************************************)
(* A flight or stay desk, from the message that opens it to the traveler's *)
(* decision: the rows of agent_tasks, offers and browser_runs, the gateway *)
(* coroutines that write them (TasksService, BrowserService), the provider *)
(* that may honour a hold, and a gateway restart.                          *)
(*                                                                         *)
(* Node runs one handler at a time, so an action is the code between two   *)
(* awaits.  What a coroutine waits for is the value of job or wire.        *)
(***************************************************************************)
EXTENDS Naturals, FiniteSets

CONSTANTS Chats,       \* rows of sessions
          Tasks,       \* ids newId() hands to agent_tasks
          Offers,      \* ids newId() hands to offers
          ChatOf,      \* agent_tasks.session_id of a task
          DeskOf,      \* offers.task_id of an offer
          MaxRuns,     \* browser runs the gateway keeps at once (4 in the code)
          CanRestart   \* whether the gateway process may die and come back

Guest == "guest"       \* a browser that never signed in
Account == "account"   \* the account its chats are folded into by a sign-in

ASSUME DeskAssumption ==
    /\ ChatOf \in [Tasks -> Chats]
    /\ DeskOf \in [Offers -> Tasks]
    /\ MaxRuns \in Nat
    /\ CanRestart \in BOOLEAN

VARIABLES
    owner,    \* sessions.user_id, "removed" once the chat is deleted
    status,   \* agent_tasks.status, "unopened" before the row, "removed" after it
    run,      \* status inside browser_runs.state_json, "none" without a row
    hold,     \* offers.hold, "absent" without a row
    job,      \* what the desk's finish() coroutine awaits
    abort,    \* why the run's AbortController fired
    runner,   \* the owner research() read when it started
    asking,   \* TasksService.holdRequests: offers with a request in flight
    busyDesk, \* TasksService.desksWithHoldRequests
    wire,     \* where the POST /holds of an offer is
    held,     \* offers the provider has confirmed to hold
    adrift,   \* offers with a POST nobody waits for any more
    answered  \* history: desks some source answered

rows == <<owner, status, run, hold>>
memory == <<job, abort, runner, asking, busyDesk>>
outside == <<wire, held, adrift>>
vars == <<owner, status, run, hold, job, abort, runner, asking, busyDesk,
          wire, held, adrift, answered>>

Users == {Guest, Account}
TaskStatus == {"working", "awaiting", "completed", "accepted", "rejected"}
Verdicts == {"observed", "handoff", "stopped"}

TypeOK ==
    /\ owner \in [Chats -> Users \cup {"removed"}]
    /\ status \in [Tasks -> TaskStatus \cup {"unopened", "removed"}]
    /\ run \in [Tasks -> Verdicts \cup {"none", "running"}]
    /\ hold \in [Offers -> {"absent", "none", "confirmed"}]
    /\ job \in [Tasks -> {"idle", "timer", "provider", "browser", "release"}]
    /\ abort \in [Tasks -> {"no", "stop", "time_limit"}]
    /\ runner \in [Tasks -> Users]
    /\ asking \subseteq Offers
    /\ busyDesk \subseteq Tasks
    /\ wire \in [Offers -> {"idle", "sent", "granted"}]
    /\ held \subseteq Offers
    /\ adrift \subseteq Offers
    /\ answered \subseteq Tasks

Init ==
    /\ owner \in [Chats -> Users]
    /\ status = [t \in Tasks |-> "unopened"]
    /\ run = [t \in Tasks |-> "none"]
    /\ hold = [o \in Offers |-> "absent"]
    /\ job = [t \in Tasks |-> "idle"]
    /\ abort = [t \in Tasks |-> "no"]
    /\ runner = [t \in Tasks |-> Guest]
    /\ asking = {}
    /\ busyDesk = {}
    /\ wire = [o \in Offers |-> "idle"]
    /\ held = {}
    /\ adrift = {}
    /\ answered = {}

-----------------------------------------------------------------------------
(* Rows and maps the handlers read.                                         *)

ChatIsLive(c) == owner[c] # "removed"
RowExists(t) == status[t] \in TaskStatus
OfferExists(o) == hold[o] # "absent"

\* BrowserService.active: an entry lives from research() to the end of its finally.
ActiveRuns == {t \in Tasks : job[t] \in {"browser", "release"}}

\* Variant: any live chat will do.
SameOwnerIfLive(t) == ChatIsLive(ChatOf[t])

\* assertAuthority and save() compare the chat's owner now with the run's.
SameOwner(t) == owner[ChatOf[t]] = runner[t]

-----------------------------------------------------------------------------
(* Opening and searching.                                                   *)

\* startDesks: one or two desks of a chat, a row each, and the timer of schedule().
OpenDesks(c, ts) ==
    /\ ChatIsLive(c)
    /\ Cardinality(ts) \in 1..2
    /\ \A t \in ts : ChatOf[t] = c /\ status[t] = "unopened"
    /\ status' = [t \in Tasks |-> IF t \in ts THEN "working" ELSE status[t]]
    /\ job' = [t \in Tasks |-> IF t \in ts THEN "timer" ELSE job[t]]
    /\ UNCHANGED <<owner, run, hold, abort, runner, asking, busyDesk, outside,
                   answered>>

\* The end of finish(): the status is written whatever it was, and a row that is
\* gone makes patch throw after an UPDATE of nothing.
PatchFinished(t) ==
    /\ status' = [status EXCEPT ![t] =
                    IF ~RowExists(t) THEN @
                    ELSE IF run[t] = "handoff" THEN "awaiting" ELSE "completed"]
    /\ job' = [job EXCEPT ![t] = "idle"]

\* research() up to its first await: it takes a slot and saves a running state, or
\* answers in a sentence when the chat, the slots or the hourly budgets refuse.
StartResearch(t) ==
    /\ ChatIsLive(ChatOf[t])
    /\ \A u \in ActiveRuns : ChatOf[u] # ChatOf[t]
    /\ Cardinality(ActiveRuns) < MaxRuns
    /\ run' = [run EXCEPT ![t] = "running"]
    /\ runner' = [runner EXCEPT ![t] = owner[ChatOf[t]]]
    /\ abort' = [abort EXCEPT ![t] = "no"]
    /\ job' = [job EXCEPT ![t] = "browser"]
    /\ UNCHANGED status

\* Variant: a refused run ends finish() without its patch.
BrowserFallbackSilent(t) ==
    \/ StartResearch(t)
    \/ job' = [job EXCEPT ![t] = "idle"] /\ UNCHANGED <<status, run, runner, abort>>

\* browserFallback: disabled, refused for one of the reasons above, or started.
BrowserFallback(t) ==
    \/ StartResearch(t)
    \/ PatchFinished(t) /\ UNCHANGED <<run, runner, abort>>

\* finish() runs up to its first await: a provider search, or the browser at once
\* when no provider key is configured.
FinishStarts(t) ==
    /\ job[t] = "timer"
    /\ \/ /\ status[t] = "working"
          /\ job' = [job EXCEPT ![t] = "provider"]
          /\ UNCHANGED <<status, run, runner, abort>>
       \/ /\ status[t] = "working"
          /\ BrowserFallback(t)
       \/ /\ status[t] # "working"
          /\ job' = [job EXCEPT ![t] = "idle"]
          /\ UNCHANGED <<status, run, runner, abort>>
    /\ UNCHANGED <<owner, hold, asking, busyDesk, outside, answered>>

\* Ids of offers are new: no row, request or hold has one before it is stored.
Unused(o) == hold[o] = "absent" /\ wire[o] = "idle" /\ o \notin held \cup adrift

\* The sources returned offers, some of them with a confirmed hold (readHold):
\* storeOffers inserts them in a transaction and the desk is patched.  Without its row
\* the foreign key refuses the insert.
ProviderOffers(t, os, confirmed) ==
    /\ job[t] = "provider"
    /\ os # {}
    /\ \A o \in os : DeskOf[o] = t /\ Unused(o)
    /\ hold' = [o \in Offers |-> IF o \notin os \/ ~RowExists(t) THEN hold[o]
                                 ELSE IF o \in confirmed THEN "confirmed" ELSE "none"]
    /\ held' = held \cup confirmed
    /\ PatchFinished(t)
    /\ answered' = answered \cup {t}
    /\ UNCHANGED <<owner, run, abort, runner, asking, busyDesk, wire, adrift>>

SourcesAnswer(t) ==
    \E os \in SUBSET Offers : \E confirmed \in SUBSET os : ProviderOffers(t, os, confirmed)

\* The sources answered with nothing, or did not answer: the browser is next.
ProviderEmpty(t, replied) ==
    /\ job[t] = "provider"
    /\ BrowserFallback(t)
    /\ answered' = IF replied THEN answered \cup {t} ELSE answered
    /\ UNCHANGED <<owner, hold, asking, busyDesk, outside>>

-----------------------------------------------------------------------------
(* The browser run.                                                         *)

\* Variant: every save inserts or replaces.
SaveRunAlways(t, verdict) == run' = [run EXCEPT ![t] = verdict]

\* save(): a chat that changed hands gets a redacted UPDATE, which a deleted row
\* ignores; otherwise the state is inserted or replaced.
SaveRun(t, verdict) ==
    run' = [run EXCEPT ![t] =
              IF SameOwner(t) THEN verdict
              ELSE IF @ = "none" THEN @ ELSE "stopped"]

\* A worker or model answer that ends the loop, accepted under the same owner.
BrowserAnswers(t, verdict) ==
    /\ job[t] = "browser"
    /\ abort[t] = "no"
    /\ SameOwner(t)
    /\ SaveRun(t, verdict)
    /\ job' = [job EXCEPT ![t] = "release"]
    /\ answered' = IF verdict = "observed" THEN answered \cup {t} ELSE answered
    /\ UNCHANGED <<owner, status, hold, abort, runner, asking, busyDesk, outside>>

\* The catch block: Stop and lost ownership give "stopped"; the time limit, an
\* unavailable worker and an invalid action give "handoff".
BrowserFails(t) ==
    /\ job[t] = "browser"
    /\ SaveRun(t, IF abort[t] = "stop" THEN "stopped" ELSE "handoff")
    /\ job' = [job EXCEPT ![t] = "release"]
    /\ UNCHANGED <<owner, status, hold, abort, runner, asking, busyDesk, outside,
                   answered>>

\* finally: the lease is released, the slot freed, and finish() patches the desk.
BrowserReleased(t) ==
    /\ job[t] = "release"
    /\ PatchFinished(t)
    /\ UNCHANGED <<owner, run, hold, abort, runner, asking, busyDesk, outside,
                   answered>>

\* The Stop button on a desk; the first abort keeps its reason.
StopBrowser(t) ==
    /\ ChatIsLive(ChatOf[t])
    /\ RowExists(t)
    /\ t \in ActiveRuns
    /\ abort[t] = "no"
    /\ abort' = [abort EXCEPT ![t] = "stop"]
    /\ UNCHANGED <<rows, job, runner, asking, busyDesk, outside, answered>>

\* The 120 second timer, cleared by finally.
BrowserTimeLimit(t) ==
    /\ job[t] = "browser"
    /\ abort[t] = "no"
    /\ abort' = [abort EXCEPT ![t] = "time_limit"]
    /\ UNCHANGED <<rows, job, runner, asking, busyDesk, outside, answered>>

-----------------------------------------------------------------------------
(* The traveler's answer to a desk.                                         *)

DecisionStatus ==
    [complete |-> "accepted", no |-> "rejected", still_working |-> "awaiting"]

\* Variant: a desk may be decided while it still searches.
DecideEarly(t, decision) ==
    /\ ChatIsLive(ChatOf[t])
    /\ status[t] \in {"working", "awaiting", "completed"}
    /\ decision = "still_working" => t \notin busyDesk
    /\ status' = [status EXCEPT ![t] = DecisionStatus[decision]]
    /\ UNCHANGED <<owner, run, hold, memory, outside, answered>>

Decide(t, decision) ==
    /\ ChatIsLive(ChatOf[t])
    /\ status[t] \in {"awaiting", "completed"}
    /\ decision = "still_working" => t \notin busyDesk
    /\ status' = [status EXCEPT ![t] = DecisionStatus[decision]]
    /\ UNCHANGED <<owner, run, hold, memory, outside, answered>>

-----------------------------------------------------------------------------
(* Holds: holdOffer and performHold.                                        *)

\* Variant: an offer that is already held is asked for again.
HoldAskedAgain(o) ==
    /\ ChatIsLive(ChatOf[DeskOf[o]])
    /\ OfferExists(o)
    /\ o \notin asking
    /\ DeskOf[o] \notin busyDesk
    /\ asking' = asking \cup {o}
    /\ busyDesk' = busyDesk \cup {DeskOf[o]}
    /\ wire' = [wire EXCEPT ![o] = "sent"]
    /\ UNCHANGED <<rows, job, abort, runner, held, adrift, answered>>

\* A click that starts a request; a confirmed offer, a request in flight for the
\* same offer and a desk that is already asking all return before this.
HoldAsked(o) ==
    /\ ChatIsLive(ChatOf[DeskOf[o]])
    /\ hold[o] = "none"
    /\ o \notin asking
    /\ DeskOf[o] \notin busyDesk
    /\ asking' = asking \cup {o}
    /\ busyDesk' = busyDesk \cup {DeskOf[o]}
    /\ wire' = [wire EXCEPT ![o] = "sent"]
    /\ UNCHANGED <<rows, job, abort, runner, held, adrift, answered>>

\* The provider honours a request, whether or not the gateway still waits for it.
ProviderHolds(o) ==
    /\ \/ /\ wire[o] = "sent"
          /\ wire' = [wire EXCEPT ![o] = "granted"]
          /\ UNCHANGED adrift
       \/ /\ o \in adrift
          /\ adrift' = adrift \ {o}
          /\ UNCHANGED wire
    /\ held' = held \cup {o}
    /\ UNCHANGED <<rows, memory, answered>>

HoldSettled(o) ==
    /\ asking' = asking \ {o}
    /\ busyDesk' = busyDesk \ {DeskOf[o]}
    /\ wire' = [wire EXCEPT ![o] = "idle"]

\* Variant: any answer counts as a confirmation.
HoldConfirmedByAnything(o) ==
    /\ wire[o] # "idle"
    /\ hold' = [hold EXCEPT ![o] = IF @ = "none" THEN "confirmed" ELSE @]
    /\ HoldSettled(o)
    /\ UNCHANGED <<owner, status, run, job, abort, runner, held, adrift, answered>>

\* A confirmation with a reference arrives: the UPDATE touches an offer that is
\* still unheld, and the desk is patched with the status it has now.
HoldConfirmed(o) ==
    /\ wire[o] = "granted"
    /\ hold' = [hold EXCEPT ![o] = IF @ = "none" THEN "confirmed" ELSE @]
    /\ HoldSettled(o)
    /\ UNCHANGED <<owner, status, run, job, abort, runner, held, adrift, answered>>

\* Refused (here or there), failed, or timed out: a note, never a hold.  A request
\* that timed out may still be honoured.
HoldNotConfirmed(o) ==
    /\ wire[o] # "idle"
    /\ \/ UNCHANGED adrift
       \/ wire[o] = "sent" /\ adrift' = adrift \cup {o}
    /\ HoldSettled(o)
    /\ UNCHANGED <<rows, job, abort, runner, held, answered>>

-----------------------------------------------------------------------------
(* What other parts of the gateway do to a chat.                            *)

\* AuthService.absorbGuest moves a guest's chat to the account it signed in to.
ChatMoves(c) ==
    /\ owner[c] = Guest
    /\ owner' = [owner EXCEPT ![c] = Account]
    /\ UNCHANGED <<status, run, hold, memory, outside, answered>>

\* SessionsService.remove: the chat's desks, offers and browser runs cascade.
RemoveChat(c) ==
    LET mine == {t \in Tasks : ChatOf[t] = c} IN
    /\ ChatIsLive(c)
    /\ owner' = [owner EXCEPT ![c] = "removed"]
    /\ status' = [t \in Tasks |->
                    IF t \in mine /\ RowExists(t) THEN "removed" ELSE status[t]]
    /\ run' = [t \in Tasks |-> IF t \in mine THEN "none" ELSE run[t]]
    /\ hold' = [o \in Offers |-> IF DeskOf[o] \in mine THEN "absent" ELSE hold[o]]
    /\ UNCHANGED <<memory, outside, answered>>

\* BrowserService.onModuleInit over the rows a dead process left.
RecoverRuns ==
    /\ run' = [t \in Tasks |-> IF run[t] = "running" THEN "handoff" ELSE run[t]]
    /\ status' = [t \in Tasks |->
                    IF run[t] = "running" /\ status[t] = "working"
                    THEN "awaiting" ELSE status[t]]

\* The process dies with everything it kept in memory, and starts again.
Restart ==
    /\ CanRestart
    /\ RecoverRuns
    /\ job' = [t \in Tasks |-> "idle"]
    /\ abort' = [t \in Tasks |-> "no"]
    /\ asking' = {}
    /\ busyDesk' = {}
    /\ wire' = [o \in Offers |-> "idle"]
    /\ adrift' = adrift \cup {o \in Offers : wire[o] = "sent"}
    /\ UNCHANGED <<owner, hold, runner, held, answered>>

-----------------------------------------------------------------------------
Next ==
    \/ \E c \in Chats :
          \/ \E ts \in SUBSET Tasks : OpenDesks(c, ts)
          \/ ChatMoves(c)
          \/ RemoveChat(c)
    \/ \E t \in Tasks :
          \/ FinishStarts(t)
          \/ SourcesAnswer(t)
          \/ \E replied \in BOOLEAN : ProviderEmpty(t, replied)
          \/ \E verdict \in Verdicts : BrowserAnswers(t, verdict)
          \/ BrowserFails(t)
          \/ BrowserReleased(t)
          \/ StopBrowser(t)
          \/ BrowserTimeLimit(t)
          \/ \E decision \in DOMAIN DecisionStatus : Decide(t, decision)
    \/ \E o \in Offers :
          \/ HoldAsked(o)
          \/ ProviderHolds(o)
          \/ HoldConfirmed(o)
          \/ HoldNotConfirmed(o)
    \/ Restart

Spec == Init /\ [][Next]_vars

\* Every await of finish() ends: setTimeout fires, a provider call has a timeout, the
\* run's timer aborts it, and the release of a lease gives up after three seconds.
ProviderEnds(t) ==
    \/ SourcesAnswer(t)
    \/ \E replied \in BOOLEAN : ProviderEmpty(t, replied)

RunEnds(t) ==
    \/ \E verdict \in Verdicts : BrowserAnswers(t, verdict)
    \/ abort[t] # "no" /\ BrowserFails(t)

FairSpec ==
    /\ Spec
    /\ \A t \in Tasks :
          /\ WF_vars(FinishStarts(t))
          /\ WF_vars(ProviderEnds(t))
          /\ WF_vars(BrowserTimeLimit(t))
          /\ WF_vars(RunEnds(t))
          /\ WF_vars(BrowserReleased(t))

-----------------------------------------------------------------------------
(* What the rows and the coroutines promise.                                *)

\* A running finish() is the only writer of a working desk, so its unconditional
\* UPDATE at the end cannot overwrite a decision (finish, decide).
FinishOwnsTheDesk ==
    \A t \in Tasks : job[t] # "idle" => status[t] \in {"working", "removed"}

\* A deleted chat leaves no desk, offer or browser state behind, and no coroutine
\* that outlives it writes one back (remove, save, storeOffers, patch).
NothingOutlivesItsChat ==
    \A t \in Tasks : ~ChatIsLive(ChatOf[t]) =>
        /\ ~RowExists(t)
        /\ run[t] = "none"
        /\ \A o \in Offers : DeskOf[o] = t => ~OfferExists(o)

\* A desk waits for one hold at a time, and never for an offer it already holds,
\* however the clicks of several tabs interleave (holdOffer).
OneHoldRequestPerDesk ==
    /\ \A o \in Offers : wire[o] # "idle" => hold[o] # "confirmed"
    /\ \A o, p \in Offers :
          wire[o] # "idle" /\ wire[p] # "idle" /\ DeskOf[o] = DeskOf[p] => o = p

\* The desk shows a confirmed hold only for an offer the provider holds (performHold).
ConfirmedMeansHeld ==
    \A o \in Offers : hold[o] = "confirmed" => o \in held

\* No browser state says running without a run in this process: a crash cannot leave
\* one behind (onModuleInit, catch and finally of research).
NoFakeRun == \A t \in Tasks : run[t] = "running" => job[t] = "browser"

\* At most one browser run per chat, and MaxRuns in all (research).
BrowserCapacity ==
    /\ Cardinality(ActiveRuns) <= MaxRuns
    /\ \A t, u \in ActiveRuns : ChatOf[t] = ChatOf[u] => t = u

\* A decision is final: no search, hold, stop or restart that was under way when it
\* was made takes it back (decide, performHold, finish, onModuleInit).
DecisionIsFinal ==
    [][\A t \in Tasks : status[t] \in {"accepted", "rejected"} =>
          status'[t] \in {status[t], "removed"}]_vars

\* Observations are published only to the traveler who asked for them: a chat that
\* changes hands while the run is out gets none (assertAuthority, save).
LateObservationsAreDropped ==
    [][\A t \in Tasks : run'[t] = "observed" /\ run[t] # "observed" =>
          owner[ChatOf[t]] = runner[t]]_vars

\* The search of a desk comes to an end, and with a report: only the death of the process ends
\* it without one (schedule, finish).
EveryDeskReports ==
    /\ \A t \in Tasks : (job[t] # "idle") ~> (job[t] = "idle")
    /\ [][(\E t \in Tasks : job[t] # "idle" /\ job'[t] = "idle" /\ status'[t] = "working")
              => Restart]_vars

\* The rows and coroutines keep the traveler's view of DeskPromise.
StageOf(t) ==
    CASE status[t] = "unopened" -> "unopened"
      [] status[t] = "working" -> "searching"
      [] status[t] \in {"awaiting", "completed"} -> "answered"
      [] status[t] \in {"accepted", "rejected"} -> "decided"
      [] OTHER -> "gone"

Promise == INSTANCE DeskPromise WITH
    stage <- [t \in Tasks |-> StageOf(t)],
    asked <- {o \in Offers : wire[o] # "idle"},
    booked <- {o \in Offers : hold[o] = "confirmed"}

KeepsPromise == Promise!Spec

-----------------------------------------------------------------------------
(* Statements of the repository the code does not keep.                     *)

\* docs/roadmap.md:20 -- a desk card says search finished only after a source
\* actually finishes (finish, browserFallback, research).
SearchFinishedAfterASource ==
    \A t \in Tasks : status[t] = "completed" => t \in answered

\* docs/browser-agent.md:151 -- a gateway restart marks old running tasks as
\* interrupted: no desk says it is working on a search that is not running.
NoFakeWorkingDesk ==
    \A t \in Tasks : status[t] = "working" /\ run[t] # "none" => job[t] # "idle"
=============================================================================
