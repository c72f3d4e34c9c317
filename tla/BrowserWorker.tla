---------------------------- MODULE BrowserWorker ----------------------------
(***************************************************************************)
(* The browser worker (BrowserEngine, workerServer, Semaphore) and the     *)
(* gateway's calls to it (BrowserService.research, rpc, release, stop).    *)
(*                                                                         *)
(* A research run asks the worker for at most one session, so a session is *)
(* named by the run that asked for it.  The worker and the gateway are two *)
(* processes: a call may arrive after its caller gave up, or never, and    *)
(* the worker may die.  Every wait of the worker (a page, a network slot,  *)
(* a closing context) is a value of stage, act or queue.                   *)
(***************************************************************************)
EXTENDS Naturals, FiniteSets

CONSTANTS Runs,        \* research runs of the gateway
          Limit,       \* LIMITS.sessions, 4 in the code
          MaxActions,  \* LIMITS.actions, 20 in the code
          MaxRequests, \* LIMITS.requests, 150 in the code
          NetLimit,    \* LIMITS.networkConcurrency, 8 in the code
          Pages,       \* what a permitted page can show, each with its own price
          Walls,       \* those of Pages whose text asks for consent, a CAPTCHA, patience ...
          Gates,       \* those of Pages with a password field
          UrlOf,       \* document.URL of a page
          Shows,       \* the pages of the site a run searches
          Choices,     \* the actions the model of a run may choose
          Scenarios    \* runs that are asked for, and those whose site makes requests

\* The actions of browserActionSchema; every fill, select and click is a "control".
Actions == {"navigate", "inspect", "observe", "control", "handoff", "stop", "invalid"}

Blank == "about:blank"
NoPage == "no page"

ASSUME BrowserWorkerAssumption ==
    /\ IsFiniteSet(Runs)
    /\ {Limit, MaxActions, MaxRequests, NetLimit} \subseteq Nat
    /\ Walls \subseteq Pages /\ Gates \subseteq Pages
    /\ Pages \cap {Blank, NoPage} = {}
    /\ DOMAIN UrlOf = Pages
    /\ Shows \in [Runs -> SUBSET Pages]
    /\ Choices \in [Runs -> SUBSET Actions]
    /\ Scenarios \subseteq [asked : SUBSET Runs, busy : SUBSET Runs]

VARIABLES
    busy,    \* runs whose site makes requests
    stage,   \* where the context of a session is
    timer,   \* its lifetime timer
    blocked, \* Session.blocked: whether a reason was recorded
    aborted, \* its AbortController fired
    act,     \* what act() of the session awaits, "idle" when it is not busy
    doing,   \* the action whose page is being checked
    taken,   \* Session.actions
    page,    \* what the page shows
    snap,    \* the page of Session.snapshot
    seen,    \* the page whose text pageState() has, while it counts password fields
    showed,  \* what the page showed since a quote is being verified
    result,  \* what finish() will return once the context is closed
    active,  \* Semaphore.active: requests that hold a slot
    queue,   \* Semaphore.queue: requests that wait for one
    sent,    \* Session.requests
    run,     \* what research() awaits
    leased,  \* Active.lease is known
    cancel,  \* the run's AbortController fired
    wire,    \* calls on their way to the worker
    answer   \* the worker's answer on its way back

session == <<busy, stage, timer, blocked, aborted>>
acting == <<act, doing, taken, page, snap, seen, showed, result>>
network == <<active, queue, sent>>
gateway == <<run, leased, cancel>>
reading == <<seen, showed>>
vars == <<busy, stage, timer, blocked, aborted, act, doing, taken, page, snap, seen, showed,
          result, active, queue, sent, run, leased, cancel, wire, answer>>

Waiting == {"sites", "model", "opening", "acting"}

\* Contexts the browser has to carry for a session.
Held == {"context", "routing", "open", "closing", "abandoning"}

TypeOK ==
    /\ busy \in SUBSET Runs
    /\ stage \in [Runs -> Held \cup {"none", "gone"}]
    /\ timer \in [Runs -> {"off", "armed", "fired"}]
    /\ blocked \in [Runs -> BOOLEAN]
    /\ aborted \in [Runs -> BOOLEAN]
    /\ act \in [Runs -> {"idle", "checking", "acting", "verifying", "reading", "collecting",
                       "finishing"}]
    /\ doing \in [Runs -> Actions \cup {"none"}]
    /\ taken \in [Runs -> 0..(MaxActions + 1)]
    /\ page \in [Runs -> Pages \cup {Blank}]
    /\ snap \in [Runs -> Pages \cup {NoPage}]
    /\ seen \in [Runs -> Pages \cup {NoPage}]
    /\ showed \in [Runs -> SUBSET (Pages \cup {Blank})]
    /\ result \in [Runs -> {"none", "observed", "handoff", "stopped"}]
    /\ active \in [Runs -> 0..NetLimit]
    /\ queue \in [Runs -> Nat]
    /\ sent \in [Runs -> 0..(MaxRequests + 1)]
    /\ run \in [Runs -> Waiting \cup {"idle", "releasing", "over"}]
    /\ leased \in [Runs -> BOOLEAN]
    /\ cancel \in [Runs -> BOOLEAN]
    /\ wire \in [Runs -> SUBSET {"open", "act", "delete"}]
    /\ answer \in [Runs -> {"none", "lease", "ready", "observed", "handoff", "stopped", "error"}]

Init ==
    /\ \E s \in Scenarios :
          /\ run = [r \in Runs |-> IF r \in s.asked THEN "idle" ELSE "over"]
          /\ busy = s.busy
    /\ stage = [r \in Runs |-> "none"]
    /\ timer = [r \in Runs |-> "off"]
    /\ blocked = [r \in Runs |-> FALSE]
    /\ aborted = [r \in Runs |-> FALSE]
    /\ act = [r \in Runs |-> "idle"]
    /\ doing = [r \in Runs |-> "none"]
    /\ taken = [r \in Runs |-> 0]
    /\ page = [r \in Runs |-> Blank]
    /\ snap = [r \in Runs |-> NoPage]
    /\ seen = [r \in Runs |-> NoPage]
    /\ showed = [r \in Runs |-> {}]
    /\ result = [r \in Runs |-> "none"]
    /\ active = [r \in Runs |-> 0]
    /\ queue = [r \in Runs |-> 0]
    /\ sent = [r \in Runs |-> 0]
    /\ leased = [r \in Runs |-> FALSE]
    /\ cancel = [r \in Runs |-> FALSE]
    /\ wire = [r \in Runs |-> {}]
    /\ answer = [r \in Runs |-> "none"]

-----------------------------------------------------------------------------
(* The worker: opening and closing a session.                               *)

\* An answer reaches only a caller that still waits for this call.
Reply(r, waits, what) ==
    answer' = [answer EXCEPT ![r] = IF run[r] = waits THEN what ELSE @]

Received(r, call) ==
    /\ call \in wire[r]
    /\ wire' = [wire EXCEPT ![r] = @ \ {call}]

\* this.sessions.size + this.pending + this.closing.size
Contexts == {r \in Runs : stage[r] \in Held}

\* Variant: a context that is closing is no longer counted.
PlaceFreeUnclosed ==
    Cardinality({r \in Runs : stage[r] \in {"context", "routing", "abandoning", "open"}}) < Limit

PlaceFree == Cardinality(Contexts) < Limit

OpenArrives(r) ==
    /\ Received(r, "open")
    /\ \/ /\ PlaceFree
          /\ stage' = [stage EXCEPT ![r] = "context"]
          /\ UNCHANGED answer
       \/ /\ ~PlaceFree
          /\ Reply(r, "opening", "error")
          /\ UNCHANGED stage
    /\ UNCHANGED <<busy, timer, blocked, aborted, acting, network, gateway>>

\* newContext and newPage; the lifetime timer starts once there is a page.
ContextMade(r) ==
    /\ stage[r] = "context"
    /\ \/ /\ stage' = [stage EXCEPT ![r] = "routing"]
          /\ timer' = [timer EXCEPT ![r] = "armed"]
       \/ /\ stage' = [stage EXCEPT ![r] = "abandoning"]
          /\ UNCHANGED timer
    /\ UNCHANGED <<busy, blocked, aborted, acting, network, gateway, wire, answer>>

\* Variant: the requests that wait are left in the queue.
AbortInFlight(r) == aborted' = [aborted EXCEPT ![r] = TRUE] /\ UNCHANGED queue

\* abort(): every request in Semaphore.queue is rejected at once.
Abort(r) ==
    /\ aborted' = [aborted EXCEPT ![r] = TRUE]
    /\ queue' = [queue EXCEPT ![r] = 0]

\* block(): the first reason stays, and every request of the session is called off.
Block(r) ==
    /\ blocked' = [blocked EXCEPT ![r] = TRUE]
    /\ Abort(r)

\* BrowserEngine.close up to its await.
Close(r) ==
    /\ stage' = [stage EXCEPT ![r] = "closing"]
    /\ timer' = [timer EXCEPT ![r] = "off"]
    /\ Abort(r)

RoutesSet(r) ==
    /\ stage[r] = "routing" /\ ~aborted[r]
    /\ stage' = [stage EXCEPT ![r] = "open"]
    /\ Reply(r, "opening", "lease")
    /\ UNCHANGED <<busy, timer, blocked, aborted, acting, network, gateway, wire>>

\* The catch of open(): a failed call of the browser, or the timer fired meanwhile.
OpenFails(r) ==
    /\ stage[r] = "routing"
    /\ stage' = [stage EXCEPT ![r] = "abandoning"]
    /\ timer' = [timer EXCEPT ![r] = IF @ = "armed" THEN "off" ELSE @]
    /\ Abort(r)
    /\ UNCHANGED <<busy, blocked, acting, active, sent, gateway, wire, answer>>

\* Nobody refers to a session whose context is closed, but an action that waits for it.
Forget(r) ==
    /\ stage' = [stage EXCEPT ![r] = "gone"]
    /\ timer' = [timer EXCEPT ![r] = "off"]
    /\ blocked' = [blocked EXCEPT ![r] = FALSE]
    /\ aborted' = [aborted EXCEPT ![r] = FALSE]
    /\ taken' = [taken EXCEPT ![r] = 0]
    /\ page' = [page EXCEPT ![r] = Blank]
    /\ snap' = [snap EXCEPT ![r] = NoPage]
    /\ active' = [active EXCEPT ![r] = 0]
    /\ queue' = [queue EXCEPT ![r] = 0]
    /\ sent' = [sent EXCEPT ![r] = 0]

\* The context of a failed open is closed and pending goes down.
Abandoned(r) ==
    /\ stage[r] = "abandoning"
    /\ Forget(r)
    /\ Reply(r, "opening", "error")
    /\ UNCHANGED <<busy, act, doing, reading, result, gateway, wire>>

\* Variant: the timer knows only sessions in the map.
LifetimeEndsOpen(r) ==
    /\ timer[r] = "armed" /\ stage[r] = "open"
    /\ blocked' = [blocked EXCEPT ![r] = TRUE]
    /\ Close(r)
    /\ UNCHANGED <<busy, acting, active, sent, gateway, wire, answer>>

\* The 120 s timer: an open session is closed, one that is still opening is aborted.
LifetimeEnds(r) ==
    /\ timer[r] = "armed"
    /\ blocked' = [blocked EXCEPT ![r] = TRUE]
    /\ \/ /\ stage[r] = "open"
          /\ Close(r)
       \/ /\ stage[r] = "routing"
          /\ timer' = [timer EXCEPT ![r] = "fired"]
          /\ Abort(r)
          /\ UNCHANGED stage
    /\ UNCHANGED <<busy, acting, active, sent, gateway, wire, answer>>

\* The interval timer: nothing was asked of the session for 45 s, busy or not.
Sweep(r) ==
    /\ stage[r] = "open"
    /\ blocked' = [blocked EXCEPT ![r] = TRUE]
    /\ Close(r)
    /\ UNCHANGED <<busy, acting, active, sent, gateway, wire, answer>>

DeleteArrives(r) ==
    /\ Received(r, "delete")
    /\ \/ /\ stage[r] = "open"
          /\ Close(r)
       \/ /\ stage[r] # "open"   \* MissingSession
          /\ UNCHANGED <<stage, timer, aborted, queue>>
    /\ UNCHANGED <<busy, blocked, acting, active, sent, gateway, answer>>

ContextCloses(r) ==
    /\ stage[r] = "closing"
    /\ Forget(r)
    /\ UNCHANGED <<busy, act, doing, reading, result, gateway, wire, answer>>

-----------------------------------------------------------------------------
(* The worker: one action of a session.                                     *)

\* What pageState() read is done with.
Unread(r, shown) ==
    /\ seen' = [seen EXCEPT ![r] = NoPage]
    /\ showed' = [showed EXCEPT ![r] = shown]

\* finish(): close the session, unless somebody did, and wait for it.
Finish(r, what) ==
    /\ act' = [act EXCEPT ![r] = "finishing"]
    /\ result' = [result EXCEPT ![r] = what]
    /\ doing' = [doing EXCEPT ![r] = "none"]
    /\ Unread(r, {})
    /\ \/ stage[r] = "open" /\ Close(r)
       \/ stage[r] # "open" /\ UNCHANGED <<stage, timer, aborted, queue>>

StepTo(r, step) ==
    /\ act' = [act EXCEPT ![r] = step]
    /\ doing' = [doing EXCEPT ![r] = "none"]
    /\ Unread(r, IF step = "verifying" THEN {page[r]} ELSE {})
    /\ UNCHANGED <<result, stage, timer, aborted, queue>>

\* Variant: an action waits for its session to be closed only if it closes it itself.
FinishEndsAnyway(r) ==
    /\ act[r] = "finishing"
    /\ act' = [act EXCEPT ![r] = "idle"]
    /\ result' = [result EXCEPT ![r] = "none"]
    /\ Reply(r, "acting", result[r])
    /\ UNCHANGED <<session, doing, taken, page, snap, reading, network, gateway, wire>>

FinishEnds(r) ==
    /\ act[r] = "finishing" /\ stage[r] = "gone"
    /\ act' = [act EXCEPT ![r] = "idle"]
    /\ result' = [result EXCEPT ![r] = "none"]
    /\ Reply(r, "acting", result[r])
    /\ UNCHANGED <<session, doing, taken, page, snap, reading, network, gateway, wire>>

\* The snapshot the action names is the session's last one, of the URL shown now.
SnapshotIsFresh(r) == snap[r] # NoPage /\ page[r] # Blank /\ UrlOf[snap[r]] = UrlOf[page[r]]

\* The middle of act(): an address outside the site and a control that is sensitive or
\* not grounded in the request are handed off; an observation or a control that names
\* another snapshot than the last gets a new one instead.
Proceed(r, a) ==
    \/ a = "navigate" /\ (StepTo(r, "acting") \/ Finish(r, "handoff"))
    \/ a \in {"inspect", "observe", "control"} /\ StepTo(r, "reading")
    \/ a = "observe" /\ SnapshotIsFresh(r) /\ StepTo(r, "verifying")
    \/ /\ a = "control" /\ SnapshotIsFresh(r)
       /\ StepTo(r, "acting") \/ Finish(r, "handoff")

\* act() up to its first await.
Begin(r, a) ==
    \/ /\ a \in {"invalid", "stop"}
       /\ Finish(r, IF a = "stop" THEN "stopped" ELSE "handoff")
       /\ UNCHANGED taken
    \/ /\ a \notin {"invalid", "stop"}
       /\ taken' = [taken EXCEPT ![r] = @ + 1]
       /\ \/ /\ taken[r] >= MaxActions \/ blocked[r] \/ a = "handoff"
             /\ Finish(r, "handoff")
          \/ /\ taken[r] < MaxActions /\ ~blocked[r] /\ a # "handoff"
             /\ \/ page[r] = Blank /\ Proceed(r, a)
                \/ /\ page[r] # Blank
                   /\ act' = [act EXCEPT ![r] = "checking"]
                   /\ doing' = [doing EXCEPT ![r] = a]
                   /\ UNCHANGED <<reading, result, stage, timer, aborted, queue>>

\* The gateway's first action is the navigation to the site; then the model chooses.
ActArrives(r, a) ==
    /\ Received(r, "act")
    /\ a \in (IF taken[r] = 0 THEN {"navigate"} ELSE Choices[r])
    /\ \/ /\ stage[r] # "open" \/ act[r] # "idle"   \* MissingSession, BusySession
          /\ Reply(r, "acting", "error")
          /\ UNCHANGED <<stage, timer, aborted, queue, act, doing, taken, reading, result>>
       \/ /\ stage[r] = "open" /\ act[r] = "idle"
          /\ Begin(r, a)
          /\ UNCHANGED answer
    /\ UNCHANGED <<busy, blocked, page, snap, active, sent, gateway>>

\* pageState() up to its last await: the text of the page, and what it asks of the traveler.
TextSeen(r) ==
    /\ act[r] \in {"checking", "verifying", "reading"}
    /\ seen[r] = NoPage /\ page[r] \in Pages
    /\ seen' = [seen EXCEPT ![r] = page[r]]
    /\ IF page[r] \in Walls THEN Block(r) ELSE UNCHANGED <<blocked, aborted, queue>>
    /\ UNCHANGED <<busy, stage, timer, act, doing, taken, page, snap, showed, result, active,
                   sent, gateway, wire, answer>>

\* The end of pageState(): it had the text, and no password field was counted in what the
\* page shows by then.
PageIsFine(r) == seen[r] # NoPage /\ page[r] \in Pages \ Gates /\ ~blocked[r]

Checked(r) ==
    /\ act[r] = "checking" /\ PageIsFine(r)
    /\ Proceed(r, doing[r])
    /\ UNCHANGED <<busy, blocked, taken, page, snap, active, sent, gateway, wire, answer>>

\* goto, fill, selectOption or click came back.
Acted(r, p) ==
    /\ act[r] = "acting" /\ stage[r] = "open"
    /\ StepTo(r, "reading")
    /\ page' = [page EXCEPT ![r] = p]
    /\ UNCHANGED <<busy, blocked, taken, snap, active, sent, gateway, wire, answer>>

\* Variant: the quote is looked for in the snapshot only.
VerifiedInSnapshot(r) ==
    /\ act[r] = "verifying" /\ PageIsFine(r)
    /\ Finish(r, "observed")
    /\ UNCHANGED <<busy, blocked, taken, page, snap, active, sent, gateway, wire, answer>>

\* The quoted price is in the snapshot and in the text read since.
Verified(r) ==
    /\ act[r] = "verifying" /\ PageIsFine(r)
    /\ seen[r] = snap[r]
    /\ Finish(r, "observed")
    /\ UNCHANGED <<busy, blocked, taken, page, snap, active, sent, gateway, wire, answer>>

\* snapshot(): first the text, then the controls.
TextRead(r) ==
    /\ act[r] = "reading" /\ PageIsFine(r)
    /\ StepTo(r, "collecting")
    /\ snap' = [snap EXCEPT ![r] = seen[r]]
    /\ UNCHANGED <<busy, blocked, taken, page, active, sent, gateway, wire, answer>>

SnapshotTaken(r) ==
    /\ act[r] = "collecting" /\ ~blocked[r]
    /\ SnapshotIsFresh(r)
    /\ StepTo(r, "idle")
    /\ Reply(r, "acting", "ready")
    /\ UNCHANGED <<busy, blocked, taken, page, snap, active, sent, gateway, wire>>

\* An await of act() threw, or found the session blocked, a gate or another price.
ActFails(r) ==
    /\ act[r] \in {"checking", "acting", "verifying", "reading", "collecting"}
    /\ blocked' = [blocked EXCEPT ![r] =
                     @ \/ (seen[r] # NoPage /\ page[r] \in Gates)]
    /\ Finish(r, "handoff")
    /\ UNCHANGED <<busy, taken, page, snap, active, sent, gateway, wire, answer>>

-----------------------------------------------------------------------------
(* The site: what the page does by itself, and the requests it makes.       *)

PageChanges(r, p) ==
    /\ stage[r] = "open" /\ page[r] # Blank /\ page[r] # p
    /\ page' = [page EXCEPT ![r] = p]
    /\ showed' = [showed EXCEPT ![r] = IF act[r] = "verifying" THEN @ \cup {p} ELSE @]
    /\ UNCHANGED <<session, act, doing, taken, snap, seen, result, network, gateway, wire,
                   answer>>

\* A popup, a dialog, a download or a socket.
PageMisbehaves(r) ==
    /\ stage[r] \in {"routing", "open"}
    /\ Block(r)
    /\ UNCHANGED <<busy, stage, timer, acting, active, sent, gateway, wire, answer>>

\* Semaphore.acquire.
Acquire(r) ==
    \/ /\ active[r] < NetLimit
       /\ active' = [active EXCEPT ![r] = @ + 1]
       /\ UNCHANGED queue
    \/ /\ active[r] >= NetLimit
       /\ queue' = [queue EXCEPT ![r] = @ + 1]
       /\ UNCHANGED active

\* The handler of context.route up to its first await, for an address of the site.
Request(r) ==
    /\ stage[r] = "open"
    /\ r \in busy
    /\ page[r] # Blank \/ act[r] = "acting"
    /\ ~blocked[r] /\ ~aborted[r]
    /\ sent[r] <= MaxRequests
    /\ sent' = [sent EXCEPT ![r] = @ + 1]
    /\ \/ /\ sent[r] < MaxRequests
          /\ Acquire(r)
          /\ UNCHANGED <<blocked, aborted>>
       \/ /\ sent[r] = MaxRequests
          /\ Block(r)
          /\ UNCHANGED active
    /\ UNCHANGED <<busy, stage, timer, acting, gateway, wire, answer>>

\* An address outside the site, or ten seconds in the queue.
RequestDenied(r) ==
    /\ stage[r] = "open" /\ ~blocked[r]
    /\ r \in busy
    /\ page[r] # Blank \/ act[r] = "acting"
    /\ Block(r)
    /\ UNCHANGED <<busy, stage, timer, acting, active, sent, gateway, wire, answer>>

\* Semaphore's release: the slot goes to the request that waits longest.
Release(r) ==
    \/ /\ queue[r] = 0
       /\ active' = [active EXCEPT ![r] = @ - 1]
       /\ UNCHANGED queue
    \/ /\ queue[r] > 0
       /\ queue' = [queue EXCEPT ![r] = @ - 1]
       /\ UNCHANGED active

\* The transport ends well, or badly: 401, 403, 429, too many bytes, a broken socket.
ResponseArrives(r) ==
    /\ active[r] > 0
    /\ \/ /\ Release(r)
          /\ UNCHANGED <<blocked, aborted>>
       \/ /\ \/ active' = [active EXCEPT ![r] = @ - 1]
             \/ queue[r] > 0 /\ UNCHANGED active   \* handed on just before
          /\ Block(r)
    /\ UNCHANGED <<busy, stage, timer, acting, sent, gateway, wire, answer>>

\* The worker process dies and comes back: it keeps nothing.
WorkerRestart ==
    /\ Contexts # {}
    /\ stage' = [r \in Runs |-> IF stage[r] \in Held THEN "gone" ELSE stage[r]]
    /\ timer' = [r \in Runs |-> "off"]
    /\ blocked' = [r \in Runs |-> FALSE]
    /\ aborted' = [r \in Runs |-> FALSE]
    /\ act' = [r \in Runs |-> "idle"]
    /\ doing' = [r \in Runs |-> "none"]
    /\ taken' = [r \in Runs |-> 0]
    /\ page' = [r \in Runs |-> Blank]
    /\ snap' = [r \in Runs |-> NoPage]
    /\ seen' = [r \in Runs |-> NoPage]
    /\ showed' = [r \in Runs |-> {}]
    /\ result' = [r \in Runs |-> "none"]
    /\ active' = [r \in Runs |-> 0]
    /\ queue' = [r \in Runs |-> 0]
    /\ sent' = [r \in Runs |-> 0]
    /\ UNCHANGED <<busy, gateway, wire, answer>>

-----------------------------------------------------------------------------
(* The gateway.                                                             *)

Send(r, call) == wire' = [wire EXCEPT ![r] = @ \cup {call}]

\* research() asks for the authorized sites.
Start(r) ==
    /\ run[r] = "idle"
    /\ run' = [run EXCEPT ![r] = "sites"]
    /\ UNCHANGED <<session, acting, network, leased, cancel, wire, answer>>

\* accept() of a last result, and the finally: a lease the gateway knows is released.
End(r) ==
    /\ cancel' = [cancel EXCEPT ![r] = FALSE]
    /\ \/ /\ leased[r]
          /\ run' = [run EXCEPT ![r] = "releasing"]
          /\ Send(r, "delete")
       \/ /\ ~leased[r]
          /\ run' = [run EXCEPT ![r] = "over"]
          /\ UNCHANGED wire
    /\ UNCHANGED leased

SitesArrive(r) ==
    /\ run[r] = "sites" /\ ~cancel[r]
    /\ \/ /\ run' = [run EXCEPT ![r] = "model"]
          /\ UNCHANGED <<leased, cancel, wire>>
       \/ End(r)   \* no source for this search, or no model with tools
    /\ UNCHANGED <<session, acting, network, answer>>

\* The model chose a source, which opens a lease and navigates to its first page, or an
\* action of the lease it has.
ModelActs(r) ==
    /\ run[r] = "model" /\ ~cancel[r]
    /\ \/ /\ ~leased[r]
          /\ run' = [run EXCEPT ![r] = "opening"]
          /\ Send(r, "open")
       \/ /\ leased[r]
          /\ run' = [run EXCEPT ![r] = "acting"]
          /\ Send(r, "act")
    /\ UNCHANGED <<session, acting, network, leased, cancel, answer>>

\* The lease is kept before the run looks whether it was cancelled.
LeaseArrives(r) ==
    /\ run[r] = "opening" /\ answer[r] = "lease"
    /\ answer' = [answer EXCEPT ![r] = "none"]
    /\ leased' = [leased EXCEPT ![r] = TRUE]
    /\ cancel' = [cancel EXCEPT ![r] = FALSE]
    /\ \/ /\ ~cancel[r]
          /\ run' = [run EXCEPT ![r] = "acting"]
          /\ Send(r, "act")
       \/ /\ cancel[r]
          /\ run' = [run EXCEPT ![r] = "releasing"]
          /\ Send(r, "delete")
    /\ UNCHANGED <<session, acting, network>>

\* The result of an action; after the last turn a search that still runs is handed off.
ResultArrives(r) ==
    /\ run[r] = "acting" /\ ~cancel[r]
    /\ answer[r] \in {"ready", "observed", "handoff", "stopped"}
    /\ answer' = [answer EXCEPT ![r] = "none"]
    /\ \/ /\ answer[r] = "ready"
          /\ run' = [run EXCEPT ![r] = "model"]
          /\ UNCHANGED <<leased, cancel, wire>>
       \/ End(r)
    /\ UNCHANGED <<session, acting, network>>

\* The catch: the run was cancelled, a call failed or took 20 s, the worker refused it,
\* the model failed or asked for something that is no action.
RunFails(r) ==
    /\ run[r] \in Waiting
    /\ End(r)
    /\ answer' = [answer EXCEPT ![r] = "none"]
    /\ UNCHANGED <<session, acting, network>>

\* The DELETE was answered, failed, or took its 3 s.
Released(r) ==
    /\ run[r] = "releasing"
    /\ run' = [run EXCEPT ![r] = "over"]
    /\ leased' = [leased EXCEPT ![r] = FALSE]
    /\ UNCHANGED <<session, acting, network, cancel, wire, answer>>

\* BrowserService.stop, which also releases the lease beside the run, or the run's timer.
Cancelled(r) ==
    /\ run[r] \in Waiting /\ ~cancel[r]
    /\ cancel' = [cancel EXCEPT ![r] = TRUE]
    /\ \/ leased[r] /\ Send(r, "delete")
       \/ UNCHANGED wire
    /\ UNCHANGED <<session, acting, network, run, leased, answer>>

\* A call never reaches the worker.
Lost(r, call) ==
    /\ call \in wire[r]
    /\ wire' = [wire EXCEPT ![r] = @ \ {call}]
    /\ UNCHANGED <<session, acting, network, gateway, answer>>

-----------------------------------------------------------------------------
Next ==
    \/ \E r \in Runs :
          \/ OpenArrives(r) \/ ContextMade(r) \/ RoutesSet(r) \/ OpenFails(r)
          \/ Abandoned(r) \/ LifetimeEnds(r) \/ Sweep(r) \/ DeleteArrives(r)
          \/ ContextCloses(r) \/ ModelActs(r) \/ TextSeen(r) \/ Checked(r) \/ Verified(r)
          \/ TextRead(r) \/ SnapshotTaken(r) \/ ActFails(r) \/ FinishEnds(r)
          \/ PageMisbehaves(r) \/ Request(r) \/ RequestDenied(r) \/ ResponseArrives(r)
          \/ Start(r) \/ SitesArrive(r) \/ LeaseArrives(r) \/ ResultArrives(r)
          \/ RunFails(r) \/ Released(r) \/ Cancelled(r)
          \/ \E p \in Shows[r] : Acted(r, p) \/ PageChanges(r, p)
          \/ \E a \in Actions : ActArrives(r, a)
          \/ \E call \in {"open", "act", "delete"} : Lost(r, call)
    \/ WorkerRestart

Spec == Init /\ [][Next]_vars

\* The lifetime timer fires, the browser makes and closes contexts, and a call on a closed
\* context throws.  Nothing is assumed of the gateway, of the idle timer, of the network
\* or of pages, which may never answer.
FairSpec ==
    /\ Spec
    /\ \A r \in Runs :
          /\ WF_vars(LifetimeEnds(r)) /\ WF_vars(ContextMade(r))
          /\ WF_vars(aborted[r] /\ OpenFails(r))
          /\ WF_vars(Abandoned(r)) /\ WF_vars(ContextCloses(r))

-----------------------------------------------------------------------------
(* What the worker promises.                                                *)

\* Sessions that open, that are open and that close share the worker's places: never are
\* there more contexts than LIMITS.sessions (BrowserEngine.open, close).
WorkerCapacity == Cardinality(Contexts) <= Limit

\* No lease is handed out for a session whose lifetime is over: a timer that fires while
\* the session is opening is not forgotten (BrowserEngine.open).
NoSessionPastItsTime == \A r \in Runs : stage[r] = "open" => timer[r] = "armed"

\* When the gateway is told that a search was observed, handed off or stopped, its browser
\* context is closed, whoever closed it (act, finish).
VerdictMeansClosed ==
    \A r \in Runs : answer[r] \in {"observed", "handoff", "stopped"} => stage[r] = "gone"

\* A request waits only while every slot is taken, and none waits in a session that was
\* called off (Semaphore, block).
NetworkQueueMoves ==
    \A r \in Runs : queue[r] > 0 => active[r] = NetLimit /\ ~aborted[r]

\* Once a session is blocked no request of it gets a slot, also not one that was in the
\* queue before (context.route, Semaphore.acquire, block).
NothingSentAfterABlock ==
    [][\A r \in Runs :
          active'[r] > active[r] \/ queue'[r] < queue[r] => ~blocked[r] /\ ~aborted[r]]_vars

\* An observation quotes what the model's snapshot showed and the page showed again at some
\* moment since the action was let through, on a session nothing stopped and no page that
\* asks for anything: never a price that went away before the model quoted it (act,
\* observe).  A price that goes away while password fields are counted is still observed.
ObservedWasOnThePage ==
    [][\A r \in Runs :
          result'[r] = "observed" /\ result[r] # "observed" =>
              snap[r] \in showed[r] \ Walls /\ page[r] \notin Gates /\ ~blocked[r]]_vars

\* A place comes back whatever happened to its caller: also when the gateway never learnt
\* of the lease, when its DELETE was lost, or when an action of the session hangs
\* (the lifetime timer, close, open's catch).
PlacesComeBack == \A r \in Runs : stage[r] \in Held ~> stage[r] = "gone"
=============================================================================
