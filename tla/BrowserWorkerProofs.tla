------------------------- MODULE BrowserWorkerProofs -------------------------
(***************************************************************************)
(* Proofs about BrowserWorker for every number of runs and every limit.    *)
(* The inductive invariant IInv adds to the stated properties that a run   *)
(* opens at most one session, that a session in the map has its timer, and *)
(* what a waiting request and an action beyond the last one say of their   *)
(* session.                                                                *)
(***************************************************************************)
EXTENDS BrowserWorker, FiniteSetTheorems, TLAPS

\* A run asks for one session: none is there, nor asked for, before the model chose a source,
\* and a run that acts has its lease.
OpenedOnce ==
    \A r \in Runs :
        /\ run[r] \in {"idle", "sites"} \/ (run[r] = "model" /\ ~leased[r]) =>
              stage[r] = "none" /\ "open" \notin wire[r]
        /\ "open" \in wire[r] => stage[r] = "none"
        /\ run[r] = "acting" => leased[r]

\* A session in the map has its timer, and so has one that will enter it.
LeaseIsTimed ==
    \A r \in Runs :
        stage[r] = "open" \/ (stage[r] = "routing" /\ ~aborted[r]) => timer[r] = "armed"

\* Requests wait only in a session that is open and was not called off, behind a full set.
WaitersFit ==
    \A r \in Runs :
        queue[r] > 0 => /\ stage[r] = "open" /\ active[r] = NetLimit
                        /\ ~blocked[r] /\ ~aborted[r]

\* An action beyond the last one closes the session.
TakenFits == \A r \in Runs : stage[r] # "closing" => taken[r] <= MaxActions

\* While a quote is verified, what the page shows and what was read of it was shown; the text
\* read is no wall's, or the session is blocked.
ReadWasShown ==
    \A r \in Runs :
        /\ act[r] = "verifying" => page[r] \in showed[r] \cup {Blank}
        /\ seen[r] # NoPage =>
              /\ act[r] = "verifying" => seen[r] \in showed[r]
              /\ seen[r] \in Walls => blocked[r] \/ page[r] = Blank

Shape ==
    /\ OpenedOnce /\ LeaseIsTimed /\ WaitersFit /\ VerdictMeansClosed /\ TakenFits
    /\ ReadWasShown

IInv == TypeOK /\ Shape /\ WorkerCapacity

\* What a step does, apart from keeping the invariant.
Quiet ==
    \A r \in Runs :
        active'[r] > active[r] \/ queue'[r] < queue[r] => ~blocked[r] /\ ~aborted[r]

Quoted ==
    \A r \in Runs :
        result'[r] = "observed" /\ result[r] # "observed" =>
            snap[r] \in showed[r] \ Walls /\ page[r] \notin Gates /\ ~blocked[r]

OpensNone == \A r \in Runs : stage'[r] \in Held => stage[r] \in Held

(* The parts of the state that several operations write together. *)
SessionTyped ==
    /\ stage \in [Runs -> Held \cup {"none", "gone"}]
    /\ timer \in [Runs -> {"off", "armed", "fired"}]
    /\ aborted \in [Runs -> BOOLEAN]
    /\ queue \in [Runs -> Nat]

ActTyped ==
    /\ act \in [Runs -> {"idle", "checking", "acting", "verifying", "reading", "collecting",
                       "finishing"}]
    /\ doing \in [Runs -> Actions \cup {"none"}]
    /\ result \in [Runs -> {"none", "observed", "handoff", "stopped"}]
    /\ seen \in [Runs -> Pages \cup {NoPage}]
    /\ showed \in [Runs -> SUBSET (Pages \cup {Blank})]

CallsTyped ==
    /\ run \in [Runs -> Waiting \cup {"idle", "releasing", "over"}]
    /\ leased \in [Runs -> BOOLEAN]
    /\ cancel \in [Runs -> BOOLEAN]
    /\ wire \in [Runs -> SUBSET {"open", "act", "delete"}]

\* An abort keeps the types.
LEMMA AbortTyped ==
  ASSUME TypeOK, NEW r \in Runs, Abort(r)
  PROVE  aborted' \in [Runs -> BOOLEAN] /\ queue' \in [Runs -> Nat]
BY DEF TypeOK, Abort

\* The end of a lease keeps the types.
LEMMA CloseTyped ==
  ASSUME TypeOK, NEW r \in Runs, Close(r)
  PROVE  SessionTyped'
<1>1. Abort(r)
  BY DEF Close
<1>2. aborted' \in [Runs -> BOOLEAN] /\ queue' \in [Runs -> Nat]
  BY <1>1, AbortTyped
<1> QED
  BY <1>2 DEF TypeOK, SessionTyped, Close, Held

\* The end of an operation keeps the types.
LEMMA FinishTyped ==
  ASSUME TypeOK, NEW r \in Runs, NEW what \in {"observed", "handoff", "stopped"}, Finish(r, what)
  PROVE  ActTyped' /\ SessionTyped'
<1>1. ActTyped'
  BY DEF TypeOK, ActTyped, Finish, Unread
<1>2. SessionTyped'
  <2>1. CASE Close(r)
    BY <2>1, CloseTyped
  <2>2. CASE UNCHANGED <<stage, timer, aborted, queue>>
    BY <2>2 DEF TypeOK, SessionTyped
  <2> QED
    BY <2>1, <2>2 DEF Finish
<1> QED
  BY <1>1, <1>2

\* The next step of an operation keeps the types.
LEMMA StepTyped ==
  ASSUME TypeOK, NEW r \in Runs,
         NEW step \in {"idle", "acting", "verifying", "reading", "collecting"}, StepTo(r, step)
  PROVE  ActTyped' /\ SessionTyped'
BY DEF TypeOK, ActTyped, SessionTyped, StepTo, Unread

\* What follows an await keeps the types.
LEMMA ProceedTyped ==
  ASSUME TypeOK, NEW r \in Runs, NEW a, Proceed(r, a)
  PROVE  ActTyped' /\ SessionTyped'
BY StepTyped, FinishTyped DEF Proceed

\* An answer keeps the types.
LEMMA ReplyTyped ==
  ASSUME TypeOK, NEW r \in Runs, NEW waits,
         NEW what \in {"lease", "ready", "observed", "handoff", "stopped", "error"},
         Reply(r, waits, what)
  PROVE  answer' \in [Runs -> {"none", "lease", "ready", "observed", "handoff", "stopped", "error"}]
BY DEF TypeOK, Reply

\* A request that is let through keeps the types.
LEMMA SendTyped ==
  ASSUME TypeOK, NEW r \in Runs, NEW call \in {"open", "act", "delete"}, Send(r, call)
  PROVE  wire' \in [Runs -> SUBSET {"open", "act", "delete"}]
BY DEF TypeOK, Send

\* The end of a request keeps the types.
LEMMA EndTyped ==
  ASSUME TypeOK, NEW r \in Runs, End(r)
  PROVE  CallsTyped'
<1>1. wire' \in [Runs -> SUBSET {"open", "act", "delete"}]
  BY SendTyped DEF End, TypeOK
<1> QED
  BY <1>1 DEF TypeOK, CallsTyped, End

(***************************************************************************)
(* Every step keeps the types.                                             *)
(***************************************************************************)
LEMMA TypeStep ==
  ASSUME TypeOK, TakenFits, Next
  PROVE  TypeOK'
<1> USE BrowserWorkerAssumption DEF TypeOK, session, acting, reading, network, gateway, Held, Waiting, Actions
<1>1. ASSUME NEW r \in Runs, OpenArrives(r) PROVE TypeOK'
  BY <1>1 DEF OpenArrives, Received, Reply, PlaceFree
<1>2. ASSUME NEW r \in Runs, ContextMade(r) PROVE TypeOK'
  BY <1>2 DEF ContextMade
<1>3. ASSUME NEW r \in Runs, RoutesSet(r) PROVE TypeOK'
  BY <1>3 DEF RoutesSet, Reply
<1>4. ASSUME NEW r \in Runs, OpenFails(r) PROVE TypeOK'
  BY <1>4 DEF OpenFails, Abort
<1>5. ASSUME NEW r \in Runs, Abandoned(r) PROVE TypeOK'
  BY <1>5 DEF Abandoned, Forget, Reply
<1>6. ASSUME NEW r \in Runs, LifetimeEnds(r) PROVE TypeOK'
  <2>1. SessionTyped'
    BY <1>6, CloseTyped, AbortTyped DEF LifetimeEnds, SessionTyped
  <2> QED
    BY <1>6, <2>1 DEF LifetimeEnds, SessionTyped
<1>7. ASSUME NEW r \in Runs, Sweep(r) PROVE TypeOK'
  BY <1>7 DEF Sweep, Close, Abort
<1>8. ASSUME NEW r \in Runs, DeleteArrives(r) PROVE TypeOK'
  <2>1. SessionTyped'
    BY <1>8, CloseTyped DEF DeleteArrives, SessionTyped
  <2>2. wire' \in [Runs -> SUBSET {"open", "act", "delete"}]
    BY <1>8 DEF DeleteArrives, Received
  <2> QED
    BY <1>8, <2>1, <2>2 DEF DeleteArrives, SessionTyped
<1>9. ASSUME NEW r \in Runs, ContextCloses(r) PROVE TypeOK'
  BY <1>9 DEF ContextCloses, Forget
<1>10. ASSUME NEW r \in Runs, ModelActs(r) PROVE TypeOK'
  <2>1. wire' \in [Runs -> SUBSET {"open", "act", "delete"}]
    BY <1>10, SendTyped DEF ModelActs
  <2>2. run' \in [Runs -> Waiting \cup {"idle", "releasing", "over"}]
    BY <1>10 DEF ModelActs
  <2> QED
    BY <1>10, <2>1, <2>2 DEF ModelActs
<1>11. ASSUME NEW r \in Runs, Checked(r) PROVE TypeOK'
  <2>1. ActTyped' /\ SessionTyped'
    BY <1>11, ProceedTyped DEF Checked
  <2> QED
    BY <1>11, <2>1 DEF Checked, ActTyped, SessionTyped
<1>12. ASSUME NEW r \in Runs, Verified(r) PROVE TypeOK'
  <2>1. ActTyped' /\ SessionTyped'
    BY <1>12, FinishTyped DEF Verified
  <2> QED
    BY <1>12, <2>1 DEF Verified, ActTyped, SessionTyped
<1>13. ASSUME NEW r \in Runs, TextRead(r) PROVE TypeOK'
  BY <1>13 DEF TextRead, StepTo, Unread, PageIsFine
<1>14. ASSUME NEW r \in Runs, SnapshotTaken(r) PROVE TypeOK'
  BY <1>14 DEF SnapshotTaken, StepTo, Unread, Reply
<1>15. ASSUME NEW r \in Runs, ActFails(r) PROVE TypeOK'
  <2>1. ActTyped' /\ SessionTyped'
    BY <1>15, FinishTyped DEF ActFails
  <2>2. blocked' \in [Runs -> BOOLEAN]
    BY <1>15 DEF ActFails
  <2> QED
    BY <1>15, <2>1, <2>2 DEF ActFails, ActTyped, SessionTyped
<1>16. ASSUME NEW r \in Runs, FinishEnds(r) PROVE TypeOK'
  BY <1>16 DEF FinishEnds, Reply
<1>17. ASSUME NEW r \in Runs, PageMisbehaves(r) PROVE TypeOK'
  BY <1>17 DEF PageMisbehaves, Block, Abort
<1>18. ASSUME NEW r \in Runs, Request(r) PROVE TypeOK'
  <2>1. sent' \in [Runs -> 0..(MaxRequests + 1)]
    BY <1>18 DEF Request
  <2>2. active' \in [Runs -> 0..NetLimit] /\ queue' \in [Runs -> Nat]
    BY <1>18, AbortTyped DEF Request, Acquire, Block
  <2>3. blocked' \in [Runs -> BOOLEAN] /\ aborted' \in [Runs -> BOOLEAN]
    BY <1>18, AbortTyped DEF Request, Block
  <2> QED
    BY <1>18, <2>1, <2>2, <2>3 DEF Request
<1>19. ASSUME NEW r \in Runs, RequestDenied(r) PROVE TypeOK'
  BY <1>19 DEF RequestDenied, Block, Abort
<1>20. ASSUME NEW r \in Runs, ResponseArrives(r) PROVE TypeOK'
  <2>1. active' \in [Runs -> 0..NetLimit] /\ queue' \in [Runs -> Nat]
    BY <1>20, AbortTyped DEF ResponseArrives, Release, Block
  <2>2. blocked' \in [Runs -> BOOLEAN] /\ aborted' \in [Runs -> BOOLEAN]
    <3>1. CASE UNCHANGED <<blocked, aborted>>
      BY <3>1
    <3>2. CASE Block(r)
      BY <3>2 DEF Block, Abort
    <3> QED
      BY <1>20, <3>1, <3>2 DEF ResponseArrives
  <2>3. UNCHANGED <<busy, stage, timer, acting, sent, gateway, wire, answer>>
    BY <1>20 DEF ResponseArrives
  <2> QED
    BY <2>1, <2>2, <2>3
<1>21. ASSUME NEW r \in Runs, Start(r) PROVE TypeOK'
  BY <1>21 DEF Start
<1>22. ASSUME NEW r \in Runs, SitesArrive(r) PROVE TypeOK'
  <2>1. CallsTyped'
    BY <1>22, EndTyped DEF SitesArrive, CallsTyped
  <2> QED
    BY <1>22, <2>1 DEF SitesArrive, CallsTyped
<1>23. ASSUME NEW r \in Runs, LeaseArrives(r) PROVE TypeOK'
  BY <1>23 DEF LeaseArrives, Send
<1>24. ASSUME NEW r \in Runs, ResultArrives(r) PROVE TypeOK'
  <2>1. CallsTyped'
    BY <1>24, EndTyped DEF ResultArrives, CallsTyped
  <2>2. answer' \in [Runs -> {"none", "lease", "ready", "observed", "handoff", "stopped", "error"}]
    BY <1>24 DEF ResultArrives
  <2> QED
    BY <1>24, <2>1, <2>2 DEF ResultArrives, CallsTyped
<1>25. ASSUME NEW r \in Runs, RunFails(r) PROVE TypeOK'
  <2>1. CallsTyped'
    BY <1>25, EndTyped DEF RunFails, CallsTyped
  <2>2. answer' \in [Runs -> {"none", "lease", "ready", "observed", "handoff", "stopped", "error"}]
    BY <1>25 DEF RunFails
  <2> QED
    BY <1>25, <2>1, <2>2 DEF RunFails, CallsTyped
<1>26. ASSUME NEW r \in Runs, Released(r) PROVE TypeOK'
  BY <1>26 DEF Released
<1>27. ASSUME NEW r \in Runs, Cancelled(r) PROVE TypeOK'
  BY <1>27 DEF Cancelled, Send
<1>28. ASSUME NEW r \in Runs, NEW p \in Shows[r], Acted(r, p) PROVE TypeOK'
  BY <1>28 DEF Acted, StepTo, Unread
<1>29. ASSUME NEW r \in Runs, NEW p \in Shows[r], PageChanges(r, p) PROVE TypeOK'
  BY <1>29 DEF PageChanges
<1>30. ASSUME NEW r \in Runs, NEW a \in Actions, ActArrives(r, a) PROVE TypeOK'
  <2>1. wire' \in [Runs -> SUBSET {"open", "act", "delete"}]
    BY <1>30 DEF ActArrives, Received
  <2>2. CASE stage[r] # "open" \/ act[r] # "idle"
    BY <1>30, <2>1, <2>2, ReplyTyped DEF ActArrives
  <2>3. CASE stage[r] = "open" /\ act[r] = "idle"
    <3>1. Begin(r, a) /\ UNCHANGED <<answer, busy, blocked, page, snap, active, sent, gateway>>
      BY <1>30, <2>3 DEF ActArrives
    <3>2. taken' \in [Runs -> 0..(MaxActions + 1)]
      BY <3>1, <2>3 DEF Begin, TakenFits
    <3>3. ActTyped' /\ SessionTyped'
      <4>1. CASE act' = [act EXCEPT ![r] = "checking"] /\ doing' = [doing EXCEPT ![r] = a]
                 /\ UNCHANGED <<reading, result, stage, timer, aborted, queue>>
        BY <4>1 DEF ActTyped, SessionTyped
      <4> QED
        BY <3>1, <4>1, FinishTyped, ProceedTyped DEF Begin
    <3> QED
      BY <2>1, <3>1, <3>2, <3>3 DEF ActTyped, SessionTyped
  <2> QED
    BY <1>30, <2>2, <2>3 DEF ActArrives
<1>31. ASSUME NEW r \in Runs, NEW call \in {"open", "act", "delete"}, Lost(r, call) PROVE TypeOK'
  BY <1>31 DEF Lost
<1>32. CASE WorkerRestart
  BY <1>32 DEF WorkerRestart
<1>33. ASSUME NEW r \in Runs, TextSeen(r) PROVE TypeOK'
  <2>1. /\ blocked' \in [Runs -> BOOLEAN] /\ aborted' \in [Runs -> BOOLEAN]
        /\ queue' \in [Runs -> Nat]
    <3>1. CASE page[r] \in Walls
      <4>1. Block(r)
        BY <1>33, <3>1 DEF TextSeen
      <4> QED
        BY <4>1 DEF Block, Abort
    <3>2. CASE page[r] \notin Walls
      BY <1>33, <3>2 DEF TextSeen
    <3> QED
      BY <3>1, <3>2
  <2>2. seen' \in [Runs -> Pages \cup {NoPage}]
    BY <1>33 DEF TextSeen
  <2>3. UNCHANGED <<busy, stage, timer, act, doing, taken, page, snap, showed, result, active,
                    sent, gateway, wire, answer>>
    BY <1>33 DEF TextSeen
  <2> QED
    BY <2>1, <2>2, <2>3
<1> HIDE DEF TypeOK
<1> QED
  BY <1>1, <1>2, <1>3, <1>4, <1>5, <1>6, <1>7, <1>8, <1>9, <1>10, <1>11, <1>12, <1>13, <1>14, <1>15, <1>16, <1>17, <1>18, <1>19, <1>20, <1>21, <1>22, <1>23, <1>24, <1>25, <1>26, <1>27, <1>28, <1>29, <1>30, <1>31, <1>32, <1>33 DEF Next

(***************************************************************************)
(* What every step keeps and does.                                         *)
(***************************************************************************)
Sound == Shape' /\ Quiet /\ Quoted

\* Every step keeps what leases, operations and requests know of each other.
LEMMA SoundStep ==
  ASSUME TypeOK, Shape, Next
  PROVE  Sound /\ (OpensNone \/ \E r \in Runs : OpenArrives(r))
<1> USE BrowserWorkerAssumption
    DEF TypeOK, session, acting, reading, network, gateway, Held, Waiting, Actions, Sound, Shape, Quiet,
        Quoted, OpensNone, OpenedOnce, LeaseIsTimed, WaitersFit, VerdictMeansClosed, TakenFits,
        ReadWasShown
<1>1. ASSUME NEW r \in Runs, OpenArrives(r) PROVE Sound
  BY <1>1 DEF OpenArrives, Received, Reply, PlaceFree
<1>2. ASSUME NEW r \in Runs, ContextMade(r) PROVE Sound /\ OpensNone
  BY <1>2 DEF ContextMade
<1>3. ASSUME NEW r \in Runs, RoutesSet(r) PROVE Sound /\ OpensNone
  BY <1>3 DEF RoutesSet, Reply
<1>4. ASSUME NEW r \in Runs, OpenFails(r) PROVE Sound /\ OpensNone
  BY <1>4 DEF OpenFails, Abort
<1>5. ASSUME NEW r \in Runs, Abandoned(r) PROVE Sound /\ OpensNone
  BY <1>5 DEF Abandoned, Forget, Reply
<1>6. ASSUME NEW r \in Runs, LifetimeEnds(r) PROVE Sound /\ OpensNone
  <2>1. OpenedOnce'
    BY <1>6 DEF LifetimeEnds, Close, Abort
  <2>2. LeaseIsTimed'
    BY <1>6 DEF LifetimeEnds, Close, Abort
  <2>3. WaitersFit'
    BY <1>6 DEF LifetimeEnds, Close, Abort
  <2>4. VerdictMeansClosed'
    BY <1>6 DEF LifetimeEnds, Close, Abort
  <2>5. TakenFits'
    BY <1>6 DEF LifetimeEnds, Close, Abort
  <2>6. Quiet /\ Quoted
    BY <1>6 DEF LifetimeEnds, Close, Abort
  <2>7. OpensNone
    BY <1>6 DEF LifetimeEnds, Close, Abort
  <2>8. ReadWasShown'
    BY <1>6 DEF LifetimeEnds, Close, Abort
  <2> QED
    BY <2>1, <2>2, <2>3, <2>4, <2>5, <2>6, <2>7, <2>8
<1>7. ASSUME NEW r \in Runs, Sweep(r) PROVE Sound /\ OpensNone
  BY <1>7 DEF Sweep, Close, Abort
<1>8. ASSUME NEW r \in Runs, DeleteArrives(r) PROVE Sound /\ OpensNone
  BY <1>8 DEF DeleteArrives, Received, Close, Abort
<1>9. ASSUME NEW r \in Runs, ContextCloses(r) PROVE Sound /\ OpensNone
  BY <1>9 DEF ContextCloses, Forget
<1>10. ASSUME NEW r \in Runs, ModelActs(r) PROVE Sound /\ OpensNone
  BY <1>10 DEF ModelActs, Send
<1>11. ASSUME NEW r \in Runs, Checked(r) PROVE Sound /\ OpensNone
  <2>1. OpenedOnce'
    BY <1>11 DEF Checked, Proceed, StepTo, Finish, Unread, Close, Abort
  <2>2. LeaseIsTimed'
    BY <1>11 DEF Checked, Proceed, StepTo, Finish, Unread, Close, Abort
  <2>3. WaitersFit'
    BY <1>11 DEF Checked, Proceed, StepTo, Finish, Unread, Close, Abort
  <2>4. VerdictMeansClosed'
    BY <1>11 DEF Checked, Proceed, StepTo, Finish, Unread, Close, Abort
  <2>5. TakenFits'
    BY <1>11 DEF Checked, Proceed, StepTo, Finish, Unread, Close, Abort
  <2>6. Quiet /\ Quoted
    BY <1>11 DEF Checked, Proceed, StepTo, Finish, Unread, Close, Abort
  <2>7. OpensNone
    BY <1>11 DEF Checked, Proceed, StepTo, Finish, Unread, Close, Abort
  <2>8. ReadWasShown'
    BY <1>11 DEF Checked, Proceed, StepTo, Finish, Unread, Close, Abort
  <2> QED
    BY <2>1, <2>2, <2>3, <2>4, <2>5, <2>6, <2>7, <2>8
<1>12. ASSUME NEW r \in Runs, Verified(r) PROVE Sound /\ OpensNone
  <2>1. OpenedOnce'
    BY <1>12 DEF Verified, Finish, Unread, Close, Abort, PageIsFine
  <2>2. LeaseIsTimed'
    BY <1>12 DEF Verified, Finish, Unread, Close, Abort, PageIsFine
  <2>3. WaitersFit'
    BY <1>12 DEF Verified, Finish, Unread, Close, Abort, PageIsFine
  <2>4. VerdictMeansClosed'
    BY <1>12 DEF Verified, Finish, Unread, Close, Abort, PageIsFine
  <2>5. TakenFits'
    BY <1>12 DEF Verified, Finish, Unread, Close, Abort, PageIsFine
  <2>6. Quiet /\ Quoted
    BY <1>12 DEF Verified, Finish, Unread, Close, Abort, PageIsFine
  <2>7. OpensNone
    BY <1>12 DEF Verified, Finish, Unread, Close, Abort, PageIsFine
  <2>8. ReadWasShown'
    BY <1>12 DEF Verified, Finish, Unread, Close, Abort, PageIsFine
  <2> QED
    BY <2>1, <2>2, <2>3, <2>4, <2>5, <2>6, <2>7, <2>8
<1>13. ASSUME NEW r \in Runs, TextRead(r) PROVE Sound /\ OpensNone
  BY <1>13 DEF TextRead, StepTo, Unread
<1>14. ASSUME NEW r \in Runs, SnapshotTaken(r) PROVE Sound /\ OpensNone
  BY <1>14 DEF SnapshotTaken, StepTo, Unread, Reply
<1>15. ASSUME NEW r \in Runs, ActFails(r) PROVE Sound /\ OpensNone
  <2>1. OpenedOnce'
    BY <1>15 DEF ActFails, Finish, Unread, Close, Abort
  <2>2. LeaseIsTimed'
    BY <1>15 DEF ActFails, Finish, Unread, Close, Abort
  <2>3. WaitersFit'
    BY <1>15 DEF ActFails, Finish, Unread, Close, Abort
  <2>4. VerdictMeansClosed'
    BY <1>15 DEF ActFails, Finish, Unread, Close, Abort
  <2>5. TakenFits'
    BY <1>15 DEF ActFails, Finish, Unread, Close, Abort
  <2>6. Quiet /\ Quoted
    BY <1>15 DEF ActFails, Finish, Unread, Close, Abort
  <2>7. OpensNone
    BY <1>15 DEF ActFails, Finish, Unread, Close, Abort
  <2>8. ReadWasShown'
    BY <1>15 DEF ActFails, Finish, Unread, Close, Abort
  <2> QED
    BY <2>1, <2>2, <2>3, <2>4, <2>5, <2>6, <2>7, <2>8
<1>16. ASSUME NEW r \in Runs, FinishEnds(r) PROVE Sound /\ OpensNone
  BY <1>16 DEF FinishEnds, Reply
<1>17. ASSUME NEW r \in Runs, PageMisbehaves(r) PROVE Sound /\ OpensNone
  BY <1>17 DEF PageMisbehaves, Block, Abort
<1>18. ASSUME NEW r \in Runs, Request(r) PROVE Sound /\ OpensNone
  <2>1. OpenedOnce'
    BY <1>18 DEF Request, Acquire, Block, Abort
  <2>2. LeaseIsTimed'
    BY <1>18 DEF Request, Acquire, Block, Abort
  <2>3. WaitersFit'
    BY <1>18 DEF Request, Acquire, Block, Abort
  <2>4. VerdictMeansClosed'
    BY <1>18 DEF Request, Acquire, Block, Abort
  <2>5. TakenFits'
    BY <1>18 DEF Request, Acquire, Block, Abort
  <2>6. Quiet /\ Quoted
    BY <1>18 DEF Request, Acquire, Block, Abort
  <2>7. OpensNone
    BY <1>18 DEF Request, Acquire, Block, Abort
  <2>8. ReadWasShown'
    BY <1>18 DEF Request, Acquire, Block, Abort
  <2> QED
    BY <2>1, <2>2, <2>3, <2>4, <2>5, <2>6, <2>7, <2>8
<1>19. ASSUME NEW r \in Runs, RequestDenied(r) PROVE Sound /\ OpensNone
  BY <1>19 DEF RequestDenied, Block, Abort
<1>20. ASSUME NEW r \in Runs, ResponseArrives(r) PROVE Sound /\ OpensNone
  <2>1. OpenedOnce'
    BY <1>20 DEF ResponseArrives, Release, Block, Abort
  <2>2. LeaseIsTimed'
    BY <1>20 DEF ResponseArrives, Release, Block, Abort
  <2>3. WaitersFit'
    BY <1>20 DEF ResponseArrives, Release, Block, Abort
  <2>4. VerdictMeansClosed'
    BY <1>20 DEF ResponseArrives, Release, Block, Abort
  <2>5. TakenFits'
    BY <1>20 DEF ResponseArrives, Release, Block, Abort
  <2>6. Quiet /\ Quoted
    BY <1>20 DEF ResponseArrives, Release, Block, Abort
  <2>7. OpensNone
    BY <1>20 DEF ResponseArrives, Release, Block, Abort
  <2>8. ReadWasShown'
    BY <1>20 DEF ResponseArrives, Release, Block, Abort
  <2> QED
    BY <2>1, <2>2, <2>3, <2>4, <2>5, <2>6, <2>7, <2>8
<1>21. ASSUME NEW r \in Runs, Start(r) PROVE Sound /\ OpensNone
  BY <1>21 DEF Start
<1>22. ASSUME NEW r \in Runs, SitesArrive(r) PROVE Sound /\ OpensNone
  BY <1>22 DEF SitesArrive, End, Send
<1>23. ASSUME NEW r \in Runs, LeaseArrives(r) PROVE Sound /\ OpensNone
  BY <1>23 DEF LeaseArrives, Send
<1>24. ASSUME NEW r \in Runs, ResultArrives(r) PROVE Sound /\ OpensNone
  BY <1>24 DEF ResultArrives, End, Send
<1>25. ASSUME NEW r \in Runs, RunFails(r) PROVE Sound /\ OpensNone
  BY <1>25 DEF RunFails, End, Send
<1>26. ASSUME NEW r \in Runs, Released(r) PROVE Sound /\ OpensNone
  BY <1>26 DEF Released
<1>27. ASSUME NEW r \in Runs, Cancelled(r) PROVE Sound /\ OpensNone
  BY <1>27 DEF Cancelled, Send
<1>28. ASSUME NEW r \in Runs, NEW p \in Shows[r], Acted(r, p) PROVE Sound /\ OpensNone
  BY <1>28 DEF Acted, StepTo, Unread
<1>29. ASSUME NEW r \in Runs, NEW p \in Shows[r], PageChanges(r, p) PROVE Sound /\ OpensNone
  BY <1>29 DEF PageChanges
<1>30. ASSUME NEW r \in Runs, NEW a \in Actions, ActArrives(r, a) PROVE Sound /\ OpensNone
  <2>1. OpenedOnce'
    BY <1>30 DEF ActArrives, Received, Reply, Begin, Proceed, StepTo, Finish, Unread, Close, Abort
  <2>2. LeaseIsTimed'
    BY <1>30 DEF ActArrives, Received, Reply, Begin, Proceed, StepTo, Finish, Unread, Close, Abort
  <2>3. WaitersFit'
    BY <1>30 DEF ActArrives, Received, Reply, Begin, Proceed, StepTo, Finish, Unread, Close, Abort
  <2>4. VerdictMeansClosed'
    BY <1>30 DEF ActArrives, Received, Reply, Begin, Proceed, StepTo, Finish, Unread, Close, Abort
  <2>5. TakenFits'
    BY <1>30 DEF ActArrives, Received, Reply, Begin, Proceed, StepTo, Finish, Unread, Close, Abort
  <2>6. Quiet /\ Quoted
    BY <1>30 DEF ActArrives, Received, Reply, Begin, Proceed, StepTo, Finish, Unread, Close, Abort
  <2>7. OpensNone
    BY <1>30 DEF ActArrives, Received, Reply, Begin, Proceed, StepTo, Finish, Unread, Close, Abort
  <2>8. ReadWasShown'
    BY <1>30 DEF ActArrives, Received, Reply, Begin, Proceed, StepTo, Finish, Unread, Close, Abort
  <2> QED
    BY <2>1, <2>2, <2>3, <2>4, <2>5, <2>6, <2>7, <2>8
<1>31. ASSUME NEW r \in Runs, NEW call \in {"open", "act", "delete"}, Lost(r, call) PROVE Sound /\ OpensNone
  BY <1>31 DEF Lost
<1>32. CASE WorkerRestart
  BY <1>32 DEF WorkerRestart
<1>33. ASSUME NEW r \in Runs, TextSeen(r) PROVE Sound /\ OpensNone
  <2>1. OpenedOnce'
    BY <1>33 DEF TextSeen, Block, Abort
  <2>2. LeaseIsTimed'
    BY <1>33 DEF TextSeen, Block, Abort
  <2>3. WaitersFit'
    BY <1>33 DEF TextSeen, Block, Abort
  <2>4. VerdictMeansClosed'
    BY <1>33 DEF TextSeen, Block, Abort
  <2>5. TakenFits'
    BY <1>33 DEF TextSeen, Block, Abort
  <2>6. Quiet /\ Quoted
    BY <1>33 DEF TextSeen, Block, Abort
  <2>7. OpensNone
    BY <1>33 DEF TextSeen, Block, Abort
  <2>8. ReadWasShown'
    BY <1>33 DEF TextSeen, Block, Abort
  <2> QED
    BY <2>1, <2>2, <2>3, <2>4, <2>5, <2>6, <2>7, <2>8
<1> HIDE DEF Sound, OpensNone
<1> QED
  BY <1>1, <1>2, <1>3, <1>4, <1>5, <1>6, <1>7, <1>8, <1>9, <1>10, <1>11, <1>12, <1>13, <1>14, <1>15, <1>16, <1>17, <1>18, <1>19, <1>20, <1>21, <1>22, <1>23, <1>24, <1>25, <1>26, <1>27, <1>28, <1>29, <1>30, <1>31, <1>32, <1>33 DEF Next

(***************************************************************************)
(* Only an open that finds a place adds a context.                         *)
(***************************************************************************)
LEMMA ContextsAreFinite == IsFiniteSet(Contexts) /\ IsFiniteSet(Contexts')
<1>1. Contexts \subseteq Runs /\ Contexts' \subseteq Runs
  BY DEF Contexts
<1> QED
  BY <1>1, BrowserWorkerAssumption, FS_Subset

\* Every step keeps the bound on the leases.
LEMMA CapacityStep ==
  ASSUME TypeOK, WorkerCapacity, OpensNone \/ \E r \in Runs : OpenArrives(r)
  PROVE  WorkerCapacity'
<1>1. Limit \in Nat
  BY BrowserWorkerAssumption
<1>2. Cardinality(Contexts) \in Nat /\ Cardinality(Contexts') \in Nat
  BY ContextsAreFinite, FS_CardinalityType
<1>3. ASSUME Contexts' \subseteq Contexts PROVE WorkerCapacity'
  <2>1. Cardinality(Contexts') <= Cardinality(Contexts)
    BY <1>3, ContextsAreFinite, FS_Subset
  <2> QED
    BY <1>1, <1>2, <2>1 DEF WorkerCapacity
<1>4. CASE OpensNone
  <2>1. Contexts' \subseteq Contexts
    BY <1>4 DEF OpensNone, Contexts
  <2> QED
    BY <1>3, <2>1
<1>5. ASSUME NEW r \in Runs, OpenArrives(r) PROVE WorkerCapacity'
  <2>1. CASE UNCHANGED stage
    BY <2>1, <1>3 DEF Contexts
  <2>2. CASE PlaceFree /\ stage' = [stage EXCEPT ![r] = "context"]
    <3>1. Contexts' \subseteq Contexts \cup {r}
      BY <2>2 DEF Contexts, TypeOK
    <3>2. /\ IsFiniteSet(Contexts \cup {r})
          /\ Cardinality(Contexts \cup {r}) <= Cardinality(Contexts) + 1
      BY <1>2, ContextsAreFinite, FS_AddElement
    <3>3. Cardinality(Contexts') <= Cardinality(Contexts \cup {r})
      BY <3>1, <3>2, FS_Subset
    <3>4. Cardinality(Contexts \cup {r}) \in Nat
      BY <3>2, FS_CardinalityType
    <3>5. Cardinality(Contexts) < Limit
      BY <2>2 DEF PlaceFree
    <3> QED
      BY <1>1, <1>2, <3>2, <3>3, <3>4, <3>5 DEF WorkerCapacity
  <2> QED
    BY <1>5, <2>1, <2>2 DEF OpenArrives
<1> QED
  BY <1>4, <1>5

\* The worker starts in the invariant.
LEMMA InitIInv == Init => IInv
<1> SUFFICES ASSUME Init PROVE IInv
  OBVIOUS
<1>1. TypeOK
  <2>1. PICK s \in Scenarios :
           /\ run = [r \in Runs |-> IF r \in s.asked THEN "idle" ELSE "over"]
           /\ busy = s.busy
    BY DEF Init
  <2>2. busy \in SUBSET Runs
    BY <2>1, BrowserWorkerAssumption
  <2>3. run \in [Runs -> Waiting \cup {"idle", "releasing", "over"}]
    BY <2>1
  <2> QED
    BY <2>2, <2>3, BrowserWorkerAssumption DEF Init, TypeOK
<1>2. Shape
  BY BrowserWorkerAssumption
  DEF Init, Shape, OpenedOnce, LeaseIsTimed, WaitersFit, VerdictMeansClosed, TakenFits,
        ReadWasShown
<1>3. WorkerCapacity
  <2>1. Contexts = {}
    BY DEF Init, Contexts, Held
  <2> QED
    BY <2>1, FS_EmptySet, BrowserWorkerAssumption DEF WorkerCapacity
<1> QED
  BY <1>1, <1>2, <1>3 DEF IInv

\* Every step keeps the invariant.
LEMMA NextIInv == IInv /\ [Next]_vars => IInv'
<1> SUFFICES ASSUME IInv, [Next]_vars PROVE IInv'
  OBVIOUS
<1>1. CASE Next
  <2>1. TypeOK'
    BY <1>1, TypeStep DEF IInv, Shape
  <2>2. Shape' /\ (OpensNone \/ \E r \in Runs : OpenArrives(r))
    BY <1>1, SoundStep DEF IInv, Sound
  <2>3. WorkerCapacity'
    BY <2>2, CapacityStep DEF IInv
  <2> QED
    BY <2>1, <2>2, <2>3 DEF IInv
<1>2. CASE UNCHANGED vars
  <2>1. TypeOK'
    BY <1>2 DEF IInv, TypeOK, vars
  <2>2. Shape'
    BY <1>2 DEF IInv, Shape, OpenedOnce, LeaseIsTimed, WaitersFit, VerdictMeansClosed, TakenFits,
       ReadWasShown, vars
  <2>3. WorkerCapacity'
    BY <1>2 DEF IInv, WorkerCapacity, Contexts, vars
  <2> QED
    BY <2>1, <2>2, <2>3 DEF IInv
<1> QED
  BY <1>1, <1>2

\* The invariant holds in every state.
THEOREM Invariant == Spec => []IInv
<1> QED
  BY InitIInv, NextIInv, PTL DEF Spec

\* Every state of worker and gateway is well typed; no session takes more actions, sends more
\* requests or holds more slots than its limits (LIMITS).
THEOREM TypeCorrect == Spec => []TypeOK
<1>1. IInv => TypeOK
  BY DEF IInv
<1> QED
  BY <1>1, Invariant, PTL

\* There are never more contexts than LIMITS.sessions, counting those that open and close
\* (BrowserEngine.open, close).
THEOREM PlacesAreBounded == Spec => []WorkerCapacity
<1>1. IInv => WorkerCapacity
  BY DEF IInv
<1> QED
  BY <1>1, Invariant, PTL

\* A verdict that the gateway has not read yet comes from a session whose context is closed
\* (act, finish).
THEOREM VerdictsAreFinal == Spec => []VerdictMeansClosed
<1>1. IInv => VerdictMeansClosed
  BY DEF IInv, Shape
<1> QED
  BY <1>1, Invariant, PTL

\* An open session has its lifetime timer (BrowserEngine.open).
THEOREM SessionsAreTimed == Spec => []NoSessionPastItsTime
<1>1. IInv => NoSessionPastItsTime
  BY DEF IInv, Shape, LeaseIsTimed, NoSessionPastItsTime
<1> QED
  BY <1>1, Invariant, PTL

\* A request waits only behind a full set of slots, and never in a session that was called off
\* (Semaphore).
THEOREM QueueIsBusy == Spec => []NetworkQueueMoves
<1>1. IInv => NetworkQueueMoves
  BY DEF IInv, Shape, WaitersFit, NetworkQueueMoves
<1> QED
  BY <1>1, Invariant, PTL

\* No step gives a slot to a request of a blocked session (context.route, block).
THEOREM BlockedIsSilent == Spec => NothingSentAfterABlock
<1>1. IInv /\ [Next]_vars => [Quiet]_vars
  BY SoundStep DEF IInv, Sound
<1>2. [Quiet]_vars => [\A r \in Runs :
          active'[r] > active[r] \/ queue'[r] < queue[r] => ~blocked[r] /\ ~aborted[r]]_vars
  BY DEF Quiet
<1> QED
  BY <1>1, <1>2, Invariant, PTL DEF Spec, NothingSentAfterABlock

\* No step observes a price that the page has not shown since the action that quotes it was let
\* through, nor on a page that asks for something (act, observe, pageState).
THEOREM ObservationsAreCurrent == Spec => ObservedWasOnThePage
<1>1. IInv /\ [Next]_vars => [Quoted]_vars
  BY SoundStep DEF IInv, Sound
<1>2. [Quoted]_vars => [\A r \in Runs :
          result'[r] = "observed" /\ result[r] # "observed" =>
              snap[r] \in showed[r] \ Walls /\ page[r] \notin Gates /\ ~blocked[r]]_vars
  BY DEF Quoted
<1> QED
  BY <1>1, <1>2, Invariant, PTL DEF Spec, ObservedWasOnThePage
=============================================================================
