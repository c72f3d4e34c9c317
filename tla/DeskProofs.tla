----------------------------- MODULE DeskProofs -----------------------------
(***************************************************************************)
(* Proofs about Desk for every set of chats, tasks and offers.  The        *)
(* inductive invariant IInv adds to the stated properties what connects    *)
(* the gateway's memory with its rows: the maps of holdOffer name exactly  *)
(* the requests in flight, a granted request is held by the provider, and  *)
(* an offer row belongs to a desk that has answered.                       *)
(***************************************************************************)
EXTENDS Desk, FiniteSetTheorems, TLAPS

\* holdRequests and desksWithHoldRequests are the requests in flight and their desks.
HoldMapsAgree ==
    /\ \A o \in Offers : o \in asking <=> wire[o] # "idle"
    /\ \A o \in asking : DeskOf[o] \in busyDesk
    /\ \A o, p \in asking : DeskOf[o] = DeskOf[p] => o = p

GrantedIsHeld == \A o \in Offers : wire[o] = "granted" => o \in held

\* An offer still to be confirmed while its request is out, or removed with its chat.
AskedIsUnconfirmed == \A o \in asking : hold[o] # "confirmed"

OffersFollowTheAnswer ==
    \A o \in Offers : OfferExists(o) =>
        status[DeskOf[o]] \in {"awaiting", "completed", "accepted", "rejected"}

IInv ==
    /\ TypeOK
    /\ FinishOwnsTheDesk
    /\ NothingOutlivesItsChat
    /\ NoFakeRun
    /\ HoldMapsAgree
    /\ GrantedIsHeld
    /\ AskedIsUnconfirmed
    /\ ConfirmedMeansHeld
    /\ OffersFollowTheAnswer

\* The desk starts in the invariant.
LEMMA InitIInv == Init => IInv
  BY DeskAssumption
  DEF Init, IInv, TypeOK, FinishOwnsTheDesk, NothingOutlivesItsChat, NoFakeRun,
      HoldMapsAgree, GrantedIsHeld, AskedIsUnconfirmed, ConfirmedMeansHeld,
      OffersFollowTheAnswer, OfferExists, RowExists, ChatIsLive, Users, TaskStatus,
      Verdicts, Guest, Account

(***************************************************************************)
(* Every step keeps IInv: one step of the proof per action.                *)
(***************************************************************************)
LEMMA NextIInv == IInv /\ [Next]_vars => IInv'
<1> SUFFICES ASSUME IInv, [Next]_vars PROVE IInv'
  OBVIOUS
<1> USE DeskAssumption
    DEF IInv, TypeOK, FinishOwnsTheDesk, NothingOutlivesItsChat, NoFakeRun,
        HoldMapsAgree, GrantedIsHeld, AskedIsUnconfirmed, ConfirmedMeansHeld,
        OffersFollowTheAnswer, OfferExists, RowExists, ChatIsLive, Users, TaskStatus,
        Verdicts, Guest, Account, rows, memory, outside
<1>1. ASSUME NEW c \in Chats, NEW ts \in SUBSET Tasks, OpenDesks(c, ts)
      PROVE  IInv'
  BY <1>1 DEF OpenDesks
<1>2. ASSUME NEW c \in Chats, ChatMoves(c) PROVE IInv'
  BY <1>2 DEF ChatMoves
<1>3. ASSUME NEW c \in Chats, RemoveChat(c) PROVE IInv'
  BY <1>3 DEF RemoveChat
<1>4. ASSUME NEW t \in Tasks, FinishStarts(t) PROVE IInv'
  <2>1. CASE StartResearch(t)
    BY <1>4, <2>1 DEF FinishStarts, StartResearch
  <2>2. CASE PatchFinished(t) /\ UNCHANGED <<run, runner, abort>>
    BY <1>4, <2>2 DEF FinishStarts, PatchFinished
  <2>3. CASE /\ job' \in {[job EXCEPT ![t] = "provider"], [job EXCEPT ![t] = "idle"]}
             /\ UNCHANGED <<status, run, runner, abort>>
    BY <1>4, <2>3 DEF FinishStarts
  <2> QED
    BY <1>4, <2>1, <2>2, <2>3 DEF FinishStarts, BrowserFallback
<1>5. ASSUME NEW t \in Tasks, SourcesAnswer(t) PROVE IInv'
  <2>1. PICK os \in SUBSET Offers, confirmed \in SUBSET Offers :
              confirmed \subseteq os /\ ProviderOffers(t, os, confirmed)
    <3> HIDE DEF IInv
    <3> QED
      BY <1>5 DEF SourcesAnswer
  <2> QED
    BY <2>1 DEF ProviderOffers, PatchFinished, Unused
<1>6. ASSUME NEW t \in Tasks, NEW replied \in BOOLEAN, ProviderEmpty(t, replied)
      PROVE  IInv'
  <2>1. CASE StartResearch(t)
    BY <1>6, <2>1 DEF ProviderEmpty, StartResearch
  <2>2. CASE PatchFinished(t) /\ UNCHANGED <<run, runner, abort>>
    BY <1>6, <2>2 DEF ProviderEmpty, PatchFinished
  <2> QED
    BY <1>6, <2>1, <2>2 DEF ProviderEmpty, BrowserFallback
<1>7. ASSUME NEW t \in Tasks, NEW verdict \in Verdicts, BrowserAnswers(t, verdict)
      PROVE  IInv'
  BY <1>7 DEF BrowserAnswers, SaveRun, SameOwner
<1>8. ASSUME NEW t \in Tasks, BrowserFails(t) PROVE IInv'
  BY <1>8 DEF BrowserFails, SaveRun, SameOwner
<1>9. ASSUME NEW t \in Tasks, BrowserReleased(t) PROVE IInv'
  BY <1>9 DEF BrowserReleased, PatchFinished
<1>10. ASSUME NEW t \in Tasks, StopBrowser(t) \/ BrowserTimeLimit(t) PROVE IInv'
  BY <1>10 DEF StopBrowser, BrowserTimeLimit
<1>11. ASSUME NEW t \in Tasks, NEW decision \in DOMAIN DecisionStatus,
              Decide(t, decision)
       PROVE  IInv'
  BY <1>11 DEF Decide, DecisionStatus
<1>12. ASSUME NEW o \in Offers, HoldAsked(o) PROVE IInv'
  BY <1>12 DEF HoldAsked
<1>13. ASSUME NEW o \in Offers, ProviderHolds(o) PROVE IInv'
  BY <1>13 DEF ProviderHolds
<1>14. ASSUME NEW o \in Offers, HoldConfirmed(o) PROVE IInv'
  BY <1>14 DEF HoldConfirmed, HoldSettled
<1>15. ASSUME NEW o \in Offers, HoldNotConfirmed(o) PROVE IInv'
  BY <1>15 DEF HoldNotConfirmed, HoldSettled
<1>16. CASE Restart
  BY <1>16 DEF Restart, RecoverRuns
<1>17. CASE UNCHANGED vars
  BY <1>17 DEF vars
<1> QED
  BY <1>1, <1>2, <1>3, <1>4, <1>5, <1>6, <1>7, <1>8, <1>9, <1>10, <1>11, <1>12,
     <1>13, <1>14, <1>15, <1>16, <1>17
  DEF Next

\* The invariant holds in every reachable state.
LEMMA SpecIInv == Spec => []IInv
  BY InitIInv, NextIInv, PTL DEF Spec

(***************************************************************************)
(* The safety properties of the runs, for every instance.                  *)
(***************************************************************************)

\* The rows, the gateway's maps and the provider keep their types (the DDL of
\* agent_tasks, offers and browser_runs; TasksService, BrowserService).
THEOREM TypeCorrect == Spec => []TypeOK
  BY SpecIInv, PTL DEF IInv

\* finish() is the only writer of the desk it works on.
THEOREM FinishIsAlone == Spec => []FinishOwnsTheDesk
  BY SpecIInv, PTL DEF IInv

\* Deleting a chat is complete and stays complete.
THEOREM RemovalIsComplete == Spec => []NothingOutlivesItsChat
  BY SpecIInv, PTL DEF IInv

\* The two maps of holdOffer serialise the hold requests of a desk, and an offer it
\* holds is never asked for again.
THEOREM HoldsAreSerial == Spec => []OneHoldRequestPerDesk
<1>1. IInv => OneHoldRequestPerDesk
  BY DeskAssumption
  DEF IInv, TypeOK, HoldMapsAgree, AskedIsUnconfirmed, OneHoldRequestPerDesk
<1> QED
  BY SpecIInv, <1>1, PTL

\* A hold the desk reports is a hold the provider made.
THEOREM HoldsAreReal == Spec => []ConfirmedMeansHeld
  BY SpecIInv, PTL DEF IInv

\* No crash leaves a browser run that says it is running.
THEOREM RunsAreReal == Spec => []NoFakeRun
  BY SpecIInv, PTL DEF IInv

(***************************************************************************)
(* Action properties.                                                      *)
(***************************************************************************)

\* No step takes back an accepted or rejected desk (decide, performHold, finish,
\* onModuleInit): whoever writes status reads it in the same step.
THEOREM DecisionsAreFinal == Spec => DecisionIsFinal
<1>1. ASSUME IInv, [Next]_vars, NEW t \in Tasks,
             status[t] \in {"accepted", "rejected"}
      PROVE  status'[t] \in {status[t], "removed"}
  <2> USE DEF IInv, TypeOK, FinishOwnsTheDesk, TaskStatus
  <2>1. job[t] = "idle"
    BY <1>1
  <2>2. ASSUME NEW u \in Tasks, PatchFinished(u), job[u] # "idle"
        PROVE  status'[t] = status[t]
    BY <1>1, <2>1, <2>2 DEF PatchFinished
  <2>3. ASSUME NEW u \in Tasks,
               FinishStarts(u) \/ (\E replied \in BOOLEAN : ProviderEmpty(u, replied))
        PROVE  status'[t] = status[t]
    BY <2>2, <2>3 DEF FinishStarts, ProviderEmpty, BrowserFallback, StartResearch
  <2>4. ASSUME NEW u \in Tasks,
               BrowserReleased(u) \/ SourcesAnswer(u)
        PROVE  status'[t] = status[t]
    BY <2>2, <2>4 DEF BrowserReleased, SourcesAnswer, ProviderOffers
  <2>5. ASSUME NEW c \in Chats,
               \/ \E ts \in SUBSET Tasks : OpenDesks(c, ts)
               \/ ChatMoves(c) \/ RemoveChat(c)
        PROVE  status'[t] \in {status[t], "removed"}
    BY <1>1, <2>5 DEF OpenDesks, ChatMoves, RemoveChat
  <2>6. ASSUME NEW u \in Tasks,
               \E decision \in DOMAIN DecisionStatus : Decide(u, decision)
        PROVE  status'[t] = status[t]
    BY <1>1, <2>6 DEF Decide, DecisionStatus
  <2>7. ASSUME NEW u \in Tasks,
               \/ \E verdict \in Verdicts : BrowserAnswers(u, verdict)
               \/ BrowserFails(u) \/ StopBrowser(u) \/ BrowserTimeLimit(u)
        PROVE  status'[t] = status[t]
    BY <2>7 DEF BrowserAnswers, BrowserFails, StopBrowser, BrowserTimeLimit, rows
  <2>8. ASSUME NEW o \in Offers,
               HoldAsked(o) \/ ProviderHolds(o) \/ HoldConfirmed(o) \/ HoldNotConfirmed(o)
        PROVE  status'[t] = status[t]
    BY <2>8 DEF HoldAsked, ProviderHolds, HoldConfirmed, HoldNotConfirmed, rows
  <2>9. CASE Restart
    BY <1>1, <2>9 DEF Restart, RecoverRuns
  <2>10. CASE UNCHANGED vars
    BY <2>10 DEF vars
  <2> QED
    BY <1>1, <2>3, <2>4, <2>5, <2>6, <2>7, <2>8, <2>9, <2>10 DEF Next
<1>2. IInv /\ [Next]_vars =>
        [\A t \in Tasks : status[t] \in {"accepted", "rejected"} =>
            status'[t] \in {status[t], "removed"}]_vars
  BY <1>1
<1> QED
  BY SpecIInv, <1>2, PTL DEF Spec, DecisionIsFinal

\* A run row turns to "observed" only under the owner the run started with: save()
\* compares the owners in the step that writes.
THEOREM ObservationsStayWithTheirOwner == Spec => LateObservationsAreDropped
<1>1. ASSUME IInv, [Next]_vars, NEW t \in Tasks,
             run'[t] = "observed", run[t] # "observed"
      PROVE  owner[ChatOf[t]] = runner[t]
  <2> USE DEF IInv, TypeOK, Verdicts
  <2>1. ASSUME NEW u \in Tasks, NEW verdict \in Verdicts, SaveRun(u, verdict)
        PROVE  owner[ChatOf[t]] = runner[t]
    BY <1>1, <2>1 DEF SaveRun, SameOwner
  <2>2. ASSUME NEW u \in Tasks,
               \/ \E verdict \in Verdicts : BrowserAnswers(u, verdict)
               \/ BrowserFails(u)
        PROVE  owner[ChatOf[t]] = runner[t]
    BY <2>1, <2>2 DEF BrowserAnswers, BrowserFails
  <2>3. ASSUME NEW u \in Tasks,
               FinishStarts(u) \/ (\E replied \in BOOLEAN : ProviderEmpty(u, replied))
        PROVE  FALSE
    BY <1>1, <2>3 DEF FinishStarts, ProviderEmpty, BrowserFallback, StartResearch
  <2>4. ASSUME NEW u \in Tasks,
               \/ BrowserReleased(u) \/ StopBrowser(u) \/ BrowserTimeLimit(u)
               \/ SourcesAnswer(u)
               \/ \E decision \in DOMAIN DecisionStatus : Decide(u, decision)
        PROVE  FALSE
    BY <1>1, <2>4
    DEF BrowserReleased, StopBrowser, BrowserTimeLimit, SourcesAnswer, ProviderOffers, Decide,
        rows
  <2>5. ASSUME NEW c \in Chats,
               \/ \E ts \in SUBSET Tasks : OpenDesks(c, ts)
               \/ ChatMoves(c) \/ RemoveChat(c)
        PROVE  FALSE
    BY <1>1, <2>5 DEF OpenDesks, ChatMoves, RemoveChat
  <2>6. ASSUME NEW o \in Offers,
               HoldAsked(o) \/ ProviderHolds(o) \/ HoldConfirmed(o) \/ HoldNotConfirmed(o)
        PROVE  FALSE
    BY <1>1, <2>6 DEF HoldAsked, ProviderHolds, HoldConfirmed, HoldNotConfirmed, rows
  <2>7. CASE Restart
    BY <1>1, <2>7 DEF Restart, RecoverRuns
  <2>8. CASE UNCHANGED vars
    BY <1>1, <2>8 DEF vars
  <2> QED
    BY <1>1, <2>2, <2>3, <2>4, <2>5, <2>6, <2>7, <2>8 DEF Next
<1>2. IInv /\ [Next]_vars =>
        [\A t \in Tasks : run'[t] = "observed" /\ run[t] # "observed" =>
            owner[ChatOf[t]] = runner[t]]_vars
  BY <1>1
<1> QED
  BY SpecIInv, <1>2, PTL DEF Spec, LateObservationsAreDropped

(***************************************************************************)
(* The slots of browser research.                                          *)
(***************************************************************************)

CapacityInv == IsFiniteSet(ActiveRuns) /\ BrowserCapacity

\* StartResearch takes a slot it has checked; no other step adds a run.
LEMMA SlotsStep ==
  ASSUME IInv, [Next]_vars
  PROVE  \/ ActiveRuns' \subseteq ActiveRuns
         \/ \E t \in Tasks : StartResearch(t) /\ ActiveRuns' = ActiveRuns \cup {t}
<1> USE DEF IInv, TypeOK, ActiveRuns
<1>1. ASSUME NEW t \in Tasks, PatchFinished(t)
      PROVE  ActiveRuns' \subseteq ActiveRuns
  BY <1>1 DEF PatchFinished
<1>2. ASSUME NEW t \in Tasks, StartResearch(t)
      PROVE  ActiveRuns' = ActiveRuns \cup {t}
  BY <1>2 DEF StartResearch
<1>3. ASSUME NEW t \in Tasks, FinishStarts(t), ~StartResearch(t)
      PROVE  ActiveRuns' \subseteq ActiveRuns
  BY <1>1, <1>3 DEF FinishStarts, BrowserFallback
<1>4. ASSUME NEW t \in Tasks, NEW replied \in BOOLEAN, ProviderEmpty(t, replied),
             ~StartResearch(t)
      PROVE  ActiveRuns' \subseteq ActiveRuns
  BY <1>1, <1>4 DEF ProviderEmpty, BrowserFallback
<1>5. ASSUME NEW t \in Tasks,
             BrowserReleased(t) \/ SourcesAnswer(t)
      PROVE  ActiveRuns' \subseteq ActiveRuns
  BY <1>1, <1>5 DEF BrowserReleased, SourcesAnswer, ProviderOffers
<1>6. ASSUME NEW t \in Tasks,
             \/ \E verdict \in Verdicts : BrowserAnswers(t, verdict)
             \/ BrowserFails(t) \/ StopBrowser(t) \/ BrowserTimeLimit(t)
             \/ \E decision \in DOMAIN DecisionStatus : Decide(t, decision)
      PROVE  ActiveRuns' \subseteq ActiveRuns
  BY <1>6
  DEF BrowserAnswers, BrowserFails, StopBrowser, BrowserTimeLimit, Decide, memory
<1>7. ASSUME NEW c \in Chats, NEW ts \in SUBSET Tasks, OpenDesks(c, ts)
      PROVE  ActiveRuns' \subseteq ActiveRuns
  BY <1>7 DEF OpenDesks
<1>8. ASSUME NEW c \in Chats, ChatMoves(c) \/ RemoveChat(c)
      PROVE  ActiveRuns' \subseteq ActiveRuns
  BY <1>8 DEF ChatMoves, RemoveChat, memory
<1>9. ASSUME NEW o \in Offers,
             HoldAsked(o) \/ ProviderHolds(o) \/ HoldConfirmed(o) \/ HoldNotConfirmed(o)
      PROVE  ActiveRuns' \subseteq ActiveRuns
  BY <1>9 DEF HoldAsked, ProviderHolds, HoldConfirmed, HoldNotConfirmed, memory
<1>10. CASE Restart
  BY <1>10 DEF Restart
<1>11. CASE UNCHANGED vars
  BY <1>11 DEF vars
<1> QED
  BY <1>2, <1>3, <1>4, <1>5, <1>6, <1>7, <1>8, <1>9, <1>10, <1>11 DEF Next

\* Browser research never exceeds its slots, nor one run per chat (research).
THEOREM SlotsAreBounded == Spec => []BrowserCapacity
<1>1. Init => CapacityInv
  <2> SUFFICES ASSUME Init PROVE CapacityInv
    OBVIOUS
  <2>1. ActiveRuns = {}
    BY DEF Init, ActiveRuns
  <2> QED
    BY <2>1, FS_EmptySet, DeskAssumption DEF CapacityInv, BrowserCapacity
<1>2. ASSUME IInv, CapacityInv, [Next]_vars PROVE CapacityInv'
  <2>1. CASE ActiveRuns' \subseteq ActiveRuns
    <3>1. /\ IsFiniteSet(ActiveRuns')
          /\ Cardinality(ActiveRuns') <= Cardinality(ActiveRuns)
      BY <1>2, <2>1, FS_Subset DEF CapacityInv
    <3>2. Cardinality(ActiveRuns) \in Nat /\ Cardinality(ActiveRuns') \in Nat
      BY <1>2, <3>1, FS_CardinalityType DEF CapacityInv
    <3> QED
      BY <1>2, <2>1, <3>1, <3>2, DeskAssumption DEF CapacityInv, BrowserCapacity
  <2>2. ASSUME NEW t \in Tasks, StartResearch(t), ActiveRuns' = ActiveRuns \cup {t}
        PROVE  CapacityInv'
    <3>1. /\ IsFiniteSet(ActiveRuns')
          /\ Cardinality(ActiveRuns') <= Cardinality(ActiveRuns) + 1
      BY <1>2, <2>2, FS_AddElement, FS_CardinalityType DEF CapacityInv
    <3>2. Cardinality(ActiveRuns) \in Nat /\ Cardinality(ActiveRuns') \in Nat
      BY <1>2, <3>1, FS_CardinalityType DEF CapacityInv
    <3>3. Cardinality(ActiveRuns') <= MaxRuns
      BY <2>2, <3>1, <3>2, DeskAssumption DEF StartResearch
    <3>4. \A t1, u1 \in ActiveRuns' : ChatOf[t1] = ChatOf[u1] => t1 = u1
      BY <1>2, <2>2 DEF StartResearch, CapacityInv, BrowserCapacity
    <3> QED
      BY <3>1, <3>3, <3>4 DEF CapacityInv, BrowserCapacity
  <2> QED
    BY <1>2, <2>1, <2>2, SlotsStep
<1>3. CapacityInv => BrowserCapacity
  BY DEF CapacityInv
<1> QED
  BY SpecIInv, <1>1, <1>2, <1>3, PTL DEF Spec

(***************************************************************************)
(* Desk implements DeskPromise.                                            *)
(***************************************************************************)

\* A step that leaves holds and requests alone, and moves no desk but forward.
LEMMA ForwardIsProgress ==
  ASSUME IInv, IInv',
         UNCHANGED <<wire, hold>>,
         \A t \in Tasks : StageOf(t)' = StageOf(t)
             \/ <<StageOf(t), StageOf(t)'>> \in Promise!Steps
  PROVE  Promise!Progress
  BY DEF Promise!Progress, Promise!DesksMove, Promise!Stages, StageOf

\* A step that touches no status, hold or request is a stutter of the promise.
LEMMA OtherwiseStutters ==
  ASSUME IInv, UNCHANGED <<status, wire, hold>>
  PROVE  UNCHANGED Promise!vars
  BY DEF Promise!vars, StageOf

\* The end of finish(): a working desk answers, a removed one stays removed.
LEMMA PatchIsProgress ==
  ASSUME IInv, NEW t \in Tasks, PatchFinished(t), job[t] # "idle",
         NEW u \in Tasks
  PROVE  StageOf(u)' = StageOf(u) \/ <<StageOf(u), StageOf(u)'>> \in Promise!Steps
  BY DEF IInv, TypeOK, FinishOwnsTheDesk, PatchFinished, StageOf, RowExists,
         TaskStatus, Promise!Steps

\* Every step of the desk is one of the promise, or none.
LEMMA StepKeepsPromise ==
  ASSUME IInv, IInv', [Next]_vars
  PROVE  [Promise!Next]_(Promise!vars)
<1> USE DEF Promise!Next
<1>1. ASSUME NEW c \in Chats, NEW ts \in SUBSET Tasks, OpenDesks(c, ts)
      PROVE  Promise!Progress
  <2>1. \A t \in Tasks : StageOf(t)' = StageOf(t)
            \/ <<StageOf(t), StageOf(t)'>> \in Promise!Steps
    BY <1>1 DEF OpenDesks, IInv, TypeOK, StageOf, Promise!Steps
  <2> QED
    BY <1>1, <2>1, ForwardIsProgress DEF OpenDesks, outside
<1>2. ASSUME NEW c \in Chats, RemoveChat(c)
      PROVE  Promise!Remove(c)
  BY <1>2, DeskAssumption
  DEF RemoveChat, outside, Promise!Remove, StageOf, IInv, TypeOK, RowExists,
      TaskStatus, NothingOutlivesItsChat
<1>3. ASSUME NEW t \in Tasks,
             FinishStarts(t) \/ (\E replied \in BOOLEAN : ProviderEmpty(t, replied))
      PROVE  [Promise!Next]_(Promise!vars)
  <2>1. UNCHANGED <<wire, hold>>
    BY <1>3 DEF FinishStarts, ProviderEmpty, outside
  <2>2. CASE PatchFinished(t) /\ job[t] # "idle"
    BY <2>1, <2>2, PatchIsProgress, ForwardIsProgress
  <2>3. CASE UNCHANGED status
    BY <2>1, <2>3, OtherwiseStutters
  <2> QED
    BY <1>3, <2>2, <2>3
    DEF FinishStarts, ProviderEmpty, BrowserFallback, StartResearch
<1>4. ASSUME NEW t \in Tasks, BrowserReleased(t)
      PROVE  Promise!Progress
  BY <1>4, PatchIsProgress, ForwardIsProgress DEF BrowserReleased, outside
<1>5. ASSUME NEW t \in Tasks, NEW os \in SUBSET Offers, NEW confirmed \in SUBSET os,
             ProviderOffers(t, os, confirmed)
      PROVE  [Promise!Next]_(Promise!vars)
  <2> USE <1>5 DEF ProviderOffers, Unused
  <2>1. CASE RowExists(t)
    <3>1. StageOf(t) = "searching" /\ StageOf(t)' = "answered"
      BY <2>1
      DEF IInv, TypeOK, FinishOwnsTheDesk, PatchFinished, StageOf, RowExists, TaskStatus
    <3>2. [u \in Tasks |-> StageOf(u)]' =
              [[u \in Tasks |-> StageOf(u)] EXCEPT ![t] = "answered"]
      BY <2>1, <3>1 DEF PatchFinished, IInv, TypeOK, StageOf
    <3>3. {o \in Offers : hold[o] = "confirmed"}' =
              {o \in Offers : hold[o] = "confirmed"} \cup confirmed
      BY <2>1 DEF IInv, TypeOK
    <3>4. \A o \in confirmed : /\ DeskOf[o] = t
                              /\ wire[o] = "idle" /\ hold[o] # "confirmed"
      OBVIOUS
    <3>5. UNCHANGED {o \in Offers : wire[o] # "idle"}
      OBVIOUS
    <3>6. Promise!Answer(t, confirmed)
      BY <3>1, <3>2, <3>3, <3>4, <3>5 DEF Promise!Answer
    <3> QED
      BY <3>6
  <2>2. CASE ~RowExists(t)
    <3>1. UNCHANGED <<status, wire>>
      BY <2>2 DEF PatchFinished, IInv, TypeOK
    <3>2. UNCHANGED hold
      BY <2>2 DEF IInv, TypeOK
    <3> QED
      BY <3>1, <3>2, OtherwiseStutters
  <2> QED
    BY <2>1, <2>2
<1>6. ASSUME NEW t \in Tasks, NEW decision \in DOMAIN DecisionStatus,
             Decide(t, decision)
      PROVE  Promise!Progress
  <2>1. \A u \in Tasks : StageOf(u)' = StageOf(u)
            \/ <<StageOf(u), StageOf(u)'>> \in Promise!Steps
    BY <1>6
    DEF Decide, DecisionStatus, IInv, TypeOK, StageOf, Promise!Steps
  <2> QED
    BY <1>6, <2>1, ForwardIsProgress DEF Decide, outside
<1>7. ASSUME NEW t \in Tasks,
             \/ \E verdict \in Verdicts : BrowserAnswers(t, verdict)
             \/ BrowserFails(t) \/ StopBrowser(t) \/ BrowserTimeLimit(t)
      PROVE  UNCHANGED Promise!vars
  BY <1>7, OtherwiseStutters
  DEF BrowserAnswers, BrowserFails, StopBrowser, BrowserTimeLimit, rows, outside
<1>8. ASSUME NEW c \in Chats, ChatMoves(c)
      PROVE  UNCHANGED Promise!vars
  BY <1>8, OtherwiseStutters DEF ChatMoves, outside
<1>9. ASSUME NEW o \in Offers, HoldAsked(o)
      PROVE  Promise!Ask(o)
  BY <1>9, DeskAssumption
  DEF HoldAsked, rows, Promise!Ask, IInv, TypeOK, HoldMapsAgree,
      OffersFollowTheAnswer, OfferExists, StageOf
<1>10. ASSUME NEW o \in Offers, ProviderHolds(o)
       PROVE  UNCHANGED Promise!vars
  BY <1>10 DEF ProviderHolds, rows, Promise!vars, IInv, TypeOK, StageOf
<1>11. ASSUME NEW o \in Offers, HoldConfirmed(o)
       PROVE  Promise!Book(o) \/ Promise!GiveUp(o)
  BY <1>11, DeskAssumption
  DEF HoldConfirmed, HoldSettled, Promise!Book, Promise!GiveUp, IInv, TypeOK,
      OffersFollowTheAnswer, OfferExists, AskedIsUnconfirmed, HoldMapsAgree, StageOf
<1>12. ASSUME NEW o \in Offers, HoldNotConfirmed(o)
       PROVE  Promise!GiveUp(o)
  BY <1>12 DEF HoldNotConfirmed, HoldSettled, rows, Promise!GiveUp, IInv, TypeOK, StageOf
<1>13. CASE Restart
  BY <1>13
  DEF Restart, RecoverRuns, Promise!Forget, Promise!DesksMove, Promise!Stages, IInv,
      TypeOK, StageOf
<1>14. CASE UNCHANGED vars
  BY <1>14, OtherwiseStutters DEF vars
<1> QED
  BY <1>1, <1>2, <1>3, <1>4, <1>5, <1>6, <1>7, <1>8, <1>9, <1>10, <1>11, <1>12, <1>13,
     <1>14
  DEF Next, SourcesAnswer

\* The traveler's view of DeskPromise holds of the code: each step of a handler is one
\* step of the promise or none.
THEOREM DeskKeepsPromise == Spec => KeepsPromise
<1>1. Init => Promise!Init
  BY DEF Init, Promise!Init, StageOf
<1>2. IInv /\ IInv' /\ [Next]_vars => [Promise!Next]_(Promise!vars)
  BY StepKeepsPromise
<1> QED
  BY SpecIInv, <1>1, <1>2, PTL DEF Spec, KeepsPromise, Promise!Spec
=============================================================================
