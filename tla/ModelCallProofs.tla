-------------------------- MODULE ModelCallProofs --------------------------
(***************************************************************************)
(* Proofs about ModelCall for every retry policy, timeout and vendor.  The *)
(* inductive invariant adds to the stated properties what a phase says     *)
(* about the screen and the clock: a call that is asking or pausing has    *)
(* shown nothing, and each pending timer is due within its share.  With    *)
(* StopIsHeard it makes the call implement CallPromise.                    *)
(***************************************************************************)
EXTENDS ModelCall, SequenceTheorems, TLAPS

\* Nothing is on the screen between two attempts, nor ever without a watcher.
ShownOnlyWhileReading ==
    /\ phase \in {"asking", "pausing", "notice"} => ~Forwarded
    /\ ~watched => ~Forwarded

StillOpen == phase # "done" => outcome = "none"

\* Silence was met on an attempt that is behind this one, or is about to be.
SilenceIsBehind ==
    phase # "done" => \/ silent = 0
                      \/ silent = 1 /\ (attempt > 1 \/ phase = "pausing")

\* Where the pending timer is due.
TimerShare ==
    /\ phase \in {"asking", "reading"} => due <= Deadline + AttemptTimeout + Lag
    /\ phase = "notice" => due <= Deadline + AttemptTimeout + NoticeTimeout + 2 * Lag
    /\ phase = "pausing" => due <= Deadline /\ attempt < Attempts
    /\ phase # "done" => now <= due + Lag

IInv ==
    /\ TypeOK
    /\ OneAttemptOnScreen
    /\ WordsAreKept
    /\ AnswerWasShown
    /\ SilenceIsAskedOnceMore
    /\ CallIsBounded
    /\ ShownOnlyWhileReading
    /\ StillOpen
    /\ SilenceIsBehind
    /\ TimerShare

\* A call starts in the invariant.
LEMMA InitIInv == Init => IInv
<1> SUFFICES ASSUME Init PROVE IInv
  OBVIOUS
<1> USE ModelCallAssumption DEF Init
<1>1. Larger(MinTimeout, Smaller(AttemptTimeout, Deadline)) \in 0..AttemptTimeout
  BY DEF Larger, Smaller
<1>2. ~Forwarded /\ ~HasWords
  BY DEF Forwarded, HasWords
<1>3. TypeOK
  <2>1. screen \in Seq(Frames) /\ answer \in Seq(Frames)
    BY EmptySeq
  <2>2. attempt \in 1..Attempts /\ now \in Nat /\ due \in Nat /\ mused \subseteq 1..Attempts
    BY <1>1
  <2>3. silent \in Nat
    OBVIOUS
  <2> QED
    BY <2>1, <2>2, <2>3 DEF TypeOK
<1>4. OneAttemptOnScreen /\ WordsAreKept /\ AnswerWasShown /\ SilenceIsAskedOnceMore
  BY <1>2 DEF OneAttemptOnScreen, WordsAreKept, AnswerWasShown, SilenceIsAskedOnceMore
<1>5. ShownOnlyWhileReading /\ StillOpen /\ SilenceIsBehind
  BY <1>2 DEF ShownOnlyWhileReading, StillOpen, SilenceIsBehind
<1>6. CallIsBounded /\ TimerShare
  BY <1>1 DEF CallIsBounded, TimerShare
<1> QED
  BY <1>3, <1>4, <1>5, <1>6 DEF IInv

\* Giving up in the desk's voice is sound whenever no word was shown.
LEMMA DeskKeepsIInv ==
  ASSUME IInv, ReturnDesk, UNCHANGED stream, ~HasWords,
         phase # "done", silent' \in 0..2
  PROVE  IInv'
<1> USE ModelCallAssumption
    DEF ReturnDesk, Return, clock, stream, caller, HasWords, Forwarded
<1>1. TypeOK'
  BY DEF IInv, TypeOK
<1>2. OneAttemptOnScreen'
  BY DEF IInv, OneAttemptOnScreen
<1>3. WordsAreKept' /\ AnswerWasShown'
  BY DEF WordsAreKept, AnswerWasShown
<1>4. SilenceIsAskedOnceMore' /\ CallIsBounded'
  BY DEF IInv, SilenceIsAskedOnceMore, CallIsBounded, TypeOK
<1>5. ShownOnlyWhileReading' /\ StillOpen' /\ SilenceIsBehind' /\ TimerShare'
  BY DEF IInv, ShownOnlyWhileReading, StillOpen, SilenceIsBehind, TimerShare
<1> QED
  BY <1>1, <1>2, <1>3, <1>4, <1>5 DEF IInv

\* A failed attempt: the desk speaks, or a pause that leaves room in the budget and a
\* try in the count begins.
LEMMA FailedKeepsIInv ==
  ASSUME IInv, NEW error \in {"empty", "stream", "timeout", "socket", "status"},
         NEW ask \in Nat, Failed(error, ask), phase \in {"asking", "reading"},
         ~Forwarded
  PROVE  IInv'
<1> USE ModelCallAssumption
<1>1. /\ silent' \in 0..2
      /\ silent' # silent => silent' = silent + 1 /\ error \in {"empty", "stream"}
      /\ UNCHANGED stream
  BY DEF Failed, IInv, TypeOK, SilenceIsBehind
<1>2. CASE ReturnDesk
  BY <1>1, <1>2, DeskKeepsIInv DEF Forwarded, HasWords
<1>3. ASSUME NEW pause \in Backoff,
             attempt < Attempts, ShouldRetry(error, ask),
             Left > Larger(pause, ask), phase' = "pausing",
             due' = now + Larger(pause, ask),
             UNCHANGED <<attempt, now, caller, result>>
      PROVE  IInv'
  <2> USE <1>1, <1>3 DEF stream, caller, result
  <2>1. due' \in Nat /\ due' <= Deadline /\ due' >= now
    <3>1. pause \in Int
      BY DEF Backoff
    <3> QED
      BY <3>1 DEF Larger, Left, IInv, TypeOK
  <2>2. TypeOK'
    BY <2>1 DEF IInv, TypeOK
  <2>3. OneAttemptOnScreen' /\ SilenceIsAskedOnceMore' /\ ShownOnlyWhileReading'
    BY DEF IInv, OneAttemptOnScreen, SilenceIsAskedOnceMore, ShownOnlyWhileReading,
           Forwarded
  <2>4. WordsAreKept' /\ AnswerWasShown' /\ StillOpen'
    BY DEF IInv, WordsAreKept, AnswerWasShown, StillOpen
  <2>5. SilenceIsBehind'
    BY DEF IInv, TypeOK, SilenceIsBehind, ShouldRetry
  <2>6. CallIsBounded' /\ TimerShare'
    BY <2>1 DEF IInv, TypeOK, CallIsBounded, TimerShare
  <2> QED
    BY <2>2, <2>3, <2>4, <2>5, <2>6 DEF IInv
<1> QED
  BY <1>2, <1>3 DEF Failed

\* Another piece on the screen of the attempt that is reading.
LEMMA AppendedScreen ==
  ASSUME TypeOK, NEW kind \in {"word", "blank", "note"},
         screen' = Append(screen, [by |-> attempt, what |-> kind])
  PROVE  /\ screen' \in Seq(Frames)
         /\ OneAttemptOnScreen /\ mused' \subseteq {attempt} /\ attempt' = attempt
            => OneAttemptOnScreen'
         /\ HasWords => HasWords'
<1> DEFINE frame == [by |-> attempt, what |-> kind]
<1>1. frame \in Frames
  BY DEF Frames, TypeOK
<1>2. /\ screen' \in Seq(Frames)
      /\ Len(screen') = Len(screen) + 1
      /\ \A i \in 1..Len(screen) : screen'[i] = screen[i]
      /\ screen'[Len(screen) + 1] = frame
  BY <1>1, AppendProperties DEF TypeOK
<1>3. DOMAIN screen = 1..Len(screen) /\ DOMAIN screen' = 1..(Len(screen) + 1)
      /\ Len(screen) \in Nat
  BY <1>2 DEF TypeOK
<1> HIDE DEF frame
<1>4. OneAttemptOnScreen /\ mused' \subseteq {attempt} /\ attempt' = attempt
      => OneAttemptOnScreen'
  <2>1. frame.by = attempt
    BY DEF frame
  <2> QED
    BY <1>2, <1>3, <2>1 DEF OneAttemptOnScreen
<1>5. HasWords => HasWords'
  BY <1>2, <1>3 DEF HasWords
<1> QED
  BY <1>2, <1>4, <1>5

\* A stream that fails: asked again in silence, kept with its words, or left to the desk.
LEMMA StreamFailsKeepsIInv ==
  ASSUME IInv, NEW ask \in Nat, StreamFails(ask), phase = "reading", watched
  PROVE  IInv'
<1>1. CASE ~Forwarded /\ Failed("stream", ask)
  BY <1>1, FailedKeepsIInv
<1>2. CASE HasWords /\ KeepPartial
  <2> USE <1>2, ModelCallAssumption
      DEF KeepPartial, Return, clock, caller
  <2>1. /\ screen' \in Seq(Frames) /\ OneAttemptOnScreen'
    BY AppendedScreen DEF IInv, OneAttemptOnScreen
  <2>2. TypeOK'
    BY <2>1 DEF IInv, TypeOK
  <2>3. WordsAreKept' /\ AnswerWasShown' /\ SilenceIsAskedOnceMore'
    BY DEF IInv, WordsAreKept, AnswerWasShown, SilenceIsAskedOnceMore
  <2>4. CallIsBounded' /\ ShownOnlyWhileReading' /\ StillOpen'
    BY DEF IInv, TypeOK, CallIsBounded, ShownOnlyWhileReading, StillOpen
  <2>5. SilenceIsBehind' /\ TimerShare'
    BY DEF SilenceIsBehind, TimerShare
  <2> QED
    BY <2>1, <2>2, <2>3, <2>4, <2>5 DEF IInv
<1>3. CASE ~HasWords /\ ReturnDesk /\ UNCHANGED <<stream, silent>>
  BY <1>3, DeskKeepsIInv DEF IInv, TypeOK, SilenceIsAskedOnceMore
<1> QED
  BY <1>1, <1>2, <1>3 DEF StreamFails

(***************************************************************************)
(* Every step keeps IInv: one step of the proof per action.                *)
(***************************************************************************)
LEMMA NextIInv == IInv /\ [Next]_vars => IInv'
<1> SUFFICES ASSUME IInv, [Next]_vars PROVE IInv'
  OBVIOUS
<1> USE ModelCallAssumption
<1>0. silent \in 0..2 /\ NoAsk \in Nat
  BY DEF IInv, TypeOK, SilenceIsAskedOnceMore, NoAsk
<1>1. ASSUME NEW ask \in Asks \cup {NoAsk}, RetryableStatus(ask) PROVE IInv'
  BY <1>0, <1>1, FailedKeepsIInv DEF RetryableStatus, IInv, ShownOnlyWhileReading
<1>2. ASSUME NEW ask \in Asks \cup {NoAsk}, StreamEnds(ask) PROVE IInv'
  <2>1. CASE StreamFails(ask)
    BY <1>0, <1>2, <2>1, StreamFailsKeepsIInv DEF StreamEnds
  <2>2. CASE ~Forwarded /\ Failed("empty", NoAsk)
    BY <1>0, <1>2, <2>2, FailedKeepsIInv DEF StreamEnds
  <2>3. CASE Return("answer", screen) /\ UNCHANGED <<stream, silent>>
    BY <2>3
    DEF Return, IInv, TypeOK, OneAttemptOnScreen, WordsAreKept, AnswerWasShown,
        SilenceIsAskedOnceMore, CallIsBounded, ShownOnlyWhileReading, StillOpen,
        SilenceIsBehind, TimerShare, stream, clock, caller, Forwarded
  <2> QED
    BY <1>2, <2>1, <2>2, <2>3 DEF StreamEnds
<1>3. CASE RefusedStatus
  BY <1>0, <1>3, DeskKeepsIInv
  DEF RefusedStatus, IInv, ShownOnlyWhileReading, Forwarded, HasWords
<1>4. CASE NotFound
  <2> USE <1>4 DEF NotFound, stream, caller, result
  <2>1. TypeOK'
    BY DEF IInv, TypeOK
  <2>2. TimerShare' /\ CallIsBounded'
    BY DEF IInv, TypeOK, TimerShare, CallIsBounded
  <2>3. SilenceIsBehind' /\ SilenceIsAskedOnceMore' /\ ShownOnlyWhileReading'
    BY DEF IInv, TypeOK, SilenceIsBehind, SilenceIsAskedOnceMore,
           ShownOnlyWhileReading, Forwarded
  <2>4. OneAttemptOnScreen' /\ WordsAreKept' /\ AnswerWasShown' /\ StillOpen'
    BY DEF IInv, OneAttemptOnScreen, WordsAreKept, AnswerWasShown, StillOpen
  <2> QED
    BY <2>1, <2>2, <2>3, <2>4 DEF IInv
<1>5. CASE NoticeEnds
  BY <1>0, <1>5, DeskKeepsIInv
  DEF NoticeEnds, IInv, ShownOnlyWhileReading, Forwarded, HasWords
<1>6. CASE SocketFails
  BY <1>0, <1>6, FailedKeepsIInv DEF SocketFails, IInv, ShownOnlyWhileReading
<1>7. CASE NotJson
  BY <1>0, <1>7, DeskKeepsIInv
  DEF NotJson, IInv, ShownOnlyWhileReading, Forwarded, HasWords
<1>8. CASE HeadersArrive
  BY <1>8
  DEF HeadersArrive, IInv, TypeOK, OneAttemptOnScreen, WordsAreKept, AnswerWasShown,
      SilenceIsAskedOnceMore, CallIsBounded, ShownOnlyWhileReading, StillOpen,
      SilenceIsBehind, TimerShare, clock, caller, result, Forwarded
<1>9. CASE PlainBody
  <2>1. CASE Failed("empty", NoAsk)
    BY <1>0, <1>9, <2>1, FailedKeepsIInv DEF PlainBody, IInv, ShownOnlyWhileReading
  <2>2. ASSUME NEW text \in {<<>>, <<[by |-> attempt, what |-> "word"]>>},
               calls' \in BOOLEAN, Return("answer", text), UNCHANGED silent
        PROVE  IInv'
    <3>1. text \in Seq(Frames)
      <4>1. [by |-> attempt, what |-> "word"] \in Frames
        BY DEF IInv, TypeOK, Frames
      <4>2. <<[by |-> attempt, what |-> "word"]>> \in Seq(Frames)
        BY <4>1
      <4> QED
        BY <4>2, EmptySeq, <2>2
    <3> QED
      BY <1>9, <2>2, <3>1
      DEF PlainBody, Return, IInv, TypeOK, OneAttemptOnScreen, WordsAreKept,
          AnswerWasShown, SilenceIsAskedOnceMore, CallIsBounded,
          ShownOnlyWhileReading, StillOpen, SilenceIsBehind, TimerShare,
          clock, caller, Forwarded
  <2> QED
    BY <1>9, <2>1, <2>2 DEF PlainBody
<1>10. ASSUME NEW kind \in {"word", "blank"}, Word(kind) PROVE IInv'
  <2> USE <1>10 DEF Word, clock, caller, result
  <2>1. screen' \in Seq(Frames) /\ OneAttemptOnScreen'
    BY AppendedScreen DEF IInv, OneAttemptOnScreen
  <2> QED
    BY <2>1
    DEF IInv, TypeOK, WordsAreKept, AnswerWasShown, SilenceIsAskedOnceMore,
        CallIsBounded, ShownOnlyWhileReading, StillOpen, SilenceIsBehind, TimerShare
<1>11. CASE Thought
  BY <1>11
  DEF Thought, IInv, TypeOK, OneAttemptOnScreen, WordsAreKept, AnswerWasShown,
      SilenceIsAskedOnceMore, CallIsBounded, ShownOnlyWhileReading, StillOpen,
      SilenceIsBehind, TimerShare, clock, caller, result, HasWords
<1>12. CASE ToolFragment \/ ErrorFrame
  BY <1>12
  DEF ToolFragment, ErrorFrame, IInv, TypeOK, OneAttemptOnScreen, WordsAreKept,
      AnswerWasShown, SilenceIsAskedOnceMore, CallIsBounded, ShownOnlyWhileReading,
      StillOpen, SilenceIsBehind, TimerShare, clock, caller, result
<1>13. CASE StreamDrops
  BY <1>0, <1>13, StreamFailsKeepsIInv DEF StreamDrops
<1>14. CASE AttemptTimesOut
  BY <1>0, <1>14, StreamFailsKeepsIInv, FailedKeepsIInv
  DEF AttemptTimesOut, IInv, ShownOnlyWhileReading
<1>15. CASE PauseEnds
  <2>1. AttemptTimer \in 0..AttemptTimeout
    BY DEF AttemptTimer, Larger, Smaller, Left, IInv, TypeOK
  <2> HIDE DEF AttemptTimer
  <2> QED
    BY <1>15, <2>1
    DEF PauseEnds, NoAsk, IInv, TypeOK, OneAttemptOnScreen, WordsAreKept,
        AnswerWasShown, SilenceIsAskedOnceMore, CallIsBounded, ShownOnlyWhileReading,
        StillOpen, SilenceIsBehind, TimerShare, stream, caller, result, Forwarded
<1>16. CASE Stop
  BY <1>16
  DEF Stop, IInv, TypeOK, OneAttemptOnScreen, WordsAreKept, AnswerWasShown,
      SilenceIsAskedOnceMore, CallIsBounded, ShownOnlyWhileReading, StillOpen,
      SilenceIsBehind, TimerShare, clock, stream, Forwarded, HasWords
<1>17. CASE Tick
  BY <1>17
  DEF Tick, IInv, TypeOK, OneAttemptOnScreen, WordsAreKept, AnswerWasShown,
      SilenceIsAskedOnceMore, CallIsBounded, ShownOnlyWhileReading, StillOpen,
      SilenceIsBehind, TimerShare, stream, caller, result, Forwarded, HasWords
<1>18. CASE UNCHANGED vars
  BY <1>18
  DEF vars, IInv, TypeOK, OneAttemptOnScreen, WordsAreKept, AnswerWasShown,
      SilenceIsAskedOnceMore, CallIsBounded, ShownOnlyWhileReading, StillOpen,
      SilenceIsBehind, TimerShare, Forwarded, HasWords
<1> QED
  BY <1>1, <1>2, <1>3, <1>4, <1>5, <1>6, <1>7, <1>8, <1>9, <1>10, <1>11, <1>12,
     <1>13, <1>14, <1>15, <1>16, <1>17, <1>18
  DEF Next

\* The invariant holds in every reachable state.
LEMMA SpecIInv == Spec => []IInv
  BY InitIInv, NextIInv, PTL DEF Spec

(***************************************************************************)
(* The safety properties of the run, for every policy.                     *)
(***************************************************************************)

\* The call's variables keep their types (completeOpenAi, readOpenAiStream).
THEOREM TypeCorrect == Spec => []TypeOK
  BY SpecIInv, PTL DEF IInv

\* No retry writes on a screen another attempt has written on (Forwarded in
\* readOpenAiStream, whatever the vendor sends).
THEOREM OneAttemptIsShown == Spec => []OneAttemptOnScreen
  BY SpecIInv, PTL DEF IInv

\* A word the traveler has read is never replaced by the desk rendering.
THEOREM ShownWordsAreKept == Spec => []WordsAreKept
  BY SpecIInv, PTL DEF IInv

\* A streamed answer is what the screen was handed, up to the cut-off line.
THEOREM StreamedAnswerWasShown == Spec => []AnswerWasShown
  BY SpecIInv, PTL DEF IInv

\* An upstream that says nothing is asked at most twice.
THEOREM SilenceIsBounded == Spec => []SilenceIsAskedOnceMore
  BY SpecIInv, PTL DEF IInv

\* A call that outruns its deadline does so by at most one attempt, one model list and
\* three late timers (withRetry, AttemptTimer, modelListNotice).
THEOREM CallHasABound == Spec => []CallIsBounded
  BY SpecIInv, PTL DEF IInv

(***************************************************************************)
(* ModelCall implements CallPromise.  Stop is heard in every phase but the *)
(* model list's, so a stopped call that is still open is past its stream:  *)
(* that, with the invariant above, makes every step of the call a step of  *)
(* the promise or one the turn cannot see.                                 *)
(***************************************************************************)
StopIsHeard == stopped => phase \in {"notice", "done"}

\* A failed attempt pauses for the next or leaves the answer to the desk.
LEMMA FailedOutcome ==
  ASSUME NEW error, NEW ask, Failed(error, ask)
  PROVE  /\ UNCHANGED <<screen, caller>>
         /\ \/ phase' = "pausing" /\ UNCHANGED <<outcome, answer>>
            \/ phase' = "done" /\ outcome' = "desk" /\ answer' = <<>>
  BY DEF Failed, ReturnDesk, Return, caller, result, stream

\* No step but Stop stops a call, and no stopped call reads, asks or pauses again.
LEMMA SpecStopIsHeard == Spec => []StopIsHeard
<1>1. Init => StopIsHeard
  BY DEF Init, StopIsHeard
<1>2. StopIsHeard /\ [Next]_vars => StopIsHeard'
  <2> SUFFICES ASSUME StopIsHeard, [Next]_vars PROVE StopIsHeard'
    OBVIOUS
  <2>1. ASSUME stopped' = stopped, phase' = phase \/ phase \notin {"notice", "done"}
                                   \/ phase' = "done"
        PROVE  StopIsHeard'
    BY <2>1 DEF StopIsHeard
  <2>2. ASSUME NEW error, NEW ask, Failed(error, ask) PROVE stopped' = stopped
    BY <2>2, FailedOutcome DEF caller
  <2>3. ASSUME NEW ask, StreamFails(ask) PROVE stopped' = stopped
    BY <2>2, <2>3 DEF StreamFails, KeepPartial, ReturnDesk, Return, caller
  <2>4. CASE Stop
    BY <2>4 DEF Stop, StopIsHeard
  <2>5. CASE UNCHANGED vars
    BY <2>1, <2>5 DEF vars
  <2>6. ASSUME NEW ask \in Asks \cup {NoAsk}, RetryableStatus(ask) \/ StreamEnds(ask)
        PROVE  StopIsHeard'
    BY <2>1, <2>2, <2>3, <2>6 DEF RetryableStatus, StreamEnds, Return, caller
  <2>7. CASE RefusedStatus \/ NoticeEnds \/ NotJson
    BY <2>1, <2>7 DEF RefusedStatus, NoticeEnds, NotJson, ReturnDesk, Return, caller
  <2>8. CASE SocketFails \/ PlainBody
    BY <2>1, <2>2, <2>8 DEF SocketFails, PlainBody, Return, caller
  <2>9. CASE StreamDrops \/ AttemptTimesOut
    BY <2>1, <2>2, <2>3, <2>9 DEF StreamDrops, AttemptTimesOut
  <2>10. CASE NotFound \/ HeadersArrive \/ PauseEnds \/ Tick
    BY <2>1, <2>10 DEF NotFound, HeadersArrive, PauseEnds, Tick, caller
  <2>11. ASSUME (\E kind \in {"word", "blank"} : Word(kind))
                \/ Thought \/ ToolFragment \/ ErrorFrame
         PROVE  StopIsHeard'
    BY <2>1, <2>11 DEF Word, Thought, ToolFragment, ErrorFrame, caller
  <2> QED
    BY <2>4, <2>5, <2>6, <2>7, <2>8, <2>9, <2>10, <2>11 DEF Next
<1> QED
  BY <1>1, <1>2, PTL DEF Spec

\* The words of the promise are the words of the screen.
LEMMA SameWords == TypeOK => (Promise!HasWords <=> HasWords)
<1> SUFFICES ASSUME TypeOK PROVE Promise!HasWords <=> HasWords
  OBVIOUS
<1>1. \A i \in DOMAIN screen : screen[i] \in Frames
  BY DEF TypeOK
<1> QED
  BY <1>1 DEF Promise!HasWords, HasWords

\* An open call is open to the turn.
LEMMA OpenCall == StillOpen /\ phase # "done" => Promise!Open /\ Verdict = "open"
  BY DEF StillOpen, Promise!Open, Verdict

\* What changes neither the caller, the screen nor the result is invisible.
LEMMA UnseenStep ==
  ASSUME UNCHANGED <<watched, stopped, screen, outcome, answer>>
  PROVE  UNCHANGED Promise!vars
  BY DEF Promise!vars, Verdict

\* The desk speaks where no word was shown.
LEMMA DeskIsGiveUp ==
  ASSUME TypeOK, StillOpen, phase # "done", ~HasWords, UNCHANGED <<watched, stopped, screen>>,
         outcome' = "desk", answer' = <<>>
  PROVE  Promise!GiveUp
  BY OpenCall, SameWords DEF Promise!GiveUp, Verdict

\* A failed attempt is invisible, or gives up.
LEMMA FailedIsGiveUp ==
  ASSUME TypeOK, StillOpen, phase # "done", ~HasWords,
         NEW error, NEW ask, Failed(error, ask)
  PROVE  Promise!GiveUp \/ UNCHANGED Promise!vars
  BY FailedOutcome, DeskIsGiveUp, UnseenStep DEF caller

\* A stream that breaks off is asked again, given up, or its words are what is said.
LEMMA StreamFailsIsPromised ==
  ASSUME TypeOK, StillOpen, watched, ~stopped, phase = "reading",
         NEW ask, StreamFails(ask)
  PROVE  Promise!Say \/ Promise!GiveUp \/ UNCHANGED Promise!vars
<1>1. CASE ~HasWords
  <2>1. CASE Failed("stream", ask)
    BY <1>1, <2>1, FailedIsGiveUp
  <2>2. CASE ReturnDesk /\ UNCHANGED <<stream, silent>>
    BY <1>1, <2>2, DeskIsGiveUp DEF ReturnDesk, Return, stream, caller
  <2> QED
    BY <1>1, <2>1, <2>2 DEF StreamFails
<1>2. CASE HasWords
  <2>1. KeepPartial
    BY <1>2 DEF StreamFails, Forwarded, HasWords
  <2>2. [by |-> attempt, what |-> "note"] \in {frame \in Frames : frame.what = "note"}
    BY DEF TypeOK, Frames
  <2>3. Promise!HasWords
    BY <1>2, SameWords
  <2>4. outcome' = "partial" /\ answer' = screen /\ UNCHANGED <<watched, stopped>>
    BY <2>1 DEF KeepPartial, Return, caller
  <2> QED
    BY <2>1, <2>2, <2>3, <2>4, OpenCall DEF KeepPartial, Promise!Say, Verdict
<1> QED
  BY <1>1, <1>2

(***************************************************************************)
(* Every step of a call is one of its promise, or none: one case per       *)
(* action.                                                                 *)
(***************************************************************************)
LEMMA StepKeepsCallPromise ==
  ASSUME IInv, StopIsHeard, [Next]_vars
  PROVE  [Promise!Next]_(Promise!vars)
<1>1. TypeOK /\ StillOpen /\ ShownOnlyWhileReading
  BY DEF IInv
<1>2. ASSUME ~Forwarded PROVE ~HasWords /\ screen = <<>>
  BY <1>2 DEF Forwarded, HasWords
<1>3. phase \in {"asking", "reading", "pausing"} => ~stopped
  BY DEF StopIsHeard
<1>4. ASSUME NEW ask \in Asks \cup {NoAsk}, RetryableStatus(ask)
      PROVE  Promise!GiveUp \/ UNCHANGED Promise!vars
  BY <1>1, <1>2, <1>4, FailedIsGiveUp DEF RetryableStatus, ShownOnlyWhileReading
<1>5. ASSUME NEW ask \in Asks \cup {NoAsk}, StreamEnds(ask)
      PROVE  Promise!Say \/ Promise!GiveUp \/ UNCHANGED Promise!vars
  <2>1. CASE StreamFails(ask)
    BY <1>1, <1>3, <1>5, <2>1, StreamFailsIsPromised DEF StreamEnds
  <2>2. CASE ~Forwarded /\ Failed("empty", NoAsk)
    BY <1>1, <1>2, <1>5, <2>2, FailedIsGiveUp DEF StreamEnds
  <2>3. CASE Return("answer", screen) /\ UNCHANGED <<stream, silent>>
    BY <1>1, <1>3, <1>5, <2>3, OpenCall
    DEF StreamEnds, Return, stream, caller, Promise!Say, Verdict
  <2> QED
    BY <1>5, <2>1, <2>2, <2>3 DEF StreamEnds
<1>6. ASSUME RefusedStatus \/ NoticeEnds \/ NotJson PROVE Promise!GiveUp
  BY <1>1, <1>2, <1>6, DeskIsGiveUp
  DEF RefusedStatus, NoticeEnds, NotJson, ReturnDesk, Return, stream, caller,
      ShownOnlyWhileReading
<1>7. ASSUME SocketFails PROVE Promise!GiveUp \/ UNCHANGED Promise!vars
  BY <1>1, <1>2, <1>7, FailedIsGiveUp DEF SocketFails, ShownOnlyWhileReading
<1>8. ASSUME PlainBody PROVE Promise!Say \/ Promise!GiveUp \/ UNCHANGED Promise!vars
  <2>1. CASE Failed("empty", NoAsk)
    BY <1>1, <1>2, <1>8, <2>1, FailedIsGiveUp DEF PlainBody, ShownOnlyWhileReading
  <2>2. ASSUME NEW words \in {<<>>, <<[by |-> attempt, what |-> "word"]>>},
               Return("answer", words)
        PROVE  Promise!Say
    <3>1. [by |-> attempt, what |-> "word"] \in Frames
      BY <1>1 DEF TypeOK, Frames
    <3>2. <<[by |-> attempt, what |-> "word"]>> \in Seq(Frames)
      BY <3>1
    <3>3. words \in Seq(Frames)
      BY <2>2, <3>2, EmptySeq
    <3> QED
      BY <1>1, <1>3, <1>8, <2>2, <3>3, OpenCall
      DEF PlainBody, Return, caller, Promise!Say, Verdict
  <2> QED
    BY <1>8, <2>1, <2>2 DEF PlainBody
<1>9. ASSUME NEW kind \in {"word", "blank"}, Word(kind)
      PROVE  \E piece \in Frames : Promise!Show(piece)
  <2>1. [by |-> attempt, what |-> kind] \in Frames
    BY <1>1 DEF TypeOK, Frames
  <2>2. Promise!Show([by |-> attempt, what |-> kind])
    BY <1>1, <1>3, <1>9, OpenCall DEF Word, caller, result, Promise!Show, Verdict
  <2> QED
    BY <2>1, <2>2
<1>10. ASSUME NotFound \/ HeadersArrive \/ Thought \/ ToolFragment \/ ErrorFrame
              \/ PauseEnds \/ Tick \/ UNCHANGED vars
       PROVE  UNCHANGED Promise!vars
  BY <1>10, UnseenStep
  DEF NotFound, HeadersArrive, Thought, ToolFragment, ErrorFrame, PauseEnds, Tick,
      vars, stream, caller, result
<1>11. ASSUME StreamDrops
       PROVE  Promise!Say \/ Promise!GiveUp \/ UNCHANGED Promise!vars
  BY <1>1, <1>3, <1>11, StreamFailsIsPromised DEF StreamDrops
<1>12. ASSUME AttemptTimesOut
       PROVE  Promise!Say \/ Promise!GiveUp \/ UNCHANGED Promise!vars
  <2>1. CASE phase = "reading" /\ watched
    BY <1>1, <1>3, <1>12, <2>1, StreamFailsIsPromised DEF AttemptTimesOut
  <2>2. CASE ~(phase = "reading" /\ watched)
    BY <1>1, <1>2, <1>12, <2>2, FailedIsGiveUp DEF AttemptTimesOut, ShownOnlyWhileReading
  <2> QED
    BY <2>1, <2>2
<1>13. ASSUME Stop PROVE Promise!Stop
  <2>1. Promise!Open /\ Verdict = "open"
    BY <1>1, <1>13, OpenCall DEF Stop
  <2>2. phase = "notice" => screen = <<>>
    BY <1>1, <1>2 DEF ShownOnlyWhileReading
  <2> QED
    BY <1>13, <2>1, <2>2 DEF Stop, stream, Promise!Stop, Verdict
<1> QED
  BY <1>4, <1>5, <1>6, <1>7, <1>8, <1>9, <1>10, <1>11, <1>12, <1>13
  DEF Next, Promise!Next

\* Whatever the policy, the vendor and the timers, a turn may treat a model call as
\* CallPromise says: the words it watched are the answer, the desk never speaks over
\* them, and after Stop nothing more is shown or said but the desk rendering.
THEOREM CallKeepsPromise == Spec => KeepsCallPromise
<1>1. Init => Promise!Init
  BY DEF Init, Promise!Init, Verdict
<1>2. IInv /\ StopIsHeard /\ [Next]_vars => [Promise!Next]_(Promise!vars)
  BY StepKeepsCallPromise
<1> QED
  BY SpecIInv, SpecStopIsHeard, <1>1, <1>2, PTL DEF Spec, KeepsCallPromise, Promise!Spec
=============================================================================
