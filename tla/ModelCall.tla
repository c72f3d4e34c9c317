----------------------------- MODULE ModelCall -----------------------------
(***************************************************************************)
(* One answer of the live model: ModelService.completeOpenAi, the retry    *)
(* engine it runs on (withRetry) and the stream it reads on to a           *)
(* traveler's screen (readOpenAiStream), against an upstream that may      *)
(* refuse, pace, break, fall silent or hang, and a traveler who may press  *)
(* Stop.  Time passes in steps of one unit; timers may fire up to Lag late.*)
(***************************************************************************)
EXTENDS Integers, Sequences

CONSTANTS Attempts,        \* MODEL_RETRY.attempts
          BaseDelay,       \* .baseDelayMs
          MaxDelay,        \* .maxDelayMs, also the longest ask shouldRetry accepts
          MaxWait,         \* .maxWaitMs
          Deadline,        \* .deadlineMs
          AttemptTimeout,  \* MODEL_ATTEMPT_TIMEOUT_MS
          MinTimeout,      \* the floor of an attempt's timeout
          NoticeTimeout,   \* listProviderModels' own timeout
          Lag,             \* how late the event loop may run a timer
          Asks,            \* waits a vendor may name
          MaxDeltas        \* pieces of one stream (bound of the model)

ASSUME ModelCallAssumption ==
    /\ Attempts \in Nat \ {0}
    /\ BaseDelay \in Nat \ {0} /\ MaxDelay \in Nat /\ MaxWait \in Nat
    /\ BaseDelay <= MaxDelay /\ MaxDelay <= MaxWait
    /\ Deadline \in Nat \ {0} /\ AttemptTimeout \in Nat /\ MinTimeout \in Nat
    /\ MinTimeout <= AttemptTimeout
    /\ NoticeTimeout \in Nat /\ Lag \in Nat
    /\ Asks \subseteq Nat \ {0} /\ MaxDeltas \in Nat

VARIABLES
    watched,  \* whether the call streams to a screen (input.onDelta)
    phase,    \* what the call awaits: headers, a body, a model list or a pause
    attempt,  \* the current try, 1-based as in withRetry
    now,      \* time since the call began
    due,      \* when the pending timer is due
    screen,   \* the text onDelta has been handed, in order
    mused,    \* attempts whose reasoning onDelta has been handed
    broken,   \* whether the stream sent an error frame
    calls,    \* whether a tool call has been assembled
    stopped,  \* whether the turn's signal was aborted
    outcome,  \* how the call ended
    answer,   \* the text it returned
    silent    \* history: attempts that ended with nothing said

caller == <<watched, stopped>>
clock == <<attempt, now, due>>
stream == <<screen, mused, broken, calls>>
result == <<outcome, answer>>
vars == <<watched, phase, attempt, now, due, screen, mused, broken, calls, stopped,
          outcome, answer, silent>>

NoAsk == 0   \* retryAfterMs(...) = null: no usable wait

Frames == [by : 1..Attempts, what : {"word", "blank", "note"}]

TypeOK ==
    /\ watched \in BOOLEAN
    /\ phase \in {"asking", "reading", "notice", "pausing", "done"}
    /\ attempt \in 1..Attempts
    /\ now \in Nat /\ due \in Nat
    /\ screen \in Seq(Frames) /\ mused \subseteq 1..Attempts
    /\ broken \in BOOLEAN /\ calls \in BOOLEAN /\ stopped \in BOOLEAN
    /\ outcome \in {"none", "answer", "partial", "desk", "aborted"}
    /\ answer \in Seq(Frames)
    /\ silent \in Nat

-----------------------------------------------------------------------------
(* The pace: retryPolicy, backoffMs, remaining and the attempt's timer.     *)

Smaller(m, n) == IF m < n THEN m ELSE n
Larger(m, n) == IF m > n THEN m ELSE n

Left == Larger(0, Deadline - now)

\* Doubling from the base, capped, and half of it random.
Backoff ==
    LET ceiling == Smaller(MaxDelay, BaseDelay * 2 ^ (attempt - 1))
    IN  (ceiling - ceiling \div 2)..ceiling

\* An attempt gets what is left of the budget, at least MinTimeout; a budget of zero
\* reads as no budget at all (remainingMs || MODEL_ATTEMPT_TIMEOUT_MS).
AttemptTimer ==
    Larger(MinTimeout,
           Smaller(AttemptTimeout, IF Left = 0 THEN AttemptTimeout ELSE Left))

-----------------------------------------------------------------------------
(* What this attempt has written, and what any attempt has.                 *)

Forwarded == screen # <<>> \/ mused # {}
HasWords == \E i \in DOMAIN screen : screen[i].what = "word"

Init ==
    /\ watched \in BOOLEAN
    /\ phase = "asking"
    /\ attempt = 1
    /\ now = 0
    /\ due = Larger(MinTimeout, Smaller(AttemptTimeout, Deadline))
    /\ screen = <<>> /\ mused = {}
    /\ broken = FALSE /\ calls = FALSE /\ stopped = FALSE
    /\ outcome = "none"
    /\ answer = <<>>
    /\ silent = 0

\* withRetry and completeOpenAi are over.
Return(how, text) ==
    /\ phase' = "done"
    /\ outcome' = how
    /\ answer' = text
    /\ UNCHANGED <<clock, caller>>

ReturnDesk == Return("desk", <<>>)

-----------------------------------------------------------------------------
(* A failed attempt: withRetry after its catch, with completeOpenAi's       *)
(* shouldRetry and delayFor.                                                *)

ShouldRetry(error, ask) ==
    \/ error \in {"empty", "stream"} /\ attempt = 1
    \/ error \in {"timeout", "socket"}
    \/ error = "status" /\ ask <= MaxDelay

Failed(error, ask) ==
    /\ silent' = IF error \in {"empty", "stream"} THEN silent + 1 ELSE silent
    /\ UNCHANGED stream
    /\ \/ /\ \/ attempt >= Attempts
             \/ ~ShouldRetry(error, ask)
             \/ ask > MaxWait
          /\ ReturnDesk
       \/ /\ attempt < Attempts
          /\ ShouldRetry(error, ask)
          /\ ask <= MaxWait
          /\ \E pause \in Backoff :
                LET delay == Larger(pause, ask) IN
                \/ Left <= delay /\ ReturnDesk
                \/ /\ Left > delay
                   /\ phase' = "pausing"
                   /\ due' = now + delay
                   /\ UNCHANGED <<attempt, now, caller, result>>

\* The pause is over; the loop starts the next attempt.
PauseEnds ==
    /\ phase = "pausing"
    /\ now >= due
    /\ phase' = "asking"
    /\ attempt' = attempt + 1
    /\ due' = now + AttemptTimer
    /\ UNCHANGED <<now, stream, caller, result, silent>>

-----------------------------------------------------------------------------
(* The upstream answers the request.                                        *)

\* A status that may be asked again, with the wait its headers or its body named.
RetryableStatus(ask) ==
    /\ phase = "asking"
    /\ Failed("status", ask)

\* A status that is an answer: the desk speaks instead.
RefusedStatus ==
    /\ phase = "asking"
    /\ ReturnDesk
    /\ UNCHANGED <<stream, silent>>

\* A 404 is looked up in the provider's model list first, which Stop does not reach.
NotFound ==
    /\ phase = "asking"
    /\ phase' = "notice"
    /\ due' = now + NoticeTimeout
    /\ UNCHANGED <<attempt, now, stream, caller, result, silent>>

NoticeEnds ==
    /\ phase = "notice"
    /\ ReturnDesk
    /\ UNCHANGED <<stream, silent>>

\* The socket fails before the headers or inside a body nobody watches; a body that is
\* no JSON is not worth another try.
SocketFails ==
    /\ phase = "asking" \/ (phase = "reading" /\ ~watched)
    /\ Failed("socket", NoAsk)

NotJson ==
    /\ phase = "reading" /\ ~watched
    /\ ReturnDesk
    /\ UNCHANGED <<stream, silent>>

HeadersArrive ==
    /\ phase = "asking"
    /\ phase' = "reading"
    /\ broken' = FALSE /\ calls' = FALSE
    /\ UNCHANGED <<clock, screen, mused, caller, result, silent>>

\* A whole body, read without a screen: words, a tool call, both, or nothing.
PlainBody ==
    /\ phase = "reading" /\ ~watched
    /\ UNCHANGED <<screen, mused, broken>>
    /\ \/ /\ Failed("empty", NoAsk)
       \/ \E text \in {<<>>, <<[by |-> attempt, what |-> "word"]>>} :
             /\ calls' \in BOOLEAN
             /\ text # <<>> \/ calls'
             /\ Return("answer", text)
             /\ UNCHANGED silent

-----------------------------------------------------------------------------
(* readOpenAiStream.                                                        *)

Word(kind) ==
    /\ phase = "reading" /\ watched
    /\ Len(screen) < MaxDeltas
    /\ screen' = Append(screen, [by |-> attempt, what |-> kind])
    /\ UNCHANGED <<mused, phase, clock, broken, calls, caller, result, silent>>

Thought ==
    /\ phase = "reading" /\ watched
    /\ mused' = mused \cup {attempt}
    /\ UNCHANGED <<phase, clock, screen, broken, calls, caller, result, silent>>

ToolFragment ==
    /\ phase = "reading" /\ watched
    /\ calls' = TRUE
    /\ UNCHANGED <<phase, clock, screen, mused, broken, caller, result, silent>>

ErrorFrame ==
    /\ phase = "reading" /\ watched
    /\ broken' = TRUE
    /\ UNCHANGED <<phase, clock, screen, mused, calls, caller, result, silent>>

\* The words that arrived are the answer; the screen also gets a line saying it stopped.
KeepPartial ==
    /\ Return("partial", screen)
    /\ screen' = Append(screen, [by |-> attempt, what |-> "note"])
    /\ UNCHANGED <<mused, broken, calls, silent>>

\* Variant: what was forwarded does not matter to whether the call is made again.
StreamFailsAgain(ask) ==
    \/ ~HasWords /\ Failed("stream", ask)
    \/ HasWords /\ KeepPartial

\* An error frame at the end of the stream, or a connection that drops.  Words are
\* kept, a thought is answered by the desk, and silence is asked again.
StreamFails(ask) ==
    \/ ~Forwarded /\ Failed("stream", ask)
    \/ HasWords /\ KeepPartial
    \/ /\ Forwarded /\ ~HasWords
       /\ ReturnDesk
       /\ UNCHANGED <<stream, silent>>

\* The body is done: a failure it named, nothing at all, or the answer.
StreamEnds(ask) ==
    /\ phase = "reading" /\ watched
    /\ \/ broken /\ StreamFails(ask)
       \/ ~broken /\ ~Forwarded /\ ~calls /\ Failed("empty", NoAsk)
       \/ /\ ~broken /\ (Forwarded \/ calls)
          /\ Return("answer", screen)
          /\ UNCHANGED <<stream, silent>>

StreamDrops ==
    /\ phase = "reading" /\ watched
    /\ StreamFails(NoAsk)

-----------------------------------------------------------------------------
(* Timers and Stop.                                                         *)

\* Variant: the timer guards the headers only.
AttemptTimesOutEarly ==
    /\ phase = "asking"
    /\ now >= due
    /\ Failed("timeout", NoAsk)

\* The attempt's timer aborts the request or the body it is reading.
AttemptTimesOut ==
    /\ now >= due
    /\ \/ /\ phase = "asking" \/ (phase = "reading" /\ ~watched)
          /\ Failed("timeout", NoAsk)
       \/ /\ phase = "reading" /\ watched
          /\ StreamFails(NoAsk)

\* Variant: the body is read without the turn's signal.
StopUnheardByReader ==
    /\ phase # "done"
    /\ ~stopped
    /\ stopped' = TRUE
    /\ IF phase \in {"notice", "reading"}
       THEN UNCHANGED <<phase, outcome>>
       ELSE phase' = "done" /\ outcome' = "aborted"
    /\ UNCHANGED <<clock, stream, watched, answer, silent>>

\* Stop rejects the pending fetch, read or pause, and withRetry reports an abort.
Stop ==
    /\ phase # "done"
    /\ ~stopped
    /\ stopped' = TRUE
    /\ IF phase = "notice"
       THEN UNCHANGED <<phase, outcome>>
       ELSE phase' = "done" /\ outcome' = "aborted"
    /\ UNCHANGED <<clock, stream, watched, answer, silent>>

Tick ==
    /\ phase # "done"
    /\ now < due + Lag
    /\ now' = now + 1
    /\ UNCHANGED <<phase, attempt, due, stream, caller, result, silent>>

-----------------------------------------------------------------------------
Next ==
    \/ \E ask \in Asks \cup {NoAsk} : RetryableStatus(ask) \/ StreamEnds(ask)
    \/ RefusedStatus
    \/ NotFound
    \/ NoticeEnds
    \/ SocketFails
    \/ NotJson
    \/ HeadersArrive
    \/ PlainBody
    \/ \E kind \in {"word", "blank"} : Word(kind)
    \/ Thought
    \/ ToolFragment
    \/ ErrorFrame
    \/ StreamDrops
    \/ AttemptTimesOut
    \/ PauseEnds
    \/ Stop
    \/ Tick

Spec == Init /\ [][Next]_vars

\* The clock runs and the timers fire; the upstream promises nothing.
FairSpec ==
    /\ Spec
    /\ WF_vars(Tick)
    /\ WF_vars(AttemptTimesOut)
    /\ WF_vars(PauseEnds)
    /\ WF_vars(NoticeEnds)

-----------------------------------------------------------------------------
(* What the call promises.                                                  *)

\* The traveler never sees the same sentence written twice: everything the screen was
\* handed came from one attempt, the one the call ended on (completeOpenAi).
OneAttemptOnScreen ==
    /\ \A i \in DOMAIN screen : screen[i].by = attempt
    /\ mused \subseteq {attempt}

\* Words on the screen are never taken back for the desk rendering, however the
\* stream, the timer and the retries end (readOpenAiStream, withRetry).
WordsAreKept == outcome = "desk" => ~HasWords

\* What a streamed call returns is what the traveler read, word for word and in order,
\* apart from the line that says an answer was cut off (readOpenAiStream).
AnswerWasShown ==
    watched /\ outcome \in {"answer", "partial"} =>
        \/ screen = answer
        \/ screen = Append(answer, [by |-> attempt, what |-> "note"])

\* Silence costs one more try and no third, wherever in the retries it falls
\* (shouldRetry).
SilenceIsAskedOnceMore == silent <= 2

\* How far past its deadline a call can run, as the code is: a pause whose timer is late
\* leaves a budget of zero, which buys a whole attempt, and a model list may follow it
\* (withRetry, AttemptTimer, modelListNotice).  BudgetBoundsTheCall is what was meant.
CallIsBounded ==
    now <= Deadline + AttemptTimeout + NoticeTimeout + 3 * Lag

\* A call ends, whatever the upstream does (setTimeout, withRetry).
CallEnds == <>(phase = "done")

\* How a turn sees the call end: a kept part of an answer is an answer.
Verdict ==
    CASE outcome = "none" -> "open"
      [] outcome \in {"answer", "partial"} -> "said"
      [] OTHER -> outcome

Promise == INSTANCE CallPromise WITH
    Pieces <- Frames,
    Words <- {frame \in Frames : frame.what = "word"},
    CutOff <- {frame \in Frames : frame.what = "note"},
    shown <- screen, verdict <- Verdict, text <- answer

\* The retries, the stream, the timers and the model list keep what a turn relies on:
\* nothing is shown or said after Stop but the desk rendering, and a Stop that is not
\* heard, during the model list, finds an empty screen (completeOpenAi, withRetry,
\* readOpenAiStream).
KeepsCallPromise == Promise!Spec

-----------------------------------------------------------------------------
(* Statements of the repository the code does not keep.                     *)

\* docs/retries.md:52-54, 73 and model.service.ts:48-50 -- one deadline covers every attempt
\* and every pause between them: the budget bounds the whole call.  Said of the attempts
\* alone, with the floor of an attempt's timeout and a late timer allowed for.
BudgetBoundsTheCall ==
    phase \in {"asking", "reading"} => now <= Deadline + MinTimeout + Lag

\* docs/retries.md:88 -- a stream that breaks mid-sentence is kept as a partial answer
\* with a line saying it stopped.
KeptAnswerSaysItStopped ==
    outcome = "partial" => \E i \in DOMAIN answer : answer[i].what = "note"
=============================================================================
