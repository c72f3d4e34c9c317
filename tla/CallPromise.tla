----------------------------- MODULE CallPromise -----------------------------
(***************************************************************************)
(* What a turn may rely on when it asks the model, whatever the upstream,  *)
(* the retries and the timers do: the screen only grows, and only while    *)
(* nobody has pressed Stop; the call ends once, with the text the screen   *)
(* was handed, with the desk rendering where no word was shown, or because *)
(* it was stopped.  A Stop the call does not hear finds the screen empty,  *)
(* and what such a call still says is the desk rendering.                  *)
(***************************************************************************)
EXTENDS Sequences

CONSTANTS Pieces,  \* what the screen may be handed
          Words,   \* those of them a traveler can read
          CutOff   \* the lines that say an answer was cut off

VARIABLES watched,  \* whether there is a screen
          stopped,  \* whether the traveler pressed Stop
          shown,    \* the pieces on the screen
          verdict,  \* how the call ended
          text      \* what it returned

vars == <<watched, stopped, shown, verdict, text>>

Open == verdict = "open"
HasWords == \E i \in DOMAIN shown : shown[i] \in Words

Init ==
    /\ watched \in BOOLEAN
    /\ stopped = FALSE
    /\ shown = <<>>
    /\ verdict = "open"
    /\ text = <<>>

Show(piece) ==
    /\ Open /\ watched /\ ~stopped
    /\ shown' = Append(shown, piece)
    /\ UNCHANGED <<watched, stopped, verdict, text>>

\* A streamed answer is what was shown, and only words can be cut off.
Say ==
    /\ Open /\ ~stopped
    /\ verdict' = "said"
    /\ IF watched THEN text' = shown ELSE text' \in Seq(Pieces)
    /\ \/ shown' = shown
       \/ HasWords /\ \E line \in CutOff : shown' = Append(shown, line)
    /\ UNCHANGED <<watched, stopped>>

GiveUp ==
    /\ Open /\ ~HasWords
    /\ verdict' = "desk"
    /\ text' = <<>>
    /\ UNCHANGED <<watched, stopped, shown>>

Stop ==
    /\ Open /\ ~stopped
    /\ stopped' = TRUE
    /\ \/ verdict' = "aborted"
       \/ verdict' = "open" /\ shown = <<>>
    /\ UNCHANGED <<watched, shown, text>>

Next ==
    \/ \E piece \in Pieces : Show(piece)
    \/ Say
    \/ GiveUp
    \/ Stop

Spec == Init /\ [][Next]_vars
=============================================================================
