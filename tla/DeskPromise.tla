----------------------------- MODULE DeskPromise -----------------------------
(***************************************************************************)
(* What a traveler may rely on, without rows, coroutines or a browser: a   *)
(* desk searches once, answers once and is decided once; an offer is held  *)
(* because the answer that brought it said so, or because the traveler     *)
(* asked, one offer at a time per desk and only once the desk has answered;*)
(* an offer that is held is never asked for again.                         *)
(***************************************************************************)
CONSTANTS Chats, Tasks, Offers, ChatOf, DeskOf

VARIABLES stage,   \* of each desk
          asked,   \* offers the traveler waits for
          booked   \* offers shown as held

vars == <<stage, asked, booked>>

Stages == {"unopened", "searching", "answered", "decided", "gone"}

Init ==
    /\ stage = [t \in Tasks |-> "unopened"]
    /\ asked = {}
    /\ booked = {}

Steps == {<<"unopened", "searching">>, <<"searching", "answered">>,
          <<"answered", "decided">>}

\* Every desk stays where it is or takes one of the given steps.
DesksMove(steps) ==
    /\ stage' \in [Tasks -> Stages]
    /\ \A t \in Tasks :
          stage'[t] = stage[t] \/ <<stage[t], stage'[t]>> \in steps

\* A message opens several desks at once; each answers and is decided on its own.
Progress ==
    /\ DesksMove(Steps)
    /\ UNCHANGED <<asked, booked>>

\* A search answers, with offers that are held already.
Answer(t, os) ==
    /\ stage[t] = "searching"
    /\ stage' = [stage EXCEPT ![t] = "answered"]
    /\ \A o \in os : DeskOf[o] = t /\ o \notin asked \cup booked
    /\ booked' = booked \cup os
    /\ UNCHANGED asked

Ask(o) ==
    /\ stage[DeskOf[o]] \in {"answered", "decided"}
    /\ o \notin booked
    /\ \A p \in asked : DeskOf[p] # DeskOf[o]
    /\ asked' = asked \cup {o}
    /\ UNCHANGED <<stage, booked>>

Book(o) ==
    /\ o \in asked
    /\ stage[DeskOf[o]] # "gone"
    /\ asked' = asked \ {o}
    /\ booked' = booked \cup {o}
    /\ UNCHANGED stage

GiveUp(o) ==
    /\ o \in asked
    /\ asked' = asked \ {o}
    /\ UNCHANGED <<stage, booked>>

\* The chat goes, with every desk and every shown hold of it.
Remove(c) ==
    /\ stage' = [t \in Tasks |-> IF ChatOf[t] = c /\ stage[t] # "unopened"
                                 THEN "gone" ELSE stage[t]]
    /\ booked' = {o \in booked : ChatOf[DeskOf[o]] # c}
    /\ UNCHANGED asked

\* The process dies: nobody waits any more, and desks that searched may answer.
Forget ==
    /\ DesksMove({<<"searching", "answered">>})
    /\ asked' = {}
    /\ UNCHANGED booked

Next ==
    \/ Progress
    \/ \E t \in Tasks : \E os \in SUBSET Offers : Answer(t, os)
    \/ \E o \in Offers : Ask(o) \/ Book(o) \/ GiveUp(o)
    \/ \E c \in Chats : Remove(c)
    \/ Forget

Spec == Init /\ [][Next]_vars
=============================================================================
