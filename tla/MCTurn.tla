------------------------------- MODULE MCTurn -------------------------------
(* Instances of Turn for TLC. *)
EXTENDS Turn

CONSTANTS t1, t2, c1, c2

TwoTurns == {t1, t2}
TwoChats == {c1, c2}

Alone == [t \in {t1} |-> Requests]
ResetMeanwhile == [t \in TwoTurns |-> IF t = t1 THEN {"remember"} ELSE {"new"}]
DesksMeanwhile == [t \in TwoTurns |-> IF t = t1 THEN {"search"} ELSE {"search", "new"}]
AloneOrTwo == {Alone, ResetMeanwhile, DesksMeanwhile}

\* In one chat, or in two.
SomePlaces == {[t \in TwoTurns |-> IF t = t2 THEN c ELSE c1] : c \in TwoChats}
=============================================================================
