------------------------------- MODULE MCDesk -------------------------------
(* Instances of Desk for TLC: one chat whose message opened two desks. *)
EXTENDS Desk

CONSTANTS c1, flight, stay, o1, o2

OneChat == {c1}
OneChatTasks == {flight, stay}
OneChatOf == [t \in OneChatTasks |-> c1]
TwoOffers == {o1, o2}
TwoDeskOf == [o \in TwoOffers |-> flight]
=============================================================================
