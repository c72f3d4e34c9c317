----------------------------- MODULE MCLiveTurn -----------------------------
(* Instances of LiveTurn for TLC. *)
EXTENDS LiveTurn

\* One send, whose reply may be replaced by a longer or a shorter one.
OneSend == {<<2>>}

\* That, or two sends, the first of which may be answered while the second runs.
OneOrTwoSends == OneSend \cup {<<1, 1>>}
=============================================================================
