------------------------------ MODULE ChatOwner ------------------------------
(***************************************************************************)
(* Who a chat belongs to, as the other modules see it.  A chat belongs to  *)
(* the user who opened it; it moves at most once, when a sign-in folds all *)
(* the chats of that user into an account; it is gone only when its owner  *)
(* removes it.                                                             *)
(***************************************************************************)
CONSTANTS Chats, Users, None

VARIABLES owner,   \* a user, "none" before and "removed" after
          opener   \* the first owner

Init ==
    /\ owner = [c \in Chats |-> "none"]
    /\ opener = [c \in Chats |-> None]

Open(c, u) ==
    /\ owner[c] = "none"
    /\ owner' = [owner EXCEPT ![c] = u]
    /\ opener' = [opener EXCEPT ![c] = u]

\* The chats of a user who never received any move together.
SignIn(g, u) ==
    /\ \A c \in Chats : owner[c] = g => opener[c] = g
    /\ owner' = [c \in Chats |-> IF owner[c] = g THEN u ELSE owner[c]]
    /\ UNCHANGED opener

Remove(c) ==
    /\ owner[c] \in Users
    /\ owner' = [owner EXCEPT ![c] = "removed"]
    /\ UNCHANGED opener

Next ==
    \/ \E c \in Chats, u \in Users : Open(c, u)
    \/ \E g, u \in Users : SignIn(g, u)
    \/ \E c \in Chats : Remove(c)

Spec == Init /\ [][Next]_<<owner, opener>>
=============================================================================
