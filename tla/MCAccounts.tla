----------------------------- MODULE MCAccounts -----------------------------
(* An instance of Accounts for TLC. *)
EXTENDS Accounts, TLC

CONSTANTS u1, u2, u3, e1, e2, e3, s1, b1, r1, r2, r3, r4, c1, c2

SomeUsers == {u1, u2, u3}
SomeEmails == {e1, e2, e3}
OneSub == {s1}
OneBrowser == {b1}
SomeRequests == {r1, r2, r3, r4}
TwoChats == {c1, c2}
OneKey == [c \in TwoChats |-> "key"]
OneSettler == {u1}
FirstAddress == [u \in OneSettler |-> e1]
Alike == UNION {Permutations({u2, u3}), Permutations({e2, e3}),
                Permutations(SomeRequests), Permutations(TwoChats)}
=============================================================================
