--------------------------- MODULE MCBrowserWorker ---------------------------
(* Instances of BrowserWorker for TLC. *)
EXTENDS BrowserWorker

CONSTANTS r1, r2, r3, fare, newFare, captcha, login

SomeRuns == {r1, r2, r3}
\* Two prices under one address, a second address with a CAPTCHA, and the first one again
\* behind a password.
SomePages == {fare, newFare, captcha, login}
SomeWalls == {captcha}
SomeGates == {login}
\* One run of a site with all of them that makes requests of its own, or two of quiet
\* sites that share the place.
AloneOrTwo == {[asked |-> {r1}, busy |-> {r1}], [asked |-> {r2, r3}, busy |-> {}]}
AllPages == [r \in SomeRuns |-> IF r = r1 THEN SomePages ELSE {fare}]
AnyAction == [r \in SomeRuns |-> IF r = r3 THEN {"stop"} ELSE Actions]
Urls == [p \in SomePages |-> IF p = captcha THEN "other" ELSE "results"]
=============================================================================
