------------------------------ MODULE Accounts ------------------------------
(***************************************************************************)
(* Who a traveler is: guests, accounts, the sessions that stand for them   *)
(* and the chats they own.  AuthService with AuthController, the guard's   *)
(* readUser, and what SessionsService does about owners.                   *)
(*                                                                         *)
(* A handler is one step up to its next await: hashing or verifying a      *)
(* password, or asking Google for its keys.  Other requests, of the same   *)
(* browser or of another, come in between.  The rate limiters only refuse, *)
(* which changes nothing here.                                             *)
(***************************************************************************)
EXTENDS FiniteSets

CONSTANTS Users,     \* ids of rows that may be made (bound of the model)
          Emails,
          Subs,      \* Google's ids of its users
          Browsers,  \* browserKey: address and user agent
          Requests,  \* calls of the sign-in routes; also the tokens they issue
          Chats,
          KeyOf,     \* the session key of a chat: agent, channel and peer
          Settlers,  \* rows an earlier build left, with a scrypt hash
          AddressOf, \* and their addresses
          None

ASSUME AccountsAssumption ==
    /\ None \notin Users \cup Emails \cup Subs \cup Browsers \cup Requests
    /\ {"none", "removed"} \cap (Users \cup {None}) = {}
    /\ Settlers \subseteq Users /\ AddressOf \in [Settlers -> Emails]
    /\ \A u, v \in Settlers : AddressOf[u] = AddressOf[v] => u = v

VARIABLES
    users,   \* the table of that name
    owner,   \* sessions.user_id, or why a chat has no row
    holder,  \* auth_sessions: the user a token stands for
    pin,     \* guestPins
    pc,      \* what a sign-in request awaits
    req,     \* what it carries, and what it has read
    opener   \* history: the user who opened a chat

vars == <<users, owner, holder, pin, pc, req, opener>>

Hashes == {"none", "argon2id", "scrypt"}
Row == [kind: {"absent", "guest", "account", "deleted"}, email: Emails \cup {None},
        google: Subs \cup {None}, hash: Hashes]
Request == [browser: Browsers \cup {None}, guest: Users \cup {None},
            email: Emails \cup {None}, account: Users \cup {None}, hash: Hashes]

Waiting == {"hashing", "verifying", "rehashing", "google"}

TypeOK ==
    /\ users \in [Users -> Row]
    /\ owner \in [Chats -> Users \cup {"none", "removed"}]
    /\ holder \in [Requests -> Users \cup {None}]
    /\ pin \in [Browsers -> Users \cup {None}]
    /\ pc \in [Requests -> Waiting \cup {"idle", "done", "refused"}]
    /\ req \in [Requests -> Request]
    /\ opener \in [Chats -> Users \cup {None}]

NoRow(kind) == [kind |-> kind, email |-> None, google |-> None, hash |-> "none"]
Call(b, g, e, u, hash) ==
    [browser |-> b, guest |-> g, email |-> e, account |-> u, hash |-> hash]
NoRequest == Call(None, None, None, None, "none")

Init ==
    /\ users = [u \in Users |->
           IF u \in Settlers
           THEN [kind |-> "account", email |-> AddressOf[u], google |-> None,
                 hash |-> "scrypt"]
           ELSE NoRow("absent")]
    /\ owner = [c \in Chats |-> "none"]
    /\ holder = [r \in Requests |-> None]
    /\ pin = [b \in Browsers |-> None]
    /\ pc = [r \in Requests |-> "idle"]
    /\ req = [r \in Requests |-> NoRequest]
    /\ opener = [c \in Chats |-> None]

-----------------------------------------------------------------------------
(* Reading who is there.                                                    *)

\* Variant: findGuest without is_guest = 1.
IsAnyUser(u) == u \in Users /\ users[u].kind \in {"guest", "account"}

\* findGuest
IsGuest(u) == u \in Users /\ users[u].kind = "guest"

\* pinnedGuestId; forgetting the pin of a row that is no guest any more shows nowhere,
\* since ids are not used twice.
Pinned(b) == IF IsGuest(pin[b]) THEN pin[b] ELSE None

\* What a call may present: no token, or one that was issued, good or not.  The address
\* a traveler calls from may have changed since.
Presented == {None} \cup {k \in Requests : pc[k] = "done"}

\* verifyToken
VerifyToken(k) == IF k = None THEN None ELSE holder[k]

\* readUser: a token decides, even a stale one; nothing at all falls back to the pin.
ReadUser(b, k) == IF k = None THEN Pinned(b) ELSE VerifyToken(k)

\* currentGuestId: a token of an account says there is no guest, a stale one falls back.
CurrentGuest(b, k) ==
    IF VerifyToken(k) = None THEN Pinned(b)
    ELSE IF IsGuest(VerifyToken(k)) THEN VerifyToken(k) ELSE None

\* users.email is taken.
Taken(e) == \E u \in Users : users[u].email = e

-----------------------------------------------------------------------------
(* Writing rows.                                                            *)

\* A user has one chat by a key: idx_sessions_user_key.
Clash(g, u) ==
    \E c, d \in Chats : owner[c] = g /\ owner[d] = u /\ KeyOf[c] = KeyOf[d]

\* absorbGuest folds the guest of a request into an account, unless it is that account,
\* no guest any more, or its chats cannot move: the set is empty then.
Absorbed(r, u) == {g \in {req[r].guest} : IsGuest(g) /\ g # u /\ ~Clash(g, u)}

\* Its chats move, then its row goes, and what refers to the row goes with it.
ChatsFolded(guests, u) ==
    [c \in Chats |-> IF owner[c] \in guests THEN u ELSE owner[c]]
SessionsLeft(guests) ==
    [k \in Requests |-> IF holder[k] \in guests THEN None ELSE holder[k]]
Delete(guests) == [v \in Users |-> IF v \in guests THEN NoRow("deleted") ELSE users[v]]

\* Variant: the guest is not looked up again after the password was hashed.
RowAsRead(r, u) ==
    IF req[r].guest # None THEN u = req[r].guest ELSE users[u].kind = "absent"

\* Variant: every sign-up makes a row of its own.
RowOfItsOwn(r, u) == users[u].kind = "absent"

\* register and loginWithGoogle make an account of the guest's own row if it is still a
\* guest, and a new row otherwise.
RowFor(r, u) ==
    IF IsGuest(req[r].guest) THEN u = req[r].guest ELSE users[u].kind = "absent"

\* issueSession with the controller's forgetGuestPin and answer; the guest and the address
\* are kept as history.
Answer(r, u, sessions) ==
    /\ holder' = [sessions EXCEPT ![r] = u]
    /\ pin' = [pin EXCEPT ![req[r].browser] = None]
    /\ pc' = [pc EXCEPT ![r] = "done"]
    /\ req' = [req EXCEPT ![r] = Call(None, req[r].guest, req[r].email, None, "none")]
    /\ UNCHANGED opener

\* What a handler has read goes with it.
Refuse(r) ==
    /\ pc' = [pc EXCEPT ![r] = "refused"]
    /\ req' = [req EXCEPT ![r] = NoRequest]
    /\ UNCHANGED <<users, owner, holder, pin, opener>>

-----------------------------------------------------------------------------
(* Guests: POST /api/auth/guest.                                            *)

\* A browser that presents nothing is given back the guest it is known by.
ResumeGuest(r, b) ==
    /\ pc[r] = "idle"
    /\ Pinned(b) # None
    /\ holder' = [holder EXCEPT ![r] = Pinned(b)]
    /\ pc' = [pc EXCEPT ![r] = "done"]
    /\ req' = [req EXCEPT ![r] = Call(b, None, None, None, "none")]
    /\ UNCHANGED <<users, owner, pin, opener>>

\* A stale token, or nothing and no pin, makes a new guest.
CreateGuest(r, b, k) ==
    /\ pc[r] = "idle"
    /\ ReadUser(b, k) = None
    /\ \E u \in Users :
          /\ users[u].kind = "absent"
          /\ users' = [users EXCEPT ![u] = NoRow("guest")]
          /\ holder' = [holder EXCEPT ![r] = u]
          /\ pin' = [pin EXCEPT ![b] = u]
    /\ pc' = [pc EXCEPT ![r] = "done"]
    /\ req' = [req EXCEPT ![r] = Call(b, None, None, None, "none")]
    /\ UNCHANGED <<owner, opener>>

-----------------------------------------------------------------------------
(* register.                                                                *)

\* What a handler has read when it first waits.
Begin(r, b, g, phase, e, u, hash) ==
    /\ pc[r] = "idle"
    /\ pc' = [pc EXCEPT ![r] = phase]
    /\ req' = [req EXCEPT ![r] = Call(b, g, e, u, hash)]
    /\ UNCHANGED <<users, owner, holder, pin, opener>>

Register(r, b, g, e) ==
    /\ ~Taken(e)
    /\ Begin(r, b, g, "hashing", e, None, "none")

\* The row as register writes it; a guest's row has neither identity before.
NewAccount(e, s, hash) == [kind |-> "account", email |-> e, google |-> s, hash |-> hash]

\* Variant: the check before the hash is relied on.
RegisteredUnchecked(r) ==
    /\ pc[r] = "hashing"
    /\ \E u \in Users :
          /\ RowFor(r, u)
          /\ users' = [users EXCEPT ![u] = NewAccount(req[r].email, None, "argon2id")]
          /\ Answer(r, u, holder)
    /\ UNCHANGED owner

\* The address was free before the hash; the table's UNIQUE decides now.
Registered(r) ==
    /\ pc[r] = "hashing"
    /\ ~Taken(req[r].email)
    /\ \E u \in Users :
          /\ RowFor(r, u)
          /\ users' = [users EXCEPT ![u] = NewAccount(req[r].email, None, "argon2id")]
          /\ Answer(r, u, holder)
    /\ UNCHANGED owner

RegisterFails(r) ==
    /\ pc[r] = "hashing"
    /\ Taken(req[r].email)
    /\ Refuse(r)

-----------------------------------------------------------------------------
(* login.                                                                   *)

\* The row of the address is read once, before the password is verified.
Login(r, b, g, e) ==
    \/ \E u \in Users :
          /\ users[u].email = e
          /\ Begin(r, b, g, "verifying", e, u, users[u].hash)
    \/ ~Taken(e) /\ Begin(r, b, g, "verifying", e, None, "none")

\* The password fits: the guest is folded in, and an old hash is renewed first.
LoggedIn(r) ==
    LET u == req[r].account
        guests == Absorbed(r, u)
    IN  /\ pc[r] = "verifying"
        /\ u # None /\ req[r].hash # "none"
        /\ users' = Delete(guests)
        /\ owner' = ChatsFolded(guests, u)
        /\ \/ /\ req[r].hash = "argon2id"
              /\ Answer(r, u, SessionsLeft(guests))
           \/ /\ req[r].hash = "scrypt"
              /\ pc' = [pc EXCEPT ![r] = "rehashing"]
              /\ holder' = SessionsLeft(guests)
              /\ UNCHANGED <<pin, req, opener>>

\* A wrong password, an unknown address, or an account without a password.
LoginFails(r) ==
    /\ pc[r] = "verifying"
    /\ Refuse(r)

Rehashed(r) ==
    /\ pc[r] = "rehashing"
    /\ users' = [users EXCEPT ![req[r].account].hash = "argon2id"]
    /\ Answer(r, req[r].account, holder)
    /\ UNCHANGED owner

-----------------------------------------------------------------------------
(* loginWithGoogle.                                                         *)

Google(r, b, g) == Begin(r, b, g, "google", None, None, "none")

\* Signs in to a row that exists, after the guest was folded in.
Joins(r, u, s) ==
    LET guests == Absorbed(r, u)
    IN  /\ users' = [Delete(guests) EXCEPT ![u].google = s]
        /\ owner' = ChatsFolded(guests, u)
        /\ Answer(r, u, SessionsLeft(guests))

\* The claims name a user of Google and an address Google has verified: first the row
\* with that identity, then the row with that address, then a row of its own.
Verified(r, s, e) ==
    LET bySub == {u \in Users : users[u].google = s}
        byEmail == {u \in Users : users[u].email = e}
    IN  /\ pc[r] = "google"
        /\ \/ \E u \in bySub : Joins(r, u, s)
           \/ bySub = {} /\ \E u \in byEmail : Joins(r, u, s)
           \/ /\ bySub = {} /\ byEmail = {}
              /\ \E u \in Users :
                    /\ RowFor(r, u)
                    /\ users' = [users EXCEPT ![u] = NewAccount(e, s, "none")]
                    /\ Answer(r, u, holder)
              /\ UNCHANGED owner

\* Google rejects the credential or cannot be reached.
GoogleFails(r) ==
    /\ pc[r] = "google"
    /\ Refuse(r)

-----------------------------------------------------------------------------
(* Sessions end, pins are forgotten, chats are opened and removed.          *)

\* The row goes, and the browser is not known any more.
Logout(b, k) ==
    /\ holder' = [t \in Requests |-> IF t = k THEN None ELSE holder[t]]
    /\ pin' = [pin EXCEPT ![b] = None]
    /\ UNCHANGED <<users, owner, pc, req, opener>>

\* sessionTtlDays have passed; verifyToken deletes the row when it next sees it.
Expire(k) ==
    /\ holder[k] # None
    /\ holder' = [holder EXCEPT ![k] = None]
    /\ UNCHANGED <<users, owner, pin, pc, req, opener>>

\* Twelve hours without a sighting, or MAX_GUEST_PINS browsers after it.
ForgetPin(b) ==
    /\ pin[b] # None
    /\ pin' = [pin EXCEPT ![b] = None]
    /\ UNCHANGED <<users, owner, holder, pc, req, opener>>

\* A chat the user has by that key is the one that is opened.
OpenChat(c, b, k) ==
    /\ owner[c] = "none"
    /\ ReadUser(b, k) # None
    /\ \A d \in Chats : owner[d] = ReadUser(b, k) => KeyOf[d] # KeyOf[c]
    /\ owner' = [owner EXCEPT ![c] = ReadUser(b, k)]
    /\ opener' = [opener EXCEPT ![c] = ReadUser(b, k)]
    /\ UNCHANGED <<users, holder, pin, pc, req>>

RemoveChat(c, b, k) ==
    /\ owner[c] = ReadUser(b, k)
    /\ owner' = [owner EXCEPT ![c] = "removed"]
    /\ UNCHANGED <<users, holder, pin, pc, req, opener>>

\* The process dies with the pins and the requests it was serving.
Restart ==
    /\ pin' = [b \in Browsers |-> None]
    /\ pc' = [r \in Requests |-> IF pc[r] \in Waiting THEN "refused" ELSE pc[r]]
    /\ req' = [r \in Requests |-> IF pc[r] \in Waiting THEN NoRequest ELSE req[r]]
    /\ UNCHANGED <<users, owner, holder, opener>>

GuestCall(r, b, k) == (k = None /\ ResumeGuest(r, b)) \/ CreateGuest(r, b, k)

SignIn(r, b, g) ==
    \/ \E e \in Emails : Register(r, b, g, e) \/ Login(r, b, g, e)
    \/ Google(r, b, g)

Answers(r) ==
    \/ Registered(r) \/ RegisterFails(r)
    \/ LoggedIn(r) \/ LoginFails(r) \/ Rehashed(r)
    \/ GoogleFails(r)
    \/ \E s \in Subs, e \in Emails : Verified(r, s, e)

ChatCall(b, k) == \E c \in Chats : OpenChat(c, b, k) \/ RemoveChat(c, b, k)

Next ==
    \/ \E b \in Browsers, k \in Presented :
          \/ \E r \in Requests : GuestCall(r, b, k)
          \/ Logout(b, k)
          \/ ChatCall(b, k)
    \/ \E r \in Requests, b \in Browsers :
          \E g \in {CurrentGuest(b, k) : k \in Presented} : SignIn(r, b, g)
    \/ \E r \in Requests : Answers(r) \/ Expire(r)
    \/ \E b \in Browsers : ForgetPin(b)
    \/ Restart

Spec == Init /\ [][Next]_vars

-----------------------------------------------------------------------------
(* Properties.                                                              *)

\* An address has one row and a Google identity has one row, whatever sign-ins race for
\* them (register, loginWithGoogle, the UNIQUE columns).
RowsAreUnique ==
    \A u, v \in Users : u # v =>
        /\ users[u].email # None => users[u].email # users[v].email
        /\ users[u].google # None => users[u].google # users[v].google

\* The row a login read before it waited is still there, an account with that address,
\* when it goes on: getRowById never throws "vanished" and no session is without a user.
RowsReadStay ==
    \A r \in Requests :
        pc[r] \in {"verifying", "rehashing"} /\ req[r].account # None =>
            /\ users[req[r].account].kind = "account"
            /\ users[req[r].account].email = req[r].email

\* A token that register or login issued for an address stands for the account with that
\* address, whatever other sign-ins did to the same guest (register, findGuest).
SessionsFitTheirAddress ==
    \A r \in Requests :
        pc[r] = "done" /\ req[r].email # None /\ holder[r] # None =>
            users[holder[r]].kind = "account" /\ users[holder[r]].email = req[r].email

\* A sign-in that succeeds takes the guest's chats along, whoever else signed in with the
\* same guest meanwhile, unless the account has a chat by the same key (absorbGuest, the
\* promotions).
SignInTakesTheGuest ==
    [][\A r \in Requests :
          pc[r] \in {"hashing", "verifying", "google"} /\ pc'[r] \in {"rehashing", "done"} =>
              \/ ~IsGuest(req[r].guest)'
              \/ \E u \in Users : users[u].kind = "account" /\ Clash(req[r].guest, u)]_vars

\* A chat with an owner is lost only when its owner removes it: no deleted row takes it
\* along, though the tables cascade (absorbGuest, schema.ts).
NoChatIsLost ==
    [][\A c \in Chats :
          owner[c] \in Users /\ owner'[c] \notin Users => users' = users]_vars

Owners == INSTANCE ChatOwner

\* A chat moves at most once, together with all the chats of its guest, and never out of
\* an account: what Desk and Turn assume of owners (absorbGuest, findGuest).
ChatsMoveOnce == Owners!Spec

-----------------------------------------------------------------------------
(* A statement of the repository the code does not keep.                    *)

\* docs/architecture.md:171 -- when a guest registers, signs in, or completes Google
\* sign-in, its chats are not lost (absorbGuest).
SignInLosesNoChat ==
    \A r \in Requests, c \in Chats :
        pc[r] = "done" /\ IsGuest(req[r].guest) => owner[c] # req[r].guest
=============================================================================
