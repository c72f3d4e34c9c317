--------------------------- MODULE AccountsProofs ---------------------------
(***************************************************************************)
(* Theorems about Accounts, for any number of users, addresses, browsers,  *)
(* requests and chats.                                                     *)
(***************************************************************************)
EXTENDS Accounts, TLAPS

\* Only an account has an address and a Google identity of its own.
IdentitiesAreOfAccounts ==
    \A u \in Users : users[u].kind # "account" =>
        users[u].email = None /\ users[u].google = None

\* What a handler carries while it waits; a token exists only once it has answered.
RequestsFit ==
    \A r \in Requests :
        /\ pc[r] \in {"hashing", "verifying", "rehashing"} => req[r].email # None
        /\ pc[r] = "rehashing" => req[r].account # None
        /\ pc[r] = "google" => req[r].email = None
        /\ pc[r] \in Waiting => req[r].browser # None
        /\ pc[r] # "done" => holder[r] = None

\* The user a token stands for is there.
HoldersAreThere ==
    \A k \in Requests : holder[k] # None => users[holder[k]].kind \in {"guest", "account"}

\* The owner of a chat is there, and a guest owns only chats it opened.
OwnersAreThere ==
    \A c \in Chats : owner[c] \in Users =>
        /\ users[owner[c]].kind \in {"guest", "account"}
        /\ users[owner[c]].kind = "guest" => opener[c] = owner[c]

IInv ==
    /\ TypeOK
    /\ IdentitiesAreOfAccounts
    /\ RowsAreUnique
    /\ RequestsFit
    /\ RowsReadStay
    /\ HoldersAreThere
    /\ OwnersAreThere
    /\ SessionsFitTheirAddress

\* It holds before the first call.
LEMMA InitIInv == Init => IInv
<1> SUFFICES ASSUME Init PROVE IInv
  OBVIOUS
<1>1. TypeOK
  BY AccountsAssumption DEF Init, TypeOK, Row, Request, NoRow, NoRequest, Call, Hashes, Waiting
<1>2. IdentitiesAreOfAccounts /\ RowsAreUnique
  BY AccountsAssumption DEF Init, IdentitiesAreOfAccounts, RowsAreUnique, NoRow
<1>3. RequestsFit /\ RowsReadStay /\ HoldersAreThere /\ SessionsFitTheirAddress
  BY DEF Init, RequestsFit, RowsReadStay, HoldersAreThere, SessionsFitTheirAddress, Waiting
<1>4. OwnersAreThere
  BY AccountsAssumption DEF Init, OwnersAreThere
<1> QED
  BY <1>1, <1>2, <1>3, <1>4 DEF IInv

\* A call of the guest route.
LEMMA GuestKeepsIInv ==
    ASSUME IInv, NEW r \in Requests, NEW b \in Browsers, NEW k \in Presented,
           GuestCall(r, b, k)
    PROVE  IInv'
<1> USE AccountsAssumption
<1>1. CASE ResumeGuest(r, b)
  <2>1. pc[r] = "idle" /\ pin[b] \in Users /\ users[pin[b]].kind = "guest"
        /\ Pinned(b) = pin[b]
    BY <1>1 DEF ResumeGuest, Pinned, IsGuest
  <2>2. TypeOK'
    BY <1>1, <2>1 DEF ResumeGuest, IInv, TypeOK, Request, NoRequest, Call, Waiting, Hashes
  <2>3. (IdentitiesAreOfAccounts /\ RowsAreUnique /\ OwnersAreThere)'
    BY <1>1 DEF ResumeGuest, IInv, IdentitiesAreOfAccounts, RowsAreUnique, OwnersAreThere
  <2>4. (RequestsFit /\ RowsReadStay)'
    BY <1>1, <2>1 DEF ResumeGuest, IInv, TypeOK, RequestsFit, RowsReadStay, NoRequest, Call
  <2>5. (HoldersAreThere /\ SessionsFitTheirAddress)'
    BY <1>1, <2>1
    DEF ResumeGuest, IInv, TypeOK, HoldersAreThere, SessionsFitTheirAddress, NoRequest, Call
  <2> QED
    BY <2>2, <2>3, <2>4, <2>5 DEF IInv
<1>2. CASE CreateGuest(r, b, k)
  <2>1. PICK u \in Users :
            /\ users[u].kind = "absent"
            /\ users' = [users EXCEPT ![u] = NoRow("guest")]
            /\ holder' = [holder EXCEPT ![r] = u]
            /\ pin' = [pin EXCEPT ![b] = u]
    BY <1>2 DEF CreateGuest
  <2> USE <2>1
  <2>2. TypeOK'
    BY <1>2 DEF CreateGuest, IInv, TypeOK, Row, Request, NoRow, NoRequest, Call, Waiting, Hashes
  <2>3. (IdentitiesAreOfAccounts /\ RowsAreUnique)'
    BY DEF IInv, TypeOK, IdentitiesAreOfAccounts, RowsAreUnique, NoRow
  <2>4. OwnersAreThere'
    BY <1>2 DEF CreateGuest, IInv, TypeOK, OwnersAreThere, NoRow
  <2>5. RequestsFit'
    BY <1>2 DEF CreateGuest, IInv, TypeOK, RequestsFit, NoRequest, Call
  <2>6. RowsReadStay'
    BY <1>2 DEF CreateGuest, IInv, TypeOK, RowsReadStay, Request, NoRequest, Call
  <2>7. HoldersAreThere'
    BY <1>2 DEF CreateGuest, IInv, TypeOK, HoldersAreThere, NoRow
  <2>8. SessionsFitTheirAddress'
    BY <1>2
    DEF CreateGuest, IInv, TypeOK, HoldersAreThere, SessionsFitTheirAddress, NoRow,
        NoRequest, Call
  <2> QED
    BY <2>2, <2>3, <2>4, <2>5, <2>6, <2>7, <2>8 DEF IInv
<1> QED
  BY <1>1, <1>2 DEF GuestCall

\* The guest a request carries is a row of users, if it is anything.
LEMMA GuestsRead ==
    ASSUME IInv, NEW b \in Browsers, NEW k \in Presented
    PROVE  CurrentGuest(b, k) \in Users \cup {None}
  BY AccountsAssumption
  DEF CurrentGuest, VerifyToken, Pinned, IsGuest, Presented, IInv, TypeOK

\* A handler that begins has read the guest, and at most a row with its address.
LEMMA BeginKeepsIInv ==
    ASSUME IInv, NEW r \in Requests, NEW b \in Browsers,
           NEW g \in Users \cup {None}, SignIn(r, b, g)
    PROVE  IInv'
<1> USE AccountsAssumption
<1>1. PICK phase \in {"hashing", "verifying", "google"}, e \in Emails \cup {None},
           u \in Users \cup {None}, hash \in Hashes :
         /\ Begin(r, b, g, phase, e, u, hash)
         /\ (phase = "google") <=> (e = None)
         /\ u # None => users[u].email = e /\ phase = "verifying"
  <2>1. ASSUME NEW e \in Emails, Register(r, b, g, e)
        PROVE  Begin(r, b, g, "hashing", e, None, "none")
    BY <2>1 DEF Register
  <2>2. ASSUME NEW e \in Emails, Login(r, b, g, e)
        PROVE  \E u \in Users \cup {None}, hash \in Hashes :
                  /\ Begin(r, b, g, "verifying", e, u, hash)
                  /\ u # None => users[u].email = e
    BY <2>2 DEF Login, IInv, TypeOK, Row, Hashes
  <2>3. CASE Google(r, b, g)
    BY <2>3 DEF Google, Hashes
  <2>4. "none" \in Hashes
    BY DEF Hashes
  <2> QED
    BY <2>1, <2>2, <2>3, <2>4 DEF SignIn
<1>2. u # None => users[u].kind = "account"
  BY <1>1 DEF IInv, IdentitiesAreOfAccounts
<1>3. TypeOK'
  BY <1>1 DEF Begin, Call, IInv, TypeOK, Request, Waiting
<1>4. (IdentitiesAreOfAccounts /\ RowsAreUnique /\ OwnersAreThere /\ HoldersAreThere)'
  BY <1>1 DEF Begin, Call, IInv, IdentitiesAreOfAccounts, RowsAreUnique, OwnersAreThere,
     HoldersAreThere
<1>5. (RequestsFit /\ RowsReadStay /\ SessionsFitTheirAddress)'
  BY <1>1, <1>2
  DEF Begin, Call, IInv, TypeOK, RequestsFit, RowsReadStay, SessionsFitTheirAddress
<1> QED
  BY <1>3, <1>4, <1>5 DEF IInv

\* A row that becomes an account, a guest's own or a new one, under an address and an
\* identity that no other row has.
LEMMA NewAccountKeepsIInv ==
    ASSUME IInv, NEW r \in Requests, NEW u \in Users, NEW e \in Emails,
           NEW s \in Subs \cup {None}, NEW hash \in Hashes,
           (pc[r] = "hashing" /\ req[r].email = e) \/ pc[r] = "google",
           req[r].browser \in Browsers,
           RowFor(r, u), ~Taken(e),
           s # None => \A v \in Users : users[v].google # s,
           users' = [users EXCEPT ![u] = NewAccount(e, s, hash)],
           Answer(r, u, holder), UNCHANGED owner
    PROVE  IInv'
<1> USE AccountsAssumption DEF NewAccount
<1>1. users[u].kind \in {"guest", "absent"}
  BY DEF RowFor, IsGuest
<1>2. TypeOK'
  BY DEF IInv, TypeOK, Answer, Call, Request, Hashes, Row, Waiting
<1>3. (IdentitiesAreOfAccounts /\ RowsAreUnique)'
  BY DEF IInv, TypeOK, IdentitiesAreOfAccounts, RowsAreUnique, Taken
<1>4. RequestsFit'
  BY DEF IInv, TypeOK, RequestsFit, Answer, Call, Waiting
<1>5. RowsReadStay'
  BY <1>1 DEF IInv, TypeOK, RowsReadStay, Answer, Call, Request
<1>6. (HoldersAreThere /\ OwnersAreThere)'
  BY <1>1 DEF IInv, TypeOK, HoldersAreThere, OwnersAreThere, Answer
<1>7. SessionsFitTheirAddress'
  BY <1>1 DEF IInv, TypeOK, SessionsFitTheirAddress, RequestsFit, Answer, Call
<1> QED
  BY <1>2, <1>3, <1>4, <1>5, <1>6, <1>7 DEF IInv

\* The guests a sign-in absorbs: one or none, never the account, never an account.
LEMMA AbsorbedIsAGuest ==
    ASSUME IInv, NEW r \in Requests, NEW u \in Users
    PROVE  /\ Absorbed(r, u) = {} \/ Absorbed(r, u) = {req[r].guest}
           /\ \A g \in Absorbed(r, u) :
                 g \in Users /\ g # u /\ users[g].kind = "guest" /\ g = req[r].guest
  BY DEF Absorbed, IsGuest

\* A sign-in to a row that exists: the guest is folded in, and the handler answers or goes
\* on to renew the hash.
LEMMA FoldKeepsIInv ==
    ASSUME IInv, NEW r \in Requests, NEW u \in Users,
           users[u].kind = "account",
           users' \in [Users -> Row],
           \A v \in Absorbed(r, u) : users'[v] = NoRow("deleted"),
           \A v \in Users \ Absorbed(r, u) :
               /\ users'[v].kind = users[v].kind
               /\ users'[v].email = users[v].email
               /\ users'[v].google = users[v].google \/ v = u,
           \A v \in Users : v # u /\ users'[u].google # None =>
               users[v].google # users'[u].google,
           owner' = ChatsFolded(Absorbed(r, u), u),
           (pc[r] = "verifying" /\ req[r].account = u) \/ pc[r] = "google",
           \/ /\ req[r].browser \in Browsers
              /\ Answer(r, u, SessionsLeft(Absorbed(r, u)))
           \/ /\ pc[r] = "verifying"
              /\ pc' = [pc EXCEPT ![r] = "rehashing"]
              /\ holder' = SessionsLeft(Absorbed(r, u))
              /\ UNCHANGED <<pin, req, opener>>
    PROVE  IInv'
<1> USE AccountsAssumption
<1> DEFINE guests == Absorbed(r, u)
<1>1. \A g \in guests : g \in Users /\ g # u /\ users[g].kind = "guest"
  BY AbsorbedIsAGuest
<1>0. /\ \A v \in guests : users'[v] = NoRow("deleted")
      /\ \A v \in Users \ guests :
            /\ users'[v].kind = users[v].kind
            /\ users'[v].email = users[v].email
            /\ users'[v].google = users[v].google \/ v = u
      /\ owner' = ChatsFolded(guests, u)
      /\ \/ req[r].browser \in Browsers /\ Answer(r, u, SessionsLeft(guests))
         \/ /\ pc[r] = "verifying"
            /\ pc' = [pc EXCEPT ![r] = "rehashing"]
            /\ holder' = SessionsLeft(guests)
            /\ UNCHANGED <<pin, req, opener>>
  OBVIOUS
<1> HIDE DEF guests
<1> USE <1>0
<1>2. \A k \in Requests : k # r =>
          holder'[k] = IF holder[k] \in guests THEN None ELSE holder[k]
  <2>1. /\ SessionsLeft(guests) \in [Requests -> Users \cup {None}]
        /\ \A k \in Requests : SessionsLeft(guests)[k] =
               IF holder[k] \in guests THEN None ELSE holder[k]
    BY DEF SessionsLeft, IInv, TypeOK
  <2>2. \A k \in Requests : k # r => holder'[k] = SessionsLeft(guests)[k]
    BY <2>1 DEF Answer
  <2> QED
    BY <2>1, <2>2
<1>3. holder'[r] \in {u, None} /\ (pc'[r] # "done" => holder'[r] = None)
  <2>1. holder[r] = None
    BY DEF IInv, RequestsFit
  <2>2. SessionsLeft(guests) \in [Requests -> Users \cup {None}]
        /\ SessionsLeft(guests)[r] = None
    BY <2>1 DEF SessionsLeft, IInv, TypeOK
  <2> QED
    BY <2>2 DEF Answer, IInv, TypeOK
<1>4. TypeOK'
  <2>1. owner' \in [Chats -> Users \cup {"none", "removed"}]
    BY DEF ChatsFolded, IInv, TypeOK
  <2>2. SessionsLeft(guests) \in [Requests -> Users \cup {None}]
    BY DEF SessionsLeft, IInv, TypeOK
  <2>3. holder' \in [Requests -> Users \cup {None}]
    BY <2>2 DEF Answer
  <2>4. req' \in [Requests -> Request]
    BY DEF IInv, TypeOK, Answer, Call, Request, Hashes
  <2> QED
    BY <2>1, <2>3, <2>4 DEF IInv, TypeOK, Answer, Waiting
<1>5. IdentitiesAreOfAccounts'
  BY <1>1 DEF IInv, TypeOK, IdentitiesAreOfAccounts, NoRow
<1>6. RowsAreUnique'
  <2> SUFFICES ASSUME NEW v \in Users, NEW w \in Users, v # w
               PROVE  /\ users'[v].email # None => users'[v].email # users'[w].email
                      /\ users'[v].google # None => users'[v].google # users'[w].google
    BY DEF RowsAreUnique
  <2>1. users[v].email # None => users[v].email # users[w].email
    BY DEF IInv, RowsAreUnique
  <2>2. users'[v].email \in {users[v].email, None} /\ users'[w].email \in {users[w].email, None}
    BY DEF NoRow
  <2>3. \A x \in Users : x # u => users'[x].google \in {users[x].google, None}
    BY DEF NoRow
  <2>4. users[v].google # None => users[v].google # users[w].google
    BY DEF IInv, RowsAreUnique
  <2> QED
    BY <2>1, <2>2, <2>3, <2>4
<1>7. /\ \A t \in Requests : t # r => pc'[t] = pc[t] /\ req'[t] = req[t]
      /\ \/ pc'[r] = "done"
         \/ pc[r] = "verifying" /\ pc'[r] = "rehashing" /\ req'[r] = req[r]
  BY DEF IInv, TypeOK, Answer
<1>8. RequestsFit' /\ RowsReadStay'
  <2>1. \A t \in Requests : t # r => (holder[t] = None => holder'[t] = None)
    BY <1>2
  <2>2. RequestsFit'
    BY <1>3, <1>7, <2>1 DEF IInv, RequestsFit, Waiting
  <2>3. \A t \in Requests : req[t].account \in Users \cup {None}
    BY DEF IInv, TypeOK, Request
  <2>4. RowsReadStay'
    BY <1>1, <1>7, <2>3 DEF IInv, RowsReadStay
  <2> QED
    BY <2>2, <2>4
<1>9. HoldersAreThere'
  BY <1>1, <1>2, <1>3 DEF IInv, TypeOK, HoldersAreThere
<1>10. OwnersAreThere'
  BY <1>1 DEF IInv, TypeOK, OwnersAreThere, ChatsFolded, Answer
<1>11. SessionsFitTheirAddress'
  BY <1>1, <1>2, <1>3
  DEF IInv, TypeOK, SessionsFitTheirAddress, RowsReadStay, RequestsFit, Answer, Call
<1> QED
  BY <1>4, <1>5, <1>6, <1>8, <1>9, <1>10, <1>11 DEF IInv

\* Each way a handler goes on after its wait.
LEMMA AnswersKeepIInv ==
    ASSUME IInv, NEW r \in Requests, Answers(r) PROVE IInv'
<1> USE AccountsAssumption
<1>0. pc[r] \in Waiting => req[r].browser \in Browsers
  BY DEF IInv, TypeOK, Request, RequestsFit
<1>1. CASE Registered(r)
  <2>1. PICK u \in Users :
            /\ RowFor(r, u)
            /\ users' = [users EXCEPT ![u] = NewAccount(req[r].email, None, "argon2id")]
            /\ Answer(r, u, holder)
    BY <1>1 DEF Registered
  <2>2. req[r].email \in Emails /\ pc[r] = "hashing" /\ ~Taken(req[r].email)
    BY <1>1 DEF Registered, IInv, TypeOK, Request, RequestsFit
  <2> QED
    BY <1>0, <1>1, <2>1, <2>2, NewAccountKeepsIInv DEF Registered, Hashes, Waiting
<1>2. CASE RegisterFails(r) \/ LoginFails(r) \/ GoogleFails(r)
  <2>1. Refuse(r) /\ pc[r] \in {"hashing", "verifying", "google"}
    BY <1>2 DEF RegisterFails, LoginFails, GoogleFails
  <2>2. TypeOK'
    BY <2>1 DEF Refuse, IInv, TypeOK, Request, NoRequest, Call, Waiting, Hashes
  <2>3. (IdentitiesAreOfAccounts /\ RowsAreUnique /\ OwnersAreThere /\ HoldersAreThere)'
    BY <2>1 DEF Refuse, IInv, IdentitiesAreOfAccounts, RowsAreUnique, OwnersAreThere,
       HoldersAreThere
  <2>4. (RequestsFit /\ RowsReadStay /\ SessionsFitTheirAddress)'
    BY <2>1
    DEF Refuse, IInv, TypeOK, RequestsFit, RowsReadStay, SessionsFitTheirAddress, Waiting
  <2> QED
    BY <2>2, <2>3, <2>4 DEF IInv
<1>3. CASE LoggedIn(r)
  <2>0. req[r].account \in Users
    BY <1>3 DEF LoggedIn, IInv, TypeOK, Request
  <2> PICK u \in Users : u = req[r].account
    BY <2>0
  <2>1. u \in Users /\ users[u].kind = "account" /\ pc[r] = "verifying"
    BY <1>3 DEF LoggedIn, IInv, RowsReadStay
  <2> DEFINE guests == Absorbed(r, u)
  <2>2. \A g \in guests : g \in Users /\ g # u
    BY <2>1, AbsorbedIsAGuest
  <2>3. users' = Delete(guests) /\ owner' = ChatsFolded(guests, u)
    BY <1>3 DEF LoggedIn
  <2>4. users' \in [Users -> Row]
    BY <2>3 DEF Delete, NoRow, Row, Hashes, IInv, TypeOK
  <2>5. /\ \A v \in guests : users'[v] = NoRow("deleted")
        /\ \A v \in Users \ guests : users'[v] = users[v]
    BY <2>2, <2>3 DEF Delete
  <2>6. \A v \in Users : v # u /\ users'[u].google # None =>
            users[v].google # users'[u].google
    BY <2>1, <2>2, <2>5 DEF IInv, RowsAreUnique
  <2>7. \/ Answer(r, u, SessionsLeft(guests))
        \/ /\ pc' = [pc EXCEPT ![r] = "rehashing"]
           /\ holder' = SessionsLeft(guests)
           /\ UNCHANGED <<pin, req, opener>>
    BY <1>3 DEF LoggedIn
  <2> QED
    BY <1>0, <2>1, <2>3, <2>4, <2>5, <2>6, <2>7, FoldKeepsIInv DEF Waiting
<1>4. CASE Rehashed(r)
  <2> DEFINE u == req[r].account
  <2>1. u \in Users /\ users[u].kind = "account" /\ users[u].email = req[r].email
    BY <1>4 DEF Rehashed, IInv, TypeOK, Request, RowsReadStay, RequestsFit
  <2>2. users' = [users EXCEPT ![u].hash = "argon2id"] /\ Answer(r, u, holder)
        /\ UNCHANGED owner /\ pc[r] = "rehashing"
    BY <1>4 DEF Rehashed
  <2>3. users' \in [Users -> Row]
        /\ \A v \in Users : users'[v].kind = users[v].kind
              /\ users'[v].email = users[v].email /\ users'[v].google = users[v].google
    BY <2>1, <2>2 DEF IInv, TypeOK, Row, Hashes
  <2> HIDE DEF u
  <2>4. TypeOK'
    BY <1>0, <2>1, <2>2, <2>3 DEF Answer, Call, Request, Hashes, IInv, TypeOK, Waiting
  <2>5. (IdentitiesAreOfAccounts /\ RowsAreUnique)'
    BY <2>3 DEF IInv, IdentitiesAreOfAccounts, RowsAreUnique
  <2>6. (RequestsFit /\ RowsReadStay)'
    BY <2>2, <2>3 DEF Answer, Call, IInv, TypeOK, Request, RequestsFit, RowsReadStay, Waiting
  <2>7. (HoldersAreThere /\ OwnersAreThere)'
    BY <2>1, <2>2, <2>3 DEF Answer, IInv, TypeOK, HoldersAreThere, OwnersAreThere
  <2>8. SessionsFitTheirAddress'
    BY <2>1, <2>2, <2>3 DEF Answer, Call, IInv, TypeOK, SessionsFitTheirAddress
  <2> QED
    BY <2>4, <2>5, <2>6, <2>7, <2>8 DEF IInv
<1>5. ASSUME NEW s \in Subs, NEW e \in Emails, Verified(r, s, e)
      PROVE  IInv'
  <2>0. pc[r] = "google"
    BY <1>5 DEF Verified
  <2>1. ASSUME NEW u \in Users, Joins(r, u, s), users[u].kind = "account",
               \A v \in Users : v # u => users[v].google # s
        PROVE  IInv'
    <3>1. \A g \in Absorbed(r, u) : g \in Users /\ g # u
      BY AbsorbedIsAGuest
    <3>2. users' = [Delete(Absorbed(r, u)) EXCEPT ![u].google = s]
          /\ owner' = ChatsFolded(Absorbed(r, u), u)
          /\ Answer(r, u, SessionsLeft(Absorbed(r, u)))
      BY <2>1 DEF Joins
    <3>3. /\ Delete(Absorbed(r, u)) \in [Users -> Row]
          /\ \A v \in Absorbed(r, u) : Delete(Absorbed(r, u))[v] = NoRow("deleted")
          /\ \A v \in Users \ Absorbed(r, u) : Delete(Absorbed(r, u))[v] = users[v]
      BY <3>1 DEF Delete, NoRow, Row, Hashes, IInv, TypeOK
    <3>4. /\ users' \in [Users -> Row] /\ users'[u].google = s
          /\ \A v \in Absorbed(r, u) : users'[v] = NoRow("deleted")
          /\ \A v \in Users \ Absorbed(r, u) :
               /\ users'[v].kind = users[v].kind
               /\ users'[v].email = users[v].email
               /\ users'[v].google = users[v].google \/ v = u
      BY <3>1, <3>2, <3>3 DEF Row
    <3>5. \A v \in Users : v # u /\ users'[u].google # None =>
              users[v].google # users'[u].google
      BY <2>1, <3>4
    <3>6. req[r].browser \in Browsers /\ Answer(r, u, SessionsLeft(Absorbed(r, u)))
          /\ owner' = ChatsFolded(Absorbed(r, u), u)
      BY <1>0, <2>0, <3>2 DEF Waiting
    <3>7. users[u].kind = "account"
      BY <2>1
    <3> QED
      BY <2>0, <3>4, <3>5, <3>6, <3>7, FoldKeepsIInv
  <2>2. ASSUME NEW u \in Users, users[u].google = s, Joins(r, u, s)
        PROVE  IInv'
    <3>1. users[u].kind = "account"
      BY <2>2 DEF IInv, IdentitiesAreOfAccounts
    <3>2. \A v \in Users : v # u => users[v].google # s
      BY <2>2 DEF IInv, RowsAreUnique
    <3> QED
      BY <2>1, <2>2, <3>1, <3>2
  <2>3. ASSUME NEW u \in Users, users[u].email = e, Joins(r, u, s),
               \A v \in Users : users[v].google # s
        PROVE  IInv'
    <3>1. users[u].kind = "account"
      BY <2>3 DEF IInv, IdentitiesAreOfAccounts
    <3> QED
      BY <2>1, <2>3, <3>1
  <2>4. ASSUME NEW u \in Users, RowFor(r, u), Answer(r, u, holder), UNCHANGED owner,
               users' = [users EXCEPT ![u] = NewAccount(e, s, "none")],
               \A v \in Users : users[v].google # s /\ users[v].email # e
        PROVE  IInv'
    BY <1>0, <2>0, <2>4, NewAccountKeepsIInv DEF Taken, Hashes, Waiting
  <2> QED
    BY <1>5, <2>2, <2>3, <2>4 DEF Verified
<1> QED
  BY <1>1, <1>2, <1>3, <1>4, <1>5 DEF Answers

\* The invariant is inductive.
LEMMA NextIInv == IInv /\ [Next]_vars => IInv'
<1> SUFFICES ASSUME IInv, [Next]_vars PROVE IInv'
  OBVIOUS
<1> USE AccountsAssumption
<1>1. ASSUME NEW b \in Browsers, NEW k \in Presented, NEW r \in Requests,
             GuestCall(r, b, k) \/ SignIn(r, b, CurrentGuest(b, k))
      PROVE  IInv'
  BY <1>1, GuestsRead, GuestKeepsIInv, BeginKeepsIInv
<1>2. ASSUME NEW b \in Browsers, NEW k \in Presented, Logout(b, k)
      PROVE  IInv'
  <2>1. TypeOK'
    BY <1>2 DEF Logout, IInv, TypeOK
  <2>2. (IdentitiesAreOfAccounts /\ RowsAreUnique /\ RowsReadStay /\ OwnersAreThere)'
    BY <1>2
    DEF Logout, IInv, IdentitiesAreOfAccounts, RowsAreUnique, RowsReadStay, OwnersAreThere
  <2>3. (RequestsFit /\ HoldersAreThere /\ SessionsFitTheirAddress)'
    BY <1>2 DEF Logout, IInv, RequestsFit, HoldersAreThere, SessionsFitTheirAddress
  <2> QED
    BY <2>1, <2>2, <2>3 DEF IInv
<1>3. ASSUME NEW k \in Requests, Expire(k)
      PROVE  IInv'
  <2>1. TypeOK'
    BY <1>3 DEF Expire, IInv, TypeOK
  <2>2. (IdentitiesAreOfAccounts /\ RowsAreUnique /\ RowsReadStay /\ OwnersAreThere)'
    BY <1>3
    DEF Expire, IInv, IdentitiesAreOfAccounts, RowsAreUnique, RowsReadStay, OwnersAreThere
  <2>3. (RequestsFit /\ HoldersAreThere /\ SessionsFitTheirAddress)'
    BY <1>3 DEF Expire, IInv, TypeOK, RequestsFit, HoldersAreThere, SessionsFitTheirAddress
  <2> QED
    BY <2>1, <2>2, <2>3 DEF IInv
<1>4. ASSUME NEW b \in Browsers, ForgetPin(b)
      PROVE  IInv'
  BY <1>4
  DEF ForgetPin, IInv, TypeOK, IdentitiesAreOfAccounts, RowsAreUnique, RowsReadStay,
      OwnersAreThere, RequestsFit, HoldersAreThere, SessionsFitTheirAddress
<1>5. ASSUME NEW b \in Browsers, NEW k \in Presented, ChatCall(b, k)
      PROVE  IInv'
  <2>1. PICK c \in Chats : OpenChat(c, b, k) \/ RemoveChat(c, b, k)
    BY <1>5 DEF ChatCall
  <2>2. ReadUser(b, k) # None =>
            ReadUser(b, k) \in Users /\ users[ReadUser(b, k)].kind \in {"guest", "account"}
    BY DEF ReadUser, VerifyToken, Pinned, IsGuest, Presented, IInv, TypeOK, HoldersAreThere
  <2>3. TypeOK'
    BY <2>1, <2>2 DEF OpenChat, RemoveChat, IInv, TypeOK
  <2>4. OwnersAreThere'
    BY <2>1, <2>2 DEF OpenChat, RemoveChat, IInv, TypeOK, OwnersAreThere
  <2>5. UNCHANGED <<users, holder, pin, pc, req>>
    BY <2>1 DEF OpenChat, RemoveChat
  <2> QED
    BY <2>3, <2>4, <2>5
    DEF IInv, IdentitiesAreOfAccounts, RowsAreUnique, RowsReadStay, RequestsFit,
        HoldersAreThere, SessionsFitTheirAddress
<1>6. CASE Restart
  <2>1. TypeOK'
    BY <1>6 DEF Restart, IInv, TypeOK, Request, NoRequest, Call, Waiting, Hashes
  <2>2. (IdentitiesAreOfAccounts /\ RowsAreUnique /\ OwnersAreThere /\ HoldersAreThere)'
    BY <1>6 DEF Restart, IInv, IdentitiesAreOfAccounts, RowsAreUnique, OwnersAreThere,
       HoldersAreThere
  <2>3. (RequestsFit /\ RowsReadStay /\ SessionsFitTheirAddress)'
    BY <1>6
    DEF Restart, IInv, TypeOK, RequestsFit, RowsReadStay, SessionsFitTheirAddress, Waiting
  <2> QED
    BY <2>1, <2>2, <2>3 DEF IInv
<1>7. CASE UNCHANGED vars
  BY <1>7
  DEF vars, IInv, TypeOK, IdentitiesAreOfAccounts, RowsAreUnique, RowsReadStay,
      OwnersAreThere, RequestsFit, HoldersAreThere, SessionsFitTheirAddress
<1> QED
  BY <1>1, <1>2, <1>3, <1>4, <1>5, <1>6, <1>7, AnswersKeepIInv DEF Next

\* The invariant holds in every state.
LEMMA SpecIInv == Spec => []IInv
  BY InitIInv, NextIInv, PTL DEF Spec

-----------------------------------------------------------------------------

\* Every state is well typed.
THEOREM TypeCorrect == Spec => []TypeOK
<1>1. IInv => TypeOK
  BY DEF IInv
<1> QED
  BY <1>1, SpecIInv, PTL

\* No two rows share an address or a Google identity, whatever sign-ins race for them.
THEOREM RowsAreUniqueAlways == Spec => []RowsAreUnique
<1>1. IInv => RowsAreUnique
  BY DEF IInv
<1> QED
  BY <1>1, SpecIInv, PTL

\* The account a login has read does not go away while the login waits.
THEOREM RowsReadAreKept == Spec => []RowsReadStay
<1>1. IInv => RowsReadStay
  BY DEF IInv
<1> QED
  BY <1>1, SpecIInv, PTL

\* A token issued for an address stands for the account with that address.
THEOREM TokensFitTheirAddress == Spec => []SessionsFitTheirAddress
<1>1. IInv => SessionsFitTheirAddress
  BY DEF IInv
<1> QED
  BY <1>1, SpecIInv, PTL

-----------------------------------------------------------------------------
(* Steps of sign-ins.                                                       *)

\* A sign-in to the row of an account deletes the guest it absorbs and nothing else.
Folds(r, u) ==
    /\ users[u].kind = "account"
    /\ \A v \in Absorbed(r, u) : users'[v].kind = "deleted"
    /\ \A v \in Users \ Absorbed(r, u) : users'[v].kind = users[v].kind
    /\ owner' = ChatsFolded(Absorbed(r, u), u)
    /\ req'[r].guest = req[r].guest
    /\ UNCHANGED opener

\* A sign-up makes an account of the guest's row, or of a new one.
Promotes(r, u) ==
    /\ RowFor(r, u)
    /\ users'[u].kind = "account"
    /\ \A v \in Users \ {u} : users'[v] = users[v]
    /\ req'[r].guest = req[r].guest
    /\ UNCHANGED <<owner, opener>>

\* Joining a row of an account is a fold.
LEMMA JoinsFolds ==
    ASSUME IInv, NEW r \in Requests, NEW u \in Users, NEW s \in Subs,
           users[u].kind = "account", Joins(r, u, s)
    PROVE  Folds(r, u)
<1>1. \A g \in Absorbed(r, u) : g \in Users /\ g # u
  BY AbsorbedIsAGuest
<1>2. /\ users' = [Delete(Absorbed(r, u)) EXCEPT ![u].google = s]
      /\ owner' = ChatsFolded(Absorbed(r, u), u)
      /\ req'[r].guest = req[r].guest
      /\ UNCHANGED opener
  BY DEF Joins, Answer, Call, IInv, TypeOK
<1>3. /\ Delete(Absorbed(r, u)) \in [Users -> Row]
      /\ \A v \in Absorbed(r, u) : Delete(Absorbed(r, u))[v].kind = "deleted"
      /\ \A v \in Users \ Absorbed(r, u) : Delete(Absorbed(r, u))[v] = users[v]
  BY <1>1, AccountsAssumption DEF Delete, NoRow, Row, Hashes, IInv, TypeOK
<1>4. \A v \in Users : users'[v].kind = Delete(Absorbed(r, u))[v].kind
  BY <1>2, <1>3 DEF Row
<1> QED
  BY <1>1, <1>2, <1>3, <1>4 DEF Folds

\* A handler that goes on folds, promotes, or leaves rows and chats as they are: then it
\* was refused, or had folded before it renewed a hash.
LEMMA AnswerSteps ==
    ASSUME IInv, NEW r \in Requests, Answers(r)
    PROVE  /\ \A t \in Requests : t # r => pc'[t] = pc[t]
           /\ \/ \E u \in Users : Folds(r, u) \/ Promotes(r, u)
              \/ /\ UNCHANGED <<owner, opener>>
                 /\ pc'[r] = "refused" \/ pc[r] = "rehashing"
<1> USE AccountsAssumption
<1>1. CASE Registered(r)
  BY <1>1 DEF Registered, Answer, Call, Promotes, NewAccount, IInv, TypeOK
<1>2. CASE RegisterFails(r) \/ LoginFails(r) \/ GoogleFails(r)
  BY <1>2 DEF RegisterFails, LoginFails, GoogleFails, Refuse, IInv, TypeOK
<1>3. CASE LoggedIn(r)
  <2>1. PICK u \in Users : u = req[r].account
    BY <1>3 DEF LoggedIn, IInv, TypeOK, Request
  <2>2. users[u].kind = "account"
    BY <1>3, <2>1 DEF LoggedIn, IInv, RowsReadStay
  <2>3. /\ users' = Delete(Absorbed(r, u))
        /\ owner' = ChatsFolded(Absorbed(r, u), u)
        /\ req'[r].guest = req[r].guest
        /\ UNCHANGED opener
    BY <1>3, <2>1 DEF LoggedIn, Answer, Call, IInv, TypeOK
  <2>4. /\ \A v \in Absorbed(r, u) : users'[v].kind = "deleted"
        /\ \A v \in Users \ Absorbed(r, u) : users'[v].kind = users[v].kind
    BY <2>3, AbsorbedIsAGuest DEF Delete, NoRow
  <2>5. \A t \in Requests : t # r => pc'[t] = pc[t]
    BY <1>3 DEF LoggedIn, Answer, IInv, TypeOK
  <2> QED
    BY <2>2, <2>3, <2>4, <2>5 DEF Folds
<1>4. CASE Rehashed(r)
  BY <1>4 DEF Rehashed, Answer, IInv, TypeOK
<1>5. ASSUME NEW s \in Subs, NEW e \in Emails, Verified(r, s, e)
      PROVE  /\ \A t \in Requests : t # r => pc'[t] = pc[t]
             /\ \E u \in Users : Folds(r, u) \/ Promotes(r, u)
  <2>1. ASSUME NEW u \in Users, users[u].google = s \/ users[u].email = e, Joins(r, u, s)
        PROVE  Folds(r, u) /\ \A t \in Requests : t # r => pc'[t] = pc[t]
    <3>1. users[u].kind = "account"
      BY <2>1 DEF IInv, IdentitiesAreOfAccounts
    <3>2. \A t \in Requests : t # r => pc'[t] = pc[t]
      BY <2>1 DEF Joins, Answer, IInv, TypeOK
    <3> QED
      BY <2>1, <3>1, <3>2, JoinsFolds
  <2>2. ASSUME NEW u \in Users, RowFor(r, u), Answer(r, u, holder), UNCHANGED owner,
               users' = [users EXCEPT ![u] = NewAccount(e, s, "none")]
        PROVE  Promotes(r, u) /\ \A t \in Requests : t # r => pc'[t] = pc[t]
    BY <2>2 DEF Promotes, Answer, Call, NewAccount, IInv, TypeOK
  <2> QED
    BY <1>5, <2>1, <2>2 DEF Verified
<1> QED
  BY <1>1, <1>2, <1>3, <1>4, <1>5 DEF Answers

\* A fold or a promotion leaves no guest behind, but for two chats by one key.
LEMMA GuestIsTaken ==
    ASSUME IInv, NEW r \in Requests, NEW u \in Users, Folds(r, u) \/ Promotes(r, u)
    PROVE  \/ ~IsGuest(req[r].guest)'
           \/ users[u].kind = "account" /\ Clash(req[r].guest, u)
<1> USE AccountsAssumption
<1> DEFINE g == req[r].guest
<1>1. IsGuest(g)' => g \in Users /\ users'[g].kind = "guest"
  <2>1. g' = g
    BY DEF Folds, Promotes
  <2>2. IsGuest(g)' => g' \in Users /\ users'[g'].kind = "guest"
    BY DEF IsGuest
  <2> QED
    BY <2>1, <2>2
<1>2. CASE Folds(r, u)
  <2>1. CASE g \in Absorbed(r, u)
    BY <1>1, <1>2, <2>1 DEF Folds
  <2>2. CASE g \notin Absorbed(r, u) /\ g \in Users
    <3>1. users'[g].kind = users[g].kind
      BY <1>2, <2>2 DEF Folds
    <3>2. users[g].kind # "guest" \/ g = u \/ Clash(g, u)
      BY <2>2 DEF Absorbed, IsGuest
    <3> QED
      BY <1>1, <1>2, <3>1, <3>2 DEF Folds
  <2> QED
    BY <1>1, <2>1, <2>2
<1>3. CASE Promotes(r, u)
  <2>1. users'[u].kind = "account" /\ \A v \in Users \ {u} : users'[v] = users[v]
    BY <1>3 DEF Promotes
  <2>2. g \in Users /\ users[g].kind = "guest" => u = g
    BY <1>3 DEF Promotes, RowFor, IsGuest
  <2> QED
    BY <1>1, <2>1, <2>2
<1> QED
  BY <1>2, <1>3

\* A sign-in that succeeds takes its guest along (absorbGuest, the promotions).
THEOREM GuestsAreTaken == Spec => SignInTakesTheGuest
<1> DEFINE Taking ==
        \A r \in Requests :
          pc[r] \in {"hashing", "verifying", "google"} /\ pc'[r] \in {"rehashing", "done"} =>
              \/ ~IsGuest(req[r].guest)'
              \/ \E u \in Users : users[u].kind = "account" /\ Clash(req[r].guest, u)
<1>1. IInv /\ [Next]_vars => Taking
  <2> SUFFICES ASSUME IInv, [Next]_vars, NEW r \in Requests,
                      pc[r] \in {"hashing", "verifying", "google"},
                      pc'[r] \in {"rehashing", "done"}
               PROVE  \/ ~IsGuest(req[r].guest)'
                      \/ \E u \in Users :
                            users[u].kind = "account" /\ Clash(req[r].guest, u)
    OBVIOUS
  <2>1. ASSUME NEW t \in Requests, Answers(t)
        PROVE  t = r /\ \E u \in Users : Folds(r, u) \/ Promotes(r, u)
    BY <2>1, AnswerSteps
  <2>2. ASSUME NEW t \in Requests, NEW b \in Browsers, NEW k \in Presented,
               GuestCall(t, b, k) \/ SignIn(t, b, CurrentGuest(b, k))
        PROVE  FALSE
    BY <2>2
    DEF GuestCall, ResumeGuest, CreateGuest, SignIn, Register, Login, Google, Begin, IInv, TypeOK
  <2>3. ASSUME NEW b \in Browsers, NEW k \in Presented, Logout(b, k) \/ ChatCall(b, k)
        PROVE  FALSE
    BY <2>3 DEF Logout, ChatCall, OpenChat, RemoveChat
  <2>4. CASE (\E k \in Requests : Expire(k)) \/ (\E b \in Browsers : ForgetPin(b))
             \/ UNCHANGED vars
    BY <2>4 DEF Expire, ForgetPin, vars
  <2>5. CASE Restart
    BY <2>5 DEF Restart, IInv, TypeOK, Waiting
  <2> QED
    BY <2>1, <2>2, <2>3, <2>4, <2>5, GuestIsTaken DEF Next
<1> QED
  BY <1>1, SpecIInv, PTL DEF Spec, SignInTakesTheGuest

-----------------------------------------------------------------------------
(* Owners.                                                                  *)

\* Every step is one of ChatOwner or leaves the owners alone, and only a removal, which
\* touches no row of users, takes a chat from its owner.
LEMMA OwnerSteps ==
    ASSUME IInv, [Next]_vars
    PROVE  \/ UNCHANGED <<owner, opener>>
           \/ \E c \in Chats, u \in Users : Owners!Open(c, u)
           \/ \E g, u \in Users : Owners!SignIn(g, u)
           \/ UNCHANGED users /\ \E c \in Chats : Owners!Remove(c)
<1> USE AccountsAssumption
<1>1. ASSUME NEW r \in Requests, NEW u \in Users, Folds(r, u)
      PROVE  UNCHANGED <<owner, opener>> \/ \E g \in Users : Owners!SignIn(g, u)
  <2>1. CASE Absorbed(r, u) = {}
    BY <1>1, <2>1 DEF Folds, ChatsFolded, IInv, TypeOK
  <2>2. CASE Absorbed(r, u) = {req[r].guest}
    <3>1. PICK g \in Users : g = req[r].guest /\ users[g].kind = "guest"
      BY <2>2, AbsorbedIsAGuest
    <3>2. \A c \in Chats : owner[c] = g => opener[c] = g
      BY <3>1 DEF IInv, OwnersAreThere
    <3>3. owner' = [c \in Chats |-> IF owner[c] = g THEN u ELSE owner[c]]
      BY <1>1, <2>2, <3>1 DEF Folds, ChatsFolded
    <3> QED
      BY <1>1, <3>2, <3>3 DEF Folds, Owners!SignIn
  <2> QED
    BY <2>1, <2>2, AbsorbedIsAGuest
<1>2. ASSUME NEW r \in Requests, Answers(r)
      PROVE  UNCHANGED <<owner, opener>> \/ \E g, u \in Users : Owners!SignIn(g, u)
  BY <1>1, <1>2, AnswerSteps DEF Promotes
<1>3. ASSUME NEW b \in Browsers, NEW k \in Presented, ChatCall(b, k)
      PROVE  \/ \E c \in Chats, u \in Users : Owners!Open(c, u)
             \/ UNCHANGED users /\ \E c \in Chats : Owners!Remove(c)
  <2>1. ReadUser(b, k) \in Users \cup {None}
    BY DEF ReadUser, VerifyToken, Pinned, IsGuest, Presented, IInv, TypeOK
  <2>2. PICK c \in Chats : OpenChat(c, b, k) \/ RemoveChat(c, b, k)
    BY <1>3 DEF ChatCall
  <2>3. CASE OpenChat(c, b, k)
    BY <2>1, <2>3 DEF OpenChat, Owners!Open
  <2>4. CASE RemoveChat(c, b, k)
    BY <2>1, <2>4 DEF RemoveChat, Owners!Remove, IInv, TypeOK
  <2> QED
    BY <2>2, <2>3, <2>4
<1>4. ASSUME NEW t \in Requests, NEW b \in Browsers, NEW k \in Presented,
             \/ GuestCall(t, b, k)
             \/ SignIn(t, b, CurrentGuest(b, k))
             \/ Logout(b, k)
      PROVE  UNCHANGED <<owner, opener>>
  BY <1>4
  DEF GuestCall, ResumeGuest, CreateGuest, SignIn, Register, Login, Google, Begin, Logout
<1>5. ASSUME \/ \E k \in Requests : Expire(k)
             \/ \E b \in Browsers : ForgetPin(b)
             \/ Restart
             \/ UNCHANGED vars
             \/ \E b \in Browsers, k \in Presented : Logout(b, k)
      PROVE  UNCHANGED <<owner, opener>>
  BY <1>5 DEF Expire, ForgetPin, Restart, Logout, vars
<1> QED
  BY <1>2, <1>3, <1>4, <1>5 DEF Next

\* A chat leaves its owner for nobody only when it is removed: no deleted row takes one
\* along (absorbGuest).
THEOREM NoChatLost == Spec => NoChatIsLost
<1>1. IInv /\ [Next]_vars =>
          \A c \in Chats : owner[c] \in Users /\ owner'[c] \notin Users => users' = users
  <2> SUFFICES ASSUME IInv, [Next]_vars, NEW c \in Chats,
                      owner[c] \in Users, owner'[c] \notin Users
               PROVE  users' = users
    OBVIOUS
  <2>1. CASE \E d \in Chats, u \in Users : Owners!Open(d, u)
    BY <2>1 DEF Owners!Open, IInv, TypeOK
  <2>2. CASE \E g, u \in Users : Owners!SignIn(g, u)
    BY <2>2 DEF Owners!SignIn
  <2> QED
    BY <2>1, <2>2, OwnerSteps
<1> QED
  BY <1>1, SpecIInv, PTL DEF Spec, NoChatIsLost

\* Accounts implements ChatOwner: a chat moves at most once, with its guest.
THEOREM AccountsKeepChatOwner == Spec => ChatsMoveOnce
<1>1. Init => Owners!Init
  BY DEF Init, Owners!Init
<1>2. IInv /\ [Next]_vars => [Owners!Next]_<<owner, opener>>
  <2> SUFFICES ASSUME IInv, [Next]_vars PROVE [Owners!Next]_<<owner, opener>>
    OBVIOUS
  <2> QED
    BY OwnerSteps DEF Owners!Next
<1> QED
  BY <1>1, <1>2, SpecIInv, PTL DEF Spec, ChatsMoveOnce, Owners!Spec
=============================================================================
