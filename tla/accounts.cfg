CONSTANTS
    u1 = u1
    u2 = u2
    u3 = u3
    e1 = e1
    e2 = e2
    e3 = e3
    s1 = s1
    b1 = b1
    r1 = r1
    r2 = r2
    r3 = r3
    r4 = r4
    c1 = c1
    c2 = c2
    None = None

    Users <- SomeUsers
    Emails <- SomeEmails
    Subs <- OneSub
    Browsers <- OneBrowser
    Requests <- SomeRequests
    Chats <- TwoChats
    KeyOf <- OneKey
    Settlers <- OneSettler
    AddressOf <- FirstAddress
SPECIFICATION Spec
SYMMETRY Alike
CHECK_DEADLOCK FALSE
INVARIANT RowsAreUnique
INVARIANT SessionsFitTheirAddress
PROPERTY SignInTakesTheGuest
PROPERTY ChatsMoveOnce
