CONSTANTS
    c1 = c1
    flight = flight
    stay = stay
    o1 = o1
    o2 = o2

    Chats <- OneChat
    Tasks <- OneChatTasks
    Offers <- TwoOffers
    ChatOf <- OneChatOf
    DeskOf <- TwoDeskOf
    MaxRuns = 2
    CanRestart = TRUE
SPECIFICATION Spec
CHECK_DEADLOCK FALSE
INVARIANT NoFakeWorkingDesk
