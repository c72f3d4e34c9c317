CONSTANTS
    c1 = c1
    flight = flight
    stay = stay
    o1 = o1
    o2 = o2

    Chats <- OneChat
    Tasks <- OneChatTasks
    Offers <- TwoOffers
    ChatOf <- OneChatOf
    DeskOf <- TwoDeskOf
    MaxRuns = 2
    CanRestart = TRUE
SPECIFICATION FairSpec
CHECK_DEADLOCK FALSE
INVARIANT FinishOwnsTheDesk
INVARIANT NothingOutlivesItsChat
INVARIANT ConfirmedMeansHeld
PROPERTY KeepsPromise
PROPERTY LateObservationsAreDropped
PROPERTY EveryDeskReports
