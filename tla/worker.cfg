CONSTANTS
    r1 = r1
    r2 = r2
    r3 = r3
    fare = fare
    newFare = newFare
    captcha = captcha
    login = login

    Runs <- SomeRuns
    Limit = 1
    MaxActions = 2
    MaxRequests = 2
    NetLimit = 1
    Pages <- SomePages
    Walls <- SomeWalls
    Gates <- SomeGates
    UrlOf <- Urls
    Shows <- AllPages
    Choices <- AnyAction
    Scenarios <- AloneOrTwo
SPECIFICATION FairSpec
CHECK_DEADLOCK FALSE
INVARIANT WorkerCapacity
INVARIANT VerdictMeansClosed
PROPERTY NothingSentAfterABlock
PROPERTY ObservedWasOnThePage
PROPERTY PlacesComeBack
