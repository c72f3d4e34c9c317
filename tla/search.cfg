CONSTANTS
    h1 = h1
    h2 = h2

    Currencies <- TwoCurrencies
    PerSearch = 3
    PerMonth = 5
    SampleDays <- Samples
    Today = 5
    Attempts = 2
    Hosts <- TwoHosts
    Installs <- SomeInstalls
    Said <- SomeSaid
    Bodies <- SomeBodies
    MaxSearches = 2
SPECIFICATION FairSpec
CHECK_DEADLOCK FALSE
INVARIANT OffersAreCounted
INVARIANT NoSourceCrowdsOut
INVARIANT ShownIsQuoted
INVARIANT RefusalIsToldOnce
PROPERTY SearchIsTold
