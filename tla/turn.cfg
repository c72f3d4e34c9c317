CONSTANTS
    t1 = t1
    t2 = t2
    c1 = c1
    c2 = c2

    Turns <- TwoTurns
    Scenes <- AloneOrTwo
    Chats <- TwoChats
    Places <- SomePlaces
    Rounds = 3
    MaxTools = 2
    TaskDelay = 1
    MaxLive = 1
SPECIFICATION FairSpec
CHECK_DEADLOCK FALSE
INVARIANT ScreenIsTheReply
INVARIANT EffectsComeWithAReply
INVARIANT NothingOutlivesItsChat
INVARIANT NoReplyAfterAFailure
INVARIANT RunningTurnIsVisible
PROPERTY EveryTurnEnds
