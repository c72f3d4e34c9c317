CONSTANTS
    Texts <- ThreeTexts
    MaxSends = 1
    MaxExpiries = 1
    MaxGuests = 3
    MaxRefreshes = 1
    MaxOthers = 1
SPECIFICATION FairSpec
CHECK_DEADLOCK FALSE
INVARIANT ASendIsStoredOnce
INVARIANT GuestsFollowExpiry
PROPERTY TranscriptNeverGoesBack
PROPERTY SentTextIsSomewhere
PROPERTY SendSettles
