CONSTANTS
    Texts <- OneText
    MaxSends = 1
    MaxExpiries = 0
    MaxGuests = 1
    MaxRefreshes = 0
    MaxOthers = 0
SPECIFICATION FairSpec
CHECK_DEADLOCK FALSE
PROPERTY StoppedTextIsHandedBack
