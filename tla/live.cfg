CONSTANTS
    MaxPosts = 2
    MaxWords = 2
    Scripts <- OneOrTwoSends
SPECIFICATION FairLiveSpec
CHECK_DEADLOCK FALSE
INVARIANT HeardStaysOnTheCard
PROPERTY FloorShowsTheTurn
