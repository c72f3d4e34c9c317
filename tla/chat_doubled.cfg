CONSTANTS
    MaxPosts = 1
    MaxWords = 2
    Scripts <- OneSend
SPECIFICATION LiveSpec
CHECK_DEADLOCK FALSE
INVARIANT LiveReplyIsTheTurns
