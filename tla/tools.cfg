CONSTANTS
    MaxTools = 3
    Rounds = 5
    Limited <- Web
    CallLimit = 2
    Strangers <- OneStranger
    Arguments <- SomeArguments
    Batches <- SomeBatches
    Texts <- SomeTexts
SPECIFICATION Spec
CHECK_DEADLOCK FALSE
INVARIANT LimitsHold
INVARIANT DeadToolsRest
INVARIANT CallsAreAnswered
