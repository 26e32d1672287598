SPECIFICATION FanoutSpec
CONSTANTS
    Nodes = {"n1", "n2", "n3"}
    Replicated = {"r"}
    Unreplicated = {"a"}
    Lagging = TRUE
    PublishBudgets <- FanoutBudgets
INVARIANT PublishedEverywhere
CHECK_DEADLOCK FALSE
