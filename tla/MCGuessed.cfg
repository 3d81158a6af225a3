CONSTANTS
    d1 = d1
    d2 = d2
    rate = "covenant_leverage_max"
    cap = "leverage"
    NoDeal = NoDeal
    Decision = Decision
    File = {3}
    Deal = {d1, d2}
    Attribute = {"covenant_leverage_max", "leverage"}
    Occurred <- OccurredThen
    Identifier <- IdentifierOf
    Folder <- FolderOf
    Aliases <- AliasesIn
    Finds <- FoundIn
    LastTime = 3
    MaxPasses = 1
    MaxCrashes = 0
    ScopeOf <- ScopeThere
    Value <- Numbers
    Alphabet <- InOrder
    Relevance <- RelevanceThere
    Nearness <- NearnessThere
    Limit = 1
    Budget = 14
    FactSize = 4
    ComputationSize = 2
    PassageSize = 3
    Question <- Questions
    Reviewed <- AsReviewed
SPECIFICATION Spec
INVARIANT QuarantineIsNotGuessed
CHECK_DEADLOCK FALSE
