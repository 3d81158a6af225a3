CONSTANTS
    m1 = m1
    m2 = m2
    day = day
    leads = leads
    five = five
    watch = watch
    again = again
    list = list
    w1 = w1
    w2 = w2
    maya = maya
    ann = ann
    ben = ben
    cat = cat
    NoWorker = NoWorker
    NoOwner = NoOwner
    Message = {m1, m2, day, leads, five, watch, again, list}
    Worker = {w1}
    MaxTries <- TriesOf
    Limit = 2
    MaxCrashes = 0
    Words <- LengthOf
    Intents <- Patterns
    FamilyWords <- Families
    Staff <- Workers
    Ask <- Asks
    Library <- Workflows
    Entities = 2
    MaxPlans = 2
    MaxEdits = 4
    Pressed = {watch}
    Scenes <- Two
SPECIFICATION SpecPlanning
INVARIANT FailedHasFailed
CHECK_DEADLOCK FALSE
