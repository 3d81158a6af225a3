CONSTANTS
    r1 = r1
    r2 = r2
    r3 = r3
    r4 = r4
    s1 = s1
    s2 = s2
    s3 = s3
    agent = agent
    maya = maya
    omar = omar
    NoOne = NoOne
    Row = {r1, r2, r3, r4}
    Worker = {agent, maya, omar}
    Person = {maya, omar}
    Maya = maya
    Requester = maya
    HumanCheck = {r1, r4}
    Owner <- Everyone
    EscalationTo <- ToMaya
    Approver <- MayaOrThem
    Blocker <- AfterWork
    EvidenceKind = {}
    Required <- NoReport
    Verdict <- FirstRouted
    MaxAttempts <- Two
    Slot = {s1, s2}
    MaxPresses = 2
    MaxPressed = 1
    MaxEdits = 0
    MaxTyped = 0
    MaxSweeps = 1
    Deadlined = {r1}
    Revocable = {agent}
    Holder = {agent}
    MaxToggles = 0
    MaxCalls = 0
    MaxActs = 2
    MaxPasses = 4
    ApprovedBy <- OmarToo
SPECIFICATION SpecRehearsed
INVARIANTS QuietMeansResting RetriesAreBounded WaitingIsWatched DecisionsAreKnown RehearsalBreaksNothing
CHECK_DEADLOCK FALSE
