CONSTANTS
    r1 = r1
    r2 = r2
    r3 = r3
    r4 = r4
    s1 = s1
    s2 = s2
    s3 = s3
    agent = agent
    maya = maya
    omar = omar
    NoOne = NoOne
    Row = {r1, r2, r3}
    Worker = {agent, maya}
    Person = {maya}
    Maya = maya
    Requester = maya
    HumanCheck = {}
    Owner <- ByAgent
    EscalationTo <- ToMaya
    Approver <- OnlyMaya
    Blocker <- Joined
    EvidenceKind = {}
    Required <- NoReport
    Verdict <- Silent
    MaxAttempts <- Two
    Slot = {s1, s2, s3}
    MaxPresses = 2
    MaxPressed = 0
    MaxEdits = 0
    MaxTyped = 0
    MaxSweeps = 0
    Deadlined = {}
    Revocable = {agent}
    Holder = {agent}
    MaxToggles = 0
    MaxCalls = 0
    MaxActs = 1
SPECIFICATION Spec
INVARIANTS RetriesAreBounded
CHECK_DEADLOCK FALSE
