CONSTANTS
    r1 = r1
    r2 = r2
    r3 = r3
    r4 = r4
    s1 = s1
    s2 = s2
    s3 = s3
    agent = agent
    maya = maya
    omar = omar
    NoOne = NoOne
    Row = {r1}
    Worker = {agent, maya, omar}
    Person = {maya, omar}
    Maya = maya
    Requester = maya
    HumanCheck = {r1}
    Owner <- ByAgent
    EscalationTo <- ToMaya
    Approver <- OnlyMaya
    Blocker <- Joined
    EvidenceKind = {"report"}
    Required <- Report
    Verdict <- Silent
    MaxAttempts <- One
    Slot = {s1, s2}
    MaxPresses = 1
    MaxPressed = 1
    MaxEdits = 1
    MaxTyped = 1
    MaxSweeps = 0
    Deadlined = {r1}
    Revocable = {agent}
    Holder = {agent}
    MaxToggles = 2
    MaxCalls = 2
    MaxActs = 3
SPECIFICATION Spec
INVARIANTS QuietMeansResting RevokedIsAtRest
CHECK_DEADLOCK FALSE
