CONSTANTS
    r1 = r1
    r2 = r2
    t1 = t1
    t2 = t2
    t3 = t3
    t4 = t4
    t5 = t5
    agent = agent
    maya = maya
    Nothing = Nothing
    LastTime = 3
    MaxDeaths = 1
    Row = {r1}
    Worker = {agent, maya}
    Person = {maya}
    HumanCheck = {}
    Approver <- OnlyMaya
    Blocker <- Waits
    EvidenceKind = {}
    Required <- NoReport
    Verdict <- Silent
    Tx = {t1, t2}
    Call <- TwoCalls
SPECIFICATION Spec
INVARIANT ReplayIsAPrefix
