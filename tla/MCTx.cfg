CONSTANTS
    r1 = r1
    r2 = r2
    t1 = t1
    t2 = t2
    t3 = t3
    t4 = t4
    t5 = t5
    agent = agent
    maya = maya
    Nothing = Nothing
    LastTime = 0
    MaxDeaths = 1
    Row = {r1, r2}
    Worker = {maya}
    Person = {maya}
    HumanCheck = {}
    Approver <- OnlyMaya
    Blocker <- Waits
    EvidenceKind = {"report"}
    Required <- Report
    Verdict <- SecondRouted
    Tx = {t1, t2, t3, t4, t5}
    Call <- RowCalls
SPECIFICATION Spec
INVARIANTS ChainsVerify NoLostAttempt
PROPERTIES Promise EveryCallEnds
