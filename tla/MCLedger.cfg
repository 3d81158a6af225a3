CONSTANTS
    r1 = r1
    r2 = r2
    agent = agent
    maya = maya
    Row = {r1, r2}
    Worker = {agent, maya}
    Person = {maya}
    HumanCheck = {r1}
    Approver <- OnlyMaya
    Blocker <- Waits
    EvidenceKind = {"report"}
    Required <- Report
    Verdict <- SecondRouted
    MaxMoves <- FiveAndFour
    Key <- Keys
    Given <- Plan
    Definition <- Workflows
    Output <- Mails
SPECIFICATION SceneSpec
INVARIANTS ChainLinked SettledIsProven StartedBehindVerified
PROPERTIES Promise MailLeavesApproved
