CONSTANTS
    ana = ana
    bob = bob
    bot = bot
    bot2 = bot2
    eve = eve
    fay = fay
    Outsider = {eve, fay}
    Member <- MembershipOf
    Worker = {ana, bob, bot, bot2}
    Person = {ana, bob}
    Maya = ana
    NoOne = NoOne
    Column <- Columns
    ColumnType <- Types
    ColumnOwner <- Owners
    ColumnFormula <- Formulas
    OpeningColumns <- Columns0
    OpeningRecords <- Records0
    OpeningContracts <- Contracts0
    OpeningLog <- Log0
    FormulaValue <- EvaluateFormula
    Today = 10
    Call = {1,2,3,4,5,6,7,8,9,10,11,12,13,14,15,16,17,18,19,20,21,22,23,24,25,26,27,28,29,30,31,32,33}
    Scene <- Scenes
    Request <- Requests
    CaptureSources = {"mail", "file_drop", "form", "voice_jot"}
    Rule <- Rules4
    Meaning <- SheetMeaning
    RuleMeans <- Means
SPECIFICATION Spec
INVARIANTS DecisionsHold NothingCapturedIsLost ContractedIsAnnounced GrantsTraceToMembers
PROPERTIES FormulasFollow AgentKeepsEdits
