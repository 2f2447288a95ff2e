CONSTANTS
    Catalog <- MCCatalog
    CodeOrder <- MCCodeOrder
    Literal <- MCLiteral
    Blocking <- MCBlocking
    Techs <- MCTechs
    CorePatterns <- MCCorePatterns
    ProjectPatterns <- MCProjectPatterns
    SecTitle = "secops"
    SecDuty = {"run"}
    Periods <- MCPeriods
    OpenPeriods <- MCOpenPeriods
    Sections = {"Employment"}
    RowMarks = {"role"}
    TitleKey <- MCTitleKey
    Numbered = {"1. Loans"}
    Activities = {"SQL tuning"}
    StatusWords <- MCStatusWords
    Null = Null
    DocType <- MCDocType
    Anchors <- MCAnchors
    Collation <- MCCollation
    Tables <- MCTables
    Texts <- MCTexts
    CoreAnswers <- MCCoreAnswers
    ProjectAnswers <- MCProjectAnswers
    Chunks = 2
SPECIFICATION CandidateSpec
CHECK_DEADLOCK FALSE
INVARIANT ClaimsAreQuoted
INVARIANT MergeIgnoresOrder
INVARIANT NothingIsLost
