CONSTANTS
    DocBound = 3
    PageBound = 3
    Overhead = 1
    OutputDivisor = 4
    SafetyDivisor = 8
    RowsPerWindow = 2
    Sources <- MCSources
    Windows = {4, 8, 16}
    PromptUnits = 6
    VlmPages = 1
    CoreCalls = 3
    CoreDepth = 2
    ProjectCalls = 5
    ProjectDepth = 2
SPECIFICATION Spec
INVARIANT WholeSourceRead
INVARIANT NeverOutOfCalls
PROPERTY ExtractionSettles
CHECK_DEADLOCK FALSE
