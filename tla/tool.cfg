CONSTANTS
    Library <- MCLibrary
    NanCount <- MCNanCount
    ProgramLimits <- MCProgramLimits
    Hash = 5
    Random = 7
    Digits = 2
    Names = {"a", "b"}
    Documents = {"d", "e"}
    Writable = {"d"}
    Lines <- MCLines
    Samples <- MCSamples
    MinStart = 10
    MaxTime = 14
    MaxLines = 7
    Characters = {"a", "space", "quote", "apostrophe", "newline"}
    MaxCharacters = 6
    Nodes <- MCNodes
    MaxNodes = 4
SPECIFICATION MCSpec
INVARIANTS TwinsAgree Linked LineFits CalcIsTree
CHECK_DEADLOCK FALSE
