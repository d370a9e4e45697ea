SPECIFICATION FairLoopSpec
CONSTANTS
    Request <- MCRequest
    MaxIndex = 2
    Limit = 3
    Top = 6
    ShownWords = 11
INVARIANTS
    LoopTypeOK
    NoneIsTrue
    ClearUnlessBlocked
PROPERTIES
    AgentsGetBlocked
