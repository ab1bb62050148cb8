SPECIFICATION Spec
CONSTANTS
    HeaderName = {"x", "y"}
    WordBytes <- MCWordBytes
    HexBytes <- MCHexBytes
    Number <- MCNumber
    Class <- MCClass
    Rewritten <- MCRewritten
    Holes <- MCHoles
    Heavy = {"big"}
    ChunkSize = 2
    U16Max = 2
    TemplateSets <- MCTemplateSets
    SetLimit = 2
    U32Max = 100
    Fold <- MCFold
    Responses <- MCResponses
INVARIANTS
    ScanIsExact
    TextAgreesWithScan
