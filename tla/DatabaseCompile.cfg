SPECIFICATION CompileSpec
CONSTANTS
    HeaderName = {"x", "y"}
    WordBytes <- MCWordBytes
    HexBytes <- MCHexBytes
    Number <- MCNumber
    Class <- MCClass
    Rewritten <- MCRewritten
    Holes <- MCHoles
    Heavy = {"big"}
    ChunkSize = 2
    U16Max = 2
    TemplateSets <- Slices
    SetLimit = 2
    U32Max = 9
INVARIANTS
    TypeOK
    AttributionExact
    RefsInTemplateOrder
    NothingDropped
    FailsClosed
    RegexesAreScanned
