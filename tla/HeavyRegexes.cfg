SPECIFICATION CompileSpec
CONSTANTS
    HeaderName = {"x", "y"}
    WordBytes <- MCWordBytes
    HexBytes <- MCHexBytes
    Number <- MCNumber
    Class <- MCClass
    Rewritten <- MCRewritten
    Holes <- MCHoles
    Heavy = {"big"}
    ChunkSize = 2
    U16Max = 2
    TemplateSets <- WithHeavyRegexes
    SetLimit = 1
    U32Max = 100
INVARIANTS
    RegexesAreScanned
