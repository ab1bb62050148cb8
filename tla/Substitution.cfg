SPECIFICATION MCSpec
CONSTANTS
    Target = {"a", "b"}
    TemplateId <- MCTemplateId
    Var <- MCVar
    Value <- MCValue
    Declared <- MCDeclared
    Locals <- MCLocals
    Inputs <- MCInputs
    MaxExports = 1
    MAX_SUBSTITUTIONS = 3
INVARIANT StateTypeOK
INVARIANT CacheMatchesExports
INVARIANT NothingLeft
INVARIANT PlainIsSimultaneous
PROPERTY ImplementsStore
PROPERTY SubstitutionTerminates
