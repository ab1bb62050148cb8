SPECIFICATION Spec
CONSTANTS
    Requests <- MCRequests
    Loadable <- MCLoadable
    Malformed = Malformed
    Target <- MCTarget
    Kind <- MCKind
    Tag <- MCTag
    NoTarget = NoTarget
    LowerCase <- MCLowerCase
CHECK_DEADLOCK FALSE
INVARIANTS
    CorrelationTypeOK
    OneRulePerId
    RulesAreLoaded
    CorrelationsExact
PROPERTY MatchesOnlyGrow
