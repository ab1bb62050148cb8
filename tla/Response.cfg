SPECIFICATION Spec
CONSTANTS
    Tokens <- MCTokens
    MaxInflated = 3
    Documents <- MCDocuments
    LowerCase <- MCLowerCase
    Readable <- MCReadable
    Requests <- MCRequests
CHECK_DEADLOCK FALSE
INVARIANT DecodingIsAccountedFor
INVARIANT LastExtractorWins
INVARIANT SpellingsAgree
INVARIANT SubstitutionIsSimultaneous
INVARIANT ComparisonSurvives
