SPECIFICATION Spec
CONSTANTS
    Letter <- MCLetter
    MaxInt = 11
    Upper <- MCUpper
    MaxString = 4
    MaxEmptyReplace = 2
    Expression <- BodyZero
    Context <- Shadowed
CHECK_DEADLOCK FALSE
INVARIANT BuiltInsComeFirst
