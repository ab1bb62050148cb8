SPECIFICATION Spec
CONSTANTS
    Letter <- MCLetter
    MaxInt = 11
    Upper <- MCUpper
    MaxString = 4
    MaxEmptyReplace = 2
    Expression <- MCExpression
    Context <- MCContext
CHECK_DEADLOCK FALSE
INVARIANT LexingIsFaithful
INVARIANT ParsesTheGrammar
INVARIANT EvaluationIsMeaning
INVARIANT ModestExpressionsAreEvaluated
INVARIANT ChargedOnce
INVARIANT BudgetLimitsGrowth
