CONSTANT Cases <- MCCases
SPECIFICATION ConfigSpec
CHECK_DEADLOCK FALSE
INVARIANTS
    HighestWins
    ExplicitHostsWin
