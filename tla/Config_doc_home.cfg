CONSTANT Cases <- HomeInDotenvCases
SPECIFICATION ConfigSpec
CHECK_DEADLOCK FALSE
INVARIANT HighestWins
