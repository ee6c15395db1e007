CONSTANTS
    Programs <- MCPrograms
    CallValues <- MCCallValues
    Captured <- MCCaptured
    Locals = 4
    Params = 1
    ListLen = 2
SPECIFICATION Spec
INVARIANTS MatchesSource SlotsReadAreSet IteratorsBalanced
PROPERTY Terminates
