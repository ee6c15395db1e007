CONSTANTS
    ParamNames <- MCParamNames
    OtherName = "z"
    NotAString = "number"
    MaxParams = 4
    MaxArgs = 3
SPECIFICATION Spec
INVARIANTS SpecFollowsList BindsByTheRules
CHECK_DEADLOCK FALSE
