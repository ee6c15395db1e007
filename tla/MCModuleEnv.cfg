CONSTANTS
    x = x
    y = y
    v = v
    vf = vf
    Unassigned = Unassigned
    Names = {x, y}
    Underscored = {x}
    LoadReexport = TRUE
    Values = {v, vf}
    FrameNames <- MCFrameNames
    FrozenValue = vf
    FrozenSymbols = {y}
    MaxActs = 6
    MaxCalls = 4
    MaxTree = 1
SPECIFICATION Spec
INVARIANTS SlotsDistinct RunningHasSlots InlinedIsCurrent
PROPERTIES DebugPutsBack LocalsKept
CHECK_DEADLOCK FALSE
