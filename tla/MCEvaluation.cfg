CONSTANTS
    Def = {def}
    Native = {native}
    None = None
    NoFrame = NoFrame
    DefaultSize = 3
    Sizes = {0, 2, 4}
    NativeEvals = TRUE
    MaxModules = 3
SPECIFICATION Spec
INVARIANTS StackMirrorsNative FrameIsLive NoGcInDebugger
