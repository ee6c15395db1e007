CONSTANTS
    File = {f1, f2}
    Line = {1}
    MaxDepth = 3
    MaxStmts = 4
    MaxReqs = 4
SPECIFICATION FairSpec
INVARIANTS NoReentrantStop
PROPERTIES PlainBreakpointStops StepNotOvershot StepNotEarly
PROPERTIES RequestEnds SetBreakpointsReturns DroppedAdapterReleasesEval
