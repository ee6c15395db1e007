CONSTANTS
    NSlots = 2
    MaxObjs = 3
    MaxLen = 1
SPECIFICATION FairSpec
INVARIANTS FrozenHeapComplete FrozenGraphPreserved DefsCompleted FailsOnlyOnNoFreeze
PROPERTY FreezeTerminates
