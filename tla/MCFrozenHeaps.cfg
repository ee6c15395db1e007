CONSTANTS
    Heap = {h1, h2, h3}
SPECIFICATION HeapsFairSpec
INVARIANTS NoDanglingFrozenValue OwnerKeepsValueAlive NoReferenceCycle
PROPERTIES AllFreedInTheEnd
CHECK_DEADLOCK FALSE
