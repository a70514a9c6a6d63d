CONSTANTS
    Kids = {1, 2, 3}
    Orphan = 9
    childPrograms = {"simple_init"}
INIT ChildrenInit
NEXT ChildrenNext
INVARIANT PauseEnds
CHECK_DEADLOCK FALSE
