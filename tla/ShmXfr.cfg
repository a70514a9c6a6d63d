CONSTANT NumBlocks = 4
SPECIFICATION FairSpec
INVARIANTS Exclusive ObjectsOutliveReader
PROPERTIES BothFinish ImplementsTransfer
CHECK_DEADLOCK FALSE
