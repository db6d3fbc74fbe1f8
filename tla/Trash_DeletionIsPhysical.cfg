CONSTANT Backends = {"App"}
SPECIFICATION Spec
INVARIANT DeletionIsPhysical
CHECK_DEADLOCK FALSE
