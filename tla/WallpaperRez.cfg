SPECIFICATION Spec
INVARIANTS DrawRezIsLikeDraw
CHECK_DEADLOCK FALSE
