SPECIFICATION Spec
CONSTANT MaxWindows = 1
INVARIANT HandedOverOnce
CHECK_DEADLOCK FALSE
