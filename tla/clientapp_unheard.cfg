SPECIFICATION Spec
CONSTANT MaxWindows = 2
PROPERTY NeedPipelineAnswered
CHECK_DEADLOCK FALSE
