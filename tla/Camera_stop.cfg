SPECIFICATION CamFairSpec
CONSTANT CameraBudgets <- OneStop
PROPERTY StopHonoured
CHECK_DEADLOCK FALSE
