SPECIFICATION Spec
CONSTANTS
    Period = 2
    Grace = 20
    MaxTime = 30
CHECK_DEADLOCK FALSE

PROPERTIES FailingIsMarkedDead
