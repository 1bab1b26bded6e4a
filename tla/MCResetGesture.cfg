SPECIFICATION Spec
CONSTANTS
    MaxExternal = 6
    MaxFailures = 2
INVARIANTS GestureIsPhysical
PROPERTIES GestureSticks RecoveryCompletes
