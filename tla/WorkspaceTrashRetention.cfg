\* The sweep's choice, made before it has the lock.
SPECIFICATION Spec
CONSTANT MaxStrays = 0
PROPERTY RetentionIsKept
CHECK_DEADLOCK FALSE
