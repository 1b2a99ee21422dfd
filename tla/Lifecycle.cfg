SPECIFICATION Spec
CONSTANT MaxSignals = 4
CHECK_DEADLOCK FALSE
INVARIANT CleanReturn
PROPERTY StoppedIsFinal
