CONSTANT MaxMsgs = 5
SPECIFICATION Spec
INVARIANT NoLostWakeup
PROPERTY ImplementsMailbox
CHECK_DEADLOCK FALSE
