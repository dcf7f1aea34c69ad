CONSTANTS
    Workers = {w1, w2}
    MaxMsgs = 4
SPECIFICATION Spec
INVARIANTS OneWrite NoLostWakeup
PROPERTY ImplementsMailboxes
