CONSTANTS
    MaxRows = 4
    MaxEpoch = 4
    Cap = 2
    AwaitCap = 1
    MaxRetries = 1
SPECIFICATION Spec
INVARIANTS TypeOK OneLiveRow
PROPERTIES StartupRecovers
CHECK_DEADLOCK FALSE
