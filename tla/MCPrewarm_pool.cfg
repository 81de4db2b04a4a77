SPECIFICATION FairSpec
CONSTANTS
    Sels = {a, b}
    Hashes <- Contents
    None = None
    MaxWorkers = 3
    MaxEpoch = 3
    MaxChanges = 1
INVARIANTS PoolSafe
PROPERTIES TakesFresh PoolServes
CHECK_DEADLOCK FALSE
