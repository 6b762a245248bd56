\* The bolt commit may fail; complete() still answers nil.
CONSTANTS
    k1 = k1
    k2 = k2
    k3 = k3
    Keys <- MCKeys
    NoKey = NoKey
    MaxID = 4
    Faults = {"commit"}
SPECIFICATION Spec
PROPERTY SnapshotStoreSpec
