\* Device-mapper and mkfs failures; the bolt commit succeeds.  The RPC
\* holding the transaction runs on (weak fairness of its steps).
CONSTANTS
    k1 = k1
    k2 = k2
    k3 = k3
    Keys <- MCKeys
    NoKey = NoKey
    MaxID = 4
    Faults = {"dm", "mkfs"}
SPECIFICATION FairSpec
PROPERTY SnapshotStoreSpec
PROPERTY CreatedHasDevice
PROPERTY TxEnds
