\* Only a failing mkfs.ext4.
CONSTANTS
    k1 = k1
    k2 = k2
    k3 = k3
    Keys <- MCKeys
    NoKey = NoKey
    MaxID = 4
    MaxCrashes = 0
    MaxClose = 2
    Faults = {"mkfs"}
SYMMETRY MCSymmetry
SPECIFICATION Spec
\* Close is the snapshotter's last operation; after it nothing is enabled.
CHECK_DEADLOCK FALSE
INVARIANT NextIdUnused
