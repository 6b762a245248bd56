\* Every failure the environment can inject, and one crash of the process.
CONSTANTS
    k1 = k1
    k2 = k2
    k3 = k3
    Keys <- MCKeys
    NoKey = NoKey
    MaxID = 4
    MaxCrashes = 1
    MaxClose = 2
    Faults = {"dm", "mkfs", "commit", "crash", "close"}
SYMMETRY MCSymmetry
SPECIFICATION Spec
INVARIANT AncestorsPresent
\* Close is the snapshotter's last operation; after it nothing is enabled.
CHECK_DEADLOCK FALSE
