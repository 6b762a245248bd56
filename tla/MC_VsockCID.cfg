\* Two shims boot at once; no injected failures.
CONSTANTS
    s1 = s1
    s2 = s2
    Shims <- MCShims
    MaxCID = 5
    Faults = {}
SYMMETRY MCSymmetry
SPECIFICATION Spec
INVARIANT DistinctCIDs
\* Every shim ends with its VM stopped or its boot failed.
CHECK_DEADLOCK FALSE
