\* One caller, no failures; other RPCs may arrive during Create.
CONSTANTS
    c1 = c1
    c2 = c2
    Callers = {c1}
    MaxVMs = 2
    Faults = {}
SPECIFICATION Spec
INVARIANT NoVMOutlivesShim
\* The shim really stops: os.Exit ends every step.
CHECK_DEADLOCK FALSE
