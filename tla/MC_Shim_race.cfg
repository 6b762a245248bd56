\* Two concurrent Create calls, no failures.
CONSTANTS
    c1 = c1
    c2 = c2
    Callers = {c1, c2}
    MaxVMs = 2
    Faults = {}
SPECIFICATION Spec
INVARIANT NoVMOutlivesShutdown
\* The shim really stops: os.Exit ends every step.
CHECK_DEADLOCK FALSE
