\* One caller, no failures; monitorState ticks are weakly fair.
CONSTANTS
    c1 = c1
    c2 = c2
    Callers = {c1}
    MaxVMs = 2
    Faults = {}
SPECIFICATION FairSpec
PROPERTY MonitorsEnd
\* The shim really stops: os.Exit ends every step.
CHECK_DEADLOCK FALSE
