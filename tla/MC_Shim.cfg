\* One caller, as containerd drives a shim, with failing machine creation,
\* vsock dials and agent calls.
CONSTANTS
    c1 = c1
    c2 = c2
    Callers = {c1}
    MaxVMs = 2
    Faults = {"new", "dial", "agent"}
SPECIFICATION Spec
INVARIANT RunningIsMachine
 
INVARIANT NoVMOutlivesShutdown
\* The shim really stops: os.Exit ends every step.
CHECK_DEADLOCK FALSE
