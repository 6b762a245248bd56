------------------------------ MODULE VsockCID ------------------------------
(***************************************************************************)
(* The guest-CID allocator of the VM boot (src/runtime/service.go,         *)
(* findNextAvailableVsockCID and the steps of startVM that use its         *)
(* result), for several shim processes on one host.                        *)
(*                                                                         *)
(* The host's vhost-vsock driver keeps one CID per open vhost fd: the      *)
(* VHOST_VSOCK_SET_GUEST_CID ioctl fails with EADDRINUSE when another fd   *)
(* holds the CID, and closing the fd gives the CID back.  The allocator    *)
(* scans upwards from 3 on its own fd and returns the first CID the ioctl  *)
(* accepts; the deferred file.Close then releases it.  Firecracker takes   *)
(* the CID again on its own vhost fd when machine.Start configures the     *)
(* vsock device, and keeps it until the VMM is stopped.                    *)
(*                                                                         *)
(* Who holds a CID is not a variable: it is read off the shims' phases.    *)
(***************************************************************************)
EXTENDS Naturals

CONSTANTS
    Shims,  \* shim processes booting a VM on this host (model values)
    MaxCID, \* maxCID: the scan stops when contextID reaches it
    Faults  \* the failures the environment may inject

\* CIDs 0, 1 and 2 are reserved (startCID in the code).
StartCID == 3

\* MaxCID is a natural number not below StartCID, and Faults a subset of
\* {"open", "ioctl", "cancel"}.

\* The values the loop variable contextID takes.
CIDs == StartCID..MaxCID

\* idle: before startVM; scan: in the ioctl loop with the vhost fd open;
\* reserved: the ioctl succeeded, the fd is not yet closed; allocated:
\* findNextAvailableVsockCID returned; running: the VM holds the CID.
Phases == {"idle", "scan", "reserved", "allocated", "running", "failed",
           "stopped"}

VARIABLES
    pc,        \* where each shim is in startVM
    contextID, \* the scan's loop variable, per shim
    cid        \* the CID findNextAvailableVsockCID returned (0 = none)

vars == <<pc, contextID, cid>>

\* The shims whose open vhost fd is bound to c: a scan between its
\* successful ioctl and file.Close, or a running VM.
Holders(c) == {s \in Shims : pc[s] \in {"reserved", "running"} /\ cid[s] = c}

InUse(c) == Holders(c) # {}

Init ==
    /\ pc = [s \in Shims |-> "idle"]
    /\ contextID = [s \in Shims |-> StartCID]
    /\ cid = [s \in Shims |-> 0]

\* os.OpenFile("/dev/vhost-vsock"): on error startVM returns it.
OpenDevice(s) ==
    /\ pc[s] = "idle"
    /\ \/ pc' = [pc EXCEPT ![s] = "scan"]
       \/ "open" \in Faults /\ pc' = [pc EXCEPT ![s] = "failed"]
    /\ UNCHANGED <<contextID, cid>>

\* One iteration of the loop: ctx.Done() aborts it; otherwise the ioctl
\* succeeds on a free CID, fails with EADDRINUSE on a held one (continue),
\* or fails with another errno (return the error).
Ioctl(s) ==
    /\ pc[s] = "scan"
    /\ contextID[s] < MaxCID
    /\ \/ "cancel" \in Faults /\ pc' = [pc EXCEPT ![s] = "failed"]
          /\ UNCHANGED <<contextID, cid>>
       \/ ~InUse(contextID[s])
          /\ pc' = [pc EXCEPT ![s] = "reserved"]
          /\ cid' = [cid EXCEPT ![s] = contextID[s]]
          /\ UNCHANGED contextID
       \/ InUse(contextID[s])
          /\ contextID' = [contextID EXCEPT ![s] = @ + 1]
          /\ UNCHANGED <<pc, cid>>
       \/ "ioctl" \in Faults /\ pc' = [pc EXCEPT ![s] = "failed"]
          /\ UNCHANGED <<contextID, cid>>

\* The loop runs out of CIDs: "couldn't find any available vsock context id".
Exhausted(s) ==
    /\ pc[s] = "scan"
    /\ contextID[s] = MaxCID
    /\ pc' = [pc EXCEPT ![s] = "failed"]
    /\ UNCHANGED <<contextID, cid>>

\* return uint32(contextID): the deferred file.Close releases the CID.
ReturnCID(s) ==
    /\ pc[s] = "reserved"
    /\ pc' = [pc EXCEPT ![s] = "allocated"]
    /\ UNCHANGED <<contextID, cid>>

\* machine.Start: firecracker configures its vsock device with the CID;
\* the driver refuses a CID another fd holds and Start fails.
MachineStart(s) ==
    /\ pc[s] = "allocated"
    /\ pc' = [pc EXCEPT ![s] = IF InUse(cid[s]) THEN "failed" ELSE "running"]
    /\ UNCHANGED <<contextID, cid>>

\* stopVM: the VMM exits and its vhost fd, with the CID, is closed.
StopVM(s) ==
    /\ pc[s] = "running"
    /\ pc' = [pc EXCEPT ![s] = "stopped"]
    /\ UNCHANGED <<contextID, cid>>

Next ==
    \E s \in Shims :
        \/ OpenDevice(s) \/ Ioctl(s) \/ Exhausted(s)
        \/ ReturnCID(s) \/ MachineStart(s) \/ StopVM(s)

Spec == Init /\ [][Next]_vars

-----------------------------------------------------------------------------
TypeOK ==
    /\ pc \in [Shims -> Phases]
    /\ contextID \in [Shims -> CIDs]
    /\ cid \in [Shims -> {0} \cup CIDs]

\* Spec 8.6: CID allocation returns distinct values across concurrent
\* allocators -- no two shims that findNextAvailableVsockCID has answered,
\* and whose VM is not yet gone, were given the same CID.
DistinctCIDs ==
    \A s, t \in Shims :
        /\ s # t
        /\ pc[s] \in {"reserved", "allocated", "running"}
        /\ pc[t] \in {"reserved", "allocated", "running"}
        => cid[s] # cid[t]

=============================================================================
