------------------------------ MODULE ShimProofs ------------------------------
(***************************************************************************)
(* Proofs about the task-service model Shim (src/runtime/service.go).      *)
(*                                                                         *)
(* The safety properties of the shim hold only when Create calls do not    *)
(* overlap: two Creates that both read agentStarted = FALSE let the second *)
(* replace s.machine while the first VM runs (MC_Shim_race.cfg).           *)
(* containerd sends one Create per shim, so the theorems below take a      *)
(* single caller c0 as their hypothesis; they also exclude a failing       *)
(* machine.Start that fails after spawning firecracker: startVM returns   *)
(* without stopVM, and that process runs on.                              *)
(***************************************************************************)
EXTENDS Shim, TLAPS

USE ShimAssumption

(* The boot in progress: the steps between Create's read of agentStarted   *)
(* and startVM's return.                                                    *)
Booting == {"newmachine", "vmstart", "dial"}

(* Inductive strengthening of RunningIsMachine, FailedBootLeavesNoVM and  *)
(* NoVMOutlivesShutdown.  A caller in startVM saw agentStarted = FALSE,    *)
(* and nothing resets it; one at the agent's Create has seen it set.  No   *)
(* VM runs while a caller that has not started the agent is idle, creates  *)
(* its machine or starts it: the boot before it failed and stopped (or     *)
(* never started) its VM.                                                  *)
BootInv ==
    /\ TypeOK
    /\ Running \subseteq {machine}
    /\ shim = "exited" => Running = {}
    /\ \A c \in Callers :
           /\ pc[c] \in Booting => ~agentStarted
           /\ pc[c] = "create" => agentStarted
           /\ pc[c] \in {"idle", "newmachine", "vmstart"} /\ ~agentStarted
                  => Running = {}

-----------------------------------------------------------------------------
(* An update of a function at any point -- in its domain or not, as when  *)
(* the nil agentClient (0) indexes task -- keeps it in its function set.   *)
LEMMA ExceptType ==
    ASSUME NEW S, NEW T, NEW f \in [S -> T], NEW x, NEW v \in T
    PROVE  [f EXCEPT ![x] = v] \in [S -> T]
<1>1. CASE x \in S
    BY <1>1
<1>2. CASE x \notin S
    <2>1. [f EXCEPT ![x] = v] = f
        BY <1>2
    <2>2. QED
        BY <2>1
<1>3. QED
    BY <1>1, <1>2

LEMMA ExceptType2 ==
    ASSUME NEW S, NEW U, NEW T, NEW f \in [S -> [U -> T]], NEW x, NEW y,
           NEW v \in T
    PROVE  [f EXCEPT ![x][y] = v] \in [S -> [U -> T]]
<1>1. CASE x \in S
    <2>1. [f[x] EXCEPT ![y] = v] \in [U -> T]
        BY <1>1, ExceptType
    <2>2. QED
        BY <1>1, <2>1
<1>2. CASE x \notin S
    <2>1. [f EXCEPT ![x][y] = v] = f
        BY <1>2
    <2>2. QED
        BY <2>1
<1>3. QED
    BY <1>1, <1>2

(* stopVM leaves every firecracker process in one of its three states.     *)
LEMMA StopVMType ==
    ASSUME TypeOK, NEW ok, StopVM(ok)
    PROVE  vm' \in [VMIdx -> {"none", "running", "stopped"}]
<1>1. CASE vm[machine] = "running"
    <2>1. vm' = [vm EXCEPT ![machine] = "stopped"]
        BY <1>1 DEF StopVM
    <2>2. QED
        BY <2>1, ExceptType DEF TypeOK
<1>2. CASE vm[machine] # "running"
    BY <1>2 DEF StopVM, TypeOK
<1>3. QED
    BY <1>1, <1>2

LEMMA ShimTypeInit == Init => TypeOK
<1> SUFFICES ASSUME Init PROVE TypeOK
    OBVIOUS
<1>1. 0 \in 0..MaxVMs
    OBVIOUS
<1>2. task \in [VMIdx -> [Procs -> ProcState]]
    BY DEF Init, ProcState
<1>3. mon \in [Mons -> MonState] /\ monCtx \in [Mons -> 0..MaxVMs]
    BY <1>1 DEF Init, MonState
<1>4. pc \in [Callers -> CallerPC] /\ own \in [Callers -> 0..MaxVMs]
    BY <1>1 DEF Init, CallerPC
<1>5. QED
    BY <1>1, <1>2, <1>3, <1>4 DEF Init, TypeOK

(* Every step of the service keeps the state well typed.                   *)
LEMMA ShimTypeStep == TypeOK /\ [Next]_vars => TypeOK'
<1> SUFFICES ASSUME TypeOK, [Next]_vars PROVE TypeOK'
    OBVIOUS
<1>1. ASSUME NEW c \in Callers, CreateBegin(c) PROVE TypeOK'
    BY <1>1 DEF CreateBegin, TypeOK, CallerPC
<1>2. ASSUME NEW c \in Callers, NewMachine(c) PROVE TypeOK'
    BY <1>2 DEF NewMachine, TypeOK, CallerPC
<1>3. ASSUME NEW c \in Callers, VMStart(c) PROVE TypeOK'
    <2>1. CASE machine = 0
        BY <1>3, <2>1 DEF VMStart, Panic, PanicCore, TypeOK
    <2>2. CASE machine # 0
        <3>1. [vm EXCEPT ![machine] = "running"] \in [VMIdx -> {"none", "running", "stopped"}]
            BY ExceptType DEF TypeOK
        <3>2. vm' \in [VMIdx -> {"none", "running", "stopped"}]
            BY <1>3, <2>2, <3>1 DEF VMStart, TypeOK
        <3>3. pc' \in [Callers -> CallerPC]
            BY <1>3, <2>2 DEF VMStart, TypeOK, CallerPC
        <3>4. UNCHANGED <<agentStarted, client, machine, nvm, task, ctx,
                          cancelled, mon, monCtx, exits, shim, own, serving>>
            BY <1>3, <2>2 DEF VMStart
        <3>5. QED
            BY <3>2, <3>3, <3>4 DEF TypeOK
    <2>3. QED
        BY <2>1, <2>2
<1>4. ASSUME NEW c \in Callers, Dial(c) PROVE TypeOK'
    <2>1. CASE vm[own[c]] = "running" /\ client' = own[c] /\ agentStarted' = TRUE
               /\ pc' = [pc EXCEPT ![c] = "create"]
               /\ UNCHANGED <<vm, machine, nvm, task, ctx, cancelled, mon,
                              monCtx, exits, shim, own, serving>>
        BY <2>1 DEF TypeOK, CallerPC
    <2>2. CASE Panic
        BY <2>2 DEF Panic, PanicCore, TypeOK
    <2>3. CASE /\ \E ok \in BOOLEAN : StopVM(ok)
               /\ pc' = [pc EXCEPT ![c] = "idle"]
               /\ UNCHANGED <<client, agentStarted, machine, nvm, task, ctx,
                              cancelled, mon, monCtx, exits, shim, own, serving>>
        <3>1. vm' \in [VMIdx -> {"none", "running", "stopped"}]
            BY <2>3, StopVMType
        <3>2. QED
            BY <2>3, <3>1 DEF TypeOK, CallerPC
    <2>4. QED
        BY <1>4, <2>1, <2>2, <2>3 DEF Dial
<1>5. ASSUME NEW c \in Callers, CreateTask(c) PROVE TypeOK'
    <2>0. [task EXCEPT ![client]["init"] = "created"] \in [VMIdx -> [Procs -> ProcState]]
        BY ExceptType2 DEF TypeOK, ProcState
    <2>1. task' \in [VMIdx -> [Procs -> ProcState]]
        BY <1>5, <2>0 DEF CreateTask, TypeOK
    <2>2. pc' \in [Callers -> CallerPC] /\ ctx' \in 0..MaxVMs
        BY <1>5 DEF CreateTask, TypeOK, CallerPC
    <2>3. UNCHANGED <<agentStarted, client, machine, vm, nvm, cancelled, mon,
                      monCtx, exits, shim, own, serving>>
        BY <1>5 DEF CreateTask
    <2>4. QED
        BY <2>1, <2>2, <2>3 DEF TypeOK
<1>6. CASE Exec
    <2>1. CASE client = 0
        BY <1>6, <2>1 DEF Exec, Panic, PanicCore, TypeOK
    <2>2. CASE client # 0
        <3>0. [task EXCEPT ![client]["exec"] = "created"] \in [VMIdx -> [Procs -> ProcState]]
            BY ExceptType2 DEF TypeOK, ProcState
        <3>1. task' \in [VMIdx -> [Procs -> ProcState]]
            BY <1>6, <2>2, <3>0 DEF Exec
        <3>2. UNCHANGED <<agentStarted, client, machine, vm, nvm, ctx,
                          cancelled, mon, monCtx, exits, shim, pc, own, serving>>
            BY <1>6, <2>2 DEF Exec
        <3>3. QED
            BY <3>1, <3>2 DEF TypeOK
    <2>3. QED
        BY <2>1, <2>2
<1>7. ASSUME NEW p \in Procs, Start(p) PROVE TypeOK'
    <2>1. CASE client = 0
        BY <1>7, <2>1 DEF Start, Panic, PanicCore, TypeOK
    <2>2. CASE client # 0
        <3>1. [task EXCEPT ![client][p] = "running"] \in [VMIdx -> [Procs -> ProcState]]
            BY ExceptType2 DEF TypeOK, ProcState
        <3>2. task' \in [VMIdx -> [Procs -> ProcState]]
            BY <1>7, <2>2, <3>1 DEF Start
        <3>3. mon' \in [Mons -> MonState]
            BY <1>7, <2>2, ExceptType DEF Start, TypeOK, MonState
        <3>4. [monCtx EXCEPT ![<<client, p>>] = ctx] \in [Mons -> 0..MaxVMs]
            BY ExceptType DEF TypeOK
        <3>5. monCtx' \in [Mons -> 0..MaxVMs]
            BY <1>7, <2>2, <3>4 DEF Start
        <3>6. UNCHANGED <<agentStarted, client, machine, vm, nvm, ctx,
                          cancelled, exits, shim, pc, own, serving>>
            BY <1>7, <2>2 DEF Start
        <3>7. QED
            BY <3>2, <3>3, <3>5, <3>6 DEF TypeOK
    <2>3. QED
        BY <2>1, <2>2
<1>8. ASSUME NEW p \in Procs, Kill(p) PROVE TypeOK'
    <2>1. vm' \in [VMIdx -> {"none", "running", "stopped"}]
        BY <1>8, StopVMType DEF Kill, TypeOK
    <2>2. CASE client = 0 \/ machine = 0
        <3>1. shim' = "panicked"
            BY <1>8, <2>2 DEF Kill, PanicCore
        <3>2. UNCHANGED <<agentStarted, client, machine, nvm, task, ctx,
                          cancelled, mon, monCtx, exits, pc, own, serving>>
            BY <1>8, <2>2 DEF Kill, PanicCore
        <3>3. QED
            BY <2>1, <3>1, <3>2 DEF TypeOK
    <2>3. CASE client # 0 /\ machine # 0
        <3>1. task' \in [VMIdx -> [Procs -> ProcState]] /\ cancelled' \subseteq 0..MaxVMs
            <4>1. CASE AgentUp
                <5>1. client \in VMIdx
                    BY <2>3 DEF TypeOK, VMIdx
                <5>2. \A t \in {task[client][p], "stopped"} :
                          [task EXCEPT ![client][p] = t] \in [VMIdx -> [Procs -> ProcState]]
                    BY <5>1, ExceptType2 DEF TypeOK, ProcState
                <5>3. /\ \/ task' = task
                         \/ \E t \in {task[client][p], "stopped"} :
                                task' = [task EXCEPT ![client][p] = t]
                      /\ cancelled' \in {cancelled, cancelled \cup {ctx}}
                    BY <1>8, <2>3, <4>1 DEF Kill
                <5>4. QED
                    BY <5>2, <5>3 DEF TypeOK
            <4>2. CASE ~AgentUp
                BY <1>8, <2>3, <4>2 DEF Kill, TypeOK
            <4>3. QED
                BY <4>1, <4>2
        <3>2. UNCHANGED <<agentStarted, client, machine, nvm, ctx, mon,
                          monCtx, exits, shim, pc, own, serving>>
            BY <1>8, <2>3 DEF Kill
        <3>3. QED
            BY <2>1, <3>1, <3>2 DEF TypeOK
    <2>4. QED
        BY <2>2, <2>3
<1>9. ASSUME NEW i \in VMIdx, NEW p \in Procs, GuestExit(i, p) PROVE TypeOK'
    <2>1. task' \in [VMIdx -> [Procs -> ProcState]]
        BY <1>9, ExceptType2 DEF GuestExit, TypeOK, ProcState
    <2>2. UNCHANGED <<agentStarted, client, machine, vm, nvm, ctx, cancelled,
                      mon, monCtx, exits, shim, pc, own, serving>>
        BY <1>9 DEF GuestExit
    <2>3. QED
        BY <2>1, <2>2 DEF TypeOK
<1>10. ASSUME NEW m \in Mons, MonitorTick(m) PROVE TypeOK'
    <2>1. [mon EXCEPT ![m] = "done"] \in [Mons -> MonState]
          /\ [mon EXCEPT ![m] = "shutdown"] \in [Mons -> MonState]
        BY ExceptType DEF TypeOK, MonState
    <2>4. mon' \in [Mons -> MonState] /\ exits' \in Nat
        BY <1>10, <2>1 DEF MonitorTick, TypeOK
    <2>2. UNCHANGED <<agentStarted, client, machine, vm, nvm, task, ctx,
                      cancelled, monCtx, shim, pc, own, serving>>
        BY <1>10 DEF MonitorTick
    <2>3. QED
        BY <2>4, <2>2 DEF TypeOK
<1>11. ASSUME ShutdownBody, mon' \in [Mons -> MonState], serving' \in BOOLEAN
       PROVE  TypeOK'
    <2>1. vm' \in [VMIdx -> {"none", "running", "stopped"}]
        BY <1>11, StopVMType DEF ShutdownBody, PanicCore, TypeOK
    <2>2. cancelled' \subseteq 0..MaxVMs /\ shim' \in {"up", "exited", "panicked"}
        BY <1>11 DEF ShutdownBody, PanicCore, TypeOK
    <2>3. UNCHANGED <<agentStarted, client, machine, nvm, task, ctx, monCtx,
                      exits, pc, own>>
        BY <1>11 DEF ShutdownBody, PanicCore
    <2>4. QED
        BY <1>11, <2>1, <2>2, <2>3 DEF TypeOK
<1>12. ASSUME NEW m \in Mons, MonitorShutdown(m) PROVE TypeOK'
    <2>1. mon' \in [Mons -> MonState]
        BY <1>12, ExceptType DEF MonitorShutdown, TypeOK, MonState
    <2>2. QED
        BY <1>12, <1>11, <2>1 DEF MonitorShutdown
<1>13. CASE Shutdown
    BY <1>13, <1>11 DEF Shutdown, TypeOK
<1>14. CASE UNCHANGED vars
    BY <1>14 DEF vars, TypeOK
<1>15. QED
    BY <1>1, <1>2, <1>3, <1>4, <1>5, <1>6, <1>7, <1>8, <1>9, <1>10, <1>12,
       <1>13, <1>14 DEF Next

(* Type correctness of the task service, for every set of callers, bound   *)
(* on machines and fault set: the state the handlers of service.go share   *)
(* stays within the ranges the model gives it.                             *)
THEOREM ShimTypeCorrect == Spec => []TypeOK
BY ShimTypeInit, ShimTypeStep, PTL DEF Spec

-----------------------------------------------------------------------------
(* The handlers other than Create -- Exec, Start, Kill, Shutdown, the      *)
(* monitors and the guest -- never touch agentStarted, agentClient,        *)
(* s.machine or a Create call's progress.                                  *)
Others ==
    \/ Exec
    \/ \E p \in Procs : Start(p) \/ Kill(p)
    \/ \E i \in VMIdx, p \in Procs : GuestExit(i, p)
    \/ \E m \in Mons : MonitorTick(m) \/ MonitorShutdown(m)
    \/ Shutdown

LEMMA OthersKeepBoot ==
    ASSUME Others
    PROVE  UNCHANGED <<agentStarted, client, machine, pc, own>>
<1>1. CASE Exec
    BY <1>1 DEF Exec, Panic, PanicCore
<1>2. ASSUME NEW p \in Procs, Start(p) \/ Kill(p)
      PROVE  UNCHANGED <<agentStarted, client, machine, pc, own>>
    BY <1>2 DEF Start, Kill, Panic, PanicCore
<1>3. ASSUME NEW i \in VMIdx, NEW p \in Procs, GuestExit(i, p)
      PROVE  UNCHANGED <<agentStarted, client, machine, pc, own>>
    BY <1>3 DEF GuestExit
<1>4. ASSUME ShutdownBody
      PROVE  UNCHANGED <<agentStarted, client, machine, pc, own>>
    BY <1>4 DEF ShutdownBody, PanicCore
<1>5. ASSUME NEW m \in Mons, MonitorTick(m) \/ MonitorShutdown(m)
      PROVE  UNCHANGED <<agentStarted, client, machine, pc, own>>
    BY <1>5, <1>4 DEF MonitorTick, MonitorShutdown
<1>6. QED
    BY <1>1, <1>2, <1>3, <1>4, <1>5 DEF Others, Shutdown

LEMMA NextSplit ==
    [Next]_vars <=> \/ \E c \in Callers : \/ CreateBegin(c) \/ NewMachine(c)
                                          \/ VMStart(c) \/ Dial(c)
                                          \/ CreateTask(c)
                    \/ Others
                    \/ UNCHANGED vars
BY DEF Next, Others

-----------------------------------------------------------------------------
(* stopVM stops s.machine; when no other VM runs, none runs after it.      *)
LEMMA StopVMRunning ==
    ASSUME TypeOK, Running \subseteq {machine}, NEW ok, StopVM(ok)
    PROVE  Running' = {}
<1>1. CASE machine \in VMIdx /\ vm[machine] = "running"
    <2>1. vm' = [vm EXCEPT ![machine] = "stopped"]
        BY <1>1 DEF StopVM
    <2>2. QED
        BY <1>1, <2>1 DEF Running, TypeOK
<1>2. CASE machine \notin VMIdx
    <2>1. vm' = vm
        BY <1>2 DEF StopVM, TypeOK
    <2>2. QED
        BY <1>2, <2>1 DEF Running
<1>3. CASE machine \in VMIdx /\ vm[machine] # "running"
    BY <1>3 DEF StopVM, Running
<1>4. QED
    BY <1>1, <1>2, <1>3

(* machine.Start of VM j adds at most j to the running VMs.                *)
LEMMA StartRunning ==
    ASSUME TypeOK, NEW j, vm' = [vm EXCEPT ![j] = "running"]
    PROVE  Running' \subseteq Running \cup {j}
BY DEF Running, TypeOK

(* The handlers other than Create stop VMs but start none, and the shim    *)
(* exits through Shutdown only after stopVM has succeeded.                 *)
LEMMA OthersStop ==
    ASSUME TypeOK, Running \subseteq {machine}, shim = "up", Others
    PROVE  /\ Running' \subseteq Running
           /\ shim' = "exited" => Running' = {}
<1>1. CASE Exec
    BY <1>1 DEF Exec, Panic, PanicCore, Running
<1>2. ASSUME NEW p \in Procs, Start(p) PROVE Running' \subseteq Running /\ shim' # "exited"
    BY <1>2 DEF Start, Panic, PanicCore, Running
<1>3. ASSUME NEW p \in Procs, Kill(p)
      PROVE  Running' \subseteq Running /\ shim' # "exited"
    <2>1. shim' # "exited"
        <3>1. CASE client = 0 \/ machine = 0
            BY <1>3, <3>1 DEF Kill, PanicCore
        <3>2. CASE client # 0 /\ machine # 0
            BY <1>3, <3>2 DEF Kill
        <3>3. QED
            BY <3>1, <3>2
    <2>2. CASE machine = 0
        BY <1>3, <2>1, <2>2 DEF Kill, Running
    <2>3. CASE machine # 0
        <3>1. \E ok \in BOOLEAN : StopVM(ok)
            BY <1>3, <2>3 DEF Kill
        <3>2. QED
            BY <2>1, <3>1, StopVMRunning
    <2>4. QED
        BY <2>1, <2>2, <2>3
<1>4. ASSUME NEW i \in VMIdx, NEW p \in Procs, GuestExit(i, p)
      PROVE  Running' \subseteq Running /\ shim' # "exited"
    BY <1>4 DEF GuestExit, Running
<1>5. ASSUME ShutdownBody
      PROVE  Running' \subseteq Running /\ (shim' = "exited" => Running' = {})
    <2>1. CASE client = 0 \/ machine = 0
        BY <1>5, <2>1 DEF ShutdownBody, PanicCore, Running
    <2>2. CASE client # 0 /\ machine # 0
        <3>1. \E ok \in BOOLEAN : StopVM(ok)
            BY <1>5, <2>2 DEF ShutdownBody
        <3>2. QED
            BY <3>1, StopVMRunning
    <2>3. QED
        BY <2>1, <2>2
<1>6. ASSUME NEW m \in Mons, MonitorTick(m)
      PROVE  Running' \subseteq Running /\ shim' # "exited"
    BY <1>6 DEF MonitorTick, Running
<1>7. QED
    BY <1>1, <1>2, <1>3, <1>4, <1>5, <1>6 DEF Others, MonitorShutdown, Shutdown

LEMMA BootInit == Init => BootInv
<1> SUFFICES ASSUME Init PROVE BootInv
    OBVIOUS
<1>1. Running = {}
    BY DEF Init, Running
<1>2. QED
    BY <1>1, ShimTypeInit DEF BootInv, Init, Booting

(* With a single Create caller and a machine.Start that does not fail,     *)
(* every step keeps BootInv.                                               *)
LEMMA BootStep ==
    ASSUME NEW c0, Callers = {c0}, "start" \notin Faults, BootInv, [Next]_vars
    PROVE  BootInv'
<1>0a. TypeOK /\ Running \subseteq {machine}
    BY DEF BootInv
<1>0. TypeOK /\ TypeOK' /\ Running \subseteq {machine}
    BY <1>0a, ShimTypeStep
<1>1. CASE UNCHANGED vars
    BY <1>0, <1>1 DEF BootInv, vars, Running
<1>2. ASSUME NEW c \in Callers, CreateBegin(c) PROVE BootInv'
    <2>1. UNCHANGED <<agentStarted, vm, machine, shim>> /\ c = c0
        BY <1>2 DEF CreateBegin
    <2>2. pc'[c0] = IF agentStarted THEN "create" ELSE "newmachine"
        <3>1. pc' = [pc EXCEPT ![c0] = IF agentStarted THEN "create" ELSE "newmachine"]
            BY <1>2, <2>1 DEF CreateBegin
        <3>2. c0 \in DOMAIN pc
            BY <1>0 DEF TypeOK
        <3>3. QED
            BY <3>1, <3>2
    <2>3. pc[c0] = "idle" /\ (~agentStarted => Running = {})
        BY <1>2, <2>1 DEF CreateBegin, BootInv
    <2>4. QED
        BY <1>0, <2>1, <2>2, <2>3 DEF BootInv, Booting, Running
<1>3. ASSUME NEW c \in Callers, NewMachine(c) PROVE BootInv'
    <2>1. c = c0 /\ pc[c0] = "newmachine" /\ ~agentStarted /\ Running = {}
        BY <1>3 DEF NewMachine, BootInv, Booting
    <2>2. UNCHANGED <<agentStarted, vm, shim>> /\ pc'[c0] \in {"vmstart", "idle"}
        BY <1>0, <1>3, <2>1 DEF NewMachine, TypeOK
    <2>3. Running' = {}
        BY <2>1, <2>2 DEF Running
    <2>4. QED
        BY <1>0, <2>1, <2>2, <2>3 DEF BootInv, Booting
<1>4. ASSUME NEW c \in Callers, VMStart(c) PROVE BootInv'
    <2>1. c = c0 /\ pc[c0] = "vmstart" /\ ~agentStarted /\ Running = {}
          /\ shim = "up"
        BY <1>4 DEF VMStart, BootInv, Booting
    <2>2. CASE machine = 0
        BY <1>0, <1>4, <2>1, <2>2 DEF VMStart, Panic, PanicCore, BootInv, Running
    <2>3. CASE machine # 0
        <3>1. UNCHANGED <<agentStarted, machine, shim>>
            BY <1>4, <2>3 DEF VMStart
        <3>2. CASE vm' = [vm EXCEPT ![machine] = "running"]
                   /\ pc' = [pc EXCEPT ![c] = "dial"]
            <4>1. Running' \subseteq {machine'}
                BY <1>0, <2>1, <3>1, <3>2, StartRunning
            <4>2. pc'[c0] = "dial"
                BY <1>0, <2>1, <3>2 DEF TypeOK
            <4>3. QED
                BY <1>0, <2>1, <3>1, <4>1, <4>2 DEF BootInv, Booting
        <3>3. CASE /\ vm[machine] # "none" \/ Running # {} \/ "start" \in Faults
                   /\ vm' \in {vm} \cup
                         IF vm[machine] = "none" /\ Running = {}
                         THEN {[vm EXCEPT ![machine] = "running"]} ELSE {}
                   /\ pc' = [pc EXCEPT ![c] = "idle"]
            <4>1. vm' = vm
                BY <2>1, <3>3
            <4>2. pc'[c0] = "idle"
                BY <1>0, <2>1, <3>3 DEF TypeOK
            <4>3. QED
                BY <1>0, <2>1, <3>1, <4>1, <4>2 DEF BootInv, Booting, Running
        <3>4. QED
            BY <1>4, <2>3, <3>2, <3>3 DEF VMStart
    <2>4. QED
        BY <2>2, <2>3
<1>5. ASSUME NEW c \in Callers, Dial(c) PROVE BootInv'
    <2>1. c = c0 /\ pc[c0] = "dial" /\ shim = "up"
        BY <1>5 DEF Dial
    <2>2. CASE vm[own[c]] = "running" /\ client' = own[c] /\ agentStarted' = TRUE
               /\ pc' = [pc EXCEPT ![c] = "create"]
               /\ UNCHANGED <<vm, machine, nvm, task, ctx, cancelled, mon,
                              monCtx, exits, shim, own, serving>>
        <3>1. pc'[c0] = "create"
            BY <1>0, <2>1, <2>2 DEF TypeOK
        <3>2. QED
            BY <1>0, <2>1, <2>2, <3>1 DEF BootInv, Booting, Running
    <2>3. CASE Panic
        BY <1>0, <2>1, <2>3 DEF Panic, PanicCore, BootInv, Running
    <2>4. CASE /\ \E ok \in BOOLEAN : StopVM(ok)
               /\ pc' = [pc EXCEPT ![c] = "idle"]
               /\ UNCHANGED <<client, agentStarted, machine, nvm, task, ctx,
                              cancelled, mon, monCtx, exits, shim, own, serving>>
        <3>1. Running' = {}
            BY <1>0, <2>4, StopVMRunning
        <3>2. pc'[c0] = "idle"
            BY <1>0, <2>1, <2>4 DEF TypeOK
        <3>3. QED
            BY <1>0, <2>1, <2>4, <3>1, <3>2 DEF BootInv, Booting
    <2>5. QED
        BY <1>5, <2>2, <2>3, <2>4 DEF Dial
<1>6. ASSUME NEW c \in Callers, CreateTask(c) PROVE BootInv'
    <2>1. c = c0 /\ pc[c0] = "create" /\ agentStarted
        BY <1>6 DEF CreateTask, BootInv
    <2>2. UNCHANGED <<agentStarted, machine, vm, shim>> /\ pc'[c0] = "idle"
        BY <1>0, <1>6, <2>1 DEF CreateTask, TypeOK
    <2>3. QED
        BY <1>0, <2>1, <2>2 DEF BootInv, Booting, Running
<1>7. CASE Others
    <2>1. UNCHANGED <<agentStarted, client, machine, pc, own>>
        BY <1>7, OthersKeepBoot
    <2>2. shim = "up"
        BY <1>7 DEF Others, Exec, Start, Kill, GuestExit, MonitorTick,
                    MonitorShutdown, Shutdown
    <2>3. Running' \subseteq Running /\ (shim' = "exited" => Running' = {})
        BY <1>0, <1>7, <2>2, OthersStop
    <2>4. QED
        BY <1>0, <2>1, <2>3 DEF BootInv
<1>8. QED
    BY <1>1, <1>2, <1>3, <1>4, <1>5, <1>6, <1>7, NextSplit

(* Spec 3 (the shim's one VM is destroyed by Kill and Shutdown): when      *)
(* containerd sends one Create at a time and machine.Start does not fail,  *)
(* every running firecracker process is s.machine, the one stopVM stops -- *)
(* for every bound on machines, with failing NewMachine, dials and agent   *)
(* calls: a failed dial stops the VM before the next Create replaces       *)
(* s.machine.                                                              *)
THEOREM MachineRuns ==
    ASSUME NEW c0, Callers = {c0}, "start" \notin Faults
    PROVE  Spec => []RunningIsMachine
<1>1. BootInv => RunningIsMachine
    BY DEF BootInv, RunningIsMachine
<1>2. QED
    BY <1>1, BootInit, BootStep, PTL DEF Spec

(* Spec 4.3: with one Create at a time and a machine.Start that does not   *)
(* fail, a shim whose Creates all failed to start the agent runs no        *)
(* firecracker process: startVM's dial failure path stops what it booted.  *)
THEOREM FailedBootClean ==
    ASSUME NEW c0, Callers = {c0}, "start" \notin Faults
    PROVE  Spec => []FailedBootLeavesNoVM
<1>1. BootInv => FailedBootLeavesNoVM
    BY DEF BootInv, FailedBootLeavesNoVM
<1>2. QED
    BY <1>1, BootInit, BootStep, PTL DEF Spec

(* Shutdown (the RPC or the monitor's call) exits the shim only after      *)
(* stopVM succeeded, and with one Create at a time and a machine.Start     *)
(* that does not fail, the VM it stopped was the only one running: no      *)
(* firecracker process outlives a shim that exits by Shutdown.             *)
THEOREM ShutdownStopsVM ==
    ASSUME NEW c0, Callers = {c0}, "start" \notin Faults
    PROVE  Spec => []NoVMOutlivesShutdown
<1>1. BootInv => NoVMOutlivesShutdown
    BY DEF BootInv, NoVMOutlivesShutdown
<1>2. QED
    BY <1>1, BootInit, BootStep, PTL DEF Spec

=============================================================================
