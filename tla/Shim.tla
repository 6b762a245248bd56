-------------------------------- MODULE Shim --------------------------------
(***************************************************************************)
(* The firecracker shim's task service (src/runtime/service.go).           *)
(*                                                                         *)
(* containerd calls the service's RPCs over ttrpc, each in its own         *)
(* goroutine, so calls of several Callers interleave.  The service keeps   *)
(* agentStarted, agentClient, machine (the firecracker VM it drives) and   *)
(* ctx/cancel (the per-task context) without any lock.  Create boots a VM  *)
(* (startVM) the first time; Start spawns a monitorState goroutine that    *)
(* polls the agent each second and, when the process has stopped,         *)
(* publishes TaskExit and calls Shutdown, which stops the VM and exits the *)
(* process.                                                                *)
(*                                                                         *)
(* Environment: the firecracker processes (vm), the guest processes that   *)
(* the agent inside each VM runs (task), a guest process exiting on its    *)
(* own, and the failures injected by Faults.  Nil dereferences of the Go   *)
(* code (agentClient, machine or cancel used before Create set them) panic *)
(* and end the shim process like os.Exit does, leaving its VMs running.    *)
(*                                                                         *)
(* Every VM is started with the same API socket, s.config.SocketPath: a    *)
(* firecracker process cannot start while another one holds it.            *)
(***************************************************************************)
EXTENDS Naturals

CONSTANTS
    Callers,  \* concurrent RPC callers (model values)
    MaxVMs,   \* the model's bound on the machines NewMachine creates
    Faults    \* subset of FaultKinds

(* Failures of firecracker.NewMachine, of machine.Start, of dialVsock and   *)
(* of the agent's RPCs.                                                    *)
FaultKinds == {"new", "start", "dial", "agent"}

ASSUME ShimAssumption ==
    /\ MaxVMs \in Nat \ {0}
    /\ Faults \subseteq FaultKinds

VMIdx == 1..MaxVMs

(* The init process of the container and one process added by Exec.       *)
Procs == {"init", "exec"}

(* The monitorState goroutines: one per process of each VM.               *)
Mons == VMIdx \X Procs

ProcState == {"none", "created", "running", "stopped"}

(* Steps of a Create call: the check of agentStarted, the three steps of   *)
(* startVM that leave the process, and the agent's Create.                 *)
CallerPC == {"idle", "newmachine", "vmstart", "dial", "create"}

MonState == {"none", "polling", "shutdown", "done"}

VARIABLES
    agentStarted, \* s.agentStarted
    client,       \* the VM s.agentClient is connected to, 0 = nil
    machine,      \* the VM s.machine drives, 0 = nil
    vm,           \* state of each firecracker process
    nvm,          \* machines created so far
    task,         \* task[i][p]: process p in the agent of VM i
    ctx,          \* s.ctx: index of the current per-task context, 0 = nil
    cancelled,    \* contexts that have been cancelled
    mon,          \* monitorState goroutine for process p of VM i
    monCtx,       \* the context that goroutine was started with
    exits,        \* TaskExit events published
    shim,         \* the shim process: "up", "exited" (os.Exit), "panicked"
    pc,           \* step of each caller's Create
    own,          \* the VM a caller's startVM is building (its CID)
    serving       \* the ttrpc server still accepts calls

vars == <<agentStarted, client, machine, vm, nvm, task, ctx, cancelled, mon,
          monCtx, exits, shim, pc, own, serving>>

-----------------------------------------------------------------------------
Init ==
    /\ agentStarted = FALSE
    /\ client = 0
    /\ machine = 0
    /\ vm = [i \in VMIdx |-> "none"]
    /\ nvm = 0
    /\ task = [i \in VMIdx |-> [p \in Procs |-> "none"]]
    /\ ctx = 0
    /\ cancelled = {}
    /\ mon = [m \in Mons |-> "none"]
    /\ monCtx = [m \in Mons |-> 0]
    /\ exits = 0
    /\ shim = "up"
    /\ pc = [c \in Callers |-> "idle"]
    /\ own = [c \in Callers |-> 0]
    /\ serving = TRUE

(* An agent RPC through s.agentClient reaches the agent only while that    *)
(* VM runs; otherwise the call returns an error.                           *)
AgentUp == client # 0 /\ vm[client] = "running"

(* A nil dereference panics in the handler's goroutine and ends the shim. *)
PanicCore ==
    /\ shim' = "panicked"
    /\ UNCHANGED <<agentStarted, client, machine, nvm, task, ctx, cancelled,
                   monCtx, exits, pc, own>>

Panic == PanicCore /\ UNCHANGED <<vm, mon, serving>>

(* The firecracker processes that run, and so hold the API socket.         *)
Running == {i \in VMIdx : vm[i] = "running"}

(* stopVM: s.machine.StopVMM() signals the firecracker process (a nil      *)
(* s.machine panics: the callers check machine # 0 first).  For a process  *)
(* that is not running the SDK's answer is not specified: ok may be either *)
(* value.                                                                  *)
StopVM(ok) ==
    IF vm[machine] = "running"
    THEN vm' = [vm EXCEPT ![machine] = "stopped"] /\ ok = TRUE
    ELSE vm' = vm

-----------------------------------------------------------------------------
(* Create: if !s.agentStarted then startVM.  The flag is read here and set *)
(* only after startVM returns ("TODO: should there be a lock here").       *)
CreateBegin(c) ==
    /\ shim = "up" /\ serving /\ pc[c] = "idle"
    /\ pc' = [pc EXCEPT ![c] = IF agentStarted THEN "create" ELSE "newmachine"]
    /\ UNCHANGED <<agentStarted, client, machine, vm, nvm, task, ctx,
                   cancelled, mon, monCtx, exits, shim, own, serving>>

(* startVM up to s.machine, err = NewMachine(...): findNextAvailableVsockCID *)
(* and the drive list (an unsupported mount type) may return an error      *)
(* first; NewMachine's error assigns s.machine its nil result before the   *)
(* check returns it.  MaxVMs bounds the machines of the model.            *)
NewMachine(c) ==
    /\ shim = "up" /\ pc[c] = "newmachine"
    /\ \/ /\ nvm < MaxVMs
          /\ nvm' = nvm + 1
          /\ machine' = nvm + 1
          /\ own' = [own EXCEPT ![c] = nvm + 1]
          /\ pc' = [pc EXCEPT ![c] = "vmstart"]
       \/ /\ pc' = [pc EXCEPT ![c] = "idle"]
          /\ UNCHANGED <<nvm, machine, own>>
       \/ /\ "new" \in Faults
          /\ machine' = 0
          /\ pc' = [pc EXCEPT ![c] = "idle"]
          /\ UNCHANGED <<nvm, own>>
    /\ UNCHANGED <<agentStarted, client, vm, task, ctx, cancelled, mon,
                   monCtx, exits, shim, serving>>

(* s.machine.Start: spawns firecracker on the shared socket and configures *)
(* it.  It starts s.machine as it is by now, which another Create may have *)
(* replaced (nil: a panic).  A machine already started, or a socket held   *)
(* by a running firecracker, make it fail; an injected failure may come    *)
(* after the process was spawned.  On failure startVM returns at once.     *)
VMStart(c) ==
    /\ shim = "up" /\ pc[c] = "vmstart"
    /\ IF machine = 0 THEN Panic
       ELSE /\ \/ /\ vm[machine] = "none" /\ Running = {}
                  /\ vm' = [vm EXCEPT ![machine] = "running"]
                  /\ pc' = [pc EXCEPT ![c] = "dial"]
               \/ /\ vm[machine] # "none" \/ Running # {} \/ "start" \in Faults
                  /\ vm' \in {vm} \cup
                        IF vm[machine] = "none" /\ Running = {}
                        THEN {[vm EXCEPT ![machine] = "running"]} ELSE {}
                  /\ pc' = [pc EXCEPT ![c] = "idle"]
            /\ UNCHANGED <<agentStarted, client, machine, nvm, task, ctx,
                           cancelled, mon, monCtx, exits, shim, own, serving>>

(* Variant of Dial whose failure path returns without s.stopVM().         *)
DialNoStopOnError(c) ==
    /\ shim = "up" /\ pc[c] = "dial"
    /\ \/ /\ vm[own[c]] = "running"
          /\ client' = own[c]
          /\ agentStarted' = TRUE
          /\ pc' = [pc EXCEPT ![c] = "create"]
       \/ /\ vm[own[c]] # "running" \/ "dial" \in Faults
          /\ pc' = [pc EXCEPT ![c] = "idle"]
          /\ UNCHANGED <<client, agentStarted>>
    /\ UNCHANGED <<machine, vm, nvm, task, ctx, cancelled, mon, monCtx,
                   exits, shim, own, serving>>

(* dialVsock to the agent of the caller's own VM (five tries).  On success *)
(* Create stores the client and sets agentStarted; on failure startVM      *)
(* calls s.stopVM(), which stops whatever s.machine is by then (nil: a     *)
(* panic).                                                                 *)
Dial(c) ==
    /\ shim = "up" /\ pc[c] = "dial"
    /\ \/ /\ vm[own[c]] = "running"
          /\ client' = own[c]
          /\ agentStarted' = TRUE
          /\ pc' = [pc EXCEPT ![c] = "create"]
          /\ UNCHANGED <<vm, machine, nvm, task, ctx, cancelled, mon, monCtx,
                         exits, shim, own, serving>>
       \/ /\ vm[own[c]] # "running" \/ "dial" \in Faults
          /\ machine = 0
          /\ Panic
       \/ /\ vm[own[c]] # "running" \/ "dial" \in Faults
          /\ machine # 0
          /\ \E ok \in BOOLEAN : StopVM(ok)
          /\ pc' = [pc EXCEPT ![c] = "idle"]
          /\ UNCHANGED <<client, agentStarted, machine, nvm, task, ctx,
                         cancelled, mon, monCtx, exits, shim, own, serving>>

(* packBundle, then s.agentClient.Create; on success s.ctx, s.cancel =     *)
(* context.WithCancel and the stdio proxies start on the new context.      *)
CreateTask(c) ==
    /\ shim = "up" /\ pc[c] = "create"
    /\ pc' = [pc EXCEPT ![c] = "idle"]
    /\ \/ /\ AgentUp /\ task[client]["init"] = "none"
          /\ task' = [task EXCEPT ![client]["init"] = "created"]
          /\ ctx' = client
       \/ /\ ~AgentUp \/ task[client]["init"] # "none" \/ "agent" \in Faults
          /\ UNCHANGED <<task, ctx>>
    /\ UNCHANGED <<agentStarted, client, machine, vm, nvm, cancelled, mon,
                   monCtx, exits, shim, own, serving>>

-----------------------------------------------------------------------------
(* Exec: s.agentClient.Exec adds a process to the container.               *)
Exec ==
    /\ shim = "up" /\ serving
    /\ IF client = 0 THEN Panic
       ELSE /\ AgentUp /\ task[client]["init"] # "none"
            /\ task[client]["exec"] = "none"
            /\ task' = [task EXCEPT ![client]["exec"] = "created"]
            /\ UNCHANGED <<agentStarted, client, machine, vm, nvm, ctx,
                           cancelled, mon, monCtx, exits, shim, pc, own, serving>>

(* Start: s.agentClient.Start, then go monitorState(s.ctx, ...).           *)
Start(p) ==
    /\ shim = "up" /\ serving
    /\ IF client = 0 THEN Panic
       ELSE /\ AgentUp /\ task[client][p] = "created"
            /\ task' = [task EXCEPT ![client][p] = "running"]
            /\ mon' = [mon EXCEPT ![<<client, p>>] = "polling"]
            /\ monCtx' = [monCtx EXCEPT ![<<client, p>>] = ctx]
            /\ UNCHANGED <<agentStarted, client, machine, vm, nvm, ctx,
                           cancelled, exits, shim, pc, own, serving>>

(* A guest process exits on its own.                                       *)
GuestExit(i, p) ==
    /\ shim = "up"
    /\ vm[i] = "running" /\ task[i][p] = "running"
    /\ task' = [task EXCEPT ![i][p] = "stopped"]
    /\ UNCHANGED <<agentStarted, client, machine, vm, nvm, ctx, cancelled,
                   mon, monCtx, exits, shim, pc, own, serving>>

(* One tick of monitorState: return if its context is done; otherwise      *)
(* s.agentClient.State -- an error or a live process continue the loop (a  *)
(* stutter); a stopped process is published as TaskExit.                   *)
MonitorTick(m) ==
    /\ shim = "up" /\ mon[m] = "polling"
    /\ \/ /\ monCtx[m] \in cancelled
          /\ mon' = [mon EXCEPT ![m] = "done"]
          /\ UNCHANGED exits
       \/ /\ monCtx[m] \notin cancelled
          /\ AgentUp /\ task[client][m[2]] = "stopped"
          /\ exits' = exits + 1
          /\ mon' = [mon EXCEPT ![m] = "shutdown"]
    /\ UNCHANGED <<agentStarted, client, machine, vm, nvm, task, ctx,
                   cancelled, monCtx, shim, pc, own, serving>>

(* Variant of ShutdownBody that exits the process before stopVM.          *)
ShutdownBodyExitFirst ==
    IF client = 0 THEN PanicCore /\ UNCHANGED vm
    ELSE /\ shim' = "exited"
         /\ cancelled' = cancelled \cup {ctx}
         /\ UNCHANGED <<agentStarted, client, machine, vm, nvm, task, ctx,
                        monCtx, exits, pc, own>>

(* Shutdown: agent Shutdown (its error is only logged), stopVM (an error   *)
(* is returned at once), s.cancel(), os.Exit(0).  A nil agentClient, a nil *)
(* s.machine, or the nil s.cancel before a task was created, panic.        *)
(* Leaves mon and serving to its caller.                                   *)
ShutdownBody ==
    IF client = 0 \/ machine = 0 THEN PanicCore /\ UNCHANGED vm
    ELSE \E ok \in BOOLEAN :
           /\ StopVM(ok)
           /\ shim' = CASE ~ok     -> shim
                         [] ctx = 0 -> "panicked"
                         [] OTHER   -> "exited"
           /\ cancelled' = IF ok THEN cancelled \cup {ctx} ELSE cancelled
           /\ UNCHANGED <<agentStarted, client, machine, nvm, task, ctx,
                          monCtx, exits, pc, own>>

(* The monitor's call s.Shutdown(...), then s.server.Close(): when         *)
(* Shutdown returned (its stopVM failed) the server takes no more calls.   *)
MonitorShutdown(m) ==
    /\ shim = "up" /\ mon[m] = "shutdown"
    /\ mon' = [mon EXCEPT ![m] = "done"]
    /\ serving' = FALSE
    /\ ShutdownBody

(* containerd's Shutdown RPC.                                              *)
Shutdown ==
    /\ shim = "up" /\ serving
    /\ UNCHANGED <<mon, serving>>
    /\ ShutdownBody

(* Kill: deferred s.stopVM(); s.agentClient.Kill; on error return, else    *)
(* s.cancel().  The deferred stopVM also runs when the nil agentClient     *)
(* panics (and panics again on a nil s.machine).  The signal may or may    *)
(* not end the process in the guest.                                       *)
Kill(p) ==
    /\ shim = "up" /\ serving
    /\ IF client = 0 \/ machine = 0
       THEN /\ IF machine = 0 THEN vm' = vm ELSE \E ok \in BOOLEAN : StopVM(ok)
            /\ PanicCore /\ UNCHANGED <<mon, serving>>
       ELSE /\ \E ok \in BOOLEAN : StopVM(ok)
            /\ \/ /\ AgentUp /\ task[client][p] \in {"created", "running"}
                  /\ \E t \in {task[client][p], "stopped"} :
                         task' = [task EXCEPT ![client][p] = t]
                  /\ cancelled' = cancelled \cup {ctx}
               \/ /\ ~AgentUp \/ task[client][p] \notin {"created", "running"}
                     \/ "agent" \in Faults
                  /\ UNCHANGED <<task, cancelled>>
            /\ UNCHANGED <<agentStarted, client, machine, nvm, ctx, mon,
                           monCtx, exits, shim, pc, own, serving>>

Next ==
    \/ \E c \in Callers :
           CreateBegin(c) \/ NewMachine(c) \/ VMStart(c) \/ Dial(c)
           \/ CreateTask(c)
    \/ Exec
    \/ \E p \in Procs : Start(p) \/ Kill(p)
    \/ \E i \in VMIdx, p \in Procs : GuestExit(i, p)
    \/ \E m \in Mons : MonitorTick(m) \/ MonitorShutdown(m)
    \/ Shutdown

Spec == Init /\ [][Next]_vars

Fairness ==
    \A m \in Mons : WF_vars(MonitorTick(m)) /\ WF_vars(MonitorShutdown(m))

FairSpec == Spec /\ Fairness

-----------------------------------------------------------------------------
TypeOK ==
    /\ agentStarted \in BOOLEAN
    /\ client \in 0..MaxVMs
    /\ machine \in 0..MaxVMs
    /\ vm \in [VMIdx -> {"none", "running", "stopped"}]
    /\ nvm \in 0..MaxVMs
    /\ task \in [VMIdx -> [Procs -> ProcState]]
    /\ ctx \in 0..MaxVMs
    /\ cancelled \subseteq 0..MaxVMs
    /\ mon \in [Mons -> MonState]
    /\ monCtx \in [Mons -> 0..MaxVMs]
    /\ exits \in Nat
    /\ shim \in {"up", "exited", "panicked"}
    /\ pc \in [Callers -> CallerPC]
    /\ own \in [Callers -> 0..MaxVMs]
    /\ serving \in BOOLEAN

(* Spec 3 (a shim owns one VM, destroyed on Kill and Shutdown): every      *)
(* firecracker process that runs is s.machine, the one stopVM would stop.  *)
(* A boot that fails after Start must stop its VM before another Create    *)
(* replaces s.machine.                                                     *)
RunningIsMachine ==
    Running \subseteq {machine}

(* Spec 4.3 ("if Start fails, tear down the child process"): when no       *)
(* Create is under way and none has started the agent, every boot failed,  *)
(* and no firecracker process is left running.                             *)
FailedBootLeavesNoVM ==
    (\A c \in Callers : pc[c] = "idle") /\ ~agentStarted => Running = {}

(* When the shim process ends -- Shutdown's os.Exit, or a panic of a      *)
(* handler -- no firecracker process it started is left running: nothing   *)
(* else would ever stop it.                                                *)
NoVMOutlivesShim ==
    shim # "up" => Running = {}

(* A shim that ends through Shutdown (the RPC or the monitor's call) has   *)
(* stopped every VM it started.                                            *)
NoVMOutlivesShutdown ==
    shim = "exited" => Running = {}

(* Every monitorState goroutine whose VM has stopped ends: its context is  *)
(* cancelled by Kill or Shutdown, or it publishes the exit and returns.    *)
MonitorsEnd ==
    \A m \in Mons :
        (mon[m] = "polling" /\ vm[m[1]] = "stopped")
            ~> (mon[m] = "done" \/ shim # "up")

=============================================================================
