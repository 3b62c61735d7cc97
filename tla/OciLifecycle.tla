---------------------------- MODULE OciLifecycle ----------------------------
(***************************************************************************)
(* The life of one container of a sandbox Pod on its node.  CRI-O runs     *)
(* marooned-oci (cmd/marooned-oci) for each command on an OCI container;   *)
(* a pause process stands for the container on the host, and a helper      *)
(* process (guest-start, then guest-wait) has the shim (pkg/cri) start the *)
(* real process in the VM, through the agent (cmd/marooned-agent), waits   *)
(* for its end and passes the exit code on to the pause.                   *)
(*                                                                         *)
(* Each restart by the kubelet is a new OCI container (an instance here)   *)
(* with a directory of its own, but the shim and the agent know all of     *)
(* them under one id, <pod uid>-<container name>.  The process that        *)
(* instance i causes to be started is process i.                           *)
(***************************************************************************)
EXTENDS Naturals, FiniteSets

CONSTANTS
    N,           \* bound: instances of the container
    Codes,       \* exit codes of a process that ends by itself
    LocalVsock,  \* does the node give each VM a vsock namespace of its own?
    MaxKills,    \* bound: kills of a container of a Pod that lives on
    MaxShimCrashes,  \* bound: restarts of the shim, which keeps nothing
    MaxAgentCrashes, \* bound: restarts of the agent inside a VM
    MaxVMDeaths,     \* bound: VMs that die and are recreated
    MaxTimeouts      \* bound: starts that outlast the caller's 4 minutes or the shim's one

ASSUME InstancesAssumption == N \in Nat \ {0}
ASSUME CodesAssumption == Codes \subseteq 0..255 /\ LocalVsock \in BOOLEAN
ASSUME FaultsAssumption == /\ MaxKills \in Nat
                           /\ MaxShimCrashes \in Nat
                           /\ MaxAgentCrashes \in Nat
                           /\ MaxVMDeaths \in Nat
                           /\ MaxTimeouts \in Nat

Instances == 1..N

VARIABLES
    dir,      \* /run/marooned-oci/<id> of each instance
    cmd,      \* the marooned-oci command that CRI-O runs on it
    pause,    \* its pause process
    exits,    \* the exit code CRI-O finds for it
    helper,   \* its guest-start and guest-wait processes
    starting, \* its StartContainer call inside the shim
    obj,      \* the shim's Container objects, one per CreateContainer
    shim,     \* the shim's store: is the sandbox ready; which object is stored
    cid,      \* the VM named by the CID file the shim wrote
    vm,       \* the VM that runs, 0 when there is none
    ctr,      \* the agent's ctrs[id]: a process, 0 when absent
    proc,     \* the processes in the guest
    ending,   \* the Pod is being deleted
    budget    \* how many more faults of each kind may happen

hostVars == <<dir, cmd, pause, exits>>
shimVars == <<starting, obj, shim, cid>>
guestVars == <<vm, ctr, proc>>
vars == <<dir, cmd, pause, exits, helper, starting, obj, shim, cid, vm, ctr,
          proc, ending, budget>>

NoCode == 999   \* no exit code was written
Killed == 137   \* SIGKILL
Termed == 143   \* SIGTERM
Lost == 255     \* the process went with its VM: it has no exit code

\* st is the status in state.json, "none" without a directory; the rest are
\* the files beside it.
NoDir == [st |-> "none", criid |-> FALSE, started |-> FALSE,
          exited |-> FALSE, exitcode |-> NoCode]

NoHelper == [pc |-> "none", on |-> 0, code |-> 0]
NoStart == [pc |-> "none", obj |-> 0]
NewObj == [st |-> "created", code |-> 0]
NoProc == [st |-> "none", code |-> 0]

Live(i) == proc[i].st \in {"live", "term"}

Spend(kind) ==
    /\ budget[kind] > 0
    /\ budget' = [budget EXCEPT ![kind] = @ - 1]
-----------------------------------------------------------------------------
(* The shim and the agent.                                                 *)

\* dialAgent and the vsock forwarder reach the VM the CID file names.
Reachable == shim.ready /\ vm # 0 /\ (LocalVsock \/ cid = vm)

\* status of the agent, as the shim sees it.
Answers == Reachable /\ ctr # 0

\* ContainerStatus of the object o: an agent that does not answer counts as
\* an exit, and leaves the exit code as it was.
Refreshed(o) ==
    IF Answers
    THEN [st |-> IF Live(ctr) THEN "running"
                 ELSE IF obj[o].st = "created" THEN "created" ELSE "exited",
          code |-> proc[ctr].code]
    ELSE [obj[o] EXCEPT !.st = IF @ = "running" THEN "exited" ELSE @]

\* Mutant: guestRunning trusts the state the shim has stored.
MutGuestRunning == shim.ctr # 0 /\ obj[shim.ctr].st = "running"

\* guestRunning: an error of the shim means not running.
GuestRunning == shim.ctr # 0 /\ Answers /\ Live(ctr)

\* What a ContainerStatus call leaves in the shim.
QueryStatus ==
    IF shim.ctr = 0 THEN UNCHANGED obj
                    ELSE obj' = [obj EXCEPT ![shim.ctr] = Refreshed(shim.ctr)]

\* StopContainer: SIGTERM to the process in the agent's map, if there is one.
StopContainer ==
    /\ obj' = IF shim.ctr = 0 THEN obj ELSE [obj EXCEPT ![shim.ctr].st = "exited"]
    /\ proc' = IF shim.ctr # 0 /\ Answers /\ proc[ctr].st = "live"
               THEN [proc EXCEPT ![ctr].st = "term"] ELSE proc

\* stopGuest: nothing to stop before guest-start wrote the criid file.
StopGuest(i) ==
    IF dir[i].criid THEN StopContainer ELSE UNCHANGED <<obj, proc>>
-----------------------------------------------------------------------------
(* marooned-oci create, start, state, kill, delete.  CRI-O runs one command *)
(* at a time on a container.                                               *)

\* CRI-O takes a container for exited when it finds its exit file; a state
\* command that answers stopped makes it look for one.
SeenExited(i) == exits[i] # NoCode

\* A restart follows the exit of the instances before.
DoCreate(i) ==
    /\ ~ending
    /\ pause[i] = "none" /\ dir[i].st = "none"
    /\ \A j \in 1..(i - 1) : SeenExited(j)
    /\ pause' = [pause EXCEPT ![i] = "live"]
    /\ dir' = [dir EXCEPT ![i].st = "created"]
    /\ UNCHANGED <<cmd, exits, helper, shimVars, guestVars, ending, budget>>

\* start returns at once; guest-start goes on in the background.
DoStart(i) ==
    /\ cmd[i] = "none"
    /\ dir[i].st = "created"
    /\ pause' = [pause EXCEPT ![i] = "live"]
    /\ dir' = [dir EXCEPT ![i].st = "running"]
    /\ helper' = [helper EXCEPT ![i].pc = "sandbox"]
    /\ UNCHANGED <<cmd, exits, shimVars, guestVars, ending, budget>>

\* guestHasExited asks the shim only when no stamp decides the answer.
GuestHasExited(i) == dir[i].exited \/ (dir[i].started /\ ~GuestRunning)

\* state reads state.json and asks the shim whether the guest runs...
DoState(i) ==
    /\ cmd[i] = "none"
    /\ dir[i].st # "none"
    /\ IF dir[i].started /\ ~dir[i].exited /\ dir[i].st = "running" /\ pause[i] # "dead"
       THEN QueryStatus ELSE UNCHANGED obj
    /\ cmd' = IF pause[i] = "dead" \/ (dir[i].st = "running" /\ GuestHasExited(i))
              THEN [cmd EXCEPT ![i] = "state"]
              ELSE cmd
    /\ UNCHANGED <<dir, pause, exits, helper, starting, shim, cid, guestVars, ending, budget>>

\* Mutant: state writes the status back as it read it.
MutApplyStoppedState(i) ==
    /\ cmd[i] = "state"
    /\ dir' = [dir EXCEPT ![i].st = "running"]
    /\ cmd' = [cmd EXCEPT ![i] = "none"]
    /\ UNCHANGED <<pause, exits, helper, shimVars, guestVars, ending, budget>>

\* ...and writes back what it read, as stopped.
ApplyStoppedState(i) ==
    /\ cmd[i] = "state"
    /\ dir' = [dir EXCEPT ![i].st = "stopped"]
    /\ cmd' = [cmd EXCEPT ![i] = "none"]
    /\ UNCHANGED <<pause, exits, helper, shimVars, guestVars, ending, budget>>

\* kill reads state.json...
DoKill(i) ==
    /\ cmd[i] = "none"
    /\ dir[i].st = "running"
    /\ \/ ending /\ UNCHANGED budget
       \/ ~ending /\ Spend("kill")
    /\ cmd' = [cmd EXCEPT ![i] = "kill"]
    /\ UNCHANGED <<dir, pause, exits, helper, shimVars, guestVars, ending>>

\* ...has the shim stop the guest process...
KillStopGuest(i) ==
    /\ cmd[i] = "kill"
    /\ StopGuest(i)
    /\ cmd' = [cmd EXCEPT ![i] = "signal"]
    /\ UNCHANGED <<dir, pause, exits, helper, starting, shim, cid, vm, ctr, ending, budget>>

\* ...signals the pause and writes back what it read, as stopped.
KillSignalPause(i) ==
    /\ cmd[i] = "signal"
    /\ pause' = [pause EXCEPT ![i] = IF @ = "live" THEN "term" ELSE @]
    /\ dir' = [dir EXCEPT ![i].st = "stopped"]
    /\ cmd' = [cmd EXCEPT ![i] = "none"]
    /\ UNCHANGED <<exits, helper, shimVars, guestVars, ending, budget>>

\* The kubelet removes an exited container when a later one has exited too,
\* and every container of a Pod that is being deleted.  delete stops the
\* guest process...
DoDelete(i) ==
    /\ cmd[i] = "none"
    /\ dir[i].st # "none" /\ SeenExited(i)
    /\ \/ ending
       \/ ~ending /\ \E j \in Instances : j > i /\ SeenExited(j)
    /\ StopGuest(i)
    /\ cmd' = [cmd EXCEPT ![i] = "delete"]
    /\ UNCHANGED <<dir, pause, exits, helper, starting, shim, cid, vm, ctr, ending, budget>>

\* ...kills a pause that is still there and removes the directory.
DeleteRemoveAll(i) ==
    /\ cmd[i] = "delete"
    /\ pause' = [pause EXCEPT ![i] = "dead"]
    /\ exits' = IF pause[i] = "dead" THEN exits ELSE [exits EXCEPT ![i] = Killed]
    /\ dir' = [dir EXCEPT ![i] = NoDir]
    /\ cmd' = [cmd EXCEPT ![i] = "none"]
    /\ UNCHANGED <<helper, shimVars, guestVars, ending, budget>>

\* The pause exits with the code in the exitcode file, 0 without one; conmon
\* puts the code where CRI-O looks.
PauseExit(i) ==
    /\ pause[i] = "term"
    /\ pause' = [pause EXCEPT ![i] = "dead"]
    /\ exits' = [exits EXCEPT ![i] = IF dir[i].exitcode = NoCode THEN 0 ELSE dir[i].exitcode]
    /\ UNCHANGED <<dir, cmd, helper, shimVars, guestVars, ending, budget>>
-----------------------------------------------------------------------------
(* guest-start and guest-wait.                                             *)

Helper(i, pc) == helper' = [helper EXCEPT ![i].pc = pc]

\* The helper goes on without the code, or is done.
Onward(i, pc) == helper' = [helper EXCEPT ![i] = [NoHelper EXCEPT !.pc = pc]]
Leave(i) == Onward(i, "done")

\* Mutant: guest-start leaves on an error without finishOCIContainer.
MutFail(i) == Leave(i)

\* An error of guest-start: finishOCIContainer with code 1.
Fail(i) == helper' = [helper EXCEPT ![i].pc = "files", ![i].code = 1]

\* RunPodSandbox: at once when the store says the sandbox is ready, else
\* when the VM's agent answers a ping; an error when the time is up or the
\* shim goes away.
RunPodSandbox(i) ==
    /\ helper[i].pc = "sandbox"
    /\ \/ shim.ready /\ Helper(i, "create") /\ UNCHANGED <<shim, cid>>
       \/ /\ ~shim.ready /\ vm # 0 /\ ~ending
          /\ shim' = [shim EXCEPT !.ready = TRUE]
          /\ cid' = vm
          /\ Helper(i, "create")
       \/ ~shim.ready /\ Fail(i) /\ UNCHANGED <<shim, cid>>
    /\ UNCHANGED <<hostVars, starting, obj, guestVars, ending, budget>>

\* The criid file, then CreateContainer, which replaces the stored object.
CreateContainer(i) ==
    /\ helper[i].pc = "create"
    /\ dir' = [dir EXCEPT ![i].criid = dir[i].st # "none"]
    /\ obj' = [obj EXCEPT ![i] = NewObj]
    /\ shim' = [shim EXCEPT !.ctr = i]
    /\ Helper(i, "call")
    /\ UNCHANGED <<cmd, pause, exits, starting, cid, guestVars, ending, budget>>

\* StartContainer arrives at the shim, which takes the stored object and
\* dials the agent.
CallStartContainer(i) ==
    /\ helper[i].pc = "call"
    /\ IF shim.ctr # 0 /\ Reachable
       THEN /\ starting' = [starting EXCEPT ![i] = [pc |-> "fill", obj |-> shim.ctr]]
            /\ Helper(i, "start")
       ELSE Fail(i) /\ UNCHANGED starting
    /\ UNCHANGED <<hostVars, obj, shim, cid, guestVars, ending, budget>>

\* The root filesystem is there and the agent starts the process, which
\* takes the place of the one in its map, whether or not the shim still waits.
Start(i) ==
    /\ starting[i].pc \in {"fill", "late"}
    /\ proc' = [proc EXCEPT ![i].st = "live"]
    /\ ctr' = i
    /\ starting' = [starting EXCEPT ![i] = IF @.pc = "late" THEN NoStart ELSE [@ EXCEPT !.pc = "started"]]
    /\ UNCHANGED <<hostVars, helper, obj, shim, cid, vm, ending, budget>>

\* The call answers its caller, who may have given up: the object is put
\* back into the store as running.
StartReturns(i) ==
    LET o == starting[i].obj
    IN  /\ starting[i].pc = "started"
        /\ obj' = [obj EXCEPT ![o].st = "running"]
        /\ shim' = [shim EXCEPT !.ctr = o]
        /\ starting' = [starting EXCEPT ![i] = NoStart]
        /\ IF helper[i].pc = "start" THEN Helper(i, "mark") ELSE UNCHANGED helper
        /\ UNCHANGED <<hostVars, cid, guestVars, ending, budget>>

\* The root filesystem cannot be filled, or the process not be executed.
StartFails(i) ==
    /\ starting[i].pc \in {"fill", "late"}
    /\ starting' = [starting EXCEPT ![i] = NoStart]
    /\ IF helper[i].pc = "start" THEN Fail(i) ELSE UNCHANGED helper
    /\ UNCHANGED <<hostVars, obj, shim, cid, guestVars, ending, budget>>

\* shimJSON gives up after 4 minutes; the shim does not notice.
StartTimesOut(i) ==
    /\ helper[i].pc = "start"
    /\ Spend("timeout")
    /\ Fail(i)
    /\ UNCHANGED <<hostVars, shimVars, guestVars, ending>>

\* The shim's call of the agent gives up after 60 seconds; the agent goes on.
StartGivenUp(i) ==
    /\ starting[i].pc = "fill"
    /\ Spend("timeout")
    /\ starting' = [starting EXCEPT ![i].pc = "late"]
    /\ IF helper[i].pc = "start" THEN Fail(i) ELSE UNCHANGED helper
    /\ UNCHANGED <<hostVars, obj, shim, cid, guestVars, ending>>

\* The guest-started stamp; guest-wait takes over.
MarkStarted(i) ==
    /\ helper[i].pc = "mark"
    /\ dir' = [dir EXCEPT ![i].started = dir[i].st # "none"]
    /\ Helper(i, "await")
    /\ UNCHANGED <<cmd, pause, exits, shimVars, guestVars, ending, budget>>

\* guest-wait: WaitContainer on the process the agent's map shows, or an
\* error at once.  Without a criid file it leaves.
WaitContainer(i) ==
    /\ helper[i].pc = "await"
    /\ IF ~dir[i].criid THEN Leave(i)
       ELSE IF shim.ctr # 0 /\ Answers
            THEN helper' = [helper EXCEPT ![i].pc = "wait", ![i].on = ctr]
            ELSE Helper(i, "status")
    /\ UNCHANGED <<hostVars, shimVars, guestVars, ending, budget>>

\* Mutant: guest-wait does not wait.
MutWaitEnds(i) ==
    /\ helper[i].pc = "wait"
    /\ Helper(i, "status")
    /\ UNCHANGED <<hostVars, shimVars, guestVars, ending, budget>>

WaitEnds(i) ==
    /\ helper[i].pc = "wait"
    /\ ~Live(helper[i].on)
    /\ helper' = [helper EXCEPT ![i].pc = "status", ![i].on = 0]
    /\ UNCHANGED <<hostVars, shimVars, guestVars, ending, budget>>

\* guestExitCode: the code of the object after a ContainerStatus, 1 when the
\* shim does not know the container.
GuestExitCode(i) ==
    /\ helper[i].pc = "status"
    /\ QueryStatus
    /\ helper' = [helper EXCEPT ![i].pc = "files",
                                ![i].code = IF shim.ctr = 0 THEN 1 ELSE Refreshed(shim.ctr).code]
    /\ UNCHANGED <<hostVars, starting, shim, cid, guestVars, ending, budget>>

\* finishOCIContainer: the stamp, the exitcode file and CRI-O's exit file...
FinishFiles(i) ==
    /\ helper[i].pc = "files"
    /\ dir' = IF dir[i].st = "none" THEN dir
              ELSE [dir EXCEPT ![i].exited = TRUE, ![i].exitcode = helper[i].code]
    /\ exits' = [exits EXCEPT ![i] = helper[i].code]
    /\ Onward(i, "read")
    /\ UNCHANGED <<cmd, pause, shimVars, guestVars, ending, budget>>

\* ...then state.json is read, and found empty when a state command is just
\* writing it (which matters while the pause is not told)...
FinishRead(i) ==
    /\ helper[i].pc = "read"
    /\ \/ dir[i].st = "none" /\ Leave(i)
       \/ dir[i].st # "none" /\ Onward(i, "write")
       \/ cmd[i] = "state" /\ pause[i] = "live" /\ Onward(i, "blank")
    /\ UNCHANGED <<hostVars, shimVars, guestVars, ending, budget>>

\* Mutant: the pause is not told.
MutFinishWrite(i) ==
    /\ helper[i].pc \in {"write", "blank"}
    /\ dir' = [dir EXCEPT ![i].st = "stopped"]
    /\ Leave(i)
    /\ UNCHANGED <<cmd, pause, exits, shimVars, guestVars, ending, budget>>

\* ...and written as stopped, and the pause is told to exit, if its pid was
\* read; "misread" is a helper that has ended without.
FinishWrite(i) ==
    /\ dir' = [dir EXCEPT ![i].st = "stopped"]
    /\ \/ /\ helper[i].pc = "write"
          /\ pause' = [pause EXCEPT ![i] = IF @ = "live" THEN "term" ELSE @]
          /\ Leave(i)
       \/ /\ helper[i].pc = "blank"
          /\ Onward(i, "misread")
          /\ UNCHANGED pause
    /\ UNCHANGED <<cmd, exits, shimVars, guestVars, ending, budget>>
-----------------------------------------------------------------------------
(* Processes, faults and the end of the Pod.                               *)

\* A process ends by itself, or because of a SIGTERM.
ProcExits(i) ==
    /\ \/ /\ proc[i].st = "live"
          /\ \E c \in Codes : proc' = [proc EXCEPT ![i] = [st |-> "dead", code |-> c]]
       \/ /\ proc[i].st = "term"
          /\ proc' = [proc EXCEPT ![i] = [st |-> "dead", code |-> Termed]]
    /\ UNCHANGED <<hostVars, helper, shimVars, vm, ctr, ending, budget>>

\* What the helpers see when the connection behind their call breaks.
Disconnected ==
    helper' = [i \in Instances |->
                 IF helper[i].pc = "start" THEN [helper[i] EXCEPT !.pc = "files", !.code = 1]
                 ELSE IF helper[i].pc = "wait" THEN [helper[i] EXCEPT !.pc = "status", !.on = 0]
                 ELSE helper[i]]

NotStarting == [i \in Instances |-> NoStart]

\* The shim restarts with an empty store.
ShimCrash ==
    /\ Spend("shim")
    /\ shim' = [ready |-> FALSE, ctr |-> 0]
    /\ starting' = [i \in Instances |-> IF starting[i].pc = "late" THEN starting[i] ELSE NoStart]
    /\ Disconnected
    /\ UNCHANGED <<hostVars, obj, cid, guestVars, ending>>

\* The agent restarts with an empty map; the processes live on.
AgentCrash ==
    /\ vm # 0
    /\ Spend("agent")
    /\ ctr' = 0
    /\ starting' = NotStarting
    /\ Disconnected
    /\ UNCHANGED <<hostVars, obj, shim, cid, vm, proc, ending>>

\* The VM ends (a kernel panic, an evicted virt-launcher).
VMDies ==
    /\ vm # 0
    /\ Spend("vm")
    /\ vm' = 0
    /\ ctr' = 0
    /\ proc' = [i \in Instances |-> IF Live(i) THEN [st |-> "dead", code |-> Lost] ELSE proc[i]]
    /\ starting' = NotStarting
    /\ Disconnected
    /\ UNCHANGED <<hostVars, obj, shim, cid, ending>>

\* The adaptor's first or next VM comes up, with a CID of its own.
VMStarts ==
    /\ vm = 0 /\ ~ending
    /\ vm' = MaxVMDeaths - budget.vm + 1
    /\ UNCHANGED <<hostVars, helper, shimVars, ctr, proc, ending, budget>>

\* The Pod is deleted: no further restarts, and kills without limit.
EndPod ==
    /\ ~ending
    /\ ending' = TRUE
    /\ UNCHANGED <<hostVars, helper, shimVars, guestVars, budget>>

\* kill and delete of the sandbox container, after those of the workload:
\* StopPodSandbox and RemovePodSandbox.
RemovePodSandbox ==
    /\ ending /\ shim.ready
    /\ \A i \in Instances : pause[i] \in {"none", "dead"}
    /\ shim' = [shim EXCEPT !.ready = FALSE]
    /\ UNCHANGED <<hostVars, helper, starting, obj, cid, guestVars, ending, budget>>
-----------------------------------------------------------------------------
Init ==
    /\ dir = [i \in Instances |-> NoDir]
    /\ cmd = [i \in Instances |-> "none"]
    /\ pause = [i \in Instances |-> "none"]
    /\ exits = [i \in Instances |-> NoCode]
    /\ helper = [i \in Instances |-> NoHelper]
    /\ starting = NotStarting
    /\ obj = [i \in Instances |-> NewObj]
    /\ shim = [ready |-> FALSE, ctr |-> 0]
    /\ cid = 0
    /\ vm = 0
    /\ ctr = 0
    /\ proc = [i \in Instances |-> NoProc]
    /\ ending = FALSE
    /\ budget = [kill |-> MaxKills, shim |-> MaxShimCrashes, agent |-> MaxAgentCrashes,
                 vm |-> MaxVMDeaths, timeout |-> MaxTimeouts]

\* Commands that CRI-O decides to run, and those it has begun.
OciCommand(i) == DoCreate(i) \/ DoStart(i) \/ DoState(i) \/ DoKill(i) \/ DoDelete(i)
OciStep(i) ==
    \/ ApplyStoppedState(i)
    \/ KillStopGuest(i)
    \/ KillSignalPause(i)
    \/ DeleteRemoveAll(i)
    \/ PauseExit(i)

HelperStep(i) ==
    \/ RunPodSandbox(i)
    \/ CreateContainer(i)
    \/ CallStartContainer(i)
    \/ MarkStarted(i)
    \/ WaitContainer(i)
    \/ WaitEnds(i)
    \/ GuestExitCode(i)
    \/ FinishFiles(i)
    \/ FinishRead(i)
    \/ FinishWrite(i)

ShimStep(i) == Start(i) \/ StartReturns(i) \/ StartFails(i)

Next ==
    \/ \E i \in Instances : \/ OciCommand(i)
                             \/ OciStep(i)
                             \/ HelperStep(i)
                             \/ ShimStep(i)
                             \/ StartTimesOut(i)
                             \/ StartGivenUp(i)
                             \/ ProcExits(i)
    \/ ShimCrash
    \/ AgentCrash
    \/ VMDies
    \/ VMStarts
    \/ EndPod
    \/ RemovePodSandbox

Spec == Init /\ [][Next]_vars

\* Processes that run make progress, and a process obeys a SIGTERM.  CRI-O,
\* processes that may run for ever, faults and the VM owe nothing.
FairSpec ==
    /\ Spec
    /\ \A i \in Instances : /\ WF_vars(OciStep(i))
                            /\ WF_vars(HelperStep(i))
                            /\ WF_vars(ShimStep(i))
                            /\ WF_vars(proc[i].st = "term" /\ ProcExits(i))
-----------------------------------------------------------------------------
(* Properties.                                                             *)

Bytes == 0..255
Dirs == [st: {"none", "created", "running", "stopped"}, criid: BOOLEAN, started: BOOLEAN,
         exited: BOOLEAN, exitcode: Bytes \cup {NoCode}]
Helpers == {h \in [pc: {"none", "sandbox", "create", "call", "start", "mark", "await", "wait",
                        "status", "files", "read", "write", "blank", "misread", "done"},
                   on: Instances \cup {0}, code: Bytes] : h.pc = "wait" => h.on # 0}
Starts == {s \in [pc: {"none", "fill", "late", "started"}, obj: Instances \cup {0}] :
             s.pc # "none" => s.obj # 0}
Objs == [st: {"created", "running", "exited"}, code: Bytes]
Shims == [ready: BOOLEAN, ctr: Instances \cup {0}]
Procs == [st: {"none", "live", "term", "dead"}, code: Bytes]
Budgets == [kill: 0..MaxKills, shim: 0..MaxShimCrashes, agent: 0..MaxAgentCrashes,
            vm: 0..MaxVMDeaths, timeout: 0..MaxTimeouts]

\* For the proofs: the type invariant.
TypeOK ==
    /\ dir \in [Instances -> Dirs]
    /\ cmd \in [Instances -> {"none", "state", "kill", "signal", "delete"}]
    /\ pause \in [Instances -> {"none", "live", "term", "dead"}]
    /\ exits \in [Instances -> Bytes \cup {NoCode}]
    /\ helper \in [Instances -> Helpers]
    /\ starting \in [Instances -> Starts]
    /\ obj \in [Instances -> Objs]
    /\ shim \in Shims
    /\ cid \in Nat /\ vm \in Nat
    /\ ctr \in Instances \cup {0}
    /\ proc \in [Instances -> Procs]
    /\ ending \in BOOLEAN
    /\ budget \in Budgets

\* What has not happened yet: a kill of a container of a Pod that lives on, and
\* a start that outlasts its caller...
NoneOvertaken == budget.kill = MaxKills /\ budget.timeout = MaxTimeouts
\* ...or a shim or an agent that has forgotten what it had started.
NoneForgotten == NoneOvertaken /\ budget.shim = MaxShimCrashes /\ budget.agent = MaxAgentCrashes

\* The guest runs at most one process of the container, however the exit of
\* one instance and the start of the next are pieced together from files,
\* helpers and the agent's map, and also when the VM is replaced or the Pod
\* deleted.  (A shim or an agent that restarts forgets what it has started, and
\* a kill or a timeout reports an end that has not come.)
OneProcess == NoneForgotten => Cardinality({i \in Instances : Live(i)}) <= 1

\* The exit code an instance of a Pod that is not being deleted leaves for
\* CRI-O is the one of its own process, though it is fetched by an id that
\* all instances share, from the agent's map through the shim's store.  (A
\* process that went with its VM or its agent has no exit code to fetch.)
ExitCodeIsOwn ==
    \A i \in Instances :
        (/\ NoneForgotten /\ budget.vm = MaxVMDeaths
         /\ ~ending /\ dir[i].exitcode # NoCode /\ proc[i].st # "none")
            => proc[i].st = "dead" /\ dir[i].exitcode = proc[i].code

\* hack/sandbox-followups.md: "oci `state` is stopped if the guest process is
\* dead": a state command does not find a running guest behind an instance
\* that is marked started and whose process has ended, unless a start goes on
\* in the background that its caller has given up or a kill has overtaken.
DeadGuestIsNotRunning ==
    \A i \in Instances :
        NoneOvertaken /\ dir[i].st = "running" /\ dir[i].started /\ proc[i].st = "dead" /\ pause[i] = "live"
            => GuestHasExited(i)

\* The instances as ContainerRuntime sees them.
Phase(i) == IF dir[i].st # "none" THEN dir[i].st ELSE IF pause[i] = "none" THEN "absent" ELSE "gone"
Process(i) == IF Live(i) THEN "live" ELSE proc[i].st

Runtime == INSTANCE ContainerRuntime WITH
    N <- N,
    ExitCodes <- 0..255,
    Unknown <- NoCode,
    phase <- [i \in Instances |-> Phase(i)],
    code <- exits,
    process <- [i \in Instances |-> Process(i)]

\* Four commands and two helpers that read and write the files without a lock
\* implement the runtime CRI-O expects: a status only moves on, a restart
\* waits for a reported end, and no process comes back or runs in an instance
\* that was never started.
ImplementsRuntime == Runtime!CSpec

\* The end of a process reaches CRI-O, also when the shim, the agent or the VM
\* die on the way; and its pause exits too, unless the helper found state.json
\* empty and so did not know whom to tell.
ExitIsReported ==
    \A i \in Instances : proc[i].st = "dead" ~> SeenExited(i) /\ (pause[i] = "dead" \/ helper[i].pc = "misread")

\* A container that CRI-O was told is running gets a process or is reported
\* as exited: no start is lost in the background.
StartResolves ==
    \A i \in Instances : helper[i].pc = "sandbox" ~> proc[i].st # "none" \/ SeenExited(i)
=============================================================================
