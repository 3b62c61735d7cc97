------------------------------ MODULE NodeLink ------------------------------
(***************************************************************************)
(* How a node's shim finds the guest agent of a Pod.  The adaptor writes   *)
(* the VM's vsock CID to the Pod; RunPodSandbox reads the Pod by its name, *)
(* copies the CID to the host directory of the Pod's uid, and pings the    *)
(* agent through agent.sock in that directory, where the vsockfwd sidecar  *)
(* of the Pod's virt-launcher listens; vsockfwd dials the CID of the file, *)
(* or its own VM when vsock is local to the network namespace.  What       *)
(* answered once is kept in the shim's store and not asked again.          *)
(*                                                                         *)
(* Pods follow one another under one name (a StatefulSet's), their VMs may *)
(* be replaced, the kubelet may make their sandbox again, and container    *)
(* starts run in processes that outlive what started them.                 *)
(***************************************************************************)
EXTENDS Naturals, FiniteSets

CONSTANTS
    NPods,       \* Pods of the name, one after the other
    MaxVMs,      \* bound: VMs started
    MaxFaults,   \* bound: VM deaths, calls out of time, shim restarts, sandboxes
                 \* made again
    CopiedManifests, \* Pods may be made from the manifest of the last one
    None

ASSUME NodeAssumption == NPods \in Nat \ {0} /\ MaxVMs \in Nat
ASSUME FaultAssumption == MaxFaults \in Nat /\ CopiedManifests \in BOOLEAN

Uids == 1..NPods
CIDs == 1..MaxVMs  \* in the order KubeVirt gives them out; 0 is no CID

VARIABLES
    pod,     \* the Pod of the name: [uid, deleting, cid (its annotation)]
    lastUid, \* the uid of the last Pod created
    lastCID, \* the last CID given out
    vm,      \* for each uid the CID of its VM, 0 when there is none
    agent,   \* the VM's agent listens
    fwd,     \* the vsockfwd of its virt-launcher: off, wait, listen
    local,   \* vsock is local to the network namespace (ns_mode)
    dir,     \* the uids with a directory under /var/run/marooned
    cidFile, \* the CID in each directory, 0 when there is none
    store,   \* the shim's sandboxes: [ready, addr (the uid of the socket)]
    call,    \* each Pod's container start: [pc, at (the CID it reached)]
    budget   \* faults to come

vars == <<pod, lastUid, lastCID, vm, agent, fwd, local, dir, cidFile, store, call, budget>>
vmVars == <<lastCID, vm, agent, fwd, local>>
nodeVars == <<dir, cidFile, store>>

Fault == budget > 0 /\ budget' = budget - 1

NoSandbox == [ready |-> FALSE, addr |-> None]
Idle == [pc |-> "idle", at |-> 0]
Live == pod # None /\ ~pod.deleting
LiveUid == IF Live THEN pod.uid ELSE 0
-----------------------------------------------------------------------------
(* The Pod, its VM, and the adaptor.                                       *)

\* A new Pod; a copied manifest brings the annotation of the last one's VM.
CreatePod ==
    /\ pod = None
    /\ lastUid < NPods
    /\ lastUid' = lastUid + 1
    /\ \E cid \in IF CopiedManifests THEN {0, lastCID} ELSE {0} :
          pod' = [uid |-> lastUid', deleting |-> FALSE, cid |-> cid]
    /\ UNCHANGED <<vmVars, nodeVars, call, budget>>

DeletePod ==
    /\ Live
    /\ pod' = [pod EXCEPT !.deleting = TRUE]
    /\ UNCHANGED <<lastUid, vmVars, nodeVars, call, budget>>

\* The adaptor has asked for the VMI's deletion and let the Pod go; the VM
\* may take its time to stop.
PodGone ==
    /\ pod # None /\ pod.deleting
    /\ pod' = None
    /\ UNCHANGED <<lastUid, vmVars, nodeVars, call, budget>>

\* KubeVirt makes the virt-launcher Pod, which the webhook gives a vsockfwd
\* for the uid of the Pod (MutateVirtLauncher), and gives the VM a CID.
StartVM ==
    /\ Live
    /\ vm[pod.uid] = 0
    /\ lastCID < MaxVMs
    /\ lastCID' = lastCID + 1
    /\ vm' = [vm EXCEPT ![pod.uid] = lastCID']
    /\ fwd' = [fwd EXCEPT ![pod.uid] = "wait"]
    /\ UNCHANGED <<pod, lastUid, agent, local, nodeVars, call, budget>>

AgentListens(u) ==
    /\ vm[u] # 0 /\ ~agent[u]
    /\ agent' = [agent EXCEPT ![u] = TRUE]
    /\ UNCHANGED <<pod, lastUid, lastCID, vm, fwd, local, nodeVars, call, budget>>

\* A VM stops after its Pod, or dies under it.
VMDies(u) ==
    /\ vm[u] # 0
    /\ IF LiveUid = u THEN Fault ELSE UNCHANGED budget
    /\ vm' = [vm EXCEPT ![u] = 0]
    /\ agent' = [agent EXCEPT ![u] = FALSE]
    /\ fwd' = [fwd EXCEPT ![u] = "off"]
    /\ UNCHANGED <<pod, lastUid, lastCID, local, nodeVars, call>>

\* annotatePod writes the CID of the VM that runs now.
AnnotatePod ==
    /\ Live
    /\ vm[pod.uid] # 0 /\ pod.cid # vm[pod.uid]
    /\ pod' = [pod EXCEPT !.cid = vm[pod.uid]]
    /\ UNCHANGED <<lastUid, vmVars, nodeVars, call, budget>>

\* vsockfwd cannot make the directory: it waits for the shim to do it.
FwdListens(u) ==
    /\ fwd[u] = "wait" /\ u \in dir
    /\ fwd' = [fwd EXCEPT ![u] = "listen"]
    /\ UNCHANGED <<pod, lastUid, lastCID, vm, agent, local, nodeVars, call, budget>>
-----------------------------------------------------------------------------
(* The shim.                                                               *)

\* ResolveGuestCID: vsockfwd's own VM when vsock is local, else the file's.
ResolveGuestCID(u) == IF local THEN vm[u] ELSE cidFile[u]

\* A connection to whatever has the CID; 0 when no agent answers.
DialVsock(cid) == IF \E w \in Uids : vm[w] = cid /\ agent[w] THEN cid ELSE 0

\* vsockfwd resolves and dials for each connection anew.
DialGuest(u) == DialVsock(ResolveGuestCID(u))

\* A connection to agent.sock of a directory: vsockfwd must listen there.
Dial(u) == IF fwd[u] = "listen" THEN DialGuest(u) ELSE 0

MutDialAgent(id) ==
    LET known == {u \in Uids : store[u].addr # None}
    IN  IF known = {} THEN 0 ELSE Dial(store[CHOOSE u \in known : \A w \in known : u <= w].addr)

\* dialAgent: the address is looked up under the sandbox's id every time.
DialAgent(id) == IF store[id].addr = None THEN 0 ELSE Dial(store[id].addr)

Go(u, pc) == call' = [call EXCEPT ![u].pc = pc]

MutRunPodSandbox(u) ==
    /\ LiveUid = u
    /\ call[u].pc \in {"idle", "failed"} \/ (call[u].pc = "started" /\ call[u].at # vm[u])
    /\ Go(u, IF store[u].ready THEN "ok" ELSE "wait")
    /\ UNCHANGED <<pod, lastUid, vmVars, nodeVars, budget>>

\* A container of the Pod is to start, or to start again since its VM has
\* gone: a sandbox that was ready once, with an address, is taken as it is.
RunPodSandbox(u) ==
    /\ LiveUid = u
    /\ call[u].pc \in {"idle", "failed"} \/ (call[u].pc = "started" /\ call[u].at # vm[u])
    /\ Go(u, IF store[u].ready /\ store[u].addr # None THEN "ok" ELSE "wait")
    /\ UNCHANGED <<pod, lastUid, vmVars, nodeVars, budget>>

EnsureSandboxDir(u) == dir' = dir \cup {u}

WriteCIDFile(u, cid) == cidFile' = [cidFile EXCEPT ![u] = cid]

\* One round of waitForVMI: the Pod that has the name now, whatever its uid.
\* Its directory is made in any case; its CID is copied once it has one.
WaitForVMI(u) ==
    /\ call[u].pc = "wait"
    /\ IF ~Live
       THEN Go(u, "failed") /\ UNCHANGED nodeVars
       ELSE /\ EnsureSandboxDir(pod.uid)
            /\ \/ pod.cid = 0 /\ UNCHANGED <<cidFile, store, call>>
               \/ /\ pod.cid # 0
                  /\ WriteCIDFile(pod.uid, pod.cid)
                  /\ store' = [store EXCEPT ![u].addr = pod.uid]
                  /\ Go(u, "dial")
    /\ UNCHANGED <<pod, lastUid, vmVars, budget>>

\* Dial and ping.  Without an answer the Pod is read again a second later.
Ping(u) ==
    /\ call[u].pc = "dial"
    /\ Go(u, IF DialAgent(u) # 0 THEN "answered" ELSE "wait")
    /\ UNCHANGED <<pod, lastUid, vmVars, nodeVars, budget>>

PutSandbox(u) ==
    /\ call[u].pc = "answered"
    /\ store' = [store EXCEPT ![u].ready = TRUE]
    /\ Go(u, "ok")
    /\ UNCHANGED <<pod, lastUid, vmVars, dir, cidFile, budget>>

\* The context of the call, or the shim's own timeout, ends the wait.
GiveUp(u) ==
    /\ call[u].pc \in {"wait", "dial"}
    /\ Fault
    /\ Go(u, "failed")
    /\ UNCHANGED <<pod, lastUid, vmVars, nodeVars>>

\* CreateContainer and StartContainer: a connection of their own.
StartContainer(u) ==
    LET cid == DialAgent(u)
    IN  /\ call[u].pc = "ok"
        /\ call' = [call EXCEPT ![u] = [pc |-> IF cid = 0 THEN "failed" ELSE "started", at |-> cid]]
        /\ UNCHANGED <<pod, lastUid, vmVars, nodeVars, budget>>

\* The kubelet ends the Pod's sandbox, with the Pod, or to make it again for
\* the same Pod.  Calls go on: StopPodSandbox leaves the address...
StopPodSandbox(u) ==
    /\ store[u].ready
    /\ IF LiveUid = u THEN Fault ELSE UNCHANGED budget
    /\ store' = [store EXCEPT ![u].ready = FALSE]
    /\ UNCHANGED <<pod, lastUid, vmVars, dir, cidFile, call>>

\* ...and RemovePodSandbox forgets it: counted when it takes the address from
\* a call that has just set it.
RemovePodSandbox(u) ==
    /\ store[u] # NoSandbox /\ ~store[u].ready
    /\ IF LiveUid = u /\ call[u].pc \in {"wait", "dial", "answered"} THEN Fault ELSE UNCHANGED budget
    /\ store' = [store EXCEPT ![u] = NoSandbox]
    /\ UNCHANGED <<pod, lastUid, vmVars, dir, cidFile, call>>

\* The shim restarts: store and calls are gone, the directories stay.
ShimRestart ==
    /\ Fault
    /\ store' = [u \in Uids |-> NoSandbox]
    /\ call' = [u \in Uids |-> IF call[u].pc \in {"idle", "started"} THEN call[u] ELSE [call[u] EXCEPT !.pc = "failed"]]
    /\ UNCHANGED <<pod, lastUid, vmVars, dir, cidFile>>
-----------------------------------------------------------------------------
Init ==
    /\ pod = None /\ lastUid = 0 /\ lastCID = 0
    /\ vm = [u \in Uids |-> 0]
    /\ agent = [u \in Uids |-> FALSE]
    /\ fwd = [u \in Uids |-> "off"]
    /\ local \in BOOLEAN
    /\ dir = {}
    /\ cidFile = [u \in Uids |-> 0]
    /\ store = [u \in Uids |-> NoSandbox]
    /\ call = [u \in Uids |-> Idle]
    /\ budget = MaxFaults

CallStep(u) == RunPodSandbox(u) \/ WaitForVMI(u) \/ Ping(u) \/ PutSandbox(u) \/ StartContainer(u)

Next ==
    \/ CreatePod \/ DeletePod \/ PodGone \/ StartVM \/ AnnotatePod \/ ShimRestart
    \/ \E u \in Uids : \/ AgentListens(u) \/ VMDies(u) \/ FwdListens(u)
                       \/ StopPodSandbox(u) \/ RemovePodSandbox(u) \/ CallStep(u) \/ GiveUp(u)

Spec == Init /\ [][Next]_vars

\* KubeVirt starts VMs, guests boot, the adaptor annotates, vsockfwd and the
\* shim poll, and the kubelet starts again what has failed.
FairSpec ==
    /\ Spec
    /\ WF_vars(StartVM \/ AnnotatePod)
    /\ \A u \in Uids : WF_vars(AgentListens(u) \/ FwdListens(u)) /\ WF_vars(CallStep(u))
-----------------------------------------------------------------------------
Pods == [uid : Uids, deleting : BOOLEAN, cid : CIDs \cup {0}]
Sandboxes == [ready : BOOLEAN, addr : Uids \cup {None}]
Starts == [pc : {"idle", "wait", "dial", "answered", "ok", "started", "failed"}, at : CIDs \cup {0}]

\* For the proofs: every variable keeps its shape, a stopped VM has neither agent nor
\* forwarder, and nothing listens or is written where no directory is.
TypeOK ==
    /\ pod \in Pods \cup {None}
    /\ lastUid \in 0..NPods /\ lastCID \in 0..MaxVMs
    /\ vm \in [Uids -> CIDs \cup {0}]
    /\ agent \in [Uids -> BOOLEAN]
    /\ fwd \in [Uids -> {"off", "wait", "listen"}]
    /\ dir \subseteq Uids
    /\ cidFile \in [Uids -> CIDs \cup {0}]
    /\ store \in [Uids -> Sandboxes]
    /\ call \in [Uids -> Starts]
    /\ local \in BOOLEAN /\ budget \in Nat
    /\ \A u \in Uids : /\ vm[u] = 0 => ~agent[u] /\ fwd[u] = "off"
                       /\ fwd[u] = "listen" \/ cidFile[u] # 0 => u \in dir

\* Whatever a start of the Pod that has the name now is connected to, in
\* the ping that makes its sandbox ready and in the start itself, is that
\* Pod's own VM of this moment: not an earlier Pod's that has not stopped
\* yet, by a socket, a file or a sandbox left behind, and not a VM that has
\* been replaced.  (A start
\* that an earlier Pod of the name has left behind has no such promise.)
OwnVMOnly ==
    [][\A u \in Uids : pod # None /\ pod.uid = u =>
          /\ call[u].pc = "dial" /\ call'[u].pc = "answered" => DialAgent(u) = vm[u]
          /\ call[u].pc = "ok" /\ call'[u].pc = "started" => call'[u].at = vm[u]]_vars

\* A sandbox that is ready in the store while its VM is another: the one
\* case in which the shim never looks at the Pod's CID again.
ReadyButStale(u) == ~local /\ store[u].ready /\ store[u].addr # None /\ cidFile[u] # vm[u]

\* Every start of a Pod that stays gets through to the Pod's VM, whatever
\* fails, restarts, times out or is replaced on the way, unless the sandbox
\* is ready but stale.
StartsGetThrough ==
    \A u \in Uids :
        LiveUid = u ~>
            \/ LiveUid # u
            \/ call[u].pc = "started" /\ call[u].at = vm[u]
            \/ ReadyButStale(u)
            \/ vm[u] = 0 /\ lastCID = MaxVMs
=============================================================================
