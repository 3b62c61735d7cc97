--------------------------- MODULE SandboxAdaptor ---------------------------
(***************************************************************************)
(* The sandbox adaptor (pkg/sandbox/adaptor): the leader-elected           *)
(* controller that gives every Pod of RuntimeClass marooned one hidden     *)
(* VirtualMachineInstance, publishes the VMI's address on the Pod, and     *)
(* deletes the VMI when the Pod goes.  Around it: the API server with      *)
(* optimistic concurrency, the mutating webhook that runs on every Pod     *)
(* write (pkg/webhook), the informer caches that lag the API server, the   *)
(* shim's size hint (cmd/marooned-shim), and, as the environment,          *)
(* users, the scheduler, the kubelet, KubeVirt and the garbage collector.  *)
(***************************************************************************)
EXTENDS Naturals, FiniteSets

CONSTANTS
    Names,       \* the "namespace/name" keys of Pods
    UIDs,        \* Pod UIDs; a Pod recreated under its name has a new UID
    NameOf,      \* the name each UID is used for
    None,        \* the uid of an absent Pod, the key of an idle worker
    Workers,     \* the adaptor's worker goroutines
    Sizes,       \* image sizes the shim may report, in MiB
    WorkloadCount,  \* containers plus init containers of a Pod
    PVCRoots,    \* may a Pod's rootfs be a PVC?  A subset of BOOLEAN
    RawPods,     \* may a Pod ask for what the webhook strips?  A subset of BOOLEAN
    PublishGuestIPOnPod, \* the configuration's switch for EndpointSlices
    MaxVMIs,     \* bound: VMIs created in all; beyond it Create fails, as on a full quota
    MaxFaults,   \* bound: API calls that fail for reasons of their own
    MaxRestarts, \* bound: losses of leadership or crashes of the controller
    MaxWrites,   \* bound: Pod writes by the shim and by others
    MaxFailures, \* bound: VMIs that end in phase Failed or Succeeded
    MaxVMIDeletes, \* bound: VMIs deleted by somebody other than the adaptor
    MaxFlips     \* bound: times the operator adds or removes the webhook

ASSUME NamesAssumption == NameOf \in [UIDs -> Names] /\ None \notin UIDs \cup Names
ASSUME SizesAssumption == Sizes \subseteq Nat /\ WorkloadCount \in Nat \ {0}
ASSUME ChoicesAssumption == /\ PVCRoots \subseteq BOOLEAN
                            /\ RawPods \subseteq BOOLEAN
                            /\ PublishGuestIPOnPod \in BOOLEAN
ASSUME BoundsAssumption == /\ MaxVMIs \in Nat
                           /\ MaxFaults \in Nat
                           /\ MaxRestarts \in Nat
                           /\ MaxWrites \in Nat
                           /\ MaxFailures \in Nat
                           /\ MaxVMIDeletes \in Nat
                           /\ MaxFlips \in Nat

VARIABLES
    pod,       \* API server: the Pod stored under each name
    vmi,       \* API server: the VMI marooned-<uid> of each Pod UID
    slice,     \* API server: the incarnation whose IP the EndpointSlice of a name carries
    webhookOn, \* is the mutating webhook registered?
    podCache,  \* the adaptor's Pod informer store
    vmiCache,  \* the adaptor's VMI informer store
    queue,     \* the workqueue: keys waiting, or dirty while being processed
    delayed,   \* keys handed to AddRateLimited or AddAfter, not yet due
    worker,    \* what each worker goroutine is doing
    used,      \* UIDs given to a Pod so far
    lastInc,   \* VMI objects created so far: the next VMI's identity
    budget,    \* how many more environment faults of each kind may happen
    released   \* history: UIDs of the Pods whose finalizer the adaptor removed

apiVars == <<pod, vmi, slice, webhookOn>>
cacheVars == <<podCache, vmiCache>>
queueVars == <<queue, delayed>>
vars == <<pod, vmi, slice, webhookOn, podCache, vmiCache, queue, delayed,
          worker, used, lastInc, budget, released>>

-----------------------------------------------------------------------------
(* Objects.  An absent Pod has uid None, an absent VMI incarnation 0.     *)

NoPod ==
    [uid |-> None, rv |-> 0, del |-> FALSE, fin |-> FALSE,
     bound |-> FALSE, raw |-> FALSE, pvc |-> FALSE, bytes |-> 0,
     ref |-> FALSE, cid |-> 0, ip |-> 0]

\* cid and ip name the VMI incarnation the published vsock CID and guest IP
\* belong to (0: not published); fin is the sandbox finalizer; raw says the
\* spec still holds volumes, mounts or probes that the webhook rewrites.
LivePodObject ==
    [uid: UIDs, rv: Nat, del: BOOLEAN, fin: BOOLEAN,
     bound: BOOLEAN, raw: BOOLEAN, pvc: BOOLEAN, bytes: Nat,
     ref: BOOLEAN, cid: Nat, ip: Nat]

PodObject == LivePodObject \cup {NoPod}

\* Phase "Final" stands for Failed and Succeeded, which the code treats alike.
\* cap is the capacity of the user-rootfs emptyDisk, 0 when it is a PVC.
VMIObject ==
    [inc: Nat, phase: {"Pending", "Running", "Final"}, cap: Nat,
     owned: BOOLEAN, del: BOOLEAN]

NoVMI == [inc |-> 0, phase |-> "Pending", cap |-> 0,
          owned |-> FALSE, del |-> FALSE]

PCs == {"idle", "ensure", "recreate", "create", "annotate", "publish",
        "delete", "strip"}

WorkerState ==
    [pc: PCs, key: Names \cup {None}, pod: PodObject, vmi: VMIObject]

IdleWorker == [pc |-> "idle", key |-> None, pod |-> NoPod, vmi |-> NoVMI]

Exists(p) == p.uid # None
VMIExists(v) == v.inc # 0
-----------------------------------------------------------------------------
(* Pure operators of the code.                                             *)

MinUserRootfs == 256
UserRootfsSlack == 128

\* The emptyDisk a Pod of n containers gets for an image of b MiB.
UserRootfsCapacityN(b, n) ==
    IF b + UserRootfsSlack < MinUserRootfs * n THEN MinUserRootfs * n
                                               ELSE b + UserRootfsSlack

\* Mutant: a disk of exactly the capacity wanted counts as too small.
MutEmptyDiskTooSmall(v, p) ==
    p.bytes > 0 /\ ~p.pvc /\ v.cap # 0 /\ v.cap <= UserRootfsCapacityN(p.bytes, WorkloadCount)

\* A reported size of 0 means no report yet; a PVC rootfs has no emptyDisk.
EmptyDiskTooSmall(v, p) ==
    /\ p.bytes > 0
    /\ ~p.pvc
    /\ v.cap # 0
    /\ v.cap < UserRootfsCapacityN(p.bytes, WorkloadCount)

\* Mutant: the ownerReference is forgotten.
MutTranslate(p, inc) ==
    [inc |-> inc, phase |-> "Pending",
     cap |-> IF p.pvc THEN 0 ELSE UserRootfsCapacityN(p.bytes, WorkloadCount),
     owned |-> FALSE, del |-> FALSE]

\* The VMI that ensureVMI builds for p: owned by the Pod, sized for its hint.
Translate(p, inc) ==
    [inc |-> inc, phase |-> "Pending",
     cap |-> IF p.pvc THEN 0 ELSE UserRootfsCapacityN(p.bytes, WorkloadCount),
     owned |-> TRUE, del |-> FALSE]

\* Mutant: the guest IP is not compared.
MutCarries(p, v, ip) == p.ref /\ p.cid = v.inc

\* annotatePod has nothing to write: the Pod carries every value already.
Carries(p, v, ip) == p.ref /\ p.cid = v.inc /\ p.ip = ip

\* The Pod annotatePod writes; an empty IP leaves the old one.  (A Running
\* VMI has its CID: KubeVirt allocates it before it starts the VM.)
Annotated(p, v, ip) ==
    [p EXCEPT !.ref = TRUE, !.cid = v.inc, !.ip = IF ip # 0 THEN ip ELSE @]

\* Mutant: the webhook gives a deleting Pod its finalizer back.
MutMutateSandboxPod(p) == [p EXCEPT !.fin = TRUE, !.raw = FALSE]

\* The webhook on a Pod write: a deleting Pod passes unchanged, any other
\* gets the finalizer and loses what the guest provides itself.
MutateSandboxPod(p) ==
    IF p.del THEN p ELSE [p EXCEPT !.fin = TRUE, !.raw = FALSE]
-----------------------------------------------------------------------------
(* The API server.                                                         *)

\* A write of p (read earlier at p.rv) to the Pod stored under n is refused
\* when the object changed since, or when the webhook would change the spec
\* of a stored Pod, which is immutable.
Refused(n, p) ==
    \/ p.uid # pod[n].uid
    \/ p.rv # pod[n].rv
    \/ webhookOn /\ MutateSandboxPod(p).raw # p.raw

\* An accepted write goes through the webhook; one that changes nothing
\* keeps the resourceVersion.
Stored(n, p) ==
    LET q == IF webhookOn THEN MutateSandboxPod(p) ELSE p
    IN  IF q = pod[n] THEN q ELSE [q EXCEPT !.rv = @ + 1]

\* Deleting a VMI only marks it: KubeVirt holds finalizers on it.
MarkedDeleted(u) ==
    IF VMIExists(vmi[u]) THEN [vmi EXCEPT ![u].del = TRUE] ELSE vmi

Spend(kind) ==
    /\ budget[kind] > 0
    /\ budget' = [budget EXCEPT ![kind] = @ - 1]
-----------------------------------------------------------------------------
(* The workqueue.                                                          *)

\* Mutant: a queue that hands out a key that is being processed.
MutProcessing == {}

Processing == {worker[w].key : w \in {x \in Workers : worker[x].pc # "idle"}}

Goto(w, pc) == worker' = [worker EXCEPT ![w].pc = pc]

\* BackOff and Immediate both put the key back after a delay.
Requeue(w) ==
    /\ worker' = [worker EXCEPT ![w] = IdleWorker]
    /\ delayed' = delayed \cup {worker[w].key}
    /\ UNCHANGED queue

Forget(w) ==
    /\ worker' = [worker EXCEPT ![w] = IdleWorker]
    /\ UNCHANGED queueVars

\* AddRateLimited or AddAfter comes due.
DelayExpires(n) ==
    /\ n \in delayed
    /\ delayed' = delayed \ {n}
    /\ queue' = queue \cup {n}
    /\ UNCHANGED <<apiVars, cacheVars, worker, used, lastInc, budget, released>>

\* Mutant: execute does not look whether the Pod exists and is bound.
MutExecute(w, n) ==
    /\ worker[w].pc = "idle"
    /\ n \in queue \ Processing
    /\ queue' = queue \ {n}
    /\ worker' = [worker EXCEPT ![w] =
                    [pc |-> IF podCache[n].del THEN "delete" ELSE "ensure",
                     key |-> n, pod |-> podCache[n], vmi |-> NoVMI]]
    /\ UNCHANGED <<apiVars, cacheVars, delayed, used, lastInc, budget, released>>

\* A key is handed to one worker at a time; execute starts by reading the
\* Pod from the informer store and has nothing to do unless the Pod is a
\* bound one, or a deleting one that still has the finalizer.
Execute(w, n) ==
    LET p == podCache[n]
        pc == IF p.del THEN IF p.fin THEN "delete" ELSE "idle"
              ELSE IF p.bound THEN "ensure" ELSE "idle"
    IN  /\ worker[w].pc = "idle"
        /\ n \in queue \ Processing
        /\ queue' = queue \ {n}
        /\ worker' = IF pc = "idle" THEN worker
                     ELSE [worker EXCEPT ![w] = [pc |-> pc, key |-> n, pod |-> p, vmi |-> NoVMI]]
        /\ UNCHANGED <<apiVars, cacheVars, delayed, used, lastInc, budget, released>>
-----------------------------------------------------------------------------
(* ensureVMI and annotatePod, one step per read of a store or API call.    *)

\* lookupExisting, and what ensureVMI decides from the VMI it found.  The
\* annotation, which only the adaptor writes, names the VMI the Pod implies.
LookupExisting(w) ==
    LET p == worker[w].pod
        v == vmiCache[p.uid]
        Continue(pc) == /\ worker' = [worker EXCEPT ![w].pc = pc, ![w].vmi = v]
                        /\ UNCHANGED queueVars
    IN  /\ worker[w].pc = "ensure"
        /\ \/ ~VMIExists(v) /\ Continue("create")
           \/ /\ VMIExists(v)
              /\ v.phase = "Final" \/ EmptyDiskTooSmall(v, p)
              /\ Continue("recreate")
           \/ /\ VMIExists(v)
              /\ v.phase # "Final" /\ ~EmptyDiskTooSmall(v, p)
              /\ IF v.phase = "Running" THEN Continue("annotate") ELSE Requeue(w)
        /\ UNCHANGED <<apiVars, cacheVars, used, lastInc, budget, released>>

\* Delete of a finished or too small VMI, by name; its error is dropped.
RecreateVMI(w) ==
    LET u == worker[w].pod.uid
    IN  /\ worker[w].pc = "recreate"
        /\ \/ vmi' = MarkedDeleted(u) /\ UNCHANGED budget
           \/ Spend("fault") /\ UNCHANGED vmi
        /\ Requeue(w)
        /\ UNCHANGED <<pod, slice, webhookOn, cacheVars, used, lastInc, released>>

\* Create of the translated VMI; AlreadyExists and other errors back off, as
\* does a translation that refuses the Pod (what it refuses is PodVolumes'
\* matter); a created VMI is not Running yet, so the key comes back in any case.
CreateVMI(w) ==
    LET p == worker[w].pod
    IN  /\ worker[w].pc = "create"
        /\ \/ /\ ~VMIExists(vmi[p.uid])
              /\ lastInc < MaxVMIs
              /\ vmi' = [vmi EXCEPT ![p.uid] = Translate(p, lastInc + 1)]
              /\ lastInc' = lastInc + 1
              /\ UNCHANGED budget
           \/ /\ VMIExists(vmi[p.uid]) \/ lastInc >= MaxVMIs
              /\ UNCHANGED <<vmi, lastInc, budget>>
           \/ Spend("fault") /\ UNCHANGED <<vmi, lastInc>>
        /\ Requeue(w)
        /\ UNCHANGED <<pod, slice, webhookOn, cacheVars, used, released>>

\* serviceBackendIP: the incarnation's address, or none when the guest
\* reports none and the list of virt-launcher Pods fails.
ServiceBackendIP(v, ip) ==
    \/ ip = v.inc /\ UNCHANGED budget
    \/ ip = 0 /\ Spend("fault")

\* The Pod is annotated: the EndpointSlice is next, where it is wanted.
AfterAnnotate(w) ==
    IF PublishGuestIPOnPod THEN Goto(w, "publish") /\ UNCHANGED queueVars
                           ELSE Forget(w)

\* annotatePod when the Pod it read carries every value already.
AnnotateSkip(w) ==
    LET p == worker[w].pod
        v == worker[w].vmi
    IN  /\ worker[w].pc = "annotate"
        /\ \E ip \in {0, v.inc} :
              ServiceBackendIP(v, ip) /\ Carries(p, v, ip)
        /\ AfterAnnotate(w)
        /\ UNCHANGED <<apiVars, cacheVars, used, lastInc, released>>

\* annotatePod's Update of the copy it read, accepted by the API server.
AnnotateUpdate(w) ==
    LET n == worker[w].key
        p == worker[w].pod
        v == worker[w].vmi
    IN  /\ worker[w].pc = "annotate"
        /\ \E ip \in {0, v.inc} :
              /\ ServiceBackendIP(v, ip)
              /\ ~Carries(p, v, ip)
              /\ ~Refused(n, p)
              /\ pod' = [pod EXCEPT ![n] = Stored(n, Annotated(p, v, ip))]
        /\ AfterAnnotate(w)
        /\ UNCHANGED <<vmi, slice, webhookOn, cacheVars, used, lastInc, released>>

\* annotatePod's Update refused, or failed: back off.
AnnotateError(w) ==
    LET p == worker[w].pod
        v == worker[w].vmi
    IN  /\ worker[w].pc = "annotate"
        /\ \/ /\ Refused(worker[w].key, p)
              /\ ~Carries(p, v, v.inc)
              /\ UNCHANGED budget
           \/ /\ Refused(worker[w].key, p) \/ ~Carries(p, v, v.inc)
              /\ Spend("fault")
        /\ Requeue(w)
        /\ UNCHANGED <<apiVars, cacheVars, used, lastInc, released>>

\* publishEndpointSlice: Create, or Get and Update of the existing slice,
\* which nobody else writes.  Its error is only logged.
PublishEndpointSlice(w) ==
    LET n == worker[w].key
    IN  /\ worker[w].pc = "publish"
        /\ \/ slice' = [slice EXCEPT ![n] = worker[w].vmi.inc] /\ UNCHANGED budget
           \/ Spend("fault") /\ UNCHANGED slice
        /\ Forget(w)
        /\ UNCHANGED <<pod, vmi, webhookOn, cacheVars, used, lastInc, released>>
-----------------------------------------------------------------------------
(* handleDelete.                                                           *)

\* deleteSandboxVMI deletes marooned-<uid>, through the annotation or by
\* the implied name; an error is only logged.
DeleteSandboxVMI(w) ==
    LET u == worker[w].pod.uid
    IN  /\ worker[w].pc = "delete"
        /\ \/ vmi' = MarkedDeleted(u) /\ UNCHANGED budget
           \/ Spend("fault") /\ UNCHANGED vmi
        /\ Goto(w, "strip")
        /\ UNCHANGED <<pod, slice, webhookOn, cacheVars, queueVars, used, lastInc, released>>

\* The Update that removes the finalizer from the copy of the Pod it read.
StripFinalizer(w) ==
    LET n == worker[w].key
        p == worker[w].pod
    IN  /\ worker[w].pc = "strip"
        /\ ~Refused(n, p)
        /\ pod' = [pod EXCEPT ![n] = Stored(n, [p EXCEPT !.fin = FALSE])]
        /\ released' = released \cup {p.uid}
        /\ Forget(w)
        /\ UNCHANGED <<vmi, slice, webhookOn, cacheVars, used, lastInc, budget>>

StripError(w) ==
    /\ worker[w].pc = "strip"
    /\ \/ Refused(worker[w].key, worker[w].pod) /\ UNCHANGED budget
       \/ Spend("fault")
    /\ Requeue(w)
    /\ UNCHANGED <<apiVars, cacheVars, used, lastInc, released>>
-----------------------------------------------------------------------------
(* Informers and the life of the controller process.                       *)

\* A watch event reaches the Pod informer: store first, then enqueue.
SyncPod(n) ==
    /\ podCache[n] # pod[n]
    /\ podCache' = [podCache EXCEPT ![n] = pod[n]]
    /\ queue' = queue \cup {n}
    /\ UNCHANGED <<apiVars, vmiCache, delayed, worker, used, lastInc, budget, released>>

\* enqueueVMI: the key is the claimed-by annotation, the owner's name.
SyncVMI(u) ==
    /\ vmiCache[u] # vmi[u]
    /\ vmiCache' = [vmiCache EXCEPT ![u] = vmi[u]]
    /\ queue' = queue \cup {NameOf[u]}
    /\ UNCHANGED <<apiVars, podCache, delayed, worker, used, lastInc, budget, released>>

\* The hourly resync hands every stored object to the update handlers.
Resync(n) ==
    /\ n \notin queue
    /\ Exists(podCache[n]) \/ \E u \in UIDs : NameOf[u] = n /\ VMIExists(vmiCache[u])
    /\ queue' = queue \cup {n}
    /\ UNCHANGED <<apiVars, cacheVars, delayed, worker, used, lastInc, budget, released>>

\* The leader dies or loses its lease (which ends the process); the next
\* leader fills its stores and enqueues what it finds before it works.
Restart ==
    /\ Spend("restart")
    /\ worker' = [w \in Workers |-> IdleWorker]
    /\ podCache' = pod
    /\ vmiCache' = vmi
    /\ queue' = {n \in Names : Exists(pod[n])}
                  \cup {NameOf[u] : u \in {x \in UIDs : VMIExists(vmi[x])}}
    /\ delayed' = {}
    /\ UNCHANGED <<apiVars, used, lastInc, released>>
-----------------------------------------------------------------------------
(* The other writers.                                                      *)

\* A Pod is created; the webhook, when registered, sees it first.
CreatePod(u) ==
    LET n == NameOf[u]
    IN  /\ ~Exists(pod[n])
        /\ u \notin used
        /\ used' = used \cup {u}
        /\ \E pvc \in PVCRoots, raw \in RawPods :
              LET p == [NoPod EXCEPT !.uid = u, !.pvc = pvc, !.raw = raw]
              IN  pod' = [pod EXCEPT ![n] = Stored(n, p)]
        /\ UNCHANGED <<vmi, slice, webhookOn, cacheVars, queueVars, worker, lastInc, budget, released>>

\* A delete request sets the deletion timestamp.
DeletePod(n) ==
    /\ Exists(pod[n]) /\ ~pod[n].del
    /\ pod' = [pod EXCEPT ![n].del = TRUE, ![n].rv = @ + 1]
    /\ UNCHANGED <<vmi, slice, webhookOn, cacheVars, queueVars, worker, used, lastInc, budget, released>>

\* The scheduler binds the Pod (the binding subresource: no webhook).
BindPod(n) ==
    /\ Exists(pod[n]) /\ ~pod[n].del /\ ~pod[n].bound
    /\ pod' = [pod EXCEPT ![n].bound = TRUE, ![n].rv = @ + 1]
    /\ UNCHANGED <<vmi, slice, webhookOn, cacheVars, queueVars, worker, used, lastInc, budget, released>>

\* annotateRootfsBytes of the node's shim: Get and Update of the size hint,
\* of whichever container starts, on a Pod that may be deleting.  A
\* conflict or another error loses the hint.
AnnotateRootfsBytes(n) ==
    /\ Exists(pod[n]) /\ pod[n].bound
    /\ Spend("write")
    /\ ~Refused(n, pod[n])
    /\ \E b \in Sizes \ {pod[n].bytes} :
          pod' = [pod EXCEPT ![n] = Stored(n, [pod[n] EXCEPT !.bytes = b])]
    /\ UNCHANGED <<vmi, slice, webhookOn, cacheVars, queueVars, worker, used, lastInc, released>>

\* Any other write of the Pod (labels, the guest-stats patch): it passes
\* the webhook and changes the resourceVersion.
TouchPod(n) ==
    /\ Exists(pod[n])
    /\ Spend("write")
    /\ ~Refused(n, pod[n])
    /\ pod' = [pod EXCEPT ![n] = [Stored(n, pod[n]) EXCEPT !.rv = pod[n].rv + 1]]
    /\ UNCHANGED <<vmi, slice, webhookOn, cacheVars, queueVars, worker, used, lastInc, released>>

\* The kubelet has stopped the Pod and no finalizer holds the object.
PodGone(n) ==
    /\ Exists(pod[n]) /\ pod[n].del /\ ~pod[n].fin
    /\ pod' = [pod EXCEPT ![n] = NoPod]
    /\ UNCHANGED <<vmi, slice, webhookOn, cacheVars, queueVars, worker, used, lastInc, budget, released>>

\* createGatingMutatingWebhook registers the hook only while the server and
\* the controller have ready replicas.
FlipWebhook ==
    /\ Spend("flip")
    /\ webhookOn' = ~webhookOn
    /\ UNCHANGED <<pod, vmi, slice, cacheVars, queueVars, worker, used, lastInc, released>>

\* KubeVirt starts the VM.
StartVMI(u) ==
    /\ VMIExists(vmi[u]) /\ ~vmi[u].del /\ vmi[u].phase = "Pending"
    /\ vmi' = [vmi EXCEPT ![u].phase = "Running"]
    /\ UNCHANGED <<pod, slice, webhookOn, cacheVars, queueVars, worker, used, lastInc, budget, released>>

\* The VM crashes, is shut down or cannot be scheduled.
FailVMI(u) ==
    /\ VMIExists(vmi[u]) /\ vmi[u].phase # "Final"
    /\ Spend("failure")
    /\ vmi' = [vmi EXCEPT ![u].phase = "Final"]
    /\ UNCHANGED <<pod, slice, webhookOn, cacheVars, queueVars, worker, used, lastInc, released>>

\* Somebody else deletes the VMI: a user, a drain.
DeleteVMI(u) ==
    /\ VMIExists(vmi[u]) /\ ~vmi[u].del
    /\ Spend("vmidelete")
    /\ vmi' = MarkedDeleted(u)
    /\ UNCHANGED <<pod, slice, webhookOn, cacheVars, queueVars, worker, used, lastInc, released>>

\* KubeVirt has torn the VM down.
VMIGone(u) ==
    /\ VMIExists(vmi[u]) /\ vmi[u].del
    /\ vmi' = [vmi EXCEPT ![u] = NoVMI]
    /\ UNCHANGED <<pod, slice, webhookOn, cacheVars, queueVars, worker, used, lastInc, budget, released>>

\* The garbage collector deletes a VMI whose owner does not exist.
GarbageCollect(u) ==
    /\ VMIExists(vmi[u]) /\ ~vmi[u].del /\ vmi[u].owned
    /\ pod[NameOf[u]].uid # u
    /\ vmi' = MarkedDeleted(u)
    /\ UNCHANGED <<pod, slice, webhookOn, cacheVars, queueVars, worker, used, lastInc, budget, released>>
-----------------------------------------------------------------------------
Init ==
    /\ pod = [n \in Names |-> NoPod]
    /\ vmi = [u \in UIDs |-> NoVMI]
    /\ slice = [n \in Names |-> 0]
    /\ webhookOn \in BOOLEAN
    /\ podCache = pod
    /\ vmiCache = vmi
    /\ queue = {}
    /\ delayed = {}
    /\ worker = [w \in Workers |-> IdleWorker]
    /\ used = {}
    /\ lastInc = 0
    /\ budget = [fault |-> MaxFaults, restart |-> MaxRestarts,
                 write |-> MaxWrites, failure |-> MaxFailures,
                 vmidelete |-> MaxVMIDeletes, flip |-> MaxFlips]
    /\ released = {}

\* The steps of a worker goroutine that holds a key.
WorkerStep(w) ==
    \/ LookupExisting(w)
    \/ RecreateVMI(w)
    \/ CreateVMI(w)
    \/ AnnotateSkip(w)
    \/ AnnotateUpdate(w)
    \/ AnnotateError(w)
    \/ PublishEndpointSlice(w)
    \/ DeleteSandboxVMI(w)
    \/ StripFinalizer(w)
    \/ StripError(w)

Next ==
    \/ \E w \in Workers, n \in Names : Execute(w, n)
    \/ \E w \in Workers : WorkerStep(w)
    \/ \E n \in Names : \/ DelayExpires(n)
                        \/ SyncPod(n)
                        \/ Resync(n)
                        \/ DeletePod(n)
                        \/ BindPod(n)
                        \/ AnnotateRootfsBytes(n)
                        \/ TouchPod(n)
                        \/ PodGone(n)
    \/ \E u \in UIDs : \/ SyncVMI(u)
                       \/ CreatePod(u)
                       \/ StartVMI(u)
                       \/ FailVMI(u)
                       \/ DeleteVMI(u)
                       \/ VMIGone(u)
                       \/ GarbageCollect(u)
    \/ Restart
    \/ FlipWebhook

Spec == Init /\ [][Next]_vars

\* Worker goroutines run, watches deliver, timers fire, KubeVirt, the kubelet
\* and the garbage collector finish what they start.  Users, the scheduler,
\* the shim, faults, restarts and the resync owe nothing.
Fairness ==
    /\ \A w \in Workers : WF_vars(WorkerStep(w))
    /\ \A n \in Names : /\ WF_vars(\E w \in Workers : Execute(w, n))
                        /\ WF_vars(DelayExpires(n))
                        /\ WF_vars(SyncPod(n))
                        /\ WF_vars(PodGone(n))
    /\ \A u \in UIDs : /\ WF_vars(SyncVMI(u))
                       /\ WF_vars(StartVMI(u))
                       /\ WF_vars(VMIGone(u))
                       /\ WF_vars(GarbageCollect(u))

FairSpec == Spec /\ Fairness
-----------------------------------------------------------------------------
(* Properties.                                                             *)

\* Type invariant; the store and the workers hold only objects that exist
\* under their own key, and VMI identities are handed out in order.
TypeOK ==
    /\ pod \in [Names -> PodObject]
    /\ vmi \in [UIDs -> VMIObject]
    /\ slice \in [Names -> Nat]
    /\ webhookOn \in BOOLEAN
    /\ podCache \in [Names -> PodObject]
    /\ vmiCache \in [UIDs -> VMIObject]
    /\ queue \subseteq Names
    /\ delayed \subseteq Names
    /\ worker \in [Workers -> WorkerState]
    /\ \A w \in Workers : worker[w].pc # "idle" =>
          worker[w].key \in Names /\ worker[w].pod.uid \in UIDs
    /\ used \subseteq UIDs
    /\ lastInc \in Nat
    /\ budget \in [{"fault", "restart", "write", "failure", "vmidelete", "flip"} -> Nat]
    /\ released \subseteq UIDs

\* Once the adaptor has removed a Pod's finalizer it never creates a VMI for
\* that Pod again, whatever its stores and its other workers still show:
\* only the garbage collector would delete such a VMI.
NoVMIAfterRelease ==
    [][\A u \in UIDs : ~VMIExists(vmi[u]) /\ VMIExists(vmi'[u]) => u \notin released]_vars

\* The steps of a worker that serves a Pod, and of one that lets it go.
Serving == {"ensure", "recreate", "create", "annotate", "publish"}
Closing == {"delete", "strip"}

\* c is a copy of p, or of an older version of p, or of another Pod.
CopyOf(c, p) == c.uid = p.uid => /\ c.rv <= p.rv
                                 /\ c.rv = p.rv => c = p
                                 /\ c.del => p.del

\* A key is worked on by one worker.
OneWorkerPerKey ==
    \A v, w \in Workers : worker[v].pc # "idle" /\ worker[w].pc # "idle"
                          /\ worker[v].key = worker[w].key => v = w

\* UIDs in use were handed out, each under its own name.
KnownUIDs ==
    /\ \A n \in Names : Exists(pod[n]) => pod[n].uid \in used /\ NameOf[pod[n].uid] = n
    /\ \A n \in Names : Exists(podCache[n]) => podCache[n].uid \in used /\ NameOf[podCache[n].uid] = n
    /\ \A w \in Workers : worker[w].pc # "idle" =>
          worker[w].pod.uid \in used /\ NameOf[worker[w].pod.uid] = worker[w].key
    /\ released \subseteq used

\* The store lags the API server, a worker lags the store.
CopiesAreOlder ==
    /\ \A n \in Names : CopyOf(podCache[n], pod[n])
    /\ \A w \in Workers : worker[w].pc # "idle" =>
          /\ CopyOf(worker[w].pod, pod[worker[w].key])
          /\ worker[w].pod.uid = podCache[worker[w].key].uid /\ worker[w].pod.del
                => podCache[worker[w].key].del

\* A released Pod is known to be deleting wherever it is still known, and
\* nobody serves it.
ReleasedIsDeleting ==
    /\ \A n \in Names : pod[n].uid \in released => pod[n].del
    /\ \A n \in Names : podCache[n].uid \in released => podCache[n].del
    /\ \A w \in Workers : worker[w].pc \in Serving =>
          worker[w].pod.uid \notin released /\ ~worker[w].pod.del
    /\ \A w \in Workers : worker[w].pc \in Closing => worker[w].pod.del

\* Why NoVMIAfterRelease holds: no store, worker or API object shows a
\* released Pod as live, because only the one worker on its key releases it,
\* after the store itself showed it deleting, and copies never run ahead.
ReleaseInv ==
    /\ OneWorkerPerKey
    /\ KnownUIDs
    /\ CopiesAreOlder
    /\ ReleasedIsDeleting

\* A Delete issued to recreate a finished or too small VMI, which names the
\* VMI and not its UID, can only hit the VMI it was decided on: a stale store
\* never costs a healthy replacement of a Pod that still exists its life.
\* (Unless somebody else deletes VMIs: then a create can land behind a store
\* that has just come to show the VMI before.)
RecreateHitsJudgedVMI ==
    budget["vmidelete"] = MaxVMIDeletes =>
        \A w \in Workers :
            LET u == worker[w].pod.uid
            IN  worker[w].pc = "recreate" /\ VMIExists(vmi[u]) /\ pod[NameOf[u]].uid = u
                    => vmi[u].inc = worker[w].vmi.inc

\* A deleting Pod goes: the adaptor and the webhook do not trap it in
\* Terminating, through conflicts, faults and restarts.
DeletingPodGoes ==
    \A u \in UIDs : LET n == NameOf[u]
                    IN  pod[n].uid = u /\ pod[n].del ~> pod[n].uid # u

\* "VMI goes with the Pod" (README.md): even when the adaptor's own Delete
\* failed, or the Pod never had the finalizer, or its VMI came late.
VMIGoesWithPod ==
    \A u \in UIDs : (u \in used /\ pod[NameOf[u]].uid # u) ~> ~VMIExists(vmi[u])

\* The Pod points at a running VMI, large enough for the last size hint.
Served(n) ==
    LET p == pod[n]
        v == vmi[p.uid]
    IN  /\ p.ref /\ p.cid # 0
        /\ p.cid = v.inc /\ v.phase = "Running" /\ ~v.del
        /\ ~EmptyDiskTooSmall(v, p)

\* A Pod the adaptor owes a VMI: bound, not deleting.
Live(n) == Exists(pod[n]) /\ pod[n].bound /\ ~pod[n].del

\* When the environment calms down, every live Pod whose spec the webhook has
\* nothing left to rewrite is served, and stays served: recreation stops, no
\* hint, conflict or stale CID is left behind.
LivePodsAreServed ==
    \A n \in Names : <>[](Live(n) /\ ~pod[n].raw => Served(n))

\* With the informers' hourly resync, the published guest IP and the
\* EndpointSlice also end up naming the VMI that runs, though their errors
\* are dropped.
GuestIPConverges ==
    (\A n \in Names : WF_vars(Resync(n))) =>
        \A n \in Names : <>[](Live(n) /\ ~pod[n].raw =>
                                /\ pod[n].ip = vmi[pod[n].uid].inc
                                /\ slice[n] = vmi[pod[n].uid].inc)
=============================================================================
