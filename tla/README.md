# A TLA+ model of marooned

marooned runs every Pod of RuntimeClass `marooned` inside a hidden KubeVirt
virtual machine. This directory holds TLA+ modules of the parts that carry the
state of that promise, TLC configurations that check them on small instances,
and TLAPS proofs of all but one of their safety properties for all values of
the constants. Paths below are relative to the repository's root (`src/` in
`PROJECT.json`).

## 1. The system

| Part | State it keeps | Operations | Talks to |
|---|---|---|---|
| Sandbox adaptor, `pkg/sandbox/adaptor` | work queue; informer stores; per worker the key, Pod and VMI at hand | `Execute`, `ensureVMI`, `annotatePod`, `publishEndpointSlice`, `handleDelete` | API server (Pods, VMIs, EndpointSlices), one leader at a time |
| Translation, `pkg/sandbox/translate`, `config.go`, `rootfs.go` | none | Pod to VMI: name, owner, disks, resources, size class, network, TEE | called by the adaptor |
| Mutating webhook, `pkg/webhook`, `pkg/maroonedpods-server` | none; registered only while server and controller are ready | finalizer, probes to exec, volumes and devices taken out; virt-launcher rewriting | every Pod write |
| Volumes, `pkg/sandbox/volumes.go`, `guestmounts.go`, the agent | the snapshot annotation of the Pod; mounts in the guest; the claims | capture, restore, mounts of a container; format, mount, bind | webhook, adaptor, shim, agent |
| Operator, `pkg/maroonedpods-operator` | custom resource (CR), config map, resources, webhook configurations | reconcile with the hooks of the lifecycle SDK, webhook registration, access rules | API server |
| Certificates, `certrotation.go`, `pkg/certificates/bootstrap` | signer, bundle and serving certificate; the server's copy | rotate, inject the bundle, serve | operator, server, API server |
| Shim, `cmd/marooned-shim`, `pkg/cri` | in memory: sandboxes, agent addresses, containers | a CRI subset over a unix socket; size hint, guest statistics, forward files | API server, agent (vsock), marooned-oci |
| OCI runtime, `cmd/marooned-oci` | `/run/marooned-oci/<id>`: `state.json`, `criid`, `guest-started`, `guest-exited`, `exitcode`; a pause process | `create`, `start`, `state`, `kill`, `delete`, `exec`, `events`; helpers `guest-start`, `guest-wait`, `log-pump` | CRI-O, shim |
| Guest agent, `cmd/marooned-agent` | in memory: `ctrs[id]`, `unpackers[id]`; the user-rootfs disk | prepare, rootfs stream, pull, start, stop, status, wait, exec, stats, mounts | shim, one goroutine per connection |
| vsock forwarder, `cmd/marooned-vsockfwd`, `pkg/sandbox/vsock` | CID file | connects a unix socket to the VM's vsock port | shim, agent |
| Port forwarding, `pause_forward.go`, `portfwd.go` | forward file, listeners of the sandbox's pause | re-listen when the file changes | shim, pause |
| Statistics and metrics, `gueststats.go`, `stats.go`, `metrics.go` | one sample in an annotation of the Pod | sample every tick, merge into a rate, publish | agent, shim, server |
| Warm pool, `pkg/sandbox/pool` | | unreachable in this version | |

How one Pod flows through it: the webhook puts a finalizer on the Pod; once the
scheduler has bound it, the adaptor creates the VMI `marooned-<uid>` and
annotates the Pod with its name, vsock CID and guest IP. CRI-O runs
`marooned-oci create` and `start`; `guest-start` calls the shim, which waits for
the annotation and the agent, copies the host's image tree into the VM and
starts the process. `guest-wait` waits for its end and passes the exit code to
the pause process, whose exit CRI-O sees. When the Pod is deleted the adaptor
deletes the VMI and removes the finalizer.

### What is hard

- The adaptor works on copies: informer stores lag, updates conflict, errors of
  several writes are dropped, the leader may die between any two calls, and the
  webhook rewrites what the adaptor itself writes.
- The image copy is a stream of requests over a connection whose answers are
  not matched to requests, into a goroutine found again by container id; calls
  fail, time out and are repeated.
- Volumes pass four programs (webhook, adaptor, shim, agent), the last of which
  looks and mounts without a lock while several containers start.
- The way to a guest goes over a name, an annotation, a file, a socket and a
  cached answer, each of which may belong to an earlier VM or an earlier Pod.
- The operator's reconcile is a sequence of writes that a crash may cut
  anywhere, under webhooks that can shut out the Pods that serve them.
- A container is files, three host processes, a shim object and an agent map
  entry, none of them locked or transactional, the last two in memory, and all
  instances of a restarted container share one id in them.

### What makes each part correct

- Adaptor: no VMI for a Pod that was let go; a deleting Pod and its VMI go;
  a live Pod ends up on a running VMI that is large enough; a Delete decided on
  old information never costs a healthy VM.
- Root filesystem: what starts has the whole image; failed attempts do not
  spoil later ones; running means started.
- OCI life cycle: one process per container; exits and only exits are reported,
  with the right code; a kill or removal hits its target and nothing else.

- Volumes: whatever the webhook takes out comes back, mounted where the manifest
  says; one volume is one file system; data is not formatted.
- Node link: a start reaches its own Pod's VM, and gets there.
- Operator: installations do not mix, the one wanted CR gets deployed, what runs
  has the permissions it uses, and the webhooks do not lock the cluster.
- Certificates: the API server trusts what the server shows, at all times.
- Statistics, logs, exec, ports: no number outlives its source; every line once
  and in order; success means the command succeeded, inside the container; each
  port has one listener, for the guest's present address.

`PROJECT.json` lists the hazards line by line with the properties aimed at them.

## 2. Modules

### SandboxAdaptor (with MCSandboxAdaptor, SandboxAdaptorProofs)

State: the API server's `pod`, `vmi` and `slice`, with resource versions
(`rv`), deletion marks and the finalizer (`fin`); the informer stores
`podCache` and `vmiCache`; the work queue (`queue`, `delayed`); what each
worker holds (`worker`). A VMI incarnation is a number, and the CID or IP
published on a Pod is the number of the incarnation it belongs to, so that a
stale value can be told from a current one. `released` is a history variable:
the Pods whose finalizer the adaptor removed.

| Code | Actions |
|---|---|
| `Execute`/`execute` up to the branch | `Execute` |
| `ensureVMI`, `lookupExisting` | `LookupExisting`, `RecreateVMI`, `CreateVMI` (one per store read or API call) |
| `annotatePod` | `AnnotateSkip`, `AnnotateUpdate`, `AnnotateError` |
| `publishEndpointSlice` | `PublishEndpointSlice` |
| `handleDelete` | `DeleteSandboxVMI`, `StripFinalizer`, `StripError` |
| `enqueue`, `enqueueVMI`, resync, leader change | `SyncPod`, `SyncVMI`, `Resync`, `Restart` |
| webhook, its registration, shim's hint | `MutateSandboxPod` in every write, `FlipWebhook`, `AnnotateRootfsBytes` |

The rest of `Next` is the environment: API clients, scheduler, kubelet,
KubeVirt, garbage collector. A write is refused when the object has changed
since it was read, or when the webhook would change the spec of a stored Pod.
A VMI has one name in the model: the code finds and deletes it under the
annotated name or the one made of the UID, and the adaptor only ever annotates
the latter. A translation that is refused backs off like any other error of
`ensureVMI`, and is one of its faults here; PodVolumes has the reasons.
The claim of a warm-pool VMI is unreachable (`PlanVMI` never sets `ClaimPool`)
and left out, as is the `infra` namespace of the configuration.

### RootfsFill (with MCRootfsFill, RootfsFillProofs)

One container of one VM. `call` is the shim's `StartContainer` (which request it
waits on), `conn` the connection with requests and answers on the way, `serving`
the agent's goroutine, `jobs` and `unpacker` the unpack goroutines and the
agent's map entry, `tree` the pieces of the image that are whole on the disk,
`made` those whose files are there at all, `torn` whether a file holds bytes of
another part. The image is `NPieces` chunks. `rootfsPopulated` looks for the name
of one of several shells (`Marks`), while the start executes `/bin/sh`, which
begins in chunk `ShAt` and needs all of `Shell` (its bytes, the target of its
link, its loader). A fault falls before a file is created or after (`CutShort`),
so a shell may be there and not work. A chunk that enters the middle of another
stream lands on an entry boundary by luck, inside a file, or is no tar header:
all three are in `RootfsWrite`. A pull is `FetchManifest`,
`FetchAndUnpackLayers` and `PullImage`, in one step. Not modelled: a deadline
that cuts an envelope in two, the layers of a pull as separate steps, repeated
mounts of `prepareChroot`.

### OciLifecycle (with MCOciLifecycle, OciLifecycleProofs) and ContainerRuntime

One container of one Pod; each restart is a new instance with its own directory
(`dir`), command (`cmd`), pause process (`pause`), exit file (`exits`) and
helper (`helper`: `guest-start`, then `guest-wait`). The shim (`shim`, `obj`,
`starting`), the agent (`ctr`) and the VM (`vm`, `cid`) are shared. The process
an instance causes to be started is `proc[i]`. Commands that read a file, call
the shim and write the file are two or three actions (`DoState`,
`ApplyStoppedState`; `DoKill`, `KillStopGuest`, `KillSignalPause`; `DoDelete`,
`DeleteRemoveAll`; `FinishFiles`, `FinishRead`, `FinishWrite`), so that they
interleave with the helpers. `os.WriteFile` truncates `state.json` before it
writes: `FinishRead` may find it empty while a `state` command writes, knows no
pid then and tells no pause (`blank`, `misread`). `StartGivenUp` is the shim's
own deadline of 60 seconds, after which the agent may still start the process.

Assumed of CRI-O and the kubelet: one command at a time per container; `start`
only after `create`; `kill` only of a running container; a restart after the
exit file of the instance before was found; removal of an old instance once a
later one has exited, or when the Pod ends. In `state.json` only the status is
modelled, not its copy of the exit code. A `finishOCIContainer` that overtakes
a `delete` creates the directory again and nobody removes it; the model has
this step.

`ContainerRuntime` is the abstract specification: what an OCI runtime promises
CRI-O. Instances are created, run, stopped and removed in this order, the next
one only when the end of those before is reported; a process is launched once,
after `run`, and does not come back. It knows nothing of files, helpers, shim or
agent. `OciLifecycle` instantiates it with `phase`, `code` and `process` as
functions of its own state, and `ImplementsRuntime == Runtime!CSpec` says that
every step, with all faults, is a step of it or a stutter. `Linger` is the one
step that was added to it for the code's sake: the directory that
`finishOCIContainer` creates again after a delete.

### SandboxSpec and PodVolumes (with MCPodVolumes, PodVolumesProofs)

`SandboxSpec` is what is computed from a manifest without state: the webhook's
mutation (`MutateSandboxPod`, `Handle`), the snapshot and its restoration
(`CaptureStrippedVolumes`, `RestoreVolumes`), the translation (`Translate`,
`TranslateError` and one operator for each of its parts) and the guest's mounts
(`GuestMountsFor`, `DiskSerial`). Names of volumes are sequences of characters
because a serial is cut out of them; the other data is abstract. The loops over
volumes, containers and ports (`Keep`, `Only`, `RestoreAll`, `Sum`, `AddPorts`)
are recursive functions on positions, so that they can be proved about;
`OnlyAssumption` in MCPodVolumes compares `Only` with `SelectSeq`.

`PodVolumes` puts it to work: clients create, copy, update and delete a Pod of
one name, the adaptor creates the VMI, the VM boots and dies, and each
container's start goes through the agent's steps one at a time (wait for the
disk, look whether the volume is mounted, look for a file system, `mkfs`, mount,
bind), so that starts interleave. `mounted` keeps the mounts of each volume with
the last on top, `fs` counts how often each claim was formatted, `raced` names
the volumes that two starts at once found not mounted. `Manifest` states what the
API server's validation guarantees of a submitted Pod (no name of a volume or
container twice, no path twice in a container, every mount of a volume that
exists), and is assumed of every member of `Templates`.

`StartProcess` has what `prepareChroot` does behind the volumes: paths at or
below its own mounts (`ChrootPaths`) are covered, and the `/dev` of every
container is the VM's (`DevPaths`), so a block node made there is made for all
(`Renoded`). `Probe` may misread the superblock of a disk, which then is
formatted (`blind`); mounts, `mkfs` and starts may fail (`StartFails`). Not
modelled: a volume mounted below another volume's path, and `/proc`, which the
process mounts once more inside its namespace.

### NodeLink (with MCNodeLink, NodeLinkProofs)

How the shim finds a Pod's agent: the Pod of a name and its CID annotation
(`pod`), VMs and agents (`vm`, `agent`), the forwarder of each virt-launcher
(`fwd`), directories and CID files on the host (`dir`, `cidFile`), the shim's
store (`store`), and one container start for each Pod (`call`). `RunPodSandbox`,
`WaitForVMI`, `Ping`, `PutSandbox`, `StartContainer` are the shim's steps,
`DialAgent` with `ResolveGuestCID`, `DialVsock` and `DialGuest` computes which VM
a connection reaches, in both modes of vsock. `StopPodSandbox` leaves a sandbox
that is not ready and keeps its address, `RemovePodSandbox` forgets it.

### OperatorLifecycle (with MCOperatorLifecycle, OperatorLifecycleProofs) and OperatorRbac

CRs (`crs`), the config map and its cached copy (`cached`), the CRs as the
cached client lists them (`seen`), the owner of each group of resources (`res`),
the webhook configurations (`hooks`), deployments with ready Pods, and the
reconcile under way (`job`), one action for each write the lifecycle SDK and the
hooks of this operator make. The SDK is not in the repository's own code: its
loop is modelled from how the hooks use it. A panic of the code is a crash of
the operator. `checkSanity` reads the config map and its owner from the two
caches, and only a later step writes the error status (`CheckSanity`,
`RejectCR`); `IsCreating` takes a failed read for a missing config map, and
`misread` keeps that there was one. Crashes, failed reads, failed writes and
evictions share one budget. The status writes that one call of the SDK makes in
a row, and the reads of deployments that decide whether the webhooks are
registered, are single steps on the objects themselves, not on cached ones; what
is read late there is read again a minute later. Nothing but the operator and
the garbage collector removes the config map. `OperatorRbac` has all access
rules the operator holds and hands out, and the calls its own code and that of
its parts make; a creation that needs a right the operator lacks fails in the
model.

### GuestStats, GuestLogs, ExecSession, PortForward, CertRotation (with MCSmallParts, SmallPartsProofs, CertRotationProofs)

Five small modules that share no state; `MCSmallParts` checks them together, one
of them moving in each behaviour, so that nothing is multiplied.

- `GuestStats`: processes with CPU counters, the shim's tick in its steps
  (collect, read the annotation, patch), and what metrics publishes. A sample may
  follow the one before by less than a tick (`Instants`, `Elapsed`), which
  multiplies the rate.
- `GuestLogs`: the agent's two buffers of parts of lines, the pump that asks for
  all of them and appends what is longer than before. An answer of more than
  `MaxAnswer` parts is refused (16 MiB in `ReadEnvelope`), a chunk whose file
  cannot be opened is lost though it counts as seen (`PumpLoses`), a poll inside a
  line ends the line, and a `state.json` half written ends the pump (`PumpMisled`).
- `ExecSession`: an exec with or without a terminal from `marooned-oci` to the
  agent, which looks at the container in several steps (`AgentExec`,
  `ChoosePlace`, `RunPidnsExec`) while it starts and ends; deadlines, broken
  connections, a dying VM and shim, an agent that its init starts again with
  empty maps while the container runs on, and children of a command that hold its
  output.
- `PortForward`: `forward.json`, truncated and written in place, the polling
  pause, and goroutines that close old listeners while new ones bind; a bind
  fails for a port that is still bound, or for any other reason (`Taken`).
- `CertRotation`: signer, bundle, target and the server's copy over time, in
  steps of hours; the operator stops, the certConfig changes, secrets go, and a
  reconcile may work on old copies. Time passes only when nothing is left to do
  or the operator is down, since reconciles come every minute. `checked` is the
  last time the operator had nothing left to do; `calm` ends with the first
  outage of more than `SafeOutage` since then, with one between the writes of a
  signer and of its bundle, a deletion or a new certConfig. `OperatorStarts` is a
  container that starts again in its Pod; a Pod of the operator that must be made
  anew while the server is untrusted is itself refused by the webhook.

## 3. Runs

State counts are of distinct states. Deadlock is checked in the two passing
RootfsFill runs, where the kubelet can always call again; the adaptor and a
container really do come to rest.

| Run | Instance | Shows | States |
|---|---|---|---|
| adaptor_safety | one name, two UIDs, two workers, 2 VMIs, 1 VM failure, 1 other write | `TypeOK`, `NoVMIAfterRelease`, `RecreateHitsJudgedVMI` | 1.6M |
| adaptor_deletion | one Pod, 2 VMIs, 1 failing call, 1 restart, 1 write, webhook flips once | `DeletingPodGoes`, `VMIGoesWithPod` | 401k |
| adaptor_serving | one Pod (PVC or emptyDisk root), EndpointSlices on, 3 VMIs, 1 hint or other write, 1 failing call, 1 foreign delete | `LivePodsAreServed`, `GuestIPConverges` | 956k |
| rootfs_overlap | 2 calls at once, 2 pieces, 1 disk and 1 host fault, registry | `RunningIsStarted`, `RetriesRun` | 107k |
| rootfs_retries | 3 connections one after another, 3 pieces, 2 timeouts, 1 disk fault and 1 host fault, registry | `CopyOkMeansWhole`, `RestartLeavesTree`, `RetriesRun` | 477k |
| oci_faults | 2 instances, exit codes 0 and 7, Pod deletion, an agent restart or a VM death (`OneFault`) | `OneProcess`, `ExitCodeIsOwn`, `DeadGuestIsNotRunning`, `ImplementsRuntime` (refinement) | 2.1M |
| oci_reporting | 1 instance, a vsock namespace per VM; 1 kill, shim restart, agent restart, VM death, timeout | `ExitIsReported`, `StartResolves` | 164k |
| volumes_path | fourteen manifests (init and app containers, shared blank claim, raw device, an emptyDir at `/tmp` with two devices of one path, root on a claim, ephemeral, serials that collide and a claim behind two volumes, too large, no sandbox, five that cannot be translated), 2 Pods, 1 fault | `AdmissionIsStable`, `RestoreIsWhole`, `RunsWithItsVolumes`, `VolumesAreShared`, `VMIHoldsPod`, `DataIsKept`, `ContainersRun` | 117k |
| link_starts | 2 Pods of one name, 3 VMs, 1 fault, both vsock modes | `OwnVMOnly`, `StartsGetThrough` | 623k |
| operator_install | 2 names, 2 CRs, 1 crash, failing read or write, or eviction | `NoMixing`, `DeployedMayWork`, `OnlyUnwantedFail`, `Deploys`, `AdmissionRecovers` | 462k |
| small_parts | 2 containers with 2 starts and 1 lost sample; 3 parts of lines, of which an answer holds 2, and 2 failures; 1 command; 2 ports, 2 addresses, 1 restart of the shim, 1 failing bind; 36 hours of certificates with 2 troubles | `StatsFollowGuest` (`ExitedIsIdle`, `NoSourceNoMetrics`); `LogFollowsGuest` (`LogIsFaithful`, `LogCatchesUp`); `ExecRunsAsAsked` (`SuccessIsReal`, `ExecLandsInside`), `ExecEnds`; `OneForwarder`, `PortsFollowGuest` (`OldAddressEnds`, `PortsArePassedOn`); `ServedIsTrusted`, `TrustRecovers` | 285k |
| rootfs_late_answer | 1 timeout | `RunningIsStarted` is violated, see below | |

Why the bounds are enough to be interesting: two UIDs of one name give a Pod
that is recreated while a worker still holds its predecessor; two workers are
the least that can hold one key twice if the queue let them; three VMIs are just
what a foreign delete and a resize need, so that one recreation too many leaves
the Pod without a VMI; three pieces put content before the shell's name, and
another shell's name before `/bin/sh`; two instances give an old helper and a
new start; two Pods of one name with three VMs give a predecessor that still
runs and a VM that was replaced; two CRs give both a rival and a successor;
twelve steps of three hours take the certificates through renewals of the target
and of the signer. Commands of exec share nothing with one another, so one is
enough. The budgets are spent nondeterministically, so each fault happens at
every point of a run.

Some properties speak only of behaviours in which a certain fault has not
happened yet, because the code promises nothing after it; the runs have the
fault all the same, and their other properties hold after it:

- `RecreateHitsJudgedVMI` is about Pods that still exist and ends when somebody
  else deletes a VMI: the adaptor then creates another behind a store that has
  just come to show the one before, and the Delete decided on that one hits it.
- `RunningIsStarted` holds without timeouts; rootfs_late_answer shows what one
  timeout does to it. For the same reason `CopyOkMeansWhole` and
  `RestartLeavesTree` end at the first deadline (`NothingLate`).
  `CopyOkMeansWhole` also ends when the host breaks off a stream: the next
  stream is then appended to the job of the broken one, in the middle of a file.
- `RetriesRun` ends where a shell's name is on the disk and `/bin/sh` does not
  work (`Poisoned`), and, but for the part that every call comes back, while
  calls overlap for ever.
- `OneProcess` and `ExitCodeIsOwn` end when the shim or the agent restarts,
  which forgets what it has started, and when a kill of a container whose Pod
  stays, or a `StartContainer` call that outlasts its caller, reports an end that
  has not come (`NoneForgotten`). `ExitCodeIsOwn` also ends with the VM, which
  leaves no exit code to fetch, and is about Pods that are not being deleted.
- `DeadGuestIsNotRunning` ends with the latter two (`NoneOvertaken`), see below;
  restarts of shim, agent and VM do not disturb it.
- `ExitIsReported` lets the pause of an instance live whose helper found
  `state.json` empty; the exit file is written all the same.
- `RunsWithItsVolumes` leaves out Pods with two PVC or ephemeral volumes of one
  serial (`SerialsDiffer`), starts whose read of the Pod failed, volumes at or
  below a directory that `prepareChroot` mounts on (`Hidden`), and devices of
  Pods with two of one path in `/dev` (`NodesDiffer`); `VolumesAreShared` leaves
  out what is hidden, too, and after a failed read of the Pod says nothing;
  `VolumesAreShared` and `DataIsKept` leave out volumes that two starts at once
  have found not mounted, `DataIsKept` claims whose superblock was just misread
  (`UnreadClaims`), and `DataIsKept` and the disks of `VMIHoldsPod` also
  Pods with two volumes of one claim (`ClaimsDiffer`); `ContainersRun` is about
  manifests that can be translated and have no ephemeral volume.
- `OwnVMOnly` is about starts of the Pod that has the name now, and Pods that
  were not made from another one's saved manifest (`CopiedManifests = FALSE`);
  `StartsGetThrough` ends where a sandbox is ready in the shim's store but its
  CID file is out of date (`ReadyButStale`), and where no VM is left.
- `OnlyUnwantedFail` lets a CR into error after a failed read of the config map
  (`misread`), and says for whom a CR is turned away only while the cached CRs are
  up to date (`seen = Listed`), however old the cached config map is.
- `Deploys` and `AdmissionRecovers` are about one CR that is not in error, and
  `Deploys` ends where certificates that no CR owns exist.
- `LogIsFaithful` is about processes that use one stream, and leaves out the
  chunks that could not be written; `LogCatchesUp` ends where the output no longer
  fits into one answer, the container was forgotten, or the pump was misled.
- `ExecLandsInside` is about commands whose container ran when they were asked for
  and since, under the agent that started it.
- `StatsFollowGuest` says that stale numbers go and that the rate of an exited
  container ends at 0, not that every rate in between is right.
- `PortsArePassedOn` leaves out a port whose bind failed, because of listeners on
  their way out or otherwise;
  `ServedIsTrusted` holds while nothing but stale copies and short outages has
  happened (`calm`; the run's certConfig satisfies `SafeRotation`, which
  `RotationAssumption` checks), `TrustRecovers` after the rest; `ExecEnds` lets a
  terminal wait whose command, or a child it left behind, runs.

### Where the code and what is said of it differ

rootfs_late_answer ends in a counterexample: an answer that comes after the
deadline is read as the answer to the next request on the connection, and a
container is reported running that has no process. `findings` in `PROJECT.json`
quotes the sentence.

The models also have behaviours that a maintainer may not expect, and that the
runs do not single out. In parentheses, what brings them out.

Adaptor and webhook:

- The EndpointSlice has no ownerReference and nobody deletes it, so it outlives
  the Pod (`adaptor.go:486`; docs/sandbox-mode.md:63 says "owned for the Pod").
- A Pod admitted before the webhook was registered cannot be annotated once it
  is: the webhook would rewrite the stored Pod's spec, so the API server refuses
  the adaptor's Update (`RawPods = {TRUE}`, `MaxFlips = 1`).

Root filesystem and container life cycle:

- A copy or pull that fails behind the first name `rootfsPopulated` accepts is
  neither completed nor pulled (`cmd/marooned-agent/main.go:186`): an image whose
  `/bin/sh` was cut short while it was written (`rootfs.go:111`), or that has only
  another shell, is taken for whole, and every later start fails.
- Calls that overlap for ever may tear each other's streams for ever.
- A `state.json` read while it is written counts as empty: the helper then tells
  no pause, and the pause stays until the container is deleted.
- A start that outlasts the shim's 60 seconds is reported as failed while the
  agent still carries it out (`pkg/cri/runtime.go:440`).
- Without a registry one failed host copy can keep a container from ever
  running: the job of a failed stream stays in the agent's map and fails the
  next copy (`CanPull = FALSE`).
- A kill during the background start does not stop it (`cmd/marooned-oci/main.go:250`).
- A killed container's pause exits at once, before its process, with code 0.
- A VM that dies is reported as exit code 0 (`pkg/cri/runtime.go:534`).
- A shim that restarts during `StartContainer` makes guest-start record an
  exit while the process runs (`MaxShimCrashes = 1`).
- Removing an old instance of a restarted container sends SIGTERM to the
  process of the current one, through the id they share (`N = 3`).
- A start that outlasts its caller's 4 minutes can replace the next instance's
  entry in the agent's map, and the end of that instance's process then goes
  unseen (`N = 2`, `MaxTimeouts = 1`).

Volumes:

- Ephemeral volumes are taken out of the Pod but get no disk: their containers
  never run.
- Serials are cut to 20 characters and lose punctuation, so two claims may have
  the same one.
- The first container that mounts a volume decides whether it is read-only; the
  bind mounts ignore the flag.
- A claim that holds a file system other than ext is formatted, and so is one
  whose superblock cannot be read (`cmd/marooned-agent/disk.go:147`).
- A volume mounted at or below `/tmp`, `/run`, `/dev`, `/sys` or `/proc` is hidden
  by `prepareChroot`, which mounts its own there afterwards.
- Two containers with devices of one path under `/dev` share the node, which is
  that of the last start.
- Two starts at once can both format a blank claim, or mount two tmpfs of which
  only the upper is seen from then on.
- An API error while the mounts are looked up starts the container without them.
- A Pod made from the saved object of another keeps the old snapshot although
  its volumes were edited.

Node link:

- `RunPodSandbox` answers from the shim's store though the VM is gone or another.
- A Pod made from the saved object of another brings its CID annotation, and its
  start may reach the other VM (`CopiedManifests = TRUE`).
- A start left behind by an earlier Pod follows the name to the next one's VM.
- Directories under `/var/run/marooned` are never removed.

Operator:

- `GetAllResources` panics whenever the number of CRs that are not in error is
  not one, so two CRs keep the operator crashing until one is gone.
- The config map is read from a cache: one that is not there yet makes
  `checkSanity` panic. A failed read counts as "creating" and puts a CR that has
  got on into error; so would a config map that somebody else deletes, which the
  model leaves out.
- The owner of the config map is read from a cache, too: with one that lags, a CR
  is put into error because of a predecessor that is gone, and when both caches
  lag even the CR that holds the cluster.
- A crash between the config map and the finalizer leaves a CR that can go
  without being cleaned up.
- Secrets without an owner count as orphans, and no later CR gets deployed.
- With the webhooks on, losing all Pods of server and operator at once leaves
  nobody to switch them off.
- The rules name `mps/finalizers` and cruft watches `mps.maroonpods.io`, while
  the CRD's plural is `maroonedpods`.

Statistics, logs, exec, ports, certificates:

- Containers of a Pod share one annotation, so rates mix their counters; an
  exited one is sampled as zero with one process; after a restart of the shim
  nothing is sampled or logged for containers that run.
- Two samples shortly after one another make a rate out of the time between
  them, however short.
- With two streams, the log loses and repeats lines; the last output is lost
  when the pause dies before the pump reads; a pump that outlives its instance
  reads the next one's buffer.
- The agent sends its whole buffer every time: beyond 16 MiB every call fails and
  the log stops for good. A chunk whose log file cannot be opened is lost, a poll
  inside a line makes two lines of it, and a `state.json` read half written ends
  the pump.
- An exec or probe before the container has its directory runs in the VM
  itself; before its process, or as it ends, in its directory without its
  namespaces; and it may succeed. After a restart of the agent so does every exec
  into a container that runs, since the agent's maps are empty.
- A terminal stays open after its command while a child holds the output.
- The agent ignores the deadline, so a command runs on after its caller gave
  up. An exec with a terminal always returns 0. A user who leaves a silent
  terminal leaves the command; the end of standard input is not passed on; an
  exec without a terminal has no standard input.
- A port whose bind fails, be it against a closing listener, is skipped and not
  tried again before the file changes; a read of the truncated file closes and
  opens all listeners.
- A crash between the writes of signer and bundle, followed by an outage of more
  than 1.2 hours, leaves the server untrusted until the next reconcile, and so
  does a changed certConfig. If the operator's own Pod has to be made anew in that
  time, the fail-closed webhook refuses it and nobody repairs the bundle.

### Fairness

- `SandboxAdaptor!Fairness`: worker goroutines run, watch events and timers
  arrive, KubeVirt starts and tears down, the kubelet and garbage collector
  finish. All weak. Nothing is assumed of users, the scheduler, the shim, the
  resync, faults or restarts, which are bounded instead: the properties say what
  happens once they stop. `GuestIPConverges` assumes weak fairness of the
  informers' hourly resync, which alone repairs a failed guest IP write.
- `RootfsFill!FairSpec`: the kubelet retries, the shim reads answers, the agent
  serves, and the deadline of a call that waits for a result nobody will send
  fires.
- `OciLifecycle!FairSpec`: begun commands, helpers, the pause and calls inside
  the shim go on; a process obeys SIGTERM. A process that nobody stops may run
  for ever, CRI-O need not call, a VM need not come.
- `PodVolumes!FairSpec`: one weak fairness condition for adaptor, KubeVirt,
  kubelet, shim and agent together, and init containers end.
- `NodeLink!FairSpec`: KubeVirt starts VMs and the adaptor annotates; guests
  boot and vsockfwd polls; the kubelet and shim go on with every start.
- `OperatorLifecycle!FairSpec`: the reconcile under way goes on, caches follow,
  the garbage collector works and admitted Pods get ready (weak); a name in the
  work queue is taken in the end (strong, because the queue is served in order
  while other names come back again and again).
- `MCSmallParts!FairSpec`: the shim's ticker, the pump, the handlers of shim and
  agent, the pause's loop, the operator and informers run, and time passes for
  the ticker. Commands, users, processes and faults owe nothing.

## 4. Proofs

Eight modules hold proofs. They use the named assumptions on the constants in the
modules they extend (sizes are natural numbers, sets of codes are codes, markers
such as `None` are no elements) and nothing else: every theorem is for any number
of Pods, workers, calls, instances, pieces, names and faults, and of volumes,
containers, mounts and ports in a manifest. Where a theorem has
a hypothesis on a switch, it is named below, and the runs of section 3 show what
happens without it.

| Property | Theorem | In |
|---|---|---|
| `TypeOK`, `ReleaseInv`, `NoVMIAfterRelease`, `RecreateHitsJudgedVMI` | `TypeCorrect`, `ReleaseInvariant`, `NoVMIAfterReleaseHolds`, `RecreateHitsJudgedHolds` | SandboxAdaptorProofs |
| `OneProcess`, `ExitCodeIsOwn`, `DeadGuestIsNotRunning`, `ImplementsRuntime` | `OneProcessHolds`, `ExitCodeHolds`, `DeadGuestIsSeen`, `RuntimeImplemented` | OciLifecycleProofs |
| `RunningIsStarted`, `RestartLeavesTree`, `CopyOkMeansWhole` | `RunningIsStartedHolds`, `RestartLeavesTreeHolds`, `CopyOkMeansWholeHolds` | RootfsFillProofs |
| `NoMixing`, `OnlyUnwantedFail` | `NoMixingHolds`, `OnlyUnwantedFailHolds` | OperatorLifecycleProofs |
| `OwnVMOnly` | `OwnVMOnlyHolds` | NodeLinkProofs |
| `ExecRunsAsAsked`, `OneForwarder`, and `LogIsFaithful` (the safety half of `LogFollowsGuest`) | `ExecRunsAsAskedHolds`, `OneForwarderHolds`, `LogIsFaithfulHolds` | SmallPartsProofs |
| `ServedIsTrusted` | `ServedIsTrustedHolds` | CertRotationProofs |
| `AdmissionIsStable`, `RestoreIsWhole`, `RunsWithItsVolumes`, `VolumesAreShared`, `DataIsKept`, `VMIHoldsPod` | `AdmissionIsStableHolds`, `RestoreIsWholeHolds`, `RunsWithItsVolumesHolds`, `VolumesAreSharedHolds`, `DataIsKeptHolds`, `VMIHoldsPodHolds` | PodVolumesProofs |

None of these is inductive as it stands. The arguments, each of which TLC has
checked as an invariant of small instances before it was proved:

**Adaptor.** `CreateVMI` trusts a copy of the Pod made some steps earlier.
`ReleaseInv` says why that is safe. A key is held by one worker
(`OneWorkerPerKey`), a UID is used under one name (`KnownUIDs`), a worker's copy
is not newer than the store's and the store's not newer than the API server's
(`CopiesAreOlder`), and so a worker that removes the finalizer has seen the Pod
deleting, the store shows it deleting from then on, and no worker that begins
later serves it (`ReleasedIsDeleting`). The lemmas: `CopyStep` and
`WriteIsPodStep` (a write makes all older copies older still), `AcceptedIsFresh`
(an accepted write was based on the current object), `QuietStep` and `MovedOn`
(steps that leave the Pods or the workers alone), one case per action.
`RecreateHitsJudgedVMI` needs two more layers: a UID that was not used has no
VMI, and a worker's Pod stays in the store as long as it exists (`FreshUIDs`);
and while only the adaptor deletes, a VMI in the store and a VMI in the API
server are the same one, a VMI is not deleted before the store has shown it, and
a worker creates only where the store shows none (`JudgeInv`). A foreign delete
breaks the second of these, which is where the property's exception comes from.

**Container life cycle.** `OciInv` has four layers under the types, each weaker
in the faults it survives. `OrderInv`, whatever fails: directory, pause, helper,
background start and process of an instance begin in this order and do not come
back, and the next instance begins after an exit file. `OvertakeInv`, until a
kill or a timeout: an end is reported by the instance's own helper, so that a
start in the background belongs to a helper that waits. `KnownInv`, until shim or
agent restarts too: a live process is the one in the agent's map, is reachable,
and its helper waits for it; `OneProcess` follows. `CodeInv`, while the VM lives
too: the code on its way from the agent's map to the file is the process's own.
Each action has a lemma on its effect on the instance it is about; the others
keep all but a process that may be told to end (`Same`). `RuntimeImplemented`
maps the initial state and each action to a step of `ContainerRuntime` or a
stutter, from `OrderInv` alone, so the refinement holds under every fault.

**Root filesystem.** `Protocol` is the heart: until an answer comes late, a
connection is at rest, or has the one request its call waits for, or its answer,
or was given up in an EOF whose result another connection has taken. So `Call`,
which compares neither id nor method, takes every answer for what it answers,
and `StartInv` (a positive answer to start means a process) is enough for
`RunningIsStarted`, overlapping calls included; the theorem says
`NothingLate => RunningIsStarted`. The other two are about calls that follow one
another (`~Overlap`): `RestartInv` with `ShellStays` (a process needs `/bin/sh`,
and no step takes a file's name off the disk, so a shell once there is reported by
every later prepare), and `StreamInv` (when a
stream begins, the agent's map has no job or one that has failed; afterwards job
and stream are at the same piece, or the job has failed and no later piece or EOF
succeeds). `FreeJob`, by counting, shows that the model's pool of job names never
runs out.

**Operator.** `OperatorInv`: UIDs are given once and each stays with its name
(`KnownUIDs`); a reconcile that claims the cluster for a CR without a finalizer
has the CR as it is, or one that is gone (`ReadsHold`); the cached config map is
the claim of a CR that exists, and shows one, except to the reconcile that has
just made it or after a failed read (`CacheFollows`); a reconcile that writes
works for the CR that holds the cluster (`WritersHold`); a CR that has got on
and is not in error holds it (`OwnersHold`). With them `NoMixing` is inductive
and `OnlyUnwantedFail` follows from the three steps behind it: the check that
finds no config map, the error status written after it, and the check that turns
a CR away.

**Node link.** `LinkInv`: the Pod that has the name is the last one made, and no
CID is newer than the last one given (`UpToDate`); no two VMs have one CID, and
neither annotation nor file of a Pod has the CID of another Pod's VM (`OwnCID`);
a start has the address of its own Pod or of a later one (`NoEarlierAddress`).
The second part needs Pods that come without the annotation of an earlier one
(`~CopiedManifests`).

**Exec, ports and logs.** `ExecInv`: a command has a place when it runs and when
it has ended well, a success that was returned is final, and a container that has
run since, under an agent that knows it, let it only into its namespaces;
`OneForwarder` is inductive with its types. `LogInv`: the one buffer the process
has used is numbered as it was written, and the log has the parts up to what the
pump counts as seen, in order, without those that were missed, and a line's end
wherever the buffer has one.
All three are stated of the part's own steps, without the fairness that
MCSmallParts adds.

**Certificates.** `CertInv` says what holds as long as all is `calm`. `Ages`:
when the operator last had nothing to do, no signer was due, and a target was not
due or waited for a signer too new to be used. `Bundles`: the webhooks' bundle
and the stored one have the issuers of all targets about (the secret, the
server's copy, the operator's copy), and the signer itself unless it is of this
very hour, when no target may be due. `Copies`: the operator's copy is the
secrets as they were at some moment of this hour. `Going` and `Resting` are about
the reconcile under way. `ServedIsTrusted` follows, because the bundle has an
issuer that outlives the served target and that target is not too old. The
arithmetic needs `SafeRotation`, a hypothesis of the theorem on durations,
renewal points and `SafeOutage`: a due target is replaced before it is too old to
wait, a signer outlives what it signs until its own replacement, and is not
replaced while a target waits for it. The defaults of the code (48 hours and 24
for the signer, 24 and 12 for the target) satisfy it with outages of up to four
hours; a certConfig that does not is outside the theorem.

**Volumes.** Three invariants, one on top of the other.

- `AdmitInv`: the Pod is its manifest or what the webhook makes of it, and the
  latter if it is a sandbox that is not being deleted; so is the object a client
  has saved. It needs that `MutateSandboxPod` changes nothing the second time (a
  snapshot once taken is kept, and there is nothing left to take out).
  `RestoreIsWhole` follows from it with what `RestoreAll` computes: the volumes
  and mounts of the snapshot are put back behind those that were left, and since
  the manifest has no name and no path twice, that is the whole manifest in
  another order.
- `GuestInv`: VMI, guest and containers belong to the Pod (`GuestLinks`); each
  start has still to do, or has bound, whatever its manifest asks for
  (`GuestStarts`), unless its chroot hides it or another container makes the
  node at its path (`Stays`); whatever is mounted for a volume is backed by the
  disk with its serial or a tmpfs (`MountsBacked`); a volume that is mounted
  twice, or that two starts are about to mount, is in `raced` (`GuestRaces`); a
  start about to format, other than one that could not read the superblock, has
  found a blank claim that nobody else has formatted since (`GuestBlanks`).
  `RunsWithItsVolumes`, `VolumesAreShared` and `DataIsKept` follow.
- `VMIInv`: the VMI holds what its manifest asks for. Memory, cores and ports are
  sums and walks over the containers, which are the same for the manifest and for
  the Pod with its volumes put back; a claim has one disk because its volume is
  the only one of it.

What the recursive functions return is proved by induction on positions, with the
least position at which a claim fails (`WFMin` on the order of the naturals) in
place of the induction rules that take an operator. The proof attempts were also
what showed two of the conditions in section 3 to be needed, and TLC then
confirmed them on the manifest `Ambiguous`: an ephemeral volume whose serial is
that of a claim gets that claim's disk, and a claim behind two volumes is
formatted by two starts of which neither meets the other at a volume, so that
`raced` has neither. Leaves that have to show something of a `CHOOSE` are given to
Zenon, which uses no more than that a witness exists; SMT gets a `CHOOSE` only
among the facts it starts from.

Only model-checked: all liveness properties, since fairness and ENABLED are
outside the proof system's reach (`DeletingPodGoes`, `VMIGoesWithPod`,
`LivePodsAreServed`, `GuestIPConverges`, `RetriesRun`, `ExitIsReported`,
`StartResolves`, `StartsGetThrough`, `Deploys`, `AdmissionRecovers`,
`ContainersRun`, and of the small parts `ExecEnds`, `PortsFollowGuest`,
`TrustRecovers`, `StatsFollowGuest`, and the liveness half of `LogFollowsGuest`).
Of the safety properties only `DeployedMayWork`, which compares finite tables of
access rules, without any parameter to generalise over: TLC evaluates it.

## 5. Plan

Done: all parts of the system with state of their own are modelled, and every
safety property that a run checks is proved, except `DeployedMayWork`. Where the
model would grow next is upgrades of the operator between versions and the warm
pool, once the code uses it.

## 6. Not modelled

- The warm pool: `PlanVMI` never sets `ClaimPool` and `reconcilePool` is empty.
- `events.go` of the OCI runtime, which only prints statistics, and the parsing
  of bundles and flags.
- Upgrades of the operator from one version to another, node placement, the
  generated CRDs and the CSV.
- `FileCertificateManager`, the self-signed fallback and `NewClientKeyPair`,
  which serve tests and start-up.
- Generated clients and API types, vendored code, logging, HTTP set-up, the image
  registry protocol, tar and ext4 formats, SELinux labels, cgroups, network
  plumbing of KubeVirt, TEE attestation: input and output without state that
  the properties could see.
