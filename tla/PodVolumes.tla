----------------------------- MODULE PodVolumes -----------------------------
(***************************************************************************)
(* The way of a Pod's volumes from its manifest into the guest.  The       *)
(* webhook takes PVC, ephemeral and emptyDir volumes out of the Pod and    *)
(* keeps them in an annotation; the adaptor puts them back to translate    *)
(* the Pod to a VMI with one disk for each claim; the shim reads them once *)
(* more for each container it starts; and the agent, in one goroutine for  *)
(* each start, finds the disks by serial, makes a file system where there  *)
(* is none, mounts every volume once under volRoot and binds it into the   *)
(* container's tree.                                                       *)
(*                                                                         *)
(* One Pod name, used again and again; starts of app containers overlap,   *)
(* because marooned-oci start leaves them to processes of their own.       *)
(***************************************************************************)
EXTENDS SandboxSpec

CONSTANTS
    Templates,   \* the manifests clients submit
    Ctrs,        \* names of all their containers
    Vols,        \* names of all their volumes
    Claims,      \* the claims behind the PVC volumes
    Formatted,   \* the claims that hold an ext file system from the start
    ChrootPaths, \* paths at or below /proc, /sys, /dev, /tmp and /run
    DevPaths,    \* those of them below /dev
    MaxCreates,  \* bound: Pods created
    MaxFaults    \* bound: containers that end and are started again, VMs that
                 \* die, failed reads of the Pod by the shim and of a disk by
                 \* the agent, and mounts, mkfs and exec that fail

ASSUME BoundsAssumption == MaxCreates \in Nat /\ MaxFaults \in Nat
ASSUME FormattedAssumption == Formatted \subseteq Claims
ASSUME PathsAssumption == DevPaths \subseteq ChrootPaths

\* What the API server lets pass: no name of a volume or a container is
\* used twice, nor a path in a container, and every mount names a volume.
NoneTwice(s) == \A i, j \in DOMAIN s : s[i].name = s[j].name => i = j
ValidCtr(c, t) ==
    /\ c = [name |-> c.name, init |-> c.init, mounts |-> c.mounts, probe |-> c.probe, cpu |-> c.cpu, mem |-> c.mem,
            pages |-> c.pages, vfs |-> c.vfs, gpu |-> c.gpu, ports |-> c.ports]
    /\ c.name \in Ctrs /\ c.init \in BOOLEAN /\ IsSeq(c.mounts)
    /\ c.cpu \in Nat /\ c.mem \in Nat /\ IsSeq(c.ports)
    /\ \A m \in Elems(c.mounts) : m.vol \in NamesOf(t.volumes) /\ m.dev \in BOOLEAN /\ m.ro \in BOOLEAN
    /\ \A m, o \in Elems(c.mounts) : m.path = o.path => m = o
ValidVolume(v) ==
    /\ v.name \in Vols /\ IsSeq(v.name) /\ v.ro \in BOOLEAN
    /\ v.kind = "pvc" => v.claim \in Claims
Manifest(t) ==
    /\ t = [sandbox |-> t.sandbox, deleting |-> FALSE, label |-> t.label, finalizer |-> t.finalizer,
            snapshot |-> None, placement |-> t.placement, rootfs |-> t.rootfs, tee |-> t.tee, nad |-> t.nad,
            claims |-> t.claims, volumes |-> t.volumes, ctrs |-> t.ctrs]
    /\ t.sandbox \in BOOLEAN /\ IsSeq(t.volumes) /\ IsSeq(t.ctrs)
    /\ NoneTwice(t.volumes) /\ NoneTwice(t.ctrs)
    /\ \A v \in Elems(t.volumes) : ValidVolume(v)
    /\ \A c \in Elems(t.ctrs) : ValidCtr(c, t)

ASSUME TemplatesAssumption == \A t \in Templates : Manifest(t)
\* None is none of the values it stands in for.
ASSUME NoneAssumption ==
    /\ None \notin Claims
    /\ \A t \in Templates : /\ CaptureStrippedVolumes(t) # None
                            /\ None \notin Elems(t.volumes)
                            /\ \A p \in {t, MutateSandboxPod(t)}, b \in BOOLEAN : [p EXCEPT !.deleting = b] # None

VARIABLES
    pod,     \* the Pod in the API server, None when absent
    wanted,  \* the manifest it was made from
    dump,    \* the last Pod as a client has saved it: [object, wanted]
    vmi,     \* the VMI, None when absent
    up,      \* its guest runs
    mounted, \* what is mounted at volRoot/<volume>, the last one on top
    raced,   \* the volumes that two starts at once have found not mounted
    fs,      \* how often each claim has got an ext file system: 0, 1, 2 or more
    ctr,     \* each container's start, and what it finds at its paths
    budget

vars == <<pod, wanted, dump, vmi, up, mounted, raced, fs, ctr, budget>>
apiVars == <<pod, wanted, dump, vmi>>

Spend(kind) ==
    /\ budget[kind] > 0
    /\ budget' = [budget EXCEPT ![kind] = @ - 1]

\* todo: plain mounts still to do; blocks: devices to bind at the end; lost:
\* the shim could not read the Pod, so that it asked for no mount at all.
NewCtr == [pc |-> "waiting", todo |-> <<>>, blocks |-> <<>>, binds |-> {}, lost |-> FALSE]

CtrNames(p) == {c.name : c \in Elems(p.ctrs)}
CtrOf(p, n) == CHOOSE c \in Elems(p.ctrs) : c.name = n
GuestDown == up' = FALSE /\ mounted' = [v \in Vols |-> <<>>] /\ raced' = {} /\ ctr' = [n \in Ctrs |-> NewCtr]
-----------------------------------------------------------------------------
(* Clients and the API server, with the webhook in between.                *)

\* A client submits a manifest, or the object it has saved from an earlier
\* Pod with all its annotations.
CreatePod ==
    /\ pod = None
    /\ Spend("create")
    /\ \/ \E t \in Templates : Handle(t) # None /\ pod' = Handle(t) /\ wanted' = t
       \/ /\ dump # None
          /\ pod' = Handle(dump.object)
          /\ wanted' = dump.wanted
    /\ UNCHANGED <<dump, vmi, up, mounted, raced, fs, ctr>>

\* The API server lets no update change volumes or containers.
SameSpec(p, q) == p.volumes = q.volumes /\ p.ctrs = q.ctrs

\* Any write to the Pod passes the webhook again: one of metadata by the
\* adaptor or the shim, or a client's that puts the whole manifest back.
UpdatePod ==
    /\ pod # None
    /\ \E object \in {pod, [wanted EXCEPT !.deleting = pod.deleting]} :
          /\ Handle(object) # None
          /\ SameSpec(Handle(object), pod)
          /\ pod' = Handle(object)
    /\ UNCHANGED <<wanted, dump, vmi, up, mounted, raced, fs, ctr, budget>>

DeletePod ==
    /\ pod # None /\ ~pod.deleting
    /\ pod' = [pod EXCEPT !.deleting = TRUE]
    /\ UNCHANGED <<wanted, dump, vmi, up, mounted, raced, fs, ctr, budget>>

\* The adaptor has deleted the VMI and taken the finalizer off.
PodGone ==
    /\ pod # None /\ pod.deleting
    /\ pod' = None /\ wanted' = None /\ vmi' = None
    /\ dump' = [object |-> [pod EXCEPT !.deleting = FALSE], wanted |-> wanted]
    /\ GuestDown
    /\ UNCHANGED <<fs, budget>>
-----------------------------------------------------------------------------
(* The adaptor and KubeVirt.                                               *)

CreateVMI ==
    /\ pod # None /\ pod.sandbox /\ ~pod.deleting
    /\ vmi = None
    /\ \E p \in {RestoreVolumes(pod)} : TranslateError(p) = None /\ vmi' = Translate(p)
    /\ UNCHANGED <<pod, wanted, dump, up, mounted, raced, fs, ctr, budget>>

BootVM ==
    /\ vmi # None /\ ~up
    /\ up' = TRUE
    /\ UNCHANGED <<apiVars, mounted, raced, fs, ctr, budget>>

\* The VM ends; the adaptor deletes a VMI that has failed and makes another.
VMDies ==
    /\ up
    /\ Spend("fault")
    /\ vmi' = None
    /\ GuestDown
    /\ UNCHANGED <<pod, wanted, dump, fs>>
-----------------------------------------------------------------------------
(* The kubelet's order, and the shim's StartContainer.                     *)

\* Init containers one after the other, then the others.
MayStart(n) ==
    LET at(x) == CHOOSE i \in DOMAIN pod.ctrs : pod.ctrs[i].name = x
        before(x) == CtrOf(pod, x).init /\ (CtrOf(pod, n).init => at(x) < at(n))
    IN  \A x \in CtrNames(pod) \ {n} : before(x) => ctr[x].pc = "done"

\* guestMounts and the start request: a read that fails leaves no mounts,
\* and the start goes on.
StartContainer(n) ==
    LET begin(mounts, lost) ==
            ctr' = [ctr EXCEPT ![n] = [@ EXCEPT
                      !.pc = "check", !.lost = lost,
                      !.todo = Keep(mounts, LAMBDA m : m.kind # "block"),
                      !.blocks = Keep(mounts, LAMBDA m : m.kind = "block")]]
    IN  /\ pod # None /\ pod.sandbox /\ ~pod.deleting /\ up
        /\ n \in CtrNames(pod) /\ ctr[n].pc = "waiting" /\ MayStart(n)
        /\ \/ \E src \in {RestoreVolumes(pod)} : \E asked \in {GuestMountsFor(src, n)} :
                 begin(asked, FALSE) /\ UNCHANGED budget
           \/ Spend("fault") /\ begin(<<>>, TRUE)
        /\ UNCHANGED <<apiVars, up, mounted, raced, fs>>
-----------------------------------------------------------------------------
(* The agent's start, one mount after the other.                           *)

Doing(n, pc) == ctr[n].pc = pc /\ ctr[n].todo # <<>>
Going(n, pc) == ctr' = [ctr EXCEPT ![n].pc = pc]
\* An error ends the start; what is bound so far stays bound.
Failed(n) == ctr' = [ctr EXCEPT ![n] = [@ EXCEPT !.pc = "waiting", !.todo = <<>>, !.blocks = <<>>]]

\* findDiskBySerial: the first disk with the serial.
FindDiskBySerial(serial) ==
    LET found == {i \in DOMAIN vmi.disks : vmi.disks[i].serial = serial}
    IN  IF found = {} THEN None ELSE vmi.disks[CHOOSE i \in found : \A j \in found : i <= j].claim

\* A start is about to make the first mount of the volume.
MountsFirst(v) == \E k \in Ctrs : ctr[k].pc \in {"probe", "mkfs", "blind", "mount"} /\ Head(ctr[k].todo).vol = v

MutCheck(n) ==
    /\ Doing(n, "check")
    /\ Going(n, IF Head(ctr[n].todo).kind = "tmpfs" THEN "mount" ELSE "probe")
    /\ UNCHANGED <<apiVars, up, mounted, raced, fs, budget>>

\* ensureSharedMounted: is something mounted there already?
Check(n) ==
    LET m == Head(ctr[n].todo)
    IN  /\ Doing(n, "check")
        /\ Going(n, IF mounted[m.vol] # <<>> THEN "bind" ELSE IF m.kind = "tmpfs" THEN "mount" ELSE "probe")
        /\ raced' = IF mounted[m.vol] = <<>> /\ MountsFirst(m.vol) THEN raced \cup {m.vol} ELSE raced
        /\ UNCHANGED <<apiVars, up, mounted, fs, budget>>

MutProbe(n) ==
    LET dev == FindDiskBySerial(Head(ctr[n].todo).serial)
    IN  /\ Doing(n, "probe")
        /\ IF dev = None THEN Failed(n) ELSE Going(n, "mkfs")
        /\ UNCHANGED <<apiVars, up, mounted, raced, fs, budget>>

\* mountVirtioBlk: wait for the disk, at most a minute, and look for an ext
\* superblock: whatever else is on the disk, and one that cannot be read, is
\* taken for a blank one.
Probe(n) ==
    LET dev == FindDiskBySerial(Head(ctr[n].todo).serial)
    IN  /\ Doing(n, "probe")
        /\ \/ /\ IF dev = None THEN Failed(n)
                 ELSE IF fs[dev] > 0 THEN Going(n, "mount") ELSE Going(n, "mkfs")
              /\ UNCHANGED budget
           \/ dev # None /\ fs[dev] > 0 /\ Spend("fault") /\ Going(n, "blind")
        /\ UNCHANGED <<apiVars, up, mounted, raced, fs>>

Mkfs(n) ==
    LET dev == FindDiskBySerial(Head(ctr[n].todo).serial)
    IN  /\ Doing(n, "mkfs") \/ Doing(n, "blind")
        /\ fs' = [fs EXCEPT ![dev] = IF @ = 2 THEN 2 ELSE @ + 1]
        /\ Going(n, "mount")
        /\ UNCHANGED <<apiVars, up, mounted, raced, budget>>

\* A tmpfs is mounted over whatever is there; a device that is mounted there
\* already is EBUSY, which is no error.
Mount(n) ==
    LET m == Head(ctr[n].todo)
        onto == mounted[m.vol]
        src == IF m.kind = "tmpfs" THEN "tmpfs" ELSE FindDiskBySerial(m.serial)
        new == [src |-> src, ro |-> m.ro /\ m.kind # "tmpfs", at |-> Len(onto) + 1]
        busy == m.kind # "tmpfs" /\ \E i \in DOMAIN onto : onto[i].src = src
    IN  /\ Doing(n, "mount")
        /\ mounted' = [mounted EXCEPT ![m.vol] = IF busy THEN @ ELSE Append(@, new)]
        /\ Going(n, "bind")
        /\ UNCHANGED <<apiVars, up, raced, fs, budget>>

Rebind(binds, path, inst) == {b \in binds : b.path # path} \cup {[path |-> path, inst |-> inst]}

\* bindMount into the container's tree, over what an earlier start bound.
Bind(n) ==
    LET c == ctr[n]
        m == Head(c.todo)
        top == mounted[m.vol][Len(mounted[m.vol])]
    IN  /\ Doing(n, "bind")
        /\ ctr' = [ctr EXCEPT ![n] = [c EXCEPT
                     !.pc = "check", !.todo = Tail(c.todo), !.binds = Rebind(c.binds, m.path, top)]]
        /\ UNCHANGED <<apiVars, up, mounted, raced, fs, budget>>

\* The nodes made in one container's /dev, which is the VM's, are those of
\* every other one.
Renoded(binds, nodes) ==
    LET paths == {b.path : b \in nodes}
    IN  {b \in binds : b.path \notin paths} \cup {b \in nodes : \E x \in binds : x.path = b.path}

MutStartProcess(n) ==
    LET c == ctr[n]
        bs == c.blocks
        bound(i) == [path |-> bs[i].path, inst |-> [src |-> FindDiskBySerial(bs[i].serial), ro |-> bs[i].ro, at |-> 0]]
    IN  /\ c.pc = "check" /\ c.todo = <<>>
        /\ ctr' = [ctr EXCEPT ![n] = [c EXCEPT
                     !.pc = "running", !.blocks = <<>>,
                     !.binds = {b \in @ \cup {bound(i) : i \in DOMAIN bs} : b.path \notin ChrootPaths}]]
        /\ UNCHANGED <<apiVars, up, mounted, raced, fs, budget>>

\* startInRoot: prepareChroot mounts proc, sysfs, the VM's /dev and two tmpfs
\* over what the volumes have at their paths, then come the block devices,
\* then the process.  An ext superblock is of no interest.
StartProcess(n) ==
    LET c == ctr[n]
        bs == c.blocks
        dev(i) == FindDiskBySerial(bs[i].serial)
        bound == {[path |-> bs[i].path, inst |-> [src |-> dev(i), ro |-> bs[i].ro, at |-> 0]] : i \in DOMAIN bs}
        paths == {bs[i].path : i \in DOMAIN bs}
        hidden(b) == b.path \in ChrootPaths /\ (b.path \in DevPaths => b.inst.at # 0)
        seen == {b \in c.binds : b.path \notin paths /\ ~hidden(b)} \cup bound
        nodes == {b \in bound : b.path \in DevPaths}
    IN  /\ c.pc = "check" /\ c.todo = <<>>
        /\ IF \E i \in DOMAIN bs : dev(i) = None THEN Failed(n)
           ELSE ctr' = [k \in Ctrs |->
                          IF k = n THEN [c EXCEPT !.pc = "running", !.blocks = <<>>, !.binds = seen]
                                   ELSE [ctr[k] EXCEPT !.binds = Renoded(@, nodes)]]
        /\ UNCHANGED <<apiVars, up, mounted, raced, fs, budget>>

\* A call of mount, mkfs or exec fails, and the start with it.
StartFails(n) ==
    /\ ctr[n].pc \in {"check", "mkfs", "blind", "mount", "bind"}
    /\ Spend("fault")
    /\ Failed(n)
    /\ UNCHANGED <<apiVars, up, mounted, raced, fs>>

\* The process ends: an init container is done, another is started again.
Exit(n) ==
    /\ ctr[n].pc = "running"
    /\ \/ CtrOf(pod, n).init /\ Going(n, "done") /\ UNCHANGED budget
       \/ Spend("fault") /\ Going(n, "waiting")
    /\ UNCHANGED <<apiVars, up, mounted, raced, fs>>
-----------------------------------------------------------------------------
Init ==
    /\ pod = None /\ wanted = None /\ dump = None /\ vmi = None
    /\ up = FALSE
    /\ mounted = [v \in Vols |-> <<>>]
    /\ raced = {}
    /\ fs = [k \in Claims |-> IF k \in Formatted THEN 1 ELSE 0]
    /\ ctr = [n \in Ctrs |-> NewCtr]
    /\ budget = [create |-> MaxCreates, fault |-> MaxFaults]

Starting(n) == StartContainer(n) \/ Check(n) \/ Probe(n) \/ Mkfs(n) \/ Mount(n) \/ Bind(n) \/ StartProcess(n)

Next ==
    \/ CreatePod \/ UpdatePod \/ DeletePod \/ PodGone
    \/ CreateVMI \/ BootVM \/ VMDies
    \/ \E n \in Ctrs : Starting(n) \/ StartFails(n) \/ Exit(n)

Spec == Init /\ [][Next]_vars

\* The adaptor, KubeVirt, the kubelet, the shim and the agent, taken
\* together, go on while one of them can, and init containers end.  Nobody
\* has to submit or delete a Pod.
Progress ==
    \/ CreateVMI \/ BootVM
    \/ \E n \in Ctrs : Starting(n) \/ (pod # None /\ n \in CtrNames(pod) /\ CtrOf(pod, n).init /\ Exit(n))

FairSpec == Spec /\ WF_vars(Progress)
-----------------------------------------------------------------------------
\* Every write of an admitted Pod passes the webhook again, and the API
\* server refuses one that changes the spec: what MutateSandboxPod has made
\* of a Pod it must leave alone, with annotations, probes and volumes.
AdmissionIsStable == pod # None /\ pod.sandbox /\ ~pod.deleting => MutateSandboxPod(pod) = pod

HasMounts(p) == UNION {{[ctr |-> c.name, mount |-> m] : m \in Elems(c.mounts)} : c \in Elems(p.ctrs)}

\* RestoreVolumes gives back every volume and every mount of the manifest,
\* none twice, whatever way the Pod was made and however often it was
\* written: restored a second time, as Translate does, it is the same.
RestoreIsWhole ==
    pod # None =>
        LET p == RestoreVolumes(pod)
        IN  /\ Elems(p.volumes) = Elems(wanted.volumes)
            /\ Len(p.volumes) = Len(wanted.volumes)
            /\ HasMounts(p) = HasMounts(wanted)
            /\ RestoreVolumes(p) = p

VolumeOf(p, name) == CHOOSE v \in Elems(p.volumes) : v.name = name
\* The mounts of the manifest that the guest is to make.
GuestMountsWanted(n) ==
    {m \in Elems(CtrOf(wanted, n).mounts) :
        LET v == VolumeOf(wanted, m.vol)
        IN  IsStrippedVolume(v) /\ v.name # wanted.rootfs /\ ~(m.dev /\ v.kind = "emptyDir")}

\* No two volumes that are looked up as disks are cut to one serial, and no
\* claim is behind two of them.
SerialsDiffer(p) ==
    LET disk(v) == v.kind \in {"pvc", "ephemeral"}
    IN  \A v, w \in Elems(p.volumes) : disk(v) /\ disk(w) /\ v # w => DiskSerial(v.name) # DiskSerial(w.name)
ClaimsDiffer(p) ==
    \A v, w \in Elems(p.volumes) : v.kind = "pvc" /\ w.kind = "pvc" /\ v # w => v.claim # w.claim

\* No two containers have different volumes as devices at one path of /dev.
NodesDiffer(p) ==
    \A c, d \in Elems(p.ctrs) : \A m \in Elems(c.mounts), o \in Elems(d.mounts) :
        m.dev /\ o.dev /\ m.path = o.path /\ m.path \in DevPaths => m.vol = o.vol

\* prepareChroot mounts over a volume at or below one of its directories.
Hidden(m) == ~m.dev /\ m.path \in ChrootPaths

\* A container that runs finds each volume of its manifest at its path: the
\* claim it names, or a tmpfs; a file system the Pod holds read-only cannot
\* be written.  One with an ephemeral volume, which gets no disk, never runs.
\* Four things break it in the code and are left out: serials that collide,
\* a start whose read of the Pod failed, volumes that prepareChroot hides,
\* and device nodes that two containers overwrite in the VM's /dev.
RunsWithItsVolumes ==
    \A n \in Ctrs : ctr[n].pc = "running" /\ ~ctr[n].lost /\ SerialsDiffer(wanted) =>
        \A m \in GuestMountsWanted(n) : ~Hidden(m) /\ (m.dev => NodesDiffer(wanted)) => \E b \in ctr[n].binds :
            LET v == VolumeOf(wanted, m.vol)
            IN  /\ b.path = m.path
                /\ v.kind # "ephemeral"
                /\ b.inst.src = IF v.kind = "emptyDir" THEN "tmpfs" ELSE v.claim
                /\ v.kind = "pvc" /\ v.ro /\ ~m.dev => b.inst.ro

\* Containers that run side by side and mount the same volume see one and
\* the same file system, as long as no read of the Pod has failed and
\* prepareChroot hides it from neither.  Two starts at once that both find an
\* emptyDir not mounted break it in the code: the agent looks and mounts
\* without a lock.
VolumesAreShared ==
    \A n, k \in Ctrs : ctr[n].pc = "running" /\ ctr[k].pc = "running" /\ (\A x \in Ctrs : ~ctr[x].lost) =>
        \A m \in GuestMountsWanted(n), o \in GuestMountsWanted(k) :
            m.vol = o.vol /\ m.vol \notin raced /\ ~m.dev /\ ~o.dev /\ ~Hidden(m) /\ ~Hidden(o) =>
                \E b \in ctr[n].binds, d \in ctr[k].binds :
                    b.path = m.path /\ d.path = o.path /\ b.inst = d.inst

RacedClaims == IF wanted = None THEN {} ELSE {VolumeOf(wanted, v).claim : v \in raced}

\* The claims of the starts whose read of the superblock has failed.
UnreadClaims == {FindDiskBySerial(Head(ctr[n].todo).serial) : n \in {k \in Ctrs : ctr[k].pc = "blind"}}

\* An ext file system on a claim is not formatted when its Pod comes back or
\* meets another VM, when a start fails or is repeated: only by two starts at
\* once that both find it blank, and by one that could not read the
\* superblock.  (A claim with any other file system counts as blank: it is
\* formatted.)  Serials that collide, and a claim behind two volumes of its
\* Pod, are left out: there two starts format without meeting.
DataIsKept ==
    [][wanted = None \/ (SerialsDiffer(wanted) /\ ClaimsDiffer(wanted)) =>
           \A k \in Claims \ (RacedClaims \cup UnreadClaims) : fs[k] > 0 => fs'[k] = fs[k]]_vars

\* The guest of a VMI has the memory and cores its containers ask for, all
\* its memory in pages when it has any, a size class that holds it if one
\* does, one disk for each claim that is behind one volume, and no port
\* number twice.
VMIHoldsPod ==
    vmi # None =>
        LET asked == Sum(Field(wanted.ctrs, LAMBDA c : c.mem))
            claims == {v.claim : v \in {w \in Elems(wanted.volumes) : w.kind = "pvc"}}
            holds(cl) == Cores(cl.cpu) >= vmi.cores /\ cl.mem >= vmi.mem
        IN  /\ vmi.mem >= asked /\ 1000 * vmi.cores >= Sum(Field(wanted.ctrs, LAMBDA c : c.cpu))
            /\ vmi.pages # None => PagesAsked(wanted) >= vmi.mem
            /\ (\E cl \in Elems(SizeClasses) : holds(cl)) =>
                   \E cl \in Elems(SizeClasses) : cl.name = vmi.class /\ holds(cl)
            /\ ClaimsDiffer(wanted) => \A k \in claims : Cardinality({i \in DOMAIN vmi.disks : vmi.disks[i].claim = k}) = 1
            /\ \A i, j \in DOMAIN vmi.ports : vmi.ports[i].port = vmi.ports[j].port => i = j
            /\ (vmi.boot = "efi") = (vmi.tee \in {"snp", "tdx"})

\* A manifest that can be translated and names no ephemeral volume.
Startable(t) ==
    /\ t.sandbox
    /\ TranslateError(t) = None
    /\ \A v \in Elems(t.volumes) : v.kind # "ephemeral"

\* Once a Pod that can be translated is there, all its containers come to
\* run at the same time, init containers done, unless it is deleted: no
\* mount waits for ever, and no failed, repeated or overtaken start leaves
\* the tree unusable.
ContainersRun ==
    wanted # None /\ Startable(wanted) ~>
        \/ pod = None \/ pod.deleting
        \/ \A n \in CtrNames(pod) : ctr[n].pc = IF CtrOf(pod, n).init THEN "done" ELSE "running"
=============================================================================
