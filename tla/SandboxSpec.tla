---------------------------- MODULE SandboxSpec ----------------------------
(***************************************************************************)
(* What the project computes from a Pod's manifest, with no state of its   *)
(* own: the webhook's mutation of a sandbox Pod (pkg/webhook), the volumes *)
(* it takes out and that come back later (pkg/sandbox), the VMI the        *)
(* adaptor asks for (pkg/sandbox/translate), and the mounts the shim asks  *)
(* the guest agent for.  PodVolumes puts these to work.                    *)
(*                                                                         *)
(* A Pod is a record: sandbox (its RuntimeClass is marooned), deleting,    *)
(* label, finalizer, snapshot (the volumes annotation, None when absent),  *)
(* placement, rootfs (the volume named as rootfs disk, None when absent),  *)
(* tee and nad (annotations), claims (resourceClaims), volumes and ctrs.   *)
(* A volume is [name, kind, claim, ro]; a container is [name, init,        *)
(* mounts, probe, cpu, mem, pages, vfs, gpu, ports]; a mount is            *)
(* [vol, path, ro, dev], where dev tells a volumeDevice.  Names of volumes *)
(* are sequences of characters, because serials are cut out of them.       *)
(***************************************************************************)
EXTENDS Naturals, Sequences, FiniteSets, SequencesExt

CONSTANTS
    None,           \* an absent annotation or value
    Alnum,          \* the characters a disk serial may hold
    SerialLen,      \* longest virtio serial (20)
    MaxAnnotation,  \* largest volumes annotation, in volumes and mounts
    MinGuestMem,    \* least guest memory
    TeeSlop,        \* guest memory added for a confidential VM
    Defaults,       \* the settings of EffectiveSandbox without a config: overhead
                    \* ([cpu, mem]), classes (a sequence of [name, cpu, mem]), tee,
                    \* nad (the SR-IOV network, None when empty) and binding
    ConfigSandbox   \* spec.sandbox of the MaroonedPodsConfig: the same fields, None
                    \* where empty; None without one

ASSUME SerialAssumption == SerialLen \in Nat /\ SerialLen > 1
ASSUME LimitsAssumption == MaxAnnotation \in Nat /\ MinGuestMem \in Nat /\ TeeSlop \in Nat

Elems(s) == {s[i] : i \in DOMAIN s}
IsSeq(s) == s \in Seq(Elems(s))
\* Recursive functions, rather than folds, where a proof unfolds them.
Sum(s) == LET total[i \in 0 .. Len(s)] == IF i = 0 THEN 0 ELSE total[i - 1] + s[i] IN total[Len(s)]
Field(s, F(_)) == [i \in DOMAIN s |-> F(s[i])]
\* The elements of s that are in S, in their order.
Only(s, S) ==
    LET kept[i \in 0 .. Len(s)] ==
            IF i = 0 THEN <<>> ELSE IF s[i] \in S THEN Append(kept[i - 1], s[i]) ELSE kept[i - 1]
    IN  kept[Len(s)]
\* SelectSeq, in a form that a proof can unfold.
Keep(s, Test(_)) == Only(s, {x \in Elems(s) : Test(x)})
NamesOf(vols) == {v.name : v \in Elems(vols)}
-----------------------------------------------------------------------------
(* pkg/sandbox/volumes.go: what is taken out and what comes back.          *)

IsStrippedVolume(v) == v.kind \in {"pvc", "ephemeral", "emptyDir"}

Stripped(pod) == {v.name : v \in {w \in Elems(pod.volumes) : IsStrippedVolume(w)}}

\* The volumes that leave the Pod, and each container's mounts of them.  A
\* container without such a mount has no entry.
CaptureStrippedVolumes(pod) ==
    LET taken(c) == Keep(c.mounts, LAMBDA m : m.vol \in Stripped(pod))
        entry(c) == [container |-> c.name, init |-> c.init, mounts |-> taken(c)]
    IN  [volumes |-> Keep(pod.volumes, IsStrippedVolume),
         mounts  |-> Field(Keep(pod.ctrs, LAMBDA c : taken(c) # <<>>), entry)]

\* The annotation's size is counted in the volumes and mounts it holds.
SnapshotSize(snap) == Len(snap.volumes) + Sum(Field(snap.mounts, LAMBDA e : Len(e.mounts)))

\* restoreMounts: mounts and devices are told apart, each is put back unless
\* the container still has one of the same kind and volume.
RestoreMounts(c, entry) ==
    IF c.name # entry.container \/ c.init # entry.init THEN c
    ELSE LET have == {[vol |-> m.vol, dev |-> m.dev] : m \in Elems(c.mounts)}
             absent(m) == [vol |-> m.vol, dev |-> m.dev] \notin have
         IN  [c EXCEPT !.mounts = @ \o Keep(entry.mounts, absent)]

\* All entries of a snapshot, one after the other.
RestoreAll(c, entries) ==
    LET done[k \in 0 .. Len(entries)] == IF k = 0 THEN c ELSE RestoreMounts(done[k - 1], entries[k])
    IN  done[Len(entries)]

\* A copy of the Pod with the volumes and mounts of its snapshot put back.
RestoreVolumes(pod) ==
    IF pod.snapshot = None THEN pod
    ELSE [pod EXCEPT
            !.volumes = @ \o Keep(pod.snapshot.volumes, LAMBDA v : v.name \notin NamesOf(pod.volumes)),
            !.ctrs = [i \in DOMAIN @ |-> RestoreAll(@[i], pod.snapshot.mounts)]]
-----------------------------------------------------------------------------
(* pkg/webhook/sandbox.go: admission of a Pod of RuntimeClass marooned.    *)

\* A probe is [kind, port, timeout, delay]; port 0 is a named port.  HTTP
\* and TCP probes become an exec in the guest, and get time for the way.
RewriteProbeToExec(p) ==
    IF p.kind \notin {"http", "tcp"} \/ p.port = 0 THEN p
    ELSE [kind |-> "exec", port |-> p.port,
          timeout |-> IF p.timeout <= 1 THEN 10 ELSE p.timeout,
          delay |-> IF p.delay < 5 THEN 5 ELSE p.delay]

\* The snapshot is taken once: an annotation that is there is kept.
PersistVolumeSnapshot(pod) ==
    IF pod.snapshot = None THEN CaptureStrippedVolumes(pod) ELSE pod.snapshot

\* Has the Pod a snapshot that fits, or can one be made?
Encodable(pod) ==
    pod.snapshot = None => SnapshotSize(CaptureStrippedVolumes(pod)) <= MaxAnnotation

DropVolumeRefs(c, dropped) ==
    [c EXCEPT !.mounts = Keep(@, LAMBDA m : m.vol \notin dropped)]

\* The probes of init containers are left as they are.
RewriteProbesToExec(c) ==
    IF c.init THEN c ELSE [c EXCEPT !.probe = RewriteProbeToExec(@)]

\* What is left in the Pod.
OtherVolumes(pod) == Keep(pod.volumes, LAMBDA v : ~IsStrippedVolume(v))
OtherCtrs(pod) ==
    [i \in DOMAIN pod.ctrs |-> RewriteProbesToExec(DropVolumeRefs(pod.ctrs[i], Stripped(pod)))]

MutSnapshotAgain(pod) ==
    IF pod.deleting THEN pod
    ELSE [pod EXCEPT
            !.label = TRUE, !.finalizer = TRUE, !.placement = TRUE,
            !.snapshot = CaptureStrippedVolumes(pod),
            !.volumes = OtherVolumes(pod),
            !.ctrs = OtherCtrs(pod)]

MutSnapshotAfter(pod) ==
    LET bare == [pod EXCEPT
                   !.label = TRUE, !.finalizer = TRUE, !.placement = TRUE,
                   !.volumes = OtherVolumes(pod), !.ctrs = OtherCtrs(pod)]
    IN  IF pod.deleting THEN pod ELSE [bare EXCEPT !.snapshot = PersistVolumeSnapshot(bare)]

MutateSandboxPod(pod) ==
    IF pod.deleting THEN pod
    ELSE [pod EXCEPT
            !.label = TRUE, !.finalizer = TRUE, !.placement = TRUE,
            !.snapshot = PersistVolumeSnapshot(pod),
            !.volumes = OtherVolumes(pod),
            !.ctrs = OtherCtrs(pod)]

\* The review of a Pod's create or update: the object to store, or None when
\* it is forbidden.  A Pod of another RuntimeClass passes as it is.
Handle(pod) ==
    IF ~pod.sandbox THEN pod
    ELSE IF pod.deleting \/ Encodable(pod) THEN MutateSandboxPod(pod)
    ELSE None
-----------------------------------------------------------------------------
(* pkg/sandbox/guestmounts.go: what one container mounts in the guest.     *)

\* The letters and digits of the name after a 'v', cut to SerialLen.
DiskSerial(name) ==
    LET kept == Keep(name, LAMBDA ch : ch \in Alnum)
    IN  IF kept = <<>> THEN <<"v", "d", "i", "s", "k">>
        ELSE <<"v">> \o SubSeq(kept, 1, IF Len(kept) < SerialLen THEN Len(kept) ELSE SerialLen - 1)

\* The serial of the disk that holds the container's root: no 'v'.
UserRootfsSerial == <<"userrootfs">>

GuestMountFor(v, m) ==
    [vol |-> v.name, path |-> m.path,
     kind |-> IF v.kind = "emptyDir" THEN "tmpfs" ELSE IF m.dev THEN "block" ELSE "virtio-blk",
     serial |-> IF v.kind = "emptyDir" THEN None ELSE DiskSerial(v.name),
     ro |-> (~m.dev /\ m.ro) \/ (v.kind = "pvc" /\ v.ro)]

\* The mounts of the container, then its devices.  src is the Pod with its
\* volumes restored; no two containers have one name, so that the walk over
\* all of them meets one.  The volume of the rootfs disk is skipped.
GuestMountsFor(src, name) ==
    LET c == CHOOSE d \in Elems(src.ctrs) : d.name = name
        volume(m) == {v \in Elems(src.volumes) : v.name = m.vol /\ v.name # src.rootfs}
        wanted(m) == \E v \in volume(m) : IsStrippedVolume(v) /\ ~(m.dev /\ v.kind = "emptyDir")
        of(m) == GuestMountFor(CHOOSE v \in volume(m) : TRUE, m)
    IN  Field(Keep(c.mounts, LAMBDA m : ~m.dev /\ wanted(m)), of)
            \o Field(Keep(c.mounts, LAMBDA m : m.dev /\ wanted(m)), of)
-----------------------------------------------------------------------------
(* pkg/sandbox/translate: the VMI of a Pod.                                *)

\* pkg/sandbox/config.go: what is set in the config takes the place of the
\* default.
EffectiveSandbox ==
    IF ConfigSandbox = None THEN Defaults
    ELSE [f \in DOMAIN Defaults |-> IF ConfigSandbox[f] = None THEN Defaults[f] ELSE ConfigSandbox[f]]

Overhead == EffectiveSandbox.overhead
SizeClasses == EffectiveSandbox.classes
ASSUME SettingsAssumption == Overhead.cpu \in Nat /\ Overhead.mem \in Nat /\ IsSeq(SizeClasses)

Confidential(tee) == tee \in {"snp", "tdx"}

\* The Pod's annotation, or the default, unless that says to follow the
\* annotation.
ResolveTEE(pod) ==
    IF pod.tee # None THEN pod.tee
    ELSE IF EffectiveSandbox.tee # "annotation" THEN EffectiveSandbox.tee ELSE "off"

AppCtrs(pod) == Keep(pod.ctrs, LAMBDA c : ~c.init)

CheckConflicts(pod) ==
    /\ ResolveTEE(pod) # "off"
    /\ pod.claims \/ \E c \in Elems(AppCtrs(pod)) : c.vfs > 0 \/ c.gpu

MutGuestMem(pod) ==
    LET asked == Sum(Field(AppCtrs(pod), LAMBDA c : c.mem)) + Overhead.mem
    IN  IF asked < MinGuestMem THEN MinGuestMem ELSE asked

\* guestCompute, in millicores and in units of memory.
GuestMem(pod) ==
    LET asked == Sum(Field(pod.ctrs, LAMBDA c : c.mem)) + Overhead.mem
    IN  (IF asked < MinGuestMem THEN MinGuestMem ELSE asked)
            + IF Confidential(ResolveTEE(pod)) THEN TeeSlop ELSE 0

Cores(millis) == IF millis = 0 THEN 1 ELSE (millis + 999) \div 1000

GuestCores(pod) == Cores(Sum(Field(pod.ctrs, LAMBDA c : c.cpu)) + Overhead.cpu)

\* The first class that holds the guest; the last one when none does.
PickSizeClass(cores, mem) ==
    LET fits == {i \in DOMAIN SizeClasses : Cores(SizeClasses[i].cpu) >= cores /\ SizeClasses[i].mem >= mem}
    IN  IF SizeClasses = <<>> THEN "custom"
        ELSE IF fits = {} THEN SizeClasses[Len(SizeClasses)].name
        ELSE SizeClasses[CHOOSE i \in fits : \A j \in fits : i <= j].name

\* A confidential guest boots from its own disk, another the given kernel.
ApplyBoot(tee) == IF Confidential(tee) THEN "efi" ELSE "kernel"

\* The volume named as rootfs disk, if it is a claim.
RootfsPVC(pod) ==
    LET named == {v \in Elems(RestoreVolumes(pod).volumes) : v.name = pod.rootfs /\ v.kind = "pvc"}
    IN  IF named = {} THEN None ELSE CHOOSE v \in named : TRUE

\* Hugepages: pages is a sequence of [size, qty].
PageRequests(pod) == FlattenSeq(Field(AppCtrs(pod), LAMBDA c : c.pages))
PageSizes(pod) == {r.size : r \in Elems(PageRequests(pod))}
PagesAsked(pod) == Sum(Field(PageRequests(pod), LAMBDA r : r.qty))

\* Backed by pages only when the Pod asks for as many as the guest has.
ApplyHugepages(pod) ==
    IF PageSizes(pod) # {} /\ PagesAsked(pod) >= GuestMem(pod)
    THEN CHOOSE s \in PageSizes(pod) : TRUE ELSE None

VFs(pod) == Sum(Field(AppCtrs(pod), LAMBDA c : c.vfs))

\* The first thing that forbids the translation, in the order of Translate.
TranslateError(pod) ==
    IF CheckConflicts(pod) THEN "conflict"
    ELSE IF pod.rootfs # None /\ RootfsPVC(pod) = None THEN "rootfs"
    ELSE IF Cardinality(PageSizes(pod)) > 1 THEN "hugepages"
    ELSE IF VFs(pod) > 0 /\ pod.nad = None /\ EffectiveSandbox.nad = None THEN "sriov"
    ELSE IF pod.claims THEN "dra"
    ELSE None

\* A container's ports, without those whose number is there already.
AddPort(out, p) == IF p.port = 0 \/ \E q \in Elems(out) : q.port = p.port THEN out ELSE Append(out, p)
AddPorts(out, ports) ==
    LET done[i \in 0 .. Len(ports)] == IF i = 0 THEN out ELSE AddPort(done[i - 1], ports[i])
    IN  done[Len(ports)]

\* WorkloadPorts: the agent's port first, then each port number once.
AgentPort == [port |-> 1024, proto |-> "TCP"]
WorkloadPorts(pod) ==
    LET cs == AppCtrs(pod)
        done[i \in 0 .. Len(cs)] == IF i = 0 THEN <<AgentPort>> ELSE AddPorts(done[i - 1], cs[i].ports)
    IN  done[Len(cs)]

\* Only masquerade has to know the ports.
ApplyNetwork(pod) == IF EffectiveSandbox.binding = "masquerade" THEN WorkloadPorts(pod) ELSE <<>>

\* The container's root: a claim, or (None) an empty disk.
ApplyUserRootfs(pod) ==
    LET v == RootfsPVC(pod)
    IN  IF v = None THEN [serial |-> UserRootfsSerial, claim |-> None, ro |-> FALSE]
        ELSE [serial |-> UserRootfsSerial, claim |-> v.claim, ro |-> v.ro]

MutApplyVolumes(pod) ==
    LET disk(v) == [serial |-> DiskSerial(v.name), claim |-> v.claim, ro |-> v.ro]
        used(v) == \E c \in Elems(RestoreVolumes(pod).ctrs) : \E m \in Elems(c.mounts) : m.vol = v.name /\ ~m.dev
        attached(v) == v.kind = "pvc" /\ v.name # pod.rootfs /\ used(v)
    IN  <<ApplyUserRootfs(pod)>>
            \o Field(Keep(RestoreVolumes(pod).volumes, attached), disk)

\* applyVolumes: one disk for each claim, in the order of the volumes, after
\* the rootfs disk.  An ephemeral volume gets no disk.
ApplyVolumes(pod) ==
    LET disk(v) == [serial |-> DiskSerial(v.name), claim |-> v.claim, ro |-> v.ro]
        attached(v) == v.kind = "pvc" /\ v.name # pod.rootfs
    IN  <<ApplyUserRootfs(pod)>>
            \o Field(Keep(RestoreVolumes(pod).volumes, attached), disk)

\* The VMI of a Pod.  The adaptor hands in the Pod with its volumes restored.
Translate(pod) ==
    LET tee == ResolveTEE(pod)
    IN  [tee   |-> tee,
         boot  |-> ApplyBoot(tee),
         cores |-> GuestCores(pod),
         mem   |-> GuestMem(pod),
         class |-> PickSizeClass(GuestCores(pod), GuestMem(pod)),
         pages |-> ApplyHugepages(pod),
         nics  |-> 1 + VFs(pod),
         ports |-> ApplyNetwork(pod),
         disks |-> ApplyVolumes(pod)]
=============================================================================
