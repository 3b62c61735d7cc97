------------------------ MODULE SandboxAdaptorProofs ------------------------
(***************************************************************************)
(* Proofs about SandboxAdaptor for every set of names, UIDs and workers,   *)
(* every size and every bound: type correctness, the release invariant,    *)
(* that the adaptor never creates a VMI for a Pod it has let go, and that  *)
(* it deletes by name only the VMI it has judged.                          *)
(***************************************************************************)
EXTENDS SandboxAdaptor, TLAPS

\* A stored version is the old object or the next version of the written one.
LEMMA StoredIsNext ==
    ASSUME NEW n \in Names, NEW p \in LivePodObject
    PROVE  /\ Stored(n, p) \in LivePodObject
           /\ Stored(n, p).uid = p.uid
           /\ Stored(n, p).del = p.del
           /\ Stored(n, p) = pod[n] \/ Stored(n, p).rv = p.rv + 1
<1>1. /\ MutateSandboxPod(p) \in LivePodObject
      /\ MutateSandboxPod(p).uid = p.uid
      /\ MutateSandboxPod(p).del = p.del
      /\ MutateSandboxPod(p).rv = p.rv
  BY DEF MutateSandboxPod, LivePodObject
<1>2. \A q \in LivePodObject : /\ [q EXCEPT !.rv = @ + 1] \in LivePodObject
                               /\ [q EXCEPT !.rv = @ + 1].uid = q.uid
                               /\ [q EXCEPT !.rv = @ + 1].del = q.del
                               /\ [q EXCEPT !.rv = @ + 1].rv = q.rv + 1
  BY DEF LivePodObject
<1>. DEFINE q == IF webhookOn THEN MutateSandboxPod(p) ELSE p
<1>3. /\ q \in LivePodObject
      /\ q.uid = p.uid
      /\ q.del = p.del
      /\ q.rv = p.rv
  BY <1>1
<1>4. Stored(n, p) = IF q = pod[n] THEN q ELSE [q EXCEPT !.rv = @ + 1]
  BY DEF Stored
<1>. HIDE DEF q
<1>. QED
  BY <1>2, <1>3, <1>4

\* The absent Pod is not a live one.
LEMMA NoPodIsAbsent ==
    /\ NoPod \in PodObject
    /\ NoPod \notin LivePodObject
    /\ ~Exists(NoPod) /\ ~NoPod.del /\ ~NoPod.bound
    /\ \A p \in PodObject : Exists(p) => p \in LivePodObject /\ p.uid \in UIDs
    /\ \A p \in PodObject : p.del \/ p.bound => p \in LivePodObject
  BY NamesAssumption DEF NoPod, PodObject, LivePodObject, Exists

Kinds == {"fault", "restart", "write", "failure", "vmidelete", "flip"}

\* The part of the type invariant about workers.
WorkersTyped ==
    /\ worker \in [Workers -> WorkerState]
    /\ \A w \in Workers : worker[w].pc # "idle" =>
          worker[w].key \in Names /\ worker[w].pod.uid \in UIDs

\* An idle worker is a worker.
LEMMA IdleTyped == IdleWorker \in WorkerState /\ IdleWorker.pc = "idle" /\ NoVMI \in VMIObject
  BY NoPodIsAbsent DEF IdleWorker, WorkerState, PCs, NoVMI, VMIObject

\* Moving a busy worker on keeps its key and its Pod.
LEMMA GotoTyped ==
    ASSUME TypeOK, NEW w \in Workers, NEW pc \in PCs, worker[w].pc # "idle", Goto(w, pc)
    PROVE  WorkersTyped'
  BY DEF TypeOK, WorkersTyped, Goto, WorkerState

\* Going idle forgets both.
LEMMA ToIdleTyped ==
    ASSUME TypeOK, NEW w \in Workers, worker' = [worker EXCEPT ![w] = IdleWorker]
    PROVE  WorkersTyped'
  BY IdleTyped DEF TypeOK, WorkersTyped

\* Ending a key's turn keeps the workers and the queues typed.
LEMMA QueueTyped ==
    ASSUME TypeOK, NEW w \in Workers, worker[w].pc # "idle", Requeue(w) \/ Forget(w)
    PROVE  WorkersTyped' /\ queue' \subseteq Names /\ delayed' \subseteq Names
  BY ToIdleTyped DEF Requeue, Forget, TypeOK, queueVars

\* Spending a fault leaves a budget.
LEMMA SpendTyped ==
    ASSUME TypeOK, NEW kind \in Kinds, Spend(kind)
    PROVE  budget' \in [Kinds -> Nat]
  BY DEF TypeOK, Spend, Kinds

\* Marking a VMI deleted leaves a VMI.
LEMMA MarkedTyped ==
    ASSUME TypeOK, NEW u \in UIDs
    PROVE  MarkedDeleted(u) \in [UIDs -> VMIObject]
  BY DEF TypeOK, MarkedDeleted, VMIObject

\* A new VMI is well typed whatever the Pod asks for.
LEMMA TranslateTyped ==
    ASSUME NEW p \in LivePodObject, NEW inc \in Nat
    PROVE  Translate(p, inc) \in VMIObject
<1>1. UserRootfsCapacityN(p.bytes, WorkloadCount) \in Nat
  BY SizesAssumption DEF UserRootfsCapacityN, MinUserRootfs, UserRootfsSlack, LivePodObject
<1>. QED
  BY <1>1 DEF Translate, VMIObject, LivePodObject

\* A busy worker holds a live Pod, and annotating or stripping it keeps it one.
LEMMA BusyPod ==
    ASSUME TypeOK, NEW w \in Workers, worker[w].pc # "idle"
    PROVE  /\ worker[w].key \in Names
           /\ worker[w].pod \in LivePodObject
           /\ worker[w].pod.uid \in UIDs
           /\ worker[w].vmi \in VMIObject
  BY NoPodIsAbsent DEF TypeOK, WorkerState, PodObject, LivePodObject, Exists, NoPod

\* The edits the writers make keep a Pod's identity, version and deletion.
LEMMA EditsTyped ==
    ASSUME NEW p \in LivePodObject
    PROVE  /\ \A v \in VMIObject : \A ip \in Nat :
                 /\ Annotated(p, v, ip) \in LivePodObject
                 /\ Annotated(p, v, ip).uid = p.uid
                 /\ Annotated(p, v, ip).del = p.del
                 /\ Annotated(p, v, ip).rv = p.rv
           /\ [p EXCEPT !.fin = FALSE] \in LivePodObject
           /\ [p EXCEPT !.fin = FALSE].uid = p.uid
           /\ [p EXCEPT !.fin = FALSE].del = p.del
           /\ [p EXCEPT !.fin = FALSE].rv = p.rv
           /\ \A b \in Nat : /\ [p EXCEPT !.bytes = b] \in LivePodObject
                             /\ [p EXCEPT !.bytes = b].uid = p.uid
                             /\ [p EXCEPT !.bytes = b].del = p.del
                             /\ [p EXCEPT !.bytes = b].rv = p.rv
  BY DEF Annotated, LivePodObject, VMIObject

\* Every step keeps the type invariant.
LEMMA TypeStep == TypeOK /\ [Next]_vars => TypeOK'
<1>. SUFFICES ASSUME TypeOK, [Next]_vars PROVE TypeOK'
  OBVIOUS
<1>. USE DEF Kinds
<1>1. ASSUME NEW w \in Workers, NEW n \in Names, Execute(w, n) PROVE TypeOK'
  <2>. DEFINE p == podCache[n]
              pc == IF p.del THEN IF p.fin THEN "delete" ELSE "idle"
                    ELSE IF p.bound THEN "ensure" ELSE "idle"
              busy == [pc |-> pc, key |-> n, pod |-> p, vmi |-> NoVMI]
  <2>1. p \in PodObject
    BY DEF TypeOK
  <2>2. pc \in PCs /\ (pc # "idle" => p.uid \in UIDs)
    BY <2>1, NoPodIsAbsent DEF PCs, LivePodObject
  <2>3. busy \in WorkerState /\ busy.pc = pc /\ busy.key = n /\ busy.pod = p
    BY <2>1, <2>2, IdleTyped DEF WorkerState
  <2>4. worker' = IF pc = "idle" THEN worker ELSE [worker EXCEPT ![w] = busy]
    BY <1>1 DEF Execute
  <2>. HIDE DEF pc, p, busy
  <2>5. WorkersTyped'
    BY <2>2, <2>3, <2>4 DEF TypeOK, WorkersTyped
  <2>. QED
    BY <1>1, <2>5 DEF Execute, TypeOK, WorkersTyped, apiVars, cacheVars
<1>2. ASSUME NEW w \in Workers, LookupExisting(w) PROVE TypeOK'
  <2>1. WorkersTyped' /\ queue' \subseteq Names /\ delayed' \subseteq Names
    <3>. DEFINE v == vmiCache[worker[w].pod.uid]
    <3>1. v \in VMIObject /\ worker[w].pc # "idle"
      BY <1>2, BusyPod DEF TypeOK, LookupExisting
    <3>2. CASE Requeue(w)
      BY <3>1, <3>2, QueueTyped
    <3>3. ASSUME NEW pc \in {"create", "recreate", "annotate"},
                 worker' = [worker EXCEPT ![w].pc = pc, ![w].vmi = v],
                 UNCHANGED queueVars
          PROVE  WorkersTyped' /\ queue' \subseteq Names /\ delayed' \subseteq Names
      <4>. DEFINE x == [worker[w] EXCEPT !.pc = pc, !.vmi = v]
      <4>1. worker' = [worker EXCEPT ![w] = x]
        BY <3>3
      <4>2. x \in WorkerState /\ x.key = worker[w].key /\ x.pod = worker[w].pod
        BY <3>1 DEF TypeOK, WorkerState, PCs
      <4>. HIDE DEF x
      <4>. QED
        BY <3>1, <3>3, <4>1, <4>2 DEF TypeOK, WorkersTyped, queueVars
    <3>. QED
      BY <1>2, <3>2, <3>3 DEF LookupExisting
  <2>. QED
    BY <1>2, <2>1 DEF LookupExisting, TypeOK, WorkersTyped, apiVars, cacheVars
<1>3. ASSUME NEW w \in Workers, RecreateVMI(w) PROVE TypeOK'
  BY <1>3, BusyPod, MarkedTyped, SpendTyped, QueueTyped
     DEF RecreateVMI, TypeOK, WorkersTyped, cacheVars
<1>4. ASSUME NEW w \in Workers, CreateVMI(w) PROVE TypeOK'
  <2>1. vmi' \in [UIDs -> VMIObject] /\ lastInc' \in Nat
    BY <1>4, BusyPod, TranslateTyped DEF CreateVMI, TypeOK
  <2>. QED
    BY <1>4, <2>1, SpendTyped, QueueTyped DEF CreateVMI, TypeOK, WorkersTyped, cacheVars
<1>5. ASSUME NEW w \in Workers, AfterAnnotate(w), worker[w].pc # "idle"
      PROVE  WorkersTyped' /\ queue' \subseteq Names /\ delayed' \subseteq Names
  <2>1. CASE Goto(w, "publish") /\ UNCHANGED queueVars
    BY <1>5, <2>1, GotoTyped DEF PCs, queueVars, TypeOK
  <2>. QED
    BY <1>5, <2>1, QueueTyped DEF AfterAnnotate
<1>6. ASSUME NEW w \in Workers, AnnotateSkip(w) PROVE TypeOK'
  BY <1>5, <1>6, SpendTyped
     DEF AnnotateSkip, ServiceBackendIP, TypeOK, WorkersTyped, apiVars, cacheVars
<1>7. ASSUME NEW w \in Workers, AnnotateUpdate(w) PROVE TypeOK'
  <2>1. pod' \in [Names -> PodObject]
    <3>. DEFINE n == worker[w].key
                v == worker[w].vmi
    <3>1. PICK ip \in {0, v.inc} :
             pod' = [pod EXCEPT ![n] = Stored(n, Annotated(worker[w].pod, v, ip))]
      BY <1>7 DEF AnnotateUpdate
    <3>2. /\ n \in Names /\ v \in VMIObject /\ ip \in Nat
          /\ worker[w].pod \in LivePodObject
      BY <1>7, BusyPod DEF AnnotateUpdate, VMIObject
    <3>. DEFINE q == Annotated(worker[w].pod, v, ip)
    <3>3. q \in LivePodObject
      BY <3>2, EditsTyped
    <3>. HIDE DEF q
    <3>4. Stored(n, q) \in LivePodObject
      BY <3>2, <3>3, StoredIsNext
    <3>. QED
      BY <3>1, <3>2, <3>4 DEF TypeOK, PodObject, q
  <2>. QED
    BY <1>5, <1>7, <2>1, SpendTyped
       DEF AnnotateUpdate, ServiceBackendIP, TypeOK, WorkersTyped, cacheVars
<1>8. ASSUME NEW w \in Workers, AnnotateError(w) PROVE TypeOK'
  BY <1>8, SpendTyped, QueueTyped DEF AnnotateError, TypeOK, WorkersTyped, apiVars, cacheVars
<1>9. ASSUME NEW w \in Workers, PublishEndpointSlice(w) PROVE TypeOK'
  <2>1. slice' \in [Names -> Nat]
    BY <1>9, BusyPod DEF PublishEndpointSlice, TypeOK, VMIObject
  <2>. QED
    BY <1>9, <2>1, SpendTyped, QueueTyped DEF PublishEndpointSlice, TypeOK, WorkersTyped, cacheVars
<1>10. ASSUME NEW w \in Workers, DeleteSandboxVMI(w) PROVE TypeOK'
  <2>1. WorkersTyped'
    BY <1>10, GotoTyped DEF DeleteSandboxVMI, PCs
  <2>. QED
    BY <1>10, <2>1, BusyPod, MarkedTyped, SpendTyped
       DEF DeleteSandboxVMI, TypeOK, WorkersTyped, cacheVars, queueVars
<1>11. ASSUME NEW w \in Workers, StripFinalizer(w) PROVE TypeOK'
  <2>1. pod' \in [Names -> PodObject]
    BY <1>11, BusyPod, EditsTyped, StoredIsNext DEF StripFinalizer, TypeOK, PodObject
  <2>. QED
    BY <1>11, <2>1, BusyPod, QueueTyped DEF StripFinalizer, TypeOK, WorkersTyped, cacheVars
<1>12. ASSUME NEW w \in Workers, StripError(w) PROVE TypeOK'
  BY <1>12, SpendTyped, QueueTyped DEF StripError, TypeOK, WorkersTyped, apiVars, cacheVars
<1>13. ASSUME NEW n \in Names, DelayExpires(n) \/ SyncPod(n) \/ Resync(n) PROVE TypeOK'
  BY <1>13 DEF DelayExpires, SyncPod, Resync, TypeOK, apiVars, cacheVars
<1>14. ASSUME NEW u \in UIDs, SyncVMI(u) PROVE TypeOK'
  BY <1>14, NamesAssumption DEF SyncVMI, TypeOK, apiVars
<1>15. CASE Restart
  BY <1>15, SpendTyped, IdleTyped, NamesAssumption DEF Restart, TypeOK, apiVars
<1>16. ASSUME NEW u \in UIDs, CreatePod(u) PROVE TypeOK'
  <2>1. \A pvc, raw \in BOOLEAN :
           [NoPod EXCEPT !.uid = u, !.pvc = pvc, !.raw = raw] \in LivePodObject
    BY DEF NoPod, LivePodObject
  <2>2. NameOf[u] \in Names
    BY NamesAssumption
  <2>3. pod' \in [Names -> PodObject]
    <3>1. PICK pvc \in PVCRoots, raw \in RawPods :
             pod' = [pod EXCEPT ![NameOf[u]] =
                        Stored(NameOf[u], [NoPod EXCEPT !.uid = u, !.pvc = pvc, !.raw = raw])]
      BY <1>16 DEF CreatePod
    <3>. DEFINE q == [NoPod EXCEPT !.uid = u, !.pvc = pvc, !.raw = raw]
    <3>2. q \in LivePodObject
      BY <2>1, ChoicesAssumption
    <3>. HIDE DEF q
    <3>3. Stored(NameOf[u], q) \in LivePodObject
      BY <2>2, <3>2, StoredIsNext
    <3>. QED
      BY <2>2, <3>1, <3>3 DEF TypeOK, PodObject, q
  <2>. QED
    BY <1>16, <2>3 DEF CreatePod, TypeOK, cacheVars, queueVars
<1>17. ASSUME NEW n \in Names, DeletePod(n) \/ BindPod(n) PROVE TypeOK'
  <2>1. pod[n] \in LivePodObject
    BY <1>17, NoPodIsAbsent DEF DeletePod, BindPod, TypeOK
  <2>2. pod' \in [Names -> PodObject]
    BY <1>17, <2>1 DEF DeletePod, BindPod, TypeOK, PodObject, LivePodObject
  <2>. QED
    BY <1>17, <2>2 DEF DeletePod, BindPod, TypeOK, cacheVars, queueVars
<1>18. ASSUME NEW n \in Names, AnnotateRootfsBytes(n) PROVE TypeOK'
  <2>1. pod[n] \in LivePodObject
    BY <1>18, NoPodIsAbsent DEF AnnotateRootfsBytes, TypeOK
  <2>2. pod' \in [Names -> PodObject]
    <3>1. PICK b \in Sizes : pod' = [pod EXCEPT ![n] = Stored(n, [pod[n] EXCEPT !.bytes = b])]
      BY <1>18 DEF AnnotateRootfsBytes
    <3>. DEFINE q == [pod[n] EXCEPT !.bytes = b]
    <3>2. q \in LivePodObject
      BY <2>1, SizesAssumption, EditsTyped
    <3>. HIDE DEF q
    <3>3. Stored(n, q) \in LivePodObject
      BY <3>2, StoredIsNext
    <3>. QED
      BY <3>1, <3>3 DEF TypeOK, PodObject, q
  <2>. QED
    BY <1>18, <2>2, SpendTyped DEF AnnotateRootfsBytes, TypeOK, cacheVars, queueVars
<1>19. ASSUME NEW n \in Names, TouchPod(n) PROVE TypeOK'
  <2>1. pod[n] \in LivePodObject
    BY <1>19, NoPodIsAbsent DEF TouchPod, TypeOK
  <2>2. Stored(n, pod[n]) \in LivePodObject
    BY <2>1, StoredIsNext
  <2>3. [Stored(n, pod[n]) EXCEPT !.rv = pod[n].rv + 1] \in LivePodObject
    BY <2>1, <2>2 DEF LivePodObject
  <2>4. pod' \in [Names -> PodObject]
    BY <1>19, <2>3 DEF TouchPod, TypeOK, PodObject
  <2>. QED
    BY <1>19, <2>4, SpendTyped DEF TouchPod, TypeOK, cacheVars, queueVars
<1>20. ASSUME NEW n \in Names, PodGone(n) PROVE TypeOK'
  BY <1>20, NoPodIsAbsent DEF PodGone, TypeOK, cacheVars, queueVars
<1>21. ASSUME NEW u \in UIDs, \/ StartVMI(u) \/ FailVMI(u) \/ DeleteVMI(u)
                              \/ VMIGone(u) \/ GarbageCollect(u)
       PROVE  TypeOK'
  <2>1. vmi' \in [UIDs -> VMIObject]
    <3>1. \A ph \in {"Pending", "Running", "Final"} :
             [vmi EXCEPT ![u].phase = ph] \in [UIDs -> VMIObject]
      BY DEF TypeOK, VMIObject
    <3>. QED
      BY <1>21, <3>1, MarkedTyped, IdleTyped
         DEF StartVMI, FailVMI, DeleteVMI, VMIGone, GarbageCollect, TypeOK
  <2>2. budget' \in [Kinds -> Nat]
    BY <1>21, SpendTyped
       DEF StartVMI, FailVMI, DeleteVMI, VMIGone, GarbageCollect, TypeOK
  <2>. QED
    BY <1>21, <2>1, <2>2
       DEF StartVMI, FailVMI, DeleteVMI, VMIGone, GarbageCollect, TypeOK, cacheVars, queueVars
<1>22. CASE FlipWebhook
  BY <1>22, SpendTyped DEF FlipWebhook, TypeOK, cacheVars, queueVars
<1>23. CASE UNCHANGED vars
  BY <1>23 DEF vars, TypeOK
<1>. QED
  BY <1>1, <1>2, <1>3, <1>4, <1>6, <1>7, <1>8, <1>9, <1>10, <1>11, <1>12, <1>13, <1>14, <1>15,
     <1>16, <1>17, <1>18, <1>19, <1>20, <1>21, <1>22, <1>23 DEF Next, WorkerStep

-----------------------------------------------------------------------------
(* The release invariant.                                                  *)

\* What any step does to the Pod stored under n: nothing, a new version of
\* the same Pod that does not take back a deletion, its end, or a Pod with a
\* UID that was never used.
PodStep(n) ==
    \/ pod'[n] = pod[n]
    \/ /\ Exists(pod[n])
       /\ pod'[n].uid = pod[n].uid
       /\ pod'[n].rv = pod[n].rv + 1
       /\ pod[n].del => pod'[n].del
    \/ pod'[n] = NoPod
    \/ /\ pod'[n].uid \in used' \ used
       /\ NameOf[pod'[n].uid] = n

\* What most steps do to a worker: it goes idle, or goes on with its Pod.
WorkerMoved(w) ==
    \/ worker'[w].pc = "idle"
    \/ /\ worker[w].pc # "idle"
       /\ worker'[w].key = worker[w].key
       /\ worker'[w].pod = worker[w].pod
       /\ worker'[w].pc \in Serving => worker[w].pc \in Serving
       /\ worker'[w].pc \in Closing => worker[w].pc \in Closing

\* A copy that was older than the stored Pod is older than its next version.
LEMMA CopyStep ==
    ASSUME TypeOK, TypeOK', NEW n \in Names, NEW c \in PodObject,
           PodStep(n), CopyOf(c, pod[n]), c.uid \in used \/ ~Exists(c)
    PROVE  CopyOf(c, pod'[n])
<1>1. pod[n] \in PodObject /\ pod'[n] \in PodObject
  BY DEF TypeOK
<1>2. \A p \in PodObject : p.rv \in Nat /\ (~Exists(p) => p = NoPod)
  BY NamesAssumption DEF PodObject, LivePodObject, NoPod, Exists
<1>3. CASE pod'[n] = NoPod
  <2>1. c.uid = NoPod.uid => c = NoPod
    BY <1>2 DEF NoPod, Exists
  <2>. QED
    BY <1>2, <1>3, <2>1 DEF CopyOf
<1>4. CASE pod'[n].uid \in used' \ used
  BY <1>4, NamesAssumption DEF CopyOf, Exists, TypeOK
<1>5. CASE pod'[n].uid = pod[n].uid /\ pod'[n].rv = pod[n].rv + 1 /\ (pod[n].del => pod'[n].del)
  BY <1>1, <1>2, <1>5 DEF CopyOf
<1>. QED
  BY <1>3, <1>4, <1>5 DEF PodStep

\* A Pod may be released: it is known, and known to be deleting, and no
\* worker serves it.
MayBeReleased(u) ==
    /\ u \in used
    /\ \A n \in Names : pod[n].uid = u => pod[n].del
    /\ \A n \in Names : podCache[n].uid = u => podCache[n].del
    /\ \A w \in Workers : worker[w].pc \in Serving => worker[w].pod.uid # u

\* Steps that leave the store alone, move workers on and release at most Pods
\* that may be released keep the invariant.
LEMMA QuietStep ==
    ASSUME TypeOK, TypeOK', ReleaseInv,
           \A n \in Names : PodStep(n), \A w \in Workers : WorkerMoved(w),
           used \subseteq used', podCache' = podCache,
           \A u \in released' \ released : MayBeReleased(u)
    PROVE  ReleaseInv'
<1>. USE DEF ReleaseInv
<1>1. OneWorkerPerKey'
  BY DEF OneWorkerPerKey, WorkerMoved
<1>2. KnownUIDs'
  <2>1. ASSUME NEW n \in Names, Exists(pod'[n])
        PROVE  pod'[n].uid \in used' /\ NameOf[pod'[n].uid] = n
    BY <2>1, NoPodIsAbsent DEF KnownUIDs, PodStep, Exists
  <2>2. ASSUME NEW w \in Workers, worker'[w].pc # "idle"
        PROVE  worker'[w].pod.uid \in used' /\ NameOf[worker'[w].pod.uid] = worker'[w].key
    BY <2>2 DEF KnownUIDs, WorkerMoved
  <2>3. released' \subseteq used'
    BY DEF KnownUIDs, MayBeReleased
  <2>. QED
    BY <2>1, <2>2, <2>3 DEF KnownUIDs, Exists
<1>3. CopiesAreOlder'
  <2>1. ASSUME NEW n \in Names PROVE CopyOf(podCache[n], pod'[n])
    BY CopyStep DEF CopiesAreOlder, KnownUIDs, TypeOK
  <2>2. ASSUME NEW w \in Workers, worker'[w].pc # "idle"
        PROVE  /\ CopyOf(worker'[w].pod, pod'[worker'[w].key])
               /\ worker'[w].pod.uid = podCache[worker'[w].key].uid /\ worker'[w].pod.del
                    => podCache[worker'[w].key].del
    <3>1. /\ worker[w].pc # "idle"
          /\ worker'[w].key = worker[w].key
          /\ worker'[w].pod = worker[w].pod
      BY <2>2 DEF WorkerMoved
    <3>2. worker[w].key \in Names /\ worker[w].pod \in PodObject /\ worker[w].pod.uid \in used
      BY <3>1, BusyPod DEF KnownUIDs, PodObject
    <3>3. CopyOf(worker[w].pod, pod'[worker[w].key])
      BY <3>1, <3>2, CopyStep DEF CopiesAreOlder
    <3>. QED
      BY <3>1, <3>3 DEF CopiesAreOlder
  <2>. QED
    BY <2>1, <2>2 DEF CopiesAreOlder, CopyOf
<1>4. ReleasedIsDeleting'
  <2>1. ASSUME NEW n \in Names, pod'[n].uid \in released' PROVE pod'[n].del
    <3>1. NoPod.uid \notin released'
      BY NamesAssumption DEF NoPod, TypeOK
    <3>2. pod'[n].uid \in used
      BY <2>1 DEF KnownUIDs, MayBeReleased
    <3>3. pod[n].uid \in released' => pod[n].del
      BY DEF ReleasedIsDeleting, MayBeReleased
    <3>. QED
      BY <2>1, <3>1, <3>2, <3>3 DEF PodStep
  <2>2. ASSUME NEW n \in Names, podCache[n].uid \in released' PROVE podCache[n].del
    BY <2>2 DEF ReleasedIsDeleting, MayBeReleased
  <2>3. ASSUME NEW w \in Workers
        PROVE  /\ worker'[w].pc \in Serving =>
                     worker'[w].pod.uid \notin released' /\ ~worker'[w].pod.del
               /\ worker'[w].pc \in Closing => worker'[w].pod.del
    BY DEF WorkerMoved, ReleasedIsDeleting, MayBeReleased, Serving, Closing
  <2>. QED
    BY <2>1, <2>2, <2>3 DEF ReleasedIsDeleting
<1>. QED
  BY <1>1, <1>2, <1>3, <1>4

\* A write that the API server does not refuse was computed from the stored
\* object, whatever the writer had read.
LEMMA AcceptedIsFresh ==
    ASSUME TypeOK, CopiesAreOlder, NEW w \in Workers, worker[w].pc # "idle",
           ~Refused(worker[w].key, worker[w].pod)
    PROVE  worker[w].pod = pod[worker[w].key]
  BY BusyPod DEF CopiesAreOlder, CopyOf, Refused

\* An accepted write of a live Pod is a PodStep of every name.
LEMMA WriteIsPodStep ==
    ASSUME TypeOK, NEW n \in Names, NEW q \in LivePodObject,
           q.uid = pod[n].uid, q.rv = pod[n].rv, q.del = pod[n].del,
           pod' = [pod EXCEPT ![n] = Stored(n, q)]
    PROVE  \A m \in Names : PodStep(m)
<1>1. Exists(pod[n])
  BY NamesAssumption DEF LivePodObject, Exists
<1>2. pod'[n] = Stored(n, q) /\ \A m \in Names : m # n => pod'[m] = pod[m]
  BY DEF TypeOK
<1>. QED
  BY <1>1, <1>2, StoredIsNext DEF PodStep

\* Leaving the worker's Pod and moving it to pc within its branch, or idle.
LEMMA MovedOn ==
    ASSUME TypeOK, NEW w \in Workers, worker[w].pc # "idle",
           \/ Requeue(w) \/ Forget(w)
           \/ worker[w].pc \in Serving /\ \E pc \in Serving : Goto(w, pc)
           \/ worker[w].pc \in Closing /\ \E pc \in Closing : Goto(w, pc)
    PROVE  \A x \in Workers : WorkerMoved(x)
<1>1. CASE worker' = [worker EXCEPT ![w] = IdleWorker]
  BY <1>1, IdleTyped DEF TypeOK, WorkerMoved
<1>2. ASSUME NEW pc \in Serving \cup Closing, Goto(w, pc),
             pc \in Serving => worker[w].pc \in Serving,
             pc \in Closing => worker[w].pc \in Closing
      PROVE  \A x \in Workers : WorkerMoved(x)
  <2>1. /\ worker'[w].pc = pc
        /\ worker'[w].key = worker[w].key
        /\ worker'[w].pod = worker[w].pod
    BY <1>2 DEF TypeOK, WorkerState, Goto
  <2>2. \A x \in Workers : x # w => worker'[x] = worker[x]
    BY <1>2 DEF TypeOK, Goto
  <2>. QED
    BY <1>2, <2>1, <2>2 DEF WorkerMoved
<1>3. Serving \cap Closing = {}
  BY DEF Serving, Closing
<1>. QED
  BY <1>1, <1>2, <1>3 DEF Requeue, Forget

\* Every step is a PodStep for every name, and UIDs are only added.
LEMMA PodSteps ==
    ASSUME TypeOK, CopiesAreOlder, [Next]_vars
    PROVE  (\A m \in Names : PodStep(m)) /\ used \subseteq used'
<1>. DEFINE Goal == (\A m \in Names : PodStep(m)) /\ used \subseteq used'
<1>1. ASSUME UNCHANGED <<pod, used>> PROVE Goal
  BY <1>1 DEF PodStep
<1>2. ASSUME NEW w \in Workers, AnnotateUpdate(w) PROVE Goal
  <2>. DEFINE n == worker[w].key
              p == worker[w].pod
              v == worker[w].vmi
  <2>1. worker[w].pc = "annotate" /\ ~Refused(n, p) /\ used' = used
    BY <1>2 DEF AnnotateUpdate
  <2>2. PICK ip \in {0, v.inc} : pod' = [pod EXCEPT ![n] = Stored(n, Annotated(p, v, ip))]
    BY <1>2 DEF AnnotateUpdate
  <2>3. /\ n \in Names /\ p \in LivePodObject /\ v \in VMIObject /\ ip \in Nat
        /\ p = pod[n]
    BY <2>1, BusyPod, AcceptedIsFresh DEF VMIObject
  <2>. DEFINE q == Annotated(p, v, ip)
  <2>4. q \in LivePodObject /\ q.uid = p.uid /\ q.rv = p.rv /\ q.del = p.del
    BY <2>3, EditsTyped
  <2>5. pod' = [pod EXCEPT ![n] = Stored(n, q)]
    BY <2>2
  <2>. HIDE DEF q
  <2>. QED
    BY <2>1, <2>3, <2>4, <2>5, WriteIsPodStep
<1>3. ASSUME NEW w \in Workers, StripFinalizer(w) PROVE Goal
  <2>. DEFINE n == worker[w].key
              p == worker[w].pod
              q == [p EXCEPT !.fin = FALSE]
  <2>1. /\ worker[w].pc = "strip" /\ ~Refused(n, p) /\ used' = used
        /\ pod' = [pod EXCEPT ![n] = Stored(n, q)]
    BY <1>3 DEF StripFinalizer
  <2>2. n \in Names /\ p \in LivePodObject /\ p = pod[n]
    BY <2>1, BusyPod, AcceptedIsFresh
  <2>3. q \in LivePodObject /\ q.uid = p.uid /\ q.rv = p.rv /\ q.del = p.del
    BY <2>2, EditsTyped
  <2>. HIDE DEF q
  <2>. QED
    BY <2>1, <2>2, <2>3, WriteIsPodStep
<1>4. ASSUME NEW u \in UIDs, CreatePod(u) PROVE Goal
  <2>. DEFINE n == NameOf[u]
  <2>1. u \notin used /\ used' = used \cup {u} /\ n \in Names
    BY <1>4, NamesAssumption DEF CreatePod
  <2>2. PICK pvc \in PVCRoots, raw \in RawPods :
           pod' = [pod EXCEPT ![n] = Stored(n, [NoPod EXCEPT !.uid = u, !.pvc = pvc, !.raw = raw])]
    BY <1>4 DEF CreatePod
  <2>. DEFINE q == [NoPod EXCEPT !.uid = u, !.pvc = pvc, !.raw = raw]
  <2>3. q \in LivePodObject /\ q.uid = u
    BY ChoicesAssumption DEF NoPod, LivePodObject
  <2>. HIDE DEF q
  <2>4. Stored(n, q).uid = u
    BY <2>1, <2>3, StoredIsNext
  <2>5. pod'[n].uid = u /\ \A m \in Names : m # n => pod'[m] = pod[m]
    BY <2>1, <2>2, <2>4 DEF TypeOK, q
  <2>. QED
    BY <2>1, <2>5 DEF PodStep
<1>5. ASSUME NEW n \in Names, DeletePod(n) \/ BindPod(n) PROVE Goal
  <2>1. pod[n] \in LivePodObject /\ Exists(pod[n]) /\ used' = used
    BY <1>5, NoPodIsAbsent DEF DeletePod, BindPod, TypeOK
  <2>2. /\ pod'[n].uid = pod[n].uid /\ pod'[n].rv = pod[n].rv + 1
        /\ pod[n].del => pod'[n].del
        /\ \A m \in Names : m # n => pod'[m] = pod[m]
    BY <1>5, <2>1 DEF DeletePod, BindPod, TypeOK, LivePodObject
  <2>. QED
    BY <2>1, <2>2 DEF PodStep
<1>6. ASSUME NEW n \in Names, AnnotateRootfsBytes(n) PROVE Goal
  <2>1. pod[n] \in LivePodObject /\ used' = used
    BY <1>6, NoPodIsAbsent DEF AnnotateRootfsBytes, TypeOK
  <2>2. PICK b \in Sizes : pod' = [pod EXCEPT ![n] = Stored(n, [pod[n] EXCEPT !.bytes = b])]
    BY <1>6 DEF AnnotateRootfsBytes
  <2>. DEFINE q == [pod[n] EXCEPT !.bytes = b]
  <2>3. q \in LivePodObject /\ q.uid = pod[n].uid /\ q.rv = pod[n].rv /\ q.del = pod[n].del
    BY <2>1, SizesAssumption, EditsTyped
  <2>4. pod' = [pod EXCEPT ![n] = Stored(n, q)]
    BY <2>2
  <2>. HIDE DEF q
  <2>. QED
    BY <2>1, <2>3, <2>4, WriteIsPodStep
<1>7. ASSUME NEW n \in Names, TouchPod(n) PROVE Goal
  <2>1. pod[n] \in LivePodObject /\ Exists(pod[n]) /\ used' = used
    BY <1>7, NoPodIsAbsent DEF TouchPod, TypeOK
  <2>. DEFINE q == Stored(n, pod[n])
              r == [q EXCEPT !.rv = pod[n].rv + 1]
  <2>2. q \in LivePodObject /\ q.uid = pod[n].uid /\ q.del = pod[n].del
    BY <2>1, StoredIsNext
  <2>3. pod' = [pod EXCEPT ![n] = r]
    BY <1>7 DEF TouchPod
  <2>. HIDE DEF q
  <2>4. r.uid = pod[n].uid /\ r.rv = pod[n].rv + 1 /\ r.del = pod[n].del
    BY <2>2 DEF LivePodObject
  <2>. HIDE DEF r
  <2>. QED
    BY <2>1, <2>3, <2>4 DEF PodStep, TypeOK
<1>8. ASSUME NEW n \in Names, PodGone(n) PROVE Goal
  BY <1>8 DEF PodGone, PodStep, TypeOK
<1>. HIDE DEF Goal
<1>9. Goal
  BY <1>1, <1>2, <1>3, <1>4, <1>5, <1>6, <1>7, <1>8
     DEF Next, WorkerStep, vars, Execute, LookupExisting, RecreateVMI, CreateVMI, AnnotateSkip,
         AnnotateError, PublishEndpointSlice, DeleteSandboxVMI, StripError, DelayExpires, SyncPod,
         SyncVMI, Resync, Restart, FlipWebhook, StartVMI, FailVMI, DeleteVMI, VMIGone,
         GarbageCollect, apiVars
<1>. QED
  BY <1>9 DEF Goal

\* Every step keeps the release invariant.
LEMMA ReleaseStep == TypeOK /\ TypeOK' /\ ReleaseInv /\ [Next]_vars => ReleaseInv'
<1>. SUFFICES ASSUME TypeOK, TypeOK', ReleaseInv, [Next]_vars PROVE ReleaseInv'
  OBVIOUS
<1>0. CopiesAreOlder /\ KnownUIDs /\ OneWorkerPerKey /\ ReleasedIsDeleting
  BY DEF ReleaseInv
<1>a. ASSUME UNCHANGED <<pod, used, podCache, released>>, \A w \in Workers : WorkerMoved(w)
      PROVE  ReleaseInv'
  BY <1>a, QuietStep DEF PodStep
<1>c. (\A n \in Names : PodStep(n)) /\ used \subseteq used'
  BY <1>0, PodSteps
<1>b. ASSUME worker' = worker PROVE \A w \in Workers : WorkerMoved(w)
  BY <1>b DEF WorkerMoved
<1>1. ASSUME NEW w \in Workers, NEW n \in Names, Execute(w, n) PROVE ReleaseInv'
  <2>. DEFINE p == podCache[n]
  <2>1. UNCHANGED <<pod, podCache, used, released>>
    BY <1>1 DEF Execute, apiVars, cacheVars
  <2>2. CASE worker' = worker
    BY <1>a, <1>b, <2>1, <2>2
  <2>3. CASE worker' # worker
    <3>1. PICK pc \in {"delete", "ensure"} :
             /\ worker' = [worker EXCEPT ![w] = [pc |-> pc, key |-> n, pod |-> p, vmi |-> NoVMI]]
             /\ pc = "delete" => p.del
             /\ pc = "ensure" => p.bound /\ ~p.del
             /\ worker[w].pc = "idle"
             /\ n \notin Processing
      BY <1>1, <2>3 DEF Execute
    <3>2. p \in LivePodObject /\ Exists(p)
      BY <3>1, NoPodIsAbsent, NamesAssumption DEF TypeOK, Exists, LivePodObject
    <3>3. /\ worker'[w].pc = pc /\ worker'[w].key = n /\ worker'[w].pod = p
          /\ \A x \in Workers : x # w => worker'[x] = worker[x]
      BY <3>1 DEF TypeOK
    <3>4. \A x \in Workers : worker[x].pc # "idle" => worker[x].key # n
      BY <3>1 DEF Processing
    <3>5. OneWorkerPerKey'
      BY <1>0, <3>3, <3>4 DEF OneWorkerPerKey
    <3>6. KnownUIDs'
      BY <1>0, <2>1, <3>2, <3>3 DEF KnownUIDs, Exists
    <3>7. CopiesAreOlder'
      BY <1>0, <2>1, <3>3 DEF CopiesAreOlder, CopyOf
    <3>8. ReleasedIsDeleting'
      BY <1>0, <2>1, <3>1, <3>3 DEF ReleasedIsDeleting, Serving, Closing
    <3>. QED
      BY <3>5, <3>6, <3>7, <3>8 DEF ReleaseInv
  <2>. QED
    BY <2>2, <2>3
<1>2. ASSUME NEW w \in Workers, LookupExisting(w) PROVE ReleaseInv'
  <2>1. UNCHANGED <<pod, podCache, used, released>> /\ worker[w].pc = "ensure"
    BY <1>2 DEF LookupExisting, apiVars, cacheVars
  <2>2. ASSUME NEW pc \in {"create", "recreate", "annotate"},
               worker' = [worker EXCEPT ![w].pc = pc, ![w].vmi = vmiCache[worker[w].pod.uid]]
        PROVE  \A x \in Workers : WorkerMoved(x)
    <3>1. /\ worker'[w].pc = pc
          /\ worker'[w].key = worker[w].key
          /\ worker'[w].pod = worker[w].pod
          /\ \A x \in Workers : x # w => worker'[x] = worker[x]
      BY <2>2 DEF TypeOK, WorkerState
    <3>. QED
      BY <2>1, <3>1 DEF WorkerMoved, Serving, Closing
  <2>3. \A x \in Workers : WorkerMoved(x)
    BY <1>2, <2>1, <2>2, MovedOn DEF LookupExisting
  <2>. QED
    BY <1>a, <2>1, <2>3
<1>3. ASSUME NEW w \in Workers,
             \/ RecreateVMI(w) \/ CreateVMI(w) \/ AnnotateSkip(w) \/ AnnotateError(w)
             \/ PublishEndpointSlice(w) \/ DeleteSandboxVMI(w) \/ StripError(w)
      PROVE  ReleaseInv'
  <2>1. UNCHANGED <<pod, podCache, used, released>> /\ worker[w].pc # "idle"
    BY <1>3 DEF RecreateVMI, CreateVMI, AnnotateSkip, AnnotateError, PublishEndpointSlice,
                DeleteSandboxVMI, StripError, apiVars, cacheVars
  <2>2. \/ Requeue(w) \/ Forget(w)
        \/ worker[w].pc \in Serving /\ Goto(w, "publish")
        \/ worker[w].pc \in Closing /\ Goto(w, "strip")
    BY <1>3 DEF RecreateVMI, CreateVMI, AnnotateSkip, AnnotateError, PublishEndpointSlice,
                DeleteSandboxVMI, StripError, AfterAnnotate, Serving, Closing
  <2>3. "publish" \in Serving /\ "strip" \in Closing
    BY DEF Serving, Closing
  <2>. QED
    BY <1>a, <2>1, <2>2, <2>3, MovedOn
<1>4. ASSUME NEW w \in Workers, AnnotateUpdate(w) PROVE ReleaseInv'
  <2>1. worker[w].pc = "annotate" /\ UNCHANGED <<podCache, released>> /\ AfterAnnotate(w)
    BY <1>4 DEF AnnotateUpdate, cacheVars
  <2>2. \A x \in Workers : WorkerMoved(x)
    BY <2>1, MovedOn DEF AfterAnnotate, Serving
  <2>. QED
    BY <1>0, <1>c, <2>1, <2>2, QuietStep
<1>5. ASSUME NEW w \in Workers, StripFinalizer(w) PROVE ReleaseInv'
  <2>. DEFINE n == worker[w].key
              p == worker[w].pod
  <2>1. /\ worker[w].pc = "strip" /\ ~Refused(n, p)
        /\ podCache' = podCache
        /\ Forget(w)
        /\ released' = released \cup {p.uid}
    BY <1>5 DEF StripFinalizer, cacheVars
  <2>2. n \in Names /\ p \in LivePodObject /\ p.uid \in UIDs /\ p = pod[n]
    BY <1>0, <2>1, BusyPod, AcceptedIsFresh
  <2>3. \A x \in Workers : WorkerMoved(x)
    BY <2>1, MovedOn
  <2>4. MayBeReleased(p.uid)
    <3>1. p.del /\ p.uid \in used /\ NameOf[p.uid] = n /\ p.uid # None
      BY <1>0, <2>1, <2>2, NamesAssumption DEF ReleasedIsDeleting, Closing, KnownUIDs
    <3>2. ASSUME NEW m \in Names, pod[m].uid = p.uid PROVE pod[m].del
      BY <1>0, <2>2, <3>1, <3>2 DEF KnownUIDs, Exists
    <3>3. ASSUME NEW m \in Names, podCache[m].uid = p.uid PROVE podCache[m].del
      BY <1>0, <2>1, <3>1, <3>3 DEF KnownUIDs, Exists, CopiesAreOlder
    <3>4. ASSUME NEW x \in Workers, worker[x].pc \in Serving PROVE worker[x].pod.uid # p.uid
      BY <1>0, <2>1, <3>1, <3>4 DEF ReleasedIsDeleting, KnownUIDs, OneWorkerPerKey, Serving
    <3>. QED
      BY <3>1, <3>2, <3>3, <3>4 DEF MayBeReleased
  <2>. HIDE DEF p
  <2>. QED
    BY <1>c, <2>1, <2>3, <2>4, QuietStep
<1>6. ASSUME NEW n \in Names, DelayExpires(n) \/ Resync(n) PROVE ReleaseInv'
  BY <1>a, <1>b, <1>6 DEF DelayExpires, Resync, apiVars, cacheVars
<1>7. ASSUME NEW n \in Names, SyncPod(n) PROVE ReleaseInv'
  <2>1. /\ UNCHANGED <<pod, worker, used, released>>
        /\ podCache' = [podCache EXCEPT ![n] = pod[n]]
    BY <1>7 DEF SyncPod, apiVars
  <2>2. podCache'[n] = pod[n] /\ \A m \in Names : m # n => podCache'[m] = podCache[m]
    BY <2>1 DEF TypeOK
  <2>3. OneWorkerPerKey'
    BY <1>0, <2>1 DEF OneWorkerPerKey
  <2>4. KnownUIDs'
    BY <1>0, <2>1, <2>2 DEF KnownUIDs
  <2>5. CopiesAreOlder'
    <3>1. \A m \in Names : pod[m].rv \in Nat
      BY DEF TypeOK, PodObject, LivePodObject, NoPod
    <3>2. \A m \in Names : CopyOf(podCache'[m], pod[m])
      BY <1>0, <2>2, <3>1 DEF CopiesAreOlder, CopyOf
    <3>3. ASSUME NEW w \in Workers, worker[w].pc # "idle"
          PROVE  worker[w].pod.uid = podCache'[worker[w].key].uid /\ worker[w].pod.del
                    => podCache'[worker[w].key].del
      BY <1>0, <2>2, <3>3, BusyPod DEF CopiesAreOlder, CopyOf
    <3>. QED
      BY <1>0, <2>1, <3>2, <3>3 DEF CopiesAreOlder, CopyOf
  <2>6. ReleasedIsDeleting'
    BY <1>0, <2>1, <2>2 DEF ReleasedIsDeleting
  <2>. QED
    BY <2>3, <2>4, <2>5, <2>6 DEF ReleaseInv
<1>8. ASSUME NEW u \in UIDs, SyncVMI(u) PROVE ReleaseInv'
  BY <1>a, <1>b, <1>8 DEF SyncVMI, apiVars
<1>9. CASE Restart
  <2>1. /\ UNCHANGED <<pod, used, released>>
        /\ podCache' = pod
        /\ \A w \in Workers : worker'[w].pc = "idle"
    BY <1>9, IdleTyped DEF Restart, apiVars
  <2>2. \A n \in Names : pod[n].rv \in Nat
    BY DEF TypeOK, PodObject, LivePodObject, NoPod
  <2>. QED
    BY <1>0, <2>1, <2>2
       DEF ReleaseInv, OneWorkerPerKey, KnownUIDs, CopiesAreOlder, CopyOf, ReleasedIsDeleting,
           Serving, Closing
<1>10. ASSUME \/ \E u \in UIDs : CreatePod(u)
              \/ \E n \in Names : \/ DeletePod(n) \/ BindPod(n) \/ AnnotateRootfsBytes(n)
                                  \/ TouchPod(n) \/ PodGone(n)
       PROVE  ReleaseInv'
  <2>1. UNCHANGED <<podCache, worker, released>>
    BY <1>10 DEF CreatePod, DeletePod, BindPod, AnnotateRootfsBytes, TouchPod, PodGone, cacheVars
  <2>. QED
    BY <1>b, <1>c, <2>1, QuietStep
<1>11. ASSUME NEW u \in UIDs, \/ StartVMI(u) \/ FailVMI(u) \/ DeleteVMI(u)
                              \/ VMIGone(u) \/ GarbageCollect(u)
       PROVE  ReleaseInv'
  BY <1>a, <1>b, <1>11
     DEF StartVMI, FailVMI, DeleteVMI, VMIGone, GarbageCollect, cacheVars
<1>12. CASE FlipWebhook
  BY <1>a, <1>b, <1>12 DEF FlipWebhook, cacheVars
<1>13. CASE UNCHANGED vars
  BY <1>a, <1>b, <1>13 DEF vars
<1>. QED
  BY <1>1, <1>2, <1>3, <1>4, <1>5, <1>6, <1>7, <1>8, <1>9, <1>10, <1>11, <1>12, <1>13
     DEF Next, WorkerStep

\* The initial states satisfy both invariants: nothing exists yet.
LEMMA InitHolds == Init => TypeOK /\ ReleaseInv
<1>. SUFFICES ASSUME Init PROVE TypeOK /\ ReleaseInv
  OBVIOUS
<1>1. TypeOK
  BY NoPodIsAbsent, IdleTyped, BoundsAssumption DEF Init, TypeOK
<1>2. /\ \A n \in Names : ~Exists(pod[n]) /\ pod[n] = podCache[n] /\ pod[n].rv = 0
      /\ \A w \in Workers : worker[w].pc = "idle"
      /\ released = {}
  BY NoPodIsAbsent, IdleTyped DEF Init, NoPod
<1>3. ReleaseInv
  BY <1>2 DEF ReleaseInv, OneWorkerPerKey, KnownUIDs, CopiesAreOlder, CopyOf,
              ReleasedIsDeleting, Serving, Closing
<1>. QED
  BY <1>1, <1>3

\* Only CreateVMI brings a VMI into being, for a Pod that a worker serves.
LEMMA OnlyServedPodsGetVMIs ==
    ASSUME TypeOK, ReleaseInv, [Next]_vars, NEW u \in UIDs,
           ~VMIExists(vmi[u]), VMIExists(vmi'[u])
    PROVE  u \notin released
<1>2. \A x \in UIDs : MarkedDeleted(x)[u].inc = vmi[u].inc
  BY DEF MarkedDeleted, TypeOK, VMIObject
<1>3. ASSUME NEW x \in UIDs, NEW ph, vmi' = [vmi EXCEPT ![x].phase = ph] PROVE FALSE
  <2>1. vmi'[u] = IF u = x THEN [vmi[u] EXCEPT !.phase = ph] ELSE vmi[u]
    BY <1>3 DEF TypeOK
  <2>2. [vmi[u] EXCEPT !.phase = ph].inc = vmi[u].inc
    BY DEF TypeOK, VMIObject
  <2>. QED
    BY <2>1, <2>2 DEF VMIExists
<1>4. ASSUME NEW w \in Workers, CreateVMI(w) PROVE u \notin released
  BY <1>4, BusyPod DEF CreateVMI, ReleaseInv, ReleasedIsDeleting, Serving, TypeOK, VMIExists
<1>5. ASSUME NEW w \in Workers, RecreateVMI(w) \/ DeleteSandboxVMI(w) PROVE FALSE
  BY <1>2, <1>5, BusyPod DEF RecreateVMI, DeleteSandboxVMI, VMIExists
<1>6. ASSUME NEW x \in UIDs, StartVMI(x) \/ FailVMI(x) \/ DeleteVMI(x) \/ GarbageCollect(x)
      PROVE  FALSE
  BY <1>2, <1>3, <1>6 DEF StartVMI, FailVMI, DeleteVMI, GarbageCollect, VMIExists
<1>7. ASSUME NEW x \in UIDs, VMIGone(x) PROVE FALSE
  BY <1>7 DEF VMIGone, NoVMI, VMIExists, TypeOK
<1>8. vmi' # vmi
  OBVIOUS
<1>. QED
  BY <1>4, <1>5, <1>6, <1>7, <1>8
     DEF Next, WorkerStep, vars, Execute, LookupExisting, AnnotateSkip, AnnotateUpdate,
         AnnotateError, PublishEndpointSlice, StripFinalizer, StripError, DelayExpires, SyncPod,
         SyncVMI, Resync, Restart, CreatePod, DeletePod, BindPod, AnnotateRootfsBytes, TouchPod,
         PodGone, FlipWebhook, apiVars
-----------------------------------------------------------------------------
(* The VMI a worker judges.                                                *)

\* The Pod with this UID exists.
Alive(u) == pod[NameOf[u]].uid = u

\* The store shows the Pod as deleting, and no worker serves it any more.
Closed(u) ==
    /\ podCache[NameOf[u]].uid = u /\ podCache[NameOf[u]].del
    /\ \A w \in Workers : worker[w].pc \in Serving => worker[w].pod.uid # u

\* A VMI in the store and a VMI in the API server are the same one, and a VMI
\* is not deleted before the store has shown it.
StoreFollows(u) ==
    /\ VMIExists(vmiCache[u]) /\ VMIExists(vmi[u]) => vmiCache[u].inc = vmi[u].inc
    /\ VMIExists(vmi[u]) /\ vmi[u].del => VMIExists(vmiCache[u])

\* A worker about to create finds what it looked for gone from the store too,
\* unless there is a VMI that will stay; one about to recreate has judged the
\* VMI there is.
Judged(w) ==
    LET u == worker[w].pod.uid
    IN  /\ worker[w].pc = "create" =>
             IF VMIExists(vmi[u]) THEN ~vmi[u].del ELSE ~VMIExists(vmiCache[u])
        /\ worker[w].pc = "recreate" /\ VMIExists(vmi[u]) =>
             VMIExists(vmiCache[u]) /\ worker[w].vmi.inc = vmi[u].inc

\* A UID that no Pod has had yet has no VMI, a worker's Pod stays in the
\* store as long as it exists, and deletions by others are counted down.
FreshUIDs ==
    /\ \A u \in UIDs \ used : ~VMIExists(vmi[u]) /\ ~VMIExists(vmiCache[u])
    /\ \A w \in Workers : worker[w].pc # "idle" /\ Alive(worker[w].pod.uid) =>
          podCache[worker[w].key].uid = worker[w].pod.uid
    /\ budget["vmidelete"] <= MaxVMIDeletes

\* Until somebody else deletes a VMI, the store follows the API server for
\* every Pod that is not closed, and every serving worker has judged right.
JudgeInv ==
    budget["vmidelete"] = MaxVMIDeletes =>
        /\ \A u \in UIDs : Alive(u) /\ ~Closed(u) => StoreFollows(u)
        /\ \A w \in Workers : worker[w].pc \in Serving /\ Alive(worker[w].pod.uid) => Judged(w)

\* What a step does to a Pod in the store: nothing, or the store catches up.
StoreStep(n) ==
    \/ podCache'[n] = podCache[n]
    \/ podCache'[n] = pod[n] /\ pod'[n] = pod[n]

\* What a step does to the VMI of u and to the store's view of it: nothing
\* that matters here, the store catches up, the VMI is torn down, it is
\* deleted (by the garbage collector, by somebody else, by the one worker
\* that recreates it or lets its Pod go), or a worker creates it.
VMIStep(u) ==
    \/ /\ vmi'[u].inc = vmi[u].inc /\ vmi'[u].del = vmi[u].del
       /\ vmiCache'[u] = vmiCache[u]
    \/ vmi'[u] = vmi[u] /\ vmiCache'[u] = vmi[u]
    \/ VMIExists(vmi[u]) /\ vmi[u].del /\ ~VMIExists(vmi'[u]) /\ vmiCache'[u] = vmiCache[u]
    \/ /\ vmi'[u].inc = vmi[u].inc /\ vmiCache'[u] = vmiCache[u]
       /\ \/ ~Alive(u) /\ pod' = pod
          \/ budget'["vmidelete"] < budget["vmidelete"]
          \/ \E w \in Workers : /\ worker[w].pod.uid = u
                                /\ worker[w].pc = "recreate" /\ worker'[w].pc = "idle"
          \/ \E w \in Workers : worker[w].pod.uid = u /\ worker[w].pc = "delete"
    \/ /\ ~VMIExists(vmi[u]) /\ VMIExists(vmi'[u]) /\ ~vmi'[u].del
       /\ vmiCache'[u] = vmiCache[u]
       /\ \E w \in Workers : /\ worker[w].pod.uid = u
                             /\ worker[w].pc = "create" /\ worker'[w].pc = "idle"

\* What a step does to a worker: nothing, it takes a key whose Pod it reads
\* from the store, it goes on to or beyond a step that needs no judgement,
\* or it looks its VMI up and judges it.
JudgeStep(w) ==
    \/ worker'[w] = worker[w]
    \/ worker'[w].pc = "idle"
    \/ /\ worker'[w].pc \in {"ensure", "delete"} /\ podCache' = podCache
       /\ worker'[w].key \in Names /\ worker'[w].pod = podCache[worker'[w].key]
       /\ worker'[w].pc = "ensure" => ~worker'[w].pod.del
    \/ /\ worker'[w].pod = worker[w].pod /\ worker'[w].key = worker[w].key
       /\ worker[w].pc \in Serving /\ worker'[w].pc \in {"annotate", "publish"}
    \/ /\ worker'[w].pod = worker[w].pod /\ worker'[w].key = worker[w].key
       /\ worker[w].pc \in Closing /\ worker'[w].pc \in Closing
    \/ /\ worker'[w].pod = worker[w].pod /\ worker'[w].key = worker[w].key
       /\ worker[w].pc = "ensure" /\ worker'[w].pc \in {"create", "recreate"}
       /\ worker'[w].vmi = vmiCache[worker[w].pod.uid]
       /\ worker'[w].pc = "recreate" <=> VMIExists(vmiCache[worker[w].pod.uid])
       /\ vmi' = vmi /\ vmiCache' = vmiCache

\* Marking a VMI deleted keeps every VMI's identity and all other VMIs.
LEMMA MarkedSame ==
    ASSUME TypeOK, NEW u \in UIDs, NEW x \in UIDs
    PROVE  /\ MarkedDeleted(x)[u].inc = vmi[u].inc
           /\ x # u => MarkedDeleted(x)[u] = vmi[u]
  BY DEF MarkedDeleted, TypeOK, VMIObject

\* Every step is one of these for every UID.
LEMMA VMISteps ==
    ASSUME TypeOK, TypeOK', [Next]_vars, NEW u \in UIDs
    PROVE  VMIStep(u)
<1>1. ASSUME NEW w \in Workers, RecreateVMI(w) PROVE VMIStep(u)
  <2>1. worker[w].pod.uid \in UIDs /\ worker'[w].pc = "idle"
    BY <1>1, BusyPod, IdleTyped DEF RecreateVMI, Requeue, TypeOK
  <2>2. vmiCache'[u] = vmiCache[u] /\ worker[w].pc = "recreate"
    BY <1>1 DEF RecreateVMI, cacheVars
  <2>3. CASE vmi' = vmi
    BY <2>2, <2>3 DEF VMIStep
  <2>4. CASE vmi' = MarkedDeleted(worker[w].pod.uid)
    BY <2>1, <2>2, <2>4, MarkedSame DEF VMIStep
  <2>. QED
    BY <1>1, <2>3, <2>4 DEF RecreateVMI
<1>2. ASSUME NEW w \in Workers, DeleteSandboxVMI(w) PROVE VMIStep(u)
  <2>1. worker[w].pod.uid \in UIDs
    BY <1>2, BusyPod DEF DeleteSandboxVMI
  <2>2. vmiCache'[u] = vmiCache[u] /\ worker[w].pc = "delete"
    BY <1>2 DEF DeleteSandboxVMI, cacheVars
  <2>3. CASE vmi' = vmi
    BY <2>2, <2>3 DEF VMIStep
  <2>4. CASE vmi' = MarkedDeleted(worker[w].pod.uid)
    BY <2>1, <2>2, <2>4, MarkedSame DEF VMIStep
  <2>. QED
    BY <1>2, <2>3, <2>4 DEF DeleteSandboxVMI
<1>3. ASSUME NEW w \in Workers, CreateVMI(w) PROVE VMIStep(u)
  <2>1. /\ worker[w].pc = "create" /\ worker'[w].pc = "idle"
        /\ worker[w].pod \in LivePodObject /\ worker[w].pod.uid \in UIDs
        /\ vmiCache'[u] = vmiCache[u]
    BY <1>3, BusyPod, IdleTyped DEF CreateVMI, Requeue, TypeOK, cacheVars
  <2>2. CASE vmi' = vmi
    BY <2>1, <2>2 DEF VMIStep
  <2>3. CASE /\ ~VMIExists(vmi[worker[w].pod.uid])
             /\ vmi' = [vmi EXCEPT ![worker[w].pod.uid] = Translate(worker[w].pod, lastInc + 1)]
    <3>1. /\ Translate(worker[w].pod, lastInc + 1).inc # 0
          /\ ~Translate(worker[w].pod, lastInc + 1).del
      BY DEF TypeOK, Translate
    <3>2. CASE u = worker[w].pod.uid
      BY <2>1, <2>3, <3>1, <3>2 DEF TypeOK, VMIStep, VMIExists
    <3>3. CASE u # worker[w].pod.uid
      BY <2>1, <2>3, <3>3 DEF TypeOK, VMIStep
    <3>. QED
      BY <3>2, <3>3
  <2>. QED
    BY <1>3, <2>2, <2>3 DEF CreateVMI
<1>4. ASSUME NEW x \in UIDs, StartVMI(x) \/ FailVMI(x) PROVE VMIStep(u)
  <2>1. PICK ph : vmi' = [vmi EXCEPT ![x].phase = ph]
    BY <1>4 DEF StartVMI, FailVMI
  <2>2. vmi'[u] = IF u = x THEN [vmi[u] EXCEPT !.phase = ph] ELSE vmi[u]
    BY <2>1 DEF TypeOK
  <2>3. [vmi[u] EXCEPT !.phase = ph].inc = vmi[u].inc /\ [vmi[u] EXCEPT !.phase = ph].del = vmi[u].del
    BY DEF TypeOK, VMIObject
  <2>4. vmiCache' = vmiCache
    BY <1>4 DEF StartVMI, FailVMI, cacheVars
  <2>. QED
    BY <2>2, <2>3, <2>4 DEF VMIStep
<1>5. ASSUME NEW x \in UIDs, DeleteVMI(x) PROVE VMIStep(u)
  <2>1. vmi' = MarkedDeleted(x) /\ vmiCache' = vmiCache
    BY <1>5 DEF DeleteVMI, cacheVars
  <2>2. budget'["vmidelete"] < budget["vmidelete"]
    BY <1>5 DEF DeleteVMI, Spend, TypeOK
  <2>. QED
    BY <2>1, <2>2, MarkedSame DEF VMIStep
<1>6. ASSUME NEW x \in UIDs, GarbageCollect(x) PROVE VMIStep(u)
  <2>1. vmi' = MarkedDeleted(x) /\ vmiCache' = vmiCache /\ pod' = pod /\ ~Alive(x)
    BY <1>6 DEF GarbageCollect, cacheVars, Alive
  <2>. QED
    BY <2>1, MarkedSame DEF VMIStep
<1>7. ASSUME NEW x \in UIDs, VMIGone(x) PROVE VMIStep(u)
  BY <1>7 DEF VMIGone, NoVMI, VMIExists, TypeOK, cacheVars, VMIStep
<1>8. ASSUME NEW x \in UIDs, SyncVMI(x) PROVE VMIStep(u)
  BY <1>8 DEF SyncVMI, TypeOK, apiVars, VMIStep
<1>9. CASE Restart
  BY <1>9 DEF Restart, apiVars, VMIStep
<1>10. ASSUME UNCHANGED <<vmi, vmiCache>> PROVE VMIStep(u)
  BY <1>10 DEF VMIStep
<1>. QED
  BY <1>1, <1>2, <1>3, <1>4, <1>5, <1>6, <1>7, <1>8, <1>9, <1>10
     DEF Next, WorkerStep, vars, Execute, LookupExisting, AnnotateSkip, AnnotateUpdate,
         AnnotateError, PublishEndpointSlice, StripFinalizer, StripError, DelayExpires, SyncPod,
         Resync, CreatePod, DeletePod, BindPod, AnnotateRootfsBytes, TouchPod,
         PodGone, FlipWebhook, apiVars, cacheVars

\* Every step is one of these for every worker.
LEMMA JudgeSteps ==
    ASSUME TypeOK, [Next]_vars, NEW w \in Workers
    PROVE  JudgeStep(w)
<1>1. ASSUME NEW x \in Workers, NEW n \in Names, Execute(x, n) PROVE JudgeStep(w)
  <2>1. CASE worker' = worker
    BY <2>1 DEF JudgeStep
  <2>2. CASE worker' # worker
    <3>1. PICK pc \in {"delete", "ensure"} :
             /\ worker' = [worker EXCEPT ![x] = [pc |-> pc, key |-> n, pod |-> podCache[n],
                                                 vmi |-> NoVMI]]
             /\ pc = "ensure" => ~podCache[n].del
             /\ podCache' = podCache
      BY <1>1, <2>2 DEF Execute, cacheVars
    <3>2. CASE w = x
      BY <3>1, <3>2 DEF TypeOK, JudgeStep
    <3>3. CASE w # x
      BY <3>1, <3>3 DEF TypeOK, JudgeStep
    <3>. QED
      BY <3>2, <3>3
  <2>. QED
    BY <2>1, <2>2
<1>2. ASSUME NEW x \in Workers, Requeue(x) \/ Forget(x) PROVE JudgeStep(w)
  BY <1>2, IdleTyped DEF Requeue, Forget, TypeOK, JudgeStep
<1>3. ASSUME NEW x \in Workers, NEW pc, Goto(x, pc),
             \/ worker[x].pc \in Serving /\ pc = "publish"
             \/ worker[x].pc \in Closing /\ pc = "strip"
      PROVE  JudgeStep(w)
  <2>1. /\ worker'[x].pc = pc
        /\ worker'[x].key = worker[x].key
        /\ worker'[x].pod = worker[x].pod
        /\ w # x => worker'[w] = worker[w]
    BY <1>3 DEF TypeOK, WorkerState, Goto
  <2>. QED
    BY <1>3, <2>1 DEF JudgeStep, Closing
<1>4. ASSUME NEW x \in Workers, LookupExisting(x) PROVE JudgeStep(w)
  <2>. DEFINE v == vmiCache[worker[x].pod.uid]
  <2>1. worker[x].pc = "ensure" /\ vmi' = vmi /\ vmiCache' = vmiCache
    BY <1>4 DEF LookupExisting, apiVars, cacheVars
  <2>2. ASSUME NEW pc \in {"create", "recreate", "annotate"},
               worker' = [worker EXCEPT ![x].pc = pc, ![x].vmi = v],
               pc = "create" => ~VMIExists(v), pc = "recreate" => VMIExists(v)
        PROVE  JudgeStep(w)
    <3>1. /\ worker'[x].pc = pc
          /\ worker'[x].key = worker[x].key
          /\ worker'[x].pod = worker[x].pod
          /\ worker'[x].vmi = v
          /\ w # x => worker'[w] = worker[w]
      BY <2>2 DEF TypeOK, WorkerState
    <3>. QED
      BY <2>1, <2>2, <3>1 DEF JudgeStep, Serving
  <2>. HIDE DEF v
  <2>3. \/ \E pc \in {"create", "recreate", "annotate"} :
               /\ worker' = [worker EXCEPT ![x].pc = pc, ![x].vmi = v]
               /\ pc = "create" => ~VMIExists(v)
               /\ pc = "recreate" => VMIExists(v)
        \/ Requeue(x)
    BY <1>4 DEF LookupExisting, v
  <2>. QED
    BY <1>2, <2>2, <2>3
<1>5. ASSUME NEW x \in Workers,
             \/ RecreateVMI(x) \/ CreateVMI(x) \/ AnnotateSkip(x) \/ AnnotateUpdate(x)
             \/ AnnotateError(x) \/ PublishEndpointSlice(x) \/ DeleteSandboxVMI(x)
             \/ StripFinalizer(x) \/ StripError(x)
      PROVE  JudgeStep(w)
  <2>1. \/ Requeue(x) \/ Forget(x)
        \/ worker[x].pc \in Serving /\ Goto(x, "publish")
        \/ worker[x].pc \in Closing /\ Goto(x, "strip")
    BY <1>5 DEF RecreateVMI, CreateVMI, AnnotateSkip, AnnotateUpdate, AnnotateError,
                PublishEndpointSlice, DeleteSandboxVMI, StripFinalizer, StripError, AfterAnnotate,
                Serving, Closing
  <2>. QED
    BY <1>2, <1>3, <2>1
<1>6. CASE Restart
  BY <1>6, IdleTyped DEF Restart, JudgeStep
<1>7. ASSUME UNCHANGED worker PROVE JudgeStep(w)
  BY <1>7 DEF JudgeStep
<1>. QED
  BY <1>1, <1>4, <1>5, <1>6, <1>7
     DEF Next, WorkerStep, vars, DelayExpires, SyncPod, SyncVMI, Resync, CreatePod, DeletePod,
         BindPod, AnnotateRootfsBytes, TouchPod, PodGone, FlipWebhook, StartVMI, FailVMI,
         DeleteVMI, VMIGone, GarbageCollect

\* Every step is one of these for every name, and never gives a deletion by
\* others back.
LEMMA StoreSteps ==
    ASSUME TypeOK, [Next]_vars
    PROVE  /\ \A n \in Names : StoreStep(n)
           /\ budget'["vmidelete"] <= budget["vmidelete"]
<1>1. ASSUME NEW kind, Spend(kind) PROVE budget'["vmidelete"] <= budget["vmidelete"]
  BY <1>1 DEF Spend, TypeOK
<1>2. budget'["vmidelete"] <= budget["vmidelete"]
  <2>1. budget["vmidelete"] \in Nat
    BY DEF TypeOK
  <2>2. budget' = budget \/ \E kind \in Kinds : Spend(kind)
    BY DEF Next, WorkerStep, vars, Execute, LookupExisting, RecreateVMI, CreateVMI, AnnotateSkip,
         AnnotateUpdate, ServiceBackendIP, DeleteSandboxVMI, Kinds,
         AnnotateError, PublishEndpointSlice, StripFinalizer, StripError, DelayExpires, SyncPod,
         SyncVMI, Resync, Restart, CreatePod, DeletePod, BindPod, AnnotateRootfsBytes, TouchPod,
         PodGone, FlipWebhook, StartVMI, FailVMI, DeleteVMI, VMIGone, GarbageCollect
  <2>. QED
    BY <1>1, <2>1, <2>2
<1>3. ASSUME NEW n \in Names, SyncPod(n) PROVE \A m \in Names : StoreStep(m)
  BY <1>3 DEF SyncPod, StoreStep, TypeOK, apiVars
<1>4. ASSUME Restart PROVE \A m \in Names : StoreStep(m)
  BY <1>4 DEF Restart, StoreStep, apiVars
<1>5. ASSUME podCache' = podCache PROVE \A m \in Names : StoreStep(m)
  BY <1>5 DEF StoreStep
<1>6. \A m \in Names : StoreStep(m)
  BY <1>3, <1>4, <1>5
     DEF Next, WorkerStep, vars, Execute, LookupExisting, RecreateVMI, CreateVMI, AnnotateSkip,
         AnnotateUpdate, DeleteSandboxVMI,
         AnnotateError, PublishEndpointSlice, StripFinalizer, StripError, DelayExpires,
         SyncVMI, Resync, CreatePod, DeletePod, BindPod, AnnotateRootfsBytes, TouchPod,
         PodGone, FlipWebhook, StartVMI, FailVMI, DeleteVMI, VMIGone, GarbageCollect, cacheVars
<1>. QED
  BY <1>2, <1>6

\* A Pod that exists after a step and had its UID before existed before.
LEMMA AliveBefore ==
    ASSUME TypeOK, ReleaseInv, NEW u \in used, PodStep(NameOf[u]), pod'[NameOf[u]].uid = u
    PROVE  Alive(u)
<1>1. u \in UIDs /\ NoPod.uid # u
  BY NamesAssumption DEF TypeOK, NoPod
<1>. QED
  BY <1>1 DEF PodStep, Alive

\* A closed Pod stays closed as long as it exists: its deletion is not taken
\* back, and a worker that takes its key lets it go.
LEMMA ClosedStays ==
    ASSUME TypeOK, ReleaseInv, ReleaseInv', NEW u \in used, Closed(u), Alive(u), Alive(u)',
           StoreStep(NameOf[u]), \A w \in Workers : JudgeStep(w)
    PROVE  Closed(u)'
<1>1. NameOf[u] \in Names /\ u \in UIDs /\ u # None
  BY NamesAssumption DEF TypeOK
<1>2. pod[NameOf[u]].del
  BY <1>1 DEF Closed, Alive, ReleaseInv, CopiesAreOlder, CopyOf
<1>3. podCache'[NameOf[u]].uid = u /\ podCache'[NameOf[u]].del
  BY <1>1, <1>2 DEF Closed, Alive, StoreStep
<1>4. ASSUME NEW w \in Workers, worker'[w].pc \in Serving PROVE worker'[w].pod.uid # u
  <2>1. CASE worker[w].pc \in Serving /\ worker'[w].pod = worker[w].pod
    BY <2>1 DEF Closed
  <2>2. CASE /\ podCache' = podCache /\ worker'[w].key \in Names
             /\ worker'[w].pod = podCache[worker'[w].key] /\ ~worker'[w].pod.del
    BY <1>1, <1>3, <2>2 DEF ReleaseInv, KnownUIDs, Exists
  <2>. QED
    BY <1>4, <2>1, <2>2 DEF JudgeStep, Serving, Closing
<1>. QED
  BY <1>3, <1>4 DEF Closed

\* A busy worker is the only one with its Pod.
LEMMA OnlyWorker ==
    ASSUME ReleaseInv, NEW v \in Workers, NEW w \in Workers, worker[v].pc # "idle",
           worker[w].pc # "idle", worker[v].pod.uid = worker[w].pod.uid
    PROVE  v = w
  BY DEF ReleaseInv, OneWorkerPerKey, KnownUIDs

\* A Pod that a worker serves is not closed, one that a worker lets go is.
LEMMA ServedOrClosed ==
    ASSUME TypeOK, ReleaseInv, FreshUIDs, NEW w \in Workers, Alive(worker[w].pod.uid)
    PROVE  /\ worker[w].pc \in Serving => ~Closed(worker[w].pod.uid)
           /\ worker[w].pc \in Closing => Closed(worker[w].pod.uid)
<1>1. worker[w].pc \in Serving => ~Closed(worker[w].pod.uid)
  BY DEF Closed
<1>2. ASSUME worker[w].pc \in Closing PROVE Closed(worker[w].pod.uid)
  <2>1. worker[w].pc # "idle" /\ worker[w].pc \notin Serving
    BY <1>2 DEF Closing, Serving
  <2>2. podCache[worker[w].key].uid = worker[w].pod.uid /\ worker[w].pod.del
    BY <1>2, <2>1 DEF FreshUIDs, ReleaseInv, ReleasedIsDeleting
  <2>3. NameOf[worker[w].pod.uid] = worker[w].key /\ podCache[worker[w].key].del
    BY <2>1, <2>2 DEF ReleaseInv, KnownUIDs, CopiesAreOlder
  <2>4. ASSUME NEW v \in Workers, worker[v].pc \in Serving PROVE worker[v].pod.uid # worker[w].pod.uid
    BY <2>1, <2>4, OnlyWorker DEF Serving
  <2>. QED
    BY <2>2, <2>3, <2>4 DEF Closed
<1>. QED
  BY <1>1, <1>2

\* Every step keeps unused UIDs free of VMIs and workers' Pods in the store.
LEMMA FreshStep == TypeOK /\ ReleaseInv /\ FreshUIDs /\ [Next]_vars => FreshUIDs'
<1>. SUFFICES ASSUME TypeOK, ReleaseInv, FreshUIDs, [Next]_vars PROVE FreshUIDs'
  OBVIOUS
<1>0. TypeOK' /\ ReleaseInv'
  BY TypeStep, ReleaseStep
<1>1. /\ \A u \in UIDs : VMIStep(u)
      /\ \A w \in Workers : JudgeStep(w)
      /\ \A n \in Names : StoreStep(n) /\ PodStep(n)
      /\ used \subseteq used'
      /\ budget'["vmidelete"] <= budget["vmidelete"]
  BY <1>0, VMISteps, JudgeSteps, StoreSteps, PodSteps DEF ReleaseInv
<1>2. ASSUME NEW u \in UIDs \ used' PROVE ~VMIExists(vmi'[u]) /\ ~VMIExists(vmiCache'[u])
  <2>1. ~VMIExists(vmi[u]) /\ ~VMIExists(vmiCache[u])
    BY <1>1 DEF FreshUIDs
  <2>2. \A w \in Workers : worker[w].pc # "idle" => worker[w].pod.uid # u
    BY <1>1 DEF ReleaseInv, KnownUIDs
  <2>. QED
    BY <1>1, <2>1, <2>2 DEF VMIStep, VMIExists
<1>3. ASSUME NEW w \in Workers, worker'[w].pc # "idle",
             pod'[NameOf[worker'[w].pod.uid]].uid = worker'[w].pod.uid
      PROVE  podCache'[worker'[w].key].uid = worker'[w].pod.uid
  <2>1. CASE worker[w].pc # "idle" /\ worker'[w].key = worker[w].key /\ worker'[w].pod = worker[w].pod
    <3>. DEFINE u == worker[w].pod.uid
                n == worker[w].key
    <3>1. n \in Names /\ NameOf[u] = n /\ u \in used
      BY <2>1, BusyPod DEF ReleaseInv, KnownUIDs
    <3>2. pod'[NameOf[u]].uid = u /\ Alive(u)
      BY <1>1, <1>3, <2>1, <3>1, AliveBefore
    <3>. QED
      BY <1>1, <2>1, <3>1, <3>2 DEF FreshUIDs, StoreStep, Alive
  <2>2. CASE podCache' = podCache /\ worker'[w].pod = podCache[worker'[w].key]
    BY <2>2
  <2>. QED
    BY <1>1, <1>3, <2>1, <2>2 DEF JudgeStep, Serving, Closing
<1>4. budget'["vmidelete"] <= MaxVMIDeletes
  BY <1>0, <1>1, BoundsAssumption DEF FreshUIDs, TypeOK
<1>. QED
  BY <1>2, <1>3, <1>4 DEF FreshUIDs, Alive

\* Every step keeps the workers' judgements true.
LEMMA JudgementStep == TypeOK /\ ReleaseInv /\ FreshUIDs /\ JudgeInv /\ [Next]_vars => JudgeInv'
<1>. SUFFICES ASSUME TypeOK, ReleaseInv, FreshUIDs, JudgeInv, [Next]_vars,
                     budget'["vmidelete"] = MaxVMIDeletes
              PROVE  /\ \A u \in UIDs : Alive(u)' /\ ~Closed(u)' => StoreFollows(u)'
                     /\ \A w \in Workers :
                            worker'[w].pc \in Serving
                            /\ pod'[NameOf[worker'[w].pod.uid]].uid = worker'[w].pod.uid
                                => Judged(w)'
  BY DEF JudgeInv, Alive
<1>0. TypeOK' /\ ReleaseInv'
  BY TypeStep, ReleaseStep
<1>1. /\ \A u \in UIDs : VMIStep(u)
      /\ \A w \in Workers : JudgeStep(w)
      /\ \A n \in Names : StoreStep(n) /\ PodStep(n)
  BY <1>0, VMISteps, JudgeSteps, StoreSteps, PodSteps DEF ReleaseInv
<1>2. budget["vmidelete"] = MaxVMIDeletes /\ ~(budget'["vmidelete"] < budget["vmidelete"])
  BY StoreSteps, BoundsAssumption DEF FreshUIDs, TypeOK
<1>3. /\ \A u \in UIDs : Alive(u) /\ ~Closed(u) => StoreFollows(u)
      /\ \A w \in Workers : worker[w].pc \in Serving /\ Alive(worker[w].pod.uid) => Judged(w)
  BY <1>2 DEF JudgeInv
<1>4. ASSUME NEW u \in UIDs, Alive(u)', ~Closed(u)' PROVE StoreFollows(u)'
  <2>1. CASE u \notin used
    <3>1. ~VMIExists(vmi[u]) /\ ~VMIExists(vmiCache[u])
      BY <2>1 DEF FreshUIDs
    <3>2. \A w \in Workers : worker[w].pc # "idle" => worker[w].pod.uid # u
      BY <2>1 DEF ReleaseInv, KnownUIDs
    <3>. QED
      BY <1>1, <3>1, <3>2 DEF VMIStep, VMIExists, StoreFollows
  <2>2. CASE u \in used
    <3>1. NameOf[u] \in Names
      BY NamesAssumption
    <3>2. Alive(u)
      BY <1>1, <1>4, <2>2, <3>1, AliveBefore DEF Alive
    <3>3. ~Closed(u)
      BY <1>0, <1>1, <1>4, <2>2, <3>1, <3>2, ClosedStays
    <3>4. StoreFollows(u)
      BY <1>3, <3>2, <3>3
    <3>5. ASSUME NEW w \in Workers, worker[w].pod.uid = u
          PROVE  worker[w].pc # "delete" /\ (worker[w].pc \in Serving => Judged(w))
      BY <1>3, <3>2, <3>3, <3>5, ServedOrClosed DEF Closing
    <3>6. CASE \E w \in Workers : worker[w].pod.uid = u /\ worker[w].pc = "recreate"
                                  /\ vmi'[u].inc = vmi[u].inc /\ vmiCache'[u] = vmiCache[u]
      BY <3>4, <3>5, <3>6 DEF Judged, Serving, StoreFollows, VMIExists
    <3>7. CASE \E w \in Workers : worker[w].pod.uid = u /\ worker[w].pc = "create"
                                  /\ ~VMIExists(vmi[u]) /\ ~vmi'[u].del /\ vmiCache'[u] = vmiCache[u]
      BY <3>5, <3>7 DEF Judged, Serving, StoreFollows, VMIExists
    <3>. QED
      BY <1>1, <1>2, <3>2, <3>4, <3>5, <3>6, <3>7 DEF VMIStep, StoreFollows, VMIExists
  <2>. QED
    BY <2>1, <2>2
<1>5. ASSUME NEW w \in Workers, worker'[w].pc \in {"create", "recreate"},
             pod'[NameOf[worker'[w].pod.uid]].uid = worker'[w].pod.uid
      PROVE  Judged(w)'
  <2>. DEFINE u == worker[w].pod.uid
  <2>1. /\ worker[w].pc \in Serving /\ worker[w].pc # "idle"
        /\ worker'[w].pod = worker[w].pod
        /\ \/ worker'[w] = worker[w]
           \/ /\ worker[w].pc = "ensure" /\ worker'[w].vmi = vmiCache[u]
              /\ worker'[w].pc = "recreate" <=> VMIExists(vmiCache[u])
              /\ vmi' = vmi /\ vmiCache' = vmiCache
    BY <1>1, <1>5 DEF JudgeStep, Serving, Closing
  <2>2. u \in used /\ u \in UIDs /\ NameOf[u] \in Names
    BY <2>1, BusyPod, NamesAssumption DEF ReleaseInv, KnownUIDs
  <2>3. Alive(u)
    BY <1>1, <1>5, <2>1, <2>2, AliveBefore
  <2>4. ~Closed(u) /\ StoreFollows(u) /\ Judged(w)
    BY <1>3, <2>1, <2>2, <2>3, ServedOrClosed
  <2>5. CASE worker'[w] = worker[w]
    <3>1. \A v \in Workers : worker[v].pc # "idle" /\ worker[v].pod.uid = u => v = w
      BY <2>1, OnlyWorker
    <3>2. \/ /\ vmi'[u].inc = vmi[u].inc /\ vmi'[u].del = vmi[u].del
             /\ vmiCache'[u] = vmiCache[u]
          \/ vmi'[u] = vmi[u] /\ vmiCache'[u] = vmi[u]
          \/ VMIExists(vmi[u]) /\ vmi[u].del /\ ~VMIExists(vmi'[u]) /\ vmiCache'[u] = vmiCache[u]
      BY <1>1, <1>2, <1>5, <2>2, <2>3, <2>5, <3>1 DEF VMIStep
    <3>. QED
      BY <2>4, <2>5, <3>2 DEF Judged, VMIExists
  <2>6. CASE worker'[w] # worker[w]
    BY <1>5, <2>1, <2>4, <2>6 DEF Judged, StoreFollows, VMIExists
  <2>. QED
    BY <2>5, <2>6
<1>6. ASSUME NEW w \in Workers, worker'[w].pc \notin {"create", "recreate"} PROVE Judged(w)'
  BY <1>6 DEF Judged
<1>. QED
  BY <1>4, <1>5, <1>6

\* Nothing exists yet that could be judged wrong.
LEMMA InitJudged == Init => FreshUIDs /\ JudgeInv
<1>. SUFFICES ASSUME Init PROVE FreshUIDs /\ JudgeInv
  OBVIOUS
<1>1. /\ \A u \in UIDs : ~VMIExists(vmi[u]) /\ ~VMIExists(vmiCache[u])
      /\ \A w \in Workers : worker[w].pc = "idle"
      /\ budget["vmidelete"] <= MaxVMIDeletes
  BY IdleTyped, BoundsAssumption DEF Init, NoVMI, VMIExists
<1>. QED
  BY <1>1 DEF FreshUIDs, JudgeInv, StoreFollows, Serving
-----------------------------------------------------------------------------

\* The type invariant holds in every reachable state.
THEOREM TypeCorrect == Spec => []TypeOK
<1>1. Init => TypeOK
  BY InitHolds
<1>. QED
  BY <1>1, TypeStep, PTL DEF Spec

\* The release invariant holds in every reachable state: one worker per key,
\* copies of a Pod never run ahead of it, and a Pod whose finalizer the
\* adaptor removed is known to be deleting wherever it is still known.
THEOREM ReleaseInvariant == Spec => []ReleaseInv
<1>1. Init => TypeOK /\ ReleaseInv
  BY InitHolds
<1>2. TypeOK /\ ReleaseInv /\ [Next]_vars => (TypeOK /\ ReleaseInv)'
  BY TypeStep, ReleaseStep
<1>. QED
  BY <1>1, <1>2, PTL DEF Spec

\* The adaptor never creates a VMI for a Pod whose finalizer it removed,
\* whatever its caches, its other workers and its predecessor did.
THEOREM NoVMIAfterReleaseHolds == Spec => NoVMIAfterRelease
<1>1. TypeOK /\ ReleaseInv /\ [Next]_vars =>
        [\A u \in UIDs : ~VMIExists(vmi[u]) /\ VMIExists(vmi'[u]) => u \notin released]_vars
  BY OnlyServedPodsGetVMIs
<1>. QED
  BY <1>1, TypeCorrect, ReleaseInvariant, PTL DEF Spec, NoVMIAfterRelease

\* A Delete issued to recreate a finished or too small VMI hits the VMI it
\* was decided on, as long as nobody else deletes VMIs: for that the store
\* must follow the API server for every Pod that is still served.
THEOREM RecreateHitsJudgedHolds == Spec => []RecreateHitsJudgedVMI
<1>. DEFINE Inv == TypeOK /\ ReleaseInv /\ FreshUIDs /\ JudgeInv
<1>1. Init => Inv
  BY InitHolds, InitJudged
<1>2. Inv /\ [Next]_vars => Inv'
  BY TypeStep, ReleaseStep, FreshStep, JudgementStep
<1>3. Inv => RecreateHitsJudgedVMI
  BY DEF JudgeInv, RecreateHitsJudgedVMI, Judged, Alive, Serving
<1>. QED
  BY <1>1, <1>2, <1>3, PTL DEF Spec
=============================================================================
