---------------------------- MODULE NodeLinkProofs ----------------------------
(***************************************************************************)
(* Proofs about NodeLink, for any number of Pods of the name, VMs and      *)
(* faults.                                                                 *)
(*                                                                         *)
(* Three things may be old when a start dials: the address in the shim's   *)
(* store, the CID in the Pod's directory and the VM behind the CID.  The   *)
(* address is right because the shim writes the uid of the Pod that has    *)
(* the name, which is never earlier than the start's own; the CID is never *)
(* another VM's, because a CID comes to a Pod's directory only through its *)
(* own annotation and is not given out twice.  The second part needs Pods  *)
(* that come without the annotation of an earlier one.                     *)
(***************************************************************************)
EXTENDS NodeLink, TLAPS

\* A start goes on: its record keeps its type.
LEMMA GoTyped ==
    ASSUME TypeOK, NEW u \in Uids, NEW pc \in {"wait", "dial", "answered", "ok", "started", "failed"},
           Go(u, pc)
    PROVE  /\ call' \in [Uids -> Starts]
           /\ call'[u].pc = pc
           /\ \A w \in Uids : w # u => call'[w] = call[w]
<1>1. call[u] \in Starts
  BY DEF TypeOK
<1>2. [call[u] EXCEPT !.pc = pc] \in Starts /\ [call[u] EXCEPT !.pc = pc].pc = pc
  BY <1>1 DEF Starts
<1>3. call' = [call EXCEPT ![u] = [call[u] EXCEPT !.pc = pc]]
  BY DEF Go
<1>. QED
  BY <1>2, <1>3 DEF TypeOK

\* The Pod's fields are typed.
LEMMA PodTyped ==
    ASSUME TypeOK, pod # None
    PROVE  pod \in Pods /\ pod.uid \in Uids /\ pod.cid \in CIDs \cup {0} /\ pod.deleting \in BOOLEAN
  BY DEF TypeOK, Pods

\* The types hold at the start.
LEMMA InitTyped == Init => TypeOK
<1>. SUFFICES ASSUME Init PROVE TypeOK
  OBVIOUS
<1>1. NoSandbox \in Sandboxes /\ Idle \in Starts
  BY DEF NoSandbox, Sandboxes, Idle, Starts
<1>. HIDE DEF NoSandbox, Idle
<1>2. lastUid \in 0..NPods /\ lastCID \in 0..MaxVMs
  BY NodeAssumption DEF Init
<1>. QED
  BY <1>1, <1>2, FaultAssumption DEF Init, TypeOK

\* Every step keeps the types.
LEMMA TypeStep == TypeOK /\ [Next]_vars => TypeOK'
<1>. SUFFICES ASSUME TypeOK, [Next]_vars PROVE TypeOK'
  OBVIOUS
<1>. USE DEF vmVars, nodeVars
<1>1. CASE CreatePod
  <2>1. lastUid' \in Uids /\ lastUid' \in 0..NPods
    BY <1>1, NodeAssumption DEF CreatePod, TypeOK, Uids
  <2>2. lastCID \in CIDs \cup {0}
    BY NodeAssumption DEF TypeOK, CIDs
  <2>3. PICK cid \in CIDs \cup {0} : pod' = [uid |-> lastUid', deleting |-> FALSE, cid |-> cid]
    BY <1>1, <2>2 DEF CreatePod
  <2>4. pod' \in Pods
    BY <2>1, <2>3 DEF Pods
  <2>. QED
    BY <1>1, <2>1, <2>4 DEF CreatePod, TypeOK
<1>2. CASE DeletePod
  <2>1. pod' \in Pods
    BY <1>2, PodTyped DEF DeletePod, Live, Pods
  <2>. QED
    BY <1>2, <2>1 DEF DeletePod, TypeOK
<1>3. CASE PodGone
  BY <1>3 DEF PodGone, TypeOK
<1>4. CASE StartVM
  <2>1. pod.uid \in Uids
    BY <1>4, PodTyped DEF StartVM, Live
  <2>2. lastCID' \in CIDs /\ lastCID' \in 0..MaxVMs
    BY <1>4, NodeAssumption DEF StartVM, TypeOK, CIDs
  <2>3. /\ vm' \in [Uids -> CIDs \cup {0}] /\ fwd' \in [Uids -> {"off", "wait", "listen"}]
        /\ vm'[pod.uid] # 0 /\ fwd'[pod.uid] = "wait"
        /\ \A u \in Uids : u # pod.uid => vm'[u] = vm[u] /\ fwd'[u] = fwd[u]
    BY <1>4, <2>1, <2>2 DEF StartVM, TypeOK, CIDs
  <2>. QED
    BY <1>4, <2>1, <2>2, <2>3 DEF StartVM, TypeOK
<1>5. CASE AnnotatePod
  <2>1. vm[pod.uid] \in CIDs \cup {0}
    BY <1>5, PodTyped DEF AnnotatePod, Live, TypeOK
  <2>2. pod' \in Pods
    BY <1>5, <2>1, PodTyped DEF AnnotatePod, Live, Pods
  <2>. QED
    BY <1>5, <2>2 DEF AnnotatePod, TypeOK
<1>6. CASE ShimRestart
  <2>1. store' \in [Uids -> Sandboxes]
    <3>1. NoSandbox \in Sandboxes
      BY DEF NoSandbox, Sandboxes
    <3>. QED
      BY <1>6, <3>1 DEF ShimRestart
  <2>2. call' \in [Uids -> Starts]
    <3>1. \A u \in Uids : call[u] \in Starts /\ [call[u] EXCEPT !.pc = "failed"] \in Starts
      BY DEF TypeOK, Starts
    <3>. QED
      BY <1>6, <3>1 DEF ShimRestart
  <2>. QED
    BY <1>6, <2>1, <2>2 DEF ShimRestart, Fault, TypeOK
<1>7. ASSUME NEW u \in Uids, AgentListens(u) PROVE TypeOK'
  BY <1>7 DEF AgentListens, TypeOK
<1>8. ASSUME NEW u \in Uids, VMDies(u) PROVE TypeOK'
  <2>1. budget' \in Nat
    BY <1>8 DEF VMDies, Fault, TypeOK
  <2>. QED
    BY <1>8, <2>1 DEF VMDies, TypeOK
<1>9. ASSUME NEW u \in Uids, FwdListens(u) PROVE TypeOK'
  BY <1>9 DEF FwdListens, TypeOK
<1>10. ASSUME NEW u \in Uids, RemovePodSandbox(u) PROVE TypeOK'
  <2>1. NoSandbox \in Sandboxes
    BY DEF NoSandbox, Sandboxes
  <2>2. store' \in [Uids -> Sandboxes] /\ budget' \in Nat
    BY <1>10, <2>1 DEF RemovePodSandbox, Fault, TypeOK
  <2>. QED
    BY <1>10, <2>2 DEF RemovePodSandbox, TypeOK
<1>18. ASSUME NEW u \in Uids, StopPodSandbox(u) PROVE TypeOK'
  <2>1. \A b \in Sandboxes : [b EXCEPT !.ready = FALSE] \in Sandboxes
    BY DEF Sandboxes
  <2>2. store' \in [Uids -> Sandboxes]
    BY <1>18, <2>1 DEF StopPodSandbox, TypeOK
  <2>3. budget' \in Nat
    BY <1>18 DEF StopPodSandbox, Fault, TypeOK
  <2>. QED
    BY <1>18, <2>2, <2>3 DEF StopPodSandbox, TypeOK
<1>11. ASSUME NEW u \in Uids, RunPodSandbox(u) PROVE TypeOK'
  BY <1>11, GoTyped DEF RunPodSandbox, TypeOK
<1>12. ASSUME NEW u \in Uids, WaitForVMI(u) PROVE TypeOK'
  <2>1. CASE ~Live
    BY <1>12, <2>1, GoTyped DEF WaitForVMI, TypeOK
  <2>2. CASE Live
    <3>1. pod.uid \in Uids /\ pod.cid \in CIDs \cup {0}
      BY <2>2, PodTyped DEF Live
    <3>2. dir' = dir \cup {pod.uid}
      BY <1>12, <2>2 DEF WaitForVMI, EnsureSandboxDir
    <3>3. CASE UNCHANGED <<cidFile, store, call>>
      BY <1>12, <3>1, <3>2, <3>3 DEF WaitForVMI, TypeOK
    <3>4. CASE /\ WriteCIDFile(pod.uid, pod.cid)
               /\ store' = [store EXCEPT ![u].addr = pod.uid]
               /\ Go(u, "dial")
      <4>1. [store[u] EXCEPT !.addr = pod.uid] \in Sandboxes
        BY <3>1 DEF TypeOK, Sandboxes
      <4>2. store' \in [Uids -> Sandboxes]
        BY <3>4, <4>1 DEF TypeOK
      <4>3. call' \in [Uids -> Starts]
        BY <3>4, GoTyped
      <4>4. /\ cidFile' \in [Uids -> CIDs \cup {0}]
            /\ \A w \in Uids : w # pod.uid => cidFile'[w] = cidFile[w]
        BY <3>1, <3>4 DEF WriteCIDFile, TypeOK
      <4>. QED
        BY <1>12, <3>1, <3>2, <4>2, <4>3, <4>4 DEF WaitForVMI, TypeOK
    <3>. QED
      BY <1>12, <2>2, <3>3, <3>4 DEF WaitForVMI
  <2>. QED
    BY <2>1, <2>2
<1>13. ASSUME NEW u \in Uids, Ping(u) PROVE TypeOK'
  BY <1>13, GoTyped DEF Ping, TypeOK
<1>14. ASSUME NEW u \in Uids, PutSandbox(u) PROVE TypeOK'
  <2>0. store[u] \in Sandboxes
    BY DEF TypeOK
  <2>1. [store[u] EXCEPT !.ready = TRUE] \in Sandboxes
    BY <2>0 DEF Sandboxes
  <2>2. store' \in [Uids -> Sandboxes]
    BY <1>14, <2>1 DEF PutSandbox, TypeOK
  <2>. QED
    BY <1>14, <2>2, GoTyped DEF PutSandbox, TypeOK
<1>15. ASSUME NEW u \in Uids, GiveUp(u) PROVE TypeOK'
  BY <1>15, GoTyped DEF GiveUp, Fault, TypeOK
<1>16. ASSUME NEW u \in Uids, StartContainer(u) PROVE TypeOK'
  <2>1. \A a \in Uids : Dial(a) \in CIDs \cup {0}
    BY DEF Dial, DialGuest, DialVsock, ResolveGuestCID, TypeOK
  <2>2. store[u] \in Sandboxes
    BY DEF TypeOK
  <2>3. DialAgent(u) \in CIDs \cup {0}
    BY <2>1, <2>2 DEF DialAgent, Sandboxes
  <2>4. [pc |-> IF DialAgent(u) = 0 THEN "failed" ELSE "started", at |-> DialAgent(u)] \in Starts
    BY <2>3 DEF Starts
  <2>5. call' \in [Uids -> Starts]
    BY <1>16, <2>4 DEF StartContainer, TypeOK
  <2>. QED
    BY <1>16, <2>5 DEF StartContainer, TypeOK
<1>17. CASE UNCHANGED vars
  BY <1>17 DEF vars, TypeOK
<1>. QED
  BY <1>1, <1>2, <1>3, <1>4, <1>5, <1>6, <1>7, <1>8, <1>9, <1>10, <1>11, <1>12, <1>13, <1>14,
     <1>15, <1>16, <1>17, <1>18 DEF Next, CallStep

-----------------------------------------------------------------------------
(* Whose VM a CID is.                                                      *)

\* The Pod of the name is the last one; CIDs in use were given out.
UpToDate ==
    /\ pod # None => pod.uid = lastUid /\ pod.cid <= lastCID
    /\ \A u \in Uids : vm[u] <= lastCID /\ cidFile[u] <= lastCID

\* No two VMs have one CID, and neither the annotation nor the file of a Pod
\* has the CID of another Pod's VM.
OwnCID ==
    /\ \A u, w \in Uids : vm[u] # 0 /\ vm[u] = vm[w] => u = w
    /\ pod # None /\ pod.cid # 0 => \A w \in Uids : vm[w] = pod.cid => w = pod.uid
    /\ \A u, w \in Uids : cidFile[u] # 0 /\ vm[w] = cidFile[u] => w = u

\* A start has the address of its own Pod or of a later one.
NoEarlierAddress ==
    /\ \A u \in Uids : call[u].pc # "idle" => u <= lastUid
    /\ \A u \in Uids : store[u].addr # None => u <= store[u].addr /\ store[u].addr <= lastUid

LinkInv == UpToDate /\ OwnCID /\ NoEarlierAddress

\* What is counted is a number.
LEMMA Counted ==
    ASSUME TypeOK
    PROVE  /\ lastUid \in Nat /\ lastCID \in Nat
           /\ \A u \in Uids : u \in Nat /\ vm[u] \in Nat /\ cidFile[u] \in Nat
           /\ pod # None => pod.cid \in Nat /\ pod.uid \in Uids
<1>1. CIDs \cup {0} \subseteq Nat /\ Uids \subseteq Nat
  BY NodeAssumption DEF CIDs, Uids
<1>2. lastUid \in Nat /\ lastCID \in Nat
  BY NodeAssumption DEF TypeOK
<1>. QED
  BY <1>1, <1>2, PodTyped DEF TypeOK

\* It holds at the start.
LEMMA InitLinked == Init => LinkInv
  BY DEF Init, LinkInv, UpToDate, OwnCID, NoEarlierAddress, NoSandbox, Idle

\* A start that goes on belongs to a Pod that was created.
LEMMA GoKeeps ==
    ASSUME TypeOK, NoEarlierAddress, NEW u \in Uids, u <= lastUid, UNCHANGED <<lastUid, store>>,
           NEW pc \in {"wait", "dial", "answered", "ok", "started", "failed"}, Go(u, pc)
    PROVE  NoEarlierAddress'
  BY GoTyped DEF NoEarlierAddress

\* Every step keeps it, if Pods come without an old annotation.
LEMMA LinkStep ==
    ASSUME ~CopiedManifests, TypeOK, LinkInv, [Next]_vars
    PROVE  LinkInv'
<1>. USE DEF vmVars, nodeVars
<1>1. CASE CreatePod
  <2>1. /\ lastUid' = lastUid + 1 /\ pod' = [uid |-> lastUid', deleting |-> FALSE, cid |-> 0]
        /\ UNCHANGED <<lastCID, vm, cidFile, store, call>>
    BY <1>1 DEF CreatePod
  <2>2. pod'.uid = lastUid' /\ pod'.cid = 0
    BY <2>1
  <2>3. UpToDate'
    BY <2>1, <2>2, Counted DEF LinkInv, UpToDate
  <2>4. OwnCID'
    BY <2>1, <2>2 DEF LinkInv, OwnCID
  <2>5. NoEarlierAddress'
    <3>1. \A u \in Uids : store[u].addr # None => store[u].addr \in Nat
      BY Counted DEF TypeOK, Sandboxes
    <3>2. \A u \in Uids : store[u].addr # None => store[u].addr <= lastUid + 1
      BY <3>1, Counted DEF LinkInv, NoEarlierAddress
    <3>3. \A u \in Uids : u <= lastUid => u <= lastUid + 1
      BY Counted
    <3>. QED
      BY <2>1, <3>2, <3>3 DEF LinkInv, NoEarlierAddress
  <2>. QED
    BY <2>3, <2>4, <2>5 DEF LinkInv
<1>2. CASE DeletePod
  <2>1. pod # None /\ pod \in Pods
    BY <1>2, PodTyped DEF DeletePod, Live
  <2>2. pod'.uid = pod.uid /\ pod'.cid = pod.cid
    BY <1>2, <2>1 DEF DeletePod, Pods
  <2>. QED
    BY <1>2, <2>1, <2>2 DEF DeletePod, LinkInv, UpToDate, OwnCID, NoEarlierAddress
<1>3. CASE PodGone
  BY <1>3 DEF PodGone, LinkInv, UpToDate, OwnCID, NoEarlierAddress
<1>4. CASE StartVM
  <2>1. pod # None /\ pod.uid \in Uids
    BY <1>4, PodTyped DEF StartVM, Live
  <2>2. /\ lastCID' = lastCID + 1 /\ vm'[pod.uid] = lastCID + 1
        /\ \A u \in Uids : u # pod.uid => vm'[u] = vm[u]
        /\ UNCHANGED <<pod, lastUid, cidFile, store, call>>
    BY <1>4, <2>1 DEF StartVM, TypeOK
  <2>3. UpToDate'
    BY <2>1, <2>2, Counted DEF LinkInv, UpToDate
  <2>4. /\ \A u \in Uids : vm[u] # lastCID + 1 /\ cidFile[u] # lastCID + 1
        /\ pod.cid # lastCID + 1
    BY <2>1, Counted DEF LinkInv, UpToDate
  <2>5. OwnCID'
    BY <2>1, <2>2, <2>4 DEF LinkInv, OwnCID
  <2>. QED
    BY <2>2, <2>3, <2>5 DEF LinkInv, NoEarlierAddress
<1>5. CASE AnnotatePod
  <2>1. pod # None /\ pod \in Pods /\ pod.uid \in Uids
    BY <1>5, PodTyped DEF AnnotatePod, Live
  <2>2. /\ pod'.uid = pod.uid /\ pod'.cid = vm[pod.uid] /\ vm[pod.uid] # 0
        /\ UNCHANGED <<lastUid, lastCID, vm, cidFile, store, call>>
    BY <1>5, <2>1 DEF AnnotatePod, Pods
  <2>. QED
    BY <2>1, <2>2 DEF LinkInv, UpToDate, OwnCID, NoEarlierAddress
<1>6. CASE ShimRestart
  <2>1. \A u \in Uids : store'[u].addr = None
    BY <1>6 DEF ShimRestart, NoSandbox
  <2>2. \A u \in Uids : call[u].pc = "idle" => call'[u].pc = "idle"
    BY <1>6 DEF ShimRestart
  <2>. QED
    BY <1>6, <2>1, <2>2 DEF ShimRestart, LinkInv, UpToDate, OwnCID, NoEarlierAddress
<1>7. ASSUME NEW u \in Uids, AgentListens(u) \/ FwdListens(u) PROVE LinkInv'
  BY <1>7 DEF AgentListens, FwdListens, LinkInv, UpToDate, OwnCID, NoEarlierAddress
<1>8. ASSUME NEW u \in Uids, VMDies(u) PROVE LinkInv'
  <2>1. /\ vm'[u] = 0 /\ \A w \in Uids : w # u => vm'[w] = vm[w]
        /\ UNCHANGED <<pod, lastUid, lastCID, cidFile, store, call>>
    BY <1>8 DEF VMDies, TypeOK
  <2>2. UpToDate'
    BY <2>1, Counted DEF LinkInv, UpToDate
  <2>3. OwnCID'
    BY <2>1 DEF LinkInv, OwnCID
  <2>. QED
    BY <2>1, <2>2, <2>3 DEF LinkInv, NoEarlierAddress
<1>9. ASSUME NEW u \in Uids, RemovePodSandbox(u) PROVE LinkInv'
  <2>1. store'[u].addr = None /\ \A w \in Uids : w # u => store'[w] = store[w]
    BY <1>9 DEF RemovePodSandbox, NoSandbox, TypeOK
  <2>. QED
    BY <1>9, <2>1 DEF RemovePodSandbox, LinkInv, UpToDate, OwnCID, NoEarlierAddress
<1>16. ASSUME NEW u \in Uids, StopPodSandbox(u) PROVE LinkInv'
  <2>1. \A w \in Uids : store'[w].addr = store[w].addr
    BY <1>16 DEF StopPodSandbox, Sandboxes, TypeOK
  <2>. QED
    BY <1>16, <2>1 DEF StopPodSandbox, LinkInv, UpToDate, OwnCID, NoEarlierAddress
<1>10. ASSUME NEW u \in Uids, RunPodSandbox(u) PROVE LinkInv'
  <2>1. u <= lastUid
    BY <1>10, Counted DEF RunPodSandbox, LiveUid, Live, LinkInv, UpToDate, Uids
  <2>2. NoEarlierAddress'
    BY <1>10, <2>1, GoKeeps DEF RunPodSandbox, LinkInv
  <2>. QED
    BY <1>10, <2>2 DEF RunPodSandbox, LinkInv, UpToDate, OwnCID
<1>11. ASSUME NEW u \in Uids, WaitForVMI(u) PROVE LinkInv'
  <2>1. u <= lastUid
    BY <1>11 DEF WaitForVMI, LinkInv, NoEarlierAddress
  <2>2. UNCHANGED <<pod, lastUid, lastCID, vm>>
    BY <1>11 DEF WaitForVMI
  <2>3. CASE Go(u, "failed") /\ UNCHANGED <<cidFile, store>>
    <3>1. NoEarlierAddress'
      BY <2>1, <2>2, <2>3, GoKeeps DEF LinkInv
    <3>. QED
      BY <2>2, <2>3, <3>1 DEF LinkInv, UpToDate, OwnCID
  <2>4. CASE UNCHANGED <<cidFile, store, call>>
    BY <2>2, <2>4 DEF LinkInv, UpToDate, OwnCID, NoEarlierAddress
  <2>5. CASE /\ Live /\ pod.cid # 0
             /\ WriteCIDFile(pod.uid, pod.cid)
             /\ store' = [store EXCEPT ![u].addr = pod.uid]
             /\ Go(u, "dial")
    <3>1. pod # None /\ pod.uid \in Uids
      BY <2>5, PodTyped DEF Live
    <3>2. /\ cidFile'[pod.uid] = pod.cid
          /\ \A w \in Uids : w # pod.uid => cidFile'[w] = cidFile[w]
      BY <2>5, <3>1 DEF WriteCIDFile, TypeOK
    <3>3. store'[u].addr = pod.uid /\ \A w \in Uids : w # u => store'[w] = store[w]
      <4>1. store[u] \in Sandboxes
        BY DEF TypeOK
      <4>2. [store[u] EXCEPT !.addr = pod.uid].addr = pod.uid
        BY <4>1 DEF Sandboxes
      <4>3. store' = [store EXCEPT ![u] = [store[u] EXCEPT !.addr = pod.uid]]
        BY <2>5
      <4>. QED
        BY <4>2, <4>3 DEF TypeOK
    <3>4. UpToDate'
      BY <2>2, <3>1, <3>2 DEF LinkInv, UpToDate
    <3>5. OwnCID'
      BY <2>2, <2>5, <3>1, <3>2 DEF LinkInv, OwnCID
    <3>6. \A w \in Uids : call'[w].pc # "idle" => w <= lastUid
      BY <2>1, <2>5, GoTyped DEF LinkInv, NoEarlierAddress
    <3>7. pod.uid = lastUid /\ lastUid <= lastUid
      BY <3>1, Counted DEF LinkInv, UpToDate
    <3>8. NoEarlierAddress'
      BY <2>1, <2>2, <3>3, <3>6, <3>7 DEF LinkInv, NoEarlierAddress
    <3>. QED
      BY <3>4, <3>5, <3>8 DEF LinkInv
  <2>. QED
    BY <1>11, <2>3, <2>4, <2>5 DEF WaitForVMI
<1>12. ASSUME NEW u \in Uids, Ping(u) \/ GiveUp(u) PROVE LinkInv'
  <2>1. u <= lastUid
    BY <1>12 DEF Ping, GiveUp, LinkInv, NoEarlierAddress
  <2>2. NoEarlierAddress'
    BY <1>12, <2>1, GoKeeps DEF Ping, GiveUp, LinkInv
  <2>. QED
    BY <1>12, <2>2 DEF Ping, GiveUp, LinkInv, UpToDate, OwnCID
<1>13. ASSUME NEW u \in Uids, PutSandbox(u) PROVE LinkInv'
  <2>1. u <= lastUid
    BY <1>13 DEF PutSandbox, LinkInv, NoEarlierAddress
  <2>2. \A w \in Uids : store'[w].addr = store[w].addr
    BY <1>13 DEF PutSandbox, TypeOK, Sandboxes
  <2>3. \A w \in Uids : call'[w].pc # "idle" => w <= lastUid
    BY <1>13, <2>1, GoTyped DEF PutSandbox, LinkInv, NoEarlierAddress
  <2>. QED
    BY <1>13, <2>2, <2>3 DEF PutSandbox, LinkInv, UpToDate, OwnCID, NoEarlierAddress
<1>14. ASSUME NEW u \in Uids, StartContainer(u) PROVE LinkInv'
  <2>1. u <= lastUid
    BY <1>14 DEF StartContainer, LinkInv, NoEarlierAddress
  <2>2. \A w \in Uids : w # u => call'[w] = call[w]
    BY <1>14 DEF StartContainer, TypeOK
  <2>. QED
    BY <1>14, <2>1, <2>2 DEF StartContainer, LinkInv, UpToDate, OwnCID, NoEarlierAddress
<1>15. CASE UNCHANGED vars
  BY <1>15 DEF vars, LinkInv, UpToDate, OwnCID, NoEarlierAddress
<1>. QED
  BY <1>1, <1>2, <1>3, <1>4, <1>5, <1>6, <1>7, <1>8, <1>9, <1>10, <1>11, <1>12, <1>13, <1>14,
     <1>15, <1>16 DEF Next, CallStep

\* Whatever answers a start of the Pod that has the name is its VM.
LEMMA DialsOwnVM ==
    ASSUME TypeOK, LinkInv, pod # None, NEW u \in Uids, pod.uid = u, DialAgent(u) # 0
    PROVE  DialAgent(u) = vm[u]
<1>1. store[u].addr # None /\ store[u].addr \in Uids
  BY DEF DialAgent, TypeOK, Sandboxes
<1>2. store[u].addr = u
  BY <1>1, Counted DEF LinkInv, UpToDate, NoEarlierAddress
<1>3. DialAgent(u) = DialVsock(ResolveGuestCID(u)) /\ DialVsock(ResolveGuestCID(u)) # 0
  BY <1>1, <1>2 DEF DialAgent, Dial, DialGuest
<1>4. PICK w \in Uids : vm[w] = ResolveGuestCID(u) /\ DialAgent(u) = vm[w]
  BY <1>3 DEF DialVsock
<1>5. CASE local
  BY <1>4, <1>5 DEF ResolveGuestCID
<1>6. CASE ~local
  BY <1>4, <1>6 DEF ResolveGuestCID, LinkInv, OwnCID
<1>. QED
  BY <1>5, <1>6

\* One step of a start that has got through.
LEMMA OwnVMStep ==
    ASSUME TypeOK, LinkInv, [Next]_vars, NEW u \in Uids, pod # None, pod.uid = u
    PROVE  /\ call[u].pc = "dial" /\ call'[u].pc = "answered" => DialAgent(u) = vm[u]
           /\ call[u].pc = "ok" /\ call'[u].pc = "started" => call'[u].at = vm[u]
<1>. USE DEF vmVars, nodeVars
<1>1. CASE UNCHANGED call
  BY <1>1
<1>2. ASSUME NEW w \in Uids, NEW pc \in {"wait", "dial", "answered", "ok", "started", "failed"},
             Go(w, pc), call[w].pc = "dial" => pc # "answered", call[w].pc = "ok" => pc # "started"
      PROVE  /\ ~(call[u].pc = "dial" /\ call'[u].pc = "answered")
             /\ ~(call[u].pc = "ok" /\ call'[u].pc = "started")
  BY <1>2, GoTyped
<1>3. CASE CreatePod \/ DeletePod \/ PodGone \/ StartVM \/ AnnotatePod \/ UNCHANGED vars
  BY <1>1, <1>3 DEF CreatePod, DeletePod, PodGone, StartVM, AnnotatePod, vars
<1>4. ASSUME NEW w \in Uids, AgentListens(w) \/ FwdListens(w) \/ VMDies(w) \/ StopPodSandbox(w)
           \/ RemovePodSandbox(w)
      PROVE  UNCHANGED call
  BY <1>4 DEF AgentListens, FwdListens, VMDies, StopPodSandbox, RemovePodSandbox
<1>5. CASE ShimRestart
  <2>1. call[u] \in Starts
    BY DEF TypeOK
  <2>2. call'[u].pc = call[u].pc \/ call'[u].pc = "failed"
    BY <1>5, <2>1 DEF ShimRestart, Starts
  <2>. QED
    BY <2>2
<1>6. ASSUME NEW w \in Uids, RunPodSandbox(w) \/ WaitForVMI(w) \/ GiveUp(w) \/ PutSandbox(w)
      PROVE  \/ UNCHANGED call
             \/ /\ ~(call[u].pc = "dial" /\ call'[u].pc = "answered")
                /\ ~(call[u].pc = "ok" /\ call'[u].pc = "started")
  <2>1. CASE RunPodSandbox(w)
    BY <1>2, <2>1 DEF RunPodSandbox
  <2>2. CASE WaitForVMI(w)
    BY <1>2, <2>2 DEF WaitForVMI
  <2>3. CASE GiveUp(w)
    BY <1>2, <2>3 DEF GiveUp
  <2>4. CASE PutSandbox(w)
    BY <1>2, <2>4 DEF PutSandbox
  <2>. QED
    BY <1>6, <2>1, <2>2, <2>3, <2>4
<1>7. ASSUME NEW w \in Uids, Ping(w)
      PROVE  /\ call[u].pc = "dial" /\ call'[u].pc = "answered" => DialAgent(u) = vm[u]
             /\ ~(call[u].pc = "ok" /\ call'[u].pc = "started")
  <2>1. CASE DialAgent(w) = 0
    BY <1>2, <1>7, <2>1 DEF Ping
  <2>2. CASE DialAgent(w) # 0
    <3>1. call[w].pc = "dial" /\ Go(w, "answered")
      BY <1>7, <2>2 DEF Ping
    <3>2. CASE w = u
      BY <2>2, <3>1, <3>2, DialsOwnVM
    <3>3. CASE w # u
      BY <3>1, <3>3, GoTyped
    <3>. QED
      BY <3>2, <3>3
  <2>. QED
    BY <2>1, <2>2
<1>8. ASSUME NEW w \in Uids, StartContainer(w)
      PROVE  /\ ~(call[u].pc = "dial" /\ call'[u].pc = "answered")
             /\ call[u].pc = "ok" /\ call'[u].pc = "started" => call'[u].at = vm[u]
  <2>1. /\ call'[w] = [pc |-> IF DialAgent(w) = 0 THEN "failed" ELSE "started", at |-> DialAgent(w)]
        /\ \A x \in Uids : x # w => call'[x] = call[x]
    BY <1>8 DEF StartContainer, TypeOK
  <2>2. CASE w = u
    BY <1>8, <2>1, <2>2, DialsOwnVM DEF StartContainer
  <2>3. CASE w # u
    BY <2>1, <2>3
  <2>. QED
    BY <2>2, <2>3
<1>. QED
  BY <1>1, <1>3, <1>4, <1>5, <1>6, <1>7, <1>8 DEF Next, CallStep

-----------------------------------------------------------------------------
\* Every variable keeps its shape; nothing of a VM outlives it.
THEOREM TypeCorrect == Spec => []TypeOK
  BY InitTyped, TypeStep, PTL DEF Spec

\* A start of the Pod that has the name is never connected to anything but
\* that Pod's own VM, however many Pods, VMs, restarts and faults came before,
\* as long as Pods are not made with the annotations of an earlier one.
THEOREM OwnVMOnlyHolds == ~CopiedManifests => (Spec => OwnVMOnly)
<1>. SUFFICES ASSUME ~CopiedManifests PROVE Spec => OwnVMOnly
  OBVIOUS
<1>1. Init => TypeOK /\ LinkInv
  BY InitTyped, InitLinked
<1>2. TypeOK /\ LinkInv /\ [Next]_vars => TypeOK' /\ LinkInv'
  BY TypeStep, LinkStep
<1>3. TypeOK /\ LinkInv /\ [Next]_vars =>
        [\A u \in Uids : pod # None /\ pod.uid = u =>
           /\ call[u].pc = "dial" /\ call'[u].pc = "answered" => DialAgent(u) = vm[u]
           /\ call[u].pc = "ok" /\ call'[u].pc = "started" => call'[u].at = vm[u]]_vars
  BY OwnVMStep
<1>. QED
  BY <1>1, <1>2, <1>3, PTL DEF Spec, OwnVMOnly
===============================================================================
