----------------------- MODULE OperatorLifecycleProofs -----------------------
(***************************************************************************)
(* Proofs about OperatorLifecycle, for any names, any number of CRs, any   *)
(* number of crashes, failed writes and reads and evictions.               *)
(*                                                                         *)
(* The claim on the cluster (the config map) outlives neither the CR that  *)
(* made it nor anything the operator believes about it for long: the cache *)
(* may show a claim that is gone, or miss one that was just made or whose  *)
(* read failed; a job may hold a CR that has changed or was recreated.     *)
(* OperatorInv says how far each may lag; from it, a job that writes works *)
(* for the CR that holds the cluster, so that resources never mix          *)
(* (NoMixing), and a CR is put into error only because of another that     *)
(* lives, or by what the reads told (OnlyUnwantedFail).                    *)
(***************************************************************************)
EXTENDS OperatorLifecycle, TLAPS

-----------------------------------------------------------------------------
(* Types.                                                                  *)


\* None is nothing else.
LEMMA NoneIsApart ==
    /\ \A c \in CRs : c # None
    /\ \A c \in Claims : c # None
    /\ \A j \in Jobs : j # None
    /\ \A o \in Owners : o # None
  BY NoneAssumption

\* The edits of a CR leave a CR with its uid.
LEMMA EditsTyped ==
    ASSUME NEW c \in CRs
    PROVE  /\ \A p \in Phases : /\ [c EXCEPT !.phase = p] \in CRs
                                /\ [c EXCEPT !.phase = p].uid = c.uid
                                /\ [c EXCEPT !.phase = p].phase = p
                                /\ [c EXCEPT !.phase = p].fin = c.fin
           /\ [c EXCEPT !.fin = TRUE] \in CRs
           /\ [c EXCEPT !.fin = TRUE].uid = c.uid
           /\ [c EXCEPT !.fin = TRUE].phase = c.phase
           /\ [c EXCEPT !.deleting = TRUE] \in CRs
           /\ [c EXCEPT !.deleting = TRUE].uid = c.uid
           /\ [c EXCEPT !.deleting = TRUE].phase = c.phase
           /\ [c EXCEPT !.deleting = TRUE].fin = c.fin
  BY DEF CRs

\* A job's fields are typed.
LEMMA JobFields ==
    ASSUME NEW j \in Jobs
    PROVE  j.n \in Names /\ j.cr \in CRs /\ j.pc \in PCs /\ j.todo \in SUBSET Groups /\ j.plan \in Switches
  BY DEF Jobs

\* A job goes to its next step.
LEMMA JobGoes ==
    ASSUME NEW j \in Jobs, NEW pc \in PCs
    PROVE  /\ [j EXCEPT !.pc = pc] \in Jobs
           /\ [j EXCEPT !.pc = pc].n = j.n
           /\ [j EXCEPT !.pc = pc].cr = j.cr
           /\ [j EXCEPT !.pc = pc].pc = pc
  BY DEF Jobs

\* A job goes on with the CR it has written.
LEMMA JobWrites ==
    ASSUME NEW j \in Jobs, NEW c \in CRs, NEW pc \in PCs
    PROVE  /\ [j EXCEPT !.cr = c, !.pc = pc] \in Jobs
  BY DEF Jobs

\* A job has listed its resources.
LEMMA JobPlans ==
    ASSUME NEW j \in Jobs, NEW c \in CRs, NEW pc \in PCs, NEW t \in SUBSET Groups, NEW p \in Switches
    PROVE  /\ [j EXCEPT !.cr = c, !.pc = pc, !.todo = t, !.plan = p] \in Jobs
  BY DEF Jobs

\* A job has done with one of its resources.
LEMMA JobApplies ==
    ASSUME NEW j \in Jobs, NEW t \in SUBSET Groups, NEW f \in BOOLEAN
    PROVE  /\ [j EXCEPT !.todo = t] \in Jobs
           /\ [j EXCEPT !.todo = t, !.failed = f] \in Jobs
  BY DEF Jobs

\* The names of the steps.
LEMMA StepNames ==
    /\ "init" \in PCs /\ "finalizer" \in PCs /\ "sanity" \in PCs /\ "update" \in PCs
    /\ "apply" \in PCs /\ "finish" \in PCs /\ "create" \in PCs /\ "unwanted" \in PCs
  BY DEF PCs

\* What the operator's cache may hold of the CRs.
LEMMA ListedTyped ==
    ASSUME TypeOK
    PROVE  Listed \in [Names -> Owners \cup {None}]
<1>. SUFFICES ASSUME NEW n \in Names PROVE Owner(n) \in Owners \cup {None}
  BY DEF Listed
<1>1. CASE crs[n] = None
  BY <1>1 DEF Owner
<1>2. CASE crs[n] # None
  <2>1. crs[n] \in CRs
    BY <1>2 DEF TypeOK
  <2>. QED
    BY <1>2, <2>1 DEF Owner, Owners, CRs
<1>. QED
  BY <1>1, <1>2

\* The types of the process's own state.
OwnTyped ==
    /\ job \in Jobs \cup {None} /\ watching \in BOOLEAN /\ misread \in BOOLEAN
    /\ cached \in Claims \cup {None} /\ seen \in [Names -> Owners \cup {None}]
    /\ queue \subseteq Names

\* The process starts over: its own state is as typed as before.
LEMMA CrashTyped ==
    ASSUME TypeOK, Crash
    PROVE  OwnTyped'
  BY ListedTyped DEF TypeOK, OwnTyped, Crash, Present

\* The job under way is typed.
LEMMA JobTyped ==
    ASSUME TypeOK, job # None
    PROVE  job \in Jobs /\ job.n \in Names /\ job.cr \in CRs
  BY JobFields DEF TypeOK

\* A write of a CR leaves typed CRs, whether it succeeds or not.
LEMMA WriteTyped ==
    ASSUME TypeOK, job # None, NEW new \in CRs, crs' = crs \/ crs' = [crs EXCEPT ![job.n] = new]
    PROVE  crs' \in [Names -> CRs \cup {None}]
  BY JobTyped DEF TypeOK

\* Every step keeps the types.
LEMMA TypeStep == TypeOK /\ [Next]_vars => TypeOK'
<1>. SUFFICES ASSUME TypeOK, [Next]_vars PROVE TypeOK'
  OBVIOUS
<1>. USE DEF clusterVars
<1>1. ASSUME NEW n \in Names, CreateCR(n) PROVE TypeOK'
  <2>. DEFINE new == [uid |-> uids + 1, phase |-> "Empty", fin |-> FALSE, deleting |-> FALSE]
  <2>0. uids \in Nat
    BY DEF TypeOK
  <2>2. new \in CRs
    BY <2>0 DEF CRs, Phases
  <2>3. uids' = uids + 1 /\ crs' = [crs EXCEPT ![n] = new]
    BY <1>1 DEF CreateCR
  <2>. HIDE DEF new
  <2>1. crs' \in [Names -> CRs \cup {None}] /\ uids' \in Nat
    BY <2>0, <2>2, <2>3 DEF TypeOK
  <2>. QED
    BY <1>1, <2>1 DEF CreateCR, TypeOK
<1>2. ASSUME NEW n \in Names, DeleteCR(n) PROVE TypeOK'
  <2>1. crs[n] \in CRs
    BY <1>2 DEF DeleteCR, TypeOK
  <2>2. [crs[n] EXCEPT !.deleting = TRUE] \in CRs
    BY <2>1, EditsTyped
  <2>3. crs' \in [Names -> CRs \cup {None}]
    BY <1>2, <2>2 DEF DeleteCR, TypeOK
  <2>. QED
    BY <1>2, <2>3 DEF DeleteCR, TypeOK
<1>3. ASSUME NEW g \in Groups, GarbageCollect(g) PROVE TypeOK'
  <2>1. res' \in [Groups -> Nat]
    BY <1>3 DEF GarbageCollect, TypeOK
  <2>2. hooks' \in Switches
    BY <1>3 DEF GarbageCollect, TypeOK, HooksOff, Switches
  <2>. QED
    BY <1>3, <2>1, <2>2 DEF GarbageCollect, TypeOK
<1>4. ASSUME CollectConfig \/ SyncCache \/ SyncCRs PROVE TypeOK'
  BY <1>4, ListedTyped DEF CollectConfig, SyncCache, SyncCRs, TypeOK
<1>5. ASSUME NEW d \in Deployments, BecomeReady(d) \/ Evict(d) PROVE TypeOK'
  <2>1. budget' \in Nat
    BY <1>5 DEF BecomeReady, Evict, Fault, TypeOK
  <2>. QED
    BY <1>5, <2>1 DEF BecomeReady, Evict, TypeOK
<1>6. CASE OperatorCrash
  <2>1. budget' \in Nat
    BY <1>6 DEF OperatorCrash, Fault, TypeOK
  <2>. QED
    BY <1>6, <2>1, CrashTyped DEF OperatorCrash, TypeOK, OwnTyped
<1>7. ASSUME NEW n \in Names, Begin(n) PROVE TypeOK'
  <2>. DEFINE new == [n |-> n, cr |-> crs[n], pc |-> IF crs[n].deleting THEN "delete" ELSE "check",
                      todo |-> {}, plan |-> HooksOff, failed |-> FALSE]
  <2>2. ASSUME crs[n] # None PROVE new \in Jobs
    <3>1. crs[n] \in CRs
      BY <2>2 DEF TypeOK
    <3>. QED
      BY <3>1 DEF Jobs, PCs, HooksOff, Switches
  <2>3. UNCHANGED <<job, watching>> \/ (crs[n] # None /\ job' = new /\ watching' = TRUE)
    BY <1>7 DEF Begin
  <2>. HIDE DEF new
  <2>1. job' \in Jobs \cup {None} /\ watching' \in BOOLEAN
    BY <2>2, <2>3 DEF TypeOK
  <2>. QED
    BY <1>7, <2>1 DEF Begin, TypeOK
<1>8. ASSUME NEW n \in Names, BeginPanics(n) PROVE TypeOK'
  BY <1>8, CrashTyped DEF BeginPanics, Panic, TypeOK, OwnTyped
<1>9. CASE ReconcileDelete
  <2>1. job.n \in Names
    BY <1>9, JobTyped DEF ReconcileDelete, At
  <2>2. crs' \in [Names -> CRs \cup {None}]
    BY <1>9, <2>1 DEF ReconcileDelete, TypeOK
  <2>3. OwnTyped'
    BY <1>9, CrashTyped DEF ReconcileDelete, Done, TypeOK, OwnTyped
  <2>. QED
    BY <1>9, <2>2, <2>3 DEF ReconcileDelete, TypeOK, OwnTyped
<1>10. CASE IllegalPhase
  <2>1. job # None /\ [job.cr EXCEPT !.phase = "Error"] \in CRs /\ job.n \in Names
    BY <1>10, JobTyped, EditsTyped DEF IllegalPhase, At, Phases
  <2>2. crs' \in [Names -> CRs \cup {None}]
    BY <1>10, <2>1, WriteTyped DEF IllegalPhase, WriteCR
  <2>3. job' = None /\ queue' \subseteq Names
    BY <1>10, <2>1 DEF IllegalPhase, WriteCR, Requeue, TypeOK
  <2>. QED
    BY <1>10, <2>2, <2>3 DEF IllegalPhase, TypeOK
<1>11. CASE PreCreate
  <2>1. job \in Jobs /\ job.n \in Names /\ job.cr \in CRs
    BY <1>11, JobTyped DEF PreCreate, At
  <2>2. config' \in Claims \cup {None}
    <3>1. [name |-> job.n, uid |-> job.cr.uid] \in Claims
      BY <2>1 DEF Claims, CRs
    <3>. QED
      BY <1>11, <3>1 DEF PreCreate, TypeOK
  <2>3. [job EXCEPT !.pc = "init"] \in Jobs
    BY <2>1, JobGoes, StepNames
  <2>4. OwnTyped'
    BY <1>11, <2>1, <2>3, CrashTyped DEF PreCreate, Requeue, Goto, TypeOK, OwnTyped
  <2>. QED
    BY <1>11, <2>2, <2>4 DEF PreCreate, TypeOK, OwnTyped
<1>12. CASE CrInitStatus
  <2>. DEFINE new == [job.cr EXCEPT !.phase = "Deploying"]
  <2>1. job # None /\ job \in Jobs /\ new \in CRs /\ job.n \in Names
    BY <1>12, JobTyped, EditsTyped DEF CrInitStatus, At, Phases
  <2>2. WriteCR(new, job' = [job EXCEPT !.cr = new, !.pc = "finalizer"] /\ UNCHANGED queue)
    BY <1>12 DEF CrInitStatus
  <2>. HIDE DEF new
  <2>3. crs' \in [Names -> CRs \cup {None}]
    BY <2>1, <2>2, WriteTyped DEF WriteCR
  <2>4. [job EXCEPT !.cr = new, !.pc = "finalizer"] \in Jobs
    BY <2>1, JobWrites, StepNames
  <2>5. job' \in Jobs \cup {None} /\ queue' \subseteq Names
    BY <2>1, <2>2, <2>4 DEF WriteCR, Requeue, TypeOK
  <2>. QED
    BY <1>12, <2>3, <2>5 DEF CrInitStatus, TypeOK
<1>13. CASE CrInitFinalizer
  <2>. DEFINE new == [job.cr EXCEPT !.fin = TRUE]
  <2>1. job # None /\ job \in Jobs /\ new \in CRs /\ job.n \in Names
    BY <1>13, JobTyped, EditsTyped DEF CrInitFinalizer, At
  <2>2. WriteCR(new, job' = [job EXCEPT !.cr = new, !.pc = "sanity"] /\ UNCHANGED queue)
    BY <1>13 DEF CrInitFinalizer
  <2>. HIDE DEF new
  <2>3. crs' \in [Names -> CRs \cup {None}]
    BY <2>1, <2>2, WriteTyped DEF WriteCR
  <2>4. [job EXCEPT !.cr = new, !.pc = "sanity"] \in Jobs
    BY <2>1, JobWrites, StepNames
  <2>5. job' \in Jobs \cup {None} /\ queue' \subseteq Names
    BY <2>1, <2>2, <2>4 DEF WriteCR, Requeue, TypeOK
  <2>. QED
    BY <1>13, <2>3, <2>5 DEF CrInitFinalizer, TypeOK
<1>14. CASE SkipCreate
  <2>1. [job EXCEPT !.pc = "sanity"] \in Jobs
    BY <1>14, JobTyped, JobGoes, StepNames DEF SkipCreate, At
  <2>. QED
    BY <1>14, <2>1 DEF SkipCreate, Goto, TypeOK
<1>15. CASE CheckSanity
  <2>1. job # None /\ job \in Jobs /\ job.n \in Names
    BY <1>15, JobTyped DEF CheckSanity, At
  <2>2. [job EXCEPT !.pc = "update"] \in Jobs /\ [job EXCEPT !.pc = "unwanted"] \in Jobs
    BY <2>1, JobGoes, StepNames
  <2>3. OwnTyped'
    BY <1>15, <2>1, <2>2, CrashTyped DEF CheckSanity, Requeue, Goto, TypeOK, OwnTyped
  <2>4. budget' \in Nat
    BY <1>15 DEF CheckSanity, Fault, TypeOK
  <2>. QED
    BY <1>15, <2>3, <2>4 DEF CheckSanity, TypeOK, OwnTyped
<1>16. CASE GetAllResources
  <2>. DEFINE new == [job.cr EXCEPT !.phase = IF @ = "Empty" THEN "Upgrading" ELSE @]
              plan == [on |-> IncludeHooks, ca |-> IncludeHooks /\ filled]
  <2>1. job # None /\ job \in Jobs /\ job.cr \in CRs /\ job.n \in Names
    BY <1>16, JobTyped DEF GetAllResources, At
  <2>2. new \in CRs
    BY <2>1 DEF CRs, Phases
  <2>3. plan \in Switches
    BY DEF Switches, IncludeHooks, TypeOK
  <2>4. \/ Crash /\ UNCHANGED crs
        \/ /\ WriteCR(new, /\ job' = [job EXCEPT !.cr = new, !.pc = "apply", !.todo = Groups, !.plan = plan]
                           /\ UNCHANGED queue)
           /\ UNCHANGED <<cached, seen, watching, misread>>
    BY <1>16 DEF GetAllResources
  <2>. HIDE DEF new, plan
  <2>5. crs' \in [Names -> CRs \cup {None}]
    BY <2>1, <2>2, <2>4, WriteTyped DEF WriteCR
  <2>6. [job EXCEPT !.cr = new, !.pc = "apply", !.todo = Groups, !.plan = plan] \in Jobs
    <3>1. Groups \in SUBSET Groups
      OBVIOUS
    <3>. QED
      BY <2>1, <2>2, <2>3, <3>1, JobPlans, StepNames
  <2>7. OwnTyped'
    BY <2>1, <2>4, <2>6, CrashTyped DEF WriteCR, Requeue, TypeOK, OwnTyped
  <2>. QED
    BY <1>16, <2>5, <2>7 DEF GetAllResources, TypeOK, OwnTyped
<1>17. ASSUME NEW g \in Groups, Apply(g) PROVE TypeOK'
  <2>1. job # None /\ job \in Jobs /\ job.cr.uid \in Nat /\ job.todo \in SUBSET Groups /\ job.plan \in Switches
    BY <1>17, JobTyped DEF Apply, At, Jobs, CRs
  <2>2. res' \in [Groups -> Nat]
    BY <1>17, <2>1 DEF Apply, TypeOK
  <2>3. hooks' \in Switches
    BY <1>17, <2>1 DEF Apply, TypeOK
  <2>4. budget' \in Nat
    BY <1>17 DEF Apply, Fault, TypeOK
  <2>5. job' \in Jobs
    <3>1. job.todo \ {g} \in SUBSET Groups
      BY <2>1
    <3>2. /\ [job EXCEPT !.todo = job.todo \ {g}] \in Jobs
          /\ [job EXCEPT !.todo = job.todo \ {g}, !.failed = TRUE] \in Jobs
      BY <2>1, <3>1, JobApplies
    <3>. QED
      BY <1>17, <3>2 DEF Apply
  <2>. QED
    BY <1>17, <2>2, <2>3, <2>4, <2>5 DEF Apply, TypeOK
<1>18. CASE SyncPerishables
  <2>1. [job EXCEPT !.pc = "finish"] \in Jobs
    BY <1>18, JobTyped, JobGoes, StepNames DEF SyncPerishables, At
  <2>2. res' \in [Groups -> Nat]
    BY <1>18, BoundAssumption DEF SyncPerishables, TypeOK, Unowned, Groups
  <2>. QED
    BY <1>18, <2>1, <2>2 DEF SyncPerishables, Goto, TypeOK
<1>19. CASE Finish
  <2>1. job # None /\ [job.cr EXCEPT !.phase = "Deployed"] \in CRs /\ job.n \in Names
    BY <1>19, JobTyped, EditsTyped DEF Finish, At, Phases
  <2>2. crs' \in [Names -> CRs \cup {None}]
    BY <1>19, <2>1, WriteTyped DEF Finish, WriteCR
  <2>3. OwnTyped'
    BY <1>19, <2>1, CrashTyped DEF Finish, WriteCR, Requeue, TypeOK, OwnTyped
  <2>. QED
    BY <1>19, <2>2, <2>3 DEF Finish, TypeOK, OwnTyped
<1>20. CASE IsCreating
  <2>1. [job EXCEPT !.pc = "create"] \in Jobs
    BY <1>20, JobTyped, JobGoes, StepNames DEF IsCreating, At
  <2>2. budget' \in Nat
    BY <1>20 DEF IsCreating, Fault, TypeOK
  <2>. QED
    BY <1>20, <2>1, <2>2 DEF IsCreating, Goto, TypeOK
<1>21. CASE RejectCR
  <2>1. job # None /\ [job.cr EXCEPT !.phase = "Error"] \in CRs /\ job.n \in Names
    BY <1>21, JobTyped, EditsTyped DEF RejectCR, At, Phases
  <2>2. crs' \in [Names -> CRs \cup {None}]
    BY <1>21, <2>1, WriteTyped DEF RejectCR, WriteCR
  <2>3. job' = None /\ queue' \subseteq Names
    BY <1>21, <2>1 DEF RejectCR, WriteCR, Requeue, TypeOK
  <2>. QED
    BY <1>21, <2>2, <2>3 DEF RejectCR, TypeOK
<1>22. CASE UNCHANGED vars
  BY <1>22 DEF vars, TypeOK
<1>. QED
  BY <1>1, <1>2, <1>3, <1>4, <1>5, <1>6, <1>7, <1>8, <1>9, <1>10, <1>11, <1>12, <1>13, <1>14,
     <1>15, <1>16, <1>17, <1>18, <1>19, <1>20, <1>21, <1>22 DEF Next, Reconcile, Cluster

-----------------------------------------------------------------------------
(* Who holds the cluster.                                                  *)

\* UIDs are handed out once, and each stays with its name.
KnownUIDs ==
    /\ \A n \in Names : crs[n] # None => crs[n].uid <= uids
    /\ \A m, n \in Names : crs[m] # None /\ crs[n] # None /\ crs[m].uid = crs[n].uid => m = n
    /\ config # None => config.uid <= uids
    /\ cached # None => cached.uid <= uids
    /\ job # None => job.cr.uid <= uids
    /\ job # None => \A n \in Names : crs[n] # None /\ crs[n].uid = job.cr.uid => n = job.n

\* A CR gets its finalizer after its first phase; until then a delete request
\* removes it, so that a reconcile that claims the cluster for it either has
\* the CR as it is or one that is gone.
ReadsHold ==
    /\ \A n \in Names : crs[n] # None /\ crs[n].fin => crs[n].phase # "Empty"
    /\ job # None /\ job.cr.fin => job.cr.phase # "Empty"
    /\ job # None /\ job.pc \in {"init", "finalizer"} => ~job.cr.fin
    /\ job # None /\ job.pc = "finalizer" => job.cr.phase # "Empty"
    /\ job # None /\ job.pc \in {"check", "create", "init", "finalizer"} /\ ~job.cr.fin
       /\ crs[job.n] # None /\ crs[job.n].uid = job.cr.uid
          => crs[job.n] = job.cr

\* What the cache shows of a CR that exists is the claim, and it shows one,
\* except to the reconcile that has just made it, and unless a read failed; a
\* reconcile that finds its own CR there is not taken in by an old claim, and
\* one that finds none does not hold the cluster.
CacheFollows ==
    /\ cached # None /\ Exists(cached.uid) => config = cached
    /\ config # None /\ cached = None /\ Exists(config.uid)
          => misread \/ /\ job # None /\ job.cr.uid = config.uid
                        /\ job.pc \in {"init", "finalizer", "sanity"}
    /\ job # None /\ cached # None /\ config # None /\ cached.uid = job.cr.uid
          => config.uid = job.cr.uid
    /\ job # None /\ job.pc = "create" /\ config # None /\ Exists(job.cr.uid)
          => misread \/ config.uid # job.cr.uid

\* A reconcile that writes works for the CR that holds the cluster.
WritersHold ==
    job # None /\ job.pc \in {"init", "finalizer", "update", "apply", "finish"} =>
        /\ config # None => config.uid = job.cr.uid
        /\ Exists(job.cr.uid) => config # None

\* A CR that has got on, and is not in error, holds the cluster.
OwnersHold ==
    \A n \in Names : crs[n] # None /\ crs[n].phase \notin {"Empty", "Error"} =>
        config # None /\ config.uid = crs[n].uid

OperatorInv ==
    /\ KnownUIDs
    /\ ReadsHold
    /\ CacheFollows
    /\ WritersHold
    /\ OwnersHold
    /\ NoMixing

\* What a step leaves alone besides the CRs, the cache and the job.
Steady == UNCHANGED <<uids, config, res>>

\* The operator starts over with nothing under way and a full cache.
LEMMA CrashKeeps ==
    ASSUME OperatorInv, Crash, crs' = crs, Steady
    PROVE  OperatorInv'
  BY DEF OperatorInv, Crash, Steady, KnownUIDs, ReadsHold, CacheFollows, WritersHold, OwnersHold,
         NoMixing, Exists

\* The claim of a CR that exists shows in the cache, or a read failed.
Shown(failed) == config # None /\ cached = None /\ Exists(config.uid) => failed

\* A job ends; the claim it may have made shows in the cache, or its CR is gone.
LEMMA EndKeeps ==
    ASSUME OperatorInv, job' = None, UNCHANGED <<crs, cached>>, Steady, Shown(misread')
    PROVE  OperatorInv'
  BY DEF OperatorInv, Steady, KnownUIDs, ReadsHold, CacheFollows, WritersHold, OwnersHold,
         NoMixing, Exists, Shown

\* The CR of a name goes.
LEMMA RemovalKeeps ==
    ASSUME TypeOK, OperatorInv, NEW n \in Names, crs' = [crs EXCEPT ![n] = None],
           UNCHANGED <<cached, misread>>, Steady,
           \/ job' = job
           \/ job' = None /\ Shown(misread)
    PROVE  OperatorInv'
<1>1. crs'[n] = None /\ \A m \in Names : m # n => crs'[m] = crs[m]
  BY DEF TypeOK
<1>2. \A u : Exists(u)' => Exists(u)
  BY <1>1 DEF Exists
<1>3. KnownUIDs'
  BY <1>1 DEF OperatorInv, KnownUIDs, Steady
<1>4. ReadsHold'
  BY <1>1, JobTyped DEF OperatorInv, ReadsHold
<1>5. CacheFollows'
  BY <1>1, <1>2 DEF OperatorInv, CacheFollows, Steady, Shown
<1>6. WritersHold'
  BY <1>1, <1>2 DEF OperatorInv, WritersHold, Steady, Exists
<1>7. OwnersHold'
  BY <1>1 DEF OperatorInv, OwnersHold, Steady
<1>8. NoMixing'
  BY DEF OperatorInv, NoMixing, Steady
<1>. QED
  BY <1>3, <1>4, <1>5, <1>6, <1>7, <1>8 DEF OperatorInv

\* The job writes the CR it has read, which has not changed since.
LEMMA WriteKeeps ==
    ASSUME TypeOK, OperatorInv, job # None, NEW new \in CRs, crs[job.n] = job.cr,
           crs' = [crs EXCEPT ![job.n] = new],
           new.uid = job.cr.uid, new.fin => new.phase # "Empty",
           new.phase \notin {"Empty", "Error"} => config # None /\ config.uid = new.uid,
           UNCHANGED <<cached, misread>>, Steady,
           \/ job' = None /\ Shown(misread)
           \/ /\ job' \in Jobs /\ job'.n = job.n /\ job'.cr = new
              /\ \/ job.pc = "init" /\ job'.pc = "finalizer" /\ ~new.fin /\ new.phase # "Empty"
                 \/ job.pc = "finalizer" /\ job'.pc = "sanity"
                 \/ job.pc = "update" /\ job'.pc = "apply"
    PROVE  OperatorInv'
<1>1. job.n \in Names /\ job.cr # None /\ new # None /\ \A j \in Jobs : j # None
  BY JobTyped, NoneIsApart
<1>2. crs'[job.n] = new /\ \A m \in Names : m # job.n => crs'[m] = crs[m]
  BY <1>1 DEF TypeOK
<1>3. \A u : Exists(u)' <=> Exists(u)
  BY <1>1, <1>2 DEF Exists
<1>4. KnownUIDs'
  <2>1. \A m \in Names : (crs'[m] # None <=> crs[m] # None) /\ (crs[m] # None => crs'[m].uid = crs[m].uid)
    BY <1>1, <1>2
  <2>2. job' = None \/ (job'.n = job.n /\ job'.cr.uid = job.cr.uid)
    OBVIOUS
  <2>. QED
    BY <2>1, <2>2 DEF OperatorInv, KnownUIDs, Steady
<1>5. ReadsHold'
  BY <1>1, <1>2 DEF OperatorInv, ReadsHold
<1>6. CacheFollows'
  BY <1>1, <1>3 DEF OperatorInv, CacheFollows, Steady, Shown
<1>7. WritersHold'
  BY <1>1, <1>3 DEF OperatorInv, WritersHold, Steady
<1>8. OwnersHold'
  BY <1>1, <1>2 DEF OperatorInv, OwnersHold, Steady
<1>9. NoMixing'
  BY DEF OperatorInv, NoMixing, Steady
<1>. QED
  BY <1>4, <1>5, <1>6, <1>7, <1>8, <1>9 DEF OperatorInv

\* A job goes on without a write of its CR.
LEMMA MoveKeeps ==
    ASSUME TypeOK, OperatorInv, job # None, job' \in Jobs, job'.n = job.n, job'.cr = job.cr,
           UNCHANGED <<crs, cached, uids, config>>, misread => misread',
           \/ job'.pc = job.pc
           \/ job.pc = "check" /\ job'.pc = "create" /\ (cached = None \/ misread')
           \/ job.pc = "check" /\ job'.pc = "sanity" /\ cached # None
           \/ job.pc = "sanity" /\ job'.pc = "unwanted" /\ cached # None
           \/ /\ job.pc = "sanity" /\ job'.pc = "update"
              /\ cached # None /\ cached.uid = job.cr.uid
           \/ job.pc = "apply" /\ job'.pc = "finish",
           \A g \in Groups : config # None => res'[g] \in {0, config.uid, Unowned}
    PROVE  OperatorInv'
<1>1. \A j \in Jobs : j # None
  BY NoneIsApart
<1>2. \A u : Exists(u)' <=> Exists(u)
  BY DEF Exists
<1>3. KnownUIDs'
  BY <1>1 DEF OperatorInv, KnownUIDs
<1>4. ReadsHold'
  BY <1>1 DEF OperatorInv, ReadsHold
<1>5. CacheFollows'
  BY <1>1, <1>2 DEF OperatorInv, CacheFollows
<1>6. WritersHold'
  BY <1>1, <1>2 DEF OperatorInv, WritersHold, CacheFollows
<1>7. OwnersHold'
  BY DEF OperatorInv, OwnersHold
<1>8. NoMixing'
  BY DEF OperatorInv, NoMixing, Unowned
<1>. QED
  BY <1>3, <1>4, <1>5, <1>6, <1>7, <1>8 DEF OperatorInv

\* Only a reconcile that claims may miss its own claim.
LEMMA ClaimShows ==
    ASSUME OperatorInv, job # None, job.pc \notin {"init", "finalizer", "sanity"}
    PROVE  Shown(misread)
  BY DEF OperatorInv, CacheFollows, Shown

\* The job's CR has changed: then it is gone, if the job was still claiming.
LEMMA ConflictMeansGone ==
    ASSUME TypeOK, OperatorInv, job # None, job.pc \in {"init", "finalizer"}, crs[job.n] # job.cr
    PROVE  ~Exists(job.cr.uid)
<1>. SUFFICES ASSUME NEW n \in Names, crs[n] # None, crs[n].uid = job.cr.uid PROVE FALSE
  BY DEF Exists
<1>1. n = job.n
  BY DEF OperatorInv, KnownUIDs
<1>. QED
  BY <1>1 DEF OperatorInv, ReadsHold

\* Every step keeps it.
LEMMA OperatorStep == TypeOK /\ OperatorInv /\ [Next]_vars => OperatorInv'
<1>. SUFFICES ASSUME TypeOK, OperatorInv, [Next]_vars PROVE OperatorInv'
  OBVIOUS
<1>. USE DEF clusterVars
<1>1. ASSUME NEW n \in Names, CreateCR(n) PROVE OperatorInv'
  <2>. DEFINE new == [uid |-> uids + 1, phase |-> "Empty", fin |-> FALSE, deleting |-> FALSE]
  <2>0. uids \in Nat
    BY DEF TypeOK
  <2>1. /\ new \in CRs /\ new # None
        /\ new.uid = uids + 1 /\ new.phase = "Empty" /\ ~new.fin
    <3>1. new \in CRs
      BY <2>0 DEF CRs, Phases
    <3>2. new # None
      BY <3>1, NoneIsApart
    <3>. QED
      BY <3>1, <3>2
  <2>2. /\ uids' = uids + 1 /\ crs' = [crs EXCEPT ![n] = new] /\ crs[n] = None
        /\ UNCHANGED <<config, cached, res, job, misread>>
    BY <1>1 DEF CreateCR
  <2>. HIDE DEF new
  <2>3. crs'[n] = new /\ \A m \in Names : m # n => crs'[m] = crs[m]
    BY <2>2 DEF TypeOK
  <2>4. /\ \A m \in Names : crs[m] # None => crs[m].uid \in Nat
        /\ config # None => config.uid \in Nat
        /\ cached # None => cached.uid \in Nat
        /\ job # None => job.cr.uid \in Nat
    BY JobTyped DEF TypeOK, CRs, Claims
  <2>5. \A u \in Nat : u <= uids => (Exists(u)' <=> Exists(u))
    BY <2>0, <2>1, <2>2, <2>3 DEF Exists
  <2>6. KnownUIDs'
    <3>1. \A m \in Names : m # n /\ crs[m] # None => crs[m].uid # new.uid
      BY <2>0, <2>1, <2>4 DEF OperatorInv, KnownUIDs
    <3>2. \A m \in Names : crs'[m] # None => crs'[m].uid <= uids'
      BY <2>0, <2>1, <2>2, <2>3, <2>4 DEF OperatorInv, KnownUIDs
    <3>3. /\ config # None => config.uid <= uids'
          /\ cached # None => cached.uid <= uids'
          /\ job # None => job.cr.uid <= uids' /\ job.cr.uid # new.uid
      BY <2>0, <2>1, <2>2, <2>4 DEF OperatorInv, KnownUIDs
    <3>. QED
      BY <2>2, <2>3, <3>1, <3>2, <3>3 DEF OperatorInv, KnownUIDs
  <2>7. ReadsHold'
    <3>1. job # None => job.cr.uid # new.uid
      BY <2>0, <2>1, <2>4 DEF OperatorInv, KnownUIDs
    <3>. QED
      BY <2>1, <2>2, <2>3, <3>1 DEF OperatorInv, ReadsHold
  <2>8. CacheFollows'
    BY <2>2, <2>4, <2>5 DEF OperatorInv, KnownUIDs, CacheFollows
  <2>9. WritersHold'
    BY <2>2, <2>4, <2>5 DEF OperatorInv, KnownUIDs, WritersHold
  <2>10. OwnersHold' /\ NoMixing'
    BY <2>1, <2>2, <2>3 DEF OperatorInv, OwnersHold, NoMixing
  <2>. QED
    BY <2>6, <2>7, <2>8, <2>9, <2>10 DEF OperatorInv
<1>2. ASSUME NEW n \in Names, DeleteCR(n) PROVE OperatorInv'
  <2>1. crs[n] \in CRs /\ crs[n] # None /\ UNCHANGED <<cached, job, misread>> /\ Steady
    BY <1>2 DEF DeleteCR, TypeOK, Steady
  <2>2. CASE ~crs[n].fin
    BY <1>2, <2>1, <2>2, RemovalKeeps DEF DeleteCR
  <2>3. CASE crs[n].fin
    <3>. DEFINE new == [crs[n] EXCEPT !.deleting = TRUE]
    <3>1. /\ new \in CRs /\ new # None
          /\ new.uid = crs[n].uid /\ new.phase = crs[n].phase /\ new.fin = crs[n].fin
      BY <2>1, <2>3, EditsTyped, NoneIsApart
    <3>2. crs' = [crs EXCEPT ![n] = new]
      BY <1>2, <2>3 DEF DeleteCR
    <3>. HIDE DEF new
    <3>3. crs'[n] = new /\ \A m \in Names : m # n => crs'[m] = crs[m]
      BY <3>2 DEF TypeOK
    <3>4. \A m \in Names : /\ crs'[m] # None <=> crs[m] # None
                           /\ crs[m] # None => /\ crs'[m].uid = crs[m].uid
                                               /\ crs'[m].phase = crs[m].phase
                                               /\ crs'[m].fin = crs[m].fin
      BY <2>1, <2>3, <3>1, <3>3
    <3>5. \A u : Exists(u)' <=> Exists(u)
      BY <3>4 DEF Exists
    <3>6. KnownUIDs'
      BY <2>1, <3>4 DEF OperatorInv, KnownUIDs, Steady
    <3>7. ReadsHold'
      BY <2>1, <2>3, <3>3, <3>4, JobTyped DEF OperatorInv, ReadsHold
    <3>8. CacheFollows' /\ WritersHold'
      BY <2>1, <3>5 DEF OperatorInv, CacheFollows, WritersHold, Steady
    <3>9. OwnersHold' /\ NoMixing'
      BY <2>1, <3>4 DEF OperatorInv, OwnersHold, NoMixing, Steady
    <3>. QED
      BY <3>6, <3>7, <3>8, <3>9 DEF OperatorInv
  <2>. QED
    BY <2>2, <2>3
<1>3. ASSUME NEW g \in Groups, GarbageCollect(g) PROVE OperatorInv'
  <2>1. UNCHANGED <<crs, uids, config, cached, job, misread>>
    BY <1>3 DEF GarbageCollect
  <2>2. \A h \in Groups : res'[h] \in {0, res[h]}
    BY <1>3 DEF GarbageCollect, TypeOK
  <2>3. NoMixing'
    BY <2>1, <2>2 DEF OperatorInv, NoMixing, Unowned
  <2>. QED
    BY <2>1, <2>3 DEF OperatorInv, KnownUIDs, ReadsHold, CacheFollows, WritersHold, OwnersHold, Exists
<1>4. CASE CollectConfig
  <2>1. /\ config # None /\ ~Exists(config.uid) /\ config' = None
        /\ UNCHANGED <<crs, uids, cached, job, res, misread>>
    BY <1>4 DEF CollectConfig
  <2>2. \A u : Exists(u)' <=> Exists(u)
    BY <2>1 DEF Exists
  <2>3. KnownUIDs' /\ ReadsHold'
    BY <2>1 DEF OperatorInv, KnownUIDs, ReadsHold
  <2>4. CacheFollows'
    BY <2>1, <2>2 DEF OperatorInv, CacheFollows
  <2>5. WritersHold'
    BY <2>1, <2>2 DEF OperatorInv, WritersHold
  <2>6. OwnersHold' /\ NoMixing'
    BY <2>1 DEF OperatorInv, OwnersHold, NoMixing, Exists
  <2>. QED
    BY <2>3, <2>4, <2>5, <2>6 DEF OperatorInv
<1>5. CASE SyncCache \/ SyncCRs
  BY <1>5 DEF SyncCache, SyncCRs, OperatorInv, KnownUIDs, ReadsHold, CacheFollows, WritersHold, OwnersHold,
              NoMixing, Exists
<1>6. ASSUME NEW d \in Deployments, BecomeReady(d) \/ Evict(d) PROVE OperatorInv'
  BY <1>6 DEF BecomeReady, Evict, OperatorInv, KnownUIDs, ReadsHold, CacheFollows, WritersHold,
              OwnersHold, NoMixing, Exists
<1>7. CASE OperatorCrash
  BY <1>7, CrashKeeps DEF OperatorCrash, Steady
<1>8. ASSUME NEW n \in Names, BeginPanics(n) PROVE OperatorInv'
  BY <1>8, CrashKeeps DEF BeginPanics, Panic, Steady
<1>9. ASSUME NEW n \in Names, Begin(n) PROVE OperatorInv'
  <2>1. UNCHANGED <<crs, uids, config, cached, res>> /\ job = None
        /\ misread' = (misread /\ cached # config)
    BY <1>9 DEF Begin
  <2>2. CASE job' = job
    <3>1. Shown(misread')
      BY <2>1 DEF OperatorInv, CacheFollows, Shown
    <3>. QED
      BY <2>1, <2>2, <3>1, EndKeeps DEF Steady
  <2>3. CASE crs[n] # None /\ job' # job
    <3>1. job'.n = n /\ job'.cr = crs[n] /\ job'.pc \in {"delete", "check"}
      BY <1>9, <2>3 DEF Begin
    <3>2. \A u : Exists(u)' <=> Exists(u)
      BY <2>1 DEF Exists
    <3>3. KnownUIDs'
      BY <2>1, <2>3, <3>1 DEF OperatorInv, KnownUIDs
    <3>4. ReadsHold'
      BY <2>1, <2>3, <3>1 DEF OperatorInv, ReadsHold
    <3>5. Exists(job'.cr.uid)
      BY <2>3, <3>1 DEF Exists
    <3>7. CacheFollows' /\ WritersHold'
      BY <2>1, <3>1, <3>2, <3>5 DEF OperatorInv, CacheFollows, WritersHold
    <3>6. OwnersHold' /\ NoMixing'
      BY <2>1 DEF OperatorInv, OwnersHold, NoMixing
    <3>. QED
      BY <3>3, <3>4, <3>6, <3>7 DEF OperatorInv
  <2>. QED
    BY <1>9, <2>2, <2>3 DEF Begin
<1>10. CASE ReconcileDelete
  <2>1. job # None /\ job.pc = "delete" /\ Steady
    BY <1>10 DEF ReconcileDelete, At, Steady
  <2>2. CASE Crash /\ UNCHANGED crs
    BY <2>1, <2>2, CrashKeeps
  <2>3. CASE job' = None /\ UNCHANGED <<crs, cached, misread>>
    BY <2>1, <2>3, EndKeeps, ClaimShows
  <2>4. CASE crs' = [crs EXCEPT ![job.n] = None] /\ job' = None /\ UNCHANGED <<cached, misread>>
    BY <2>1, <2>4, RemovalKeeps, ClaimShows, JobTyped
  <2>. QED
    BY <1>10, <2>2, <2>3, <2>4 DEF ReconcileDelete, Done
<1>11. CASE IllegalPhase
  <2>. DEFINE new == [job.cr EXCEPT !.phase = "Error"]
  <2>1. /\ job # None /\ job.pc = "create" /\ job' = None
        /\ UNCHANGED <<cached, misread>> /\ Steady
        /\ \/ crs[job.n] = job.cr /\ crs' = [crs EXCEPT ![job.n] = new]
           \/ crs' = crs
    BY <1>11 DEF IllegalPhase, At, Steady, WriteCR, Requeue
  <2>2. job.cr \in CRs /\ job.n \in Names
    BY <2>1, JobTyped
  <2>3. new \in CRs /\ new.uid = job.cr.uid /\ new.phase = "Error"
    BY <2>2, EditsTyped DEF Phases
  <2>4. CASE crs' = crs
    BY <2>1, <2>4, EndKeeps, ClaimShows
  <2>5. CASE crs[job.n] = job.cr /\ crs' = [crs EXCEPT ![job.n] = new]
    <3>. HIDE DEF new
    <3>. QED
      BY <2>1, <2>2, <2>3, <2>5, WriteKeeps, ClaimShows
  <2>. QED
    BY <2>1, <2>4, <2>5
<1>12. CASE PreCreate
  <2>1. job # None /\ job \in Jobs /\ job.pc = "create" /\ job.cr.phase = "Empty"
        /\ job.n \in Names /\ job.cr \in CRs
    BY <1>12, JobTyped DEF PreCreate, At
  <2>2. CASE Crash /\ UNCHANGED config
    BY <1>12, <2>2, CrashKeeps DEF PreCreate, Steady
  <2>3. CASE Requeue /\ UNCHANGED <<config, cached, misread>>
    BY <1>12, <2>1, <2>3, EndKeeps, ClaimShows DEF PreCreate, Steady, Requeue
  <2>4. CASE /\ Orphans = {} /\ config = None /\ Goto("init") /\ UNCHANGED <<cached, misread>>
             /\ config' = [name |-> job.n, uid |-> job.cr.uid]
    <3>1. UNCHANGED <<crs, uids, res>>
      BY <1>12 DEF PreCreate
    <3>2. job' \in Jobs /\ job' # None /\ job'.n = job.n /\ job'.cr = job.cr /\ job'.pc = "init"
      BY <2>1, <2>4, JobGoes, StepNames, NoneIsApart DEF Goto
    <3>3. config' \in Claims /\ config' # None /\ config'.uid = job.cr.uid
      BY <2>1, <2>4, NoneIsApart DEF Claims, CRs
    <3>4. \A g \in Groups : res[g] = 0
      BY <2>4 DEF Orphans
    <3>5. \A u : Exists(u)' <=> Exists(u)
      BY <3>1 DEF Exists
    <3>6. KnownUIDs'
      BY <2>1, <2>4, <3>1, <3>2, <3>3 DEF OperatorInv, KnownUIDs
    <3>7. ReadsHold'
      BY <2>1, <3>1, <3>2 DEF OperatorInv, ReadsHold
    <3>8. CacheFollows'
      BY <2>1, <2>4, <3>2, <3>3, <3>5 DEF OperatorInv, CacheFollows
    <3>9. WritersHold'
      BY <3>2, <3>3, <3>5 DEF WritersHold
    <3>10. OwnersHold'
      BY <2>4, <3>1 DEF OperatorInv, OwnersHold
    <3>11. NoMixing'
      BY <3>1, <3>4 DEF NoMixing
    <3>. QED
      BY <3>6, <3>7, <3>8, <3>9, <3>10, <3>11 DEF OperatorInv
  <2>. QED
    BY <1>12, <2>2, <2>3, <2>4 DEF PreCreate
<1>13. CASE CrInitStatus
  <2>. DEFINE new == [job.cr EXCEPT !.phase = "Deploying"]
  <2>1. job # None /\ job \in Jobs /\ job.pc = "init" /\ job.cr \in CRs /\ job.n \in Names
    BY <1>13, JobTyped DEF CrInitStatus, At
  <2>2. new \in CRs /\ new.uid = job.cr.uid /\ new.phase = "Deploying" /\ new.fin = job.cr.fin
    BY <2>1, EditsTyped DEF Phases
  <2>3. /\ WriteCR(new, job' = [job EXCEPT !.cr = new, !.pc = "finalizer"] /\ UNCHANGED queue)
        /\ UNCHANGED <<cached, misread>> /\ Steady
    BY <1>13 DEF CrInitStatus, Steady
  <2>. HIDE DEF new
  <2>4. CASE crs[job.n] # job.cr
    <3>1. ~Exists(job.cr.uid)
      BY <2>1, <2>4, ConflictMeansGone
    <3>2. config # None => config.uid = job.cr.uid
      BY <2>1 DEF OperatorInv, WritersHold
    <3>. QED
      BY <2>3, <2>4, <3>1, <3>2, EndKeeps DEF WriteCR, Requeue, Shown
  <2>5. CASE crs[job.n] = job.cr
    <3>1. Exists(job.cr.uid)
      BY <2>1, <2>5, NoneIsApart DEF Exists
    <3>2. config # None /\ config.uid = job.cr.uid /\ ~job.cr.fin
      BY <2>1, <3>1 DEF OperatorInv, WritersHold, ReadsHold
    <3>4. job' = [job EXCEPT !.cr = new, !.pc = "finalizer"]
      BY <2>3, <2>5 DEF WriteCR
    <3>3. job' \in Jobs /\ job'.n = job.n /\ job'.cr = new /\ job'.pc = "finalizer"
      <4>1. [job EXCEPT !.cr = new, !.pc = "finalizer"] \in Jobs
        BY <2>1, <2>2, JobWrites, StepNames
      <4>2. job'.n = job.n /\ job'.cr = new /\ job'.pc = "finalizer"
        BY <2>1, <3>4 DEF Jobs
      <4>. QED
        BY <3>4, <4>1, <4>2
    <3>. QED
      BY <2>1, <2>2, <2>3, <2>5, <3>2, <3>3, WriteKeeps DEF WriteCR
  <2>. QED
    BY <2>4, <2>5
<1>14. CASE CrInitFinalizer
  <2>. DEFINE new == [job.cr EXCEPT !.fin = TRUE]
  <2>1. job # None /\ job \in Jobs /\ job.pc = "finalizer" /\ job.cr \in CRs /\ job.n \in Names
    BY <1>14, JobTyped DEF CrInitFinalizer, At
  <2>2. new \in CRs /\ new.uid = job.cr.uid /\ new.phase = job.cr.phase
    BY <2>1, EditsTyped
  <2>3. /\ WriteCR(new, job' = [job EXCEPT !.cr = new, !.pc = "sanity"] /\ UNCHANGED queue)
        /\ UNCHANGED <<cached, misread>> /\ Steady
    BY <1>14 DEF CrInitFinalizer, Steady
  <2>. HIDE DEF new
  <2>4. CASE crs[job.n] # job.cr
    <3>1. ~Exists(job.cr.uid)
      BY <2>1, <2>4, ConflictMeansGone
    <3>2. config # None => config.uid = job.cr.uid
      BY <2>1 DEF OperatorInv, WritersHold
    <3>. QED
      BY <2>3, <2>4, <3>1, <3>2, EndKeeps DEF WriteCR, Requeue, Shown
  <2>5. CASE crs[job.n] = job.cr
    <3>1. Exists(job.cr.uid)
      BY <2>1, <2>5, NoneIsApart DEF Exists
    <3>2. config # None /\ config.uid = job.cr.uid /\ job.cr.phase # "Empty"
      BY <2>1, <3>1 DEF OperatorInv, WritersHold, ReadsHold
    <3>4. job' = [job EXCEPT !.cr = new, !.pc = "sanity"]
      BY <2>3, <2>5 DEF WriteCR
    <3>3. job' \in Jobs /\ job'.n = job.n /\ job'.cr = new /\ job'.pc = "sanity"
      <4>1. [job EXCEPT !.cr = new, !.pc = "sanity"] \in Jobs
        BY <2>1, <2>2, JobWrites, StepNames
      <4>2. job'.n = job.n /\ job'.cr = new /\ job'.pc = "sanity"
        BY <2>1, <3>4 DEF Jobs
      <4>. QED
        BY <3>4, <4>1, <4>2
    <3>. QED
      BY <2>1, <2>2, <2>3, <2>5, <3>2, <3>3, WriteKeeps DEF WriteCR
  <2>. QED
    BY <2>4, <2>5
<1>15. CASE SkipCreate
  <2>1. /\ job # None /\ job.pc = "check" /\ cached # None
        /\ UNCHANGED <<crs, cached, uids, config, res, misread>>
        /\ job' \in Jobs /\ job'.n = job.n /\ job'.cr = job.cr /\ job'.pc = "sanity"
    BY <1>15, JobTyped, JobGoes, StepNames DEF SkipCreate, At, Goto
  <2>. QED
    BY <2>1, MoveKeeps DEF OperatorInv, NoMixing
<1>16. CASE CheckSanity
  <2>1. job # None /\ job \in Jobs /\ job.pc = "sanity" /\ Steady /\ UNCHANGED crs
    BY <1>16, JobTyped DEF CheckSanity, At, Steady
  <2>2. CASE Crash
    BY <2>1, <2>2, CrashKeeps
  <2>3. CASE cached # None /\ UNCHANGED <<cached, misread>> /\ cached.uid = job.cr.uid /\ Goto("update")
    <3>1. job' \in Jobs /\ job'.n = job.n /\ job'.cr = job.cr /\ job'.pc = "update"
      BY <2>1, <2>3, JobGoes, StepNames DEF Goto
    <3>. QED
      BY <2>1, <2>3, <3>1, MoveKeeps DEF OperatorInv, NoMixing, Steady
  <2>4. CASE cached # None /\ UNCHANGED <<cached, misread>> /\ Goto("unwanted")
    <3>1. job' \in Jobs /\ job'.n = job.n /\ job'.cr = job.cr /\ job'.pc = "unwanted"
      BY <2>1, <2>4, JobGoes, StepNames DEF Goto
    <3>. QED
      BY <2>1, <2>4, <3>1, MoveKeeps DEF OperatorInv, NoMixing, Steady
  <2>5. CASE UNCHANGED cached /\ Requeue /\ (cached # None \/ misread' = TRUE)
    BY <2>1, <2>5, EndKeeps DEF Requeue, Shown
  <2>. QED
    BY <1>16, <2>2, <2>3, <2>4, <2>5 DEF CheckSanity
<1>17. CASE GetAllResources
  <2>. DEFINE new == [job.cr EXCEPT !.phase = IF @ = "Empty" THEN "Upgrading" ELSE @]
              plan == [on |-> IncludeHooks, ca |-> IncludeHooks /\ filled]
  <2>1. job # None /\ job \in Jobs /\ job.pc = "update" /\ job.cr \in CRs /\ job.n \in Names /\ Steady
    BY <1>17, JobTyped DEF GetAllResources, At, Steady
  <2>2. /\ new \in CRs /\ new.uid = job.cr.uid /\ new.phase # "Empty"
        /\ plan \in Switches
    <3>1. new \in CRs /\ new.uid = job.cr.uid /\ new.phase # "Empty"
      BY <2>1 DEF CRs, Phases
    <3>2. plan \in Switches
      BY DEF Switches, IncludeHooks, TypeOK
    <3>. QED
      BY <3>1, <3>2
  <2>3. \/ Crash /\ UNCHANGED crs
        \/ /\ WriteCR(new, /\ job' = [job EXCEPT !.cr = new, !.pc = "apply", !.todo = Groups, !.plan = plan]
                           /\ UNCHANGED queue)
           /\ UNCHANGED <<cached, misread>>
    BY <1>17 DEF GetAllResources
  <2>. HIDE DEF new, plan
  <2>4. CASE Crash /\ UNCHANGED crs
    BY <2>1, <2>4, CrashKeeps
  <2>5. CASE crs[job.n] # job.cr /\ crs' = crs /\ Requeue /\ UNCHANGED <<cached, misread>>
    BY <2>1, <2>5, EndKeeps, ClaimShows DEF Requeue
  <2>6. CASE /\ crs[job.n] = job.cr /\ crs' = [crs EXCEPT ![job.n] = new] /\ UNCHANGED <<cached, misread>>
             /\ job' = [job EXCEPT !.cr = new, !.pc = "apply", !.todo = Groups, !.plan = plan]
    <3>1. Exists(job.cr.uid)
      BY <2>1, <2>6, NoneIsApart DEF Exists
    <3>2. config # None /\ config.uid = job.cr.uid
      BY <2>1, <3>1 DEF OperatorInv, WritersHold
    <3>3. job' \in Jobs /\ job'.n = job.n /\ job'.cr = new /\ job'.pc = "apply"
      <4>1. Groups \in SUBSET Groups
        OBVIOUS
      <4>2. job' = [job EXCEPT !.cr = new, !.pc = "apply", !.todo = Groups, !.plan = plan]
        BY <2>6
      <4>3. [job EXCEPT !.cr = new, !.pc = "apply", !.todo = Groups, !.plan = plan] \in Jobs
        BY <2>1, <2>2, <4>1, JobPlans, StepNames
      <4>4. job'.n = job.n /\ job'.cr = new /\ job'.pc = "apply"
        BY <2>1, <4>2 DEF Jobs
      <4>. QED
        BY <4>2, <4>3, <4>4
    <3>. QED
      BY <2>1, <2>2, <2>6, <3>2, <3>3, WriteKeeps
  <2>. QED
    BY <2>3, <2>4, <2>5, <2>6 DEF WriteCR
<1>18. ASSUME NEW g \in Groups, Apply(g) PROVE OperatorInv'
  <2>1. /\ job # None /\ job \in Jobs /\ job.pc = "apply" /\ job.todo \in SUBSET Groups
        /\ UNCHANGED <<crs, cached, uids, config, misread>>
    BY <1>18, JobTyped DEF Apply, At, Jobs
  <2>2. job' \in Jobs /\ job'.n = job.n /\ job'.cr = job.cr /\ job'.pc = job.pc
    <3>1. job.todo \ {g} \in SUBSET Groups
      BY <2>1
    <3>2. \/ job' = [job EXCEPT !.todo = job.todo \ {g}]
          \/ job' = [job EXCEPT !.todo = job.todo \ {g}, !.failed = TRUE]
      BY <1>18 DEF Apply
    <3>3. /\ [job EXCEPT !.todo = job.todo \ {g}] \in Jobs
          /\ [job EXCEPT !.todo = job.todo \ {g}, !.failed = TRUE] \in Jobs
      BY <2>1, <3>1, JobApplies
    <3>4. job'.n = job.n /\ job'.cr = job.cr /\ job'.pc = job.pc
      BY <2>1, <3>2 DEF Jobs
    <3>. QED
      BY <3>2, <3>3, <3>4
  <2>3. config # None => config.uid = job.cr.uid
    BY <2>1 DEF OperatorInv, WritersHold
  <2>4. \A h \in Groups : config # None => res'[h] \in {0, config.uid, Unowned}
    <3>1. \A h \in Groups : res'[h] = res[h] \/ res'[h] = job.cr.uid
      BY <1>18 DEF Apply, TypeOK
    <3>. QED
      BY <2>3, <3>1 DEF OperatorInv, NoMixing
  <2>. QED
    BY <2>1, <2>2, <2>4, MoveKeeps
<1>19. CASE SyncPerishables
  <2>1. /\ job # None /\ job.pc = "apply" /\ UNCHANGED <<crs, cached, uids, config, misread>>
        /\ job' \in Jobs /\ job'.n = job.n /\ job'.cr = job.cr /\ job'.pc = "finish"
    BY <1>19, JobTyped, JobGoes, StepNames DEF SyncPerishables, At, Goto
  <2>2. \A h \in Groups : config # None => res'[h] \in {0, config.uid, Unowned}
    <3>1. \A h \in Groups : res'[h] = res[h] \/ res'[h] = Unowned
      BY <1>19 DEF SyncPerishables, TypeOK
    <3>. QED
      BY <3>1 DEF OperatorInv, NoMixing
  <2>. QED
    BY <2>1, <2>2, MoveKeeps
<1>20. CASE Finish
  <2>. DEFINE new == [job.cr EXCEPT !.phase = "Deployed"]
  <2>1. job # None /\ job.pc = "finish" /\ job.cr \in CRs /\ job.n \in Names /\ Steady
    BY <1>20, JobTyped DEF Finish, At, Steady
  <2>2. new \in CRs /\ new.uid = job.cr.uid /\ new.phase = "Deployed"
    BY <2>1, EditsTyped DEF Phases
  <2>3. \/ Crash /\ UNCHANGED crs
        \/ /\ UNCHANGED <<cached, misread>> /\ job' = None
           /\ \/ crs[job.n] = job.cr /\ crs' = [crs EXCEPT ![job.n] = new]
              \/ crs' = crs
    BY <1>20 DEF Finish, WriteCR, Requeue
  <2>. HIDE DEF new
  <2>4. CASE Crash /\ UNCHANGED crs
    BY <2>1, <2>4, CrashKeeps
  <2>5. CASE UNCHANGED <<cached, misread>> /\ job' = None /\ crs' = crs
    BY <2>1, <2>5, EndKeeps, ClaimShows
  <2>6. CASE /\ UNCHANGED <<cached, misread>> /\ job' = None
             /\ crs[job.n] = job.cr /\ crs' = [crs EXCEPT ![job.n] = new]
    <3>1. Exists(job.cr.uid)
      BY <2>1, <2>6, NoneIsApart DEF Exists
    <3>2. config # None /\ config.uid = job.cr.uid
      BY <2>1, <3>1 DEF OperatorInv, WritersHold
    <3>. QED
      BY <2>1, <2>2, <2>6, <3>2, WriteKeeps, ClaimShows
  <2>. QED
    BY <2>3, <2>4, <2>5, <2>6
<1>21. CASE IsCreating
  <2>1. /\ job # None /\ job.pc = "check" /\ UNCHANGED <<crs, cached, uids, config, res>>
        /\ job' \in Jobs /\ job'.n = job.n /\ job'.cr = job.cr /\ job'.pc = "create"
    BY <1>21, JobTyped, JobGoes, StepNames DEF IsCreating, At, Goto
  <2>2. (misread => misread') /\ (cached = None \/ misread')
    BY <1>21 DEF IsCreating
  <2>. QED
    BY <2>1, <2>2, MoveKeeps DEF OperatorInv, NoMixing
<1>22. CASE RejectCR
  <2>. DEFINE new == [job.cr EXCEPT !.phase = "Error"]
  <2>1. /\ job # None /\ job.pc = "unwanted" /\ job' = None
        /\ UNCHANGED <<cached, misread>> /\ Steady
        /\ \/ crs[job.n] = job.cr /\ crs' = [crs EXCEPT ![job.n] = new]
           \/ crs' = crs
    BY <1>22 DEF RejectCR, At, Steady, WriteCR, Requeue
  <2>2. job.cr \in CRs /\ job.n \in Names
    BY <2>1, JobTyped
  <2>3. new \in CRs /\ new.uid = job.cr.uid /\ new.phase = "Error"
    BY <2>2, EditsTyped DEF Phases
  <2>4. CASE crs' = crs
    BY <2>1, <2>4, EndKeeps, ClaimShows
  <2>5. CASE crs[job.n] = job.cr /\ crs' = [crs EXCEPT ![job.n] = new]
    <3>. HIDE DEF new
    <3>. QED
      BY <2>1, <2>2, <2>3, <2>5, WriteKeeps, ClaimShows
  <2>. QED
    BY <2>1, <2>4, <2>5
<1>23. CASE UNCHANGED vars
  BY <1>23 DEF vars, OperatorInv, KnownUIDs, ReadsHold, CacheFollows, WritersHold, OwnersHold,
               NoMixing, Exists
<1>. QED
  BY <1>1, <1>2, <1>3, <1>4, <1>5, <1>6, <1>7, <1>8, <1>9, <1>10, <1>11, <1>12, <1>13, <1>14,
     <1>15, <1>16, <1>17, <1>18, <1>19, <1>20, <1>21, <1>22, <1>23 DEF Next, Reconcile, Cluster

\* It holds at the start.
LEMMA InitHolds == Init => TypeOK /\ OperatorInv
<1>. SUFFICES ASSUME Init PROVE TypeOK /\ OperatorInv
  OBVIOUS
<1>1. TypeOK
  <2>1. budget \in Nat
    BY BoundAssumption DEF Init
  <2>. QED
    BY <2>1 DEF Init, TypeOK, HooksOff, Switches
<1>2. OperatorInv
  BY DEF Init, OperatorInv, KnownUIDs, ReadsHold, CacheFollows, WritersHold, OwnersHold, NoMixing, Exists
<1>. QED
  BY <1>1, <1>2

-----------------------------------------------------------------------------
(* Who is put into error.                                                  *)

\* A CR gets into error by the two writes that put it there.
LEMMA ErrorIsWritten ==
    ASSUME TypeOK, [Next]_vars, NEW n \in Names, EntersError(n)
    PROVE  (IllegalPhase \/ RejectCR) /\ n = job.n /\ crs[n] = job.cr
<1>. USE DEF clusterVars, EntersError
<1>0. crs[n] \in CRs
  BY DEF TypeOK
<1>1. ASSUME NEW m \in Names, CreateCR(m) PROVE FALSE
  BY <1>1 DEF CreateCR, TypeOK
<1>2. ASSUME NEW m \in Names, DeleteCR(m) PROVE FALSE
  BY <1>0, <1>2, EditsTyped DEF DeleteCR, TypeOK
<1>3. ASSUME crs' = crs PROVE FALSE
  BY <1>3
<1>4. CASE ReconcileDelete
  <2>1. job.n \in Names
    BY <1>4, JobTyped DEF ReconcileDelete, At
  <2>. QED
    BY <1>3, <1>4, <2>1 DEF ReconcileDelete, TypeOK
<1>5. CASE IllegalPhase
  <2>1. job # None /\ job.cr \in CRs
    BY <1>5, JobTyped DEF IllegalPhase, At
  <2>2. [job.cr EXCEPT !.phase = "Error"] \in CRs
    BY <2>1, EditsTyped DEF Phases
  <2>. QED
    BY <1>3, <1>5, <2>1, <2>2, JobTyped DEF IllegalPhase, WriteCR, TypeOK
<1>6. CASE RejectCR
  <2>1. job # None /\ job.cr \in CRs
    BY <1>6, JobTyped DEF RejectCR, At
  <2>2. [job.cr EXCEPT !.phase = "Error"] \in CRs
    BY <2>1, EditsTyped DEF Phases
  <2>. QED
    BY <1>3, <1>6, <2>1, <2>2, JobTyped DEF RejectCR, WriteCR, TypeOK
<1>7. CASE CrInitStatus \/ Finish
  <2>1. job # None /\ job.cr \in CRs
    BY <1>7, JobTyped DEF CrInitStatus, Finish, At
  <2>2. /\ [job.cr EXCEPT !.phase = "Deploying"].phase = "Deploying"
        /\ [job.cr EXCEPT !.phase = "Deployed"].phase = "Deployed"
    BY <2>1, EditsTyped DEF Phases
  <2>. QED
    BY <1>3, <1>7, <2>1, <2>2, JobTyped DEF CrInitStatus, Finish, WriteCR, TypeOK
<1>8. CASE CrInitFinalizer
  <2>1. job # None /\ job.cr \in CRs
    BY <1>8, JobTyped DEF CrInitFinalizer, At
  <2>2. [job.cr EXCEPT !.fin = TRUE].phase = job.cr.phase
    BY <2>1, EditsTyped
  <2>. QED
    BY <1>3, <1>8, <2>1, <2>2, JobTyped DEF CrInitFinalizer, WriteCR, TypeOK
<1>9. CASE GetAllResources
  <2>. DEFINE new == [job.cr EXCEPT !.phase = IF @ = "Empty" THEN "Upgrading" ELSE @]
  <2>1. job # None /\ job.cr \in CRs
    BY <1>9, JobTyped DEF GetAllResources, At
  <2>2. new.phase = "Error" => job.cr.phase = "Error"
    BY <2>1 DEF CRs
  <2>3. crs' = crs \/ (crs[job.n] = job.cr /\ crs' = [crs EXCEPT ![job.n] = new])
    BY <1>9 DEF GetAllResources, WriteCR
  <2>. HIDE DEF new
  <2>. QED
    BY <1>3, <2>1, <2>2, <2>3, JobTyped DEF TypeOK
<1>10. ASSUME NEW m \in Names, Begin(m) \/ BeginPanics(m) PROVE FALSE
  BY <1>3, <1>10 DEF Begin, BeginPanics, Panic
<1>11. ASSUME NEW g \in Groups, GarbageCollect(g) \/ Apply(g) PROVE FALSE
  BY <1>3, <1>11 DEF GarbageCollect, Apply
<1>12. ASSUME NEW d \in Deployments, BecomeReady(d) \/ Evict(d) PROVE FALSE
  BY <1>3, <1>12 DEF BecomeReady, Evict
<1>13. ASSUME \/ CollectConfig \/ SyncCache \/ SyncCRs \/ OperatorCrash \/ IsCreating \/ PreCreate
              \/ SkipCreate \/ CheckSanity \/ SyncPerishables \/ UNCHANGED vars
       PROVE  FALSE
  BY <1>3, <1>13 DEF CollectConfig, SyncCache, SyncCRs, OperatorCrash, IsCreating, PreCreate, SkipCreate,
                     CheckSanity, SyncPerishables, vars
<1>. QED
  BY <1>1, <1>2, <1>4, <1>5, <1>6, <1>7, <1>8, <1>9, <1>10, <1>11, <1>12, <1>13
     DEF Next, Reconcile, Cluster

\* A CR that got on is put into error for want of the config map only after a
\* read has failed.
LEMMA IllegalMeansMisread ==
    ASSUME TypeOK, OperatorInv, [Next]_vars, NEW n \in Names, EntersError(n)
    PROVE  misread \/ At("unwanted")
<1>1. (IllegalPhase \/ RejectCR) /\ n = job.n /\ crs[n] = job.cr
  BY ErrorIsWritten
<1>2. CASE IllegalPhase
  <2>1. job # None /\ job.pc = "create" /\ crs[n] # None /\ crs[n].phase \notin {"Empty", "Error"}
    BY <1>1, <1>2 DEF IllegalPhase, At, EntersError
  <2>2. config # None /\ config.uid = crs[n].uid
    BY <2>1 DEF OperatorInv, OwnersHold
  <2>3. Exists(job.cr.uid)
    BY <1>1, <2>1 DEF Exists
  <2>. QED
    BY <1>1, <2>1, <2>2, <2>3 DEF OperatorInv, CacheFollows
<1>3. CASE RejectCR
  BY <1>3 DEF RejectCR
<1>. QED
  BY <1>1, <1>2, <1>3

\* Only checkSanity turns a CR away.
LEMMA TurnedAway ==
    ASSUME TypeOK, [Next]_vars, At("sanity"), At("unwanted")'
    PROVE  CheckSanity
<1>. USE DEF clusterVars, At
<1>1. job \in Jobs /\ job # None /\ job.pc = "sanity"
  BY JobTyped
<1>2. ASSUME job' = job \/ job' = None PROVE FALSE
  BY <1>1, <1>2
<1>3. ASSUME NEW n \in Names, CreateCR(n) \/ DeleteCR(n) \/ Begin(n) \/ BeginPanics(n) PROVE FALSE
  BY <1>1, <1>2, <1>3 DEF CreateCR, DeleteCR, Begin, BeginPanics
<1>4. ASSUME NEW g \in Groups, GarbageCollect(g) \/ Apply(g) PROVE FALSE
  BY <1>1, <1>2, <1>4 DEF GarbageCollect, Apply
<1>5. ASSUME NEW d \in Deployments, BecomeReady(d) \/ Evict(d) PROVE FALSE
  BY <1>2, <1>5 DEF BecomeReady, Evict
<1>6. ASSUME CollectConfig \/ SyncCache \/ SyncCRs \/ OperatorCrash \/ UNCHANGED vars PROVE FALSE
  BY <1>2, <1>6 DEF CollectConfig, SyncCache, SyncCRs, OperatorCrash, Crash, vars
<1>7. ASSUME \/ ReconcileDelete \/ IsCreating \/ IllegalPhase \/ PreCreate \/ CrInitStatus
             \/ CrInitFinalizer \/ SkipCreate \/ RejectCR \/ GetAllResources \/ SyncPerishables
             \/ Finish
      PROVE  FALSE
  BY <1>1, <1>7 DEF ReconcileDelete, IsCreating, IllegalPhase, PreCreate, CrInitStatus, CrInitFinalizer,
                    SkipCreate, RejectCR, GetAllResources, SyncPerishables, Finish
<1>. QED
  BY <1>3, <1>4, <1>5, <1>6, <1>7 DEF Next, Reconcile, Cluster

\* With up-to-date CRs in the cache, a CR is turned away because of another
\* that lives and holds the cluster.
LEMMA TurnedAwayForAnother ==
    ASSUME TypeOK, OperatorInv, [Next]_vars, At("sanity"), At("unwanted")', seen = Listed
    PROVE  config # None /\ config.uid # job.cr.uid /\ Exists(config.uid)
<1>1. cached # None /\ cached.uid # job.cr.uid /\ ~ConfigMapOwnerDeleted(cached)
  <2>1. CheckSanity
    BY TurnedAway
  <2>2. job \in Jobs /\ job # None /\ job' # None /\ job'.pc = "unwanted"
    BY JobTyped DEF At
  <2>3. \/ /\ cached # None
           /\ IF cached.uid = job.cr.uid
              THEN Goto("update") /\ UNCHANGED queue
              ELSE IF ConfigMapOwnerDeleted(cached) THEN Requeue
              ELSE Goto("unwanted") /\ UNCHANGED queue
        \/ job' = None
    BY <2>1 DEF CheckSanity, Crash, Requeue
  <2>4. ~Requeue /\ ~Goto("update")
    BY <2>2 DEF Requeue, Goto, Jobs
  <2>. QED
    BY <2>2, <2>3, <2>4
<1>2. cached \in Claims /\ cached.name \in Names
  BY <1>1 DEF TypeOK, Claims
<1>3. seen[cached.name] = Owner(cached.name)
  BY <1>2 DEF Listed
<1>4. seen[cached.name] # None /\ seen[cached.name].uid = cached.uid
  BY <1>1 DEF ConfigMapOwnerDeleted
<1>5. crs[cached.name] # None /\ crs[cached.name].uid = cached.uid
  BY <1>3, <1>4 DEF Owner
<1>6. Exists(cached.uid)
  BY <1>2, <1>5 DEF Exists
<1>7. config = cached
  BY <1>1, <1>6 DEF OperatorInv, CacheFollows
<1>. QED
  BY <1>1, <1>6, <1>7

-----------------------------------------------------------------------------
\* The reconcile loop is type correct.
THEOREM TypeCorrect == Spec => []TypeOK
<1>1. Init => TypeOK
  BY InitHolds
<1>. QED
  BY <1>1, TypeStep, PTL DEF Spec

\* The invariant holds throughout.
THEOREM Invariance == Spec => []OperatorInv
<1>1. Init => TypeOK /\ OperatorInv
  BY InitHolds
<1>2. TypeOK /\ OperatorInv /\ [Next]_vars => TypeOK' /\ OperatorInv'
  BY TypeStep, OperatorStep
<1>. QED
  BY <1>1, <1>2, PTL DEF Spec

\* Installations do not mix, for any number of CRs, names, crashes and failed
\* writes.
THEOREM NoMixingHolds == Spec => []NoMixing
<1>1. OperatorInv => NoMixing
  BY DEF OperatorInv
<1>. QED
  BY <1>1, Invariance, PTL

\* For any number of CRs, names, crashes, failed writes and reads, and caches
\* that lag: a CR that got on is not put into error for want of the config map
\* unless a read of it failed, and when the cached CRs have followed a CR is
\* turned away only because of another that lives and holds the cluster.
THEOREM OnlyUnwantedFailHolds == Spec => OnlyUnwantedFail
<1>1. TypeOK /\ OperatorInv /\ [Next]_vars =>
        [/\ \A n \in Names : EntersError(n) => misread \/ At("unwanted")
         /\ At("sanity") /\ At("unwanted")' /\ seen = Listed
               => config # None /\ config.uid # job.cr.uid /\ Exists(config.uid)]_vars
  BY IllegalMeansMisread, TurnedAwayForAnother
<1>. QED
  BY <1>1, TypeCorrect, Invariance, PTL DEF Spec, OnlyUnwantedFail
=============================================================================
