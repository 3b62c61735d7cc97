------------------------- MODULE OperatorLifecycle -------------------------
(***************************************************************************)
(* The operator: from a MaroonedPods custom resource (CR) to the installed *)
(* server, controller, shim, webhooks and certificates, and back.          *)
(*                                                                         *)
(* The operator claims a cluster by a config map owned by the CR, refuses  *)
(* a second CR, waits for what an earlier CR has left, applies the         *)
(* resources one by one, and keeps the webhooks switched on only while     *)
(* server and controller are ready, since Pods are not admitted (the       *)
(* server's own included) when the webhooks are on and do not answer.      *)
(*                                                                         *)
(* The loop is the lifecycle SDK's, with the hooks of this operator.  The  *)
(* config map and its owner are read from caches that lag, each by itself, *)
(* and a read may fail; everything of a CR is garbage-collected after it,  *)
(* and nothing else removes the config map; the operator may crash between *)
(* any two steps, and does where its code panics.                          *)
(***************************************************************************)
EXTENDS Naturals, FiniteSets, OperatorRbac

CONSTANTS
    Names,         \* names of CRs
    MaxCRs,        \* bound: CRs created
    MaxFaults,     \* bound: crashes, failing writes and reads, lost Pods
    FailingGroups, \* the groups whose creation may fail
    None

ASSUME BoundAssumption == MaxCRs \in Nat /\ MaxFaults \in Nat

\* What the factories build; the shim's resources are cluster-wide and static.
Groups == {"static", "server", "controller", "hooks", "certs"}
Deployments == {"server", "controller"}

\* "Empty" is the phase of a CR without a status.
Phases == {"Empty", "Deploying", "Upgrading", "Deployed", "Error"}
PCs == {"delete", "check", "create", "init", "finalizer", "sanity", "unwanted", "update", "apply", "finish"}

CRs == [uid: Nat, phase: Phases, fin: BOOLEAN, deleting: BOOLEAN]
Claims == [name: Names, uid: Nat]
Owners == [uid: Nat, deleting: BOOLEAN]
Switches == [on: BOOLEAN, ca: BOOLEAN]
Jobs == [n: Names, cr: CRs, pc: PCs, todo: SUBSET Groups, plan: Switches, failed: BOOLEAN]

ASSUME NoneAssumption == None \notin CRs \cup Claims \cup Owners \cup Jobs

VARIABLES
    crs,      \* the CR of each name: [uid, phase, fin, deleting]
    uids,     \* CRs created so far; uids are numbered from 1
    config,   \* the config map maroonedpods-config: [name, uid] of its owner
    cached,   \* the operator's cached copy of it
    seen,     \* what its cached CRs say of the one of each name: [uid, deleting]
    res,      \* the owner's uid of each group of resources, 0 when absent
    hooks,    \* the webhook configurations: [on, ca]
    filled,   \* the certificates have been generated
    ready,    \* the deployments with a ready Pod
    queue,    \* the names to reconcile
    watching, \* the operator has registered its watches since it started
    job,      \* the reconcile under way: [n, cr, pc, todo, plan, failed]
    misread,  \* history: a read of the config map failed and the cache may be behind since
    budget    \* faults still to come

vars == <<crs, uids, config, cached, seen, res, hooks, filled, ready, queue, watching, job, misread, budget>>
clusterVars == <<res, hooks, filled, ready>>

HooksOff == [on |-> FALSE, ca |-> FALSE]
Unowned == MaxCRs + 1    \* the owner of what no CR owns and nothing collects

Needs(g) == CASE g = "static" -> StaticNeeds \cup ShimNeeds [] g = "server" -> ServerNeeds
              [] g = "controller" -> ControllerNeeds [] g = "hooks" -> HooksNeeds [] g = "certs" -> CertNeeds

\* What the operator is allowed to create or update.
Applicable == {g \in Groups : Needs(g) \subseteq OperatorGrants}

Fault == budget > 0 /\ budget' = budget - 1

Exists(u) == \E n \in Names : crs[n] # None /\ crs[n].uid = u
Present == {n \in Names : crs[n] # None}
Active == {n \in Present : crs[n].phase # "Error"}

\* GetActiveMaroonedPods finds one; with none, or several, the validating
\* webhook is a nil object and listing the resources panics.
GetAllResourcesOK == Cardinality(Active) = 1
-----------------------------------------------------------------------------
(* Users and the cluster.                                                  *)

\* Names are interchangeable: it does not matter which is the first one's.
CreateCR(n) ==
    /\ crs[n] = None
    /\ uids < MaxCRs
    /\ uids = 0 => n = CHOOSE first \in Names : TRUE
    /\ uids' = uids + 1
    /\ crs' = [crs EXCEPT ![n] = [uid |-> uids', phase |-> "Empty", fin |-> FALSE, deleting |-> FALSE]]
    /\ UNCHANGED <<config, cached, seen, clusterVars, queue, watching, job, misread, budget>>

\* Without the operator's finalizer the CR is gone at once.
DeleteCR(n) ==
    /\ crs[n] # None /\ ~crs[n].deleting
    /\ crs' = [crs EXCEPT ![n] = IF @.fin THEN [@ EXCEPT !.deleting = TRUE] ELSE None]
    /\ UNCHANGED <<uids, config, cached, seen, clusterVars, queue, watching, job, misread, budget>>

GarbageCollect(g) ==
    /\ res[g] \in 1..MaxCRs /\ ~Exists(res[g])
    /\ res' = [res EXCEPT ![g] = 0]
    /\ hooks' = IF g = "hooks" THEN HooksOff ELSE hooks
    /\ filled' = (filled /\ g # "certs")
    /\ ready' = ready \ {g}
    /\ UNCHANGED <<crs, uids, config, cached, seen, queue, watching, job, misread, budget>>

CollectConfig ==
    /\ config # None /\ ~Exists(config.uid)
    /\ config' = None
    /\ UNCHANGED <<crs, uids, cached, seen, clusterVars, queue, watching, job, misread, budget>>

SyncCache ==
    /\ cached # config
    /\ cached' = config
    /\ UNCHANGED <<crs, uids, config, seen, clusterVars, queue, watching, job, misread, budget>>

Owner(n) == IF crs[n] = None THEN None ELSE [uid |-> crs[n].uid, deleting |-> crs[n].deleting]
Listed == [n \in Names |-> Owner(n)]

\* The informer learns of the CRs that came, went or are to go, and queues them.
SyncCRs ==
    /\ seen # Listed
    /\ seen' = Listed
    /\ queue' = queue \cup {n \in Names : seen[n] # Owner(n)}
    /\ UNCHANGED <<crs, uids, config, cached, clusterVars, watching, job, misread, budget>>

\* The API server asks the webhooks, which fail closed, about every Pod.
Admitted == hooks.on => "server" \in ready /\ hooks.ca

Grants(d) == IF d = "server" THEN ServerClusterRules \cup ServerRole ELSE ControllerClusterRules \cup ControllerRole
Startable == {d \in Deployments : SecretInformerCalls \subseteq Grants(d)}

\* A Pod of the deployment starts; its certificate's secret is a volume, and
\* a self-signed certificate stands in for an empty one.
BecomeReady(d) ==
    /\ d \in Startable \ ready
    /\ res[d] # 0 /\ res["certs"] # 0
    /\ Admitted
    /\ ready' = ready \cup {d}
    /\ UNCHANGED <<crs, uids, config, cached, seen, res, hooks, filled, queue, watching, job, misread, budget>>

Evict(d) ==
    /\ d \in ready
    /\ Fault
    /\ ready' = ready \ {d}
    /\ UNCHANGED <<crs, uids, config, cached, seen, res, hooks, filled, queue, watching, job, misread>>
-----------------------------------------------------------------------------
(* The reconcile loop.                                                     *)

\* The process starts over: caches are filled and every CR is queued.
Crash ==
    /\ job' = None
    /\ watching' = FALSE
    /\ cached' = config /\ seen' = Listed /\ misread' = FALSE
    /\ queue' = queue \cup Present

OperatorCrash ==
    /\ job # None
    /\ Fault
    /\ Crash
    /\ UNCHANGED <<crs, uids, config, clusterVars>>

Panic == Crash /\ UNCHANGED <<crs, uids, config, clusterVars, budget>>

At(pc) == job # None /\ job.pc = pc
Goto(pc) == job' = [job EXCEPT !.pc = pc]
Done == job' = None /\ UNCHANGED queue
Requeue == job' = None /\ queue' = queue \cup {job.n}

\* An update succeeds only on the version of the CR that was read.
WriteCR(new, next) ==
    IF crs[job.n] = job.cr
    THEN crs' = [crs EXCEPT ![job.n] = new] /\ next
    ELSE crs' = crs /\ Requeue

\* The CR too is read from the cache; one that changes after it was cached is
\* one that changes after the reconcile began.
Begin(n) ==
    /\ job = None
    /\ n \in queue
    /\ queue' = queue \ {n}
    /\ IF seen[n] = None \/ crs[n] = None
       THEN UNCHANGED <<job, watching>>
       ELSE /\ seen[n].uid = crs[n].uid
            /\ watching \/ GetAllResourcesOK
            /\ watching' = TRUE
            /\ job' = [n |-> n, cr |-> crs[n], pc |-> IF crs[n].deleting THEN "delete" ELSE "check",
                       todo |-> {}, plan |-> HooksOff, failed |-> FALSE]
    /\ misread' = (misread /\ cached # config)
    /\ UNCHANGED <<crs, uids, config, cached, seen, clusterVars, budget>>

\* WatchDependantResources lists all resources first.
BeginPanics(n) ==
    /\ job = None
    /\ n \in queue
    /\ seen[n] # None /\ crs[n] # None /\ seen[n].uid = crs[n].uid
    /\ ~watching /\ ~GetAllResourcesOK
    /\ Panic

\* ReconcileDelete: the finalizer is removed; the rest is garbage collection.
ReconcileDelete ==
    /\ At("delete")
    /\ IF ~job.cr.fin
       THEN Done /\ UNCHANGED <<crs, cached, seen, watching, misread>>
       ELSE IF ~GetAllResourcesOK
       THEN Crash /\ UNCHANGED crs
       ELSE crs' = [crs EXCEPT ![job.n] = None] /\ Done /\ UNCHANGED <<cached, seen, watching, misread>>
    /\ UNCHANGED <<uids, config, clusterVars, budget>>

\* IsCreating: there is no config map, or it cannot be read.
IsCreating ==
    /\ At("check")
    /\ Goto("create")
    /\ \/ cached = None /\ UNCHANGED <<misread, budget>>
       \/ Fault /\ misread' = TRUE
    /\ UNCHANGED <<crs, uids, config, cached, seen, clusterVars, queue, watching>>

\* A CR that has got on, and no config map: the CR is in error.
IllegalPhase ==
    /\ At("create") /\ job.cr.phase # "Empty"
    /\ WriteCR([job.cr EXCEPT !.phase = "Error"],
               job' = None /\ queue' = IF job.cr.phase = "Error" THEN queue ELSE queue \cup {job.n})
    /\ UNCHANGED <<uids, config, cached, seen, clusterVars, watching, misread, budget>>

MutOrphans == {g \in Groups : res[g] # 0} \cap Deployments

Orphans == {g \in Groups : res[g] # 0}

\* CheckForOrphans, then the hook that claims the cluster.
PreCreate ==
    /\ At("create") /\ job.cr.phase = "Empty"
    /\ IF ~GetAllResourcesOK
       THEN Crash /\ UNCHANGED config
       ELSE /\ IF Orphans # {} \/ config # None
               THEN Requeue /\ UNCHANGED config
               ELSE config' = [name |-> job.n, uid |-> job.cr.uid] /\ Goto("init") /\ UNCHANGED queue
            /\ UNCHANGED <<cached, seen, watching, misread>>
    /\ UNCHANGED <<crs, uids, clusterVars, budget>>

\* CrInit writes the status, then the finalizer.
CrInitStatus ==
    /\ At("init")
    /\ LET new == [job.cr EXCEPT !.phase = "Deploying"]
       IN  WriteCR(new, job' = [job EXCEPT !.cr = new, !.pc = "finalizer"] /\ UNCHANGED queue)
    /\ UNCHANGED <<uids, config, cached, seen, clusterVars, watching, misread, budget>>

CrInitFinalizer ==
    /\ At("finalizer")
    /\ LET new == [job.cr EXCEPT !.fin = TRUE]
       IN  WriteCR(new, job' = [job EXCEPT !.cr = new, !.pc = "sanity"] /\ UNCHANGED queue)
    /\ UNCHANGED <<uids, config, cached, seen, clusterVars, watching, misread, budget>>

SkipCreate ==
    /\ At("check") /\ cached # None
    /\ Goto("sanity")
    /\ UNCHANGED <<crs, uids, config, cached, seen, clusterVars, queue, watching, misread, budget>>

MutConfigMapOwnerDeleted(cm) == seen[cm.name] = None \/ (seen[cm.name] # None /\ seen[cm.name].deleting)

ConfigMapOwnerDeleted(cm) ==
    IF seen[cm.name] = None THEN TRUE ELSE seen[cm.name].deleting \/ seen[cm.name].uid # cm.uid

\* checkSanity.  It reads the config map again, gives up when that fails, and
\* panics when the cache does not have it yet.
CheckSanity ==
    /\ At("sanity")
    /\ \/ /\ cached = None
          /\ Crash /\ UNCHANGED budget
       \/ /\ cached # None
          /\ IF cached.uid = job.cr.uid
             THEN Goto("update") /\ UNCHANGED queue
             ELSE IF ConfigMapOwnerDeleted(cached) THEN Requeue
             ELSE Goto("unwanted") /\ UNCHANGED queue
          /\ UNCHANGED <<cached, seen, watching, misread, budget>>
       \/ Fault /\ Requeue /\ misread' = TRUE /\ UNCHANGED <<cached, seen, watching>>
    /\ UNCHANGED <<crs, uids, config, clusterVars>>

\* ReconcileError: the CR came after another.
RejectCR ==
    /\ At("unwanted")
    /\ WriteCR([job.cr EXCEPT !.phase = "Error"], Requeue)
    /\ UNCHANGED <<uids, config, cached, seen, clusterVars, watching, misread, budget>>

MutIncludeHooks == TRUE

\* The webhooks are included only while both deployments are ready.
IncludeHooks == ready = Deployments

\* CheckUpgrade (a CR whose first reconcile ended early has no phase yet),
\* then the resources are listed, the webhooks from what is ready now.
GetAllResources ==
    /\ At("update")
    /\ IF ~GetAllResourcesOK
       THEN Crash /\ UNCHANGED crs
       ELSE /\ LET new == [job.cr EXCEPT !.phase = IF @ = "Empty" THEN "Upgrading" ELSE @]
               IN  WriteCR(new, /\ job' = [job EXCEPT !.cr = new, !.pc = "apply", !.todo = Groups,
                                           !.plan = [on |-> IncludeHooks, ca |-> IncludeHooks /\ filled]]
                                /\ UNCHANGED queue)
            /\ UNCHANGED <<cached, seen, watching, misread>>
    /\ UNCHANGED <<uids, config, clusterVars, budget>>

\* Static resources, then the namespaced ones, the webhooks, the secrets.
Tier(g) == CASE g = "static" -> 1 [] g \in Deployments -> 2 [] g = "hooks" -> 3 [] g = "certs" -> 4

\* Create with the CR as the owner, or update and leave the owner alone; an
\* error is kept for the end, and the next resource is taken.
Apply(g) ==
    /\ At("apply")
    /\ g \in job.todo /\ \A h \in job.todo : Tier(g) <= Tier(h)
    /\ \/ /\ g \in Applicable
          /\ res' = [res EXCEPT ![g] = IF @ = 0 THEN job.cr.uid ELSE @]
          /\ hooks' = IF g = "hooks" THEN job.plan ELSE hooks
          /\ job' = [job EXCEPT !.todo = @ \ {g}]
          /\ UNCHANGED budget
       \/ /\ IF g \in Applicable THEN g \in FailingGroups /\ Fault ELSE UNCHANGED budget
          /\ job' = [job EXCEPT !.todo = @ \ {g}, !.failed = TRUE]
          /\ UNCHANGED <<res, hooks>>
    /\ UNCHANGED <<crs, uids, config, cached, seen, filled, ready, queue, watching, misread>>

\* The certificates; a secret that is missing is made without an owner.
SyncPerishables ==
    /\ At("apply") /\ job.todo = {}
    /\ filled' = TRUE
    /\ res' = [res EXCEPT !["certs"] = IF @ = 0 THEN Unowned ELSE @]
    /\ Goto("finish")
    /\ UNCHANGED <<crs, uids, config, cached, seen, hooks, ready, queue, watching, misread, budget>>

\* CheckDegraded, which lists the resources again, and the phase; every way out
\* comes back in a minute.
Finish ==
    /\ At("finish")
    /\ IF ~job.failed /\ ~GetAllResourcesOK
       THEN Crash /\ UNCHANGED crs
       ELSE /\ IF job.failed \/ ready # Deployments
               THEN Requeue /\ UNCHANGED crs
               ELSE WriteCR([job.cr EXCEPT !.phase = "Deployed"], Requeue)
            /\ UNCHANGED <<cached, seen, watching, misread>>
    /\ UNCHANGED <<uids, config, clusterVars, budget>>
-----------------------------------------------------------------------------
Init ==
    /\ crs = [n \in Names |-> None]
    /\ uids = 0
    /\ config = None /\ cached = None /\ seen = [n \in Names |-> None]
    /\ res = [g \in Groups |-> 0]
    /\ hooks = HooksOff
    /\ filled = FALSE
    /\ ready = {}
    /\ queue = {}
    /\ watching = FALSE
    /\ job = None
    /\ misread = FALSE
    /\ budget = MaxFaults

Reconcile ==
    \/ \E n \in Names : Begin(n) \/ BeginPanics(n)
    \/ ReconcileDelete \/ IsCreating \/ IllegalPhase \/ PreCreate \/ CrInitStatus \/ CrInitFinalizer
    \/ SkipCreate \/ CheckSanity \/ RejectCR \/ GetAllResources \/ SyncPerishables \/ Finish
    \/ \E g \in Groups : Apply(g)

Cluster ==
    \/ \E g \in Groups : GarbageCollect(g)
    \/ CollectConfig \/ SyncCache \/ SyncCRs
    \/ \E d \in Deployments : BecomeReady(d)

Next ==
    \/ \E n \in Names : CreateCR(n) \/ DeleteCR(n)
    \/ Reconcile \/ Cluster \/ OperatorCrash
    \/ \E d \in Deployments : Evict(d)

Spec == Init /\ [][Next]_vars

\* The work queue is served in order (a name in it is taken in the end), the
\* cache follows, the garbage collector works, and a deployment whose Pods are
\* admitted gets ready.
FairSpec ==
    /\ Spec /\ WF_vars(Reconcile) /\ WF_vars(Cluster)
    /\ \A n \in Names : SF_vars(Begin(n))
-----------------------------------------------------------------------------
\* Type invariant.
TypeOK ==
    /\ crs \in [Names -> CRs \cup {None}]
    /\ uids \in Nat
    /\ config \in Claims \cup {None}
    /\ cached \in Claims \cup {None}
    /\ seen \in [Names -> Owners \cup {None}]
    /\ res \in [Groups -> Nat]
    /\ hooks \in Switches
    /\ filled \in BOOLEAN
    /\ ready \subseteq Deployments
    /\ queue \subseteq Names
    /\ watching \in BOOLEAN
    /\ job \in Jobs \cup {None}
    /\ misread \in BOOLEAN
    /\ budget \in Nat

Refused == (ControllerCalls \ Grants("controller")) \cup (ServerCalls \ Grants("server")) \cup (ShimCalls \ ShimClusterRules)

\* What runs holds every permission its code uses: once the CR is deployed,
\* no call of the server, the controller or the shim is forbidden.
DeployedMayWork ==
    (\E n \in Names : crs[n] # None /\ crs[n].phase = "Deployed")
        => Refused = {}

\* Installations do not mix: while a CR holds the cluster, every resource of
\* it is that CR's (or, of the certificates, nobody's), whatever was created,
\* deleted and recreated before, and with an operator that has crashed on the
\* way.
NoMixing == config # None => \A g \in Groups : res[g] \in {0, config.uid, Unowned}

EntersError(n) == /\ crs[n] # None /\ crs[n].phase # "Error"
                  /\ crs'[n] # None /\ crs'[n].phase = "Error"

\* A CR that got on is not put into error for want of the config map, however
\* often the operator was interrupted half-way, unless a read of it failed; and
\* the CR that holds the cluster is not turned away for another, nor one that
\* was recreated because of its predecessor, even when the cached config map is
\* an old one: only the cached CRs must have followed.
OnlyUnwantedFail ==
    [][/\ \A n \in Names : EntersError(n) => misread \/ At("unwanted")
       /\ At("sanity") /\ At("unwanted")' /\ seen = Listed
             => config # None /\ config.uid # job.cr.uid /\ Exists(config.uid)]_vars

OneActive(n) == crs[n] # None /\ ~crs[n].deleting /\ Active = {n}

\* The one CR that is not in error gets deployed, whatever an earlier one
\* has left behind and whatever has failed.  (Several such CRs make the
\* operator panic again and again; secrets nobody owns are orphans for ever.)
Deploys ==
    (\E n \in Names : OneActive(n)) ~> \/ ~\E n \in Names : OneActive(n)
                                       \/ \E n \in Names : OneActive(n) /\ crs[n].phase = "Deployed"
                                       \/ res["certs"] = Unowned

\* The webhooks do not shut Pods out for ever: when the server is gone they
\* are switched off until it is back.
AdmissionRecovers == (hooks.on /\ ~Admitted) ~> (Admitted \/ ~\E n \in Names : OneActive(n))
=============================================================================
