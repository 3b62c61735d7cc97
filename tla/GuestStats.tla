----------------------------- MODULE GuestStats -----------------------------
(***************************************************************************)
(* The usage of a sandbox Pod: the agent samples the processes of a        *)
(* container, the shim's ticker turns each sample into the Pod's one       *)
(* guest-stats annotation, and the server answers metrics.k8s.io from the  *)
(* annotation unless it is stale.                                          *)
(*                                                                         *)
(* Time is counted in ticker periods; the annotation carries its age       *)
(* instead of a time stamp.  A rate is the CPU used divided by the time    *)
(* between two samples, in units of 1/Milli.  Two samples of one tick are  *)
(* an instant apart, of which there are Instants in a period.              *)
(***************************************************************************)
EXTENDS Naturals, Sequences, SequencesExt

CONSTANTS
    Ctrs,        \* the containers of the Pod
    CPUs,        \* the most CPU a container uses in a period
    MaxCPU,      \* bound: CPU used by one process
    Milli,       \* units of a rate
    Instants,    \* instants in a period
    StaleAfter,  \* periods after which an annotation is stale
    MaxStarts,   \* bound: starts of containers
    MaxLosses,   \* bound: failing API calls, shim restarts and VM crashes
    NoSnap, Unread

ASSUME StatsAssumption == CPUs \in Nat /\ Milli \in Nat /\ Instants \in Nat \ {0} /\ StaleAfter \in Nat

VARIABLES
    procs,    \* each container's process: [on, cpu]
    vmUp,     \* the VM runs and its agent answers
    store,    \* the containers in the shim's store
    due,      \* the ticker has fired
    samples,  \* what CollectGuestStats returned and is not published yet
    prev,     \* the annotation read for the sample under way, or Unread
    snap,     \* the guest-stats annotation: [cpu, rate, age]
    starts, losses

statsVars == <<procs, vmUp, store, due, samples, prev, snap, starts, losses>>

AgeCap == StaleAfter + 1
Aged(s) == IF s = NoSnap THEN s ELSE [s EXCEPT !.age = IF @ < AgeCap THEN @ + 1 ELSE @]

StatsStale(s) == s.age > StaleAfter

\* The server lists the Pod's metrics.
Published == snap # NoSnap /\ ~StatsStale(snap)
-----------------------------------------------------------------------------
StartCtr(c) ==
    /\ vmUp /\ ~procs[c].on /\ starts > 0
    /\ procs' = [procs EXCEPT ![c] = [on |-> TRUE, cpu |-> 0]]
    /\ store' = store \cup {c}
    /\ starts' = starts - 1
    /\ UNCHANGED <<vmUp, due, samples, prev, snap, losses>>

ExitCtr(c) ==
    /\ procs[c].on
    /\ procs' = [procs EXCEPT ![c].on = FALSE]
    /\ UNCHANGED <<vmUp, store, due, samples, prev, snap, starts, losses>>

VMCrash ==
    /\ vmUp /\ losses > 0
    /\ vmUp' = FALSE
    /\ procs' = [c \in Ctrs |-> [on |-> FALSE, cpu |-> 0]]
    /\ losses' = losses - 1
    /\ UNCHANGED <<store, due, samples, prev, snap, starts>>

\* The store is only in memory, and so is the work under way.
RestartShim ==
    /\ losses > 0
    /\ store' = {} /\ samples' = <<>> /\ prev' = Unread /\ due' = FALSE
    /\ losses' = losses - 1
    /\ UNCHANGED <<procs, vmUp, snap, starts>>

\* A period passes.
PassTime ==
    /\ \E used \in [Ctrs -> 0..CPUs] :
          procs' = [c \in Ctrs |-> IF procs[c].on /\ procs[c].cpu + used[c] <= MaxCPU
                                   THEN [procs[c] EXCEPT !.cpu = @ + used[c]] ELSE procs[c]]
    /\ due' = TRUE
    /\ snap' = Aged(snap)
    /\ prev' = IF prev = Unread THEN prev ELSE Aged(prev)
    /\ UNCHANGED <<vmUp, store, samples, starts, losses>>
-----------------------------------------------------------------------------
\* stats: of a process that is gone only the pid is left, and nothing of it
\* can be read: a sample of zeros.
SampleProcessTree(c) == IF procs[c].on THEN procs[c].cpu ELSE 0

\* ContainerStats of every container in the store; one that cannot be asked
\* is left out.
CollectGuestStats ==
    /\ due /\ samples = <<>>
    /\ due' = FALSE
    /\ samples' = IF vmUp THEN [i \in 1..Len(SetToSeq(store)) |-> SampleProcessTree(SetToSeq(store)[i])]
                  ELSE <<>>
    /\ UNCHANGED <<procs, vmUp, store, prev, snap, starts, losses>>

\* annotateGuestStats reads the Pod, and gives the sample up on an error.
GetSnap ==
    /\ samples # <<>> /\ prev = Unread
    /\ prev' = snap
    /\ UNCHANGED <<procs, vmUp, store, due, samples, snap, starts, losses>>

\* The time since a sample that is so many periods old.
Elapsed(age) == IF age = 0 THEN 1 ELSE age * Instants

MutMergeSampleAt(old, cpu) ==
    IF old = NoSnap THEN [cpu |-> cpu, rate |-> 0, age |-> 0]
    ELSE IF cpu > old.cpu
    THEN [cpu |-> cpu, rate |-> ((cpu - old.cpu) * Milli * Instants) \div Elapsed(old.age), age |-> 0]
    ELSE [cpu |-> cpu, rate |-> old.rate, age |-> 0]

\* A counter that fell (another process or another container's) keeps the
\* rate; the sample is the next one's base all the same.
MergeSampleAt(old, cpu) ==
    IF old = NoSnap THEN [cpu |-> cpu, rate |-> 0, age |-> 0]
    ELSE IF cpu >= old.cpu
    THEN [cpu |-> cpu, rate |-> ((cpu - old.cpu) * Milli * Instants) \div Elapsed(old.age), age |-> 0]
    ELSE [cpu |-> cpu, rate |-> old.rate, age |-> 0]

\* ... and patches it; the error of either call only loses the sample.
PatchSnap ==
    /\ samples # <<>> /\ prev # Unread
    /\ snap' = MergeSampleAt(prev, Head(samples))
    /\ samples' = Tail(samples) /\ prev' = Unread
    /\ UNCHANGED <<procs, vmUp, store, due, starts, losses>>

LoseSample ==
    /\ samples # <<>> /\ losses > 0
    /\ losses' = losses - 1
    /\ samples' = Tail(samples) /\ prev' = Unread
    /\ UNCHANGED <<procs, vmUp, store, due, snap, starts>>
-----------------------------------------------------------------------------
StatsInit ==
    /\ procs = [c \in Ctrs |-> [on |-> FALSE, cpu |-> 0]]
    /\ vmUp = TRUE
    /\ store = {}
    /\ due = FALSE
    /\ samples = <<>> /\ prev = Unread /\ snap = NoSnap
    /\ starts = MaxStarts /\ losses = MaxLosses

Ticker == CollectGuestStats \/ GetSnap \/ PatchSnap

StatsNext ==
    \/ \E c \in Ctrs : StartCtr(c) \/ ExitCtr(c)
    \/ VMCrash \/ RestartShim \/ PassTime \/ Ticker \/ LoseSample
-----------------------------------------------------------------------------
\* A Pod whose processes are all gone is shown as idle, not with the rate of
\* its last busy period for ever: the shim keeps refreshing the annotation of
\* an exited container, so it never gets stale.
ExitedIsIdle ==
    (\A c \in Ctrs : ~procs[c].on) ~> (~Published \/ snap.rate = 0 \/ \E c \in Ctrs : procs[c].on)

\* Without a guest to ask (the VM died, or the shim has forgotten its
\* containers) the Pod leaves the metrics: no number outlives its source.
NoSourceNoMetrics == (~vmUp \/ store = {}) ~> (~Published \/ (vmUp /\ store # {}))

\* What metrics publishes follows the guest: no number outlives the process,
\* the VM or the shim's container it was sampled from.
StatsFollowGuest == ExitedIsIdle /\ NoSourceNoMetrics
=============================================================================
