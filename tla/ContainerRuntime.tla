-------------------------- MODULE ContainerRuntime --------------------------
(***************************************************************************)
(* What an OCI runtime promises CRI-O about the instances of a container:  *)
(* each is created, run, stopped and removed, in this order, and the next  *)
(* one is created only when the end of those before has been reported.     *)
(* Its process is launched after it was run, once, and does not come back. *)
(*                                                                         *)
(* How the runtime knows (files, a pause process, a helper, the shim and   *)
(* the agent) is left to OciLifecycle, which implements this module.       *)
(***************************************************************************)
EXTENDS Naturals

CONSTANTS
    N,         \* instances of the container
    ExitCodes, \* what the end of one may be reported as
    Unknown    \* no exit code reported yet

VARIABLES
    phase,     \* absent, created, running, stopped, gone
    code,      \* the exit code reported
    process    \* none, live, dead

cvars == <<phase, code, process>>

Ids == 1..N

Create(i) ==
    /\ phase[i] = "absent"
    /\ \A j \in 1..(i - 1) : code[j] # Unknown
    /\ phase' = [phase EXCEPT ![i] = "created"]
    /\ UNCHANGED <<code, process>>

Run(i) ==
    /\ phase[i] = "created"
    /\ phase' = [phase EXCEPT ![i] = "running"]
    /\ UNCHANGED <<code, process>>

Launch(i) ==
    /\ phase[i] \notin {"absent", "created"} /\ process[i] = "none"
    /\ process' = [process EXCEPT ![i] = "live"]
    /\ UNCHANGED <<phase, code>>

\* One ends by itself, all with their VM.
End(S) ==
    /\ \A i \in S : process[i] = "live"
    /\ process' = [i \in Ids |-> IF i \in S THEN "dead" ELSE process[i]]
    /\ UNCHANGED <<phase, code>>

Stop(i) ==
    /\ phase[i] = "running"
    /\ phase' = [phase EXCEPT ![i] = "stopped"]
    /\ UNCHANGED <<code, process>>

\* The exit code may be reported more than once, the last time from a delete.
Report(i) ==
    /\ phase[i] \notin {"absent", "created"}
    /\ \E c \in ExitCodes : code' = [code EXCEPT ![i] = c]
    /\ UNCHANGED <<phase, process>>

Remove(i) ==
    /\ phase[i] \in {"running", "stopped"} /\ code[i] # Unknown
    /\ phase' = [phase EXCEPT ![i] = "gone"]
    /\ \E c \in ExitCodes : code' = [code EXCEPT ![i] = c]
    /\ UNCHANGED process

\* A last note of the end may leave the directory of a removed instance.
Linger(i) ==
    /\ phase[i] = "gone"
    /\ phase' = [phase EXCEPT ![i] = "stopped"]
    /\ UNCHANGED <<code, process>>

CInit ==
    /\ phase = [i \in Ids |-> "absent"]
    /\ code = [i \in Ids |-> Unknown]
    /\ process = [i \in Ids |-> "none"]

CNext ==
    /\ phase' # phase \/ code' # code \/ process' # process
    /\ \/ \E i \in Ids : Create(i) \/ Run(i) \/ Launch(i) \/ Stop(i) \/ Report(i) \/ Remove(i) \/ Linger(i)
       \/ \E S \in SUBSET Ids : End(S)

CSpec == CInit /\ [][CNext]_cvars
=============================================================================
