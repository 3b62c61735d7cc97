---------------------------- MODULE MCSmallParts ----------------------------
(* Model-checking root for five modules that share no state: the guest's   *)
(* statistics, its logs, commands run in it, the forwarded ports and the   *)
(* certificates.  A behaviour is one of one of them, the others at rest.   *)
EXTENDS GuestStats, GuestLogs, ExecSession, PortForward, CertRotation

VARIABLE part

allVars == <<part, statsVars, logsVars, execVars, fwdVars, certVars>>

\* Two versions of the CR's certConfig: the defaults, 48 h renewed after 24 h
\* and 24 h renewed after 12 h, in steps of three hours; then another one.
ThreeHours ==
    <<[ca |-> [duration |-> 16, renewBefore |-> 8], server |-> [duration |-> 8, renewBefore |-> 4]],
      [ca |-> [duration |-> 6, renewBefore |-> 2], server |-> [duration |-> 4, renewBefore |-> 1]]>>

\* The defaults rotate without a gap.
ASSUME RotationAssumption == SafeRotation

Init ==
    /\ part \in {"stats", "logs", "execs", "ports", "certs"}
    /\ StatsInit /\ LogsInit /\ ExecInit /\ ForwardInit /\ CertInit

StatsStep(A) == part = "stats" /\ A /\ UNCHANGED <<part, logsVars, execVars, fwdVars, certVars>>
LogsStep(A) == part = "logs" /\ A /\ UNCHANGED <<part, statsVars, execVars, fwdVars, certVars>>
ExecsStep(A) == part = "execs" /\ A /\ UNCHANGED <<part, statsVars, logsVars, fwdVars, certVars>>
PortsStep(A) == part = "ports" /\ A /\ UNCHANGED <<part, statsVars, logsVars, execVars, certVars>>
CertsStep(A) == part = "certs" /\ A /\ UNCHANGED <<part, statsVars, logsVars, execVars, fwdVars>>

Next ==
    \/ StatsStep(StatsNext) \/ LogsStep(LogsNext) \/ ExecsStep(ExecNext)
    \/ PortsStep(ForwardNext) \/ CertsStep(CertNext)

\* The shim's ticker, the log pump, the shim's and the agent's handlers, the pause's
\* loop, the operator and the informers run, and time passes for the ticker.  Only one part moves, so
\* one condition is about one process of each.
FairSpec ==
    /\ Init /\ [][Next]_allVars
    /\ WF_allVars(StatsStep(PassTime) \/ LogsStep(Pump) \/ PortsStep(SyncForward)
                     \/ ExecsStep(\E e \in Execs : ServeExec(e)) \/ CertsStep(Rotation \/ OperatorStarts))
    /\ WF_allVars(StatsStep(Ticker) \/ PortsStep(Forwarding) \/ CertsStep(ServerSync))
=============================================================================
