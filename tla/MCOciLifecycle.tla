--------------------------- MODULE MCOciLifecycle ---------------------------
(* Instances of OciLifecycle for TLC: the constants are numbers and        *)
(* switches that the configurations set.                                   *)
EXTENDS OciLifecycle

\* A state constraint: of an agent restart and the death of a VM a behaviour
\* has one, whichever it is, and what follows a second is not explored.
OneFault == (MaxAgentCrashes - budget.agent) + (MaxVMDeaths - budget.vm) <= 1
=============================================================================
