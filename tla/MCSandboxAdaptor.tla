-------------------------- MODULE MCSandboxAdaptor --------------------------
(* Instances of SandboxAdaptor for TLC: one name used by up to two Pods.   *)
EXTENDS SandboxAdaptor, TLC

CONSTANT ThePod  \* the one name

\* Every UID of the instance is a Pod of that name.
OneName == [u \in UIDs |-> ThePod]

\* Workers are interchangeable, and so are the UIDs of one name.
Symmetric == Permutations(Workers) \cup Permutations(UIDs)
=============================================================================
