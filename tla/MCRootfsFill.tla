---------------------------- MODULE MCRootfsFill ----------------------------
(* Instances of RootfsFill for TLC: the constants are numbers and switches *)
(* that the configurations set.                                            *)
EXTENDS RootfsFill
=============================================================================
