------------------------ MODULE MCOperatorLifecycle ------------------------
(* Model-checking root for OperatorLifecycle.                              *)
EXTENDS OperatorLifecycle
=============================================================================
