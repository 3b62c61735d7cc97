----------------------------- MODULE MCNodeLink -----------------------------
(* Model-checking root for NodeLink; the starts are interchangeable.       *)
EXTENDS NodeLink
=============================================================================
