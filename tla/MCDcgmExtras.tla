---------------------------- MODULE MCDcgmExtras ----------------------------
(* Pods 1, 2, ... on nodes with two GPU slots. *)
EXTENDS DcgmExtras
=============================================================================
