--------------------------- MODULE MCMultiScript ----------------------------
(***************************************************************************)
(* Instances of MultiScript for TLC.                                       *)
(***************************************************************************)
EXTENDS MultiScript

=============================================================================
