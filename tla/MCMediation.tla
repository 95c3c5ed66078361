--------------------------- MODULE MCMediation ---------------------------
(* Instances of Mediation for TLC: requests and operations are model values. *)
EXTENDS Mediation
===========================================================================
