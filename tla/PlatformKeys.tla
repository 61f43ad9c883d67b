---------------------------- MODULE PlatformKeys ----------------------------
(***************************************************************************)
(* The keys the components share.  An environment key is what the control  *)
(* plane puts in a push, what the store indexes by, and what a client      *)
(* names in its stream request.                                            *)
(***************************************************************************)
CONSTANT Environments

ASSUME EnvironmentsAssumption == Environments # {}
=============================================================================
