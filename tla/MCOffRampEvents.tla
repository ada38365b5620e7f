-------------------------- MODULE MCOffRampEvents --------------------------
(***************************************************************************)
(* Model checking of OffRamp together with the events it prints, on the    *)
(* instances of MCOffRamp.                                                 *)
(***************************************************************************)
EXTENDS MCOffRamp, OffRampEvents

=============================================================================
