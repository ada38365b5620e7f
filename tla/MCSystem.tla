------------------------------ MODULE MCSystem ------------------------------
(***************************************************************************)
(* Model checking of the contract and the backend together, on the         *)
(* customers and amounts of MCOffRamp: nobody changes the configuration,   *)
(* and orders may expire at the second block.                              *)
(***************************************************************************)
EXTENDS MCOffRampEvents, System

SystemDefaults == [MCDefaults EXCEPT !.expiry = 0]

=============================================================================
