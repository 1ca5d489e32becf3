-------------------------------- MODULE MCBench --------------------------------
(***************************************************************************)
(* Bench on a small instance.                                               *)
(***************************************************************************)
EXTENDS Bench, TLC

==============================================================================
