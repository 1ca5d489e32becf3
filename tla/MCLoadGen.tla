------------------------------- MODULE MCLoadGen -------------------------------
(***************************************************************************)
(* LoadGen on a small instance.                                             *)
(***************************************************************************)
EXTENDS LoadGen, TLC

==============================================================================
