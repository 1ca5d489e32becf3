------------------------------- MODULE MCServing -------------------------------
(***************************************************************************)
(* Serving with two launches: the first still has to find a daemon and has  *)
(* one request to send, the second has found one and has two.               *)
(***************************************************************************)
EXTENDS Serving, TLC

CONSTANTS l1, l2

MCLaunchers == {l1, l2}
MCProbed    == {l2}
MCMaxCalls  == l1 :> 1 @@ l2 :> 2

================================================================================
