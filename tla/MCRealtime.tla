------------------------------ MODULE MCRealtime ------------------------------
(***************************************************************************)
(* Realtime on a small instance: one source restarts, the other does not.  *)
(***************************************************************************)
EXTENDS Realtime, TLC

CONSTANTS p1, p2

MCEpochs == p1 :> {1, 2} @@ p2 :> {1}

===============================================================================
