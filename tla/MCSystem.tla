------------------------------ MODULE MCSystem ------------------------------
(* Instances of System for TLC.                                            *)
EXTENDS System, TLC

CONSTANTS w1, w2, q1, r1, r2

OneWorker == (w1 :> Client)
WorkerEach == (w1 :> {1}) @@ (w2 :> {2})

=============================================================================
