------------------------------ MODULE MCUpdSvr ------------------------------
(* Instances of UpdSvr for TLC: two workers that serve a client each.      *)
EXTENDS UpdSvr, TLC

CONSTANTS c1, c2, w1, w2

MCServes == (w1 :> {c1}) @@ (w2 :> {c2})

=============================================================================
