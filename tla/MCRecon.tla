------------------------------- MODULE MCRecon -------------------------------
(* An instance of Recon for TLC: two reconcilers and their lock.           *)
EXTENDS Recon

CONSTANTS r1, r2

=============================================================================
