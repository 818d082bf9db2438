----------------------------- MODULE MCTolClient -----------------------------
(***************************************************************************)
(* Instance of TolClient for TLC: clusters of no host, of one and of two.   *)
(***************************************************************************)
EXTENDS TolClient

CONSTANTS h1, h2

NoCluster == <<>>
OneHost == <<h1>>
TwoHosts == <<h1, h2>>
=============================================================================
