------------------------------ MODULE MCTequila ------------------------------
(***************************************************************************)
(* Instance of TequilaProcesses for TLC: a process that writes an element   *)
(* of its own, and one it shares with the other process.                    *)
(***************************************************************************)
EXTENDS TequilaProcesses, TLC

CONSTANTS p1, p2, own, common

MCProcs == {p1, p2}
MCKeys == {own, common}
MCWriters == (own :> {p1}) @@ (common :> {p1, p2})
=============================================================================
