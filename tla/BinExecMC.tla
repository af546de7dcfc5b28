------------------------------- MODULE BinExecMC -------------------------------
(***************************************************************************)
(* Instance of BinExec for TLC.                                            *)
(***************************************************************************)
EXTENDS BinExec, TLC

Symmetry == Permutations(Pool) \cup Permutations(Names)
=============================================================================
