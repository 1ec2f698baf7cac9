---------------------------- MODULE MCTfsServer -----------------------------
(***************************************************************************)
(* TfsServer for TLC: the clients are interchangeable model values.        *)
(***************************************************************************)
EXTENDS TfsServer, TLC

ClientSymmetry == Permutations(Clients)
=============================================================================
